------------------------------ MODULE BootEntry ------------------------------
(***************************************************************************)
(* The creation of boot entries (creator.c): an application asks for the   *)
(* size of a device path, then for the path, and puts it into a load       *)
(* option or appends to it.  The library looks at the device in sysfs      *)
(* (SysfsProbe), reads the partition table block after block (PartTable)   *)
(* while another program may be changing it, and puts the nodes into the   *)
(* caller's buffer (DevicePath).                                           *)
(*                                                                         *)
(* A case is one machine, disk and call: [m, disk, edits, entry, mounts,   *)
(* file, node, part, opts, rel, truth].  edits are the blocks the other    *)
(* program is going to write, in any order.  truth are the kinds of the    *)
(* nodes the full path of the device has.                                  *)
(***************************************************************************)
EXTENDS SysfsProbe, PartTable, DevicePath

CONSTANTS Cases,       \* the cases
          Slack,       \* what a buffer may have more than was asked for
          NewSig,      \* the signature the library makes: not 0
          OptSizes,    \* [desc, held, kind, n]: descriptions, what is in the buffer, optional data
          Others       \* paths and nodes the application appends

\* A header that counts no entries would make validate_nptes divide by zero.
ASSUME HeadersCount == \A c \in Cases : \A d \in {c.disk, c.edits} : \A l \in DOMAIN d : d[l].t = "hdr" => d[l].n > 0
ASSUME SigAssumption == NewSig # 0

VARIABLES case, disk, edits,   \* the case, the disk, what is still to be written
          pc,                  \* the library's step
          size, off, buf,      \* the caller's buffer: its size, and what is in it
          opts, dev, scan, rd, \* the options, struct device, device_get, what was read
          ret, asked,          \* the result, and what a size of 0 gave
          moved, fault,        \* the disk changed during the call; a call failed
          app                  \* what the application did with the path

vars == << case, disk, edits, pc, size, off, buf, opts, dev, scan, rd, ret, asked, moved, fault, app >>
call == << size, off, buf, opts, dev, scan, rd >>

None == <<>>

-----------------------------------------------------------------------------
(* find_file, find_parent_devpath and get_part.                            *)

\* find_file: the first mount of the file's device whose directory the path
\* begins with.  Paths are sequences of pieces.
FindFile(mounts, file) ==
  LET fits == {i \in 1..Len(mounts) : /\ mounts[i].dev = file.dev
                                      /\ Len(mounts[i].dir) < Len(file.path)
                                      /\ IsPrefix(mounts[i].dir, file.path)}
  IN IF fits = {} THEN [ok |-> FALSE]
     ELSE LET i == CHOOSE i \in fits : \A j \in fits : i <= j
          IN [ok |-> TRUE, dev |-> mounts[i].dev, rel |-> SubSeq(file.path, Len(mounts[i].dir) + 1, Len(file.path))]

\* open(/dev/name).
NodeOf(m, name) == IF name \in DOMAIN m.node THEN m.node[name] ELSE [kind |-> "missing", link |-> <<>>, major |-> 0, minor |-> 0, number |-> -1]

\* find_parent_devpath, and the choice of the child where that is /dev/block.
ParentOf(link, child) == LET p == PathSeg(link, 2) IN IF p = "block" THEN child ELSE p

\* get_part: no partition is partition 0.
GetPartRaw(d) == d.part
GetPart(d) == IF d.part < 0 THEN 0 ELSE d.part

-----------------------------------------------------------------------------
(* Putting nodes into the buffer.                                          *)

\* efidp_make_generic(buf + off, size ? size - off : 0): room 0 asks for the
\* length only, which is also what happens when the buffer is full.
RoomLess(b) == IF size = 0 THEN 0 ELSE size - b.off - 1
RoomWhole(b) == size
Room(b) == IF size = 0 THEN 0 ELSE size - b.off
Make(b, n) ==
  IF ~b.ok THEN b
  ELSE IF Room(b) = 0 THEN [b EXCEPT !.off = @ + n.len]
  ELSE IF Room(b) < n.len THEN [b EXCEPT !.ok = FALSE]
  ELSE [ok |-> TRUE, off |-> b.off + n.len, buf |-> Append(b.buf, n)]
MakeAll(nodes) == FoldLeft(Make, [ok |-> TRUE, off |-> off, buf |-> buf], nodes)

\* make_blockdev_path.
BlockdevPath(d) == FoldLeft(LAMBDA p, probe : p \o Create(probe, d), <<>>, d.probes)
\* efidp_make_file: a name of n pieces.
MakeFile(n) == [k |-> "file", len |-> 4 + 2 * (n + 1)]

-----------------------------------------------------------------------------
(* The call.                                                               *)

\* The call is over.
Return(r) == pc' = "done" /\ ret' = r /\ asked' = IF size = 0 THEN r ELSE asked
Fail == Return(-1) /\ UNCHANGED << case, disk, edits, moved, fault, app, call >>
Faulty == Return(-1) /\ fault' = TRUE /\ UNCHANGED << case, disk, edits, moved, app, call >>

Init ==
  /\ case \in Cases /\ disk = case.disk /\ edits = case.edits
  /\ pc = "idle" /\ size = 0 /\ off = 0 /\ buf = <<>> /\ opts = {} /\ dev = None /\ scan = None /\ rd = None
  /\ ret = -1 /\ asked = -1 /\ moved = FALSE /\ fault = FALSE /\ app = None

\* The caller asks for the size, and then calls with a buffer.
Begin ==
  /\ \/ pc = "idle" /\ size' = 0
     \/ pc = "done" /\ size = 0 /\ asked > 0 /\ app = None
        /\ \E s \in {asked + d : d \in Slack} : s > 0 /\ size' = s
  /\ pc' = "open" /\ off' = 0 /\ buf' = <<>> /\ ret' = -1 /\ moved' = FALSE
  /\ opts' = case.opts /\ dev' = None /\ scan' = None /\ rd' = None
  /\ UNCHANGED << case, disk, edits, asked, fault, app >>

\* make_mac_path: the struct device of the interface is empty, so that the
\* PCI probe makes no nodes.
MakeMacPath == CreatePci([npci |-> 0]) \o << MakeMacAddr >>

\* efi_generate_ipv4_device_path.
Ipv4 ==
  /\ pc = "open" /\ case.entry = "ipv4"
  /\ LET b == MakeAll(MakeMacPath \o << MakeIpv4, MakeEnd >>)
     IN Return(IF b.ok THEN b.off ELSE -1) /\ off' = b.off /\ buf' = b.buf
  /\ UNCHANGED << case, disk, edits, moved, fault, app, size, opts, dev, scan, rd >>

\* efi_generate_file_device_path: the device of the file, for get_part; the
\* other entry is given a device.
Open ==
  /\ pc = "open" /\ case.entry # "ipv4"
  /\ LET f == FindFile(case.mounts, case.file) IN
     IF case.entry = "file" /\ ~f.ok THEN Fail
     ELSE /\ IF case.entry = "file" THEN scan' = Opened(NodeOf(case.m, f.dev), -1) /\ dev' = [part |-> -1, rel |-> Len(f.rel)]
                                    ELSE scan' = Opened(NodeOf(case.m, case.node), case.part) /\ dev' = [part |-> case.part, rel |-> case.rel]
          /\ pc' = IF case.entry = "file" THEN "getpart" ELSE "device"
          /\ UNCHANGED << case, disk, edits, moved, fault, app, size, off, buf, opts, rd, ret, asked >>

\* device_get, a probe per step.
Probe ==
  /\ pc \in {"getpart", "device"} /\ scan.st = "go" /\ scan' = Round(case.m, scan)
  /\ UNCHANGED << case, disk, edits, moved, fault, app, pc, size, off, buf, opts, dev, rd, ret, asked >>

\* find_parent_devpath; the partition is the one of the file's device.
Parent ==
  /\ pc = "getpart" /\ scan.st # "go"
  /\ IF scan.st = "fail" THEN Fail
     ELSE /\ dev' = [dev EXCEPT !.part = GetPart(scan.d)]
          /\ scan' = Opened(NodeOf(case.m, ParentOf(scan.d.link, FindFile(case.mounts, case.file).dev)), GetPart(scan.d))
          /\ pc' = "device" /\ UNCHANGED << case, disk, edits, moved, fault, app, size, off, buf, opts, rd, ret, asked >>

\* efi_va_generate_file_device_path_from_esp has its device: a partition of
\* -1 is looked for.
Device ==
  /\ pc = "device" /\ scan.st # "go"
  /\ IF scan.st = "fail" THEN Fail
     ELSE /\ dev' = [d |-> scan.d, part |-> dev.part, rel |-> dev.rel]
          /\ IF dev.part < 0 THEN pc' = "mbr" /\ rd' = [goal |-> "partitioned", opts |-> {}, num |-> 1]
                             ELSE pc' = "nodes" /\ UNCHANGED rd
          /\ scan' = None /\ UNCHANGED << case, disk, edits, moved, fault, app, size, off, buf, opts, ret, asked >>

\* set_part, the options, and the nodes before HD().
MakeNodes ==
  /\ pc = "nodes"
  /\ LET d == SetPart(dev.d, dev.part)
         o == IF dev.part = 0 THEN (opts \ {"HD", "FILE", "EDD10"}) \cup {"NONE"} ELSE opts
         b == MakeAll(IF o \cap {"FILE", "HD"} # {} THEN <<>>
                      ELSE IF "EDD10" \in o THEN << MakeEdd10 >> ELSE BlockdevPath(d))
         hd == ("FILE" \notin o /\ d.named) \/ ("HD" \in o /\ ~d.named)
     IN IF (o \cap {"FILE", "HD"} = {} /\ d.abbrev) \/ ~b.ok THEN Fail
        ELSE /\ dev' = [dev EXCEPT !.d = d] /\ opts' = o /\ off' = b.off /\ buf' = b.buf
             /\ IF hd /\ d.part > 0 THEN pc' = "mbr" /\ rd' = [goal |-> "hd", opts |-> o, num |-> d.part]
                                    ELSE pc' = "tail" /\ UNCHANGED rd
             /\ UNCHANGED << case, disk, edits, moved, fault, app, size, scan, ret, asked >>

\* File() and the end.
MakeTailOpen ==
  /\ pc = "tail"
  /\ LET b == MakeAll(<< MakeFile(dev.rel) >>)
     IN Return(IF b.ok THEN b.off ELSE -1) /\ off' = b.off /\ buf' = b.buf
  /\ UNCHANGED << case, disk, edits, moved, fault, app, size, opts, dev, scan, rd >>
MakeTail ==
  /\ pc = "tail"
  /\ LET b == MakeAll(<< MakeFile(dev.rel), MakeEnd >>)
     IN Return(IF b.ok THEN b.off ELSE -1) /\ off' = b.off /\ buf' = b.buf
  /\ UNCHANGED << case, disk, edits, moved, fault, app, size, opts, dev, scan, rd >>

-----------------------------------------------------------------------------
(* get_partition_info: the table, a block per step.                        *)

Reading == UNCHANGED << case, disk, edits, moved, fault, app, size, off, buf, opts, dev, scan, ret, asked >>

\* open_disk and the first block, which is kept for later.
ReadMbr ==
  /\ pc = "mbr" /\ dev.d.disk \in DOMAIN case.m.node
  /\ rd' = [goal |-> rd.goal, opts |-> rd.opts, num |-> rd.num, mbr |-> disk[0], slot |-> "p", lba |-> 1, again |-> FALSE,
            h |-> [t |-> "none"], p |-> [ok |-> FALSE], a |-> [ok |-> FALSE], g |-> [ok |-> FALSE]]
  /\ pc' = "header" /\ Reading

\* find_valid_gpt goes on when one is_gpt_valid has given t.
Tried(t) ==
  IF rd.slot = "p"
  THEN /\ rd' = [rd EXCEPT !.p = t, !.slot = "a", !.again = t.ok, !.lba = IF t.ok THEN t.h.alt ELSE LastLba(disk)]
       /\ pc' = "header"
  ELSE IF ~t.ok /\ rd.again
  THEN rd' = [rd EXCEPT !.again = FALSE, !.lba = LastLba(disk)] /\ pc' = "header"
  ELSE rd' = [rd EXCEPT !.a = t] /\ pc' = IF rd.p.ok \/ t.ok THEN "pmbr" ELSE "choose"

\* is_gpt_valid: the header ...
ReadHeader ==
  /\ pc = "header"
  /\ LET h == HeaderAt(disk, rd.lba) IN
     IF HeaderValid(h, rd.lba, LastLba(disk)) THEN rd' = [rd EXCEPT !.h = h] /\ pc' = "entries" ELSE Tried([ok |-> FALSE])
  /\ Reading

\* ... and the entries.
ReadEntries ==
  /\ pc = "entries"
  /\ LET cells == EntriesAt(disk, rd.h) IN
     Tried(IF EntriesValid(rd.h, cells) THEN [ok |-> TRUE, h |-> rd.h, cells |-> cells] ELSE [ok |-> FALSE])
  /\ Reading

\* The first block again, and which of the two tables it is.
ReadPmbr ==
  /\ pc = "pmbr"
  /\ rd' = [rd EXCEPT !.g = FindValidGpt(rd.p, rd.a, PmbrValid(disk[0]), "IGNORE_PMBR" \in rd.opts)]
  /\ pc' = "choose" /\ Reading

\* What get_partition_info found is info: is_partitioned, or make_hd_dn.
Got(info) ==
  IF rd.goal = "partitioned"
  THEN /\ dev' = [dev EXCEPT !.part = IF info.ok THEN 1 ELSE 0] /\ pc' = "nodes"
       /\ UNCHANGED << size, off, buf, opts, scan, rd, ret, asked >>
  ELSE LET b == IF info.ok THEN MakeAll(<< MakeHd(info, rd.num) >>) ELSE [ok |-> FALSE] IN
       IF ~b.ok THEN Return(-1) /\ UNCHANGED call
       ELSE off' = b.off /\ buf' = b.buf /\ pc' = "tail" /\ UNCHANGED << size, opts, dev, scan, rd, ret, asked >>

\* get_partition_info: GPT, or else the MBR.
Choose ==
  /\ pc = "choose"
  /\ LET info == GptInfo(rd.g, rd.num) IN
     IF ~info.ok /\ NeedsSignature(rd.mbr, "WRITE_SIG" \in rd.opts)
     THEN pc' = "sign" /\ UNCHANGED << call, ret, asked >>
     ELSE Got(IF info.ok THEN info ELSE MbrInfo(rd.mbr, rd.num))
  /\ UNCHANGED << case, disk, edits, moved, fault, app >>

\* msdos_disk_get_partition_info writes back the block it was given, with a
\* signature; the write may fail.
Sign ==
  /\ pc = "sign"
  /\ LET m == [rd.mbr EXCEPT !.sig = NewSig] IN disk' = [disk EXCEPT ![0] = m] /\ Got(MbrInfo(m, rd.num))
  /\ UNCHANGED << case, edits, moved, fault, app >>

SignFails == pc = "sign" /\ Faulty

\* The disk cannot be opened, or its first block cannot be read, which for
\* is_partitioned means a disk without partitions.
OpenDiskFails == pc = "mbr" /\ Faulty
ReadFails ==
  /\ pc = "mbr" /\ fault' = TRUE /\ Got([ok |-> FALSE])
  /\ UNCHANGED << case, disk, edits, moved, app >>

\* Another program writes a block of the new table; what it does after the
\* application has used the path is of no interest.
Edit == \E l \in DOMAIN edits :
  /\ app = None /\ disk' = [disk EXCEPT ![l] = edits[l]] /\ edits' = [k \in DOMAIN edits \ {l} |-> edits[k]]
  /\ moved' = TRUE
  /\ UNCHANGED << case, pc, call, ret, asked, fault, app >>

-----------------------------------------------------------------------------
(* What the application does with a path that it has got.                  *)

HasPath == pc = "done" /\ size > 0 /\ ret = size /\ app = None
Using == UNCHANGED << case, disk, edits, pc, size, off, opts, dev, scan, rd, ret, asked, moved, fault >>

\* efi_loadopt_create, first for the size and then with the buffer, and with
\* the arguments efi_loadopt_args_* made.
BuildOption == HasPath /\ Using /\ UNCHANGED buf /\ \E o \in OptSizes :
  LET data == OptArgs(o.kind, OptArgs(o.kind, 0, o.n), o.n)
      sz == OptCreate(0, buf, ret, o.desc, o.held, data).rc
  IN app' = << [op |-> "option", desc |-> o.desc, sz |-> sz, data |-> data,
                r |-> OptCreate(sz, buf, ret, o.desc, o.held, data)] >>

\* efidp_append_path, efidp_append_node, efidp_append_instance and
\* efidp_duplicate_path, with the path the library made as either argument.
AppendTo == HasPath /\ Using /\ \E o \in Others, op \in {"path", "node", "inst"}, first \in BOOLEAN :
  LET dp0 == IF first THEN buf ELSE o
      dp1 == IF first THEN o ELSE buf
      r == CASE op = "path" -> AppendPath(dp0, dp1)
             [] op = "node" -> AppendNode(dp0, dp1)
             [] op = "inst" -> AppendInstance(dp0, dp1)
  IN /\ app' = << [op |-> op, dp0 |-> dp0, dp1 |-> dp1, r |-> r] >>
     /\ buf' = IF first THEN r.dp ELSE buf

Next == Begin \/ Ipv4 \/ Open \/ Probe \/ Parent \/ Device \/ MakeNodes \/ MakeTail \/ ReadMbr \/ ReadHeader \/ ReadEntries \/ ReadPmbr
        \/ Choose \/ Sign \/ SignFails \/ OpenDiskFails \/ ReadFails \/ Edit \/ BuildOption \/ AppendTo

Spec == Init /\ [][Next]_vars

-----------------------------------------------------------------------------
(* Properties.                                                             *)

\* A result that fits into the buffer means that all of the path is in it:
\* its only end is its last node, and its size is the result
\* (creator.c:285-300).  A size of 0 writes nothing.
PathComplete == pc = "done" /\ ret >= 0 /\ app = None =>
  IF size = 0 THEN buf = <<>>
  ELSE ret <= size => EndEntire(buf) = Len(buf) /\ NextEnd(buf, 1) = Len(buf) /\ PathSize(buf) = ret

\* A buffer of the size that was asked for is large enough, as long as the
\* disk is what it was and no call fails: both calls take the same way
\* (creator.c:157-310).
AskedSizeFits == pc = "done" /\ size > 0 /\ size >= asked /\ ~fault /\ edits = case.edits => ret = asked

\* The protocol of two calls, one for the size and one for the path, is safe
\* (creator.c:157-310): what is put into the buffer is never longer than it
\* (each node gets what the ones before have left), a success is a complete
\* path, and the first call tells the truth.
BufferRight == Bytes(buf) <= size /\ PathComplete /\ AskedSizeFits

\* The disk when the other program is through.
Final == [l \in DOMAIN case.disk |-> IF l \in DOMAIN case.edits THEN case.edits[l] ELSE case.disk[l]]
HdNodes == {buf[i] : i \in {i \in 1..Len(buf) : buf[i].k = "hd"}}
\* What the tables and the MBR of a disk say about a partition.
Said(d, num) == {GptInfo(TableAt(d, l), num) : l \in {1, LastLba(d)}}
                \cup {MbrInfo(d[0], num), MbrInfo([d[0] EXCEPT !.sig = NewSig], num)}
\* What a disk nobody changes says: the primary table, or else the alternate
\* one, or else the MBR.
Expected(d, num, ignore) ==
  LET p == TableAt(d, 1)
      g == IF p.ok THEN p ELSE TableAt(d, LastLba(d))
  IN IF (PmbrValid(d[0]) \/ ignore) /\ GptInfo(g, num).ok THEN GptInfo(g, num) ELSE MbrInfo(d[0], num)

\* The HD() node is an entry of one table that the disk had, old or new,
\* never one that is damaged or put together from two; when nobody writes
\* to the disk during the call it is the entry of the primary table, or of
\* the alternate one, or of the MBR, in this order (gpt.c:610-753,
\* disk.c:184-234).
HdTruth == (app = None \/ pc # "done") => \A n \in HdNodes :
  LET infos == IF moved THEN Said(case.disk, n.num) \cup Said(Final, n.num)
               ELSE {Expected(disk, n.num, "IGNORE_PMBR" \in case.opts)}
  IN \E i \in infos : i.ok /\ MakeHd(i, n.num) = n

\* The library writes to the disk only when it was told to, only the first
\* block, and only where the disk has no GPT entry for the partition and no
\* signature; unless the block was changed in the meantime, it changes
\* nothing but the signature (disk.c:114-150).
SigOnlyWhenAsked ==
  [][disk' # disk /\ edits' = edits =>
       /\ "WRITE_SIG" \in case.opts /\ \A l \in DOMAIN disk \ {0} : disk'[l] = disk[l]
       /\ ~moved => /\ disk[0].sig = 0 /\ disk'[0] = [disk[0] EXCEPT !.sig = NewSig]
                    /\ Expected(disk, rd.num, "IGNORE_PMBR" \in case.opts) = MbrInfo(disk[0], rd.num)]_vars

\* All of the path is in the buffer.
Complete == pc = "done" /\ app = None /\ size > 0 /\ ret \in 1..size
\* The options the path was made with.
Abbreviated == case.opts \cap {"HD", "FILE"} # {}

\* For a file, the partition in HD() is the one that its file system is on,
\* although the device that is looked at is the whole disk and some probes
\* set the partition from its minor number (linux-scsi.c:184, creator.c:205);
\* for a file system without a partition there is no HD().
PartitionRight == Complete /\ case.entry = "file" =>
  LET number == case.m.node[case.file.dev].number
      want == IF "FILE" \in case.opts THEN {} ELSE IF number > 0 THEN {number} ELSE {}
  IN {n.num : n \in HdNodes} = want

\* The HD() node names the partition it should, by an entry of an intact table.
HdRight == HdTruth /\ PartitionRight

\* A full path has the nodes of the device, in the order of the link: the
\* root, each PCI function, one node for the storage.  A device that does
\* not have such a path gets none (creator.c:227-258, linux.c:608-634).
\* truth is <<>> for eMMC and for an NVMe disk with an unreadable EUI.
FullPathFaithful == pc = "done" /\ case.entry # "ipv4" /\ ~Abbreviated /\ "EDD10" \notin case.opts /\ case.truth # <<>> =>
  /\ case.truth = << "abbrev" >> => ret = -1
  /\ Complete => LET bus == SelectSeq(buf, LAMBDA n : n.k \notin {"hd", "file", "end"})
                 IN [i \in 1..Len(bus) |-> bus[i].k] = case.truth

\* An option that was made is read back as it was made, and the two accessors
\* that know of optional data agree on any number of its bytes, if it has a
\* description or the buffer was cleared before; utf8_to_ucs2 writes no
\* terminator for an empty one although it is asked to (ucs2.h:198), and a reader
\* then goes on into the path.  In any case what the accessors return lies within the bytes they were
\* given (loadopt.c:102-253).
OptRoundTrip == app # None /\ app[1].op = "option" =>
  LET a == app[1] IN
  /\ a.r.rc = a.sz
  /\ LET o == a.r.opt[1]
         start == OptHeader + DescLen(a.desc)
     IN /\ ~o.junk =>
             /\ o.desc = a.desc /\ OptPath(o, a.sz) = start /\ OptPathLen(o, a.sz) = ret
             /\ OptDataSize(o, a.sz) = a.data
             /\ OptData(o, a.sz) = [rc |-> 0, off |-> start + ret, len |-> a.data]
             /\ \A cut \in 0..a.sz : /\ OptDataSize(o, cut) >= 0 <=> OptData(o, cut).rc = 0
                                     /\ OptDataSize(o, cut) >= 0 => OptDataSize(o, cut) = OptData(o, cut).len
        /\ \A cut \in 0..a.sz :
             /\ OptDataSize(o, cut) >= 0 => OptHeader + o.plen + OptDataSize(o, cut) <= cut
             /\ OptData(o, cut).rc = 0 => OptData(o, cut).len >= 0 /\ OptData(o, cut).off + OptData(o, cut).len = cut
             /\ OptPath(o, cut) >= 0 => OptPath(o, cut) + o.plen <= cut

\* The nodes before the end.
Body(p) == SubSeq(p, 1, EndEntire(p) - 1)
\* What efidp_append_path and efidp_append_node return has the nodes of both
\* arguments in their order and one end, and the first argument stays as it
\* was (dp.c:97-242).
AppendRight == app # None /\ app[1].op \in {"path", "node"} /\ app[1].r.rc = 0 =>
  LET a == app[1] IN
  /\ a.r.dp = a.dp0
  /\ a.r.out = Body(a.dp0) \o (IF a.op = "path" THEN Body(a.dp1) ELSE First(a.dp1)) \o << End >>
  /\ a.dp1 # <<>> /\ ~IsMultiInstance(a.dp1) => ~IsMultiInstance(a.r.out) /\ InstanceSize(a.r.out) = PathSize(a.r.out)
=============================================================================
