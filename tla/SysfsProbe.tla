----------------------------- MODULE SysfsProbe -----------------------------
(***************************************************************************)
(* How libefiboot finds out what a block device is: device_get and the     *)
(* probes of linux.c and linux-*.c.                                        *)
(*                                                                         *)
(* The kernel's link /sys/dev/block/MAJ:MIN is a sequence of segments, each *)
(* standing for its form: "pci" is any DDDD:BB:DD.F, "host" any hostN, and *)
(* so on; "../../devices" is the one segment "devices".  "..2" and "..3"   *)
(* are the two- and three-number forms of ports and end devices.  A probe  *)
(* gets the segments not parsed so far and says how many of them are its.  *)
(*                                                                         *)
(* What sysfs says besides the links is the record m of the machine.       *)
(***************************************************************************)
EXTENDS Integers, Sequences, FiniteSets

\* A machine: its device nodes, and what the files the probes look at say.
\* chain[k] says whether device/../device/driver (k times device) exists.
\* sasHosts are the numbers of the hosts with a host_sas_address, expanders
\* those with a directory in class/sas_host.
Machine(nodes) ==
  [node : nodes, driver : {"", "nd_pmem", "pata_x"}, chain : Seq(BOOLEAN), pcidrv : {"", "ahci", "ata_x", "err"},
   hid : {"ok", "noent", "err"}, uid : {"none", "num", "str"}, fwpath : BOOLEAN,
   port : {"ok", "err"}, eui : {"ok", "none", "short"}, uuid : BOOLEAN, scsidev : BOOLEAN,
   sasHosts : SUBSET Nat, expanders : SUBSET Nat, sasaddr : BOOLEAN]

\* dev_probes[], in the order they are tried.
Probes == << "pmem", "acpi_root", "pci_root", "soc_root", "virtual_root", "pci", "virtblk",
             "sas", "sata", "nvme", "ata", "scsi", "i2o", "emmc" >>

\* DEV_PROVIDES_ROOT, DEV_PROVIDES_HD and DEV_ABBREV_ONLY.
Flags(p) == CASE p = "pmem" -> {"root", "hd"}
              [] p \in {"acpi_root", "pci_root"} -> {"root"}
              [] p \in {"soc_root", "virtual_root"} -> {"root", "abbrev"}
              [] p = "pci" -> {}
              [] OTHER -> {"hd"}

\* sscanf of a format that begins where cur does; each part of pat is the
\* set of segments that it accepts.
Matches(cur, pat) == Len(cur) >= Len(pat) /\ \A i \in 1..Len(pat) : cur[i] \in pat[i]

\* pathseg(): segment n from the end, "" where there is none.
PathSeg(link, n) == IF n <= Len(link) THEN link[Len(link) - n + 1] ELSE ""

\* strstr(cur, "/" s "/"): where s begins, 0 where it is not; a segment cur
\* begins with has no slash before it.
Find(cur, s) == LET at == {i \in 2..Len(cur) : cur[i] = s}
                IN IF at = {} THEN 0 ELSE CHOOSE i \in at : \A j \in at : i <= j

\* find_device_file: the loop goes on when it has found the file, one device
\* further, so it can only be left because something is missing: whatever
\* it found, it returns an error.
FindDeviceFile(chain) == [rc |-> -1, found |-> \E k \in 1..Len(chain) : \A j \in 1..k : chain[j]]

\* dev->driver.
Driver(m) == IF FindDeviceFile(m.chain).rc >= 0 THEN m.driver ELSE ""

\* A parser's result: the number of segments (0: not mine, -1: error), and
\* what it did to dev.
Not(d) == [n |-> 0, d |-> d]
Err(d) == [n |-> -1, d |-> d]
Took(k, d) == [n |-> k, d |-> d]

-----------------------------------------------------------------------------
(* The names and the partition number.                                     *)

\* reset_part_name and set_part: a new number takes its name along.
SetPart(d, value) == IF d.part = value THEN d ELSE [d EXCEPT !.part = value, !.named = value >= 1]

\* set_part_name: without a partition there is no name.
Named(d, disk, part) == [d EXCEPT !.disk = disk, !.named = part /\ d.part > 0]

\* set_disk_and_part_name, by the last five segments of the link.
SetDiskAndPartName(d) ==
  LET s(n) == PathSeg(d.link, n) IN
  CASE s(4) = "nvme" \/ s(3) = "block" -> [ok |-> TRUE, d |-> Named(d, s(2), TRUE)]
    [] s(3) = "nvme" \/ s(2) = "block" -> [ok |-> TRUE, d |-> Named(d, s(1), TRUE)]
    [] s(3) = "mtd" \/ s(4) = "nvme-fabrics" \/ s(3) = "nvme-subsystem" -> [ok |-> TRUE, d |-> Named(d, s(1), FALSE)]
    [] s(5) = "nvme-fabrics" \/ s(4) = "nvme-subsystem" -> [ok |-> TRUE, d |-> Named(d, s(2), TRUE)]
    [] OTHER -> [ok |-> FALSE, d |-> d]

-----------------------------------------------------------------------------
(* The probes of the bus.                                                  *)

\* parse_pmem: the driver, the long form of the link, and two UUIDs.
ParsePmem(m, d, cur) ==
  IF Driver(m) # "nd_pmem" THEN Not(d)
  ELSE IF ~Matches(cur, << {"devices"}, {"LNXSYSTM"}, {"LNXSYBUS"}, {"acpi"}, {"ndbus"}, {"region"}, {"btt"} >>) THEN Not(d)
  ELSE IF ~m.uuid THEN Err(d) ELSE Took(7, [d EXCEPT !.iface = "nd_pmem"])

\* parse_acpi_hid_uid: the strings of the root node; hid is needed.
AcpiIds(m, d) == [d EXCEPT !.cidstr = m.fwpath, !.uidstr = (m.hid = "ok" /\ m.uid = "str")]

\* parse_acpi_root: both spellings of the name are tried; when neither
\* exists the probe has matched all the same.
ParseAcpiRoot(m, d, cur) ==
  IF ~Matches(cur, << {"devices"}, {"platform"}, {"acpi"} >>) THEN Not(d)
  ELSE IF m.hid = "err" THEN Err(AcpiIds(m, d)) ELSE Took(3, AcpiIds(m, d))

\* parse_pci_root.
ParsePciRoot(m, d, cur) ==
  IF ~Matches(cur, << {"devices"}, {"pciroot"} >>) THEN Not(d)
  ELSE IF m.hid # "ok" THEN Err(AcpiIds(m, d)) ELSE Took(2, AcpiIds(m, d))

\* parse_soc_root: soc and one node of the device tree.
ParseSocRoot(m, d, cur) ==
  IF Len(cur) < 5 \/ ~Matches(cur, << {"devices"}, {"platform"}, {"soc"} >>) THEN Not(d) ELSE Took(4, d)

\* parse_virtual_root.
ParseVirtualRoot(m, d, cur) ==
  LET k == IF Matches(cur, << {"devices"}, {"virtual"} >>) THEN 2 ELSE 0
      r == SubSeq(cur, k + 1, Len(cur))
  IN IF Matches(r, << {"nvme-subsystem"} >>) THEN Took(k + 1, d)
     ELSE IF Matches(r, << {"nvme-fabrics"}, {"ctl"} >>) THEN Took(k + 2, d) ELSE Not(d)

\* parse_pci: all the functions that follow each other; the driver of the
\* last one is what is_pata asks for.
ParsePciLast(m, d, cur) ==
  LET k == CHOOSE k \in 0..Len(cur) : (\A i \in 1..k : cur[i] = "pci") /\ (k < Len(cur) => cur[k + 1] # "pci")
  IN IF k = 0 THEN Not(d)
     ELSE IF m.pcidrv = "err" THEN Err(d)
     ELSE Took(k, [d EXCEPT !.npci = 1, !.pcidrv = m.pcidrv])
ParsePci(m, d, cur) ==
  LET k == CHOOSE k \in 0..Len(cur) : /\ \A i \in 1..k : cur[i] = "pci"
                                      /\ k < Len(cur) => cur[k + 1] # "pci"
  IN IF k = 0 THEN Not(d)
     ELSE IF m.pcidrv = "err" THEN Err(d)
     ELSE Took(k, [d EXCEPT !.npci = @ + k, !.pcidrv = m.pcidrv])

-----------------------------------------------------------------------------
(* The probes of the storage.                                              *)

\* is_pata.
IsPata(m, d) == Driver(m) \in {"pata_x", "ata_x"} \/ (d.npci > 0 /\ d.pcidrv \in {"pata_x", "ata_x"})

\* parse_virtblk.
ParseVirtblk(m, d, cur) == IF Matches(cur, << {"virtio"} >>) THEN Took(1, [d EXCEPT !.iface = "virtblk"]) ELSE Not(d)

\* parse_scsi_link: the number of segments up to H:C:T:L, -1 where the form
\* is another one.  remote says whether the caller wants to know about the
\* expander.  Of the host's number only its place in the text is kept, 0.
ScsiLink(cur, remote) ==
  LET at(i, S) == i <= Len(cur) /\ cur[i] \in S
      port == IF at(2, {"port2", "port3"}) THEN 3 ELSE 2
      exp  == at(port, {"expander"})
      dev  == IF exp THEN port + 2 ELSE port
      tgt  == IF at(dev, {"end2", "end3"}) THEN dev + 1 ELSE dev
  IN IF at(1, {"host"}) /\ (exp => remote /\ at(port + 1, {"port3"})) /\ at(tgt, {"target"}) /\ at(tgt + 1, {"scsi"})
     THEN [n |-> tgt + 1, host |-> 0] ELSE [n |-> -1, host |-> 0]

\* parse_sas: the host has an address, or is known as a port expander.
ParseSas(m, d, cur) ==
  LET l == ScsiLink(cur, TRUE) IN
  IF l.n < 0 \/ l.host \notin m.sasHosts \cup m.expanders \/ ~m.sasaddr THEN Not(d)
  ELSE Took(l.n, [d EXCEPT !.iface = "sas"])

\* parse_sata and sysfs_sata_get_port_info: from ataN on, anything that is
\* missing is an error.
ParseSata(m, d, cur) ==
  IF IsPata(m, d) \/ ~Matches(cur, << {"ata"} >>) THEN Not(d)
  ELSE IF ~Matches(cur, << {"ata"}, {"host"}, {"target"}, {"scsi"} >>) \/ m.port = "err" THEN Err(d)
  ELSE Took(4, [d EXCEPT !.iface = IF @ = "unknown" THEN "sata" ELSE @])

\* parse_nvme: the interface is known before the EUI is read, and stays so
\* when it cannot be parsed.
ParseNvme(m, d, cur) ==
  LET sub  == Matches(cur, << {"nvme-subsys"}, {"nvme0n1"} >>)
      ctrl == Matches(cur, << {"ctl", "nvme"}, {"nvme0"}, {"nvme0n1"} >>)
      prt  == ctrl /\ Len(cur) > 3
      e == [d EXCEPT !.iface = "nvme", !.part = IF prt /\ @ = -1 THEN d.number ELSE @]
  IN IF ~sub /\ ~ctrl THEN Not(d)
     ELSE IF m.eui = "short" THEN Err(e)
     ELSE Took(IF sub THEN 2 ELSE IF prt THEN 4 ELSE 3, e)

\* parse_ata: majors of IDE disks say the partition in the minor.
IdeMajors == {3, 22, 33, 34, 56, 57} \cup 88..91
ParseAta(m, d, cur) ==
  LET ide == IF d.major \in IdeMajors THEN [SetPart(d, d.minor % 64) EXCEPT !.iface = "ata"] ELSE d
      e == [ide EXCEPT !.iface = "ata"]
      host == Find(cur, "host")
      block == Find(cur, "block")
  IN IF ~IsPata(m, ide) THEN Not(ide)
     ELSE LET n == IF host = 0 THEN -1 ELSE ScsiLink(SubSeq(cur, host, Len(cur)), FALSE).n
          IN IF n < 0 THEN Err(e) ELSE Took(IF block > 0 THEN block - 1 ELSE n, e)

\* parse_scsi: the partition comes from the minor, whatever was asked for.
ScsiMajors == {8} \cup 65..71 \cup 128..135
ParseScsi(m, d, cur) ==
  LET l == ScsiLink(cur, FALSE) IN
  IF ~m.scsidev \/ l.n < 0 THEN Not(d)
  ELSE IF d.major \notin ScsiMajors THEN Err(d)
  ELSE Took(l.n, [SetPart(d, d.minor % 16) EXCEPT !.iface = "scsi"])

\* parse_i2o.
ParseI2o(m, d, cur) ==
  LET e == [SetPart(d, d.minor % 16) EXCEPT !.iface = "i2o"] IN
  IF d.major \notin 80..87 THEN Not(d)
  ELSE IF Find(cur, "block") = 0 THEN Err(e) ELSE Took(Find(cur, "block") - 1, e)

\* parse_emmc: the partition's segment is read and not taken.
ParseEmmc(m, d, cur) ==
  IF ~Matches(cur, << {"mmc_host"}, {"mmc0"}, {"mmc0:1"}, {"block"}, {"mmcblk0"} >>) THEN Not(d)
  ELSE Took(5, [d EXCEPT !.iface = "emmc", !.part = IF Len(cur) > 5 /\ @ = -1 THEN d.number ELSE @])

\* probe->parse.
Parse(p, m, d, cur) ==
  CASE p = "pmem" -> ParsePmem(m, d, cur)
    [] p = "acpi_root" -> ParseAcpiRoot(m, d, cur)
    [] p = "pci_root" -> ParsePciRoot(m, d, cur)
    [] p = "soc_root" -> ParseSocRoot(m, d, cur)
    [] p = "virtual_root" -> ParseVirtualRoot(m, d, cur)
    [] p = "pci" -> ParsePci(m, d, cur)
    [] p = "virtblk" -> ParseVirtblk(m, d, cur)
    [] p = "sas" -> ParseSas(m, d, cur)
    [] p = "sata" -> ParseSata(m, d, cur)
    [] p = "nvme" -> ParseNvme(m, d, cur)
    [] p = "ata" -> ParseAta(m, d, cur)
    [] p = "scsi" -> ParseScsi(m, d, cur)
    [] p = "i2o" -> ParseI2o(m, d, cur)
    [] p = "emmc" -> ParseEmmc(m, d, cur)

-----------------------------------------------------------------------------
(* device_get.                                                             *)

\* The search is over at the end of the link or at block/.
AtEnd(cur) == cur = <<>> \/ cur[1] = "block"

\* Once a probe with flags has matched, no root is looked for.
NeedsRoot(d) == \A i \in 1..Len(d.probes) : Flags(d.probes[i]) = {}

\* probe i of d has matched: it is remembered with its flags.
Matched(d, i) == [d EXCEPT !.probes = Append(@, Probes[i]), !.abbrev = @ \/ "abbrev" \in Flags(Probes[i])]

\* One round of the loop over dev_probes, of s = [d, cur, i, last, st].
\* When the last probe has not matched and the interface is unknown, a
\* segment is skipped and the probes behind the last one that matched are
\* tried again; the device then has no full path.
Round(m, s) ==
  IF s.i > Len(Probes) \/ s.cur = <<>> THEN [s EXCEPT !.st = "ok"]
  ELSE IF ~NeedsRoot(s.d) /\ "root" \in Flags(Probes[s.i]) THEN [s EXCEPT !.i = @ + 1]
  ELSE LET r == Parse(Probes[s.i], m, s.d, s.cur)
           skip == r.n = 0 /\ s.i = Len(Probes) /\ r.d.iface = "unknown"
           rest == SubSeq(s.cur, (IF skip THEN 1 ELSE r.n) + 1, Len(s.cur))
           over == IF AtEnd(rest) THEN "ok" ELSE "go"
       IN IF r.n > 0 THEN [s EXCEPT !.d = Matched(r.d, s.i), !.cur = rest, !.last = s.i, !.i = @ + 1, !.st = over]
          ELSE IF ~skip THEN [s EXCEPT !.d = r.d, !.i = @ + 1]
          ELSE IF rest = <<>> THEN [s EXCEPT !.st = "fail"]
          ELSE [s EXCEPT !.d = [r.d EXCEPT !.abbrev = TRUE], !.cur = rest, !.i = s.last + 1, !.st = over]

\* struct device, for node x and the partition asked for; -1 asks sysfs.
NewDevice(x, part) ==
  [link |-> x.link, major |-> x.major, minor |-> x.minor, number |-> x.number,
   part |-> IF part = -1 THEN x.number ELSE part, disk |-> "", named |-> FALSE,
   iface |-> "unknown", abbrev |-> FALSE, probes |-> <<>>, npci |-> 0, pcidrv |-> "",
   cidstr |-> FALSE, uidstr |-> FALSE]

\* device_get(fd, partition), up to the loop over the probes.  number is the content of the
\* node's partition file, -1 where there is none.
Opened(x, part) ==
  LET n == SetDiskAndPartName(NewDevice(x, part))
  IN [d |-> n.d, cur |-> x.link, i |-> 1, last |-> 0, st |-> IF x.kind \in {"blk", "reg"} /\ n.ok THEN "go" ELSE "fail"]

-----------------------------------------------------------------------------
(* The nodes of the device path: efidp_make_* and probe->create.  A node   *)
(* is its kind and its length, the size of its structure; the strings of   *)
(* the extended ACPI node count as eight bytes.                            *)

N(k, len) == [k |-> k, len |-> len]
MakeAcpiHid == N("acpi", 12)
MakeAcpiHidEx == N("acpi_ex", 27)
MakePci == N("pci", 6)
MakeEdd10 == N("edd10", 24)
MakeMacAddr == N("mac", 37)
MakeIpv4 == N("ipv4", 27)
MakeScsi == N("scsi", 8)
MakeNvme == N("nvme", 16)
MakeSata == N("sata", 10)
MakeAtapi == N("atapi", 8)
MakeSas == N("sas", 44)
MakeNvdimm == N("nvdimm", 20)
\* eMMC is written under the subtype of NVMe.
MakeEmmc == N("nvme", 5)
MakeEnd == N("end", 4)

\* dp_create_*.
CreateAcpiRoot(d) == << IF d.uidstr \/ d.cidstr THEN MakeAcpiHidEx ELSE MakeAcpiHid >>
CreatePciRoot(d) == << IF d.uidstr THEN MakeAcpiHidEx ELSE MakeAcpiHid >>
CreatePci(d) == [i \in 1..d.npci |-> MakePci]
CreatePmem(d) == << MakeNvdimm, MakeNvdimm >>
CreateSas(d) == << MakeSas >>
CreateSata(d) == << IF d.iface = "ata" THEN MakeAtapi ELSE MakeSata >>
CreateNvme(d) == << MakeNvme >>
CreateAta(d) == << MakeAtapi >>
CreateScsi(d) == << MakeScsi >>
CreateEmmc(d) == << MakeEmmc >>
Create(p, d) ==
  CASE p = "pmem" -> CreatePmem(d)
    [] p = "acpi_root" -> CreateAcpiRoot(d)
    [] p = "pci_root" -> CreatePciRoot(d)
    [] p = "pci" -> CreatePci(d)
    [] p = "sas" -> CreateSas(d)
    [] p = "sata" -> CreateSata(d)
    [] p = "nvme" -> CreateNvme(d)
    [] p = "ata" -> CreateAta(d)
    [] p = "scsi" -> CreateScsi(d)
    [] p = "emmc" -> CreateEmmc(d)
    [] OTHER -> <<>>
=============================================================================
