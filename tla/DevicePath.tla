----------------------------- MODULE DevicePath -----------------------------
(***************************************************************************)
(* Device paths (dp.c, efivar-dp.h) and load options (loadopt.c).          *)
(*                                                                         *)
(* A path is the sequence of its nodes; a node has a kind and its length.  *)
(* "end" ends the path, "endinst" one instance of it; "junk" is memory     *)
(* that nobody wrote.  A path without "end" is one whose walks leave the   *)
(* buffer: the operators then give Lost.                                   *)
(***************************************************************************)
EXTENDS Integers, Sequences, SequencesExt

Lost == -2
HeaderSize == 4

\* The bytes of a sequence of nodes.
Bytes(p) == FoldLeft(LAMBDA sum, n : sum + n.len, 0, p)
\* efidp_type(dn) = EFIDP_END_TYPE.
IsEnd(n) == n.k \in {"end", "endinst"}
\* efidp_node_size.
NodeSize(n) == IF n.len < HeaderSize THEN -1 ELSE n.len

\* efidp_get_next_end, as the index of the node; 0 where there is none.
NextEnd(p, i) == LET at == {j \in i..Len(p) : IsEnd(p[j])} IN IF at = {} THEN 0 ELSE CHOOSE j \in at : \A k \in at : j <= k

\* Where the end of the whole path is.
EndEntire(p) == LET at == {j \in 1..Len(p) : p[j].k = "end"} IN IF at = {} THEN 0 ELSE CHOOSE j \in at : \A k \in at : j <= k

\* efidp_size: all the instances and the end.
PathSize(p) ==
  LET e == EndEntire(p) IN
  IF \E i \in 1..(IF e = 0 THEN Len(p) ELSE e) : NodeSize(p[i]) < 0 THEN -1
  ELSE IF e = 0 THEN Lost ELSE Bytes(SubSeq(p, 1, e))

\* efidp_instance_size.
InstanceSize(p) == LET e == NextEnd(p, 1) IN IF e = 0 THEN Lost ELSE Bytes(SubSeq(p, 1, e))

\* efidp_is_multiinstance: the first node is not looked at.
IsMultiInstance(p) == p[1].k # "end" /\ NextEnd(p, 2) # 0 /\ p[NextEnd(p, 2)].k = "endinst"

\* efidp_is_valid, one node with limit bytes left.
NodeValid(n, limit) == /\ limit >= HeaderSize /\ n.k # "junk" /\ n.len <= limit
                       /\ n.len <= IF IsEnd(n) THEN 4 ELSE 1024

\* efidp_is_valid: it stops behind the first node that is not an end.
IsValid(p, limit) ==
  \A i \in 1..Len(p) : LET left == limit - Bytes(SubSeq(p, 1, i - 1)) IN
    (left > 0 /\ \A j \in 1..i - 1 : IsEnd(p[j])) => NodeValid(p[i], left)

-----------------------------------------------------------------------------
(* The operations.  NULL is <<>>.  The result is [rc, out, dp]: dp is what *)
(* the first argument is afterwards.                                       *)

End == [k |-> "end", len |-> 4]
Failed(dp) == [rc |-> -1, out |-> <<>>, dp |-> dp]
Gave(dp, out) == [rc |-> 0, out |-> out, dp |-> dp]

\* The loops of the append operations ask efidp_get_next_end for the end
\* behind an end of an instance and get that one again, for ever.
Stuck == -3
Hangs(dp) == NextEnd(dp, 1) # 0 /\ dp[NextEnd(dp, 1)].k = "endinst"
Hung(dp) == [rc |-> Stuck, out |-> <<>>, dp |-> dp]

\* efidp_duplicate_path.
Duplicate(dp) == IF PathSize(dp) < 0 THEN Failed(dp) ELSE Gave(dp, SubSeq(dp, 1, EndEntire(dp)))

\* efidp_append_path.
AppendPathTwoEnds(dp0, dp1) ==
  IF dp0 = <<>> \/ dp1 = <<>> THEN Duplicate(dp0 \o dp1) ELSE Gave(dp0, dp0 \o dp1)
AppendPath(dp0, dp1) ==
  IF dp0 = <<>> /\ dp1 = <<>> THEN Gave(dp0, << End >>)
  ELSE IF dp1 = <<>> THEN Duplicate(dp0)
  ELSE IF dp0 = <<>> THEN [Duplicate(dp1) EXCEPT !.dp = dp0]
  ELSE IF PathSize(dp0) < 0 \/ PathSize(dp1) < 0 THEN Failed(dp0)
  ELSE IF Hangs(dp0) THEN Hung(dp0)
  ELSE Gave(dp0, SubSeq(dp0, 1, EndEntire(dp0) - 1) \o SubSeq(dp1, 1, EndEntire(dp1)))

\* The first node behind a pointer, which may be NULL.
First(dn) == IF dn = <<>> THEN <<>> ELSE << dn[1] >>

\* efidp_append_node; dn is a path of which only the first node is read.
AppendNode(dp, dn) ==
  IF dp # <<>> /\ PathSize(dp) < 0 THEN Failed(dp)
  ELSE IF Hangs(dp) THEN Hung(dp)
  ELSE IF dn # <<>> /\ NodeSize(dn[1]) < 0 THEN Failed(dp)
  ELSE Gave(dp, SubSeq(dp, 1, EndEntire(dp) - 1) \o First(dn) \o << End >>)

\* efidp_append_instance: the end of the argument itself becomes the end of
\* an instance, of dpi only the first node is copied, and the room for the
\* end of the whole path is not written.
AppendInstance(dp, dpi) ==
  IF dp = <<>> THEN IF dpi = <<>> THEN Failed(dp) ELSE [Duplicate(dpi) EXCEPT !.dp = dp]
  ELSE IF dpi = <<>> \/ PathSize(dp) < 0 \/ NodeSize(dpi[1]) < 0 THEN Failed(dp)
  ELSE IF Hangs(dp) THEN Hung(dp)
  ELSE LET all == SubSeq([dp EXCEPT ![EndEntire(dp)].k = "endinst"], 1, EndEntire(dp))
       IN Gave(all, all \o << dpi[1], [k |-> "junk", len |-> 4] >>)

-----------------------------------------------------------------------------
(* Load options: [plen, desc, at, junk, path, data]; desc counts the       *)
(* characters a reader takes for the description, data the bytes of the    *)
(* optional data; the path is at at, where a reader without junk finds it. *)

\* The fixed part, efi_load_option without the description.
OptHeader == 6
\* ucs2size: bytes of a string of n characters, with its terminator.
Ucs2Size(n, limit) == LET len == IF limit >= 0 /\ limit < n THEN limit ELSE n
                      IN IF limit > 0 /\ 2 * len + 2 > limit THEN limit ELSE 2 * len + 2

\* Mutant: no terminator is counted.
DescLenShort(desc) == 2 * (IF desc > 1024 THEN 1024 ELSE desc)
\* The bytes that are kept for a description; characters above 1024 are not
\* counted.
DescLen(desc) == 2 * (IF desc > 1024 THEN 1024 ELSE desc) + 2
\* utf8_to_ucs2 writes a description of one character or more, with its
\* terminator, if it has the room that was kept for it.
DescWritten(desc) == desc > 0 /\ 2 * desc + 1 <= DescLen(desc)

\* efi_loadopt_create, with a buffer of size bytes.  held are the characters up
\* to the first that is 0, in what the buffer held where nothing was written,
\* and the path behind it.
OptCreate(size, path, pathSize, desc, held, data) ==
  LET sz == OptHeader + DescLen(desc) + pathSize + data
      opt == [plen |-> pathSize % 65536, desc |-> IF DescWritten(desc) THEN desc ELSE held,
              at |-> OptHeader + DescLen(desc), junk |-> ~DescWritten(desc) /\ held # 0,
              path |-> path, data |-> data]
  IN IF size = 0 THEN [rc |-> sz, opt |-> <<>>]
     ELSE IF size < sz \/ pathSize < 0 \/ (path = <<>> /\ pathSize = 0) THEN [rc |-> -1, opt |-> <<>>]
     ELSE IF path # <<>> /\ (~IsValid(path, pathSize) \/ PathSize(path) # pathSize) THEN [rc |-> -1, opt |-> <<>>]
     ELSE [rc |-> sz, opt |-> << opt >>]

\* The bytes from off on are taken for a device path.  Inside a description
\* they are a character, which is no type of a node; behind junk they may be
\* anything, and pass.
DpAt(o, off) == IF off = o.at THEN IsValid(o.path, o.plen) ELSE o.junk

\* efi_loadopt_optional_data_size, of the first cut bytes.
OptDataSize(o, cut) ==
  LET left == cut - OptHeader - o.plen
      sz == Ucs2Size(o.desc, left)
  IN IF cut < OptHeader \/ left < 0 \/ left < sz THEN -1
     ELSE IF ~DpAt(o, OptHeader + sz) \/ PathSize(o.path) # o.plen THEN -1 ELSE left - sz

\* efi_loadopt_path, as an offset; -1 is NULL.
OptPath(o, cut) ==
  LET left == cut - OptHeader
      sz == Ucs2Size(o.desc, left)
  IN IF left <= 0 \/ sz >= left \/ left - sz < o.plen \/ ~DpAt(o, OptHeader + sz) THEN -1 ELSE OptHeader + sz

\* efi_loadopt_pathlen: the description is not counted.
OptPathLen(o, cut) == IF cut >= 0 /\ (o.plen > cut \/ cut - 4 < o.plen) THEN 0 ELSE o.plen

\* efi_loadopt_optional_data: where the data is, and its length.
OptDataUnbounded(o, cut) ==
  LET ul == Ucs2Size(o.desc, cut - OptHeader)
      l == OptHeader + ul + o.plen
  IN IF OptHeader > cut \/ o.plen > cut \/ ul > cut \/ cut - ul < o.plen
     THEN [rc |-> -1, off |-> 0, len |-> 0] ELSE [rc |-> 0, off |-> l, len |-> cut - l]
OptData(o, cut) ==
  LET ul == Ucs2Size(o.desc, cut - OptHeader)
      l == OptHeader + ul + o.plen
  IN IF OptHeader > cut \/ o.plen > cut \/ ul > cut \/ cut - ul < o.plen \/ l > cut
     THEN [rc |-> -1, off |-> 0, len |-> 0] ELSE [rc |-> 0, off |-> l, len |-> cut - l]

\* efi_loadopt_args_from_file, _as_utf8 and _as_ucs2 for n characters: the
\* last one asks for bytes and then returns characters.
OptArgs(kind, size, n) ==
  LET req == IF kind = "ucs2" THEN 2 * n ELSE n
  IN IF size = 0 THEN req ELSE IF size < req THEN -1 ELSE n
=============================================================================
