------------------------------ MODULE PartTable ------------------------------
(***************************************************************************)
(* Partition tables as gpt.c and disk.c read them.                         *)
(*                                                                         *)
(* A disk is a function from block numbers to blocks.  A block is          *)
(*   [t |-> "mbr", magic, ee, sig, parts]    the first block; ee says that *)
(*                      one of the four partitions has the type 0xEE       *)
(*   [t |-> "hdr", hsz, crc, my, alt, pte, fu, lu, n, sz, ecrc]            *)
(*   [t |-> "ent", cells]                    partition entries             *)
(*   [t |-> "none"]                          anything else.                *)
(* A checksum is right or wrong: crc says whether the one of the header    *)
(* is, and the one of the entries, ecrc, is the entries it was made for.   *)
(* Entries are read as cells of 128 bytes, [start, end, guid].             *)
(***************************************************************************)
EXTENDS Integers, Sequences

\* The size of a block, of gpt_entry, and the smallest size of a header.
BlockSize == 512
EntrySize == 128
HeaderMin == 92

\* last_lba.
LastLba(disk) == CHOOSE l \in DOMAIN disk : \A k \in DOMAIN disk : k <= l

\* alloc_read_gpt_header and read_lba: what is no header has no magic.
HeaderAt(disk, lba) == IF lba \in DOMAIN disk THEN disk[lba] ELSE [t |-> "none"]

\* alloc_read_gpt_entries.
EntriesAt(disk, h) == IF disk[h.pte].t = "ent" THEN disk[h.pte].cells ELSE <<>>

\* validate_nptes: the entries fit between their start and the last block.
\* The products of 64 bits do not overflow here.  nptes is not 0.
ValidateNptes(first, start, last, ptesz, nptes) ==
  LET maxBytes == (last - start) * BlockSize IN
  /\ ptesz >= EntrySize
  /\ start >= first /\ start <= last
  /\ ptesz <= maxBytes \div nptes
  /\ maxBytes \div ptesz >= nptes

\* is_gpt_valid, up to the entries: the header read from block lba.
HeaderValid(h, lba, last) ==
  /\ h.t = "hdr" /\ h.hsz \in HeaderMin..BlockSize /\ h.crc
  /\ lba \in {h.my, h.alt}
  /\ \A l \in {h.my, h.alt, h.pte, h.fu, h.lu} : l <= last
  /\ h.sz >= EntrySize /\ h.sz % EntrySize = 0 /\ h.n <= 1024 /\ h.sz <= 4096
  /\ IF h.alt > h.my THEN ValidateNptes(h.my + 1, h.pte, h.fu, h.sz, h.n)
                     ELSE ValidateNptes(h.lu, h.pte, h.my, h.sz, h.n)

\* is_gpt_valid, the entries: cells is what was read for header h.
EntriesUnchecked(h, cells) == cells # <<>>
EntriesValid(h, cells) == cells = h.ecrc

\* is_pmbr_valid.
PmbrValid(mbr) == mbr.t = "mbr" /\ mbr.magic /\ mbr.ee

\* find_valid_gpt, when everything has been read: p and a are the primary
\* and the alternate table, [ok, h, cells].
FindValidGpt(p, a, pmbr, ignorePmbr) ==
  IF (p.ok \/ a.ok) /\ (pmbr \/ ignorePmbr) THEN IF p.ok THEN p ELSE a ELSE [ok |-> FALSE]

\* gpt_disk_get_partition_info: entry num, counted in cells of 128 bytes
\* whatever size the header says that an entry has.
GptInfo(g, num) ==
  IF g.ok /\ num > 0 /\ num <= g.h.n
  THEN LET e == g.cells[num] IN [ok |-> TRUE, start |-> e.start, size |-> e.end - e.start + 1, sig |-> e.guid, type |-> "gpt"]
  ELSE [ok |-> FALSE]

\* is_mbr_valid.
MbrValid(mbr) == mbr.t = "mbr" /\ mbr.magic

\* msdos_disk_get_partition_info, whether a signature is to be written first.
NeedsSignatureUnasked(mbr, write) == MbrValid(mbr) /\ mbr.sig = 0
NeedsSignature(mbr, write) == MbrValid(mbr) /\ mbr.sig = 0 /\ write

\* msdos_disk_get_partition_info, the rest of it; extended partitions are
\* not supported.
MbrInfo(mbr, num) ==
  IF MbrValid(mbr) /\ num \in 1..4
  THEN [ok |-> TRUE, start |-> mbr.parts[num].start, size |-> mbr.parts[num].size, sig |-> mbr.sig, type |-> "mbr"]
  ELSE [ok |-> FALSE]

\* make_hd_dn and efidp_make_hd.
MakeHd(info, num) == [k |-> "hd", len |-> 42, num |-> num, start |-> info.start, size |-> info.size, sig |-> info.sig, type |-> info.type]

-----------------------------------------------------------------------------
\* The table at a block when it is intact, read in one go: its checksums
\* are right and it says that it is where it is.  This is what the steps of
\* the readers have to agree with.
TableAt(disk, lba) ==
  LET h == disk[lba] IN
  IF h.t = "hdr" /\ h.crc /\ h.my = lba /\ EntriesAt(disk, h) = h.ecrc
  THEN [ok |-> TRUE, h |-> h, cells |-> h.ecrc] ELSE [ok |-> FALSE]
=============================================================================
