---------------------------- MODULE ExportImport ----------------------------
(***************************************************************************)
(* Variables outside of the firmware (export.c): the efi_variable_t object *)
(* and the two formats it is exported to and imported from, libefivar's    *)
(* own and that of the UEFI shell's dmpstore.                              *)
(*                                                                         *)
(* A file is a sequence of records and its length in bytes, which is less  *)
(* than that of its records if it was cut.  A record has the fields of its *)
(* format, the lengths among them, and whether its checksum is right.      *)
(***************************************************************************)
EXTENDS Integers, Sequences, SequencesExt

CONSTANTS
    Chars,      \* the names of variables, with their number of characters
    Wide        \* the names with characters that are not ASCII

\* No name is empty.
ASSUME NamesAssumption == Wide \subseteq DOMAIN Chars /\ Chars \in [DOMAIN Chars -> Nat \ {0}]

\* The attributes of a variable: the attribute word, whether APPEND_WRITE is
\* set, and the bits above 32 (none, HAS_AUTH_HEADER, and HAS_SIGNATURE too).
AuthBits == {"none", "header", "signed"}

\* efi_variable_alloc, and the object after its name, attributes and data were
\* set; the attributes of the firmware have neither bit above 32.
VarOf(name, attrs, data) ==
    [name |-> name, append |-> FALSE, attrs |-> attrs, auth |-> "none", data |-> data]

\* What is left of a wide name when each of its characters is cut to 8 bits.
Narrowed(name) == <<name, "cut to 8 bits">>

-----------------------------------------------------------------------------
(* efi_variable_export, efi_variable_export_dmpstore                       *)

\* A name that was cut stays as long; that it is no UTF-8 any more, and changes
\* once more when it is exported again, is not modelled.
CharsOf(name) == IF name \in DOMAIN Chars THEN Chars[name] ELSE Chars[name[1]]

\* utf8size and utf8_to_ucs2: two bytes for each character and the NUL
NameLen(name) == 2 * (CharsOf(name) + 1)

Fixed(fmt) == IF fmt = "native" THEN 44 ELSE 32

\* Mutant: the NUL of the name is not counted.
NeededUnterminated(v, fmt) == Fixed(fmt) + 2 * CharsOf(v.name) + Len(v.data)

Needed(v, fmt) == Fixed(fmt) + NameLen(v.name) + Len(v.data)

\* efi_variable_set_data leaves the data NULL if there is none.
CanExport(v) == v.data # <<>>

Record(v, fmt) ==
    [fmt |-> fmt, name |-> v.name, append |-> v.append, attrs |-> v.attrs, auth |-> v.auth,
     data |-> v.data, nl |-> NameLen(v.name), dl |-> Len(v.data), good |-> TRUE]

ExportEfivar(v) == Record(v, "native")

\* The dmpstore format has 32 bits for the attributes.
ExportDmpstore(v) == [Record(v, "dmpstore") EXCEPT !.auth = "none"]

Exported(v, fmt) == IF fmt = "native" THEN ExportEfivar(v) ELSE ExportDmpstore(v)

Size(r) == Fixed(r.fmt) + r.nl + r.dl

\* The file that save_variable_data writes
FileOf(v, fmt) == [recs |-> <<Exported(v, fmt)>>, len |-> Needed(v, fmt)]

-----------------------------------------------------------------------------
(* efi_variable_import                                                     *)

\* Where each record ends; the first one begins where the 0th ends.
Ends(f) ==
    LET end[k \in 0 .. Len(f.recs)] == IF k = 0 THEN 0 ELSE end[k - 1] + Size(f.recs[k])
    IN end

Offset(f, k) == Ends(f)[k - 1]

\* The number of the record at an offset, or 0.
RecordAt(f, off) ==
    LET ks == {k \in DOMAIN f.recs : Offset(f, k) = off}
    IN IF ks = {} THEN 0 ELSE CHOOSE k \in ks : TRUE

Failed == [rc |-> -1]

Imported(r, name, rc) ==
    [rc |-> rc, var |-> [name |-> name, append |-> r.append, attrs |-> r.attrs,
                         auth |-> r.auth, data |-> r.data]]

\* The checksum is that of everything up to the end of the file, and the magic
\* number is counted twice, in the smallest size and in what is returned.
ImportEfivar(f, off) ==
    LET size == f.len - off
        k    == RecordAt(f, off)
        r    == f.recs[k]
    IN IF size <= 51 \/ k = 0 THEN Failed
       ELSE IF r.fmt # "native" \/ r.nl < 2 \/ r.dl < 1 \/ r.nl + r.dl > size THEN Failed
       ELSE IF ~r.good \/ Size(r) # size THEN Failed
       ELSE Imported(r, IF r.name \in Wide THEN Narrowed(r.name) ELSE r.name,
                     48 + r.nl + r.dl)

\* Mutant: the checksum is looked for at the end of the file.
ImportDmpstoreWhole(f, off) ==
    LET size == f.len - off
        k    == RecordAt(f, off)
        r    == f.recs[k]
    IN IF size <= 35 \/ k = 0 THEN Failed
       ELSE IF r.fmt # "dmpstore" \/ ~r.good \/ Size(r) # size THEN Failed
       ELSE Imported(r, r.name, size)

\* Mutant: the checksum is not compared.
ImportDmpstoreTrusting(f, off) ==
    LET size == f.len - off
        k    == RecordAt(f, off)
        r    == f.recs[k]
    IN IF size <= 35 \/ k = 0 THEN Failed
       ELSE IF r.fmt # "dmpstore" \/ size < Size(r) THEN Failed
       ELSE Imported(r, r.name, Size(r))

\* The record may be followed by others.
ImportDmpstore(f, off) ==
    LET size == f.len - off
        k    == RecordAt(f, off)
        r    == f.recs[k]
    IN IF size <= 35 \/ k = 0 THEN Failed
       ELSE IF r.fmt # "dmpstore" \/ r.nl <= 2 \/ r.nl % 2 # 0 \/ r.dl = 0 THEN Failed
       ELSE IF size < Size(r) \/ ~r.good THEN Failed
       ELSE Imported(r, r.name, Size(r))

\* The two formats in turn.  What starts a native record is an odd length of a
\* name for dmpstore.
Import(f, off) ==
    LET native == ImportEfivar(f, off)
    IN IF native # Failed THEN native ELSE ImportDmpstore(f, off)

-----------------------------------------------------------------------------
(* efi_variable_realize                                                    *)

\* Mutant: a variable that is still to be signed is written.
RealizedUnsigned(v) ==
    IF v.data = <<>> THEN "EINVAL" ELSE IF v.append THEN "append" ELSE "set"

\* The call of the library that realizes a variable, or a refusal
Realized(v) ==
    IF v.data = <<>> THEN "EINVAL"
    ELSE IF v.auth = "header" THEN "EPERM"
    ELSE IF v.append THEN "append" ELSE "set"
=============================================================================
