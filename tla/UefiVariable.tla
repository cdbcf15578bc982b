---------------------------- MODULE UefiVariable ----------------------------
(***************************************************************************)
(* UEFI variables as libefivar sees them.  A value is a set of attributes  *)
(* and a sequence of data; EFI_VARIABLE_APPEND_WRITE is not one of the     *)
(* attributes but the difference between the operations "set" and          *)
(* "append".  The firmware itself is external to the repository: Written   *)
(* is what efivarfs.c, vars.c and efivar.c rely on.                        *)
(***************************************************************************)
EXTENDS Sequences, Integers

CONSTANTS
    Attrs,      \* the attribute words a caller may pass
    Bytes,      \* the units of data
    Missing     \* the "value" of a variable that does not exist

Value == [attrs : Attrs, data : Seq(Bytes)]

ASSUME MissingAssumption == Missing \notin Value

(***************************************************************************)
(* The value a successful write leaves behind.  Overwriting a variable     *)
(* with no data deletes it; appending keeps the attributes it has.         *)
(***************************************************************************)
Written(old, op, new) ==
    IF op = "append" /\ old # Missing
    THEN [attrs |-> old.attrs, data |-> old.data \o new.data]
    ELSE IF new.data = <<>> THEN Missing ELSE new
=============================================================================
