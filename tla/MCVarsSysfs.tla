---------------------------- MODULE MCVarsSysfs -----------------------------
(***************************************************************************)
(* Instances of VarsSysfs for TLC.                                         *)
(***************************************************************************)
EXTENDS VarsSysfs, TLC

CONSTANTS a1, a2, b1

\* A value that can be appended to itself once too often, and an empty one
\* with other attributes, which the kernel refuses.
MCPayload == {[attrs |-> a1, data |-> <<b1>>], [attrs |-> a2, data |-> <<>>]}

\* No step looks at the mode of a variable.
View == <<store, local, history>>

Symm == Permutations(Proc)
=============================================================================
