--------------------------- MODULE MCEfivarfsReads ---------------------------
(***************************************************************************)
(* Instances of EfivarfsReads for TLC: values that differ in every unit of *)
(* their data, so that a mixture shows.  The attributes are the same: the  *)
(* firmware refuses to change those of a variable that exists.             *)
(***************************************************************************)
EXTENDS EfivarfsReads, TLC

CONSTANTS a1, b1, b2

MCPayload == {[attrs |-> a1, data |-> <<b1, b1>>],
              [attrs |-> a1, data |-> <<b2, b2>>]}

Symm == Permutations(Proc) \cup Permutations(Ino)

View ==
    <<dentry, pc, call, rfd, wfd, cleared, ret, got, overtaken, seen,
      [i \in Ino \ Free |-> <<i \in immutable, val[i], mode[i], i \in tainted,
                              i \in leaked>>]>>
=============================================================================
