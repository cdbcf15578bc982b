----------------------------- MODULE MCEfivarfs -----------------------------
(***************************************************************************)
(* Instances of Efivarfs for TLC.                                          *)
(***************************************************************************)
EXTENDS Efivarfs, TLC

CONSTANTS a1, b1, b2

\* A value, and the empty value that deletes a variable.
MCPayload == {[attrs |-> a1, data |-> <<b1>>], [attrs |-> a1, data |-> <<>>]}

\* One value only.
MCPayload1 == {[attrs |-> a1, data |-> <<b1>>]}

Symm == Permutations(Proc) \cup Permutations(Ino)

\* Nothing looks at an inode nobody refers to before Create sets it up anew.
View ==
    <<dentry, pc, call, rfd, wfd, cleared, ret, got, overtaken,
      [i \in Ino \ Free |-> <<i \in immutable, val[i], mode[i], i \in tainted,
                              i \in leaked>>]>>
=============================================================================
