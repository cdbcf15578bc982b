------------------------------ MODULE MCSecDb -------------------------------
(***************************************************************************)
(* An instance of SecDb for TLC: hashes of two types and a type that the   *)
(* library does not know.                                                  *)
(***************************************************************************)
EXTENDS SecDb

Sig(a, o, d) == [alg |-> a, owner |-> o, data |-> d]

Sha1(b) == [i \in 1 .. 5 |-> b]

Sha256(b) == [i \in 1 .. 7 |-> 1] \o <<b>>

Hashes ==
    {Sig("SHA256", o, Sha256(b)) : o \in 1 .. 2, b \in 1 .. 2}
        \cup {Sig("SHA1", 1, Sha1(1)), Sig(Unknown, 1, <<1>>)}

Item(s, first, corrected) == [sig |-> s, first |-> first, corrected |-> corrected]

\* Two lists of one type with a signature in common under two owners, and one
\* of a type the library does not know; a file that is damaged further on.
HashFiles ==
    {[items |-> <<Item(Sig("SHA256", 2, Sha256(2)), TRUE, FALSE),
                  Item(Sig("SHA256", 1, Sha256(2)), TRUE, FALSE),
                  Item(Sig(Unknown, 1, <<1>>), TRUE, FALSE)>>, ok |-> TRUE],
     [items |-> <<Item(Sig("SHA1", 1, Sha1(1)), TRUE, FALSE),
                  Item(Sig("SHA256", 1, Sha256(1)), TRUE, FALSE)>>, ok |-> FALSE]}

AllSorted == {{"SORT"} \cup F : F \in SUBSET {"SORT_DATA", "SORT_DESCENDING"}}

ASSUME RegularInstance == Regular
=============================================================================
