------------------------------- MODULE SigSet -------------------------------
(***************************************************************************)
(* What a security database promises its user: it is a set of signatures.  *)
(* A signature has a type, an owner and data.  The same data is not stored *)
(* twice under one type, whoever owns it.                                  *)
(***************************************************************************)
EXTENDS Integers

CONSTANTS
    Sigs,       \* signatures: records with fields alg, owner and data
    Known       \* the signature types the library knows

VARIABLES
    content,    \* the signatures in the database
    last        \* the last call and what it returned

Same(s, t) == s.alg = t.alg /\ s.data = t.data

Init ==
    /\ content = {}
    /\ last = [op |-> "new", rc |-> 0]

Add(s) ==
    /\ last' = [op |-> "add", sig |-> s, rc |-> 0]
    /\ content' = IF \E t \in content : Same(s, t) THEN content
                                                 ELSE content \cup {s}

Reject(s) ==
    /\ s.alg \notin Known
    /\ last' = [op |-> "add", sig |-> s, rc |-> -1]
    /\ UNCHANGED content

\* A delete may say that there is nothing of the kind.
Del(s) ==
    /\ content' = content \ {s}
    /\ \/ last' = [op |-> "del", sig |-> s, rc |-> 0]
       \/ s \notin content /\ last' = [op |-> "del", sig |-> s, rc |-> -1]

\* A file is merged: what it holds is there afterwards, under one owner, and
\* nothing else is added or lost.  If the file is damaged, a part of it is.
Load(sigs) ==
    \E rc \in {0, -1} :
    /\ last' = [op |-> "parse", rc |-> rc]
    /\ content \subseteq content' /\ content' \subseteq content \cup sigs
    /\ \A s, t \in content' : Same(s, t) => s = t
    /\ rc = 0 => \A s \in sigs : \E t \in content' : Same(s, t)

Other ==
    /\ \E o \in {"set_bool", "rewrite"} : last' = [op |-> o, rc |-> 0]
    /\ UNCHANGED content

Next ==
    \/ \E s \in Sigs : Add(s) \/ Reject(s) \/ Del(s)
    \/ \E sigs \in SUBSET {s \in Sigs : s.alg \in Known} : Load(sigs)
    \/ Other

Spec == Init /\ [][Next]_<<content, last>>
=============================================================================
