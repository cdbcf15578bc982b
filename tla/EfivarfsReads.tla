---------------------------- MODULE EfivarfsReads ----------------------------
(***************************************************************************)
(* What a read of the efivarfs backend may return while other processes    *)
(* change the variable.  The behaviours are those of Efivarfs; seen        *)
(* records the values its variable has had since a read began.             *)
(***************************************************************************)
EXTENDS Efivarfs

VARIABLE seen

readVars == <<vars, seen>>

ReadInit ==
    /\ Init
    /\ seen = [p \in Proc |-> {}]

CurrentValue(p) == Stored(call[p].name)

Watch(p) == IF call'[p].op \notin {"get", "size"} THEN {}
            ELSE seen[p] \cup {CurrentValue(p)'}

ReadNext ==
    /\ Next
    /\ seen' = [p \in Proc |-> Watch(p)]

ReadSpec == ReadInit /\ [][ReadNext]_readVars

-----------------------------------------------------------------------------

GetDone(p) == pc[p] = "ret" /\ ret[p] = 0 /\ call[p].op = "get"
SizeDone(p) == pc[p] = "ret" /\ ret[p] = 0 /\ call[p].op = "size"

\* A read of a variable that nobody changed meanwhile returns its attributes
\* and all of its data, and its size is the length of that data, whatever
\* other calls failed, rolled back or wrote to removed files at the same time.
QuietReadExact ==
    \A p \in Proc : \A v \in seen[p] \ {Missing} :
        seen[p] = {v} =>
            /\ GetDone(p) => got[p] = v
            /\ SizeDone(p) => got[p].size = Len(v.data)
=============================================================================
