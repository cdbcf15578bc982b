------------------------------ MODULE VarStore ------------------------------
(***************************************************************************)
(* What the variable operations of libefivar (lib.c) promise their         *)
(* callers: a store of UEFI variables that every writing call changes at   *)
(* most once, at one instant between its invocation and its return.        *)
(*                                                                         *)
(* Two weaknesses of the implementation are part of the promise:           *)
(*   - a write that was overtaken by the removal of the variable while it  *)
(*     was running may succeed without being visible (it took effect just  *)
(*     before the removal);                                                *)
(*   - a failed write may remove the variable (Undo): the implementation   *)
(*     rolls back a creation by name, see efivarfs.c:600.                  *)
(***************************************************************************)
EXTENDS UefiVariable

CONSTANTS
    Proc,       \* the processes (or threads) using the library
    Name,       \* the variables, each a GUID and a name
    Payload     \* the values a caller may pass: attributes and data

VARIABLES
    store,      \* the value of every variable
    phase,      \* how far the current call of a process is
    want,       \* what that call was asked to do
    overtaken   \* the variable was removed since the call began

vars == <<store, phase, want, overtaken>>

Calls ==
    [op : {"set", "append"}, name : Name, val : Payload]
        \cup [op : {"del"}, name : Name]

NoCall == [op |-> "none"]

\* Every call in progress on n now knows that n was removed under it.
Overtake(n) ==
    [q \in Proc |-> overtaken[q] \/ (phase[q] # "idle" /\ want[q].name = n)]

-----------------------------------------------------------------------------

Init ==
    /\ store \in [Name -> Payload \cup {Missing}]
    /\ phase = [p \in Proc |-> "idle"]
    /\ want = [p \in Proc |-> NoCall]
    /\ overtaken = [p \in Proc |-> FALSE]

Begin(p) ==
    /\ phase[p] = "idle"
    /\ \E c \in Calls : want' = [want EXCEPT ![p] = c]
    /\ phase' = [phase EXCEPT ![p] = "pending"]
    /\ overtaken' = [overtaken EXCEPT ![p] = FALSE]
    /\ UNCHANGED store

\* The one instant at which a set or an append changes the store.
ApplyWrite(p) ==
    LET n == want[p].name IN
    /\ phase[p] = "pending"
    /\ want[p].op \in {"set", "append"}
    /\ store' = [store EXCEPT ![n] = Written(store[n], want[p].op, want[p].val)]
    /\ overtaken' = IF store'[n] = Missing THEN Overtake(n) ELSE overtaken
    /\ phase' = [phase EXCEPT ![p] = "done"]
    /\ UNCHANGED want

\* A write the removal of its variable has overtaken.
ApplyInvisibly(p) ==
    /\ phase[p] = "pending"
    /\ want[p].op \in {"set", "append"}
    /\ overtaken[p]
    /\ phase' = [phase EXCEPT ![p] = "done"]
    /\ UNCHANGED <<store, want, overtaken>>

ApplyDel(p) ==
    /\ phase[p] = "pending"
    /\ want[p].op = "del"
    /\ store' = [store EXCEPT ![want[p].name] = Missing]
    /\ overtaken' = Overtake(want[p].name)
    /\ phase' = [phase EXCEPT ![p] = "done"]
    /\ UNCHANGED want

GiveUp(p) ==
    /\ phase[p] = "pending"
    /\ phase' = [phase EXCEPT ![p] = "failed"]
    /\ UNCHANGED <<store, want, overtaken>>

Undo(p) ==
    /\ phase[p] = "failed"
    /\ want[p].op \in {"set", "append"}
    /\ store' = [store EXCEPT ![want[p].name] = Missing]
    /\ overtaken' = Overtake(want[p].name)
    /\ UNCHANGED <<phase, want>>

\* The call returns 0 from "done" and -1 from "failed"; a process that dies
\* leaves its call in any phase.
Finish(p) ==
    /\ phase[p] # "idle"
    /\ phase' = [phase EXCEPT ![p] = "idle"]
    /\ want' = [want EXCEPT ![p] = NoCall]
    /\ overtaken' = [overtaken EXCEPT ![p] = FALSE]
    /\ UNCHANGED store

Next ==
    \E p \in Proc :
        \/ Begin(p)
        \/ ApplyWrite(p) \/ ApplyInvisibly(p) \/ ApplyDel(p)
        \/ GiveUp(p) \/ Undo(p)
        \/ Finish(p)

Spec == Init /\ [][Next]_vars
=============================================================================
