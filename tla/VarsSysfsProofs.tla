-------------------------- MODULE VarsSysfsProofs ---------------------------
(***************************************************************************)
(* Proofs about VarsSysfs, for any number of processes and variables, any  *)
(* values, and with every system call free to fail.                        *)
(***************************************************************************)
EXTENDS VarsSysfs, TLAPS

(***************************************************************************)
(* The inductive invariant.                                                *)
(***************************************************************************)

\* The steps of vars_del_variable.
Deleting == {"delopen", "delread", "delvar"}

\* Which function is at which step, and what it has in its hands.
ControlAt(p) ==
    LET c == call[p] IN
    /\ c = NoCall <=> pc[p] \in {"off", "idle"}
    /\ pc[p] \in {"getopen", "getread"} => c.op \in {"get", "append"} /\ phase[p] = c.op
    /\ pc[p] \in Deleting =>
        \/ c.op \in {"del", "set", "append"} /\ phase[p] = c.op
        \/ c.op = "append" /\ phase[p] = "set"
    /\ pc[p] \in {"access", "newvar", "setmode"} => c.op \in {"set", "append"}
    /\ pc[p] = "access" => phase[p] \in {"set", c.op}
    /\ pc[p] = "chmod" => c.op = "chmod"
    /\ pc[p] = "size" => c.op = "size"
    /\ pc[p] \notin {"setmode", "ret"} => ret[p] = -1
    /\ opened[p] => c # NoCall /\ store[c.name] # Missing
    /\ pc[p] \in {"access", "newvar"} \/ (pc[p] \in Deleting /\ phase[p] # "del") =>
        value[p] \in Value
    /\ pc[p] = "newvar" \/ (pc[p] \in Deleting /\ phase[p] = "set") => Fits(value[p])

Control == \A p \in Proc : ControlAt(p)

\* What a set or an append has to leave behind.
Goal(p) == IF call[p].op = "append" /\ before[p] # Missing
           THEN Joined(before[p], call[p].val) ELSE call[p].val

\* How far an undisturbed call has come with its variable.
SoloAt(p) ==
    LET c == call[p]
        now == store[c.name]
    IN
    /\ pc[p] \in {"getopen", "getread", "chmod", "size"} \cup Deleting => now = before[p]
    /\ pc[p] \in Deleting => phase[p] = c.op
    /\ pc[p] \in Deleting \cup {"access", "newvar"} /\ c.op # "del" => value[p] = Goal(p)
    /\ pc[p] = "access" => now = IF c.op = "set" THEN before[p] ELSE Missing
    /\ pc[p] = "newvar" => now = Missing
    /\ pc[p] = "setmode" =>
        IF ret[p] = 0 THEN now = Written(before[p], c.op, c.val)
        ELSE now = Missing /\ c.name \in excused

SoloState ==
    \A p \in Proc : pc[p] \notin {"off", "idle"} /\ ~disturbed[p] => SoloAt(p)

\* The static stream is open while an iteration goes on, and still has what
\* the iteration owes.
IterState ==
    \A p \in Proc :
        /\ iter[p].on <=> dir[p] # Closed
        /\ iter[p].on /\ ~iter[p].resumed => iter[p].owed \subseteq iter[p].got \cup dir[p].must

IInv ==
    /\ TypeOK
    /\ Control
    /\ LossExplained
    /\ SoloState
    /\ SoloOutcome
    /\ IterState
    /\ NextCovers

-----------------------------------------------------------------------------
(* Facts about the arguments of calls and about values                     *)

LEMMA CallFields ==
    ASSUME NEW c \in Calls
    PROVE  /\ c.op \in {"set", "append", "del", "chmod", "get", "size"}
           /\ c.name \in Name
           /\ c.op \in {"set", "append"} => c.val \in Payload /\ c.val \in Value
           /\ c.op \in {"set", "chmod"} => c.mode \in Mode
           /\ c # NoCall
BY PayloadAssumption DEF Calls, NoCall

LEMMA JoinedType ==
    ASSUME NEW old \in Value, NEW new \in Value
    PROVE  Joined(old, new) \in Value
BY DEF Joined, Value

LEMMA ClosedIsNoStream == Closed \notin Streams
BY ClosedAssumption DEF Streams

\* What the removal of a variable makes of an iteration.
LEMMA IterationChanged ==
    ASSUME NEW i \in Iterations, NEW n \in Name
    PROVE  LET j == [i EXCEPT !.owed = @ \ {n}]
           IN /\ j \in Iterations /\ j.owed = i.owed \ {n}
              /\ j.on = i.on /\ j.resumed = i.resumed /\ j.got = i.got
BY DEF Iterations

-----------------------------------------------------------------------------
(* Every action preserves the inductive invariant                          *)

\* The process q does not move.
Still(q) ==
    /\ pc'[q] = pc[q] /\ call'[q] = call[q] /\ phase'[q] = phase[q]
    /\ value'[q] = value[q] /\ ret'[q] = ret[q] /\ before'[q] = before[q]

\* A process keeps what it knows of its variable while nobody changes it.
LEMMA Bystander ==
    ASSUME IInv, NEW q \in Proc, Still(q),
           disturbed[q] => disturbed'[q],
           \/ disturbed'[q]
           \/ call[q] = NoCall
           \/ /\ store'[call[q].name] = store[call[q].name]
              /\ call[q].name \in excused => call[q].name \in excused'
    PROVE  /\ (pc[q] \notin {"off", "idle"} /\ ~disturbed[q] => SoloAt(q))'
           /\ (pc[q] = "ret" /\ ~disturbed[q] => OutcomeAt(q))'
<1>1. CASE pc[q] \in {"off", "idle"} \/ disturbed'[q]
    BY <1>1 DEF Still
<1>2. CASE pc[q] \notin {"off", "idle"} /\ ~disturbed'[q]
  <2>1. SoloAt(q) /\ (pc[q] = "ret" => OutcomeAt(q)) /\ call[q] # NoCall
    BY <1>2 DEF IInv, SoloState, SoloOutcome, Control, ControlAt
  <2>2. SoloAt(q)'
    BY <1>2, <2>1 DEF Still, SoloAt, Goal, Joined, Written
  <2>3. pc[q] = "ret" => OutcomeAt(q)'
    BY <1>2, <2>1 DEF Still, OutcomeAt, Written
  <2> QED
    BY <2>2, <2>3 DEF Still
<1> QED
    BY <1>1, <1>2

LEMMA ProbePreserves ==
    ASSUME IInv, NEW p \in Proc, Probe(p)
    PROVE  IInv'
<1> USE DEF IInv, Probe, Goto, kernel, history
<1>1. TypeOK'
    BY AbiAssumption DEF TypeOK, Label
<1>2. Control'
    BY DEF TypeOK, Control, ControlAt, Deleting
<1>3. LossExplained'
    BY DEF TypeOK, LossExplained, Owes, On
<1>4. SoloState' /\ SoloOutcome'
  <2>1. ASSUME NEW q \in Proc, q # p PROVE Still(q) /\ disturbed'[q] = disturbed[q]
    BY <2>1 DEF TypeOK, Still
  <2> QED
    BY <2>1, Bystander DEF TypeOK, SoloState, SoloOutcome
<1>5. IterState' /\ NextCovers'
    BY DEF IterState, NextCovers
<1> QED
    BY <1>1, <1>2, <1>3, <1>4, <1>5

LEMMA CallPreserves ==
    ASSUME IInv, NEW p \in Proc, Call(p)
    PROVE  IInv'
<1> USE DEF IInv, Goto, kernel
<1>0. PICK c \in Calls :
        /\ pc[p] = "idle"
        /\ call' = [call EXCEPT ![p] = c]
        /\ phase' = [phase EXCEPT ![p] = c.op]
        /\ value' = [value EXCEPT ![p] = IF c.op = "set" THEN c.val ELSE Missing]
        /\ before' = [before EXCEPT ![p] = store[c.name]]
        /\ pc' = [pc EXCEPT ![p] = FirstStep(c.op)]
        /\ disturbed' = [disturbed EXCEPT ![p] = FALSE]
        /\ iter' = [iter EXCEPT ![p] = IF @.on THEN @ ELSE NoIter]
        /\ UNCHANGED <<store, mode, opened, ret, abi, dir, excused>>
    BY DEF Call
<1>a. /\ c.op \in {"set", "append", "del", "chmod", "get", "size"}
      /\ c.name \in Name /\ c # NoCall
      /\ c.op \in {"set", "append"} => c.val \in Value
    BY CallFields
<1>b. FirstStep(c.op) = CASE c.op = "set" -> "access"
                          [] c.op \in {"append", "get"} -> "getopen"
                          [] c.op = "del" -> "delopen"
                          [] c.op = "chmod" -> "chmod"
                          [] c.op = "size" -> "size"
    BY <1>a DEF FirstStep
<1>c. FirstStep(c.op) \in Label \ {"off", "idle"}
    BY <1>a, <1>b DEF Label
<1>1. TypeOK'
  <2>1. iter' \in [Proc -> Iterations]
    BY <1>0 DEF TypeOK, Iterations, NoIter
  <2>2. before' \in [Proc -> Value \cup {Missing}]
    BY <1>0, <1>a DEF TypeOK, Storable
  <2>3. value' \in [Proc -> Value \cup {Missing}]
    BY <1>0, <1>a DEF TypeOK
  <2> QED
    BY <1>0, <1>a, <1>c, <2>1, <2>2, <2>3 DEF TypeOK
<1>2. Control'
    BY <1>0, <1>a, <1>b DEF TypeOK, Control, ControlAt, Deleting
<1>3. LossExplained'
    BY <1>0, <1>b DEF TypeOK, LossExplained, Owes, On
<1>4. SoloState' /\ SoloOutcome'
  <2>1. ASSUME NEW q \in Proc, q # p PROVE Still(q) /\ disturbed'[q] = disturbed[q]
    BY <1>0, <2>1 DEF TypeOK, Still
  <2>2. SoloAt(p)' /\ pc'[p] # "ret"
    BY <1>0, <1>a, <1>b DEF TypeOK, SoloAt, Deleting, Goal
  <2> QED
    BY <1>0, <2>1, <2>2, Bystander DEF TypeOK, SoloState, SoloOutcome
<1>5. IterState' /\ NextCovers'
    BY <1>0 DEF TypeOK, IterState, NextCovers, NoIter
<1> QED
    BY <1>1, <1>2, <1>3, <1>4, <1>5

\* A step of p that changes nothing a call of another process relies on.
Private(p) ==
    /\ UNCHANGED <<store, call, dir, before, disturbed, iter>>
    /\ excused \subseteq excused'
    /\ \A q \in Proc \ {p} : Still(q) /\ opened'[q] = opened[q]

\* After such a step only p's own part of the invariant has to be shown, and
\* that p has not left a variable missing without a reason.
LEMMA PrivatePreserves ==
    ASSUME IInv, NEW p \in Proc, Private(p), TypeOK', ControlAt(p)',
           \A n \in Name : store[n] = Missing /\ Owes(p, n) => Owes(p, n)' \/ n \in excused',
           (pc[p] \notin {"off", "idle"} /\ ~disturbed[p] => SoloAt(p))',
           (pc[p] = "ret" /\ ~disturbed[p] => OutcomeAt(p))'
    PROVE  IInv'
<1> USE DEF IInv, Private
<1>1. Control'
  <2>1. ASSUME NEW q \in Proc, q # p PROVE ControlAt(q)'
    BY <2>1 DEF Control, ControlAt, Still
  <2> QED
    BY <2>1 DEF Control
<1>2. LossExplained'
  <2>1. ASSUME NEW n \in Name, NEW q \in Proc, q # p, Owes(q, n) PROVE Owes(q, n)'
    BY <2>1 DEF Owes, On, Still
  <2> QED
    BY <2>1 DEF LossExplained
<1>3. SoloState' /\ SoloOutcome'
  <2>1. ASSUME NEW q \in Proc, q # p
        PROVE  /\ (pc[q] \notin {"off", "idle"} /\ ~disturbed[q] => SoloAt(q))'
               /\ (pc[q] = "ret" /\ ~disturbed[q] => OutcomeAt(q))'
    BY <2>1, Bystander
  <2> QED
    BY <2>1 DEF SoloState, SoloOutcome
<1>4. IterState' /\ NextCovers'
    BY DEF IterState, NextCovers
<1> QED
    BY <1>1, <1>2, <1>3, <1>4

\* The early return of every function.
LEMMA FailPreserves ==
    ASSUME IInv, NEW p \in Proc, Fail(p),
           pc[p] \in {"getopen", "getread", "chmod", "size", "access"} \cup Deleting,
           UNCHANGED <<kernel, call, phase, value, opened, abi, dir, before, disturbed, iter>>
    PROVE  IInv'
<1> USE DEF IInv, Fail, Goto, kernel
<1>1. TypeOK'
  <2>1. "ret" \in Label
    BY DEF Label
  <2> QED
    BY <2>1 DEF TypeOK
<1>2. ControlAt(p)'
    BY DEF TypeOK, Control, ControlAt, Deleting
<1>3. Private(p)
    BY DEF TypeOK, Private, Still
<1>4. ~disturbed'[p] => SoloAt(p)' /\ OutcomeAt(p)'
  <2> SUFFICES ASSUME ~disturbed[p] PROVE SoloAt(p)' /\ OutcomeAt(p)'
    OBVIOUS
  <2>1. SoloAt(p) /\ call[p] \in Calls /\ pc'[p] = "ret" /\ ret'[p] # 0
    BY DEF TypeOK, SoloState, Control, ControlAt, Deleting
  <2>2. call[p].name \in Name
    BY <2>1, CallFields
  <2>3. SoloAt(p)'
    BY <2>1 DEF SoloAt, Deleting
  <2>4. SUFFICES \/ store[call[p].name] = before[p]
                 \/ store[call[p].name] = Missing /\ call[p].name \in excused'
    BY <2>1, <2>3 DEF OutcomeAt
  <2>5. CASE pc[p] \in {"getopen", "getread", "chmod", "size"} \cup Deleting
    BY <2>1, <2>5 DEF SoloAt
  <2>6. CASE pc[p] = "access" /\ call[p].op = "set"
    BY <2>1, <2>6 DEF SoloAt
  <2>7. CASE pc[p] = "access" /\ call[p].op # "set"
    <3>1. call[p].op = "append" /\ call[p] # NoCall
      BY <2>7 DEF Control, ControlAt
    <3>2. store[call[p].name] = Missing /\ Owes(p, call[p].name)
      BY <2>1, <2>7, <3>1 DEF SoloAt, Owes, On
    <3> QED
      BY <2>2, <3>2
  <2> QED
    BY <2>5, <2>6, <2>7
<1> QED
    BY <1>1, <1>2, <1>3, <1>4, PrivatePreserves

LEMMA NoMemoryPreserves ==
    ASSUME IInv, NEW p \in Proc, NoMemory(p)
    PROVE  IInv'
BY FailPreserves DEF NoMemory, Deleting

LEMMA GetOpenPreserves ==
    ASSUME IInv, NEW p \in Proc, GetOpen(p)
    PROVE  IInv'
<1> DEFINE n == call[p].name
<1> USE DEF IInv, Goto, kernel
<1>0. pc[p] = "getopen" /\ UNCHANGED <<kernel, call, phase, abi, dir, before, disturbed, iter>>
    BY DEF GetOpen
<1>a. /\ call[p] \in Calls /\ call[p].op \in {"get", "append"} /\ n \in Name
      /\ call[p].op = "append" => call[p].val \in Value
      /\ phase[p] = call[p].op /\ ret[p] = -1
    BY <1>0, CallFields DEF TypeOK, Control, ControlAt
<1>b. {"getread", "access"} \subseteq Label
    BY DEF Label
<1>1. CASE /\ store[n] # Missing
           /\ opened' = [opened EXCEPT ![p] = TRUE]
           /\ Goto(p, "getread")
           /\ UNCHANGED <<value, ret, excused>>
  <2>1. TypeOK'
    BY <1>0, <1>1, <1>b DEF TypeOK
  <2>2. ControlAt(p)'
    BY <1>0, <1>1, <1>a DEF TypeOK, Control, ControlAt, Deleting
  <2>3. Private(p)
    BY <1>0, <1>1 DEF TypeOK, Private, Still
  <2>4. ~Owes(p, n) /\ pc'[p] = "getread"
    BY <1>0, <1>1 DEF TypeOK, Owes
  <2>5. ~disturbed'[p] => SoloAt(p)'
    BY <1>0, <1>1, <2>4 DEF TypeOK, SoloState, SoloAt, Deleting
  <2> QED
    BY <1>0, <2>1, <2>2, <2>3, <2>4, <2>5, PrivatePreserves DEF Owes
<1>2. CASE /\ store[n] = Missing /\ call[p].op = "append"
           /\ value' = [value EXCEPT ![p] = call[p].val]
           /\ Goto(p, "access")
           /\ UNCHANGED <<opened, ret, excused>>
  <2>1. TypeOK'
    BY <1>0, <1>2, <1>a, <1>b DEF TypeOK
  <2>2. ControlAt(p)'
    BY <1>0, <1>2, <1>a DEF TypeOK, Control, ControlAt, Deleting
  <2>3. Private(p)
    BY <1>0, <1>2 DEF TypeOK, Private, Still
  <2>4. pc'[p] = "access"
    BY <1>0, <1>2 DEF TypeOK
  <2>5. ~disturbed'[p] => SoloAt(p)'
    BY <1>0, <1>2, <1>a, <2>4 DEF TypeOK, SoloState, SoloAt, Deleting, Goal
  <2> QED
    BY <1>0, <2>1, <2>2, <2>3, <2>4, <2>5, PrivatePreserves DEF Owes
<1>3. CASE Fail(p) /\ UNCHANGED <<opened, value>>
    BY <1>0, <1>3, FailPreserves
<1> QED
    BY <1>1, <1>2, <1>3 DEF GetOpen

LEMMA GetReadPreserves ==
    ASSUME IInv, NEW p \in Proc, GetRead(p)
    PROVE  IInv'
<1> DEFINE n == call[p].name
<1> USE DEF IInv, Goto, kernel
<1>0. /\ pc[p] = "getread"
      /\ UNCHANGED <<kernel, call, phase, opened, abi, dir, before, disturbed, iter>>
    BY DEF GetRead
<1>a. /\ call[p] \in Calls /\ call[p].op \in {"get", "append"} /\ n \in Name
      /\ call[p].op = "append" => call[p].val \in Value
      /\ phase[p] = call[p].op /\ ret[p] = -1
      /\ opened[p] => store[n] # Missing
    BY <1>0, CallFields DEF TypeOK, Control, ControlAt
<1>b. {"delopen", "ret"} \subseteq Label
    BY DEF Label
<1>c. store[n] \in Storable \cup {Missing} /\ Storable \subseteq Value
    BY <1>a DEF TypeOK, Storable
<1>1. CASE /\ opened[p] /\ call[p].op = "get"
           /\ value' = [value EXCEPT ![p] = store[n]]
           /\ ret' = [ret EXCEPT ![p] = 0]
           /\ Goto(p, "ret")
           /\ UNCHANGED excused
  <2>1. TypeOK'
    BY <1>0, <1>1, <1>b, <1>c DEF TypeOK
  <2>2. ControlAt(p)'
    BY <1>0, <1>1, <1>a DEF TypeOK, Control, ControlAt, Deleting
  <2>3. Private(p)
    BY <1>0, <1>1 DEF TypeOK, Private, Still
  <2>4. pc'[p] = "ret" /\ ret'[p] = 0 /\ value'[p] = store[n]
    BY <1>0, <1>1 DEF TypeOK
  <2>5. ~disturbed'[p] => SoloAt(p)' /\ OutcomeAt(p)'
    BY <1>0, <1>1, <1>a, <2>4 DEF TypeOK, SoloState, SoloAt, Deleting, OutcomeAt
  <2> QED
    BY <1>0, <2>1, <2>2, <2>3, <2>4, <2>5, PrivatePreserves DEF Owes
<1>2. CASE /\ opened[p] /\ call[p].op = "append"
           /\ value' = [value EXCEPT ![p] = Joined(store[n], call[p].val)]
           /\ Goto(p, "delopen")
           /\ UNCHANGED <<ret, excused>>
  <2>0. Joined(store[n], call[p].val) \in Value
    BY <1>2, <1>a, <1>c, JoinedType
  <2>1. TypeOK'
    BY <1>0, <1>2, <1>b, <2>0 DEF TypeOK
  <2>2. ControlAt(p)'
    BY <1>0, <1>2, <1>a, <2>0 DEF TypeOK, Control, ControlAt, Deleting
  <2>3. Private(p)
    BY <1>0, <1>2 DEF TypeOK, Private, Still
  <2>4. pc'[p] = "delopen" /\ value'[p] = Joined(store[n], call[p].val)
    BY <1>0, <1>2 DEF TypeOK
  <2>5. ~disturbed'[p] => SoloAt(p)'
    BY <1>0, <1>2, <1>a, <2>4 DEF TypeOK, SoloState, SoloAt, Deleting, Goal
  <2> QED
    BY <1>0, <2>1, <2>2, <2>3, <2>4, <2>5, PrivatePreserves DEF Owes
<1>3. CASE Fail(p) /\ UNCHANGED value
    BY <1>0, <1>3, FailPreserves
<1> QED
    BY <1>1, <1>2, <1>3 DEF GetRead

LEMMA DelOpenPreserves ==
    ASSUME IInv, NEW p \in Proc, DelOpen(p)
    PROVE  IInv'
<1> USE DEF IInv, Goto, kernel
<1>0. pc[p] = "delopen" /\ UNCHANGED <<kernel, call, phase, value, abi, dir, before, disturbed, iter>>
    BY DEF DelOpen
<1>1. CASE /\ store[call[p].name] # Missing
           /\ opened' = [opened EXCEPT ![p] = TRUE]
           /\ Goto(p, "delread")
           /\ UNCHANGED <<ret, excused>>
  <2>0. "delread" \in Label
    BY DEF Label
  <2>1. TypeOK'
    BY <1>0, <1>1, <2>0 DEF TypeOK
  <2>2. ControlAt(p)'
    BY <1>0, <1>1 DEF TypeOK, Control, ControlAt, Deleting
  <2>3. Private(p)
    BY <1>0, <1>1 DEF TypeOK, Private, Still
  <2>4. pc'[p] = "delread"
    BY <1>0, <1>1 DEF TypeOK
  <2>5. ~disturbed'[p] => SoloAt(p)'
    BY <1>0, <1>1, <2>4 DEF TypeOK, SoloState, SoloAt, Deleting, Goal
  <2> QED
    BY <1>0, <2>1, <2>2, <2>3, <2>4, <2>5, PrivatePreserves DEF Owes
<1>2. CASE Fail(p) /\ UNCHANGED opened
    BY <1>0, <1>2, FailPreserves DEF Deleting
<1> QED
    BY <1>1, <1>2 DEF DelOpen

LEMMA DelReadPreserves ==
    ASSUME IInv, NEW p \in Proc, DelRead(p)
    PROVE  IInv'
<1> USE DEF IInv, Goto, kernel
<1>0. /\ pc[p] = "delread"
      /\ UNCHANGED <<kernel, call, phase, value, opened, abi, dir, before, disturbed, iter>>
    BY DEF DelRead
<1>1. CASE Goto(p, "delvar") /\ UNCHANGED <<ret, excused>>
  <2>0. "delvar" \in Label
    BY DEF Label
  <2>1. TypeOK'
    BY <1>0, <1>1, <2>0 DEF TypeOK
  <2>2. ControlAt(p)'
    BY <1>0, <1>1 DEF TypeOK, Control, ControlAt, Deleting
  <2>3. Private(p)
    BY <1>0, <1>1 DEF TypeOK, Private, Still
  <2>4. pc'[p] = "delvar"
    BY <1>0, <1>1 DEF TypeOK
  <2>5. ~disturbed'[p] => SoloAt(p)'
    BY <1>0, <1>1, <2>4 DEF TypeOK, SoloState, SoloAt, Deleting, Goal
  <2> QED
    BY <1>0, <2>1, <2>2, <2>3, <2>4, <2>5, PrivatePreserves DEF Owes
<1>2. CASE Fail(p)
    BY <1>0, <1>2, FailPreserves DEF Deleting
<1> QED
    BY <1>1, <1>2 DEF DelRead

LEMMA AccessPreserves ==
    ASSUME IInv, NEW p \in Proc, Access(p)
    PROVE  IInv'
<1> DEFINE n == call[p].name
<1> USE DEF IInv, Goto, kernel
<1>0. pc[p] = "access" /\ UNCHANGED <<kernel, call, value, opened, abi, dir, before, disturbed, iter>>
    BY DEF Access
<1>a. /\ call[p] \in Calls /\ call[p].op \in {"set", "append"} /\ n \in Name
      /\ value[p] \in Value /\ ret[p] = -1 /\ call[p] # NoCall
    BY <1>0, CallFields DEF TypeOK, Control, ControlAt
<1>1. CASE /\ Fits(value[p])
           /\ phase' = [phase EXCEPT ![p] = "set"]
           /\ Goto(p, IF store[n] # Missing THEN "delopen" ELSE "newvar")
           /\ UNCHANGED <<ret, excused>>
  <2>0. {"delopen", "newvar"} \subseteq Label
    BY DEF Label
  <2>1. TypeOK'
    BY <1>0, <1>1, <2>0 DEF TypeOK
  <2>2. Fits(value[p])' /\ phase'[p] = "set"
        /\ pc'[p] = IF store[n] # Missing THEN "delopen" ELSE "newvar"
    BY <1>0, <1>1 DEF TypeOK, Fits
  <2>3. ControlAt(p)'
    BY <1>0, <1>1, <1>a, <2>2 DEF TypeOK, Control, ControlAt, Deleting
  <2>4. Private(p)
    BY <1>0, <1>1 DEF TypeOK, Private, Still
  <2>5. \A m \in Name : store[m] = Missing /\ Owes(p, m) => Owes(p, m)'
    BY <1>0, <1>a, <2>2 DEF Owes, On
  <2>6. ~disturbed'[p] => SoloAt(p)'
    BY <1>0, <1>1, <1>a, <2>2 DEF TypeOK, SoloState, SoloAt, Deleting, Goal
  <2> QED
    BY <1>0, <2>1, <2>2, <2>3, <2>4, <2>5, <2>6, PrivatePreserves
<1>2. CASE Fail(p) /\ UNCHANGED phase
    BY <1>0, <1>2, FailPreserves
<1> QED
    BY <1>1, <1>2 DEF Access

LEMMA SetModePreserves ==
    ASSUME IInv, NEW p \in Proc, SetMode(p)
    PROVE  IInv'
<1> USE DEF IInv, Goto, history
<1>0. /\ pc[p] = "setmode" /\ pc' = [pc EXCEPT ![p] = "ret"]
      /\ mode' \in {Moded(p), mode}
      /\ UNCHANGED <<store, call, phase, value, opened, ret, abi, dir, history>>
    BY DEF SetMode
<1>a. /\ call[p] \in Calls /\ call[p] # NoCall /\ call[p].op \in {"set", "append"}
      /\ call[p].op = "set" => call[p].mode \in Mode
    BY <1>0, CallFields DEF TypeOK, Control, ControlAt
<1>1. TypeOK'
  <2>1. "ret" \in Label
    BY DEF Label
  <2>2. Moded(p) \in [Name -> Mode \cup {DefaultMode}]
    BY <1>a DEF TypeOK, Moded, Wanted
  <2> QED
    BY <1>0, <2>1, <2>2 DEF TypeOK
<1>2. ControlAt(p)'
    BY <1>0, <1>a DEF TypeOK, Control, ControlAt, Deleting
<1>3. Private(p)
    BY <1>0 DEF TypeOK, Private, Still
<1>4. pc'[p] = "ret"
    BY <1>0 DEF TypeOK
<1>5. ~disturbed'[p] => SoloAt(p)' /\ OutcomeAt(p)'
  <2> SUFFICES ASSUME ~disturbed[p] PROVE SoloAt(p)' /\ OutcomeAt(p)'
    BY <1>0
  <2>1. IF ret[p] = 0 THEN store[call[p].name] = Written(before[p], call[p].op, call[p].val)
        ELSE store[call[p].name] = Missing /\ call[p].name \in excused
    BY <1>0 DEF SoloState, SoloAt
  <2>2. SoloAt(p)'
    BY <1>4 DEF SoloAt, Deleting
  <2>3. OutcomeAt(p)'
    BY <1>0, <1>a, <2>1 DEF OutcomeAt, Written
  <2> QED
    BY <2>2, <2>3
<1> QED
    BY <1>0, <1>1, <1>2, <1>3, <1>4, <1>5, PrivatePreserves DEF Owes

LEMMA ChmodPreserves ==
    ASSUME IInv, NEW p \in Proc, Chmod(p)
    PROVE  IInv'
<1> USE DEF IInv, Goto, history
<1>0. /\ pc[p] = "chmod" /\ pc' = [pc EXCEPT ![p] = "ret"]
      /\ mode' \in {Moded(p), mode} /\ ret' \in {[ret EXCEPT ![p] = 0], ret}
      /\ UNCHANGED <<store, call, phase, value, opened, abi, dir, history>>
    BY DEF Chmod
<1>a. call[p] \in Calls /\ call[p] # NoCall /\ call[p].op = "chmod" /\ call[p].mode \in Mode
    BY <1>0, CallFields DEF TypeOK, Control, ControlAt
<1>1. TypeOK'
  <2>1. "ret" \in Label
    BY DEF Label
  <2>2. Moded(p) \in [Name -> Mode \cup {DefaultMode}]
    BY <1>a DEF TypeOK, Moded, Wanted
  <2> QED
    BY <1>0, <2>1, <2>2 DEF TypeOK
<1>2. ControlAt(p)'
    BY <1>0, <1>a DEF TypeOK, Control, ControlAt, Deleting
<1>3. Private(p)
    BY <1>0 DEF TypeOK, Private, Still
<1>4. pc'[p] = "ret"
    BY <1>0 DEF TypeOK
<1>5. ~disturbed'[p] => SoloAt(p)' /\ OutcomeAt(p)'
  <2> SUFFICES ASSUME ~disturbed[p] PROVE SoloAt(p)' /\ OutcomeAt(p)'
    BY <1>0
  <2>1. store[call[p].name] = before[p]
    BY <1>0 DEF SoloState, SoloAt
  <2>2. SoloAt(p)'
    BY <1>4 DEF SoloAt, Deleting
  <2>3. OutcomeAt(p)'
    BY <1>0, <1>a, <2>1 DEF OutcomeAt
  <2> QED
    BY <2>2, <2>3
<1> QED
    BY <1>0, <1>1, <1>2, <1>3, <1>4, <1>5, PrivatePreserves DEF Owes

LEMMA SizePreserves ==
    ASSUME IInv, NEW p \in Proc, Size(p)
    PROVE  IInv'
<1> DEFINE n == call[p].name
<1> USE DEF IInv, Goto, kernel, history
<1>0. /\ pc[p] = "size" /\ pc' = [pc EXCEPT ![p] = "ret"]
      /\ \/ ret' = [ret EXCEPT ![p] = 0] /\ value' = [value EXCEPT ![p] = store[n]]
         \/ UNCHANGED <<ret, value>>
      /\ UNCHANGED <<kernel, call, phase, opened, abi, dir, history>>
    BY DEF Size
<1>a. /\ call[p] \in Calls /\ call[p] # NoCall /\ call[p].op = "size" /\ n \in Name
      /\ ret[p] = -1
    BY <1>0, CallFields DEF TypeOK, Control, ControlAt
<1>1. TypeOK'
  <2>1. "ret" \in Label
    BY DEF Label
  <2>2. store[n] \in Value \cup {Missing}
    BY <1>a DEF TypeOK, Storable
  <2> QED
    BY <1>0, <2>1, <2>2 DEF TypeOK
<1>2. ControlAt(p)'
    BY <1>0, <1>a DEF TypeOK, Control, ControlAt, Deleting
<1>3. Private(p)
    BY <1>0 DEF TypeOK, Private, Still
<1>4. pc'[p] = "ret"
    BY <1>0 DEF TypeOK
<1>5. ~disturbed'[p] => SoloAt(p)' /\ OutcomeAt(p)'
  <2> SUFFICES ASSUME ~disturbed[p] PROVE SoloAt(p)' /\ OutcomeAt(p)'
    BY <1>0
  <2>1. store[n] = before[p]
    BY <1>0 DEF SoloState, SoloAt
  <2>2. SoloAt(p)'
    BY <1>4 DEF SoloAt, Deleting
  <2>3. \/ ret'[p] = 0 /\ value'[p] = store[n]
        \/ ret'[p] # 0
    BY <1>0, <1>a DEF TypeOK
  <2>4. OutcomeAt(p)'
    BY <1>0, <1>a, <2>1, <2>3 DEF OutcomeAt
  <2> QED
    BY <2>2, <2>4
<1> QED
    BY <1>0, <1>1, <1>2, <1>3, <1>4, <1>5, PrivatePreserves DEF Owes

\* A write that makes or removes p's variable: it disturbs the calls of the
\* others on that variable, and no other call.
LEMMA ChangePreserves ==
    ASSUME IInv, NEW p \in Proc, NEW n \in Name, NEW v \in Storable \cup {Missing},
           call[p] # NoCall, call[p].name = n, Change(p, n, v),
           \A q \in Proc \ {p} : Still(q),
           UNCHANGED <<call, value, abi, before>>,
           mode' \in [Name -> Mode \cup {DefaultMode}],
           pc' \in [Proc -> Label],
           phase' \in [Proc -> {"none", "set", "append", "del", "get", "size", "chmod"}],
           ret' \in [Proc -> {-1, 0}],
           excused' \subseteq Name, excused \ {n} \subseteq excused',
           ControlAt(p)',
           v = Missing => n \in excused' \/ Owes(p, n)',
           (pc[p] \notin {"off", "idle"} /\ ~disturbed[p] => SoloAt(p))',
           (pc[p] = "ret" /\ ~disturbed[p] => OutcomeAt(p))'
    PROVE  IInv'
<1> USE DEF IInv
<1>a. ASSUME NEW q \in Proc
      PROVE  /\ opened'[q] <=> (opened[q] /\ ~(v = Missing /\ On(q, n)))
             /\ disturbed'[q] <=> (disturbed[q] \/ (q # p /\ On(q, n)))
             /\ dir'[q] = IF dir[q] = Closed THEN Closed
                          ELSE IF v = Missing THEN [dir[q] EXCEPT !.must = @ \ {n}]
                          ELSE [dir[q] EXCEPT !.may = @ \cup {n}]
             /\ iter'[q] = IF v = Missing THEN [iter[q] EXCEPT !.owed = @ \ {n}] ELSE iter[q]
    BY Zenon DEF Change
<1>b. /\ opened' \in [Proc -> BOOLEAN] /\ disturbed' \in [Proc -> BOOLEAN]
    BY Zenon DEF Change
<1>c. store' = [store EXCEPT ![n] = v]
    BY DEF Change
<1>d. ASSUME NEW q \in Proc
      PROVE  /\ dir[q] \in Streams \cup {Closed} /\ iter[q] \in Iterations
             /\ dir'[q] \in Streams \cup {Closed} /\ iter'[q] \in Iterations
             /\ dir'[q] = Closed <=> dir[q] = Closed
             /\ iter'[q].on = iter[q].on /\ iter'[q].resumed = iter[q].resumed
             /\ iter'[q].got = iter[q].got
             /\ iter'[q].owed = IF v = Missing THEN iter[q].owed \ {n} ELSE iter[q].owed
             /\ dir[q] # Closed =>
                  dir'[q].must = IF v = Missing THEN dir[q].must \ {n} ELSE dir[q].must
  <2>1. dir[q] \in Streams \cup {Closed} /\ iter[q] \in Iterations
    BY DEF TypeOK
  <2>2. /\ dir'[q] = IF dir[q] = Closed THEN Closed
                     ELSE IF v = Missing THEN [dir[q] EXCEPT !.must = @ \ {n}]
                     ELSE [dir[q] EXCEPT !.may = @ \cup {n}]
        /\ iter'[q] = IF v = Missing THEN [iter[q] EXCEPT !.owed = @ \ {n}] ELSE iter[q]
    BY <1>a
  <2>3. CASE v = Missing
    <3>1. iter'[q] = [iter[q] EXCEPT !.owed = @ \ {n}]
      BY <2>2, <2>3
    <3>2. /\ iter'[q] \in Iterations /\ iter'[q].owed = iter[q].owed \ {n}
          /\ iter'[q].on = iter[q].on /\ iter'[q].resumed = iter[q].resumed
          /\ iter'[q].got = iter[q].got
      BY <2>1, <3>1, IterationChanged
    <3>3. ASSUME dir[q] # Closed PROVE dir'[q] \in Streams /\ dir'[q].must = dir[q].must \ {n}
      <4>1. dir'[q] = [dir[q] EXCEPT !.must = @ \ {n}]
        BY <2>2, <2>3, <3>3
      <4>2. dir[q] \in Streams
        BY <2>1, <3>3
      <4> QED
        BY <4>1, <4>2 DEF Streams
    <3>4. ASSUME dir[q] = Closed PROVE dir'[q] = Closed
      BY <2>2, <3>4
    <3>5. dir'[q] = Closed <=> dir[q] = Closed
      BY <3>3, <3>4, ClosedIsNoStream
    <3> QED
      BY <2>1, <2>3, <3>2, <3>3, <3>4, <3>5
  <2>4. CASE v # Missing
    <3>1. iter'[q] = iter[q]
      BY <2>2, <2>4
    <3>2. ASSUME dir[q] # Closed PROVE dir'[q] \in Streams /\ dir'[q].must = dir[q].must
      <4>1. dir'[q] = [dir[q] EXCEPT !.may = @ \cup {n}]
        BY <2>2, <2>4, <3>2
      <4>2. dir[q] \in Streams
        BY <2>1, <3>2
      <4> QED
        BY <4>1, <4>2 DEF Streams
    <3>3. ASSUME dir[q] = Closed PROVE dir'[q] = Closed
      BY <2>2, <3>3
    <3>4. dir'[q] = Closed <=> dir[q] = Closed
      BY <3>2, <3>3, ClosedIsNoStream
    <3> QED
      BY <2>1, <2>4, <3>1, <3>2, <3>3, <3>4
  <2> QED
    BY <2>3, <2>4
<1>1. TypeOK'
  <2>1. dir' \in [Proc -> Streams \cup {Closed}] /\ iter' \in [Proc -> Iterations]
    <3>1. DOMAIN dir' = Proc /\ DOMAIN iter' = Proc /\ dir' = [q \in Proc |-> dir'[q]]
          /\ iter' = [q \in Proc |-> iter'[q]]
      BY DEF Change
    <3> QED
      BY <1>d, <3>1
  <2>2. store' \in [Name -> Storable \cup {Missing}]
    BY <1>c DEF TypeOK
  <2> QED
    BY <1>b, <2>1, <2>2 DEF TypeOK
<1>2. Control'
  <2>1. ASSUME NEW q \in Proc, q # p PROVE ControlAt(q)'
    <3>1. ControlAt(q) /\ Still(q)
      BY <2>1 DEF Control
    <3>2. opened'[q] => call[q] # NoCall /\ store'[call[q].name] # Missing
      <4>1. SUFFICES ASSUME opened'[q] PROVE call[q] # NoCall /\ store'[call[q].name] # Missing
        OBVIOUS
      <4>2. opened[q] /\ ~(v = Missing /\ On(q, n))
        BY <1>a, <4>1
      <4>3. call[q] # NoCall /\ store[call[q].name] # Missing /\ call[q] \in Calls
        BY <3>1, <4>2 DEF ControlAt, TypeOK
      <4>4. call[q].name \in Name
        BY <4>3, CallFields
      <4> QED
        BY <1>c, <4>2, <4>3, <4>4 DEF On, TypeOK
    <3> QED
      BY <3>1, <3>2 DEF ControlAt, Still
  <2> QED
    BY <2>1 DEF Control
<1>3. LossExplained'
  <2> SUFFICES ASSUME NEW m \in Name, store'[m] = Missing
               PROVE  m \in excused' \/ \E q \in Proc : Owes(q, m)'
    BY DEF LossExplained
  <2>1. CASE m = n
    BY <1>c, <2>1 DEF TypeOK
  <2>2. CASE m # n /\ m \in excused
    BY <2>2
  <2>3. CASE m # n /\ m \notin excused
    <3>1. PICK q \in Proc : Owes(q, m)
      BY <1>c, <2>3 DEF TypeOK, LossExplained
    <3>2. q # p
      BY <2>3, <3>1 DEF Owes, On
    <3> QED
      BY <3>1, <3>2 DEF Owes, On, Still
  <2> QED
    BY <2>1, <2>2, <2>3
<1>4. SoloState' /\ SoloOutcome'
  <2>1. ASSUME NEW q \in Proc, q # p
        PROVE  /\ (pc[q] \notin {"off", "idle"} /\ ~disturbed[q] => SoloAt(q))'
               /\ (pc[q] = "ret" /\ ~disturbed[q] => OutcomeAt(q))'
    <3>1. call[q] # NoCall => call[q].name \in Name
      BY CallFields DEF TypeOK
    <3>2. \/ disturbed'[q]
          \/ call[q] = NoCall
          \/ /\ store'[call[q].name] = store[call[q].name]
             /\ call[q].name \in excused => call[q].name \in excused'
      BY <1>a, <1>c, <2>1, <3>1 DEF TypeOK, On
    <3> QED
      BY <1>a, <2>1, <3>2, Bystander
  <2> QED
    BY <2>1 DEF SoloState, SoloOutcome
<1>5. IterState' /\ NextCovers'
  <2>1. ASSUME NEW q \in Proc
        PROVE  /\ iter'[q].on <=> dir'[q] # Closed
               /\ iter'[q].on /\ ~iter'[q].resumed =>
                    iter'[q].owed \subseteq iter'[q].got \cup dir'[q].must
               /\ ~iter'[q].on /\ ~iter'[q].resumed => iter'[q].owed \subseteq iter'[q].got
    BY ZenonT(20), <1>d DEF IterState, NextCovers
  <2> QED
    BY <2>1 DEF IterState, NextCovers
<1> QED
    BY <1>1, <1>2, <1>3, <1>4, <1>5

LEMMA DelVarPreserves ==
    ASSUME IInv, NEW p \in Proc, DelVar(p)
    PROVE  IInv'
<1> DEFINE n == call[p].name
<1> USE DEF IInv, Goto
<1>0. pc[p] = "delvar" /\ UNCHANGED <<mode, call, value, abi, before>>
    BY DEF DelVar
<1>a. /\ call[p] \in Calls /\ n \in Name /\ call[p] # NoCall /\ ret[p] = -1
      /\ \/ call[p].op \in {"del", "set", "append"} /\ phase[p] = call[p].op
         \/ call[p].op = "append" /\ phase[p] = "set"
      /\ phase[p] # "del" => value[p] \in Value
      /\ phase[p] = "set" => Fits(value[p])
    BY <1>0, CallFields DEF TypeOK, Control, ControlAt, Deleting
<1>1. CASE /\ Change(p, n, Missing)
           /\ excused' = IF phase[p] = "del" THEN excused \cup {n} ELSE excused
           /\ ret' = [ret EXCEPT ![p] = IF phase[p] = "del" THEN 0 ELSE @]
           /\ phase' = [phase EXCEPT ![p] = IF @ = "append" THEN "set" ELSE @]
           /\ Goto(p, AfterDel(phase[p]))
  <2>1. /\ phase[p] \in {"del", "set", "append"}
        /\ pc'[p] = CASE phase[p] = "del" -> "ret"
                      [] phase[p] = "append" -> "access"
                      [] phase[p] = "set" -> "newvar"
    BY <1>1, <1>a DEF TypeOK, AfterDel
  <2>2. pc'[p] \in Label
    BY <2>1 DEF Label
  <2>3. /\ pc' \in [Proc -> Label] /\ ret' \in [Proc -> {-1, 0}]
        /\ phase' \in [Proc -> {"none", "set", "append", "del", "get", "size", "chmod"}]
        /\ excused' \subseteq Name /\ excused \subseteq excused'
    BY <1>1, <1>a, <2>2 DEF TypeOK
  <2>4. \A q \in Proc \ {p} : Still(q)
    BY <1>0, <1>1 DEF TypeOK, Still
  <2>5. /\ phase'[p] = IF phase[p] = "append" THEN "set" ELSE phase[p]
        /\ ret'[p] = IF phase[p] = "del" THEN 0 ELSE -1
        /\ store'[n] = Missing /\ ~opened'[p]
        /\ disturbed'[p] <=> disturbed[p]
    <3>1. ~opened'[p] /\ (disturbed'[p] <=> disturbed[p])
      BY <1>1, <1>a, Zenon DEF Change, On
    <3> QED
      BY <1>1, <1>a, <3>1 DEF TypeOK, Change
  <2>6. ControlAt(p)'
    BY <1>0, <1>a, <2>1, <2>5 DEF ControlAt, Deleting, Fits
  <2>7. n \in excused' \/ Owes(p, n)'
    BY <1>0, <1>1, <1>a, <2>1 DEF Owes, On
  <2>8. (pc[p] \notin {"off", "idle"} /\ ~disturbed[p] => SoloAt(p))'
    BY <1>0, <1>a, <2>1, <2>5 DEF SoloState, SoloAt, Deleting, Goal
  <2>9. (pc[p] = "ret" /\ ~disturbed[p] => OutcomeAt(p))'
    BY <1>0, <1>a, <2>1, <2>5 DEF SoloState, SoloAt, Deleting, OutcomeAt
  <2> QED
    BY <1>0, <1>1, <1>a, <2>3, <2>4, <2>6, <2>7, <2>8, <2>9, ChangePreserves DEF TypeOK
<1>2. CASE Fail(p) /\ UNCHANGED <<store, opened, disturbed, dir, iter, phase>>
    BY <1>0, <1>2, FailPreserves DEF Deleting, kernel
<1> QED
    BY <1>1, <1>2 DEF DelVar

LEMMA NewVarPreserves ==
    ASSUME IInv, NEW p \in Proc, NewVar(p)
    PROVE  IInv'
<1> DEFINE n == call[p].name
<1> USE DEF IInv, Goto, kernel
<1>0. pc[p] = "newvar" /\ UNCHANGED <<call, phase, value, abi, before>>
    BY DEF NewVar
<1>a. /\ call[p] \in Calls /\ n \in Name /\ call[p] # NoCall
      /\ call[p].op \in {"set", "append"} /\ call[p].val \in Value
      /\ value[p] \in Value /\ value[p] \in Storable /\ value[p] # Missing
    BY <1>0, CallFields, MissingAssumption DEF TypeOK, Control, ControlAt, Fits, Storable
<1>b. {"setmode", "ret"} \subseteq Label
    BY DEF Label
<1>1. CASE /\ Accepted(p, n)
           /\ Change(p, n, value[p])
           /\ mode' = [mode EXCEPT ![n] = DefaultMode]
           /\ excused' = excused \ {n}
           /\ ret' = [ret EXCEPT ![p] = 0]
           /\ Goto(p, "setmode")
  <2>1. /\ mode' \in [Name -> Mode \cup {DefaultMode}]
        /\ pc' \in [Proc -> Label] /\ ret' \in [Proc -> {-1, 0}]
        /\ excused' \subseteq Name
    BY <1>1, <1>b DEF TypeOK
  <2>2. \A q \in Proc \ {p} : Still(q)
    BY <1>0, <1>1 DEF TypeOK, Still
  <2>3. /\ pc'[p] = "setmode" /\ ret'[p] = 0 /\ store'[n] = value[p]
        /\ disturbed'[p] <=> disturbed[p]
    <3>1. disturbed'[p] <=> disturbed[p]
      BY <1>1, Zenon DEF Change, On
    <3> QED
      BY <1>1, <1>a, <3>1 DEF TypeOK, Change
  <2>4. ControlAt(p)'
    BY <1>0, <1>a, <2>3 DEF ControlAt, Deleting
  <2>5. ~disturbed'[p] => SoloAt(p)'
    <3> SUFFICES ASSUME ~disturbed[p] PROVE SoloAt(p)'
      BY <2>3
    <3>1. value[p] = Goal(p) /\ value[p].data # <<>>
      BY <1>0, <1>1, <1>a DEF SoloState, SoloAt, Accepted
    <3>2. value[p] = Written(before[p], call[p].op, call[p].val)
      BY <1>a, <3>1 DEF Goal, Written, Joined
    <3> QED
      BY <1>0, <2>3, <3>2 DEF SoloAt, Deleting, Written
  <2> QED
    BY <1>0, <1>1, <1>a, <2>1, <2>2, <2>3, <2>4, <2>5, ChangePreserves DEF TypeOK
<1>2. CASE /\ excused' = IF store[n] = Missing THEN excused \cup {n} ELSE excused
           /\ ret' = [ret EXCEPT ![p] = -1]
           /\ Goto(p, "setmode") \/ Goto(p, "ret")
           /\ UNCHANGED <<kernel, opened, disturbed, dir, iter>>
  <2>1. TypeOK'
    BY <1>0, <1>2, <1>a, <1>b DEF TypeOK
  <2>2. pc'[p] \in {"setmode", "ret"} /\ ret'[p] = -1 /\ ret'[p] # 0
    BY <1>2 DEF TypeOK
  <2>3. ControlAt(p)'
    BY <1>0, <1>2, <1>a, <2>2 DEF Control, ControlAt, Deleting
  <2>4. Private(p)
    BY <1>0, <1>2 DEF TypeOK, Private, Still
  <2>5. \A m \in Name : store[m] = Missing /\ Owes(p, m) => m \in excused'
    BY <1>2, <1>a DEF Owes, On
  <2>6. ~disturbed'[p] => SoloAt(p)' /\ OutcomeAt(p)'
    <3> SUFFICES ASSUME ~disturbed[p] PROVE SoloAt(p)' /\ OutcomeAt(p)'
      BY <1>2
    <3>1. store[n] = Missing /\ n \in excused'
      BY <1>0, <1>2 DEF SoloState, SoloAt
    <3>2. SoloAt(p)'
      BY <1>0, <1>2, <2>2, <3>1 DEF SoloAt, Deleting
    <3>3. OutcomeAt(p)'
      BY <1>0, <1>2, <2>2, <3>1 DEF OutcomeAt
    <3> QED
      BY <3>2, <3>3
  <2> QED
    BY <2>1, <2>3, <2>4, <2>5, <2>6, PrivatePreserves
<1> QED
    BY <1>1, <1>2 DEF NewVar

LEMMA ReturnPreserves ==
    ASSUME IInv, NEW p \in Proc, Return(p)
    PROVE  IInv'
<1> USE DEF IInv, Return, Goto, kernel
<1>1. TypeOK'
  <2>1. "idle" \in Label
    BY DEF Label
  <2> QED
    BY <2>1 DEF TypeOK
<1>2. Control'
    BY DEF TypeOK, Control, ControlAt, Deleting
<1>3. LossExplained'
    BY DEF TypeOK, LossExplained, Owes, On
<1>4. SoloState' /\ SoloOutcome'
  <2>1. ASSUME NEW q \in Proc, q # p PROVE Still(q) /\ disturbed'[q] = disturbed[q]
    BY <2>1 DEF TypeOK, Still
  <2>2. pc'[p] = "idle"
    BY DEF TypeOK
  <2> QED
    BY <2>1, <2>2, Bystander DEF SoloState, SoloOutcome
<1>5. IterState' /\ NextCovers'
    BY DEF IterState, NextCovers
<1> QED
    BY <1>1, <1>2, <1>3, <1>4, <1>5

LEMMA KillPreserves ==
    ASSUME IInv, NEW p \in Proc, Kill(p)
    PROVE  IInv'
<1> USE DEF IInv, Kill, Goto, kernel
<1>1. TypeOK'
  <2>1. "off" \in Label /\ NoIter \in Iterations
    BY DEF Label, NoIter, Iterations
  <2> QED
    BY <2>1, AbiAssumption DEF TypeOK
<1>2. Control'
    BY DEF TypeOK, Control, ControlAt, Deleting
<1>3. LossExplained'
  <2> SUFFICES ASSUME NEW n \in Name, store[n] = Missing, n \notin excused'
               PROVE  \E q \in Proc : Owes(q, n)'
    BY DEF LossExplained
  <2>1. PICK q \in Proc : Owes(q, n)
    BY DEF LossExplained
  <2>2. q # p
    BY <2>1
  <2> QED
    BY <2>1, <2>2 DEF TypeOK, Owes, On
<1>4. SoloState' /\ SoloOutcome'
  <2>1. ASSUME NEW q \in Proc, q # p PROVE Still(q) /\ disturbed'[q] = disturbed[q]
    BY <2>1 DEF TypeOK, Still
  <2>2. pc'[p] = "off"
    BY DEF TypeOK
  <2> QED
    BY <2>1, <2>2, Bystander DEF SoloState, SoloOutcome
<1>5. IterState' /\ NextCovers'
    BY DEF TypeOK, IterState, NextCovers, NoIter
<1> QED
    BY <1>1, <1>2, <1>3, <1>4, <1>5

LEMMA NextNamePreserves ==
    ASSUME IInv, NEW p \in Proc, NEW start \in BOOLEAN, NextName(p, start)
    PROVE  IInv'
<1> DEFINE d == Stream(p)
           i == Begun(p, start)
<1> USE DEF IInv, kernel
<1>0. UNCHANGED <<kernel, pc, call, phase, value, opened, ret, abi, before, disturbed, excused>>
    BY DEF NextName
<1>a. d \in Streams /\ (dir[p] = Closed => d.must = Present) /\ (dir[p] # Closed => d = dir[p])
    BY DEF TypeOK, Stream, Streams, Present
<1>b. /\ i \in Iterations /\ i.on
      /\ ~i.resumed => i.owed \subseteq i.got \cup d.must
  <2>1. CASE start
    <3>1. i = [on |-> TRUE, resumed |-> iter[p].on, owed |-> Present, got |-> {}]
      BY <2>1 DEF Begun
    <3>2. iter[p].on \in BOOLEAN /\ Present \subseteq Name
      BY DEF TypeOK, Iterations, Present
    <3> QED
      BY <1>a, <3>1, <3>2 DEF Iterations, IterState
  <2>2. CASE ~start
    <3>1. i = iter[p] /\ iter[p].on /\ iter[p] \in Iterations
      BY <2>2 DEF Begun, NextName, TypeOK
    <3> QED
      BY <1>a, <3>1 DEF IterState
  <2> QED
    BY <2>1, <2>2
<1>c. \/ \E n \in d.may \ Alien :
            /\ dir' = [dir EXCEPT ![p] = [must |-> d.must \ {n}, may |-> d.may \ {n}]]
            /\ iter' = [iter EXCEPT ![p] = [i EXCEPT !.got = @ \cup {n}]]
      \/ /\ d.must = {}
         /\ dir' = [dir EXCEPT ![p] = Closed]
         /\ iter' = [iter EXCEPT ![p] = [i EXCEPT !.on = FALSE]]
      \/ dir' = [dir EXCEPT ![p] = Closed] /\ iter' = [iter EXCEPT ![p] = NoIter]
      \/ dir[p] = Closed /\ dir' = dir /\ iter' = [iter EXCEPT ![p] = NoIter]
    BY DEF NextName, Stop
<1> HIDE DEF d, i
\* What the step makes of p's stream and iteration; those of others stay.
<1> DEFINE After ==
      \E dp \in Streams \cup {Closed}, ip \in Iterations :
          /\ dir' = [dir EXCEPT ![p] = dp]
          /\ iter' = [iter EXCEPT ![p] = ip]
          /\ ip.on <=> dp # Closed
          /\ ip.on /\ ~ip.resumed => ip.owed \subseteq ip.got \cup dp.must
          /\ ~ip.on /\ ~ip.resumed => ip.owed \subseteq ip.got
<1>d. After
  <2>0. NoIter \in Iterations /\ ~NoIter.on /\ NoIter.owed = {}
    BY DEF NoIter, Iterations
  <2>1. ASSUME NEW n \in d.may \ Alien,
               dir' = [dir EXCEPT ![p] = [must |-> d.must \ {n}, may |-> d.may \ {n}]],
               iter' = [iter EXCEPT ![p] = [i EXCEPT !.got = @ \cup {n}]]
        PROVE  After
    <3> DEFINE dp == [must |-> d.must \ {n}, may |-> d.may \ {n}]
               ip == [i EXCEPT !.got = @ \cup {n}]
    <3>1. n \in Name /\ dp \in Streams /\ dp.must = d.must \ {n}
      BY <1>a DEF Streams
    <3>2. /\ ip \in Iterations /\ ip.on /\ ip.resumed = i.resumed
          /\ ip.owed = i.owed /\ ip.got = i.got \cup {n}
      BY <1>b, <3>1 DEF Iterations
    <3>3. dir' = [dir EXCEPT ![p] = dp] /\ iter' = [iter EXCEPT ![p] = ip]
      BY <2>1
    <3>4. dp # Closed
      BY <3>1, ClosedIsNoStream
    <3> HIDE DEF dp, ip
    <3>5. dp \in Streams \cup {Closed} /\ (ip.on <=> dp # Closed)
          /\ (~ip.resumed => ip.owed \subseteq ip.got \cup dp.must)
      BY <1>b, <3>1, <3>2, <3>4
    <3> QED
      BY <3>2, <3>3, <3>5
  <2>2. CASE /\ d.must = {}
             /\ dir' = [dir EXCEPT ![p] = Closed]
             /\ iter' = [iter EXCEPT ![p] = [i EXCEPT !.on = FALSE]]
    <3> DEFINE ip == [i EXCEPT !.on = FALSE]
    <3>1. /\ ip \in Iterations /\ ~ip.on /\ ip.resumed = i.resumed
          /\ ip.owed = i.owed /\ ip.got = i.got
      BY <1>b DEF Iterations
    <3>2. dir' = [dir EXCEPT ![p] = Closed] /\ iter' = [iter EXCEPT ![p] = ip]
      BY <2>2
    <3> HIDE DEF ip
    <3> QED
      BY <1>b, <2>2, <3>1, <3>2
  <2>3. CASE dir' = [dir EXCEPT ![p] = Closed] /\ iter' = [iter EXCEPT ![p] = NoIter]
    BY <2>0, <2>3
  <2>4. CASE dir[p] = Closed /\ dir' = dir /\ iter' = [iter EXCEPT ![p] = NoIter]
    <3>1. dir' = [dir EXCEPT ![p] = Closed]
      BY <2>4 DEF TypeOK
    <3> QED
      BY <2>0, <2>4, <3>1
  <2> QED
    BY <1>c, <2>1, <2>2, <2>3, <2>4
<1>1. TypeOK'
    BY <1>0, <1>d DEF TypeOK
<1>2. Control'
    BY <1>0 DEF Control, ControlAt, Fits
<1>3. LossExplained'
    BY <1>0 DEF LossExplained, Owes, On
<1>4. SoloState' /\ SoloOutcome'
    BY <1>0, Bystander DEF SoloState, SoloOutcome, Still
<1>5. IterState' /\ NextCovers'
    BY <1>d DEF TypeOK, IterState, NextCovers
<1> QED
    BY <1>1, <1>2, <1>3, <1>4, <1>5

-----------------------------------------------------------------------------
(* The theorems                                                            *)

LEMMA InitEstablishes == Init => IInv
<1> SUFFICES ASSUME Init PROVE IInv
    OBVIOUS
<1>0. PICK there \in SUBSET Name, v \in Payload :
        /\ v.data # <<>> /\ Len(v.data) <= MaxLen
        /\ store = [n \in Name |-> IF n \in there THEN v ELSE Missing]
        /\ excused = Name \ there
    BY DEF Init
<1>1. TypeOK
  <2>1. v \in Storable
    BY <1>0, PayloadAssumption DEF Storable
  <2>2. "off" \in Label /\ NoIter \in Iterations
    BY DEF Label, NoIter, Iterations
  <2> QED
    BY <1>0, <2>1, <2>2, AbiAssumption DEF Init, TypeOK
<1>2. Control
    BY DEF Init, Control, ControlAt, Deleting
<1>3. LossExplained
  <2>1. v # Missing
    BY PayloadAssumption, MissingAssumption
  <2> QED
    BY <1>0, <2>1 DEF LossExplained
<1>4. SoloState /\ SoloOutcome /\ IterState /\ NextCovers
    BY DEF Init, SoloState, SoloOutcome, IterState, NextCovers, NoIter
<1> QED
    BY <1>1, <1>2, <1>3, <1>4 DEF IInv

LEMMA NextPreserves == IInv /\ [Next]_vars => IInv'
<1> SUFFICES ASSUME IInv, [Next]_vars PROVE IInv'
    OBVIOUS
<1>1. CASE UNCHANGED vars
  <2> USE <1>1 DEF vars, kernel, local, history
  <2>1. TypeOK' /\ Control' /\ LossExplained'
    BY DEF IInv, TypeOK, Control, ControlAt, Fits, LossExplained, Owes, On
  <2>2. SoloState' /\ SoloOutcome'
    BY Bystander DEF IInv, SoloState, SoloOutcome, Still
  <2>3. IterState' /\ NextCovers'
    BY DEF IInv, IterState, NextCovers
  <2> QED
    BY <2>1, <2>2, <2>3 DEF IInv
<1>2. ASSUME NEW p \in Proc, Step(p) PROVE IInv'
    BY <1>2, GetOpenPreserves, GetReadPreserves, DelOpenPreserves, DelReadPreserves,
       DelVarPreserves, AccessPreserves, NewVarPreserves, SetModePreserves,
       ChmodPreserves, SizePreserves, NoMemoryPreserves, ReturnPreserves DEF Step
<1> QED
    BY <1>1, <1>2, ProbePreserves, CallPreserves, KillPreserves, NextNamePreserves DEF Next

\* The invariant that the properties of vars.c and generics.h follow from
\* holds in every reachable state.
THEOREM Invariance == Spec => []IInv
BY InitEstablishes, NextPreserves, PTL DEF Spec

\* Every variable keeps its type; no record of sysfs ever holds more data
\* than vars_set_variable lets through.
THEOREM TypeCorrect == Spec => []TypeOK
<1>1. IInv => TypeOK
    BY DEF IInv
<1> QED
    BY <1>1, Invariance, PTL

\* Deletes and creates of vars_set_variable and generic_append_variable that
\* overlap in any way never lose a variable between them: one that nobody
\* deleted is missing only while a call is about to write it, or because a
\* call died, was refused or found the value too long.
THEOREM NothingLost == Spec => []LossExplained
<1>1. IInv => LossExplained
    BY DEF IInv
<1> QED
    BY <1>1, Invariance, PTL

\* A call whose variable no other process changes does what it promises, or
\* fails and leaves the variable as it was or lost for a reason: from the
\* read to the last write of a set, an append or a delete.
THEOREM SoloPromises == Spec => []SoloOutcome
<1>1. IInv => SoloOutcome
    BY DEF IInv
<1> QED
    BY <1>1, Invariance, PTL

\* generic_get_next_variable_name returns every variable that is there from
\* the first call of an iteration to its last, whatever other processes make
\* and remove meanwhile.
THEOREM IterationsComplete == Spec => []NextCovers
<1>1. IInv => NextCovers
    BY DEF IInv
<1> QED
    BY <1>1, Invariance, PTL
====
