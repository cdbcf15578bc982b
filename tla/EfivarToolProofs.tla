-------------------------- MODULE EfivarToolProofs --------------------------
(***************************************************************************)
(* Proofs about the efivar tool: what a run that ends with 0 leaves in the *)
(* exported file and in the firmware.  The invariant follows one run from  *)
(* its start: where main() can be for its operation, and what the variable *)
(* in memory, the file and the firmware hold there.                        *)
(***************************************************************************)
EXTENDS EfivarTool, WellFoundedInduction, TLAPS

(***************************************************************************)
(* Induction over numbers: a statement is proved as a fact about the set   *)
(* of numbers it holds for.                                                *)
(***************************************************************************)

Below == {mn \in Nat \X Nat : mn[1] < mn[2]}

\* A set of natural numbers has a smallest one.
LEMMA Least ==
    ASSUME NEW S \in SUBSET Nat, S # {}
    PROVE  \E n \in S : \A m \in S : n <= m
<1>1. IsWellFoundedOn(Below, Nat)
    BY NatLessThanWellFounded DEF OpToRel, Below
<1>2. PICK n \in S : \A m \in S : <<m, n>> \notin Below
    BY <1>1, WFMin
<1>3. ASSUME NEW m \in S PROVE n <= m
  <2>1. <<m, n>> \notin Below /\ m \in Nat /\ n \in Nat
    BY <1>2
  <2> QED
    BY <2>1 DEF Below
<1> QED
    BY <1>3

\* What holds for 0 and, with a number, for the next one, holds for all.
LEMMA Induction ==
    ASSUME NEW S, 0 \in S, \A n \in Nat : n \in S => n + 1 \in S
    PROVE  Nat \subseteq S
<1> SUFFICES ASSUME Nat \ S # {} PROVE FALSE
    OBVIOUS
<1>1. PICK n \in Nat \ S : \A m \in Nat \ S : n <= m
    BY Least
<1>2. n # 0 /\ n - 1 \in Nat
    BY <1>1
<1>3. n - 1 \in S
    BY <1>1, <1>2
<1> QED
    BY <1>1, <1>2, <1>3

\* The same up to a bound.
LEMMA InductionTo ==
    ASSUME NEW N \in Nat, NEW S, 0 \in S,
           \A n \in 0 .. (N - 1) : n \in S => n + 1 \in S
    PROVE  0 .. N \subseteq S
<1> DEFINE T == {n \in Nat : n <= N => n \in S}
<1>1. 0 \in T
    OBVIOUS
<1>2. ASSUME NEW n \in Nat, n \in T PROVE n + 1 \in T
    BY <1>2
<1> HIDE DEF T
<1>3. Nat \subseteq T
    BY <1>1, <1>2, Induction
<1> QED
    BY <1>3 DEF T

\* g has the sums of the first elements of s, for up to n elements.
IsSum(g, s, n) == g = [k \in 0 .. n |-> IF k = 0 THEN 0 ELSE g[k - 1] + s[k]]

LEMMA SumsExist ==
    ASSUME NEW s, NEW n \in Nat
    PROVE  \E g : IsSum(g, s, n)
<1> DEFINE S == {k \in Nat : \E g : IsSum(g, s, k)}
<1>1. 0 \in S
  <2>1. IsSum([k \in 0 .. 0 |-> 0], s, 0)
    BY DEF IsSum
  <2> QED
    BY <2>1
<1>2. ASSUME NEW m \in Nat, m \in S PROVE m + 1 \in S
  <2>1. PICK g : IsSum(g, s, m)
    BY <1>2
  <2> DEFINE h == [k \in 0 .. (m + 1) |-> IF k = m + 1 THEN g[m] + s[m + 1] ELSE g[k]]
  <2>2. ASSUME NEW k \in 0 .. (m + 1)
        PROVE  h[k] = IF k = 0 THEN 0 ELSE h[k - 1] + s[k]
    <3>1. CASE k = m + 1
      BY <3>1
    <3>2. CASE k \in 0 .. m
      <4>1. g[k] = IF k = 0 THEN 0 ELSE g[k - 1] + s[k]
        BY <2>1, <3>2 DEF IsSum
      <4> QED
        BY <3>2, <4>1
    <3> QED
      BY <3>1, <3>2
  <2>3. IsSum(h, s, m + 1)
    BY <2>2 DEF IsSum
  <2> QED
    BY <2>3
<1> HIDE DEF S
<1>3. n \in S
    BY <1>1, <1>2, Induction
<1> QED
    BY <1>3 DEF S

LEMMA SumSteps ==
    ASSUME NEW n \in Nat, NEW s, NEW g, IsSum(g, s, n)
    PROVE  g[0] = 0 /\ \A k \in 1 .. n : g[k] = g[k - 1] + s[k]
    BY DEF IsSum

\* The sums of positive numbers grow.
LEMMA SumsGrow ==
    ASSUME NEW n \in Nat, NEW s, \A k \in 1 .. n : s[k] \in Nat \ {0},
           NEW g, IsSum(g, s, n)
    PROVE  /\ \A k \in 0 .. n : g[k] \in Nat
           /\ \A i, j \in 0 .. n : i < j => g[i] < g[j]
<1>1. g[0] = 0 /\ \A k \in 1 .. n : g[k] = g[k - 1] + s[k]
    BY SumSteps
<1> DEFINE S == {k \in 0 .. n : g[k] \in Nat}
           T == {j \in 0 .. n : \A i \in 0 .. n : i < j => g[i] < g[j]}
<1>2. 0 \in S
    BY <1>1
<1>3. ASSUME NEW k \in 0 .. (n - 1), k \in S PROVE k + 1 \in S
    BY <1>1, <1>3
<1>4. 0 .. n \subseteq S
  <2> HIDE DEF S
  <2> QED
    BY <1>2, <1>3, InductionTo
<1>5. 0 \in T
    OBVIOUS
<1>6. ASSUME NEW k \in 0 .. (n - 1), k \in T PROVE k + 1 \in T
  <2>1. g[k + 1] = g[k] + s[k + 1] /\ g[k] \in Nat /\ s[k + 1] \in Nat \ {0}
    BY <1>1, <1>4
  <2>2. ASSUME NEW i \in 0 .. n, i < k + 1 PROVE g[i] < g[k + 1]
    <3>1. g[i] \in Nat
      BY <1>4
    <3>2. CASE i = k
      BY <2>1, <3>2
    <3>3. CASE i < k
      <4>1. g[i] < g[k]
        BY <1>6, <3>3
      <4> QED
        BY <2>1, <3>1, <4>1
    <3> QED
      BY <2>2, <3>2, <3>3
  <2> QED
    BY <2>2
<1>7. 0 .. n \subseteq T
  <2> HIDE DEF T
  <2> QED
    BY <1>5, <1>6, InductionTo
<1> QED
    BY <1>4, <1>7

-----------------------------------------------------------------------------

\* main() never leaves the path of its operation.
Path(op) ==
    CASE op = "export" -> {"get", "open", "format"}
      [] op = "format" -> {"prepare", "open", "format"}
      [] op = "convert" -> {"import", "open", "format"}
      [] op \in {"write", "append"} -> {"prepare", "get", "set"}

Tracked == {"export", "format", "convert", "write", "append"}

OnPath == pc # "idle" /\ Op \in Tracked => pc \in Path(Op) \cup {"done", "killed"}

\* A variable that exists has attributes, and what it holds was seen.
StoreOK ==
    /\ DOMAIN store = Names
    /\ \A n \in Names : store[n] = Missing \/ store[n].attrs # Zero
    /\ pc # "idle" => /\ DOMAIN seen = Names
                      /\ \A n \in Names : store[n] \in seen[n]

\* The files that the commands name are there.
OutOK ==
    /\ pc # "idle" => cmd \in Commands
    /\ \A c \in Commands :
            Operation(c) \in {"export", "format", "convert"} => c.out \in DOMAIN files

\* What is to be exported.
RegOK ==
    pc \in {"open", "format"} =>
        /\ Op = "export" => \E v \in seen[cmd.name] \ {Missing} :
                                reg = VarOf(cmd.name, v.attrs, v.data)
        /\ Op = "format" => reg = VarOf(cmd.name, cmd.attrs, cmd.from)

\* The firmware is what it was when an edit began, and the variable in memory
\* is what will be written.
EditOK ==
    Op \in {"write", "append"} =>
        /\ pc \in {"prepare", "get"} => fault = "none"
        /\ other = 0 /\ fault = "none" =>
            /\ pc \in {"prepare", "get", "set"} => store = before
            /\ pc = "get" => reg = VarOf(cmd.name, cmd.attrs, cmd.from)
            /\ pc = "set" => reg = VarOf(cmd.name, EditAttrs(cmd.attrs, before[cmd.name]), cmd.from)

IInv == other \in Nat /\ OnPath /\ StoreOK /\ OutOK /\ RegOK /\ EditOK /\ ExportExact /\ EditRight

-----------------------------------------------------------------------------
(* Helpers                                                                 *)

LEMMA SameOp ==
    ASSUME cmd' = cmd
    PROVE  Op' = Op
    BY DEF Op

\* A write that is not refused leaves no variable without attributes.
LEMMA AfterFacts ==
    ASSUME NEW old, NEW op, NEW new, old = Missing \/ old.attrs # Zero
    PROVE  After(old, op, new) = Missing \/ After(old, op, new).attrs # Zero
    BY DEF After, Uefi!Written

LEMMA PutFacts ==
    ASSUME StoreOK, pc # "idle", NEW n, NEW v, Put(n, v),
           n \in Names => v = Missing \/ v.attrs # Zero
    PROVE  /\ StoreOK'
           /\ \A m \in Names : seen[m] \subseteq seen'[m]
<1>1. DOMAIN store' = Names /\ DOMAIN seen' = Names
    BY DEF StoreOK, Put
<1>2. ASSUME NEW m \in Names
      PROVE  /\ store'[m] = Missing \/ store'[m].attrs # Zero
             /\ store'[m] \in seen'[m] /\ seen[m] \subseteq seen'[m]
  <2>1. CASE m = n
    <3>1. store'[m] = v /\ seen'[m] = seen[m] \cup {v}
      BY <2>1 DEF StoreOK, Put
    <3> QED
      BY <2>1, <3>1
  <2>2. CASE m # n
    <3>1. store'[m] = store[m] /\ seen'[m] = seen[m]
      BY <2>2 DEF StoreOK, Put
    <3> QED
      BY <3>1 DEF StoreOK
  <2> QED
    BY <2>1, <2>2
<1> QED
    BY <1>1, <1>2 DEF StoreOK

\* efi_set_variable and efi_append_variable, also when they refuse
LEMMA WriteFacts ==
    ASSUME StoreOK, pc # "idle", NEW op, Write(op)
    PROVE  StoreOK'
<1> DEFINE new == [attrs |-> reg.attrs, data |-> reg.data]
<1>1. CASE Refuses(store[reg.name], new)
  <2>1. UNCHANGED <<store, seen>>
    BY <1>1 DEF Write
  <2> QED
    BY <2>1 DEF StoreOK
<1>2. CASE ~Refuses(store[reg.name], new)
  <2> DEFINE v == After(store[reg.name], op, new)
  <2>1. Put(reg.name, v)
    BY <1>2 DEF Write
  <2>2. reg.name \in Names => v = Missing \/ v.attrs # Zero
    BY AfterFacts DEF StoreOK
  <2> HIDE DEF v
  <2> QED
    BY <2>1, <2>2, PutFacts
<1> QED
    BY <1>1, <1>2

\* A run whose operation neither exports nor edits
LEMMA Untracked ==
    ASSUME IInv, pc # "idle", pc' # "idle", Op \notin Tracked, cmd' = cmd, other' = other,
           DOMAIN files' = DOMAIN files, StoreOK'
    PROVE  IInv'
<1>1. Op' \notin Tracked
    BY SameOp
<1>2. OnPath' /\ RegOK' /\ EditOK' /\ ExportExact' /\ EditRight'
    BY <1>1 DEF Tracked, OnPath, RegOK, EditOK, ExportExact, EditRight, Finished
<1>3. OutOK'
    BY DEF IInv, OutOK
<1> QED
    BY <1>2, <1>3 DEF IInv

\* A run that ends, and not with 0
LEMMA Ended ==
    ASSUME IInv, pc # "idle", pc' \in {"done", "killed"}, pc' = "killed" \/ status' = 1,
           cmd' = cmd, other' = other, DOMAIN files' = DOMAIN files, StoreOK'
    PROVE  IInv'
<1>1. OnPath' /\ RegOK' /\ EditOK' /\ ExportExact' /\ EditRight'
    BY DEF OnPath, RegOK, EditOK, ExportExact, EditRight, Finished
<1>2. OutOK'
    BY DEF IInv, OutOK
<1> QED
    BY <1>1, <1>2 DEF IInv

LEMMA SameStore ==
    ASSUME StoreOK, pc # "idle", UNCHANGED <<store, seen>>
    PROVE  StoreOK'
    BY DEF StoreOK


-----------------------------------------------------------------------------
(* Init and the actions                                                    *)

LEMMA InitIInv == Init => IInv
<1> SUFFICES ASSUME Init PROVE IInv
    OBVIOUS
<1>1. StoreOK
  <2>1. store \in [Names -> Values \cup {Missing}] /\ pc = "idle"
    BY StoresAssumption DEF Init
  <2> QED
    BY <2>1, StoresAssumption DEF StoreOK
<1>2. OutOK
    BY CommandsAssumption DEF Init, OutOK
<1>3. OnPath /\ RegOK /\ EditOK /\ ExportExact /\ EditRight
    BY DEF Init, OnPath, RegOK, EditOK, ExportExact, EditRight, Finished
<1> QED
    BY <1>1, <1>2, <1>3 DEF IInv, Init

LEMMA OtherPreserves ==
    ASSUME IInv, Other
    PROVE  IInv'
<1>1. /\ pc # "idle" /\ pc' = pc /\ cmd' = cmd /\ reg' = reg /\ files' = files
      /\ status' = status /\ fault' = fault /\ other' # 0 /\ other' \in Nat
    BY DEF Other, IInv
<1>2. PICK n \in Concerned, v \in Values \cup {Missing} : Put(n, v)
    BY DEF Other
<1>3. StoreOK' /\ \A m \in Names : seen[m] \subseteq seen'[m]
    BY <1>1, <1>2, PutFacts, StoresAssumption DEF IInv
<1>4. Op' = Op
    BY <1>1, SameOp
<1>5. OnPath' /\ OutOK'
    BY <1>1, <1>4 DEF IInv, OnPath, OutOK
<1>6. Op = "export" => cmd.name \in Names
    BY <1>1, CommandsAssumption DEF IInv, OutOK, Op
<1>7. RegOK'
    BY <1>1, <1>3, <1>4, <1>6 DEF IInv, RegOK
<1>8. ExportExact'
    BY <1>1, <1>3, <1>4, <1>6 DEF IInv, ExportExact, Finished, Holds
<1>9. EditOK' /\ EditRight'
    BY <1>1, <1>4 DEF IInv, EditOK, EditRight
<1> QED
    BY <1>1, <1>3, <1>5, <1>7, <1>8, <1>9 DEF IInv

\* A run starts with a command line; nothing is on its way yet.
LEMMA StartPreserves ==
    ASSUME IInv, NEW c \in Commands, Start(c)
    PROVE  IInv'
<1>1. /\ cmd' = c /\ pc' = FirstStep(Operation(c)) /\ Op' = Operation(c)
      /\ store' = store /\ before' = store /\ files' = files /\ other' = 0
      /\ seen' = [n \in Names |-> {store[n]}] /\ fault' = "none"
    BY DEF Start, Op
<1>2. Op' \in Tracked => /\ pc' \in {"get", "prepare", "import"}
                         /\ pc' \in Path(Op')
                         /\ Op' \in {"write", "append"} => pc' = "prepare"
    BY <1>1 DEF Tracked, Path, FirstStep
<1>3. StoreOK' /\ OutOK'
    BY <1>1 DEF IInv, StoreOK, OutOK
<1>4. OnPath' /\ RegOK'
    BY <1>2 DEF OnPath, RegOK, Tracked
<1>5. EditOK'
    BY <1>1, <1>2 DEF EditOK, Tracked
<1>6. ExportExact' /\ EditRight'
    BY <1>2 DEF ExportExact, EditRight, Finished, Tracked
<1> QED
    BY <1>1, <1>3, <1>4, <1>5, <1>6 DEF IInv

LEMMA AgainPreserves ==
    ASSUME IInv, Again
    PROVE  IInv'
<1>1. pc' = "idle" /\ UNCHANGED <<store, files>> /\ other' = 0
    BY DEF Again
<1> QED
    BY <1>1 DEF IInv, OnPath, StoreOK, OutOK, RegOK, EditOK, ExportExact, EditRight, Finished

LEMMA StopsPreserve ==
    ASSUME IInv, Kill \/ End \/ SetFails
    PROVE  IInv'
<1>1. /\ pc # "idle" /\ pc' \in {"done", "killed"} /\ UNCHANGED <<store, seen, files, cmd, other>>
      /\ (pc' = "killed" \/ status' = 1) \/ pc = "end"
    BY DEF Kill, End, SetFails, Exit
<1>2. StoreOK'
    BY <1>1, SameStore DEF IInv
<1>3. pc = "end" => Op \notin Tracked
    BY DEF IInv, OnPath, Path, Tracked
<1> QED
    BY <1>1, <1>2, <1>3, Ended, Untracked

LEMMA PreparePreserves ==
    ASSUME IInv, Prepare
    PROVE  IInv'
<1>1. /\ pc = "prepare" /\ pc' # "idle"
      /\ UNCHANGED <<store, files, cmd, fault, seen, before, other>>
    BY DEF Prepare, Exit
<1>2. StoreOK' /\ Op' = Op
    BY <1>1, SameStore, SameOp DEF IInv
<1>3. CASE Op \notin Tracked
    BY <1>1, <1>2, <1>3, Untracked
<1>4. CASE cmd.from = <<>>
    BY <1>1, <1>2, <1>4, Ended DEF Prepare, Exit
<1>5. CASE Op \in Tracked /\ cmd.from # <<>>
  <2>1. /\ Op \in {"format", "write", "append"}
        /\ reg' = VarOf(cmd.name, cmd.attrs, cmd.from)
        /\ pc' = IF Op = "format" THEN "open" ELSE "get"
    BY <1>1, <1>5 DEF IInv, OnPath, Path, Tracked, Prepare
  <2>2. OnPath' /\ OutOK'
    BY <1>1, <1>2, <2>1 DEF IInv, OnPath, OutOK, Path, Tracked
  <2>3. RegOK' /\ EditOK'
    BY <1>1, <1>2, <2>1 DEF IInv, RegOK, EditOK
  <2>4. ExportExact' /\ EditRight'
    BY <2>1 DEF ExportExact, EditRight, Finished
  <2> QED
    BY <1>1, <1>2, <2>2, <2>3, <2>4 DEF IInv
<1> QED
    BY <1>3, <1>4, <1>5

\* The variable that an export has read is one that was seen.
LEMMA GetPreserves ==
    ASSUME IInv, NEW val, NEW f, Get(val, f),
           f = "none" => val = store[cmd.name], f # "none" => val = Missing
    PROVE  IInv'
<1>1. /\ pc = "get" /\ pc' # "idle" /\ fault' = f
      /\ UNCHANGED <<store, files, cmd, seen, before, other>>
    BY DEF Get, Exit
<1>2. StoreOK' /\ Op' = Op
    BY <1>1, SameStore, SameOp DEF IInv
<1>3. CASE Op \notin Tracked
    BY <1>1, <1>2, <1>3, Untracked
<1>4. CASE Op \in {"append", "write"}
  <2>1. reg' = [reg EXCEPT !.attrs = EditAttrs(cmd.attrs, val)] /\ pc' = "set"
    BY <1>4 DEF Get
  <2>2. OnPath' /\ OutOK'
    BY <1>1, <1>2, <1>4, <2>1 DEF IInv, OnPath, OutOK, Path, Tracked
  <2>3. RegOK' /\ ExportExact' /\ EditRight'
    BY <2>1 DEF RegOK, ExportExact, EditRight, Finished
  <2>4. EditOK'
    <3>1. SUFFICES ASSUME other = 0, fault' = "none"
                   PROVE  /\ store = before
                          /\ reg' = VarOf(cmd.name, EditAttrs(cmd.attrs, before[cmd.name]), cmd.from)
      BY <1>1, <1>2, <2>1 DEF EditOK
    <3>2. store = before /\ reg = VarOf(cmd.name, cmd.attrs, cmd.from)
      BY <1>1, <1>4, <3>1 DEF IInv, EditOK
    <3>3. val = before[cmd.name]
      BY <1>1, <3>1, <3>2
    <3> QED
      BY <2>1, <3>2, <3>3 DEF VarOf
  <2> QED
    BY <1>1, <1>2, <2>2, <2>3, <2>4 DEF IInv
<1>5. CASE Op \in Tracked \ {"append", "write"} /\ val = Missing
    BY <1>1, <1>2, <1>5, Ended DEF Get, Exit
<1>6. CASE Op \in Tracked \ {"append", "write"} /\ val # Missing
  <2>1. Op = "export" /\ cmd.name \in Names /\ val = store[cmd.name]
    BY <1>1, <1>6, CommandsAssumption DEF IInv, OnPath, OutOK, Path, Tracked, Op
  <2>2. reg' = VarOf(cmd.name, val.attrs, val.data) /\ pc' = "open"
    BY <1>6, <2>1 DEF Get
  <2>3. OnPath' /\ OutOK'
    BY <1>1, <1>2, <2>1, <2>2 DEF IInv, OnPath, OutOK, Path, Tracked
  <2>4. val \in seen'[cmd.name] \ {Missing}
    BY <1>1, <1>6, <2>1 DEF IInv, StoreOK
  <2>5. RegOK' /\ EditOK'
    BY <1>1, <1>2, <2>1, <2>2, <2>4 DEF RegOK, EditOK
  <2>6. ExportExact' /\ EditRight'
    BY <2>2 DEF ExportExact, EditRight, Finished
  <2> QED
    BY <1>1, <1>2, <2>3, <2>5, <2>6 DEF IInv
<1> QED
    BY <1>3, <1>4, <1>5, <1>6

\* An edit writes what EditOK says, and the firmware refuses to change the
\* attributes.
LEMMA SetPreserves ==
    ASSUME IInv, Set
    PROVE  IInv'
<1> DEFINE op == IF Op = "append" THEN "append" ELSE "set"
           new == [attrs |-> reg.attrs, data |-> reg.data]
<1>1. /\ pc = "set" /\ Write(op) /\ UNCHANGED <<files, cmd, fault, before, other>>
    BY DEF Set
<1>2. pc' = "done" /\ status' \in {0, 1} /\ StoreOK' /\ Op' = Op
    BY <1>1, WriteFacts, SameOp DEF IInv, Write, Exit
<1>3. CASE Op \notin Tracked
    BY <1>1, <1>2, <1>3, Untracked
<1>4. CASE status' = 1
    BY <1>1, <1>2, <1>4, Ended
<1>5. CASE Op \in Tracked /\ status' = 0
  <2>1. Op \in {"write", "append"}
    BY <1>1, <1>5 DEF IInv, OnPath, Path, Tracked
  <2>2. /\ ~Refuses(store[reg.name], new)
        /\ store' = [store EXCEPT ![reg.name] = After(store[reg.name], op, new)]
    BY <1>1, <1>5 DEF Write, Put, Exit
  <2>3. OnPath' /\ OutOK'
    BY <1>1, <1>2 DEF IInv, OnPath, OutOK
  <2>4. RegOK' /\ EditOK'
    BY <1>2 DEF RegOK, EditOK
  <2>5. ExportExact'
    BY <1>2, <2>1 DEF ExportExact, Finished
  <2>6. EditRight'
    <3>1. SUFFICES ASSUME other = 0, fault = "none"
          PROVE  LET old == before[cmd.name]
                     a   == IF cmd.attrs = Zero THEN old.attrs ELSE cmd.attrs
                 IN store' = [before EXCEPT ![cmd.name] =
                                 Uefi!Written(@, op, [attrs |-> a, data |-> cmd.from])]
      BY <1>1, <1>2, <2>1 DEF EditRight, Finished
    <3> DEFINE old == before[cmd.name]
               a   == IF cmd.attrs = Zero THEN old.attrs ELSE cmd.attrs
    <3>2. store = before /\ reg = VarOf(cmd.name, EditAttrs(cmd.attrs, old), cmd.from)
      BY <1>1, <2>1, <3>1 DEF IInv, EditOK
    <3>3. reg.name = cmd.name /\ new = [attrs |-> EditAttrs(cmd.attrs, old), data |-> cmd.from]
      BY <3>2 DEF VarOf
    <3>4. EditAttrs(cmd.attrs, old) # Zero
      <4>1. CASE new.attrs = Zero
        <5>1. cmd.attrs = Zero /\ old # Missing /\ old.attrs = Zero
          BY <2>2, <3>2, <3>3, <4>1 DEF Refuses, EditAttrs
        <5>2. cmd.name \in Names
          BY <1>1, <2>1, CommandsAssumption DEF IInv, OutOK, Op
        <5> QED
          BY <3>2, <5>1, <5>2 DEF IInv, StoreOK
      <4> QED
        BY <3>3, <4>1
    <3> QED
      BY <2>2, <3>2, <3>3, <3>4 DEF After, EditAttrs
  <2> QED
    BY <1>1, <1>2, <2>3, <2>4, <2>5, <2>6 DEF IInv
<1> QED
    BY <1>2, <1>3, <1>4, <1>5

LEMMA OpenPreserves ==
    ASSUME IInv, Open
    PROVE  IInv'
<1>1. /\ pc = "open" /\ pc' = "format" /\ DOMAIN files' = DOMAIN files
      /\ UNCHANGED <<store, cmd, reg, seen, before, other>>
    BY DEF Open
<1>2. StoreOK' /\ Op' = Op
    BY <1>1, SameStore, SameOp DEF IInv
<1>3. CASE Op \notin Tracked
    BY <1>1, <1>2, <1>3, Untracked
<1>4. CASE Op \in Tracked
  <2>1. Op \in {"export", "format", "convert"}
    BY <1>1, <1>4 DEF IInv, OnPath, Path, Tracked
  <2>2. OnPath' /\ OutOK'
    BY <1>1, <1>2, <2>1 DEF IInv, OnPath, OutOK, Path, Tracked
  <2>3. RegOK'
    BY <1>1, <1>2 DEF IInv, RegOK
  <2>4. EditOK' /\ ExportExact' /\ EditRight'
    BY <1>1, <1>2, <2>1 DEF EditOK, ExportExact, EditRight, Finished
  <2> QED
    BY <1>1, <1>2, <2>2, <2>3, <2>4 DEF IInv
<1> QED
    BY <1>3, <1>4

\* The file that is written has the length of its record.
LEMMA FileHolds ==
    ASSUME NEW v, NEW fmt
    PROVE  Holds(FileOf(v, fmt), v.name, v)
<1> DEFINE r == Exported(v, fmt)
<1>1. FileOf(v, fmt).recs = <<r>> /\ FileOf(v, fmt).len = Needed(v, fmt)
    BY DEF FileOf
<1>2. /\ r.good /\ r.name = v.name /\ r.attrs = v.attrs /\ r.data = v.data
      /\ r.nl = NameLen(v.name) /\ r.dl = Len(v.data) /\ Fixed(r.fmt) = Fixed(fmt)
    BY DEF Exported, ExportEfivar, ExportDmpstore, Record, Fixed
<1>3. Size(r) = Needed(v, fmt)
    BY <1>2 DEF Size, Needed
<1>4. r \in ToSet(<<r>>)
  <2> HIDE DEF r
  <2> QED
    BY DEF ToSet
<1> HIDE DEF r
<1> QED
    BY <1>1, <1>2, <1>3, <1>4 DEF Holds

LEMMA FormatPreserves ==
    ASSUME IInv, Format
    PROVE  IInv'
<1>1. /\ pc = "format" /\ pc' = "done" /\ DOMAIN files' = DOMAIN files
      /\ UNCHANGED <<store, cmd, reg, seen, before, other>>
    BY DEF Format, Exit
<1>2. StoreOK' /\ Op' = Op
    BY <1>1, SameStore, SameOp DEF IInv
<1>3. CASE Op \notin Tracked
    BY <1>1, <1>2, <1>3, Untracked
<1>4. CASE ~CanExport(reg)
    BY <1>1, <1>2, <1>4, Ended DEF Format, Exit
<1>5. CASE Op \in Tracked /\ CanExport(reg)
  <2>1. Op \in {"export", "format", "convert"} /\ cmd.out \in DOMAIN files
    BY <1>1, <1>5 DEF IInv, OnPath, OutOK, Path, Tracked, Op
  <2>2. OnPath' /\ OutOK'
    BY <1>1 DEF IInv, OnPath, OutOK
  <2>3. RegOK' /\ EditOK' /\ EditRight'
    BY <1>1, <1>2, <2>1 DEF RegOK, EditOK, EditRight, Finished
  <2>4. ExportExact'
    <3>1. SUFFICES ASSUME fault' = "none" PROVE ExportExact'
      BY DEF ExportExact
    <3> DEFINE file == files'[cmd.out]
    <3>2. Holds(file, reg.name, reg)
      <4>1. file = FileOf(reg, cmd.fmt)
        BY <1>5, <2>1, <3>1 DEF Format
      <4> QED
        BY <4>1, FileHolds
    <3>3. Op = "export" => \E v \in seen[cmd.name] \ {Missing} : Holds(file, cmd.name, v)
      <4>1. SUFFICES ASSUME Op = "export"
                     PROVE  \E v \in seen[cmd.name] \ {Missing} : Holds(file, cmd.name, v)
        OBVIOUS
      <4>2. PICK v \in seen[cmd.name] \ {Missing} : reg = VarOf(cmd.name, v.attrs, v.data)
        BY <1>1, <4>1 DEF IInv, RegOK
      <4>3. reg.name = cmd.name /\ reg.attrs = v.attrs /\ reg.data = v.data
        BY <4>2 DEF VarOf
      <4>4. Holds(file, cmd.name, v)
        BY <3>2, <4>3 DEF Holds
      <4> QED
        BY <4>2, <4>4
    <3>4. Op = "format" => Holds(file, cmd.name, [attrs |-> cmd.attrs, data |-> cmd.from])
      <4>1. SUFFICES ASSUME Op = "format"
                     PROVE  Holds(file, cmd.name, [attrs |-> cmd.attrs, data |-> cmd.from])
        OBVIOUS
      <4>2. reg = VarOf(cmd.name, cmd.attrs, cmd.from)
        BY <1>1, <4>1 DEF IInv, RegOK
      <4>3. reg.name = cmd.name /\ reg.attrs = cmd.attrs /\ reg.data = cmd.from
        BY <4>2 DEF VarOf
      <4> QED
        BY <3>2, <4>3 DEF Holds
    <3> QED
      BY <1>1, <1>2, <3>2, <3>3, <3>4 DEF ExportExact, Finished
  <2> QED
    BY <1>1, <1>2, <2>2, <2>3, <2>4 DEF IInv
<1> QED
    BY <1>3, <1>4, <1>5

LEMMA ImportPreserves ==
    ASSUME IInv, ImportFile
    PROVE  IInv'
<1>1. /\ pc = "import" /\ pc' # "idle" /\ UNCHANGED <<store, files, cmd, seen, before, other>>
    BY DEF ImportFile, Exit
<1>2. StoreOK' /\ Op' = Op
    BY <1>1, SameStore, SameOp DEF IInv
<1>3. CASE Op \notin Tracked
    BY <1>1, <1>2, <1>3, Untracked
<1>4. CASE Op \in Tracked
  <2>1. Op = "convert"
    BY <1>1, <1>4 DEF IInv, OnPath, Path, Tracked
  <2>2. pc' = "open" \/ (pc' = "done" /\ status' = 1)
    BY <2>1 DEF ImportFile, Exit
  <2>3. OnPath' /\ OutOK'
    BY <1>1, <1>2, <2>1, <2>2 DEF IInv, OnPath, OutOK, Path, Tracked
  <2>4. RegOK' /\ EditOK' /\ ExportExact' /\ EditRight'
    BY <1>2, <2>1, <2>2 DEF RegOK, EditOK, ExportExact, EditRight, Finished
  <2> QED
    BY <1>1, <1>2, <2>3, <2>4 DEF IInv
<1> QED
    BY <1>3, <1>4

LEMMA RestorePreserves ==
    ASSUME IInv, RealizeVar \/ WalkNext
    PROVE  IInv'
<1>1. /\ pc \in {"realize", "walk"} /\ pc' # "idle" /\ UNCHANGED <<files, cmd, other>>
    BY DEF RealizeVar, WalkNext, Exit, Write
<1>2. Op \notin Tracked
    BY <1>1 DEF IInv, OnPath, Path, Tracked
<1>3. StoreOK'
  <2>1. (\E op \in {"set", "append"} : Write(op)) \/ UNCHANGED <<store, seen>>
    BY DEF RealizeVar, WalkNext
  <2> QED
    BY <1>1, <2>1, WriteFacts, SameStore DEF IInv
<1> QED
    BY <1>1, <1>2, <1>3, Untracked

LEMMA StutterPreserves ==
    ASSUME IInv, UNCHANGED vars
    PROVE  IInv'
<1>1. Op' = Op
    BY SameOp DEF vars
<1>2. OnPath' /\ StoreOK' /\ OutOK' /\ RegOK'
    BY <1>1 DEF vars, IInv, OnPath, StoreOK, OutOK, RegOK
<1>3. EditOK' /\ EditRight'
    BY <1>1 DEF vars, IInv, EditOK, EditRight, Finished
<1>4. ExportExact'
    BY <1>1 DEF vars, IInv, ExportExact, Finished, Holds
<1> QED
    BY <1>2, <1>3, <1>4 DEF IInv, vars

-----------------------------------------------------------------------------
(* The theorems                                                            *)

\* Every state of the tool, the firmware and the files satisfies IInv: the run
\* is where its operation may be and has in memory what it is to write.
THEOREM Invariance == Spec => []IInv
<1>1. IInv /\ [Next]_vars => IInv'
  <2> SUFFICES ASSUME IInv, [Next]_vars PROVE IInv'
    OBVIOUS
  <2>1. CASE Other
    BY <2>1, OtherPreserves
  <2>2. CASE \E c \in Commands : Start(c)
    BY <2>2, StartPreserves
  <2>3. CASE Again
    BY <2>3, AgainPreserves
  <2>4. CASE Kill \/ End \/ SetFails
    BY <2>4, StopsPreserve
  <2>5. CASE Prepare
    BY <2>5, PreparePreserves
  <2>6. CASE Get(store[cmd.name], "none") \/ Get(Missing, "unread")
    BY <2>6, GetPreserves
  <2>7. CASE Set
    BY <2>7, SetPreserves
  <2>8. CASE Open
    BY <2>8, OpenPreserves
  <2>9. CASE Format
    BY <2>9, FormatPreserves
  <2>10. CASE ImportFile
    BY <2>10, ImportPreserves
  <2>11. CASE RealizeVar \/ WalkNext
    BY <2>11, RestorePreserves
  <2>12. CASE UNCHANGED vars
    BY <2>12, StutterPreserves
  <2> QED
    BY <2>1, <2>2, <2>3, <2>4, <2>5, <2>6, <2>7, <2>8, <2>9, <2>10, <2>11, <2>12 DEF Next
<1> QED
    BY <1>1, InitIInv, PTL DEF Spec

\* An export that ends with 0 leaves one whole record in the file: of a value
\* that the variable had while the tool ran (save_variable), of the data file,
\* or of what was imported (save_variable_data), whatever other programs do.
THEOREM ExportsExact == Spec => []ExportExact
<1>1. IInv => ExportExact
    BY DEF IInv
<1> QED
    BY <1>1, Invariance, PTL

\* An edit that nobody disturbs and that ends with 0 changes the data of that
\* variable as asked, keeps its attributes, and changes no other variable
\* (edit_variable).
THEOREM EditsRight == Spec => []EditRight
<1>1. IInv => EditRight
    BY DEF IInv
<1> QED
    BY <1>1, Invariance, PTL


-----------------------------------------------------------------------------
(* Restoring a variable and walking over a file.  The second invariant has *)
(* the types of what is stored, in files and in memory, and what was       *)
(* imported so far.                                                        *)

Value == [attrs : Attrs, data : Seq(Bytes)]

Variable ==
    [name : Names, append : BOOLEAN, attrs : Attrs \cup {Zero}, auth : AuthBits,
     data : Seq(Bytes)]

\* A file of records; the intact ones are as an exporter wrote them.
IsFile(f) ==
    /\ f \in [recs : Seq(Records), len : Int]
    /\ \A k \in DOMAIN f.recs : f.recs[k].good => AsExported(f.recs[k])

Reads == {"import", "convert", "restore", "walk"}

\* What is about to be written is a variable.
Loaded == pc \in {"open", "format", "set", "realize"} \/ (pc = "get" /\ Op \in {"write", "append"})

Typed ==
    /\ store \in [Names -> Value \cup {Missing}]
    /\ \A p \in DOMAIN files : IsFile(files[p])
    /\ \A c \in Commands : Operation(c) \in Reads => c.in \in DOMAIN files
    /\ Loaded => reg \in Variable

\* Where a run that imports can be
ReadPath(op) ==
    CASE op = "import" -> {"import"}
      [] op = "convert" -> {"import", "open", "format"}
      [] op = "restore" -> {"import", "realize"}
      [] op = "walk" -> {"walk"}

OnReadPath == pc # "idle" /\ Op \in Reads => pc \in ReadPath(Op) \cup {"done", "killed"}

\* The first record of a file is whole and has the right checksum.
Intact(f) == f.recs # <<>> /\ f.recs[1].good /\ f.len >= Size(f.recs[1])

\* The variable in the first record of a file, as an import returns it
FirstName(f) ==
    IF f.recs[1].fmt = "native" /\ f.recs[1].name \in Wide
    THEN Narrowed(f.recs[1].name) ELSE f.recs[1].name

FirstVar(f) ==
    [name |-> FirstName(f), append |-> f.recs[1].append, attrs |-> f.recs[1].attrs,
     auth |-> f.recs[1].auth, data |-> f.recs[1].data]

ImportOK ==
    pc # "idle" /\ Op \in {"import", "restore", "convert"} =>
        \/ reg = NoVar
        \/ cmd.in = cmd.out
        \/ Intact(files[cmd.in])

RestoreOK ==
    Op = "restore" =>
        /\ pc \in {"import", "realize"} /\ other = 0 => store = before
        /\ pc = "realize" => Intact(files[cmd.in]) /\ reg = FirstVar(files[cmd.in])

\* A file of whole dmpstore records
Whole(f) ==
    /\ f.recs # <<>> /\ f.len = Offset(f, Len(f.recs) + 1)
    /\ \A k \in DOMAIN f.recs : f.recs[k].good /\ f.recs[k].fmt = "dmpstore"

\* The first n records were returned.
Walked(f, n) ==
    /\ DOMAIN got = 1 .. n
    /\ \A k \in 1 .. n : got[k].name = f.recs[k].name /\ got[k].data = f.recs[k].data

WalkOK ==
    Op = "walk" /\ Whole(files[cmd.in]) =>
        /\ pc = "walk" =>
            /\ got \in Seq(Variable) /\ Len(got) <= Len(files[cmd.in].recs)
            /\ Walked(files[cmd.in], Len(got))
            /\ off = Offset(files[cmd.in], Len(got) + 1)
        /\ pc = "done" => status = 0 /\ Walked(files[cmd.in], Len(files[cmd.in].recs))

ReadInv == Typed /\ OnReadPath /\ ImportOK /\ RestoreOK /\ WalkOK /\ Restored

-----------------------------------------------------------------------------
(* Offsets                                                                 *)

LEMMA SizeFacts ==
    ASSUME NEW r \in Records
    PROVE  /\ Size(r) \in Nat /\ Size(r) >= 32 + r.nl + r.dl
           /\ r.fmt = "dmpstore" => Size(r) = 32 + r.nl + r.dl
    BY DEF Records, Size, Fixed

LEMMA NameLenFacts ==
    ASSUME NEW n \in Names
    PROVE  NameLen(n) \in Nat /\ NameLen(n) >= 4 /\ NameLen(n) % 2 = 0
<1>1. CharsOf(n) \in Nat \ {0}
  <2>1. CASE n \in DOMAIN Chars
    BY <2>1, NamesAssumption DEF CharsOf
  <2>2. CASE n \notin DOMAIN Chars
    <3>1. PICK m \in Wide : n = Narrowed(m)
      BY <2>2 DEF Names
    <3>2. n[1] = m /\ m \in DOMAIN Chars
      BY <3>1, NamesAssumption DEF Narrowed
    <3> QED
      BY <2>2, <3>2, NamesAssumption DEF CharsOf
  <2> QED
    BY <2>1, <2>2
<1> QED
    BY <1>1 DEF NameLen

\* Offsets begin with 0 and grow by the size of each record.
LEMMA OffsetFacts ==
    ASSUME NEW f, f.recs \in Seq(Records)
    PROVE  /\ Offset(f, 1) = 0
           /\ \A k \in 1 .. Len(f.recs) : Offset(f, k + 1) = Offset(f, k) + Size(f.recs[k])
           /\ \A k \in 1 .. Len(f.recs) + 1 : Offset(f, k) \in Nat
           /\ \A i, j \in 1 .. Len(f.recs) + 1 : i < j => Offset(f, i) < Offset(f, j)
<1> DEFINE n == Len(f.recs)
           s == [k \in 1 .. n |-> Size(f.recs[k])]
           IsEnds(g) == g = [k \in 0 .. n |-> IF k = 0 THEN 0 ELSE g[k - 1] + Size(f.recs[k])]
<1>1. n \in Nat /\ \A k \in 1 .. n : f.recs[k] \in Records
    OBVIOUS
<1>2. \A k \in 1 .. n : s[k] = Size(f.recs[k]) /\ s[k] \in Nat \ {0}
  <2>1. ASSUME NEW r \in Records PROVE Size(r) \in Nat \ {0}
    BY SizeFacts DEF Records
  <2> QED
    BY <1>1, <2>1
<1>3. \E g : IsEnds(g)
  <2>1. PICK g : IsSum(g, s, n)
    BY <1>1, SumsExist
  <2>2. ASSUME NEW k \in 0 .. n
        PROVE  (IF k = 0 THEN 0 ELSE g[k - 1] + s[k])
                   = (IF k = 0 THEN 0 ELSE g[k - 1] + Size(f.recs[k]))
    BY <1>1, <1>2
  <2> HIDE DEF n, s
  <2>3. IsEnds(g)
    BY <2>1, <2>2 DEF IsSum
  <2> QED
    BY <2>3
<1>4. IsEnds(Ends(f))
  <2>1. Ends(f) = CHOOSE g : IsEnds(g)
    BY DEF Ends
  <2> QED
    BY <1>3, <2>1
<1>5. IsSum(Ends(f), s, n)
    BY <1>1, <1>2, <1>4 DEF IsSum
<1> HIDE DEF s
<1>6. /\ \A k \in 0 .. n : Ends(f)[k] \in Nat
      /\ \A i, j \in 0 .. n : i < j => Ends(f)[i] < Ends(f)[j]
    BY <1>1, <1>2, <1>5, SumsGrow
<1>7. Ends(f)[0] = 0 /\ \A k \in 1 .. n : Ends(f)[k] = Ends(f)[k - 1] + Size(f.recs[k])
    BY <1>1, <1>2, <1>5, SumSteps
<1> HIDE DEF IsEnds
<1>8. \A k \in 0 .. n : Offset(f, k + 1) = Ends(f)[k]
  <2>1. \A k \in 0 .. n : (k + 1) - 1 = k
    BY <1>1
  <2> QED
    BY <2>1 DEF Offset
<1>9. \A k \in 1 .. n + 1 : Offset(f, k) = Ends(f)[k - 1] /\ k - 1 \in 0 .. n
    BY <1>1 DEF Offset
<1> HIDE DEF n
<1>10. Offset(f, 1) = 0 /\ \A k \in 1 .. n : Offset(f, k + 1) = Offset(f, k) + Size(f.recs[k])
  <2>1. 1 \in 1 .. n + 1 /\ 1 - 1 = 0 /\ \A k \in 1 .. n : k \in 0 .. n /\ k \in 1 .. n + 1
    BY <1>1
  <2> QED
    BY <1>7, <1>8, <1>9, <2>1
<1>11. \A k \in 1 .. n + 1 : Offset(f, k) \in Nat
    BY <1>6, <1>9
<1>12. ASSUME NEW i \in 1 .. n + 1, NEW j \in 1 .. n + 1, i < j
       PROVE  Offset(f, i) < Offset(f, j)
  <2>1. i - 1 < j - 1
    BY <1>1, <1>12
  <2> QED
    BY <1>6, <1>9, <2>1
<1> QED
    BY <1>10, <1>11, <1>12 DEF n

\* The record that an offset finds is the one that begins there.
LEMMA RecordFound ==
    ASSUME NEW f, f.recs \in Seq(Records), NEW k \in 1 .. Len(f.recs)
    PROVE  RecordAt(f, Offset(f, k)) = k
<1> DEFINE ks == {i \in DOMAIN f.recs : Offset(f, i) = Offset(f, k)}
<1>1. ks = {k}
  <2>1. ASSUME NEW i \in 1 .. Len(f.recs), Offset(f, i) = Offset(f, k) PROVE i = k
    <3>1. /\ i \in 1 .. Len(f.recs) + 1 /\ k \in 1 .. Len(f.recs) + 1
          /\ Offset(f, i) \in Nat /\ Offset(f, k) \in Nat
          /\ i < k => Offset(f, i) < Offset(f, k)
          /\ k < i => Offset(f, k) < Offset(f, i)
      BY OffsetFacts
    <3> QED
      BY <2>1, <3>1
  <2> QED
    BY <2>1
<1>2. RecordAt(f, Offset(f, k)) = CHOOSE i \in ks : TRUE
    BY <1>1 DEF RecordAt
<1> QED
    BY <1>1, <1>2

LEMMA RecordInside ==
    ASSUME NEW f, f.recs \in Seq(Records), NEW o
    PROVE  RecordAt(f, o) \in 0 .. Len(f.recs)
<1> DEFINE ks == {i \in DOMAIN f.recs : Offset(f, i) = o}
<1>1. CASE ks = {}
    BY <1>1 DEF RecordAt
<1>2. CASE ks # {}
  <2>1. RecordAt(f, o) = CHOOSE i \in ks : TRUE
    BY <1>2 DEF RecordAt
  <2>2. RecordAt(f, o) \in ks
    BY <1>2, <2>1
  <2> QED
    BY <2>2
<1> QED
    BY <1>1, <1>2

-----------------------------------------------------------------------------
(* Imports                                                                 *)

\* What an import returns is what the record at the offset holds, and that
\* record is whole.
LEMMA ImportFacts ==
    ASSUME NEW f, IsFile(f), NEW o \in Nat, Import(f, o) # Failed
    PROVE  LET k == RecordAt(f, o)
               r == f.recs[k]
           IN /\ k \in 1 .. Len(f.recs) /\ r.good /\ f.len - o >= Size(r)
              /\ Import(f, o).var =
                    [name |-> IF r.fmt = "native" /\ r.name \in Wide THEN Narrowed(r.name)
                              ELSE r.name,
                     append |-> r.append, attrs |-> r.attrs, auth |-> r.auth, data |-> r.data]
              /\ r.fmt = "dmpstore" => Import(f, o).rc = Size(r)
<1> DEFINE k == RecordAt(f, o)
           r == f.recs[k]
<1>1. f.recs \in Seq(Records) /\ f.len \in Int
    BY DEF IsFile
<1>2. k \in 0 .. Len(f.recs)
    BY <1>1, RecordInside
<1>3. CASE ImportEfivar(f, o) # Failed
  <2>1. Import(f, o) = ImportEfivar(f, o)
    BY <1>3 DEF Import
  <2>2. /\ k # 0 /\ r.fmt = "native" /\ r.good /\ Size(r) = f.len - o
        /\ ImportEfivar(f, o) = Imported(r, IF r.name \in Wide THEN Narrowed(r.name) ELSE r.name,
                                         48 + r.nl + r.dl)
    BY <1>3 DEF ImportEfivar
  <2>3. k \in 1 .. Len(f.recs)
    BY <1>2, <2>2
  <2> HIDE DEF k
  <2> QED
    BY <1>1, <2>1, <2>2, <2>3 DEF Imported, k
<1>4. CASE ImportEfivar(f, o) = Failed
  <2>1. Import(f, o) = ImportDmpstore(f, o) /\ ImportDmpstore(f, o) # Failed
    BY <1>4 DEF Import
  <2>2. /\ k # 0 /\ r.fmt = "dmpstore" /\ r.good /\ ~(f.len - o < Size(r))
        /\ ImportDmpstore(f, o) = Imported(r, r.name, Size(r))
    BY <2>1 DEF ImportDmpstore
  <2>3. k \in 1 .. Len(f.recs)
    BY <1>2, <2>2
  <2>4. r \in Records
    BY <1>1, <2>3
  <2>5. Size(r) \in Nat
    BY <2>4, SizeFacts
  <2> HIDE DEF k
  <2> QED
    BY <1>1, <2>1, <2>2, <2>3, <2>5 DEF Imported, k
<1> QED
    BY <1>3, <1>4

\* An import at the beginning returns the first variable.
LEMMA FirstImport ==
    ASSUME NEW f, IsFile(f), Import(f, 0) # Failed
    PROVE  Intact(f) /\ Import(f, 0).var = FirstVar(f) /\ FirstVar(f) \in Variable
<1>1. f.recs \in Seq(Records) /\ f.len \in Int
    BY DEF IsFile
<1>2. RecordAt(f, 0) \in 1 .. Len(f.recs) /\ 1 \in 1 .. Len(f.recs)
  <2>1. RecordAt(f, 0) \in 1 .. Len(f.recs)
    BY ImportFacts
  <2>2. Len(f.recs) \in Nat
    BY <1>1
  <2> QED
    BY <2>1, <2>2
<1>3. RecordAt(f, 0) = 1
    BY <1>1, <1>2, RecordFound, OffsetFacts
<1>4. f.recs[1] \in Records
    BY <1>1, <1>2
<1>5. Intact(f)
  <2>1. f.recs # <<>>
    BY <1>1, <1>2
  <2>2. f.recs[1].good /\ f.len - 0 >= Size(f.recs[1])
    BY <1>3, ImportFacts
  <2>3. Size(f.recs[1]) \in Nat
    BY <1>4, SizeFacts
  <2> QED
    BY <1>1, <2>1, <2>2, <2>3 DEF Intact
<1>6. Import(f, 0).var = FirstVar(f)
    BY <1>3, ImportFacts DEF FirstVar, FirstName
<1>7. FirstName(f) \in Names
  <2>1. f.recs[1].name \in Names
    BY <1>4 DEF Records
  <2> QED
    BY <2>1 DEF FirstName, Names
<1>8. FirstVar(f) \in Variable
    BY <1>4, <1>7 DEF FirstVar, Variable, Records
<1> QED
    BY <1>5, <1>6, <1>8

\* A walk over whole records does not stop at any of them.
LEMMA WalkImport ==
    ASSUME NEW f, IsFile(f), Whole(f), NEW n \in 1 .. Len(f.recs)
    PROVE  /\ Offset(f, n) < f.len
           /\ Import(f, Offset(f, n)) # Failed
           /\ Import(f, Offset(f, n)).rc = Size(f.recs[n])
           /\ Import(f, Offset(f, n)).var.name = f.recs[n].name
           /\ Import(f, Offset(f, n)).var.data = f.recs[n].data
           /\ Import(f, Offset(f, n)).var \in Variable
<1> DEFINE r == f.recs[n]
           o == Offset(f, n)
<1>1. f.recs \in Seq(Records) /\ f.len \in Int /\ Len(f.recs) \in Nat
    BY DEF IsFile
<1>2. r \in Records /\ r.good /\ r.fmt = "dmpstore"
    BY <1>1 DEF Whole
<1>3. /\ r.data # <<>> /\ r.nl = NameLen(r.name) /\ r.dl = Len(r.data)
    BY <1>1, <1>2 DEF IsFile, AsExported
<1>4. r.nl \in Nat /\ r.nl >= 4 /\ r.nl % 2 = 0 /\ r.dl \in Nat /\ r.dl > 0
  <2>1. r.name \in Names /\ r.data \in Seq(Bytes)
    BY <1>2 DEF Records
  <2>2. Len(r.data) \in Nat /\ Len(r.data) # 0
    BY <1>3, <2>1
  <2> QED
    BY <1>3, <2>1, <2>2, NameLenFacts
<1>5. Size(r) \in Nat /\ Size(r) >= 37
  <2>1. Size(r) \in Nat /\ Size(r) >= 32 + r.nl + r.dl
    BY <1>2, SizeFacts
  <2> HIDE DEF r
  <2> QED
    BY <1>4, <2>1
<1>6. o \in Nat /\ Offset(f, n + 1) = o + Size(r) /\ Offset(f, n + 1) \in Nat
    BY <1>1, OffsetFacts
<1>7. f.len >= Offset(f, n + 1)
  <2>1. n + 1 <= Len(f.recs) + 1
    BY <1>1
  <2>2. f.len = Offset(f, Len(f.recs) + 1)
    BY DEF Whole
  <2>3. CASE n = Len(f.recs)
    BY <1>6, <2>2, <2>3
  <2>4. CASE n < Len(f.recs)
    <3>1. Offset(f, n + 1) < Offset(f, Len(f.recs) + 1)
      BY <1>1, <2>4, OffsetFacts
    <3> QED
      BY <1>1, <1>6, <2>2, <3>1
  <2> QED
    BY <1>1, <2>3, <2>4
<1>8. RecordAt(f, o) = n
    BY <1>1, RecordFound
<1>9. f.len - o >= Size(r) /\ o < f.len
    BY <1>1, <1>5, <1>6, <1>7
<1>10. ImportEfivar(f, o) = Failed
    BY <1>2, <1>8 DEF ImportEfivar
<1>11. ImportDmpstore(f, o) = Imported(r, r.name, Size(r))
  <2>1. /\ ~(f.len - o <= 35) /\ n # 0
        /\ ~(f.len - o < Size(r))
    BY <1>1, <1>5, <1>6, <1>9
  <2>2. ~(r.nl <= 2) /\ r.dl # 0 /\ ~(r.nl % 2 # 0)
    BY <1>4
  <2> HIDE DEF r, o
  <2> QED
    BY <1>2, <1>4, <1>8, <2>1, <2>2 DEF ImportDmpstore, r
<1>12. Import(f, o) = Imported(r, r.name, Size(r)) /\ Imported(r, r.name, Size(r)) # Failed
  <2>1. Imported(r, r.name, Size(r)).rc = Size(r) /\ Failed.rc = -1
    BY DEF Imported, Failed
  <2> QED
    BY <1>5, <1>10, <1>11, <2>1 DEF Import
<1>13. Import(f, o).var \in Variable
    BY <1>2, <1>12 DEF Imported, Variable, Records
<1> QED
    BY <1>9, <1>12, <1>13 DEF Imported

-----------------------------------------------------------------------------
(* Init and the actions once more                                          *)

LEMMA ReadInit == Init => ReadInv
<1> SUFFICES ASSUME Init PROVE ReadInv
    OBVIOUS
<1>1. store \in [Names -> Value \cup {Missing}]
    BY StoresAssumption DEF Init, Value
<1>2. \A p \in DOMAIN files : IsFile(files[p])
    BY FilesAssumption DEF Init, IsFile
<1>3. \A c \in Commands : Operation(c) \in Reads => c.in \in DOMAIN files
    BY CommandsAssumption DEF Init, Reads
<1>4. Typed
    BY <1>1, <1>2, <1>3 DEF Typed, Loaded, Init
<1>5. OnReadPath /\ ImportOK /\ RestoreOK /\ WalkOK /\ Restored
    BY DEF Init, OnReadPath, ImportOK, RestoreOK, WalkOK, Restored, Finished
<1> QED
    BY <1>4, <1>5 DEF ReadInv

\* A run that imports nothing
LEMMA NotReading ==
    ASSUME Op \notin Reads, cmd' = cmd, Typed'
    PROVE  ReadInv'
<1>1. Op' \notin Reads
    BY SameOp
<1>2. OnReadPath' /\ ImportOK' /\ RestoreOK' /\ WalkOK' /\ Restored'
    BY <1>1 DEF Reads, OnReadPath, ImportOK, RestoreOK, WalkOK, Restored, Finished
<1> QED
    BY <1>2 DEF ReadInv

\* A run that imports and ends, and not with 0
LEMMA ReadStops ==
    ASSUME ReadInv, pc # "idle", Op # "walk" \/ pc' = "killed",
           pc' \in {"done", "killed"}, pc' = "killed" \/ status' = 1,
           UNCHANGED <<store, files, cmd, reg>>
    PROVE  ReadInv'
<1>1. Op' = Op
    BY SameOp
<1>2. Typed'
    BY DEF ReadInv, Typed, Loaded
<1>3. OnReadPath' /\ RestoreOK'
    BY DEF OnReadPath, RestoreOK
<1>6. Restored'
  <2>1. ~Finished("restore")'
    BY DEF Finished
  <2> QED
    BY <2>1 DEF Restored
<1>4. ImportOK'
    BY <1>1 DEF ReadInv, ImportOK
<1>5. WalkOK'
    BY <1>1 DEF WalkOK
<1> QED
    BY <1>2, <1>3, <1>4, <1>5, <1>6 DEF ReadInv

\* The command line of a run that imports names a file of records.
LEMMA Input ==
    ASSUME IInv, ReadInv, pc # "idle", Op \in Reads
    PROVE  cmd \in Commands /\ cmd.in \in DOMAIN files /\ IsFile(files[cmd.in])
    BY DEF IInv, OutOK, ReadInv, Typed, Op

LEMMA WriteTyped ==
    ASSUME Typed, reg \in Variable, NEW op, Write(op)
    PROVE  /\ store' \in [Names -> Value \cup {Missing}]
           /\ pc' = "done"
<1> DEFINE new == [attrs |-> reg.attrs, data |-> reg.data]
           old == store[reg.name]
<1>1. reg.name \in Names /\ new.attrs \in Attrs \cup {Zero} /\ new.data \in Seq(Bytes)
    BY DEF Variable
<1>2. old \in Value \cup {Missing}
    BY <1>1 DEF Typed
<1>3. After(old, op, new) \in Value \cup {Missing}
  <2>1. CASE new.attrs = Zero
    BY <2>1 DEF After
  <2>2. CASE new.attrs # Zero
    <3>1. new \in Value
      BY <1>1, <2>2 DEF Value
    <3>2. old # Missing => [attrs |-> old.attrs, data |-> old.data \o new.data] \in Value
      BY <1>1, <1>2 DEF Value
    <3> HIDE DEF new, old
    <3> QED
      BY <2>2, <3>1, <3>2 DEF After, Uefi!Written
  <2> QED
    BY <2>1, <2>2
<1>4. store' \in {store, [store EXCEPT ![reg.name] = After(old, op, new)]} /\ pc' = "done"
    BY DEF Write, Put, Exit
<1> HIDE DEF new, old
<1> QED
    BY <1>1, <1>3, <1>4 DEF Typed

LEMMA OtherReads ==
    ASSUME IInv, ReadInv, Other
    PROVE  ReadInv'
<1>1. /\ pc # "idle" /\ other' # 0
      /\ UNCHANGED <<files, pc, cmd, reg, got, off, status, before>>
    BY DEF Other, IInv
<1>2. Op' = Op
    BY <1>1, SameOp
<1>3. store' \in [Names -> Value \cup {Missing}]
  <2>1. PICK n \in Concerned, v \in Values \cup {Missing} : Put(n, v)
    BY DEF Other
  <2>2. v \in Value \cup {Missing}
    BY StoresAssumption DEF Value
  <2> QED
    BY <2>1, <2>2 DEF Put, ReadInv, Typed
<1>4. Typed'
    BY <1>1, <1>2, <1>3 DEF ReadInv, Typed, Loaded
<1>5. OnReadPath' /\ ImportOK'
    BY <1>1, <1>2 DEF ReadInv, OnReadPath, ImportOK
<1>6. RestoreOK' /\ Restored'
    BY <1>1, <1>2 DEF ReadInv, RestoreOK, Restored
<1>7. WalkOK'
    BY <1>1, <1>2 DEF ReadInv, WalkOK, Walked
<1> QED
    BY <1>4, <1>5, <1>6, <1>7 DEF ReadInv

LEMMA StartReads ==
    ASSUME IInv, ReadInv, NEW c \in Commands, Start(c)
    PROVE  ReadInv'
<1>1. /\ cmd' = c /\ pc' = FirstStep(Operation(c)) /\ Op' = Operation(c)
      /\ store' = store /\ before' = store /\ files' = files
      /\ reg' = NoVar /\ got' = <<>> /\ off' = 0
    BY DEF Start, Op
<1>2. /\ Op' \in Reads => pc' \in {"import", "walk"} /\ pc' \in ReadPath(Op')
      /\ Op' \in {"write", "append"} => pc' = "prepare"
      /\ Op' = "walk" => pc' = "walk"
    BY <1>1 DEF Reads, ReadPath, FirstStep
<1>3. ~Loaded'
  <2>1. CASE Op' \in Reads \cup {"write", "append"}
    BY <1>2, <2>1 DEF Loaded
  <2>2. CASE Op' \notin Reads \cup {"write", "append"}
    <3>1. Op' \in {"print", "export", "format", "list", "usage"} \cup Reads \cup {"write", "append"}
          => pc' \in {"get", "prepare", "end", "import", "walk"}
      BY <1>1 DEF FirstStep, Reads
    <3>2. Op' \in {"print", "export", "format", "list", "usage"} \cup Reads \cup {"write", "append"}
      BY <1>1 DEF Reads, Operation
    <3> QED
      BY <2>2, <3>1, <3>2 DEF Loaded
  <2> QED
    BY <2>1, <2>2
<1>4. Typed'
    BY <1>1, <1>3 DEF ReadInv, Typed
<1>5. OnReadPath' /\ ImportOK' /\ RestoreOK'
    BY <1>1, <1>2 DEF OnReadPath, ImportOK, RestoreOK, Reads
<1>6. Restored'
    BY <1>2 DEF Restored, Finished, Reads
<1>7. WalkOK'
  <2>1. SUFFICES ASSUME Op' = "walk" PROVE WalkOK'
    BY DEF WalkOK
  <2>2. IsFile(files[c.in]) /\ pc' = "walk"
    BY <1>1, <1>2, <2>1 DEF ReadInv, Typed, Reads
  <2>3. Offset(files[c.in], 1) = 0 /\ Len(files[c.in].recs) \in Nat
    BY <2>2, OffsetFacts DEF IsFile
  <2>4. got' \in Seq(Variable) /\ Len(got') = 0 /\ DOMAIN got' = 1 .. 0
    BY <1>1
  <2> QED
    BY <1>1, <2>2, <2>3, <2>4 DEF WalkOK, Walked
<1> QED
    BY <1>4, <1>5, <1>6, <1>7 DEF ReadInv

LEMMA AgainReads ==
    ASSUME ReadInv, Again
    PROVE  ReadInv'
<1>1. pc' = "idle" /\ UNCHANGED <<store, files>>
    BY DEF Again
<1>2. Typed'
    BY <1>1 DEF ReadInv, Typed, Loaded
<1>3. OnReadPath' /\ ImportOK' /\ RestoreOK' /\ WalkOK' /\ Restored'
    BY <1>1 DEF OnReadPath, ImportOK, RestoreOK, WalkOK, Restored, Finished
<1> QED
    BY <1>2, <1>3 DEF ReadInv

LEMMA StopsRead ==
    ASSUME ReadInv, Kill \/ End \/ SetFails
    PROVE  ReadInv'
<1>1. /\ pc # "idle" /\ pc' \in {"done", "killed"} /\ UNCHANGED <<store, files, cmd, reg>>
      /\ pc' = "killed" \/ (pc \in {"set", "realize"} /\ status' = 1) \/ pc = "end"
    BY DEF Kill, End, SetFails, Exit
<1>2. CASE pc' = "killed"
    BY <1>1, <1>2, ReadStops
<1>3. CASE pc' # "killed" /\ Op \in Reads
  <2>1. Op = "restore" /\ status' = 1
    BY <1>1, <1>3 DEF ReadInv, OnReadPath, ReadPath, Reads
  <2> QED
    BY <1>1, <2>1, ReadStops
<1>4. CASE pc' # "killed" /\ Op \notin Reads
  <2>1. Typed'
    BY <1>1, <1>4 DEF ReadInv, Typed, Loaded
  <2> QED
    BY <1>1, <1>4, <2>1, NotReading
<1> QED
    BY <1>2, <1>3, <1>4

LEMMA PrepareReads ==
    ASSUME IInv, ReadInv, Prepare
    PROVE  ReadInv'
<1>1. pc = "prepare" /\ UNCHANGED <<store, files, cmd>> /\ Op' = Op
    BY SameOp DEF Prepare
<1>2. Op \notin Reads
    BY <1>1 DEF ReadInv, OnReadPath, ReadPath, Reads
<1>3. Loaded' => reg' \in Variable
  <2>1. SUFFICES ASSUME Loaded' PROVE reg' \in Variable
    OBVIOUS
  <2>2. /\ reg' = VarOf(cmd.name, cmd.attrs, cmd.from)
        /\ Op \in {"format", "write", "append"}
    BY <1>1, <2>1 DEF Prepare, Exit, Loaded
  <2>3. cmd.name \in Names /\ cmd.attrs \in Attrs \cup {Zero} /\ cmd.from \in Seq(Bytes)
    BY <1>1, <2>2, CommandsAssumption DEF IInv, OutOK, Op
  <2> QED
    BY <2>2, <2>3 DEF VarOf, Variable, AuthBits
<1> QED
    BY <1>1, <1>2, <1>3, NotReading DEF ReadInv, Typed

LEMMA GetReads ==
    ASSUME IInv, ReadInv, NEW val, NEW f, Get(val, f), val \in {store[cmd.name], Missing}
    PROVE  ReadInv'
<1>1. pc = "get" /\ UNCHANGED <<store, files, cmd>> /\ Op' = Op /\ cmd \in Commands
    BY SameOp DEF Get, IInv, OutOK
<1>2. Op \notin Reads
    BY <1>1 DEF ReadInv, OnReadPath, ReadPath, Reads
<1>3. Op \in {"export", "write", "append"} => cmd.name \in Names /\ val \in Value \cup {Missing}
    BY <1>1, CommandsAssumption DEF Op, ReadInv, Typed
<1>4. Loaded' => reg' \in Variable
  <2>1. SUFFICES ASSUME Loaded' PROVE reg' \in Variable
    OBVIOUS
  <2>2. CASE Op \in {"append", "write"}
    <3>1. reg \in Variable /\ reg' = [reg EXCEPT !.attrs = EditAttrs(cmd.attrs, val)]
      BY <1>1, <2>2 DEF Get, ReadInv, Typed, Loaded
    <3>2. EditAttrs(cmd.attrs, val) \in Attrs \cup {Zero}
      BY <1>1, <1>3, <2>2, CommandsAssumption DEF EditAttrs, Value
    <3> QED
      BY <3>1, <3>2 DEF Variable
  <2>3. CASE Op \notin {"append", "write"}
    <3>1. Op = "export" /\ val # Missing /\ reg' = VarOf(cmd.name, val.attrs, val.data)
      BY <1>1, <2>1, <2>3 DEF Get, Exit, Loaded
    <3> QED
      BY <1>3, <3>1 DEF VarOf, Variable, Value, AuthBits
  <2> QED
    BY <2>2, <2>3
<1> QED
    BY <1>1, <1>2, <1>4, NotReading DEF ReadInv, Typed

LEMMA SetReads ==
    ASSUME ReadInv, Set
    PROVE  ReadInv'
<1>1. /\ pc = "set" /\ Write(IF Op = "append" THEN "append" ELSE "set")
      /\ UNCHANGED <<files, cmd>>
    BY DEF Set
<1>2. Op \notin Reads
    BY <1>1 DEF ReadInv, OnReadPath, ReadPath, Reads
<1>3. store' \in [Names -> Value \cup {Missing}] /\ pc' = "done"
    BY <1>1, WriteTyped DEF ReadInv, Typed, Loaded
<1>4. Typed'
    BY <1>1, <1>3 DEF ReadInv, Typed, Loaded
<1> QED
    BY <1>1, <1>2, <1>4, NotReading

LEMMA OpenReads ==
    ASSUME ReadInv, Open
    PROVE  ReadInv'
<1>1. /\ pc = "open" /\ pc' = "format" /\ UNCHANGED <<store, cmd, reg, status>> /\ Op' = Op
      /\ files' = [files EXCEPT ![cmd.out] = EmptyFile]
    BY SameOp DEF Open
<1>2. IsFile(EmptyFile)
    BY DEF EmptyFile, IsFile
<1>3. Typed'
    BY <1>1, <1>2 DEF ReadInv, Typed, Loaded
<1>4. CASE Op \notin Reads
    BY <1>1, <1>3, <1>4, NotReading
<1>5. CASE Op \in Reads
  <2>1. Op = "convert"
    BY <1>1, <1>5 DEF ReadInv, OnReadPath, ReadPath, Reads
  <2>2. OnReadPath' /\ RestoreOK' /\ WalkOK' /\ Restored'
    BY <1>1, <2>1 DEF OnReadPath, ReadPath, RestoreOK, WalkOK, Restored, Finished
  <2>3. cmd.in # cmd.out => files'[cmd.in] = files[cmd.in]
    BY <1>1
  <2>4. ImportOK'
    BY <1>1, <2>1, <2>3 DEF ReadInv, ImportOK
  <2> QED
    BY <1>3, <2>2, <2>4 DEF ReadInv
<1> QED
    BY <1>4, <1>5

\* A file that is written is one of whole records.
LEMMA FileTyped ==
    ASSUME NEW v \in Variable, NEW fmt \in Formats, CanExport(v)
    PROVE  IsFile(FileOf(v, fmt))
<1> DEFINE r == Exported(v, fmt)
<1>1. NameLen(v.name) \in Nat /\ Len(v.data) \in Nat
    BY NameLenFacts DEF Variable
<1>2. r \in Records
    BY <1>1 DEF Exported, ExportEfivar, ExportDmpstore, Record, Records, Variable, AuthBits, Formats
<1>3. AsExported(r)
    BY DEF AsExported, CanExport, Exported, ExportEfivar, ExportDmpstore, Record
<1>4. Needed(v, fmt) \in Int
    BY <1>1 DEF Needed, Fixed
<1>5. FileOf(v, fmt) = [recs |-> <<r>>, len |-> Needed(v, fmt)]
    BY DEF FileOf
<1> HIDE DEF r
<1>6. <<r>> \in Seq(Records) /\ DOMAIN <<r>> = {1} /\ <<r>>[1] = r
    BY <1>2
<1> QED
    BY <1>3, <1>4, <1>5, <1>6 DEF IsFile

LEMMA FormatReads ==
    ASSUME IInv, ReadInv, Format
    PROVE  ReadInv'
<1>1. /\ pc = "format" /\ pc' = "done" /\ UNCHANGED <<store, cmd, reg>> /\ Op' = Op
      /\ \/ files' = files
         \/ files' = [files EXCEPT ![cmd.out] = FileOf(reg, cmd.fmt)] /\ CanExport(reg)
    BY SameOp DEF Format, Exit
<1>2. CanExport(reg) => IsFile(FileOf(reg, cmd.fmt))
  <2>1. reg \in Variable /\ cmd.fmt \in Formats
    BY <1>1, CommandsAssumption DEF IInv, OutOK, ReadInv, Typed, Loaded
  <2> QED
    BY <2>1, FileTyped
<1>3. Typed'
  <2>1. ~Loaded'
    BY <1>1 DEF Loaded
  <2>2. DOMAIN files' = DOMAIN files /\ \A p \in DOMAIN files : IsFile(files'[p])
    BY <1>1, <1>2 DEF ReadInv, Typed
  <2> QED
    BY <1>1, <2>1, <2>2 DEF ReadInv, Typed
<1>4. CASE Op \notin Reads
    BY <1>1, <1>3, <1>4, NotReading
<1>5. CASE Op \in Reads
  <2>1. Op = "convert"
    BY <1>1, <1>5 DEF ReadInv, OnReadPath, ReadPath, Reads
  <2>2. OnReadPath' /\ RestoreOK' /\ WalkOK' /\ Restored'
    BY <1>1, <2>1 DEF OnReadPath, ReadPath, RestoreOK, WalkOK, Restored, Finished
  <2>3. cmd.in # cmd.out => files'[cmd.in] = files[cmd.in]
    BY <1>1, <1>5, Input
  <2>4. ImportOK'
    BY <1>1, <2>1, <2>3 DEF ReadInv, ImportOK
  <2> QED
    BY <1>3, <2>2, <2>4 DEF ReadInv
<1> QED
    BY <1>4, <1>5

LEMMA ImportReads ==
    ASSUME IInv, ReadInv, ImportFile
    PROVE  ReadInv'
<1> DEFINE f == files[cmd.in]
<1>1. /\ pc = "import" /\ UNCHANGED <<store, files, cmd, before, other>> /\ Op' = Op
      /\ pc' \in {"open", "realize", "done"}
      /\ pc' = "open" => Op = "convert"
      /\ pc' = "realize" => Op = "restore"
    BY SameOp DEF ImportFile, Exit
<1>2. CASE Op \notin Reads
  <2>1. pc' = "done"
    BY <1>1, <1>2 DEF Reads
  <2>2. Typed'
    BY <1>1, <2>1 DEF ReadInv, Typed, Loaded
  <2> QED
    BY <1>1, <1>2, <2>2, NotReading
<1>3. CASE Op \in Reads /\ (f.len <= 0 \/ Import(f, 0) = Failed)
  <2>1. Op # "walk" /\ pc' = "done" /\ status' = 1 /\ reg' = reg
    BY <1>1, <1>3 DEF ReadInv, OnReadPath, ReadPath, Reads, ImportFile, Exit
  <2> QED
    BY <1>1, <2>1, ReadStops
<1>4. CASE Op \in Reads /\ ~(f.len <= 0 \/ Import(f, 0) = Failed)
  <2>1. reg' = Import(f, 0).var /\ Op \in {"import", "convert", "restore"}
    BY <1>1, <1>4 DEF ReadInv, OnReadPath, ReadPath, Reads, ImportFile
  <2>2. Intact(f) /\ reg' = FirstVar(f) /\ reg' \in Variable
    BY <1>1, <1>4, <2>1, Input, FirstImport
  <2>3. Typed'
    BY <1>1, <2>2 DEF ReadInv, Typed
  <2>4. OnReadPath'
    BY <1>1, <2>1 DEF OnReadPath, ReadPath
  <2>5. ImportOK'
    BY <1>1, <2>2 DEF ImportOK
  <2>6. RestoreOK'
    BY <1>1, <2>2 DEF ReadInv, RestoreOK
  <2>7. WalkOK'
    BY <1>1, <2>1 DEF WalkOK
  <2>8. Restored'
    <3>1. Op = "restore" => pc' = "realize"
      BY <1>4 DEF ImportFile
    <3> QED
      BY <1>1, <3>1 DEF Restored, Finished
  <2> QED
    BY <2>3, <2>4, <2>5, <2>6, <2>7, <2>8 DEF ReadInv
<1> QED
    BY <1>2, <1>3, <1>4

\* A restored variable has what its file holds.
LEMMA RealizeReads ==
    ASSUME IInv, ReadInv, RealizeVar
    PROVE  ReadInv'
<1> DEFINE f == files[cmd.in]
           r == f.recs[1]
           op == Realized(reg)
           new == [attrs |-> reg.attrs, data |-> reg.data]
<1>1. /\ pc = "realize" /\ pc' = "done" /\ UNCHANGED <<files, cmd, reg, before, other>>
      /\ Op' = Op
      /\ \/ op \in {"set", "append"} /\ Write(op)
         \/ status' = 1 /\ UNCHANGED <<store, seen>>
    BY SameOp DEF RealizeVar, Write, Exit
<1>2. reg \in Variable
    BY <1>1 DEF ReadInv, Typed, Loaded
<1>3. store' \in [Names -> Value \cup {Missing}]
    BY <1>1, <1>2, WriteTyped DEF ReadInv, Typed
<1>4. Typed'
    BY <1>1, <1>3 DEF ReadInv, Typed, Loaded
<1>5. CASE Op \notin Reads
    BY <1>1, <1>4, <1>5, NotReading
<1>6. CASE Op \in Reads
  <2>1. Op = "restore"
    BY <1>1, <1>6 DEF ReadInv, OnReadPath, ReadPath, Reads
  <2>2. OnReadPath' /\ RestoreOK' /\ WalkOK'
    BY <1>1, <2>1 DEF OnReadPath, RestoreOK, WalkOK
  <2>3. ImportOK'
    BY <1>1 DEF ReadInv, ImportOK
  <2>4. Restored'
    <3>1. SUFFICES ASSUME status' = 0, other = 0 PROVE Restored'
      BY <1>1 DEF Restored, Finished
    <3>2. store = before /\ reg = FirstVar(f)
      BY <1>1, <2>1, <3>1 DEF ReadInv, RestoreOK
    <3>3. op \in {"set", "append"} /\ Write(op)
      BY <1>1, <3>1
    <3>4. /\ reg.data # <<>> /\ reg.auth # "header"
          /\ op = IF reg.append THEN "append" ELSE "set"
      BY <3>3 DEF Realized
    <3>5. /\ ~Refuses(store[reg.name], new)
          /\ store' = [store EXCEPT ![reg.name] = After(store[reg.name], op, new)]
      BY <3>1, <3>3 DEF Write, Put, Exit
    <3>6. /\ reg.name = FirstName(f) /\ reg.append = r.append /\ reg.attrs = r.attrs
          /\ reg.auth = r.auth /\ reg.data = r.data
      BY <3>2 DEF FirstVar
    <3> DEFINE n == FirstName(f)
               old == before[n]
               val == [attrs |-> r.attrs, data |-> r.data]
               res == IF r.attrs = Zero THEN Missing
                      ELSE Uefi!Written(old, IF r.append THEN "append" ELSE "set", val)
    <3>7. store' = [before EXCEPT ![n] = res]
      BY <3>2, <3>4, <3>5, <3>6 DEF After
    <3>8. r.auth # "header"
      BY <3>4, <3>6
    <3>9. r.attrs # Zero /\ before[n] # Missing => store'[n].attrs = before[n].attrs
      <4>1. SUFFICES ASSUME r.attrs # Zero, old # Missing PROVE store'[n].attrs = old.attrs
        OBVIOUS
      <4>2. n \in Names /\ n \in DOMAIN before
        BY <1>2, <3>2, <3>6 DEF Variable, ReadInv, Typed
      <4>3. store'[n] = Uefi!Written(old, IF r.append THEN "append" ELSE "set", val)
        BY <3>7, <4>1, <4>2
      <4>4. old.attrs = r.attrs
        BY <3>2, <3>5, <3>6, <4>1 DEF Refuses
      <4>5. val.data # <<>> /\ val.attrs = r.attrs
        BY <3>4, <3>6
      <4> HIDE DEF val, old
      <4> QED
        BY <4>1, <4>3, <4>4, <4>5 DEF Uefi!Written
    <3>10. n = IF r.fmt = "native" /\ r.name \in Wide THEN Narrowed(r.name) ELSE r.name
      BY DEF FirstName
    <3> HIDE DEF n
    <3> QED
      BY <1>1, <3>7, <3>8, <3>9, <3>10 DEF Restored
  <2> QED
    BY <1>4, <2>2, <2>3, <2>4 DEF ReadInv
<1> QED
    BY <1>5, <1>6

\* A walk goes on with the record behind the one that was imported.
LEMMA WalkReads ==
    ASSUME IInv, ReadInv, WalkNext
    PROVE  ReadInv'
<1> DEFINE f == files[cmd.in]
           n == Len(got)
           N == Len(f.recs)
<1>1. pc = "walk" /\ UNCHANGED <<store, files, cmd, reg, before, other>> /\ Op' = Op
      /\ pc' \in {"walk", "done"}
    BY SameOp DEF WalkNext, Exit
<1>2. Typed'
    BY <1>1 DEF ReadInv, Typed, Loaded
<1>3. CASE Op \notin Reads
    BY <1>1, <1>2, <1>3, NotReading
<1>4. CASE Op \in Reads
  <2>1. Op = "walk" /\ IsFile(f)
    BY <1>1, <1>4, Input DEF ReadInv, OnReadPath, ReadPath, Reads
  <2>2. OnReadPath' /\ ImportOK' /\ RestoreOK' /\ Restored'
    BY <1>1, <2>1 DEF OnReadPath, ReadPath, ImportOK, RestoreOK, Restored, Finished
  <2>3. WalkOK'
    <3>1. SUFFICES ASSUME Whole(f) PROVE WalkOK'
      BY <1>1 DEF WalkOK
    <3>2. /\ got \in Seq(Variable) /\ n \in Nat /\ N \in Nat /\ n <= N
          /\ Walked(f, n) /\ off = Offset(f, n + 1)
      BY <1>1, <2>1, <3>1 DEF ReadInv, WalkOK, IsFile
    <3>3. CASE n = N
      <4>1. off >= f.len
        <5>1. off = f.len /\ f.len \in Int
          BY <2>1, <3>1, <3>2, <3>3 DEF Whole, IsFile
        <5> QED
          BY <5>1
      <4>2. pc' = "done" /\ status' = 0 /\ got' = got
        BY <4>1 DEF WalkNext, Exit
      <4> QED
        BY <1>1, <3>2, <3>3, <4>2 DEF WalkOK, Walked
    <3>4. CASE n < N
      <4>1. n + 1 \in 1 .. N
        BY <3>2, <3>4
      <4> DEFINE im == Import(f, off)
      <4>2. /\ off < f.len /\ im # Failed
            /\ im.rc = Size(f.recs[n + 1])
            /\ im.var.name = f.recs[n + 1].name /\ im.var.data = f.recs[n + 1].data
            /\ im.var \in Variable
        BY <2>1, <3>1, <3>2, <4>1, WalkImport
      <4>3. ~(off >= f.len)
        <5>1. off \in Nat /\ f.len \in Int
          BY <2>1, <3>2, <4>1, OffsetFacts DEF IsFile
        <5> QED
          BY <4>2, <5>1
      <4>4. got' = Append(got, im.var) /\ off' = off + im.rc /\ pc' = "walk"
        BY <1>1, <4>2, <4>3 DEF WalkNext
      <4>5. off' = Offset(f, n + 2)
        <5>1. Offset(f, (n + 1) + 1) = Offset(f, n + 1) + Size(f.recs[n + 1])
          BY <2>1, <4>1, OffsetFacts DEF IsFile
        <5>2. (n + 1) + 1 = n + 2
          BY <3>2
        <5> QED
          BY <3>2, <4>2, <4>4, <5>1, <5>2
      <4> HIDE DEF im
      <4>6. /\ got' \in Seq(Variable) /\ Len(got') = n + 1
            /\ \A k \in 1 .. n : got'[k] = got[k]
            /\ got'[n + 1] = im.var
        BY <3>2, <4>2, <4>4
      <4>7. /\ DOMAIN got' = 1 .. n + 1
            /\ \A k \in 1 .. n + 1 :
                    got'[k].name = f.recs[k].name /\ got'[k].data = f.recs[k].data
        <5>1. DOMAIN got' = 1 .. n + 1
          BY <4>6
        <5>2. ASSUME NEW k \in 1 .. n + 1
              PROVE  got'[k].name = f.recs[k].name /\ got'[k].data = f.recs[k].data
          <6>1. CASE k = n + 1
            BY <4>2, <4>6, <6>1
          <6>2. CASE k \in 1 .. n
            BY <3>2, <4>6, <6>2 DEF Walked
          <6> QED
            BY <3>2, <6>1, <6>2
        <5> QED
          BY <5>1, <5>2
      <4>8. Len(got') <= N /\ Len(got') + 1 = n + 2
        BY <3>2, <4>1, <4>6
      <4>9. f' = f
        BY <1>1
      <4>10. /\ Len(got') <= Len(f'.recs) /\ off' = Offset(f', Len(got') + 1)
             /\ Walked(f, Len(got))'
        BY <4>5, <4>6, <4>7, <4>8, <4>9 DEF Walked
      <4> HIDE DEF f, n, N
      <4> QED
        BY <4>4, <4>6, <4>10 DEF WalkOK, f
    <3> QED
      BY <3>2, <3>3, <3>4
  <2> QED
    BY <1>2, <2>2, <2>3 DEF ReadInv
<1> QED
    BY <1>3, <1>4

LEMMA StutterReads ==
    ASSUME ReadInv, UNCHANGED vars
    PROVE  ReadInv'
<1>1. Op' = Op
    BY SameOp DEF vars
<1>2. Typed' /\ OnReadPath' /\ ImportOK'
    BY <1>1 DEF vars, ReadInv, Typed, Loaded, OnReadPath, ImportOK
<1>3. RestoreOK' /\ WalkOK'
    BY <1>1 DEF vars, ReadInv, RestoreOK, WalkOK, Walked
<1>4. Restored'
    BY <1>1 DEF vars, ReadInv, Restored, Finished
<1> QED
    BY <1>2, <1>3, <1>4 DEF ReadInv

\* Every state satisfies ReadInv: files hold typed records, of which the intact
\* ones are as they were exported, and what was imported so far is what the
\* file holds.
THEOREM ReadInvariance == Spec => []ReadInv
<1>1. IInv /\ ReadInv /\ [Next]_vars => ReadInv'
  <2> SUFFICES ASSUME IInv, ReadInv, [Next]_vars PROVE ReadInv'
    OBVIOUS
  <2>1. CASE Other
    BY <2>1, OtherReads
  <2>2. CASE \E c \in Commands : Start(c)
    BY <2>2, StartReads
  <2>3. CASE Again
    BY <2>3, AgainReads
  <2>4. CASE Kill \/ End \/ SetFails
    BY <2>4, StopsRead
  <2>5. CASE Prepare
    BY <2>5, PrepareReads
  <2>6. CASE Get(store[cmd.name], "none") \/ Get(Missing, "unread")
    BY <2>6, GetReads
  <2>7. CASE Set
    BY <2>7, SetReads
  <2>8. CASE Open
    BY <2>8, OpenReads
  <2>9. CASE Format
    BY <2>9, FormatReads
  <2>10. CASE ImportFile
    BY <2>10, ImportReads
  <2>11. CASE RealizeVar
    BY <2>11, RealizeReads
  <2>12. CASE WalkNext
    BY <2>12, WalkReads
  <2>13. CASE UNCHANGED vars
    BY <2>13, StutterReads
  <2> QED
    BY <2>1, <2>2, <2>3, <2>4, <2>5, <2>6, <2>7, <2>8, <2>9, <2>10, <2>11, <2>12, <2>13 DEF Next
<1> QED
    BY <1>1, ReadInit, Invariance, PTL DEF Spec

\* Restoring a file gives its variable the value in the file or appends it,
\* keeps the attributes of one that exists and changes no other variable, and a
\* damaged or cut file is never taken for a variable, for files of any number
\* of records of any length (efi_variable_import, efi_variable_realize).
THEOREM RestoresRight == Spec => []RestoreRight
<1>1. ReadInv => RestoreRight
  <2>1. ReadInv => DamageRefused
    BY DEF ReadInv, ImportOK, DamageRefused, Intact
  <2> QED
    BY <2>1 DEF ReadInv, RestoreRight
<1> QED
    BY <1>1, ReadInvariance, PTL

\* efi_variable_import, used successively with its return code as an offset,
\* returns every record of a file of whole dmpstore records, in their order.
THEOREM WalksComplete == Spec => []WalkComplete
<1>1. IInv /\ ReadInv => WalkComplete
  <2> DEFINE f == files[cmd.in]
  <2> SUFFICES ASSUME IInv, ReadInv, pc = "done", Op = "walk", Whole(f)
               PROVE  /\ status = 0
                      /\ [k \in DOMAIN got |-> <<got[k].name, got[k].data>>]
                             = [k \in DOMAIN f.recs |-> <<f.recs[k].name, f.recs[k].data>>]
    BY DEF WalkComplete, Whole
  <2>1. status = 0 /\ Walked(f, Len(f.recs))
    BY DEF ReadInv, WalkOK
  <2>2. DOMAIN f.recs = 1 .. Len(f.recs)
    BY Input DEF Reads, IsFile
  <2> QED
    BY <2>1, <2>2 DEF Walked
<1> QED
    BY <1>1, Invariance, ReadInvariance, PTL
=============================================================================
