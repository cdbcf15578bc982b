--------------------------- MODULE LibraryProofs ----------------------------
(***************************************************************************)
(* Proofs about Library, for any number of threads, any errno values and   *)
(* log levels, and programs that call the functions in any order.          *)
(***************************************************************************)
EXTENDS Library, SequenceTheorems, FiniteSetTheorems, TLAPS

(***************************************************************************)
(* The inductive invariant: loading                                        *)
(***************************************************************************)

\* What libefivar_init has decided.
Chosen ==
    /\ ops # 0
    /\ env.name = "unset" =>
        Usable(Backend) /\ \A i \in 1 .. ops - 1 : ~Usable(Backends[i])
    /\ env.name # "unset" =>
        Backend = IF env.name \in Range(Backends) THEN env.name ELSE "default"

\* How far the probes have come.
Probed ==
    LET f == stack[Main][1] IN
    /\ Len(stack[Main]) = 1 /\ f.lib = "probe"
    /\ f.rc \in 1 .. Len(Backends)
    /\ f.at \in {"start", "failed", "found"}
    /\ \A i \in 1 .. f.rc - 1 : ~Usable(Backends[i])
    /\ f.at = "failed" => ~Usable(Backends[f.rc])
    /\ f.at = "found" => Usable(Backends[f.rc])

Loading ==
    phase \in {"load", "probe"} =>
        /\ \A t \in Thread :
            /\ ctl[t] = "idle" /\ call[t] = "none" /\ origin[t] = "none"
            /\ t # Main => stack[t] = <<>>
        /\ buffer = <<>>
        /\ "path" \notin todo => path
        /\ phase = "load" => table[Main] = <<>> /\ stack[Main] = <<>>
        /\ phase = "load" /\ "ops" \notin todo => Chosen
        /\ phase = "probe" => "ops" \notin todo /\ env.name = "unset" /\ Probed

(***************************************************************************)
(* The inductive invariant: the frames of a thread                         *)
(***************************************************************************)

\* A frame of a backend is there because it is the chosen one; only a program
\* calls efi_append_variable, and only a program or vars.c deletes.
Proper(t, f, i) ==
    /\ f.lib \in {"efivarfs", "vars"} => Backend = f.lib
    /\ f.lib = "generic" => i = 2 /\ Backend # "efivarfs" /\ call[t] = "append"
    /\ f.lib = "public" => f.fn \in Public
    /\ f.lib = "public" /\ f.fn = "append" => i = 1
    /\ f.lib = "log" => i = 1 /\ f.rc \in Level
    /\ f.fn = "del" /\ Backend = "efivarfs" => call[t] = "del"
    /\ f.at = "unlinked" => f.rc \in {0, -1}

\* The outermost frame is the function the program called.
StackOK(t) ==
    /\ stack[t] = <<>> <=> ctl[t] = "idle"
    /\ stack[t] # <<>> =>
        \/ stack[t][1].lib = "public" /\ stack[t][1].fn = call[t]
        \/ stack[t][1].lib = "log" /\ Len(stack[t]) = 1 /\ call[t] = "none"
    /\ \A i \in 1 .. Len(stack[t]) : Proper(t, stack[t][i], i)

(***************************************************************************)
(* The inductive invariant: errors                                         *)
(***************************************************************************)

\* What ErrnoIsCause and TraceRight leave out.
LateErrno(t) == Backend = "efivarfs" /\ call[t] = "del"

\* errno and the table tell of the failure that failed the call.
Blamed(t) ==
    /\ cause[t] # "none" /\ origin[t] # "write" => errno[t] = cause[t]
    /\ origin[t] # "none" =>
        \E i \in base[t] + 1 .. Len(table[t]) : table[t][i].fn = origin[t]

Told(t) == InUpdate(t) \/ oom[t] \/ LateErrno(t) \/ Blamed(t)

\* generic_append_variable is looking whether the variable is there.
Looking(t) ==
    \E i \in 1 .. Len(stack[t]) : stack[t][i].lib = "generic" /\ stack[t][i].at = "got"

ErrorsOK(t) ==
    /\ origin[t] # "none" => Backend \in Libs
    /\ ctl[t] = "call" /\ Top(t).fn = "chmod" => cause[t] = "none" /\ origin[t] = "none"
    /\ ctl[t] = "call" /\ Top(t).fn = "append" /\ Top(t).at = "start" => origin[t] = "none"
    /\ Looking(t) => \A i \in 1 .. Len(stack[t]) : stack[t][i].fn \in {"append", "get"}
    /\ Looking(t) /\ (ctl[t] = "call" \/ rv[t] >= 0) => origin[t] = "none"
    /\ ctl[t] = "call" /\ Top(t).at = "rollback" => Told(t)
    /\ ctl[t] = "return" /\ rv[t] < 0 => Told(t)

\* A call is over.
IdleOK(t) ==
    ctl[t] = "idle" /\ call[t] \in Public =>
        /\ rv[t] >= 0 /\ call[t] # "set0" => table[t] = <<>>
        /\ rv[t] < 0 => Told(t)
        /\ rv[t] < 0 /\ ~oom[t] =>
            base[t] < Len(table[t]) /\ table[t][Len(table[t])].fn = call[t]

Up == phase = "up" => \A t \in Thread : StackOK(t) /\ ErrorsOK(t) /\ IdleOK(t)

(***************************************************************************)
(* The inductive invariant: the log                                        *)
(***************************************************************************)

\* The threads that have yet to put their message into the buffer.
Writers == {t \in Thread : Logs(t) /\ Top(t).at = "start"}

LogState ==
    /\ \A t \in Thread : Logs(t) /\ alone[t] => Top(t).rc = loglevel
    /\ \A i \in 1 .. Len(buffer) :
        ~buffer[i].mixed /\ alone[buffer[i].by] => buffer[i].level = loglevel
    /\ Len(buffer) + Cardinality(Writers) <= Pending + Cardinality(Thread)

IInv ==
    /\ TypeOK
    /\ Loading
    /\ Up
    /\ LogState
    /\ LogExact

-----------------------------------------------------------------------------
(* Facts about constants and sequences                                     *)

LEMMA BackendsFacts ==
    /\ Len(Backends) = 3 /\ DOMAIN Backends = 1 .. 3
    /\ Backends[1] = "efivarfs" /\ Backends[2] = "vars" /\ Backends[3] = "default"
    /\ Range(Backends) = {"efivarfs", "vars", "default"}
BY DEF Backends, Range

LEMMA BackendType ==
    ASSUME TypeOK
    PROVE  Backend \in Range(Backends) \cup {"NULL"}
BY BackendsFacts DEF TypeOK, Backend, Range

LEMMA FrontFacts ==
    ASSUME NEW S, NEW s \in Seq(S), s # <<>>
    PROVE  /\ Len(s) \in Nat /\ Len(s) >= 1 /\ s[Len(s)] \in S
           /\ Front(s) \in Seq(S) /\ Len(Front(s)) = Len(s) - 1
           /\ \A i \in 1 .. Len(s) - 1 : Front(s)[i] = s[i]
<1>1. Len(s) \in Nat /\ Len(s) >= 1
    OBVIOUS
<1>2. \A i \in 1 .. Len(s) : s[i] \in S
    OBVIOUS
<1>3. 1 \in Int /\ Len(s) - 1 \in Int /\ \A i \in 1 .. Len(s) - 1 : s[i] \in S
    BY <1>1, <1>2
<1>4. /\ Front(s) \in Seq(S)
      /\ Len(Front(s)) = IF 1 <= Len(s) - 1 THEN (Len(s) - 1) - 1 + 1 ELSE 0
      /\ \A i \in 1 .. (Len(s) - 1) - 1 + 1 : Front(s)[i] = s[1 + i - 1]
    BY <1>3, SubSeqProperties DEF Front
<1>5. Len(Front(s)) = Len(s) - 1
  <2>1. ASSUME NEW n \in Nat, n >= 1, NEW m, m = IF 1 <= n - 1 THEN (n - 1) - 1 + 1 ELSE 0
        PROVE  m = n - 1
    BY <2>1
  <2> QED
    BY <1>1, <1>4, <2>1
<1>6. ASSUME NEW i \in 1 .. Len(s) - 1 PROVE Front(s)[i] = s[i]
  <2>1. i \in 1 .. (Len(s) - 1) - 1 + 1 /\ 1 + i - 1 = i
    BY <1>1
  <2> QED
    BY <1>4, <2>1
<1> QED
    BY <1>1, <1>2, <1>4, <1>5, <1>6

-----------------------------------------------------------------------------
(* How a step moves the frames of its thread                               *)

\* The innermost frame is gone.
Popped(t) ==
    /\ Len(stack'[t]) = Len(stack[t]) - 1
    /\ \A i \in 1 .. Len(stack[t]) - 1 : stack'[t][i] = stack[t][i]

\* The innermost frame has become g and has called f.
Called(t, g, f) ==
    /\ Len(stack'[t]) = Len(stack[t]) + 1
    /\ \A i \in 1 .. Len(stack[t]) - 1 : stack'[t][i] = stack[t][i]
    /\ stack'[t][Len(stack[t])] = g
    /\ stack'[t][Len(stack[t]) + 1] = f

\* The innermost frame has become g.
Moved(t, g) ==
    /\ Len(stack'[t]) = Len(stack[t])
    /\ \A i \in 1 .. Len(stack[t]) - 1 : stack'[t][i] = stack[t][i]
    /\ stack'[t][Len(stack[t])] = g

OtherStacks(t) ==
    /\ stack' \in [Thread -> Seq(Frames)]
    /\ ctl' \in [Thread -> {"idle", "call", "return"}]
    /\ \A u \in Thread \ {t} : stack'[u] = stack[u] /\ ctl'[u] = ctl[u]

LEMMA TopFacts ==
    ASSUME TypeOK, NEW t \in Thread, stack[t] # <<>>
    PROVE  /\ stack[t] \in Seq(Frames) /\ Len(stack[t]) \in Nat /\ Len(stack[t]) >= 1
           /\ Top(t) = stack[t][Len(stack[t])] /\ Top(t) \in Frames
BY FrontFacts DEF TypeOK, Top, Last

LEMMA PopMoves ==
    ASSUME TypeOK, NEW t \in Thread, stack[t] # <<>>, NEW v \in {-1, 0, 1}, Pop(t, v)
    PROVE  /\ Popped(t) /\ OtherStacks(t)
           /\ ctl'[t] = IF Len(stack[t]) = 1 THEN "idle" ELSE "return"
           /\ rv' \in [Thread -> {-1, 0, 1}] /\ rv'[t] = v
           /\ \A u \in Thread \ {t} : rv'[u] = rv[u]
<1>1. stack[t] \in Seq(Frames)
    BY DEF TypeOK
<1>2. stack'[t] = Front(stack[t])
    BY DEF TypeOK, Pop
<1>3. Popped(t) /\ Front(stack[t]) \in Seq(Frames)
    BY <1>1, <1>2, FrontFacts DEF Popped
<1> QED
    BY <1>3 DEF TypeOK, Pop, OtherStacks

\* A caller that waits at another place, or with another rc, is a frame.
LEMMA FrameSet ==
    ASSUME NEW f \in Frames, NEW l \in Labels
    PROVE  /\ [f EXCEPT !.at = l] \in Frames
           /\ [f EXCEPT !.at = l].at = l
           /\ [f EXCEPT !.at = l].lib = f.lib /\ [f EXCEPT !.at = l].fn = f.fn
           /\ [f EXCEPT !.at = l].rc = f.rc
BY DEF Frames

LEMMA TwoMore ==
    ASSUME TypeOK, NEW t \in Thread, stack[t] # <<>>, NEW g \in Frames, NEW f \in Frames,
           stack' = [stack EXCEPT ![t] = Append(Front(@), g) \o <<f>>],
           ctl' = [ctl EXCEPT ![t] = "call"]
    PROVE  Called(t, g, f) /\ OtherStacks(t) /\ ctl'[t] = "call"
<1> DEFINE s == Front(stack[t])
<1>1. /\ s \in Seq(Frames) /\ Len(stack[t]) \in Nat /\ Len(s) = Len(stack[t]) - 1
      /\ \A i \in 1 .. Len(stack[t]) - 1 : s[i] = stack[t][i]
    BY FrontFacts DEF TypeOK
<1>2. stack'[t] = Append(s, g) \o <<f>>
    BY DEF TypeOK
<1> HIDE DEF s
<1>3. /\ Append(s, g) \in Seq(Frames) /\ Len(Append(s, g)) = Len(stack[t])
      /\ \A i \in 1 .. Len(stack[t]) - 1 : Append(s, g)[i] = stack[t][i]
      /\ Append(s, g)[Len(stack[t])] = g
    BY <1>1
<1>4. <<f>> \in Seq(Frames) /\ Len(<<f>>) = 1 /\ <<f>>[1] = f
    OBVIOUS
<1>5. Append(s, g) \o <<f>> \in Seq(Frames) /\ Called(t, g, f)
    BY <1>1, <1>2, <1>3, <1>4, ConcatProperties DEF Called
<1> QED
    BY <1>2, <1>5 DEF TypeOK, OtherStacks

LEMMA CallAtMoves ==
    ASSUME TypeOK, NEW t \in Thread, stack[t] # <<>>, NEW l \in Labels, NEW f \in Frames,
           CallAt(t, l, f)
    PROVE  /\ Called(t, [Top(t) EXCEPT !.at = l], f) /\ OtherStacks(t)
           /\ ctl'[t] = "call" /\ [Top(t) EXCEPT !.at = l] \in Frames
BY TopFacts, FrameSet, TwoMore DEF CallAt

LEMMA GotoMoves ==
    ASSUME TypeOK, NEW t \in Thread, stack[t] # <<>>, NEW l \in Labels,
           stack' = [stack EXCEPT ![t][Len(stack[t])].at = l]
    PROVE  /\ Moved(t, [Top(t) EXCEPT !.at = l]) /\ stack' \in [Thread -> Seq(Frames)]
           /\ \A u \in Thread \ {t} : stack'[u] = stack[u]
<1> DEFINE g == [Top(t) EXCEPT !.at = l]
<1>1. /\ stack[t] \in Seq(Frames) /\ Len(stack[t]) \in Nat /\ Len(stack[t]) >= 1
      /\ Top(t) = stack[t][Len(stack[t])] /\ g \in Frames
    BY TopFacts, FrameSet
<1>2. stack' = [stack EXCEPT ![t] = [stack[t] EXCEPT ![Len(stack[t])] = g]]
    BY <1>1 DEF TypeOK
<1> HIDE DEF g
<1>3. /\ [stack[t] EXCEPT ![Len(stack[t])] = g] \in Seq(Frames)
      /\ Len([stack[t] EXCEPT ![Len(stack[t])] = g]) = Len(stack[t])
      /\ \A i \in 1 .. Len(stack[t]) :
          [stack[t] EXCEPT ![Len(stack[t])] = g][i] = IF i = Len(stack[t]) THEN g ELSE stack[t][i]
    BY <1>1, ExceptSeq
<1> DEFINE s == [stack[t] EXCEPT ![Len(stack[t])] = g]
<1> HIDE DEF s
<1>4. stack' = [stack EXCEPT ![t] = s] /\ s \in Seq(Frames) /\ Len(s) = Len(stack[t])
      /\ \A i \in 1 .. Len(stack[t]) : s[i] = IF i = Len(stack[t]) THEN g ELSE stack[t][i]
    BY <1>2, <1>3 DEF s
<1>5. stack'[t] = s /\ stack' \in [Thread -> Seq(Frames)]
      /\ \A u \in Thread \ {t} : stack'[u] = stack[u]
  <2>1. stack \in [Thread -> Seq(Frames)] /\ stack' = [stack EXCEPT ![t] = s] /\ s \in Seq(Frames)
    BY <1>4 DEF TypeOK
  <2> QED
    BY <2>1
<1>6. Moved(t, g)
    BY <1>1, <1>4, <1>5 DEF Moved
<1> QED
    BY <1>5, <1>6 DEF g

LEMMA OneOrMore ==
    ASSUME NEW n \in Nat, n >= 1
    PROVE  n = 1 \/ (n > 1 /\ n - 1 \in Nat /\ n - 1 >= 1 /\ n # 1 /\ 1 \in 1 .. n - 1)
OBVIOUS

LEMMA SameBackend == ASSUME ops' = ops PROVE Backend' = Backend
BY DEF Backend

LEMMA PopStack ==
    ASSUME TypeOK, NEW t \in Thread, StackOK(t), stack[t] # <<>>, Popped(t), OtherStacks(t),
           ctl'[t] = IF Len(stack[t]) = 1 THEN "idle" ELSE "return",
           call'[t] = call[t], ops' = ops
    PROVE  StackOK(t)'
<1>1. stack'[t] \in Seq(Frames) /\ Len(stack[t]) \in Nat /\ Len(stack[t]) >= 1
    BY TopFacts DEF OtherStacks
<1>2. CASE Len(stack[t]) = 1
  <2>1. Len(stack'[t]) = 0
    BY <1>2 DEF Popped
  <2>2. stack'[t] = <<>>
    BY <1>1, <2>1, EmptySeq
  <2> QED
    BY <1>2, <2>1, <2>2 DEF StackOK
<1>3. CASE Len(stack[t]) # 1
  <2>0. LET n == Len(stack[t]) IN
        n > 1 /\ n - 1 \in Nat /\ n - 1 >= 1 /\ n # 1 /\ 1 \in 1 .. n - 1
    BY <1>1, <1>3, OneOrMore
  <2>1. /\ Len(stack'[t]) \in Nat /\ Len(stack'[t]) >= 1 /\ ctl'[t] = "return"
        /\ stack'[t][1] = stack[t][1]
    BY <2>0, <1>3 DEF Popped
  <2>1a. stack'[t] # <<>>
    BY <2>1
  <2>2. stack[t][1].lib = "public" /\ stack[t][1].fn = call[t]
    BY <1>3, <2>0 DEF StackOK
  <2>3. ASSUME NEW i \in 1 .. Len(stack'[t]) PROVE Proper(t, stack[t][i], i)' /\ stack'[t][i] = stack[t][i]
    <3>1. i \in 1 .. Len(stack[t]) - 1 /\ i \in 1 .. Len(stack[t])
      BY <1>1 DEF Popped
    <3>2. stack'[t][i] = stack[t][i] /\ Proper(t, stack[t][i], i)
      BY <3>1 DEF Popped, StackOK
    <3> QED
      BY <3>2, SameBackend DEF Proper
  <2> QED
    BY <2>1, <2>1a, <2>2, <2>3 DEF StackOK
<1> QED
    BY <1>2, <1>3

LEMMA CallStack ==
    ASSUME TypeOK, NEW t \in Thread, StackOK(t), stack[t] # <<>>, call[t] \in Public,
           NEW g, NEW f, Called(t, g, f), OtherStacks(t), ctl'[t] = "call",
           g.lib = Top(t).lib, g.fn = Top(t).fn,
           g.at = "unlinked" => g.rc \in {0, -1},
           Proper(t, f, Len(stack[t]) + 1),
           call'[t] = call[t], ops' = ops
    PROVE  StackOK(t)'
<1> DEFINE n == Len(stack[t])
<1>1. /\ stack'[t] \in Seq(Frames) /\ n \in Nat /\ n >= 1 /\ Top(t) = stack[t][n]
      /\ Len(stack'[t]) = n + 1 /\ stack'[t] # <<>>
    BY TopFacts DEF OtherStacks, Called
<1>2. stack[t][1].lib = "public" /\ stack[t][1].fn = call[t] /\ Proper(t, Top(t), n)
    BY <1>1 DEF StackOK, Public
<1>3. stack'[t][1].lib = "public" /\ stack'[t][1].fn = call[t]
  <2>1. CASE n = 1
    BY <1>1, <1>2, <2>1 DEF Called
  <2>2. CASE n > 1
    BY <1>1, <1>2, <2>2 DEF Called
  <2> QED
    BY <1>1, <2>1, <2>2, OneOrMore
<1>4. Proper(t, g, n)
  <2>1. g.lib # "log"
    BY <1>1, <1>2 DEF Proper, StackOK
  <2> QED
    BY <1>2, <2>1 DEF Proper
<1>5. ASSUME NEW i \in 1 .. n + 1 PROVE Proper(t, stack[t][i], i)'
  <2>1. Proper(t, stack'[t][i], i)
    <3>1. CASE i \in 1 .. n - 1
      BY <1>1, <3>1 DEF Called, StackOK
    <3>2. CASE i = n
      BY <1>4, <3>2 DEF Called
    <3>3. CASE i = n + 1
      BY <3>3 DEF Called
    <3> QED
      BY <1>1, <3>1, <3>2, <3>3
  <2> QED
    BY <2>1, SameBackend DEF Proper
<1> QED
    BY <1>1, <1>3, <1>5 DEF StackOK

LEMMA MoveStack ==
    ASSUME TypeOK, NEW t \in Thread, StackOK(t), stack[t] # <<>>,
           NEW g, Moved(t, g), stack'[t] \in Seq(Frames), ctl'[t] # "idle",
           g.lib = Top(t).lib, g.fn = Top(t).fn, g.rc = Top(t).rc, g.at # "unlinked",
           call'[t] = call[t], ops' = ops
    PROVE  StackOK(t)'
<1> DEFINE n == Len(stack[t])
<1>1. /\ n \in Nat /\ n >= 1 /\ Top(t) = stack[t][n]
      /\ Len(stack'[t]) = n /\ stack'[t] # <<>>
    BY TopFacts DEF Moved
<1>2. Proper(t, Top(t), n)
    BY <1>1 DEF StackOK
<1>3. stack'[t][1].lib = stack[t][1].lib /\ stack'[t][1].fn = stack[t][1].fn
  <2>1. CASE n = 1
    BY <1>1, <2>1 DEF Moved
  <2>2. CASE n > 1
    BY <1>1, <2>2 DEF Moved
  <2> QED
    BY <1>1, <2>1, <2>2, OneOrMore
<1>4. Proper(t, g, n)
    BY <1>2 DEF Proper
<1>5. ASSUME NEW i \in 1 .. n PROVE Proper(t, stack[t][i], i)'
  <2>1. Proper(t, stack'[t][i], i)
    <3>1. CASE i \in 1 .. n - 1
      BY <1>1, <3>1 DEF Moved, StackOK
    <3>2. CASE i = n
      BY <1>4, <3>2 DEF Moved
    <3> QED
      BY <1>1, <3>1, <3>2
  <2> QED
    BY <2>1, SameBackend DEF Proper
<1> QED
    BY <1>1, <1>3, <1>5 DEF StackOK

-----------------------------------------------------------------------------
(* What a step of a thread leaves alone                                    *)

\* The errors of the other threads stay, the thread's own keep their types.
ErrStep(t) ==
    /\ errno' \in [Thread -> Code] /\ oom' \in [Thread -> BOOLEAN]
    /\ table' \in [Thread -> Seq(Entry)]
    /\ room' \in [Thread -> Nat] /\ base' \in [Thread -> Nat]
    /\ base'[t] <= Len(table'[t]) /\ Len(table'[t]) <= room'[t]
    /\ \A u \in Thread \ {t} :
        /\ errno'[u] = errno[u] /\ oom'[u] = oom[u] /\ table'[u] = table[u]
        /\ room'[u] = room[u] /\ base'[u] = base[u]

HistStep(t) ==
    /\ cause' \in [Thread -> Code \cup {"none"}]
    /\ origin' \in [Thread -> Origins \cup {"none"}]
    /\ \A u \in Thread \ {t} : cause'[u] = cause[u] /\ origin'[u] = origin[u]

CallStep(t) ==
    /\ rv' \in [Thread -> {-1, 0, 1}] /\ call' \in [Thread -> Public \cup {"none"}]
    /\ \A u \in Thread \ {t} : rv'[u] = rv[u] /\ call'[u] = call[u]

LEMMA StepTypes ==
    ASSUME TypeOK, NEW t \in Thread, UNCHANGED <<process, logging>>,
           OtherStacks(t), CallStep(t), ErrStep(t), HistStep(t)
    PROVE  TypeOK'
<1>1. ASSUME NEW u \in Thread PROVE base'[u] <= Len(table'[u]) /\ Len(table'[u]) <= room'[u]
  <2>1. CASE u = t
    BY <2>1 DEF ErrStep
  <2>2. CASE u # t
    BY <2>2 DEF ErrStep, TypeOK
  <2> QED
    BY <2>1, <2>2
<1> QED
    BY <1>1 DEF TypeOK, OtherStacks, CallStep, ErrStep, HistStep, process, logging

LEMMA OthersSame ==
    ASSUME TypeOK, NEW t \in Thread, NEW u \in Thread, u # t, ops' = ops,
           OtherStacks(t), CallStep(t), ErrStep(t), HistStep(t),
           StackOK(u), ErrorsOK(u), IdleOK(u)
    PROVE  StackOK(u)' /\ ErrorsOK(u)' /\ IdleOK(u)'
<1>1. /\ stack'[u] = stack[u] /\ ctl'[u] = ctl[u] /\ rv'[u] = rv[u] /\ call'[u] = call[u]
      /\ errno'[u] = errno[u] /\ oom'[u] = oom[u] /\ table'[u] = table[u] /\ base'[u] = base[u]
      /\ cause'[u] = cause[u] /\ origin'[u] = origin[u] /\ Backend' = Backend
    BY SameBackend DEF OtherStacks, CallStep, ErrStep, HistStep
<1>2. StackOK(u)'
    BY <1>1 DEF StackOK, Proper
<1>3. Told(u)' <=> Told(u)
    BY <1>1 DEF Told, Blamed, InUpdate, LateErrno
<1>4. (Looking(u)' <=> Looking(u)) /\ Top(u)' = Top(u)
    BY <1>1 DEF Looking, Top
<1>5. ErrorsOK(u)'
    BY <1>1, <1>3, <1>4 DEF ErrorsOK
<1>6. IdleOK(u)'
    BY <1>1, <1>3 DEF IdleOK
<1> QED
    BY <1>2, <1>5, <1>6

LEMMA LogSame ==
    ASSUME LogState, NEW t \in Thread, UNCHANGED logging, ~Logs(t), ~Logs(t)',
           OtherStacks(t)
    PROVE  LogState'
<1>1. \A u \in Thread : Logs(u)' <=> Logs(u)
    BY DEF OtherStacks, Logs, Top
<1>2. \A u \in Thread : Logs(u) => Top(u)' = Top(u)
    BY DEF OtherStacks, Top
<1>3. Writers' = Writers
    BY <1>1, <1>2 DEF Writers
<1> QED
    BY <1>1, <1>2, <1>3 DEF LogState, logging

LEMMA ThreadStep ==
    ASSUME IInv, phase = "up", NEW t \in Thread, UNCHANGED <<process, logging>>,
           OtherStacks(t), CallStep(t), ErrStep(t), HistStep(t), ~Logs(t), ~Logs(t)',
           StackOK(t)', ErrorsOK(t)', IdleOK(t)'
    PROVE  IInv'
<1>1. TypeOK'
    BY StepTypes DEF IInv
<1>2. Loading'
    BY DEF process, Loading
<1>3. ASSUME NEW u \in Thread PROVE StackOK(u)' /\ ErrorsOK(u)' /\ IdleOK(u)'
  <2>1. ops' = ops /\ StackOK(u) /\ ErrorsOK(u) /\ IdleOK(u) /\ TypeOK
    BY DEF process, IInv, Up
  <2> QED
    BY <2>1, OthersSame
<1>4. LogState'
    BY LogSame DEF IInv
<1>5. LogExact'
    BY DEF IInv, logging, LogExact
<1> QED
    BY <1>1, <1>2, <1>3, <1>4, <1>5 DEF IInv, Up

-----------------------------------------------------------------------------
(* What is recorded                                                        *)

\* An entry for f has been added, and errno is e.
Added(t, f, e) ==
    /\ Len(table'[t]) = Len(table[t]) + 1
    /\ \A i \in 1 .. Len(table[t]) : table'[t][i] = table[t][i]
    /\ table'[t][Len(table[t]) + 1].fn = f
    /\ errno'[t] = e
    /\ oom'[t] = oom[t]

\* The functions that add entries.
Recorders == Public \cup Range(Backends)
    \cup {"libefivar_init", "rollback", "generic", "efivarfs_append_variable",
          "efivarfs_set_immutable", "write"}

LEMMA RecordStep ==
    ASSUME TypeOK, NEW t \in Thread, NEW f \in Recorders,
           NEW e \in Code, NEW good \in Code, NEW bad \in Code, Record(t, f, e, good, bad)
    PROVE  /\ ErrStep(t) /\ base' = base
           /\ Added(t, f, good) \/ (oom'[t] /\ errno'[t] = bad)
<1> DEFINE x == [fn |-> f, error |-> e]
           s == Append(table[t], x)
<1>1. /\ table \in [Thread -> Seq(Entry)] /\ table[t] \in Seq(Entry)
      /\ room \in [Thread -> Nat] /\ base \in [Thread -> Nat] /\ Len(table[t]) \in Nat
      /\ errno \in [Thread -> Code] /\ oom \in [Thread -> BOOLEAN]
      /\ base[t] <= Len(table[t]) /\ Len(table[t]) <= room[t]
      /\ base[t] \in Nat /\ room[t] \in Nat
    BY DEF TypeOK
<1>2. x \in Entry /\ x.fn = f
    BY DEF Entry, Recorders
<1> HIDE DEF x
<1>3. /\ s \in Seq(Entry) /\ Len(s) = Len(table[t]) + 1 /\ s[Len(table[t]) + 1] = x
      /\ \A i \in 1 .. Len(table[t]) : s[i] = table[t][i]
    BY <1>1, <1>2
<1>4. CASE /\ table' = [table EXCEPT ![t] = Append(@, [fn |-> f, error |-> e])]
           /\ room' = [room EXCEPT ![t] = RoomFor(Len(table[t]))]
           /\ errno' = [errno EXCEPT ![t] = good]
           /\ UNCHANGED <<base, oom>>
  <2>1. table' = [table EXCEPT ![t] = s]
    BY <1>4 DEF x
  <2> HIDE DEF s
  <2>2. table'[t] = s /\ table' \in [Thread -> Seq(Entry)]
    BY <1>1, <1>3, <2>1
  <2>3. Added(t, f, good)
    BY <1>1, <1>2, <1>3, <1>4, <2>2 DEF Added
  <2>4. ErrStep(t)
    BY <1>1, <1>3, <1>4, <2>1, <2>2 DEF ErrStep, RoomFor
  <2> QED
    BY <1>4, <2>3, <2>4
<1>5. CASE /\ table' = [table EXCEPT ![t] = TableKept(t)]
           /\ \E n \in {room[t], RoomFor(Len(table[t]))} : room' = [room EXCEPT ![t] = n]
           /\ errno' = [errno EXCEPT ![t] = bad]
           /\ oom' = [oom EXCEPT ![t] = TRUE]
           /\ UNCHANGED base
  <2>1. PICK n \in {room[t], RoomFor(Len(table[t]))} : room' = [room EXCEPT ![t] = n]
    BY <1>5
  <2>2. n \in Nat /\ Len(table[t]) <= n
    BY <1>1, <2>1 DEF RoomFor
  <2>3. table' = table
    BY <1>1, <1>5 DEF TableKept
  <2>4. room' \in [Thread -> Nat] /\ room'[t] = n /\ \A u \in Thread \ {t} : room'[u] = room[u]
    BY <1>1, <2>1, <2>2
  <2>5. ErrStep(t)
    BY <1>1, <1>5, <2>2, <2>3, <2>4 DEF ErrStep
  <2>6. oom'[t] /\ errno'[t] = bad
    BY <1>1, <1>5
  <2> QED
    BY <1>5, <2>5, <2>6
<1> QED
    BY <1>4, <1>5 DEF Record

LEMMA ErrSame ==
    ASSUME TypeOK, NEW t \in Thread, UNCHANGED <<table, room, base, oom>>,
           errno' \in [Thread -> Code], \A u \in Thread \ {t} : errno'[u] = errno[u]
    PROVE  ErrStep(t)
BY DEF TypeOK, ErrStep

LEMMA HistSame ==
    ASSUME TypeOK, NEW t \in Thread, UNCHANGED <<cause, origin>>
    PROVE  HistStep(t)
BY DEF TypeOK, HistStep

LEMMA ClearStep ==
    ASSUME TypeOK, NEW t \in Thread, Clear(t), UNCHANGED <<errno, oom>>
    PROVE  ErrStep(t) /\ table'[t] = <<>>
<1>1. table'[t] = <<>> /\ room'[t] = 0 /\ base'[t] = 0 /\ <<>> \in Seq(Entry)
    BY DEF Clear, TypeOK
<1>2. Len(table'[t]) = 0
    BY <1>1
<1> QED
    BY <1>1, <1>2 DEF TypeOK, Clear, ErrStep

LEMMA BlameStep ==
    ASSUME TypeOK, NEW t \in Thread, NEW e \in Code, NEW f \in Origins, Blame(t, e, f)
    PROVE  /\ HistStep(t)
           /\ ~InUpdate(t) => cause'[t] = e /\ origin'[t] = f
           /\ InUpdate(t) => cause' = cause /\ origin' = origin
<1>1. cause \in [Thread -> Code \cup {"none"}] /\ origin \in [Thread -> Origins \cup {"none"}]
    BY DEF TypeOK
<1>2. CASE InUpdate(t)
    BY <1>1, <1>2 DEF HistStep, Blame
<1>3. CASE ~InUpdate(t)
  <2>1. cause' = [cause EXCEPT ![t] = e] /\ origin' = [origin EXCEPT ![t] = f]
    BY <1>3 DEF Blame
  <2> QED
    BY <1>1, <1>3, <2>1 DEF HistStep
<1> QED
    BY <1>2, <1>3

\* What was told before another entry was added still is.
LEMMA RecordKeeps ==
    ASSUME TypeOK, NEW t \in Thread, Told(t), NEW f, ops' = ops, call'[t] = call[t],
           Added(t, f, errno[t]) \/ oom'[t], base' = base,
           UNCHANGED <<cause, origin>>, InUpdate(t) => InUpdate(t)'
    PROVE  Told(t)'
<1>1. CASE InUpdate(t)
    BY <1>1 DEF Told
<1>2. CASE LateErrno(t)
    BY <1>2, SameBackend DEF Told, LateErrno
<1>3. CASE oom'[t]
    BY <1>3 DEF Told
<1>4. CASE oom[t] /\ Added(t, f, errno[t])
    BY <1>4 DEF Told, Added
<1>5. CASE Blamed(t) /\ Added(t, f, errno[t])
  <2>1. Len(table[t]) \in Nat /\ base[t] \in Nat
    BY DEF TypeOK
  <2>2. ASSUME NEW i \in base[t] + 1 .. Len(table[t])
        PROVE  i \in base'[t] + 1 .. Len(table'[t]) /\ table'[t][i] = table[t][i]
    BY <1>5, <2>1 DEF Added
  <2>3. origin[t] # "none" => (\E i \in base[t] + 1 .. Len(table[t]) : table[t][i].fn = origin[t])'
    BY <1>5, <2>2 DEF Blamed
  <2>4. cause'[t] # "none" /\ origin'[t] # "write" => errno'[t] = cause'[t]
    BY <1>5 DEF Blamed, Added
  <2> QED
    BY <2>3, <2>4 DEF Blamed, Told
<1> QED
    BY <1>1, <1>2, <1>3, <1>4, <1>5 DEF Told

\* A failure that is recorded and blamed is told.
LEMMA RecordBlames ==
    ASSUME TypeOK, NEW t \in Thread, NEW e \in Code, NEW f \in Origins, Blame(t, e, f),
           NEW g, g = e \/ f = "write", Added(t, f, g) \/ oom'[t], base' = base,
           InUpdate(t) => InUpdate(t)'
    PROVE  Told(t)'
<1>1. CASE InUpdate(t)
    BY <1>1 DEF Told
<1>2. CASE oom'[t]
    BY <1>2 DEF Told
<1>3. CASE ~InUpdate(t) /\ Added(t, f, g)
  <2>1. Len(table[t]) \in Nat /\ base[t] \in Nat /\ base[t] <= Len(table[t])
    BY DEF TypeOK
  <2>2. Len(table[t]) + 1 \in base'[t] + 1 .. Len(table'[t])
    BY <1>3, <2>1 DEF Added
  <2>3. cause'[t] = e /\ origin'[t] = f
    BY <1>3, BlameStep
  <2> QED
    BY <1>3, <2>2, <2>3 DEF Blamed, Told, Added
<1> QED
    BY <1>1, <1>2, <1>3

-----------------------------------------------------------------------------
(* A function returns, is called, or goes on                               *)

\* Frames below the entry points are of a call of the program.
LEMMA InCall ==
    ASSUME TypeOK, NEW t \in Thread, StackOK(t), stack[t] # <<>>, Top(t).lib # "log"
    PROVE  /\ call[t] \in Public /\ ~Logs(t) /\ ctl[t] # "idle"
           /\ stack[t][1].lib = "public" /\ stack[t][1].fn = call[t]
           /\ Proper(t, Top(t), Len(stack[t]))
           /\ Top(t).lib \in Libs \cup {"generic"} => Len(stack[t]) # 1
<1>1. /\ Len(stack[t]) \in Nat /\ Len(stack[t]) >= 1 /\ Top(t) = stack[t][Len(stack[t])]
      /\ 1 \in 1 .. Len(stack[t]) /\ Len(stack[t]) \in 1 .. Len(stack[t])
    BY TopFacts
<1>2. stack[t][1].lib = "public" /\ stack[t][1].fn = call[t]
    BY <1>1 DEF StackOK
<1>3. Proper(t, Top(t), Len(stack[t])) /\ Proper(t, stack[t][1], 1)
    BY <1>1 DEF StackOK
<1>4. call[t] \in Public
    BY <1>2, <1>3 DEF Proper
<1>5. Top(t).lib \in Libs \cup {"generic"} => Len(stack[t]) # 1
    BY <1>1, <1>2 DEF Libs
<1> QED
    BY <1>2, <1>3, <1>4, <1>5 DEF Logs, StackOK

\* In a call of the program no frame is of the log.
LEMMA NoLog ==
    ASSUME TypeOK', NEW t \in Thread, StackOK(t)', call'[t] \in Public
    PROVE  ~Logs(t)'
<1> SUFFICES ASSUME Logs(t)' PROVE FALSE
    OBVIOUS
<1>1. stack'[t] # <<>> /\ Top(t)'.lib = "log" /\ stack'[t] \in Seq(Frames)
    BY DEF Logs, TypeOK
<1>2. /\ Len(stack'[t]) \in Nat /\ Len(stack'[t]) >= 1 /\ Top(t)' = stack'[t][Len(stack'[t])]
      /\ Len(stack'[t]) \in 1 .. Len(stack'[t])
    BY <1>1, FrontFacts DEF Top, Last
<1>3. Proper(t, Top(t), Len(stack[t]))'
    BY <1>2 DEF StackOK
<1>4. Len(stack'[t]) = 1
    BY <1>1, <1>3 DEF Proper
<1>5. stack'[t][1].lib = "log"
    BY <1>1, <1>2, <1>4
<1>6. call'[t] = "none"
    BY <1>1, <1>5 DEF StackOK
<1> QED
    BY <1>6 DEF Public

LEMMA PoppedLooks ==
    ASSUME TypeOK, NEW t \in Thread, stack[t] # <<>>, Popped(t)
    PROVE  /\ Looking(t)' => Looking(t)
           /\ \A i \in 1 .. Len(stack'[t]) : i \in 1 .. Len(stack[t]) /\ stack'[t][i] = stack[t][i]
           /\ InUpdate(t) /\ Top(t).at \notin {"update", "unlinked"} => InUpdate(t)'
<1> DEFINE n == Len(stack[t])
<1>1. n \in Nat /\ n >= 1 /\ Top(t) = stack[t][n] /\ Len(stack'[t]) = n - 1
    BY TopFacts DEF Popped
<1>2. \A i \in 1 .. n - 1 : i \in 1 .. n /\ stack'[t][i] = stack[t][i]
    BY <1>1 DEF Popped
<1>3. ASSUME NEW i \in 1 .. n, i # n PROVE i \in 1 .. n - 1
    BY <1>1, <1>3
<1> QED
    BY <1>1, <1>2, <1>3 DEF Looking, InUpdate

LEMMA Returns ==
    ASSUME IInv, phase = "up", NEW t \in Thread, stack[t] # <<>>, Top(t).lib # "log",
           NEW v \in {-1, 0, 1}, Pop(t, v), ErrStep(t), HistStep(t),
           UNCHANGED <<process, call, logging>>,
           v < 0 => Told(t)',
           v >= 0 => /\ origin'[t] = origin[t]
                     /\ ctl[t] = "call" \/ rv[t] >= 0 \/ Top(t).fn \notin {"append", "get"},
           origin'[t] # "none" => Backend \in Libs,
           Len(stack[t]) = 1 => IdleOK(t)'
    PROVE  IInv'
<1>1. TypeOK /\ StackOK(t) /\ ErrorsOK(t) /\ ops' = ops
    BY DEF IInv, Up, process
<1>2. /\ Popped(t) /\ OtherStacks(t)
      /\ ctl'[t] = IF Len(stack[t]) = 1 THEN "idle" ELSE "return"
      /\ rv' \in [Thread -> {-1, 0, 1}] /\ rv'[t] = v
      /\ \A u \in Thread \ {t} : rv'[u] = rv[u]
    BY <1>1, PopMoves
<1>3. CallStep(t) /\ call'[t] = call[t]
    BY <1>1, <1>2 DEF CallStep, TypeOK
<1>4. StackOK(t)'
    BY <1>1, <1>2, <1>3, PopStack
<1>5. ErrorsOK(t)'
  <2>1. origin'[t] # "none" => Backend' \in Libs
    BY <1>1, SameBackend
  <2>2. ctl'[t] # "call" /\ (ctl'[t] = "return" /\ rv'[t] < 0 => Told(t)')
    BY <1>2
  <2>3. Looking(t)' => \A i \in 1 .. Len(stack'[t]) : stack'[t][i].fn \in {"append", "get"}
    BY <1>1, <1>2, PoppedLooks DEF ErrorsOK
  <2>4. Looking(t)' /\ rv'[t] >= 0 => origin'[t] = "none"
    <3>1. SUFFICES ASSUME Looking(t)', v >= 0 PROVE origin[t] = "none"
      BY <1>2
    <3>2. Looking(t)
      BY <1>1, <1>2, <3>1, PoppedLooks
    <3>3. Top(t).fn \in {"append", "get"}
      <4>1. Len(stack[t]) \in 1 .. Len(stack[t]) /\ Top(t) = stack[t][Len(stack[t])]
        BY <1>1, TopFacts
      <4> QED
        BY <1>1, <3>2, <4>1 DEF ErrorsOK
    <3> QED
      BY <1>1, <3>1, <3>2, <3>3 DEF ErrorsOK
  <2> QED
    BY <2>1, <2>2, <2>3, <2>4 DEF ErrorsOK
<1>6. IdleOK(t)'
    BY <1>2 DEF IdleOK
<1>7. call[t] \in Public /\ ~Logs(t)
    BY <1>1, InCall
<1>8. TypeOK'
    BY <1>1, <1>2, <1>3, StepTypes
<1>9. ~Logs(t)'
    BY <1>3, <1>4, <1>7, <1>8, NoLog
<1> QED
    BY <1>2, <1>3, <1>4, <1>5, <1>6, <1>7, <1>9, ThreadStep

LEMMA CalledLooks ==
    ASSUME TypeOK, NEW t \in Thread, StackOK(t), stack[t] # <<>>, NEW g, NEW f,
           Called(t, g, f), f.at = "start", g.lib = Top(t).lib,
           ~(g.lib = "generic" /\ g.at = "got")
    PROVE  Looking(t)' => Looking(t) /\ Top(t).lib # "generic"
<1> DEFINE n == Len(stack[t])
<1>1. n \in Nat /\ n >= 1 /\ Top(t) = stack[t][n] /\ Len(stack'[t]) = n + 1 /\ n \in 1 .. n
    BY TopFacts DEF Called
<1>2. SUFFICES ASSUME Looking(t)' PROVE Looking(t) /\ Top(t).lib # "generic"
    OBVIOUS
<1>3. PICK i \in 1 .. n + 1 : stack'[t][i].lib = "generic" /\ stack'[t][i].at = "got"
    BY <1>1, <1>2 DEF Looking
<1>4. i # n + 1 /\ i # n
    BY <1>3 DEF Called
<1>5. i \in 1 .. n - 1 /\ i \in 1 .. n /\ stack[t][i].lib = "generic" /\ stack[t][i].at = "got"
  <2>1. i \in 1 .. n - 1 /\ i \in 1 .. n
    BY <1>1, <1>4
  <2> QED
    BY <1>3, <2>1 DEF Called
<1>6. i = 2
    BY <1>5 DEF StackOK, Proper
<1>7. Top(t).lib = "generic" => n = 2
    BY <1>1 DEF StackOK, Proper
<1> QED
    BY <1>1, <1>5, <1>6, <1>7 DEF Looking

LEMMA Calls ==
    ASSUME IInv, phase = "up", NEW t \in Thread, stack[t] # <<>>, Top(t).lib # "log",
           NEW g, NEW f, Called(t, g, f), OtherStacks(t), ctl'[t] = "call",
           g.lib = Top(t).lib, g.fn = Top(t).fn, g.at = "unlinked" => g.rc \in {0, -1},
           f.at = "start", Proper(t, f, Len(stack[t]) + 1),
           ErrStep(t), HistStep(t), UNCHANGED <<process, call, rv, logging>>,
           origin'[t] # "none" => Backend \in Libs,
           f.fn = "chmod" => cause'[t] = "none" /\ origin'[t] = "none",
           f.fn = "append" => origin'[t] = "none",
           Looking(t)' => /\ origin'[t] = "none" /\ f.fn \in {"append", "get"}
                          /\ \A i \in 1 .. Len(stack[t]) : stack[t][i].fn \in {"append", "get"}
    PROVE  IInv'
<1> DEFINE n == Len(stack[t])
<1>1. TypeOK /\ StackOK(t) /\ ErrorsOK(t) /\ ops' = ops /\ call'[t] = call[t]
    BY DEF IInv, Up, process
<1>2. /\ n \in Nat /\ n >= 1 /\ Top(t) = stack[t][n] /\ Len(stack'[t]) = n + 1
      /\ Top(t)' = f /\ call[t] \in Public /\ ~Logs(t)
  <2>1. n \in Nat /\ n >= 1 /\ Top(t) = stack[t][n] /\ Len(stack'[t]) = n + 1
    BY <1>1, TopFacts DEF Called
  <2>2. Top(t)' = f
    BY <2>1 DEF Called, Top, Last
  <2> QED
    BY <1>1, <2>1, <2>2, InCall
<1>3. StackOK(t)'
    BY <1>1, <1>2, CallStack
<1>4. CallStep(t)
    BY <1>1 DEF CallStep, TypeOK
<1>5. ErrorsOK(t)'
  <2>1. ASSUME Looking(t)', NEW i \in 1 .. Len(stack'[t])
        PROVE  stack'[t][i].fn \in {"append", "get"}
    <3>1. CASE i \in 1 .. n - 1
      <4>1. stack'[t][i] = stack[t][i]
        BY <3>1 DEF Called
      <4>2. i \in 1 .. Len(stack[t])
        BY <1>2, <3>1
      <4> QED
        BY <2>1, <4>1, <4>2
    <3>2. CASE i = n
      BY <1>2, <2>1, <3>2 DEF Called
    <3>3. CASE i = n + 1
      BY <1>2, <2>1, <3>3 DEF Called
    <3> QED
      BY <1>2, <3>1, <3>2, <3>3
  <2>2. origin'[t] # "none" => Backend' \in Libs
    BY <1>1, SameBackend
  <2> QED
    BY <1>2, <2>1, <2>2 DEF ErrorsOK
<1>6. IdleOK(t)'
    BY DEF IdleOK
<1>7. TypeOK'
    BY <1>1, <1>4, StepTypes
<1>8. ~Logs(t)'
    BY <1>1, <1>2, <1>3, <1>7, NoLog
<1> QED
    BY <1>2, <1>3, <1>4, <1>5, <1>6, <1>8, ThreadStep

LEMMA MovedLooks ==
    ASSUME TypeOK, NEW t \in Thread, StackOK(t), ErrorsOK(t), stack[t] # <<>>, NEW g,
           Moved(t, g), g.at # "got",
           Top(t).fn \notin {"append", "get"} \/ Top(t).lib = "generic"
    PROVE  ~Looking(t)'
<1> DEFINE n == Len(stack[t])
<1>1. n \in Nat /\ n >= 1 /\ Top(t) = stack[t][n] /\ Len(stack'[t]) = n /\ n \in 1 .. n
    BY TopFacts DEF Moved
<1>2. SUFFICES ASSUME Looking(t)' PROVE FALSE
    OBVIOUS
<1>3. PICK i \in 1 .. n : stack'[t][i].lib = "generic" /\ stack'[t][i].at = "got"
    BY <1>1, <1>2 DEF Looking
<1>4. i # n
    BY <1>3 DEF Moved
<1>5. i \in 1 .. n - 1 /\ stack[t][i].lib = "generic" /\ stack[t][i].at = "got"
  <2>1. i \in 1 .. n - 1
    BY <1>1, <1>4
  <2> QED
    BY <1>3, <2>1 DEF Moved
<1>6. i = 2
    BY <1>5 DEF StackOK, Proper
<1>7. Top(t).lib = "generic" => n = 2
    BY <1>1 DEF StackOK, Proper
<1>8. Looking(t)
    BY <1>5 DEF Looking
<1>9. Top(t).fn \in {"append", "get"}
    BY <1>1, <1>8 DEF ErrorsOK
<1> QED
    BY <1>1, <1>5, <1>6, <1>7, <1>9

LEMMA MovedUpdates ==
    ASSUME TypeOK, NEW t \in Thread, stack[t] # <<>>, NEW g, Moved(t, g),
           InUpdate(t), Top(t).at \notin {"update", "unlinked"}
    PROVE  InUpdate(t)'
<1> DEFINE n == Len(stack[t])
<1>1. n \in Nat /\ n >= 1 /\ Top(t) = stack[t][n] /\ Len(stack'[t]) = n
    BY TopFacts DEF Moved
<1>2. PICK i \in 1 .. n : stack[t][i].at \in {"update", "unlinked"}
    BY DEF InUpdate
<1>3. i \in 1 .. n - 1
    BY <1>1, <1>2
<1> QED
    BY <1>1, <1>2, <1>3 DEF InUpdate, Moved

LEMMA GoesOn ==
    ASSUME IInv, phase = "up", NEW t \in Thread, stack[t] # <<>>, Top(t).lib # "log",
           NEW l \in Labels \ {"got", "start", "unlinked"},
           stack' = [stack EXCEPT ![t][Len(stack[t])].at = l],
           ctl' \in [Thread -> {"idle", "call", "return"}], ctl'[t] # "idle",
           \A u \in Thread \ {t} : ctl'[u] = ctl[u],
           ErrStep(t), HistStep(t), UNCHANGED <<process, call, rv, logging>>,
           origin'[t] # "none" => Backend \in Libs,
           Top(t).fn \in {"set", "del"} \/ Top(t).lib = "generic",
           Top(t).fn # "chmod",
           ctl'[t] = "call" /\ l = "rollback" => Told(t)',
           ctl'[t] = "return" /\ rv[t] < 0 => Told(t)'
    PROVE  IInv'
<1> DEFINE n == Len(stack[t])
           g == [Top(t) EXCEPT !.at = l]
<1>1. TypeOK /\ StackOK(t) /\ ErrorsOK(t) /\ ops' = ops /\ call'[t] = call[t]
    BY DEF IInv, Up, process
<1>2. /\ n \in Nat /\ n >= 1 /\ Top(t) \in Frames /\ call[t] \in Public /\ ~Logs(t)
    BY <1>1, TopFacts, InCall
<1>3. /\ Moved(t, g) /\ stack' \in [Thread -> Seq(Frames)]
      /\ \A u \in Thread \ {t} : stack'[u] = stack[u]
    BY <1>1, GotoMoves
<1>4. g.at = l /\ g.fn = Top(t).fn /\ g.lib = Top(t).lib /\ g.rc = Top(t).rc
    BY <1>2, FrameSet
<1> HIDE DEF g
<1>5. OtherStacks(t) /\ Top(t)' = g
    BY <1>2, <1>3 DEF OtherStacks, Moved, Top, Last
<1>6. StackOK(t)'
    BY <1>1, <1>3, <1>4, <1>5, MoveStack DEF OtherStacks
<1>7. CallStep(t)
    BY <1>1 DEF CallStep, TypeOK
<1>8. ~Looking(t)'
    BY <1>1, <1>3, <1>4, MovedLooks
<1>9. ErrorsOK(t)'
  <2>1. origin'[t] # "none" => Backend' \in Libs
    BY <1>1, SameBackend
  <2> QED
    BY <1>4, <1>5, <1>8, <2>1 DEF ErrorsOK
<1>10. IdleOK(t)'
    BY DEF IdleOK
<1>11. TypeOK'
    BY <1>1, <1>5, <1>7, StepTypes
<1>12. ~Logs(t)'
    BY <1>1, <1>2, <1>6, <1>11, NoLog
<1> QED
    BY <1>2, <1>5, <1>6, <1>7, <1>9, <1>10, <1>12, ThreadStep

-----------------------------------------------------------------------------
(* The functions of the backends that end without calling an entry point   *)

LEMMA Names ==
    /\ Errno \subseteq Code /\ {"0", "EINVAL", "ENOSYS", "ENOMEM"} \subseteq Code
    /\ Libs \subseteq Range(Backends) /\ Range(Backends) \subseteq Recorders
    /\ Public \subseteq Recorders
    /\ {"rollback", "generic", "efivarfs_append_variable", "efivarfs_set_immutable",
        "libefivar_init"} \subseteq Recorders
    /\ Origins \subseteq Recorders /\ Range(Backends) \subseteq Origins /\ "write" \in Origins
BY BackendsFacts DEF Code, Libs, Recorders, Origins

\* The thread is in a function of the library.
Inside(t) == phase = "up" /\ stack[t] # <<>> /\ Top(t).lib \in Libs \cup {"generic", "public"}

LEMMA InsideFacts ==
    ASSUME IInv, NEW t \in Thread, Inside(t)
    PROVE  /\ TypeOK /\ StackOK(t) /\ ErrorsOK(t) /\ Top(t) \in Frames
           /\ phase = "up" /\ stack[t] # <<>> /\ Top(t).lib # "log"
           /\ call[t] \in Public /\ Proper(t, Top(t), Len(stack[t]))
           /\ Top(t).lib \in Libs \cup {"generic"} => Len(stack[t]) # 1
           /\ Top(t).lib \in Libs => Backend = Top(t).lib
           /\ origin[t] # "none" => Backend \in Libs
           /\ errno[t] \in Code /\ rv[t] \in {-1, 0, 1}
           /\ ctl[t] = "return" /\ rv[t] < 0 => Told(t)
<1>1. /\ TypeOK /\ StackOK(t) /\ ErrorsOK(t) /\ phase = "up" /\ stack[t] # <<>>
      /\ Top(t).lib # "log"
    BY DEF Inside, IInv, Up, Libs
<1>2. Top(t) \in Frames
    BY <1>1, TopFacts
<1>3. /\ call[t] \in Public /\ Proper(t, Top(t), Len(stack[t]))
      /\ Top(t).lib \in Libs \cup {"generic"} => Len(stack[t]) # 1
    BY <1>1, InCall
<1>4. Top(t).lib \in Libs => Backend = Top(t).lib
    BY <1>3 DEF Proper, Libs
<1> QED
    BY <1>1, <1>2, <1>3, <1>4 DEF ErrorsOK, TypeOK

\* Once the function has returned its caller is still in efi_update_var_file.
LEMMA PopUpdates ==
    ASSUME TypeOK, NEW t \in Thread, stack[t] # <<>>, NEW v \in {-1, 0, 1}, Pop(t, v),
           Top(t).at \notin {"update", "unlinked"}
    PROVE  InUpdate(t) => InUpdate(t)'
BY PopMoves, PoppedLooks

LEMMA LeafSucceedsKeeps ==
    ASSUME IInv, NEW t \in Thread, LeafSucceeds(t)
    PROVE  IInv'
<1>1. Inside(t) /\ ctl[t] = "call" /\ Top(t).lib \in Libs
    BY DEF LeafSucceeds, Inside, Started, At, Libs
<1>2. ErrStep(t)
  <2>1. CASE UNCHANGED <<errno, table, room, base, oom>>
    BY <1>1, <2>1, InsideFacts, ErrSame DEF TypeOK
  <2>2. CASE \E e \in Errno : Efi_error(t, "next", e)
    <3>1. PICK e \in Errno : Efi_error(t, "next", e)
      BY <2>2
    <3>2. "next" \in Recorders /\ e \in Code /\ "ENOMEM" \in Code
      BY Names DEF Public
    <3> QED
      BY <1>1, <3>1, <3>2, InsideFacts, RecordStep DEF Efi_error
  <2>3. CASE Record(t, "chmod", "0", "0", "0")
    <3>1. "chmod" \in Recorders /\ "0" \in Code
      BY Names DEF Public
    <3> QED
      BY <1>1, <2>3, <3>1, InsideFacts, RecordStep
  <2> QED
    BY <2>1, <2>2, <2>3 DEF LeafSucceeds
<1>3. PICK v \in {0, 1} : Pop(t, v)
    BY DEF LeafSucceeds
<1>4. HistStep(t) /\ UNCHANGED <<process, call, logging>> /\ origin' = origin
    BY <1>1, InsideFacts, HistSame DEF LeafSucceeds
<1> QED
    BY <1>1, <1>2, <1>3, <1>4, InsideFacts, Returns

\* A leaf that fails: its failure is recorded and blamed, and errno is that of
\* the failure, unless it is write() that failed.
LEMMA FailedLeaf ==
    ASSUME IInv, NEW t \in Thread, Inside(t), Top(t).lib \in Libs,
           Top(t).at \notin {"update", "unlinked"},
           NEW f \in Origins, NEW e \in Code, NEW x \in Code, NEW g \in Code, NEW bad \in Code,
           Record(t, f, x, g, bad), Blame(t, e, f), g = e \/ f = "write",
           Pop(t, -1), UNCHANGED <<process, call, logging>>
    PROVE  IInv'
<1>1. f \in Recorders /\ TypeOK
    BY Names, InsideFacts
<1>2. ErrStep(t) /\ base' = base /\ (Added(t, f, g) \/ oom'[t])
    BY <1>1, RecordStep
<1>3. HistStep(t)
    BY <1>1, BlameStep
<1>4. InUpdate(t) => InUpdate(t)'
    BY InsideFacts, PopUpdates
<1>5. Told(t)'
    BY <1>1, <1>2, <1>4, RecordBlames
<1>6. Backend \in Libs
    BY InsideFacts
<1> QED
    BY <1>2, <1>3, <1>5, <1>6, InsideFacts, Returns

LEMMA LeafFailsKeeps ==
    ASSUME IInv, NEW t \in Thread, LeafFails(t)
    PROVE  IInv'
<1>1. Inside(t) /\ Top(t).lib \in Libs /\ Top(t).at \in {"start", "write"}
    BY DEF LeafFails, Inside, Started, At, Libs
<1>2. PICK e \in Errno : Efi_error(t, Top(t).lib, e) /\ Blame(t, e, Top(t).lib)
    BY DEF LeafFails
<1>3. e \in Code /\ "ENOMEM" \in Code /\ Top(t).lib \in Origins
    BY <1>1, Names
<1>4. Pop(t, -1) /\ UNCHANGED <<process, call, logging>>
    BY DEF LeafFails
<1> QED
    BY <1>1, <1>2, <1>3, <1>4, FailedLeaf DEF Efi_error

LEMMA LeafRefusesKeeps ==
    ASSUME IInv, NEW t \in Thread, LeafRefuses(t)
    PROVE  IInv'
<1>1. Inside(t) /\ Top(t).lib = "vars" /\ Top(t).lib \in Libs /\ Top(t).at = "start"
    BY DEF LeafRefuses, Inside, Started, At, Libs
<1>2. "EINVAL" \in Code /\ errno[t] \in Code /\ Top(t).lib \in Origins
    BY <1>1, Names, InsideFacts
<1>3. /\ Record(t, Top(t).lib, errno[t], "EINVAL", "EINVAL") /\ Blame(t, "EINVAL", Top(t).lib)
      /\ Pop(t, -1) /\ UNCHANGED <<process, call, logging>>
    BY <1>1 DEF LeafRefuses
<1> QED
    BY <1>1, <1>2, <1>3, FailedLeaf

LEMMA ChmodFailsKeeps ==
    ASSUME IInv, NEW t \in Thread, ChmodFails(t)
    PROVE  IInv'
<1>1. Inside(t) /\ Top(t).lib \in Libs /\ Top(t).at = "start"
    BY DEF ChmodFails, Inside, Started, At, Libs
<1>2. PICK e \in Errno : Record(t, Top(t).lib, e, e, e) /\ Blame(t, e, Top(t).lib)
    BY DEF ChmodFails
<1>3. e \in Code /\ Top(t).lib \in Origins
    BY <1>1, Names
<1>4. Pop(t, -1) /\ UNCHANGED <<process, call, logging>>
    BY DEF ChmodFails
<1> QED
    BY <1>1, <1>2, <1>3, <1>4, FailedLeaf

\* A function that sets errno, if anything, and says nothing.
LEMMA SilentLeaf ==
    ASSUME IInv, NEW t \in Thread, Inside(t), Top(t).lib # "public",
           UNCHANGED <<table, room, base, oom, origin>>, origin[t] = "none",
           \/ UNCHANGED <<errno, cause>> /\ cause[t] = "none"
           \/ /\ errno' = [errno EXCEPT ![t] = "EINVAL"]
              /\ cause' = [cause EXCEPT ![t] = "EINVAL"],
           Pop(t, -1), UNCHANGED <<process, call, logging>>
    PROVE  IInv'
<1>1. /\ errno \in [Thread -> Code] /\ cause \in [Thread -> Code \cup {"none"}]
      /\ origin \in [Thread -> Origins \cup {"none"}] /\ "EINVAL" \in Code /\ TypeOK
    BY InsideFacts, Names DEF TypeOK
<1>2. errno' \in [Thread -> Code] /\ \A u \in Thread \ {t} : errno'[u] = errno[u]
    BY <1>1
<1>3. /\ cause' \in [Thread -> Code \cup {"none"}]
      /\ \A u \in Thread \ {t} : cause'[u] = cause[u]
    BY <1>1
<1>4. ErrStep(t) /\ HistStep(t)
    BY <1>1, <1>2, <1>3, ErrSame DEF HistStep
<1>5. cause'[t] # "none" => errno'[t] = cause'[t]
    BY <1>1
<1>6. Told(t)' /\ origin'[t] = "none"
    BY <1>5 DEF Told, Blamed
<1>7. Len(stack[t]) # 1
    BY InsideFacts DEF Inside
<1> QED
    BY <1>4, <1>6, <1>7, InsideFacts, Returns

LEMMA ChmodSilentKeeps ==
    ASSUME IInv, NEW t \in Thread, ChmodSilent(t)
    PROVE  IInv'
<1>1. /\ Inside(t) /\ Top(t).lib \in Libs /\ Top(t).lib # "public"
      /\ Top(t).fn = "chmod" /\ ctl[t] = "call"
    BY DEF ChmodSilent, Inside, Started, At, Libs
<1>2. cause[t] = "none" /\ origin[t] = "none"
    BY <1>1, InsideFacts DEF ErrorsOK
<1> QED
    BY <1>1, <1>2, SilentLeaf DEF ChmodSilent

-----------------------------------------------------------------------------
(* The functions that call entry points of the library                     *)

LEMMA FrameFacts ==
    ASSUME NEW lib \in Range(Backends) \cup {"public", "generic", "NULL", "log", "probe"},
           NEW fn \in Public \cup Range(Backends) \cup {"log", "mark"}
    PROVE  /\ Frame(lib, fn) \in Frames /\ Frame(lib, fn).lib = lib /\ Frame(lib, fn).fn = fn
           /\ Frame(lib, fn).at = "start" /\ Frame(lib, fn).rc = 0
BY BackendsFacts DEF Frame, Frames, Labels

\* The function below has failed, and the caller fails with it.
LEMMA FailedBelow ==
    ASSUME IInv, NEW t \in Thread, Inside(t), ctl[t] = "return", rv[t] < 0,
           Top(t).lib # "public", Top(t).at \notin {"update", "unlinked"},
           NEW f \in Recorders, Efi_error(t, f, errno[t]),
           Pop(t, -1), UNCHANGED <<process, call, cause, origin, logging>>
    PROVE  IInv'
<1>1. TypeOK /\ Told(t) /\ errno[t] \in Code /\ "ENOMEM" \in Code
    BY InsideFacts, Names
<1>2. ErrStep(t) /\ base' = base /\ (Added(t, f, errno[t]) \/ oom'[t])
    BY <1>1, RecordStep DEF Efi_error
<1>3. InUpdate(t) => InUpdate(t)'
    BY InsideFacts, PopUpdates
<1>4. ops' = ops /\ call'[t] = call[t]
    BY DEF process
<1>5. Told(t)'
    BY <1>1, <1>2, <1>3, <1>4, RecordKeeps
<1>6. HistStep(t) /\ Len(stack[t]) # 1
    BY InsideFacts, HistSame DEF Inside
<1> QED
    BY <1>2, <1>5, <1>6, InsideFacts, Returns

LEMMA SucceededBelow ==
    ASSUME IInv, NEW t \in Thread, Inside(t), Top(t).lib # "public", NEW v \in {0, 1}, Pop(t, v),
           ctl[t] = "call" \/ rv[t] >= 0 \/ Top(t).fn \notin {"append", "get"},
           UNCHANGED <<errno, table, room, base, oom>>,
           UNCHANGED <<process, call, cause, origin, logging>>
    PROVE  IInv'
<1>1. ErrStep(t) /\ HistStep(t) /\ Len(stack[t]) # 1
  <2>1. TypeOK /\ Len(stack[t]) # 1
    BY InsideFacts DEF Inside
  <2>2. errno' \in [Thread -> Code]
    BY <2>1 DEF TypeOK
  <2> QED
    BY <2>1, <2>2, ErrSame, HistSame
<1> QED
    BY <1>1, InsideFacts, Returns

LEMMA CallsQuietly ==
    ASSUME IInv, NEW t \in Thread, Inside(t), NEW l \in Labels \ {"unlinked"},
           NEW f \in Frames, CallAt(t, l, f), f.at = "start", Proper(t, f, Len(stack[t]) + 1),
           UNCHANGED <<process, rv, errno, table, room, base, calls, logging>>,
           f.fn = "chmod" => cause[t] = "none" /\ origin[t] = "none",
           f.fn = "append" => origin[t] = "none",
           Looking(t)' => /\ origin[t] = "none" /\ f.fn \in {"append", "get"}
                          /\ \A i \in 1 .. Len(stack[t]) : stack[t][i].fn \in {"append", "get"}
    PROVE  IInv'
<1> DEFINE g == [Top(t) EXCEPT !.at = l]
<1>1. TypeOK /\ Top(t) \in Frames /\ stack[t] # <<>>
    BY InsideFacts
<1>2. Called(t, g, f) /\ OtherStacks(t) /\ ctl'[t] = "call"
    BY <1>1, CallAtMoves
<1>3. g.lib = Top(t).lib /\ g.fn = Top(t).fn /\ g.at = l
    BY <1>1, FrameSet
<1> HIDE DEF g
<1>4. ErrStep(t) /\ HistStep(t) /\ UNCHANGED <<call, cause, origin>>
  <2>1. errno' \in [Thread -> Code] /\ UNCHANGED <<call, cause, origin, oom>>
    BY <1>1 DEF TypeOK, calls
  <2> QED
    BY <1>1, <2>1, ErrSame, HistSame
<1> QED
    BY <1>2, <1>3, <1>4, InsideFacts, Calls

\* An entry point is called where generic_append_variable does not look.
LEMMA CallsPublic ==
    ASSUME IInv, NEW t \in Thread, Inside(t), NEW l \in Labels \ {"unlinked"},
           Top(t).lib # "public",
           NEW fn \in Public \ {"chmod", "append"}, CallAt(t, l, Frame("public", fn)),
           fn = "del" => Backend # "efivarfs",
           Top(t).lib = "generic" => l # "got",
           Top(t).lib # "generic" => Top(t).fn \notin {"append", "get"} \/ Backend = "efivarfs",
           UNCHANGED <<process, rv, errno, table, room, base, calls, logging>>
    PROVE  IInv'
<1> DEFINE f == Frame("public", fn)
           g == [Top(t) EXCEPT !.at = l]
<1>1. /\ TypeOK /\ StackOK(t) /\ ErrorsOK(t) /\ Top(t) \in Frames /\ stack[t] # <<>>
    BY InsideFacts
<1>2. f \in Frames /\ f.lib = "public" /\ f.fn = fn /\ f.at = "start" /\ f.rc = 0
    BY FrameFacts
<1>3. Called(t, g, f)
    BY <1>1, <1>2, CallAtMoves
<1>4. g.lib = Top(t).lib /\ g.fn = Top(t).fn /\ g.at = l
    BY <1>1, FrameSet
<1> HIDE DEF g, f
<1>5. Proper(t, f, Len(stack[t]) + 1)
    BY <1>2 DEF Proper
<1>6. ~Looking(t)'
  <2>1. SUFFICES ASSUME Looking(t)' PROVE FALSE
    OBVIOUS
  <2>2. Looking(t) /\ Top(t).lib # "generic"
    BY <1>1, <1>2, <1>3, <1>4, <2>1, CalledLooks
  <2>3. Backend # "efivarfs"
    BY <1>1, <2>2 DEF Looking, StackOK, Proper
  <2>4. Top(t).fn \in {"append", "get"}
    <3>1. Len(stack[t]) \in 1 .. Len(stack[t]) /\ Top(t) = stack[t][Len(stack[t])]
      BY <1>1, TopFacts
    <3> QED
      BY <1>1, <2>2, <3>1 DEF ErrorsOK
  <2> QED
    BY <2>2, <2>3, <2>4
<1>7. CallAt(t, l, f) /\ f.fn # "chmod" /\ f.fn # "append"
    BY <1>2 DEF f
<1> QED
    BY <1>2, <1>5, <1>6, <1>7, CallsQuietly

LEMMA AttrsKeeps ==
    ASSUME IInv, NEW t \in Thread, Attrs(t)
    PROVE  IInv'
<1>1. Inside(t) /\ Top(t).lib \in Libs /\ Top(t).fn = "attrs"
    BY DEF Attrs, Inside, Started, At, Libs
<1>2. "get" \in Public \ {"chmod", "append"} /\ "got" \in Labels \ {"unlinked"}
    BY DEF Public, Labels
<1>3. Top(t).lib # "public" /\ Top(t).lib # "generic"
    BY <1>1 DEF Libs
<1> QED
    BY <1>1, <1>2, <1>3, CallsPublic DEF Attrs

LEMMA AttrsDoneKeeps ==
    ASSUME IInv, NEW t \in Thread, AttrsDone(t)
    PROVE  IInv'
<1>1. /\ Inside(t) /\ Top(t).lib \in Libs /\ Top(t).lib # "public"
      /\ Top(t).at = "got" /\ ctl[t] = "return"
    BY DEF AttrsDone, Inside, Returned, At, Libs
<1>2. rv[t] \in {-1, 0, 1} /\ Top(t).lib \in Recorders
    BY <1>1, Names, InsideFacts
<1>3. CASE rv[t] < 0
  <2>1. rv[t] = -1
    BY <1>2, <1>3
  <2> QED
    BY <1>1, <1>2, <1>3, <2>1, FailedBelow DEF AttrsDone
<1>4. CASE rv[t] >= 0
  <2>1. rv[t] \in {0, 1}
    BY <1>2, <1>4
  <2> QED
    BY <1>1, <1>4, <2>1, SucceededBelow DEF AttrsDone
<1> QED
    BY <1>2, <1>3, <1>4

LEMMA FsAppendKeeps ==
    ASSUME IInv, NEW t \in Thread, FsAppend(t)
    PROVE  IInv'
<1> DEFINE f == Frame("efivarfs", "set")
<1>1. Inside(t) /\ Top(t).lib = "efivarfs" /\ Top(t).fn = "append"
    BY DEF FsAppend, Inside, Started, At, Libs
<1>2. Backend = "efivarfs" /\ TypeOK /\ StackOK(t) /\ Top(t) \in Frames /\ stack[t] # <<>>
    BY <1>1, InsideFacts DEF Libs
<1>3. f \in Frames /\ f.lib = "efivarfs" /\ f.fn = "set" /\ f.at = "start" /\ f.rc = 0
    BY FrameFacts, BackendsFacts DEF Public
<1>4. Called(t, [Top(t) EXCEPT !.at = "did"], f)
    BY <1>2, <1>3, CallAtMoves DEF FsAppend, Labels
<1>5. [Top(t) EXCEPT !.at = "did"].lib = "efivarfs"
    BY <1>1, <1>2, FrameSet DEF Labels
<1> HIDE DEF f
<1>6. Proper(t, f, Len(stack[t]) + 1)
    BY <1>2, <1>3 DEF Proper
<1>7. ~Looking(t)'
  <2>1. ~Looking(t)
    BY <1>2 DEF Looking, StackOK, Proper
  <2> QED
    BY <1>1, <1>2, <1>3, <1>4, <1>5, <2>1, CalledLooks
<1> QED
    BY <1>1, <1>3, <1>6, <1>7, CallsQuietly DEF FsAppend, f, Labels

LEMMA FsAppendDoneKeeps ==
    ASSUME IInv, NEW t \in Thread, FsAppendDone(t)
    PROVE  IInv'
<1>1. Inside(t) /\ Top(t).lib = "efivarfs" /\ Top(t).at = "did" /\ ctl[t] = "return"
    BY DEF FsAppendDone, Inside, Returned, At, Libs
<1>2. rv[t] \in {-1, 0, 1} /\ "efivarfs_append_variable" \in Recorders
    BY <1>1, Names, InsideFacts
<1>3. CASE rv[t] < 0
  <2>1. rv[t] = -1
    BY <1>2, <1>3
  <2> QED
    BY <1>1, <1>2, <1>3, <2>1, FailedBelow DEF FsAppendDone
<1>4. CASE rv[t] >= 0
  <2>1. rv[t] \in {0, 1}
    BY <1>2, <1>4
  <2> QED
    BY <1>1, <1>4, <2>1, SucceededBelow DEF FsAppendDone
<1> QED
    BY <1>2, <1>3, <1>4

LEMMA ToldSame ==
    ASSUME TypeOK, NEW t \in Thread, Told(t), ops' = ops, call'[t] = call[t],
           UNCHANGED <<errno, table, base, oom, cause, origin>>, InUpdate(t) => InUpdate(t)'
    PROVE  Told(t)'
<1>1. LateErrno(t)' <=> LateErrno(t)
    BY SameBackend DEF LateErrno
<1>2. Blamed(t)' <=> Blamed(t)
    BY DEF Blamed
<1> QED
    BY <1>1, <1>2 DEF Told

LEMMA JumpsTo ==
    ASSUME IInv, NEW t \in Thread, Inside(t),
           NEW l \in Labels \ {"got", "start", "unlinked"}, Goto(t, l),
           ErrStep(t), HistStep(t), UNCHANGED <<process, call, rv, logging>>,
           origin'[t] # "none" => Backend \in Libs,
           Top(t).fn \in {"set", "del"}, l = "rollback" => Told(t)'
    PROVE  IInv'
<1>1. /\ ctl' \in [Thread -> {"idle", "call", "return"}] /\ ctl'[t] = "call"
      /\ \A u \in Thread \ {t} : ctl'[u] = ctl[u]
    BY InsideFacts DEF Goto, TypeOK
<1>2. stack' = [stack EXCEPT ![t][Len(stack[t])].at = l]
    BY DEF Goto
<1> QED
    BY <1>1, <1>2, InsideFacts, GoesOn

LEMMA FsSetKeeps ==
    ASSUME IInv, NEW t \in Thread, FsSet(t)
    PROVE  IInv'
<1>1. Inside(t) /\ Top(t).lib = "efivarfs" /\ Top(t).fn = "set" /\ Top(t).at = "start"
    BY DEF FsSet, Inside, Started, At, Libs
<1>2. /\ Backend = "efivarfs" /\ TypeOK /\ stack[t] # <<>>
      /\ "efivarfs" \in Libs /\ "efivarfs" \in Origins /\ "efivarfs" \in Recorders
    BY <1>1, InsideFacts, Names, BackendsFacts DEF Libs
<1>3. CASE /\ CallAt(t, "update", Frame("public", "get"))
           /\ UNCHANGED <<rv, errno, table, room, base, cause, origin, oom>>
  <2>1. "get" \in Public \ {"chmod", "append"} /\ "update" \in Labels \ {"unlinked"}
    BY DEF Public, Labels
  <2>2. UNCHANGED <<process, rv, errno, table, room, base, calls, logging>>
    BY <1>3 DEF FsSet, calls
  <2> QED
    BY <1>1, <1>2, <1>3, <2>1, <2>2, CallsPublic
<1>4. ASSUME NEW e \in Errno, Efi_error(t, "efivarfs", e), Blame(t, e, "efivarfs"),
             Goto(t, "rollback"), UNCHANGED rv
      PROVE  IInv'
  <2>1. e \in Code /\ "ENOMEM" \in Code
    BY Names
  <2>2. ErrStep(t) /\ base' = base /\ (Added(t, "efivarfs", e) \/ oom'[t])
    BY <1>2, <1>4, <2>1, RecordStep DEF Efi_error
  <2>3. HistStep(t)
    BY <1>2, <1>4, <2>1, BlameStep
  <2>4. "rollback" \in Labels \ {"got", "start", "unlinked"}
    BY DEF Labels
  <2>5. InUpdate(t) => InUpdate(t)'
    BY <1>1, <1>2, <1>4, <2>4, GotoMoves, MovedUpdates DEF Goto
  <2>6. Told(t)'
    BY <1>2, <1>4, <2>1, <2>2, <2>5, RecordBlames
  <2> QED
    BY <1>1, <1>2, <1>4, <2>2, <2>3, <2>4, <2>6, JumpsTo DEF FsSet
<1> QED
    BY <1>3, <1>4 DEF FsSet

LEMMA FsSetDoneKeeps ==
    ASSUME IInv, NEW t \in Thread, FsSetDone(t)
    PROVE  IInv'
<1>1. Inside(t) /\ Top(t).lib = "efivarfs" /\ Top(t).fn = "set"
    BY DEF FsSetDone, Inside, Returned, At, Libs
<1>2. UNCHANGED <<call, cause, origin, oom>>
    BY DEF FsSetDone, calls
<1> QED
    BY <1>1, <1>2, SucceededBelow DEF FsSetDone

LEMMA FsRollbackKeeps ==
    ASSUME IInv, NEW t \in Thread, FsRollback(t)
    PROVE  IInv'
<1>1. /\ Inside(t) /\ Top(t).lib = "efivarfs" /\ Top(t).lib \in Libs
      /\ Top(t).at = "rollback" /\ ctl[t] = "call"
    BY DEF FsRollback, Inside, At, Libs
<1>2. /\ TypeOK /\ Told(t) /\ errno[t] \in Code /\ "rollback" \in Recorders
      /\ ops' = ops /\ call'[t] = call[t] /\ Pop(t, -1)
    BY <1>1, InsideFacts, Names DEF ErrorsOK, FsRollback, process
<1>3. InUpdate(t) => InUpdate(t)'
    BY <1>1, <1>2, InsideFacts, PopUpdates
<1>4. UNCHANGED <<process, call, cause, origin, logging>>
    BY DEF FsRollback
<1>5. ErrStep(t) /\ Told(t)'
  <2>1. CASE UNCHANGED <<errno, table, room, base, oom>>
    <3>1. errno' \in [Thread -> Code]
      BY <1>2, <2>1 DEF TypeOK
    <3> QED
      BY <1>2, <1>3, <1>4, <2>1, <3>1, ErrSame, ToldSame
  <2>2. ASSUME NEW e \in Errno, Record(t, "rollback", e, Saved(t, e), Saved(t, "ENOMEM"))
        PROVE  ErrStep(t) /\ Told(t)'
    <3>1. e \in Code /\ Record(t, "rollback", e, errno[t], errno[t])
      BY <2>2, Names DEF Saved
    <3>2. ErrStep(t) /\ base' = base /\ (Added(t, "rollback", errno[t]) \/ oom'[t])
      BY <1>2, <3>1, RecordStep
    <3> QED
      BY <1>2, <1>3, <1>4, <3>2, RecordKeeps
  <2> QED
    BY <2>1, <2>2 DEF FsRollback
<1>6. HistStep(t)
    BY <1>2, <1>4, HistSame
<1> QED
    BY <1>1, <1>2, <1>4, <1>5, <1>6, InsideFacts, Returns

LEMMA FsDelKeeps ==
    ASSUME IInv, NEW t \in Thread, FsDel(t)
    PROVE  IInv'
<1>1. Inside(t) /\ Top(t).fn = "del" /\ TypeOK
    BY InsideFacts DEF FsDel, Inside, Started, At, Libs
<1>2. ErrStep(t)
  <2>1. CASE UNCHANGED <<errno, table, room, base, oom>>
    <3>1. errno' \in [Thread -> Code]
      BY <1>1, <2>1 DEF TypeOK
    <3> QED
      BY <1>1, <2>1, <3>1, ErrSame
  <2>2. ASSUME NEW e \in Errno, Efi_error(t, "efivarfs_set_immutable", e)
        PROVE  ErrStep(t)
    <3>1. e \in Code /\ "ENOMEM" \in Code /\ "efivarfs_set_immutable" \in Recorders
      BY Names
    <3> QED
      BY <1>1, <2>2, <3>1, RecordStep DEF Efi_error
  <2> QED
    BY <2>1, <2>2 DEF FsDel
<1>3. HistStep(t) /\ UNCHANGED <<process, call, rv, logging>> /\ origin' = origin
    BY <1>1, HistSame DEF FsDel
<1>4. "unlink" \in Labels \ {"got", "start", "unlinked"} /\ Goto(t, "unlink")
    BY DEF Labels, FsDel
<1> QED
    BY <1>1, <1>2, <1>3, <1>4, InsideFacts, JumpsTo

LEMMA FsDelDoneKeeps ==
    ASSUME IInv, NEW t \in Thread, FsDelDone(t)
    PROVE  IInv'
<1>1. /\ Inside(t) /\ Top(t).fn = "del" /\ Top(t).at = "unlinked"
      /\ Top(t).lib = "efivarfs" /\ Top(t).lib \in Libs
    BY DEF FsDelDone, Inside, Returned, At, Libs
<1>2. TypeOK /\ Top(t).rc \in {0, -1} /\ LateErrno(t)
    BY <1>1, InsideFacts DEF Proper, LateErrno
<1>3. PICK e \in Code : errno' = [errno EXCEPT ![t] = e]
    BY <1>1, InsideFacts, Names DEF FsDelDone
<1>4. errno' \in [Thread -> Code] /\ \A u \in Thread \ {t} : errno'[u] = errno[u]
    BY <1>2, <1>3 DEF TypeOK
<1>5. UNCHANGED <<table, room, base, call, cause, origin, oom>> /\ ops' = ops
    BY DEF FsDelDone, calls, process
<1>6. ErrStep(t) /\ HistStep(t)
    BY <1>2, <1>4, <1>5, ErrSame, HistSame
<1>7. Told(t)'
    BY <1>2, <1>5, SameBackend DEF Told, LateErrno
<1>8. UNCHANGED <<process, call, logging>> /\ Pop(t, Top(t).rc)
    BY <1>5 DEF FsDelDone
<1> QED
    BY <1>1, <1>2, <1>5, <1>6, <1>7, <1>8, InsideFacts, Returns

LEMMA UnlinkedFrame ==
    ASSUME NEW f \in Frames, NEW n \in {0, -1}
    PROVE  LET g == [f EXCEPT !.at = "unlinked", !.rc = n] IN
           g \in Frames /\ g.lib = f.lib /\ g.fn = f.fn /\ g.at = "unlinked" /\ g.rc = n
<1>1. n \in Level \cup -1 .. Len(Backends) /\ "unlinked" \in Labels
    BY BackendsFacts DEF Labels
<1> QED
    BY <1>1 DEF Frames

LEMMA FsUnlinkKeeps ==
    ASSUME IInv, NEW t \in Thread, FsUnlink(t)
    PROVE  IInv'
<1> DEFINE f == Frame("public", "get")
<1>1. Inside(t) /\ Top(t).lib = "efivarfs" /\ Top(t).lib \in Libs /\ Top(t).fn = "del"
    BY DEF FsUnlink, Inside, At, Libs
<1>2. /\ TypeOK /\ StackOK(t) /\ Top(t) \in Frames /\ stack[t] # <<>> /\ Backend = "efivarfs"
      /\ "efivarfs" \in Libs /\ "efivarfs" \in Origins /\ "efivarfs" \in Recorders
    BY <1>1, InsideFacts, Names, BackendsFacts DEF Libs
<1>3. PICK n \in {0, -1} :
        /\ IF n = 0 THEN UNCHANGED <<errno, table, room, base, cause, origin, oom>>
           ELSE \E e \in Errno :
                 /\ Efi_error(t, "efivarfs", e)
                 /\ Blame(t, e, "efivarfs")
        /\ stack' = [stack EXCEPT ![t] =
                       Append(Front(@), [Top(t) EXCEPT !.at = "unlinked", !.rc = n]) \o <<f>>]
        /\ ctl' = [ctl EXCEPT ![t] = "call"]
    BY DEF FsUnlink
<1>4. f \in Frames /\ f.lib = "public" /\ f.fn = "get" /\ f.at = "start" /\ f.rc = 0
    BY FrameFacts DEF Public
<1> DEFINE g == [Top(t) EXCEPT !.at = "unlinked", !.rc = n]
<1>5. /\ g \in Frames /\ g.lib = Top(t).lib /\ g.fn = Top(t).fn
      /\ g.at = "unlinked" /\ g.rc = n
    BY <1>2, UnlinkedFrame
<1>6. stack' = [stack EXCEPT ![t] = Append(Front(@), g) \o <<f>>]
    BY <1>3
<1> HIDE DEF f, g
<1>7. Called(t, g, f) /\ OtherStacks(t) /\ ctl'[t] = "call"
    BY <1>2, <1>3, <1>4, <1>5, <1>6, TwoMore
<1>8. ErrStep(t) /\ HistStep(t)
  <2>1. CASE n = 0
    <3>1. UNCHANGED <<errno, table, room, base, cause, origin, oom>>
      BY <1>3, <2>1
    <3>2. errno' \in [Thread -> Code]
      BY <1>2, <3>1 DEF TypeOK
    <3> QED
      BY <1>2, <3>1, <3>2, ErrSame, HistSame
  <2>2. CASE n # 0
    <3>1. PICK e \in Errno : Efi_error(t, "efivarfs", e) /\ Blame(t, e, "efivarfs")
      BY <1>3, <2>2
    <3>2. e \in Code /\ "ENOMEM" \in Code
      BY Names
    <3> QED
      BY <1>2, <3>1, <3>2, RecordStep, BlameStep DEF Efi_error
  <2> QED
    BY <2>1, <2>2
<1>9. ~Looking(t)'
  <2>1. ~Looking(t)
    BY <1>2 DEF Looking, StackOK, Proper
  <2> QED
    BY <1>1, <1>2, <1>4, <1>5, <1>7, <2>1, CalledLooks
<1>10. Proper(t, f, Len(stack[t]) + 1)
    BY <1>4 DEF Proper, Public
<1>11. UNCHANGED <<process, call, rv, logging>>
    BY DEF FsUnlink
<1> QED
    BY <1>1, <1>2, <1>4, <1>5, <1>7, <1>8, <1>9, <1>10, <1>11, InsideFacts, Calls

LEMMA VarsSetKeeps ==
    ASSUME IInv, NEW t \in Thread, VarsSet(t)
    PROVE  IInv'
<1>1. Inside(t) /\ Top(t).lib = "vars" /\ Top(t).lib \in Libs /\ Top(t).fn = "set"
    BY DEF VarsSet, Inside, Started, At, Libs
<1>2. TypeOK /\ Backend = "vars"
    BY <1>1, InsideFacts
<1>3. UNCHANGED <<process, rv, errno, table, room, base, calls, logging>>
    BY DEF VarsSet
<1>4. CASE Goto(t, "write")
  <2>1. UNCHANGED <<call, cause, origin, oom>>
    BY <1>3 DEF calls
  <2>2. errno' \in [Thread -> Code] /\ "write" \in Labels \ {"got", "start", "unlinked"}
    BY <1>2, <1>3 DEF TypeOK, Labels
  <2>3. ErrStep(t) /\ HistStep(t)
    BY <1>2, <1>3, <2>1, <2>2, ErrSame, HistSame
  <2> QED
    BY <1>1, <1>3, <1>4, <2>1, <2>2, <2>3, InsideFacts, JumpsTo
<1>5. CASE CallAt(t, "deleted", Frame("public", "del"))
  <2>1. "del" \in Public \ {"chmod", "append"} /\ "deleted" \in Labels \ {"unlinked"}
    BY DEF Public, Labels
  <2> QED
    BY <1>1, <1>2, <1>3, <1>5, <2>1, CallsPublic
<1> QED
    BY <1>4, <1>5 DEF VarsSet

LEMMA VarsSetDeletedKeeps ==
    ASSUME IInv, NEW t \in Thread, VarsSetDeleted(t)
    PROVE  IInv'
<1>1. /\ Inside(t) /\ Top(t).lib = "vars" /\ Top(t).fn = "set" /\ Top(t).at = "deleted"
      /\ ctl[t] = "return"
    BY DEF VarsSetDeleted, Inside, Returned, At, Libs
<1>2. TypeOK /\ "vars" \in Recorders
    BY <1>1, InsideFacts, Names, BackendsFacts
<1>3. UNCHANGED <<process, call, cause, origin, logging>>
    BY DEF VarsSetDeleted
<1>4. CASE Goto(t, "write") /\ UNCHANGED <<rv, errno, table, room, base, oom>>
  <2>1. errno' \in [Thread -> Code] /\ "write" \in Labels \ {"got", "start", "unlinked"}
    BY <1>2, <1>4 DEF TypeOK, Labels
  <2>2. ErrStep(t) /\ HistStep(t)
    BY <1>2, <1>3, <1>4, <2>1, ErrSame, HistSame
  <2> QED
    BY <1>1, <1>3, <1>4, <2>1, <2>2, InsideFacts, JumpsTo
<1>5. CASE rv[t] < 0 /\ Efi_error(t, "vars", errno[t]) /\ Pop(t, -1)
    BY <1>1, <1>2, <1>3, <1>5, FailedBelow
<1> QED
    BY <1>4, <1>5 DEF VarsSetDeleted

\* write() and the chmod() calls after it.
LEMMA VarsWriteKeeps ==
    ASSUME IInv, NEW t \in Thread, VarsWrite(t)
    PROVE  IInv'
<1>1. /\ Inside(t) /\ Top(t).lib = "vars" /\ Top(t).lib \in Libs /\ Top(t).at = "write"
      /\ ctl[t] = "call"
    BY DEF VarsWrite, Inside, At, Libs
<1>2. UNCHANGED <<process, call, logging>>
    BY DEF VarsWrite
<1>3. PICK g \in {"0"} \cup Errno :
        \/ /\ errno' = [errno EXCEPT ![t] = g]
           /\ Pop(t, 0)
           /\ UNCHANGED <<table, room, base, oom, cause, origin>>
        \/ /\ \E e \in Errno : Record(t, "write", e, g, g) /\ Blame(t, e, "write")
           /\ Pop(t, -1)
    BY DEF VarsWrite
<1>4. g \in Code /\ TypeOK /\ "write" \in Origins
    BY <1>1, Names, InsideFacts
<1>5. CASE /\ errno' = [errno EXCEPT ![t] = g]
           /\ Pop(t, 0)
           /\ UNCHANGED <<table, room, base, oom, cause, origin>>
  <2>1. ErrStep(t) /\ HistStep(t)
    BY <1>4, <1>5, ErrSame, HistSame DEF TypeOK
  <2> QED
    BY <1>1, <1>2, <1>5, <2>1, InsideFacts, Returns
<1>6. CASE /\ \E e \in Errno : Record(t, "write", e, g, g) /\ Blame(t, e, "write")
           /\ Pop(t, -1)
  <2>1. PICK e \in Errno : Record(t, "write", e, g, g) /\ Blame(t, e, "write")
    BY <1>6
  <2>2. e \in Code
    BY Names
  <2> QED
    BY <1>1, <1>2, <1>4, <1>6, <2>1, <2>2, FailedLeaf
<1> QED
    BY <1>3, <1>5, <1>6

-----------------------------------------------------------------------------
(* generic_append_variable                                                 *)

LEMMA GenericAppendKeeps ==
    ASSUME IInv, NEW t \in Thread, GenericAppend(t)
    PROVE  IInv'
<1> DEFINE f == Frame("public", "get")
<1>1. /\ Inside(t) /\ Top(t).lib = "generic" /\ Top(t).fn = "append"
      /\ Top(t).at = "start" /\ ctl[t] = "call"
    BY DEF GenericAppend, Inside, Started, At, Libs
<1>2. f \in Frames /\ f.lib = "public" /\ f.fn = "get" /\ f.at = "start" /\ f.rc = 0
    BY FrameFacts DEF Public
<1>3. CallAt(t, "got", f)
    BY DEF GenericAppend
<1> HIDE DEF f
<1>4. Proper(t, f, Len(stack[t]) + 1)
    BY <1>2 DEF Proper, Public
<1>5. origin[t] = "none"
    BY <1>1, InsideFacts DEF ErrorsOK
<1>6. ASSUME NEW i \in 1 .. Len(stack[t]) PROVE stack[t][i].fn \in {"append", "get"}
  <2>1. Len(stack[t]) = 2 /\ call[t] = "append"
    BY <1>1, InsideFacts DEF Proper
  <2>2. stack[t][1].fn = call[t] /\ Top(t) = stack[t][Len(stack[t])]
    BY <1>1, InsideFacts, InCall, TopFacts
  <2>3. i = 1 \/ i = 2
    BY <2>1
  <2> QED
    BY <1>1, <2>1, <2>2, <2>3
<1>7. UNCHANGED <<process, rv, errno, table, room, base, calls, logging>>
    BY DEF GenericAppend
<1> QED
    BY <1>1, <1>2, <1>3, <1>4, <1>5, <1>6, <1>7, CallsQuietly DEF Labels

LEMMA AppendFoundKeeps ==
    ASSUME IInv, NEW t \in Thread, AppendFound(t)
    PROVE  IInv'
<1>1. /\ Inside(t) /\ Top(t).lib = "generic" /\ Top(t).at = "got"
      /\ ctl[t] = "return" /\ rv[t] >= 0
    BY DEF AppendFound, Inside, Returned, At, Libs
<1>2. Backend # "efivarfs" /\ StackOK(t) /\ ErrorsOK(t) /\ TypeOK /\ stack[t] # <<>>
    BY <1>1, InsideFacts DEF Proper
<1>3. CASE CallAt(t, "deleted", Frame("public", "del")) /\ UNCHANGED <<rv, errno, cause>>
  <2>1. "del" \in Public \ {"chmod", "append"} /\ "deleted" \in Labels \ {"unlinked"}
    BY DEF Public, Labels
  <2>2. UNCHANGED <<process, rv, errno, table, room, base, calls, logging>>
    BY <1>3 DEF AppendFound, calls
  <2> QED
    BY <1>1, <1>2, <1>3, <2>1, <2>2, CallsPublic
<1>4. CASE /\ errno' = [errno EXCEPT ![t] = "EINVAL"]
           /\ cause' = [cause EXCEPT ![t] = "EINVAL"]
           /\ Pop(t, -1)
  <2>1. Looking(t)
    BY <1>1, <1>2, TopFacts DEF Looking
  <2>2. origin[t] = "none"
    BY <1>1, <1>2, <2>1 DEF ErrorsOK
  <2> QED
    BY <1>1, <1>4, <2>2, SilentLeaf DEF AppendFound
<1> QED
    BY <1>3, <1>4 DEF AppendFound

LEMMA AppendMissingKeeps ==
    ASSUME IInv, NEW t \in Thread, AppendMissing(t)
    PROVE  IInv'
<1>1. /\ Inside(t) /\ Top(t).lib = "generic" /\ Top(t).at = "got"
      /\ ctl[t] = "return" /\ rv[t] < 0
    BY DEF AppendMissing, Inside, Returned, At, Libs
<1>2. CASE /\ CallAt(t, "set", Frame("public", "set"))
           /\ UNCHANGED <<rv, errno, table, room, base, oom>>
  <2>1. "set" \in Public \ {"chmod", "append"} /\ "set" \in Labels \ {"unlinked"}
    BY DEF Public, Labels
  <2>2. UNCHANGED <<process, rv, errno, table, room, base, calls, logging>>
    BY <1>2 DEF AppendMissing, calls
  <2> QED
    BY <1>1, <1>2, <2>1, <2>2, CallsPublic
<1>3. CASE Efi_error(t, "generic", errno[t]) /\ Pop(t, -1)
    BY <1>1, <1>3, Names, FailedBelow DEF AppendMissing
<1> QED
    BY <1>2, <1>3 DEF AppendMissing

LEMMA AppendDeletedKeeps ==
    ASSUME IInv, NEW t \in Thread, AppendDeleted(t)
    PROVE  IInv'
<1>1. /\ Inside(t) /\ Top(t).lib = "generic" /\ Top(t).at = "deleted" /\ ctl[t] = "return"
    BY DEF AppendDeleted, Inside, Returned, At, Libs
<1>2. CASE /\ CallAt(t, "reset", Frame("public", "set"))
           /\ UNCHANGED <<rv, errno, table, room, base, oom>>
  <2>1. "set" \in Public \ {"chmod", "append"} /\ "reset" \in Labels \ {"unlinked"}
    BY DEF Public, Labels
  <2>2. UNCHANGED <<process, rv, errno, table, room, base, calls, logging>>
    BY <1>2 DEF AppendDeleted, calls
  <2> QED
    BY <1>1, <1>2, <2>1, <2>2, CallsPublic
<1>3. CASE rv[t] < 0 /\ Efi_error(t, "generic", errno[t]) /\ Pop(t, -1)
    BY <1>1, <1>3, Names, FailedBelow DEF AppendDeleted
<1> QED
    BY <1>2, <1>3 DEF AppendDeleted

LEMMA AppendResetKeeps ==
    ASSUME IInv, NEW t \in Thread, AppendReset(t)
    PROVE  IInv'
<1>1. /\ Inside(t) /\ Top(t).lib = "generic" /\ Top(t).fn = "append" /\ Top(t).at = "reset"
      /\ ctl[t] = "return" /\ rv[t] < 0
    BY DEF AppendReset, Inside, Returned, At, Libs
<1>2. /\ TypeOK /\ Told(t) /\ stack[t] # <<>> /\ errno[t] \in Code /\ "ENOMEM" \in Code
      /\ "generic" \in Recorders
    BY <1>1, InsideFacts, Names
<1>3. /\ UNCHANGED <<process, call, cause, origin, rv, ctl, logging>>
      /\ ops' = ops /\ call'[t] = call[t]
      /\ stack' = [stack EXCEPT ![t][Len(stack[t])].at = "set"]
      /\ "set" \in Labels /\ "set" \in Labels \ {"got", "start", "unlinked"}
    BY DEF AppendReset, process, Labels
<1>4. ErrStep(t) /\ base' = base /\ (Added(t, "generic", errno[t]) \/ oom'[t])
    BY <1>2, RecordStep DEF AppendReset, Efi_error
<1>5. InUpdate(t) => InUpdate(t)'
    BY <1>1, <1>2, <1>3, GotoMoves, MovedUpdates
<1>6. Told(t)'
    BY <1>2, <1>3, <1>4, <1>5, RecordKeeps
<1>7. HistStep(t) /\ ctl' \in [Thread -> {"idle", "call", "return"}]
    BY <1>2, <1>3, HistSame DEF TypeOK
<1> QED
    BY <1>1, <1>3, <1>4, <1>6, <1>7, InsideFacts, GoesOn

LEMMA AppendSetKeeps ==
    ASSUME IInv, NEW t \in Thread, AppendSet(t)
    PROVE  IInv'
<1>1. /\ Inside(t) /\ Top(t).lib = "generic" /\ Top(t).at \in {"set", "reset"}
      /\ ctl[t] = "return"
    BY DEF AppendSet, Inside, Returned, At, Libs
<1>2. rv[t] \in {-1, 0, 1} /\ "generic" \in Recorders
    BY <1>1, Names, InsideFacts
<1>3. CASE rv[t] < 0
  <2>1. rv[t] = -1
    BY <1>2, <1>3
  <2> QED
    BY <1>1, <1>2, <1>3, <2>1, FailedBelow DEF AppendSet
<1>4. CASE rv[t] >= 0
  <2>1. rv[t] \in {0, 1}
    BY <1>2, <1>4
  <2> QED
    BY <1>1, <1>4, <2>1, SucceededBelow DEF AppendSet
<1> QED
    BY <1>2, <1>3, <1>4

-----------------------------------------------------------------------------
(* lib.c: the entry points                                                 *)

LEMMA CallKeeps ==
    ASSUME IInv, NEW t \in Thread, Call(t)
    PROVE  IInv'
<1>1. TypeOK /\ StackOK(t) /\ ErrorsOK(t) /\ phase = "up" /\ ctl[t] = "idle" /\ stack[t] = <<>>
    BY DEF IInv, Up, Call, StackOK
<1>2. PICK fn \in Public \cap menu[t] :
        Push(t, Frame("public", fn)) /\ call' = [call EXCEPT ![t] = fn]
    BY DEF Call
<1> DEFINE f == Frame("public", fn)
<1>3. f \in Frames /\ f.lib = "public" /\ f.fn = fn /\ f.at = "start" /\ f.rc = 0
    BY FrameFacts
<1> HIDE DEF f
<1>4. /\ stack \in [Thread -> Seq(Frames)] /\ ctl \in [Thread -> {"idle", "call", "return"}]
      /\ stack' = [stack EXCEPT ![t] = Append(@, f)]
      /\ ctl' = [ctl EXCEPT ![t] = "call"]
    BY <1>1, <1>2 DEF TypeOK, Push, f
<1>5. stack'[t] = <<f>> /\ ctl'[t] = "call"
  <2>1. stack'[t] = Append(<<>>, f)
    BY <1>1, <1>4
  <2>2. Append(<<>>, f) = <<f>>
    OBVIOUS
  <2> QED
    BY <1>4, <2>1, <2>2
<1>6. <<f>> \in Seq(Frames) /\ Len(<<f>>) = 1 /\ <<f>>[1] = f /\ <<f>> # <<>>
    BY <1>3
<1>7. OtherStacks(t)
    BY <1>4, <1>5, <1>6 DEF OtherStacks
<1>8. CallStep(t) /\ call'[t] = fn
    BY <1>1, <1>2 DEF Call, CallStep, TypeOK
<1>9. ErrStep(t)
  <2>1. Len(table[t]) \in Nat /\ base' \in [Thread -> Nat] /\ base'[t] = Len(table[t])
    BY <1>1 DEF Call, TypeOK
  <2> QED
    BY <1>1, <2>1 DEF Call, TypeOK, ErrStep
<1>10. HistStep(t) /\ cause'[t] = "none" /\ origin'[t] = "none"
    BY <1>1 DEF Call, TypeOK, HistStep
<1>11. Top(t)' = f
    BY <1>5, <1>6 DEF Top, Last
<1>12. StackOK(t)'
  <2>1. Proper(t, f, 1)'
    BY <1>3, <1>8 DEF Proper
  <2> QED
    BY <1>3, <1>5, <1>6, <1>8, <2>1 DEF StackOK
<1>13. ErrorsOK(t)'
  <2>1. ~Looking(t)'
    BY <1>3, <1>5, <1>6 DEF Looking
  <2> QED
    BY <1>3, <1>5, <1>10, <1>11, <2>1 DEF ErrorsOK
<1>14. IdleOK(t)'
    BY <1>5 DEF IdleOK
<1>15. ~Logs(t) /\ ~Logs(t)'
    BY <1>1, <1>3, <1>11 DEF Logs
<1>16. UNCHANGED <<process, logging>>
    BY DEF Call
<1> QED
    BY <1>1, <1>7, <1>8, <1>9, <1>10, <1>12, <1>13, <1>14, <1>15, <1>16, ThreadStep

LEMMA EnterKeeps ==
    ASSUME IInv, NEW t \in Thread, Enter(t)
    PROVE  IInv'
<1>1. /\ Inside(t) /\ Top(t).lib = "public" /\ Top(t).fn \in Public
      /\ Top(t).at = "start" /\ ctl[t] = "call"
    BY DEF Enter, Inside, Started, At
<1>2. /\ TypeOK /\ StackOK(t) /\ ErrorsOK(t) /\ stack[t] # <<>> /\ Top(t) \in Frames
      /\ Proper(t, Top(t), Len(stack[t])) /\ call[t] \in Public
    BY <1>1, InsideFacts
<1>3. PICK f \in {Frame(Backend, Operation(Top(t).fn)), Frame("generic", "append")} :
        /\ CallAt(t, "called", f)
        /\ f = Frame("generic", "append") => ~Implemented(Top(t).fn) /\ Top(t).fn = "append"
  <2>1. CASE CallAt(t, "called", Frame(Backend, Operation(Top(t).fn)))
    <3>1. Frame(Backend, Operation(Top(t).fn)) # Frame("generic", "append")
      BY <1>2, BackendType, BackendsFacts DEF Frame
    <3> QED
      BY <2>1, <3>1
  <2>2. CASE /\ ~Implemented(Top(t).fn) /\ Top(t).fn = "append"
             /\ CallAt(t, "called", Frame("generic", "append"))
    BY <2>2
  <2> QED
    BY <2>1, <2>2 DEF Enter
<1>4. /\ f \in Frames /\ f.at = "start" /\ f.rc = 0
      /\ f.fn = Operation(Top(t).fn)
      /\ f.lib = Backend \/ (f.lib = "generic" /\ ~Implemented(Top(t).fn) /\ Top(t).fn = "append")
  <2>1. Operation(Top(t).fn) \in Public
    BY <1>1 DEF Operation, Public
  <2>2. Backend \in Range(Backends) \cup {"NULL"}
    BY <1>2, BackendType
  <2>3. CASE f = Frame("generic", "append")
    BY <1>3, <2>3, FrameFacts DEF Operation, Public
  <2>4. CASE f = Frame(Backend, Operation(Top(t).fn))
    BY <2>1, <2>2, <2>4, FrameFacts
  <2> QED
    BY <1>3, <2>3, <2>4
<1>5. Proper(t, f, Len(stack[t]) + 1)
  <2>1. Backend \in {"efivarfs", "vars", "default", "NULL"}
    BY <1>2, BackendType, BackendsFacts
  <2>2. f.fn = "del" /\ Backend = "efivarfs" => call[t] = "del"
    BY <1>2, <1>4 DEF Proper, Operation
  <2>3. f.lib = "generic" => Len(stack[t]) + 1 = 2 /\ Backend # "efivarfs" /\ call[t] = "append"
    <3>1. SUFFICES ASSUME f.lib = "generic"
                   PROVE  Len(stack[t]) + 1 = 2 /\ Backend # "efivarfs" /\ call[t] = "append"
      OBVIOUS
    <3>2. Top(t).fn = "append" /\ ~Implemented("append")
      BY <1>4, <2>1, <3>1
    <3>3. Len(stack[t]) = 1
      BY <1>1, <1>2, <3>2 DEF Proper
    <3>4. stack[t][1].fn = call[t] /\ Top(t) = stack[t][Len(stack[t])]
      BY <1>1, <1>2, InCall, TopFacts
    <3> QED
      BY <3>2, <3>3, <3>4 DEF Implemented
  <2> QED
    BY <1>4, <2>1, <2>2, <2>3 DEF Proper
<1>6. f.fn = "chmod" => cause[t] = "none" /\ origin[t] = "none"
    BY <1>1, <1>2, <1>4 DEF ErrorsOK, Operation
<1>7. f.fn = "append" => origin[t] = "none"
    BY <1>1, <1>2, <1>4 DEF ErrorsOK, Operation
<1>8. Looking(t)' => /\ origin[t] = "none" /\ f.fn \in {"append", "get"}
                     /\ \A i \in 1 .. Len(stack[t]) : stack[t][i].fn \in {"append", "get"}
  <2>1. SUFFICES ASSUME Looking(t)'
                 PROVE  /\ origin[t] = "none" /\ f.fn \in {"append", "get"}
                        /\ \A i \in 1 .. Len(stack[t]) : stack[t][i].fn \in {"append", "get"}
    OBVIOUS
  <2>2. "called" \in Labels
    BY DEF Labels
  <2> DEFINE g == [Top(t) EXCEPT !.at = "called"]
  <2>3. Called(t, g, f) /\ g.lib = "public"
    BY <1>1, <1>2, <1>3, <1>4, <2>2, CallAtMoves, FrameSet
  <2> HIDE DEF g
  <2>4. Looking(t)
    BY <1>1, <1>2, <1>4, <2>1, <2>3, CalledLooks
  <2>5. Top(t) = stack[t][Len(stack[t])] /\ Len(stack[t]) \in 1 .. Len(stack[t])
    BY <1>2, TopFacts
  <2> QED
    BY <1>1, <1>2, <1>4, <2>4, <2>5 DEF ErrorsOK, Operation
<1>9. UNCHANGED <<process, rv, errno, table, room, base, calls, logging>>
    BY DEF Enter
<1>10. "called" \in Labels \ {"unlinked"}
    BY DEF Labels
<1> QED
    BY <1>1, <1>3, <1>4, <1>5, <1>6, <1>7, <1>8, <1>9, <1>10, CallsQuietly

\* The entry point the program called adds the last entry.
LEMMA LastEntry ==
    ASSUME IInv, NEW t \in Thread, Inside(t), Top(t).lib = "public",
           NEW e \in Code, NEW bad \in Code, Record(t, Top(t).fn, errno[t], e, bad),
           Pop(t, -1), Told(t)', call' = call
    PROVE  /\ ErrStep(t) /\ base' = base /\ (Added(t, Top(t).fn, e) \/ oom'[t])
           /\ Len(stack[t]) = 1 => IdleOK(t)'
<1>1. TypeOK /\ StackOK(t) /\ stack[t] # <<>> /\ errno[t] \in Code /\ Proper(t, Top(t), Len(stack[t]))
    BY InsideFacts
<1>2. Top(t).fn \in Recorders
    BY <1>1, Names DEF Proper
<1>3. ErrStep(t) /\ base' = base /\ (Added(t, Top(t).fn, e) \/ oom'[t])
    BY <1>1, <1>2, RecordStep
<1>4. ASSUME Len(stack[t]) = 1 PROVE IdleOK(t)'
  <2>1. Top(t).fn = call[t]
    BY <1>1, <1>4, InCall, TopFacts
  <2>2. rv'[t] = -1
    BY <1>1, PopMoves
  <2>3. Len(table[t]) \in Nat /\ base[t] \in Nat /\ base[t] <= Len(table[t])
    BY <1>1 DEF TypeOK
  <2>4. ~oom'[t] => base'[t] < Len(table'[t]) /\ table'[t][Len(table'[t])].fn = call'[t]
    BY <1>3, <2>1, <2>3 DEF Added
  <2> QED
    BY <2>2, <2>4 DEF IdleOK
<1> QED
    BY <1>3, <1>4

LEMMA EnterMissingKeeps ==
    ASSUME IInv, NEW t \in Thread, EnterMissing(t)
    PROVE  IInv'
<1>1. Inside(t) /\ Top(t).lib = "public" /\ Top(t).fn # "append" /\ Top(t).fn \in Public
    BY DEF EnterMissing, Inside, Started, At
<1>2. TypeOK /\ errno[t] \in Code /\ "ENOSYS" \in Code /\ Backend = "default"
    BY <1>1, InsideFacts, Names DEF EnterMissing, Implemented
<1>3. origin[t] = "none"
    BY <1>1, <1>2, InsideFacts DEF Libs
<1>4. cause' \in [Thread -> Code \cup {"none"}] /\ HistStep(t) /\ cause'[t] = "ENOSYS"
    BY <1>2 DEF EnterMissing, TypeOK, HistStep
<1>5. Record(t, Top(t).fn, errno[t], "ENOSYS", "ENOSYS") /\ Pop(t, -1)
    BY DEF EnterMissing
<1>6. Top(t).fn \in Recorders
    BY <1>1, Names
<1>7. errno'[t] = "ENOSYS"
    BY <1>2, <1>5, <1>6, RecordStep DEF Added
<1>8. UNCHANGED <<process, call, logging>> /\ origin' = origin
    BY DEF EnterMissing
<1>9. Told(t)'
    BY <1>3, <1>4, <1>7, <1>8 DEF Told, Blamed
<1>10. ErrStep(t) /\ (Len(stack[t]) = 1 => IdleOK(t)')
    BY <1>1, <1>2, <1>5, <1>8, <1>9, LastEntry
<1> QED
    BY <1>1, <1>3, <1>4, <1>5, <1>8, <1>9, <1>10, InsideFacts, Returns

LEMMA LeaveFailedKeeps ==
    ASSUME IInv, NEW t \in Thread, LeaveFailed(t)
    PROVE  IInv'
<1>1. /\ Inside(t) /\ Top(t).lib = "public" /\ Top(t).fn \in Public /\ Top(t).at = "called"
      /\ ctl[t] = "return" /\ rv[t] < 0
    BY DEF LeaveFailed, Inside, Returned, At
<1>2. /\ TypeOK /\ errno[t] \in Code /\ "ENOMEM" \in Code /\ Told(t) /\ rv[t] = -1
      /\ Top(t).fn \in Recorders
    BY <1>1, InsideFacts, Names
<1>3. Record(t, Top(t).fn, errno[t], errno[t], "ENOMEM") /\ Pop(t, -1)
    BY <1>2 DEF LeaveFailed, Efi_error
<1>4. UNCHANGED <<process, call, cause, origin, logging>> /\ ops' = ops
    BY DEF LeaveFailed, process
<1>5. InUpdate(t) => InUpdate(t)'
    BY <1>1, <1>3, InsideFacts, PopUpdates
<1>6. base' = base /\ (Added(t, Top(t).fn, errno[t]) \/ oom'[t])
    BY <1>2, <1>3, RecordStep
<1>7. Told(t)'
    BY <1>2, <1>4, <1>5, <1>6, RecordKeeps
<1>8. ErrStep(t) /\ (Len(stack[t]) = 1 => IdleOK(t)')
    BY <1>1, <1>2, <1>3, <1>4, <1>7, LastEntry
<1>9. HistStep(t)
    BY <1>2, <1>4, HistSame
<1> QED
    BY <1>1, <1>3, <1>4, <1>7, <1>8, <1>9, InsideFacts, Returns

LEMMA LeaveKeeps ==
    ASSUME IInv, NEW t \in Thread, Leave(t)
    PROVE  IInv'
<1>1. Inside(t) /\ Top(t).lib = "public" /\ ctl[t] = "return" /\ rv[t] >= 0
    BY DEF Leave, Inside, Returned, At
<1>2. TypeOK /\ StackOK(t) /\ stack[t] # <<>> /\ rv[t] \in {-1, 0, 1} /\ rv[t] \in {0, 1}
    BY <1>1, InsideFacts
<1>3. UNCHANGED <<process, call, cause, origin, oom, errno, logging>> /\ Pop(t, rv[t])
    BY DEF Leave, calls
<1>4. ErrStep(t) /\ (Top(t).fn # "set0" => table'[t] = <<>>)
  <2>1. CASE Top(t).fn = "set0"
    <3>1. errno' \in [Thread -> Code] /\ UNCHANGED <<table, room, base>>
      BY <1>2, <1>3, <2>1 DEF TypeOK, Leave
    <3> QED
      BY <1>2, <1>3, <2>1, <3>1, ErrSame
  <2>2. CASE Top(t).fn # "set0"
    <3>1. Clear(t)
      BY <2>2 DEF Leave
    <3> QED
      BY <1>2, <1>3, <3>1, ClearStep
  <2> QED
    BY <2>1, <2>2
<1>5. HistStep(t)
    BY <1>2, <1>3, HistSame
<1>6. ASSUME Len(stack[t]) = 1 PROVE IdleOK(t)'
  <2>1. Top(t).fn = call[t]
    BY <1>1, <1>2, <1>6, InCall, TopFacts
  <2>2. rv'[t] = rv[t]
    BY <1>2, <1>3, PopMoves
  <2> QED
    BY <1>2, <1>3, <1>4, <2>1, <2>2 DEF IdleOK
<1> QED
    BY <1>1, <1>2, <1>3, <1>4, <1>5, <1>6, InsideFacts, Returns

-----------------------------------------------------------------------------
(* What a program does with the table and the verbosity                    *)

LEMMA ErrorsKeeps ==
    ASSUME IInv, NEW t \in Thread, Errors(t)
    PROVE  IInv'
<1>1. TypeOK /\ ErrorsOK(t) /\ phase = "up" /\ ctl[t] = "idle" /\ stack[t] = <<>>
    BY DEF IInv, Up, Errors, Idle, StackOK
<1>2. /\ UNCHANGED <<process, stack, ctl, rv, errno, cause, origin, oom, logging>>
      /\ call' = [call EXCEPT ![t] = "none"]
    BY DEF Errors
<1>3. ErrStep(t)
  <2>1. CASE Efi_error_pop(t)
    <3>1. table[t] \in Seq(Entry) /\ table[t] # <<>>
      BY <1>1, <2>1 DEF TypeOK, Efi_error_pop
    <3>2. /\ Front(table[t]) \in Seq(Entry) /\ Len(Front(table[t])) = Len(table[t]) - 1
          /\ Len(table[t]) \in Nat /\ Len(table[t]) >= 1
      BY <3>1, FrontFacts
    <3>3. /\ table' \in [Thread -> Seq(Entry)] /\ table'[t] = Front(table[t])
          /\ base' \in [Thread -> Nat] /\ base'[t] = 0
          /\ \A u \in Thread \ {t} : table'[u] = table[u] /\ base'[u] = base[u]
      BY <1>1, <2>1, <3>2 DEF TypeOK, Efi_error_pop
    <3>4. /\ room' = room /\ room \in [Thread -> Nat] /\ Len(table[t]) <= room[t]
          /\ errno \in [Thread -> Code] /\ oom \in [Thread -> BOOLEAN]
      BY <1>1, <2>1 DEF TypeOK, Efi_error_pop
    <3>5. base'[t] <= Len(table'[t]) /\ Len(table'[t]) <= room'[t]
      BY <3>2, <3>3, <3>4
    <3> QED
      BY <1>2, <3>3, <3>4, <3>5 DEF ErrStep
  <2>2. CASE Clear(t)
    BY <1>1, <1>2, <2>2, ClearStep
  <2> QED
    BY <2>1, <2>2 DEF Errors, Show_errors
<1>4. HistStep(t) /\ CallStep(t) /\ OtherStacks(t) /\ call'[t] = "none"
    BY <1>1, <1>2 DEF TypeOK, HistStep, CallStep, OtherStacks
<1>5. StackOK(t)' /\ IdleOK(t)'
  <2>1. stack'[t] = <<>> /\ ctl'[t] = "idle"
    BY <1>1, <1>2
  <2> QED
    BY <1>4, <2>1 DEF StackOK, IdleOK, Public
<1>6. ErrorsOK(t)'
  <2>1. ~Looking(t)' /\ ctl'[t] = "idle" /\ origin'[t] = origin[t] /\ Backend' = Backend
    BY <1>1, <1>2, SameBackend DEF Looking, process
  <2> QED
    BY <1>1, <2>1 DEF ErrorsOK
<1>7. ~Logs(t) /\ ~Logs(t)'
    BY <1>1, <1>2 DEF Logs
<1> QED
    BY <1>1, <1>2, <1>3, <1>4, <1>5, <1>6, <1>7, ThreadStep

-----------------------------------------------------------------------------
(* The log                                                                 *)

LogTypes ==
    /\ verbose \in Level \cup {0} /\ loglevel \in Level \cup {0}
    /\ logfile \in BOOLEAN /\ alone \in [Thread -> BOOLEAN]
    /\ buffer \in Seq(Messages) /\ Len(buffer) <= Pending + Cardinality(Thread)
    /\ shown \subseteq Shown

LEMMA Threads ==
    /\ Cardinality(Thread) \in Nat /\ Pending \in Nat
    /\ \A W \in SUBSET Thread : Cardinality(W) \in Nat /\ Cardinality(W) <= Cardinality(Thread)
BY ThreadAssumption, BoundAssumption, FS_CardinalityType, FS_Subset

\* A step of a thread that logs.
LEMMA LogThreadStep ==
    ASSUME IInv, phase = "up", NEW t \in Thread, UNCHANGED process,
           OtherStacks(t), CallStep(t), UNCHANGED <<errno, table, room, base, cause, origin, oom>>,
           StackOK(t)', ErrorsOK(t)', IdleOK(t)', LogTypes', LogState', LogExact'
    PROVE  IInv'
<1>1. TypeOK /\ ops' = ops
    BY DEF IInv, process
<1>2. ErrStep(t) /\ HistStep(t)
  <2>1. errno' \in [Thread -> Code]
    BY <1>1 DEF TypeOK
  <2> QED
    BY <1>1, <2>1, ErrSame, HistSame
<1>3. TypeOK'
    BY <1>1 DEF TypeOK, OtherStacks, CallStep, LogTypes, process
<1>4. Loading'
    BY DEF process, Loading
<1>5. ASSUME NEW u \in Thread PROVE StackOK(u)' /\ ErrorsOK(u)' /\ IdleOK(u)'
  <2>1. StackOK(u) /\ ErrorsOK(u) /\ IdleOK(u)
    BY DEF IInv, Up
  <2> QED
    BY <1>1, <1>2, <2>1, OthersSame
<1> QED
    BY <1>3, <1>4, <1>5 DEF IInv, Up

LEMMA MixedFacts ==
    ASSUME buffer \in Seq(Messages),
           buffer' = [i \in DOMAIN buffer |-> [buffer[i] EXCEPT !.mixed = TRUE]]
    PROVE  /\ buffer' \in Seq(Messages) /\ Len(buffer') = Len(buffer)
           /\ \A i \in 1 .. Len(buffer') : buffer'[i].mixed
<1>1. /\ Len(buffer) \in Nat /\ DOMAIN buffer = 1 .. Len(buffer)
      /\ \A i \in 1 .. Len(buffer) : buffer[i] \in Messages
    OBVIOUS
<1>2. ASSUME NEW m \in Messages
      PROVE  [m EXCEPT !.mixed = TRUE] \in Messages /\ [m EXCEPT !.mixed = TRUE].mixed
    BY DEF Messages
<1>3. ASSUME NEW i \in 1 .. Len(buffer)
      PROVE  [buffer[i] EXCEPT !.mixed = TRUE] \in Messages /\ [buffer[i] EXCEPT !.mixed = TRUE].mixed
    BY <1>1, <1>2
<1> DEFINE h(i) == [buffer[i] EXCEPT !.mixed = TRUE]
<1>4. \A i \in 1 .. Len(buffer) : h(i) \in Messages /\ h(i).mixed
    BY <1>3
<1>5. buffer' = [i \in 1 .. Len(buffer) |-> h(i)]
    BY <1>1
<1> HIDE DEF h
<1>6. buffer' \in Seq(Messages) /\ Len(buffer') = Len(buffer)
  <2>1. buffer' \in [1 .. Len(buffer) -> Messages]
    BY <1>4, <1>5
  <2>2. buffer' \in Seq(Messages)
    BY <1>1, <2>1, SeqDef
  <2>3. DOMAIN buffer' = 1 .. Len(buffer)
    BY <2>1
  <2> QED
    BY <1>1, <2>2, <2>3, LenProperties
<1> QED
    BY <1>4, <1>5, <1>6

\* What leaves the buffer tells the truth.
LEMMA OutFacts ==
    ASSUME TypeOK, LogState
    PROVE  Out \subseteq Shown /\ \A m \in Out : m.mixed \/ (m.seen <=> m.level <= m.verbose)
<1>1. SUFFICES ASSUME NEW x \in Out
               PROVE  x \in Shown /\ (x.mixed \/ (x.seen <=> x.level <= x.verbose))
    OBVIOUS
<1>2. buffer \in Seq(Messages) /\ Len(buffer) \in Nat /\ DOMAIN buffer = 1 .. Len(buffer)
      /\ verbose \in Level \cup {0} /\ loglevel \in Level \cup {0} /\ alone \in [Thread -> BOOLEAN]
    BY DEF TypeOK
<1>3. PICK i \in 1 .. Len(buffer) :
        x = [level |-> buffer[i].level, verbose |-> verbose, seen |-> Passes,
             mixed |-> buffer[i].mixed \/ ~alone[buffer[i].by]]
    BY <1>1, <1>2 DEF Out, Range
<1>4. buffer[i] \in Messages
    BY <1>2
<1>5. /\ buffer[i].level \in Level /\ buffer[i].mixed \in BOOLEAN /\ buffer[i].by \in Thread
      /\ alone[buffer[i].by] \in BOOLEAN
    BY <1>2, <1>4 DEF Messages
<1>6. ~buffer[i].mixed /\ alone[buffer[i].by] => buffer[i].level = loglevel
    BY <1>3 DEF LogState
<1>7. buffer[i].level \in Nat /\ loglevel \in Nat /\ verbose \in Nat
  <2>1. \A n \in Level \cup {0} : n \in Nat
    BY LevelAssumption
  <2>2. /\ buffer[i].level \in Level \cup {0} /\ loglevel \in Level \cup {0}
        /\ verbose \in Level \cup {0}
    BY <1>2, <1>5
  <2> QED
    BY <2>1, <2>2
<1> DEFINE b == buffer[i].mixed \/ ~alone[buffer[i].by]
           lv == buffer[i].level
<1>8. /\ b \in BOOLEAN /\ (~b => lv = loglevel) /\ lv \in Level /\ lv \in Nat
      /\ x = [level |-> lv, verbose |-> verbose, seen |-> Passes, mixed |-> b]
    BY <1>3, <1>5, <1>6, <1>7
<1>9. Passes \in BOOLEAN /\ (Passes <=> loglevel <= verbose)
    BY <1>7 DEF Passes
<1> HIDE DEF b, lv
<1>10. x \in Shown
    BY <1>2, <1>8, <1>9 DEF Shown
<1>11. x.mixed = b /\ x.seen = Passes /\ x.level = lv /\ x.verbose = verbose
    BY <1>8
<1>12. ~b => (Passes <=> lv <= verbose)
    BY <1>8, <1>9
<1> QED
    BY <1>10, <1>11, <1>12

LEMMA LogVariables ==
    ASSUME TypeOK
    PROVE  LogTypes
BY DEF TypeOK, LogTypes

LEMMA Efi_set_verboseKeeps ==
    ASSUME IInv, NEW t \in Thread, Efi_set_verbose(t)
    PROVE  IInv'
<1>1. TypeOK /\ LogTypes /\ LogState /\ LogExact /\ phase = "up"
    BY LogVariables DEF IInv, Efi_set_verbose, Idle
<1>2. /\ UNCHANGED <<process, thread, calls>> /\ UNCHANGED <<loglevel, logfile, shown>>
      /\ alone' = [u \in Thread |-> alone[u] /\ ~Logs(u)] /\ verbose' \in Level \cup {0}
      /\ buffer' = [i \in DOMAIN buffer |-> [buffer[i] EXCEPT !.mixed = TRUE]]
    BY DEF Efi_set_verbose
<1>3. /\ buffer' \in Seq(Messages) /\ Len(buffer') = Len(buffer)
      /\ \A i \in 1 .. Len(buffer') : buffer'[i].mixed
    BY <1>1, <1>2, MixedFacts DEF LogTypes
<1>4. alone' \in [Thread -> BOOLEAN] /\ \A u \in Thread : alone'[u] => ~Logs(u)
    BY <1>1, <1>2 DEF LogTypes
<1>5. LogTypes'
    BY <1>1, <1>2, <1>3, <1>4 DEF LogTypes
<1>6. UNCHANGED <<stack, ctl, rv, errno, table, room, base>> /\ UNCHANGED <<call, cause, origin, oom>>
    BY <1>2 DEF thread, calls
<1>7. (\A u \in Thread : (Logs(u)' <=> Logs(u)) /\ Top(u)' = Top(u)) /\ Writers' = Writers
    BY <1>6 DEF Logs, Top, Writers
<1>8. LogState'
    BY <1>1, <1>3, <1>4, <1>7 DEF LogState
<1>9. LogExact'
    BY <1>1, <1>2 DEF LogExact
<1>10. StackOK(t)' /\ ErrorsOK(t)' /\ IdleOK(t)'
  <2>1. StackOK(t) /\ ErrorsOK(t) /\ IdleOK(t) /\ Backend' = Backend
    BY <1>1, <1>2, SameBackend DEF IInv, Up, process
  <2>2. (Told(t)' <=> Told(t)) /\ (Looking(t)' <=> Looking(t)) /\ Top(t)' = Top(t)
    BY <1>6, <2>1 DEF Told, Blamed, InUpdate, LateErrno, Looking, Top
  <2>3. StackOK(t)'
    BY <1>6, <2>1 DEF StackOK, Proper
  <2>4. ErrorsOK(t)'
    BY <1>6, <2>1, <2>2 DEF ErrorsOK
  <2>5. IdleOK(t)'
    BY <1>6, <2>1, <2>2 DEF IdleOK
  <2> QED
    BY <2>3, <2>4, <2>5
<1>11. OtherStacks(t) /\ CallStep(t)
    BY <1>1, <1>6 DEF TypeOK, OtherStacks, CallStep
<1>12. UNCHANGED process
    BY <1>2
<1> QED
    BY <1>1, <1>5, <1>6, <1>8, <1>9, <1>10, <1>11, <1>12, LogThreadStep

LEMMA LogBeginKeeps ==
    ASSUME IInv, NEW t \in Thread, LogBegin(t)
    PROVE  IInv'
<1>1. /\ TypeOK /\ LogTypes /\ StackOK(t) /\ ErrorsOK(t) /\ phase = "up"
      /\ ctl[t] = "idle" /\ stack[t] = <<>>
    BY LogVariables DEF IInv, Up, LogBegin, Idle, StackOK
<1>2. PICK fn \in {"log", "mark"}, l \in Level :
        /\ loglevel' = l
        /\ IF logfile THEN Push(t, [Frame("log", fn) EXCEPT !.rc = l])
           ELSE UNCHANGED <<stack, ctl>>
    BY DEF LogBegin, LevelSet
<1>3. /\ Len(buffer) < Pending /\ shown' = {} /\ call' = [call EXCEPT ![t] = "none"]
      /\ alone' = [u \in Thread |->
                     IF u = t THEN \A w \in Thread \ {t} : ~Logs(w) ELSE alone[u] /\ ~Logs(u)]
      /\ buffer' = [i \in DOMAIN buffer |-> [buffer[i] EXCEPT !.mixed = TRUE]]
      /\ UNCHANGED <<process, rv, verbose, logfile>>
      /\ UNCHANGED <<errno, table, room, base, cause, origin, oom>>
    BY DEF LogBegin
<1> DEFINE f == [Frame("log", fn) EXCEPT !.rc = l]
<1>4. f \in Frames /\ f.lib = "log" /\ f.fn \in {"log", "mark"} /\ f.at = "start" /\ f.rc = l
  <2>1. /\ Frame("log", fn) \in Frames /\ Frame("log", fn).lib = "log"
        /\ Frame("log", fn).fn = fn /\ Frame("log", fn).at = "start"
    BY FrameFacts
  <2>2. l \in Level \cup -1 .. Len(Backends)
    OBVIOUS
  <2> HIDE DEF f
  <2> DEFINE h == Frame("log", fn)
  <2>3. h \in Frames /\ h.lib = "log" /\ h.fn = fn /\ h.at = "start" /\ f = [h EXCEPT !.rc = l]
    BY <2>1 DEF f
  <2> HIDE DEF h
  <2>4. f \in Frames /\ f.lib = h.lib /\ f.fn = h.fn /\ f.at = h.at /\ f.rc = l
    BY <2>2, <2>3 DEF Frames
  <2> QED
    BY <2>3, <2>4
<1>5. IF logfile THEN Push(t, f) ELSE UNCHANGED <<stack, ctl>>
    BY <1>2
<1> HIDE DEF f
<1>6. /\ OtherStacks(t)
      /\ \/ stack'[t] = <<f>> /\ ctl'[t] = "call"
         \/ stack'[t] = <<>> /\ ctl'[t] = "idle"
  <2>1. stack \in [Thread -> Seq(Frames)] /\ ctl \in [Thread -> {"idle", "call", "return"}]
    BY <1>1 DEF TypeOK
  <2>2. CASE ~logfile
    BY <1>1, <1>5, <2>1, <2>2 DEF OtherStacks
  <2>3. CASE logfile
    <3>1. /\ stack' = [stack EXCEPT ![t] = Append(@, f)]
          /\ ctl' = [ctl EXCEPT ![t] = "call"]
      BY <1>5, <2>3 DEF Push
    <3>2. Append(<<>>, f) = <<f>> /\ <<f>> \in Seq(Frames)
      BY <1>4
    <3>3. stack'[t] = <<f>> /\ ctl'[t] = "call"
      BY <1>1, <2>1, <3>1, <3>2
    <3> QED
      BY <2>1, <3>1, <3>2, <3>3 DEF OtherStacks
  <2> QED
    BY <2>2, <2>3
<1>7. Len(<<f>>) = 1 /\ <<f>>[1] = f /\ <<f>> # <<>>
    OBVIOUS
<1>8. CallStep(t) /\ call'[t] = "none"
    BY <1>1, <1>3 DEF CallStep, TypeOK
<1>9. StackOK(t)'
  <2>1. Proper(t, f, 1)'
    BY <1>4 DEF Proper
  <2>2. CASE stack'[t] = <<f>> /\ ctl'[t] = "call"
    BY <1>4, <1>7, <1>8, <2>1, <2>2 DEF StackOK
  <2>3. CASE stack'[t] = <<>> /\ ctl'[t] = "idle"
    BY <2>3 DEF StackOK
  <2> QED
    BY <1>6, <2>2, <2>3
<1>10. stack'[t] = <<f>> => Top(t)' = f
    BY <1>7 DEF Top, Last
<1>11. ErrorsOK(t)'
  <2>1. ~Looking(t)' /\ origin'[t] = origin[t] /\ Backend' = Backend /\ ctl'[t] # "return"
    BY <1>3, <1>4, <1>6, <1>7, SameBackend DEF Looking, process
  <2>2. ctl'[t] = "call" => Top(t)' = f
    BY <1>6, <1>10
  <2> QED
    BY <1>1, <1>4, <2>1, <2>2 DEF ErrorsOK
<1>12. IdleOK(t)'
    BY <1>8 DEF IdleOK, Public
<1>13. /\ buffer' \in Seq(Messages) /\ Len(buffer') = Len(buffer)
       /\ \A i \in 1 .. Len(buffer') : buffer'[i].mixed
    BY <1>1, <1>3, MixedFacts DEF LogTypes
<1>14. alone' \in [Thread -> BOOLEAN] /\ \A u \in Thread \ {t} : alone'[u] => ~Logs(u)
    BY <1>1, <1>3 DEF LogTypes
<1>15. LogTypes' /\ LogExact'
    BY <1>1, <1>2, <1>3, <1>13, <1>14 DEF LogTypes, LogExact
<1>16. LogState'
  <2>1. ASSUME NEW u \in Thread, Logs(u)', alone'[u] PROVE Top(u)'.rc = loglevel'
    <3>1. CASE u = t
      <4>1. Top(t)' = f
        BY <1>6, <1>10, <2>1, <3>1 DEF Logs
      <4> QED
        BY <1>2, <1>4, <3>1, <4>1
    <3>2. CASE u # t
      BY <1>6, <1>14, <2>1, <3>2 DEF OtherStacks, Logs, Top
    <3> QED
      BY <3>1, <3>2
  <2>2. Len(buffer') + Cardinality(Writers') <= Pending + Cardinality(Thread)
    <3>1. Writers' \in SUBSET Thread
      BY DEF Writers
    <3>2. Len(buffer) \in Nat /\ Len(buffer) < Pending /\ Len(buffer') = Len(buffer)
      BY <1>1, <1>3, <1>13 DEF LogTypes
    <3>3. Cardinality(Writers') \in Nat /\ Cardinality(Writers') <= Cardinality(Thread)
      BY <3>1, Threads
    <3> QED
      BY <3>2, <3>3, Threads
  <2> QED
    BY <1>13, <2>1, <2>2 DEF LogState
<1>17. UNCHANGED process
    BY <1>3
<1> QED
    BY <1>1, <1>3, <1>6, <1>8, <1>9, <1>11, <1>12, <1>15, <1>16, <1>17, LogThreadStep

\* A thread that logs has one frame.
LEMMA LogFrame ==
    ASSUME IInv, phase = "up", NEW t \in Thread, stack[t] # <<>>, Top(t).lib = "log"
    PROVE  /\ TypeOK /\ LogTypes /\ StackOK(t) /\ ErrorsOK(t) /\ LogState
           /\ Len(stack[t]) = 1 /\ stack[t][1] = Top(t) /\ call[t] = "none"
           /\ Top(t) \in Frames /\ Top(t).rc \in Level /\ Logs(t)
<1>1. TypeOK /\ LogTypes /\ StackOK(t) /\ ErrorsOK(t) /\ LogState
    BY LogVariables DEF IInv, Up
<1>2. /\ Len(stack[t]) \in Nat /\ Len(stack[t]) >= 1 /\ Top(t) \in Frames
      /\ Top(t) = stack[t][Len(stack[t])] /\ Len(stack[t]) \in 1 .. Len(stack[t])
    BY <1>1, TopFacts
<1>3. Proper(t, Top(t), Len(stack[t]))
    BY <1>1, <1>2 DEF StackOK
<1>4. Len(stack[t]) = 1 /\ Top(t).rc \in Level
    BY <1>3 DEF Proper
<1>5. stack[t][1] = Top(t)
    BY <1>2, <1>4
<1> QED
    BY <1>1, <1>2, <1>4, <1>5 DEF StackOK, Logs

\* The frame of a thread that logs is gone.
LEMMA LogPops ==
    ASSUME IInv, phase = "up", NEW t \in Thread, stack[t] # <<>>, Top(t).lib = "log",
           Pop(t, 0), UNCHANGED <<process, call, cause, origin>>
    PROVE  /\ OtherStacks(t) /\ CallStep(t) /\ ~Logs(t)'
           /\ StackOK(t)' /\ ErrorsOK(t)' /\ IdleOK(t)'
<1>1. /\ TypeOK /\ StackOK(t) /\ ErrorsOK(t) /\ Len(stack[t]) = 1 /\ call[t] = "none"
      /\ ops' = ops
    BY LogFrame DEF process
<1>2. /\ Popped(t) /\ OtherStacks(t) /\ ctl'[t] = "idle"
      /\ rv' \in [Thread -> {-1, 0, 1}] /\ \A u \in Thread \ {t} : rv'[u] = rv[u]
    BY <1>1, PopMoves
<1>3. stack'[t] = <<>>
  <2>1. stack'[t] \in Seq(Frames) /\ Len(stack'[t]) = 0
    BY <1>1, <1>2 DEF OtherStacks, Popped
  <2> QED
    BY <2>1, EmptySeq
<1>4. CallStep(t)
    BY <1>1, <1>2 DEF CallStep, TypeOK
<1>5. StackOK(t)' /\ IdleOK(t)' /\ ~Logs(t)'
    BY <1>1, <1>2, <1>3 DEF StackOK, IdleOK, Logs, Public
<1>6. ErrorsOK(t)'
  <2>1. ~Looking(t)' /\ origin'[t] = origin[t] /\ Backend' = Backend
    BY <1>1, <1>3, SameBackend DEF Looking
  <2> QED
    BY <1>1, <1>2, <2>1 DEF ErrorsOK
<1> QED
    BY <1>2, <1>4, <1>5, <1>6

LEMMA LogWriteKeeps ==
    ASSUME IInv, NEW t \in Thread, LogWrite(t)
    PROVE  IInv'
<1>1. /\ phase = "up" /\ stack[t] # <<>> /\ Top(t).lib = "log" /\ Top(t).at = "start"
      /\ Top(t).fn \in {"log", "mark"}
    BY DEF LogWrite, Started, At
<1>2. /\ TypeOK /\ LogTypes /\ StackOK(t) /\ ErrorsOK(t) /\ LogState
      /\ Len(stack[t]) = 1 /\ stack[t][1] = Top(t) /\ call[t] = "none"
      /\ Top(t) \in Frames /\ Top(t).rc \in Level /\ Logs(t)
    BY <1>1, LogFrame
<1>3. /\ UNCHANGED <<process, call, cause, origin, oom, errno, table, room, base>>
      /\ UNCHANGED <<verbose, loglevel, logfile, shown, alone>>
    BY DEF LogWrite, calls
<1> DEFINE b == Top(t).fn = "mark" \/ ~alone[t]
           m == [level |-> Top(t).rc, by |-> t, mixed |-> b]
<1>4. buffer' = Append(buffer, m)
    BY DEF LogWrite
<1>5. alone[t] \in BOOLEAN /\ b \in BOOLEAN /\ (~b => alone[t])
    BY <1>2 DEF LogTypes
<1> HIDE DEF b
<1>6. m \in Messages /\ m.level = Top(t).rc /\ m.by = t /\ m.mixed = b
    BY <1>2, <1>5 DEF Messages
<1> HIDE DEF m
<1>7. /\ OtherStacks(t) /\ CallStep(t) /\ StackOK(t)' /\ ErrorsOK(t)' /\ IdleOK(t)'
      /\ Logs(t)' => Top(t)'.at = "flush" /\ Top(t)'.rc = Top(t).rc
  <2>1. CASE Top(t).fn = "mark"
    <3>1. Pop(t, 0)
      BY <2>1 DEF LogWrite
    <3> QED
      BY <1>1, <1>3, <3>1, LogPops
  <2>2. CASE Top(t).fn # "mark"
    <3> DEFINE g == [Top(t) EXCEPT !.at = "flush"]
    <3>1. /\ stack' = [stack EXCEPT ![t][Len(stack[t])].at = "flush"]
          /\ ctl' = [ctl EXCEPT ![t] = "call"] /\ rv' = rv
      BY <2>2 DEF LogWrite, Goto
    <3>2. /\ Moved(t, g) /\ stack' \in [Thread -> Seq(Frames)]
          /\ \A u \in Thread \ {t} : stack'[u] = stack[u]
      BY <1>1, <1>2, <3>1, GotoMoves DEF Labels
    <3>3. g.at = "flush" /\ g.fn = Top(t).fn /\ g.lib = "log" /\ g.rc = Top(t).rc
      BY <1>1, <1>2, FrameSet DEF Labels
    <3> HIDE DEF g
    <3>4. /\ OtherStacks(t) /\ ctl'[t] = "call" /\ CallStep(t) /\ stack'[t] \in Seq(Frames)
      BY <1>2, <1>3, <3>1, <3>2 DEF TypeOK, OtherStacks, CallStep
    <3>5. Len(stack'[t]) = 1 /\ stack'[t][1] = g /\ Top(t)' = g
      BY <1>2, <3>2 DEF Moved, Top, Last
    <3>6. ops' = ops /\ call'[t] = call[t]
      BY <1>3 DEF process
    <3>7. StackOK(t)'
      BY <1>1, <1>2, <3>2, <3>3, <3>4, <3>6, MoveStack
    <3>8. ErrorsOK(t)'
      <4>1. ~Looking(t)' /\ origin'[t] = origin[t] /\ Backend' = Backend
        BY <1>3, <3>3, <3>5, <3>6, SameBackend DEF Looking
      <4>2. Top(t)'.fn = "log"
        BY <1>1, <2>2, <3>3, <3>5
      <4> QED
        BY <1>2, <3>3, <3>4, <3>5, <4>1, <4>2 DEF ErrorsOK
    <3>9. IdleOK(t)'
      BY <3>4 DEF IdleOK
    <3> QED
      BY <3>3, <3>4, <3>5, <3>7, <3>8, <3>9
  <2> QED
    BY <2>1, <2>2
<1>8. /\ buffer \in Seq(Messages) /\ Len(buffer) \in Nat
      /\ buffer' \in Seq(Messages) /\ Len(buffer') = Len(buffer) + 1
      /\ \A i \in 1 .. Len(buffer) : buffer'[i] = buffer[i]
      /\ buffer'[Len(buffer) + 1] = m
    BY <1>2, <1>4, <1>6 DEF LogTypes
<1>9. \A u \in Thread \ {t} : (Logs(u)' <=> Logs(u)) /\ Top(u)' = Top(u)
    BY <1>7 DEF OtherStacks, Logs, Top
<1>10. Writers' = Writers \ {t} /\ t \in Writers
  <2>1. t \notin Writers' /\ t \in Writers
    BY <1>1, <1>2, <1>7 DEF Writers
  <2>2. \A u \in Thread \ {t} : u \in Writers' <=> u \in Writers
    BY <1>9 DEF Writers
  <2>3. Writers \subseteq Thread /\ Writers' \subseteq Thread
    BY DEF Writers
  <2> QED
    BY <2>1, <2>2, <2>3
<1>11. Len(buffer') + Cardinality(Writers') <= Pending + Cardinality(Thread)
  <2>1. IsFiniteSet(Writers) /\ Cardinality(Writers) \in Nat
    BY ThreadAssumption, FS_Subset, FS_CardinalityType DEF Writers
  <2>2. Cardinality(Writers') = Cardinality(Writers) - 1
    BY <1>10, <2>1, FS_RemoveElement
  <2>3. Len(buffer) + Cardinality(Writers) <= Pending + Cardinality(Thread)
    BY <1>2 DEF LogState
  <2> QED
    BY <1>8, <2>1, <2>2, <2>3, Threads
<1>12. LogState'
  <2>1. ASSUME NEW u \in Thread, Logs(u)', alone'[u] PROVE Top(u)'.rc = loglevel'
    <3>1. CASE u = t
      BY <1>2, <1>3, <1>7, <2>1, <3>1 DEF LogState
    <3>2. CASE u # t
      BY <1>2, <1>3, <1>9, <2>1, <3>2 DEF LogState
    <3> QED
      BY <3>1, <3>2
  <2>2. ASSUME NEW i \in 1 .. Len(buffer'), ~buffer'[i].mixed, alone'[buffer'[i].by]
        PROVE  buffer'[i].level = loglevel'
    <3>1. CASE i = Len(buffer) + 1
      <4>1. alone[t] /\ buffer'[i].level = Top(t).rc
        BY <1>5, <1>6, <1>8, <2>2, <3>1
      <4> QED
        BY <1>2, <1>3, <4>1 DEF LogState
    <3>2. CASE i # Len(buffer) + 1
      <4>1. i \in 1 .. Len(buffer)
        BY <1>8, <3>2
      <4> QED
        BY <1>2, <1>3, <1>8, <2>2, <4>1 DEF LogState
    <3> QED
      BY <3>1, <3>2
  <2> QED
    BY <1>11, <2>1, <2>2 DEF LogState
<1>13. LogTypes' /\ LogExact'
  <2>1. Cardinality(Writers') \in Nat
    BY <1>10, Threads DEF Writers
  <2>2. Len(buffer') <= Pending + Cardinality(Thread)
    BY <1>8, <1>11, <2>1, Threads
  <2> QED
    BY <1>2, <1>3, <1>8, <2>2 DEF LogTypes, LogExact, IInv
<1> QED
    BY <1>1, <1>3, <1>7, <1>12, <1>13, LogThreadStep

LEMMA EmptyBuffer ==
    ASSUME TypeOK, LogState, shown' = Out, buffer' = <<>>,
           UNCHANGED <<verbose, loglevel, alone>>, logfile' \in BOOLEAN,
           \A u \in Thread : Logs(u)' => Logs(u) /\ Top(u)' = Top(u)
    PROVE  LogTypes' /\ LogState' /\ LogExact'
<1>1. buffer' \in Seq(Messages) /\ Len(buffer') = 0
    OBVIOUS
<1>2. Cardinality(Writers') \in Nat /\ Cardinality(Writers') <= Cardinality(Thread)
    BY Threads DEF Writers
<1>3. /\ Len(buffer') <= Pending + Cardinality(Thread)
      /\ Len(buffer') + Cardinality(Writers') <= Pending + Cardinality(Thread)
    BY <1>1, <1>2, Threads
<1>4. LogExact' /\ shown' \subseteq Shown
    BY OutFacts DEF LogExact
<1>5. LogTypes'
    BY <1>1, <1>3, <1>4 DEF TypeOK, LogTypes
<1>6. \A u \in Thread : Logs(u)' /\ alone'[u] => Top(u)'.rc = loglevel'
    BY DEF LogState
<1>7. \A i \in 1 .. Len(buffer') : ~buffer'[i].mixed /\ alone'[buffer'[i].by] => buffer'[i].level = loglevel'
    BY <1>1
<1> QED
    BY <1>3, <1>4, <1>5, <1>6, <1>7 DEF LogState

LEMMA LogFlushKeeps ==
    ASSUME IInv, NEW t \in Thread, LogFlush(t)
    PROVE  IInv'
<1>1. phase = "up" /\ stack[t] # <<>> /\ Top(t).lib = "log"
    BY DEF LogFlush, At
<1>2. /\ UNCHANGED <<process, call, cause, origin, oom, errno, table, room, base>>
      /\ UNCHANGED <<verbose, loglevel, logfile, alone>>
      /\ shown' = Out /\ buffer' = <<>> /\ Pop(t, 0)
    BY DEF LogFlush, calls
<1>3. /\ OtherStacks(t) /\ CallStep(t) /\ ~Logs(t)'
      /\ StackOK(t)' /\ ErrorsOK(t)' /\ IdleOK(t)'
    BY <1>1, <1>2, LogPops
<1>4. \A u \in Thread : Logs(u)' => Logs(u) /\ Top(u)' = Top(u)
    BY <1>3 DEF OtherStacks, Logs, Top
<1>5. TypeOK /\ LogState /\ logfile' \in BOOLEAN
    BY <1>2 DEF IInv, TypeOK
<1>6. LogTypes' /\ LogState' /\ LogExact'
    BY <1>2, <1>4, <1>5, EmptyBuffer
<1> QED
    BY <1>1, <1>2, <1>3, <1>6, LogThreadStep

-----------------------------------------------------------------------------
(* The end of a program                                                    *)

LEMMA UpdateExitsKeeps ==
    ASSUME IInv, NEW t \in Thread, UpdateExits(t)
    PROVE  IInv'
<1>1. phase' = "gone" /\ UNCHANGED <<env, menu, todo, ops, path, thread, calls, logging>>
    BY DEF UpdateExits
<1>2. TypeOK' /\ LogExact'
    BY <1>1 DEF IInv, TypeOK, LogExact, thread, calls, logging
<1>3. LogState'
  <2>1. UNCHANGED <<stack, loglevel, buffer, alone>>
    BY <1>1 DEF thread, logging
  <2>2. (\A u \in Thread : (Logs(u)' <=> Logs(u)) /\ Top(u)' = Top(u)) /\ Writers' = Writers
    BY <2>1 DEF Logs, Top, Writers
  <2> QED
    BY <2>1, <2>2 DEF IInv, LogState
<1> QED
    BY <1>1, <1>2, <1>3 DEF IInv, Loading, Up

LEMMA FiniKeeps ==
    ASSUME IInv, Fini
    PROVE  IInv'
<1>1. /\ phase' = "gone" /\ path' = FALSE /\ Clear(Main) /\ shown' = Out /\ buffer' = <<>>
      /\ logfile' = FALSE /\ call' = [call EXCEPT ![Main] = "none"]
      /\ UNCHANGED <<env, menu, todo, ops, stack, ctl, rv, errno, cause, origin, oom>>
      /\ UNCHANGED <<verbose, loglevel, alone>>
    BY DEF Fini
<1>2. TypeOK /\ LogState /\ logfile' \in BOOLEAN
    BY <1>1 DEF IInv
<1>3. \A u \in Thread : Logs(u)' => Logs(u) /\ Top(u)' = Top(u)
    BY <1>1 DEF Logs, Top
<1>4. LogTypes' /\ LogState' /\ LogExact'
    BY <1>1, <1>2, <1>3, EmptyBuffer
<1>5. ErrStep(Main)
    BY <1>1, <1>2, MainAssumption, ClearStep
<1>6. ASSUME NEW u \in Thread PROVE base'[u] <= Len(table'[u]) /\ Len(table'[u]) <= room'[u]
    BY <1>2, <1>5 DEF ErrStep, TypeOK
<1>7. TypeOK'
    BY <1>1, <1>2, <1>4, <1>5, <1>6 DEF TypeOK, LogTypes, ErrStep
<1> QED
    BY <1>1, <1>4, <1>7 DEF IInv, Loading, Up

-----------------------------------------------------------------------------
(* Loading                                                                 *)

LEMMA NamedFacts ==
    ASSUME NEW n
    PROVE  /\ Named(n) \in 1 .. Len(Backends)
           /\ Backends[Named(n)] = IF n \in Range(Backends) THEN n ELSE "default"
<1> DEFINE P(i) == /\ Backends[i] \in {n, "default"}
                   /\ \A j \in 1 .. i - 1 : Backends[j] # n
<1>1. \E i \in DOMAIN Backends : P(i)
  <2>1. CASE n = "efivarfs"
    <3>1. P(1) /\ 1 \in DOMAIN Backends
      BY <2>1, BackendsFacts
    <3> QED
      BY <3>1
  <2>2. CASE n = "vars"
    <3>1. \A j \in 1 .. 2 - 1 : j = 1
      OBVIOUS
    <3>2. P(2) /\ 2 \in DOMAIN Backends
      BY <2>2, <3>1, BackendsFacts
    <3> QED
      BY <3>2
  <2>3. CASE n \notin {"efivarfs", "vars"}
    <3>1. \A j \in 1 .. 3 - 1 : j = 1 \/ j = 2
      OBVIOUS
    <3>2. P(3) /\ 3 \in DOMAIN Backends
      BY <2>3, <3>1, BackendsFacts
    <3> QED
      BY <3>2
  <2> QED
    BY <2>1, <2>2, <2>3
<1>2. Named(n) \in DOMAIN Backends /\ P(Named(n))
    BY <1>1 DEF Named
<1>3. Named(n) \in 1 .. 3
    BY <1>2, BackendsFacts
<1>4. CASE Backends[Named(n)] = n
  <2>1. n \in Range(Backends)
    BY <1>2, <1>4 DEF Range
  <2> QED
    BY <1>3, <1>4, <2>1, BackendsFacts
<1>5. CASE Backends[Named(n)] # n
  <2>1. Backends[Named(n)] = "default" /\ n # "default"
    BY <1>2, <1>5
  <2>2. Named(n) = 3
    BY <1>3, <2>1, BackendsFacts
  <2>3. Backends[1] # n /\ Backends[2] # n
    <3>1. 1 \in 1 .. Named(n) - 1 /\ 2 \in 1 .. Named(n) - 1
      BY <2>2
    <3> QED
      BY <1>2, <3>1
  <2> QED
    BY <1>3, <2>1, <2>3, BackendsFacts
<1> QED
    BY <1>4, <1>5

LEMMA SameEnvironment ==
    ASSUME env' = env
    PROVE  \A b : Usable(b)' <=> Usable(b)
BY DEF Usable

\* While the library is loaded nothing is logged.
LEMMA LoadStep ==
    ASSUME TypeOK', Loading', phase' # "up", buffer' = <<>>, LogExact',
           \A u \in Thread : ~Logs(u)'
    PROVE  IInv'
<1>1. Writers' = {} /\ Len(buffer') = 0
    BY DEF Writers
<1>2. Cardinality(Writers') = 0
    BY <1>1, FS_EmptySet
<1>3. LogState'
    BY <1>1, <1>2, Threads DEF LogState
<1> QED
    BY <1>3 DEF IInv, Up

LEMMA InitPathKeeps ==
    ASSUME IInv, InitPath
    PROVE  IInv'
<1>1. /\ TypeOK /\ Loading /\ LogExact /\ phase = "load" /\ phase' \in {"load", "gone"}
      /\ todo' = todo \ {"path"} /\ path' \in BOOLEAN /\ (phase' = "load" => path')
      /\ UNCHANGED <<env, menu, ops, thread, calls, logging>>
    BY DEF IInv, InitPath, TypeOK
<1>2. UNCHANGED <<stack, ctl, rv, errno, table, room, base>> /\ UNCHANGED <<call, cause, origin, oom>>
      /\ UNCHANGED <<verbose, loglevel, logfile, buffer, shown, alone>>
    BY <1>1 DEF thread, calls, logging
<1>3. TypeOK'
    BY <1>1, <1>2 DEF TypeOK
<1>4. Chosen' <=> Chosen
    BY <1>1, SameEnvironment, SameBackend DEF Chosen
<1>5. Loading'
    BY <1>1, <1>2, <1>4 DEF Loading
<1>6. buffer' = <<>> /\ LogExact' /\ \A u \in Thread : ~Logs(u)'
    BY <1>1, <1>2 DEF LogExact, Logs, Loading
<1> QED
    BY <1>1, <1>3, <1>5, <1>6, LoadStep

LEMMA InitLogKeeps ==
    ASSUME IInv, InitLog
    PROVE  IInv'
<1>1. /\ TypeOK /\ Loading /\ LogExact /\ phase = "load"
      /\ todo' = todo \ {"log"} /\ logfile' \in BOOLEAN
      /\ UNCHANGED <<env, menu, phase, ops, path, thread, calls, verbose, loglevel, buffer,
                     shown, alone>>
    BY DEF IInv, InitLog
<1>2. UNCHANGED <<stack, ctl, rv, errno, table, room, base>> /\ UNCHANGED <<call, cause, origin, oom>>
    BY <1>1 DEF thread, calls
<1>3. TypeOK'
    BY <1>1, <1>2 DEF TypeOK
<1>4. Chosen' <=> Chosen
    BY <1>1, SameEnvironment, SameBackend DEF Chosen
<1>5. Loading'
    BY <1>1, <1>2, <1>4 DEF Loading
<1>6. buffer' = <<>> /\ LogExact' /\ \A u \in Thread : ~Logs(u)'
    BY <1>1, <1>2 DEF LogExact, Logs, Loading
<1> QED
    BY <1>1, <1>3, <1>5, <1>6, LoadStep

\* A probe of the backend i begins.
LEMMA ProbeFrame ==
    ASSUME NEW i \in 1 .. Len(Backends)
    PROVE  LET f == [Frame("probe", Backends[i]) EXCEPT !.rc = i] IN
           f \in Frames /\ f.lib = "probe" /\ f.at = "start" /\ f.rc = i
<1> DEFINE h == Frame("probe", Backends[i])
<1>1. Backends[i] \in Range(Backends) /\ i \in Level \cup -1 .. Len(Backends)
    BY BackendsFacts
<1>2. h \in Frames /\ h.lib = "probe" /\ h.at = "start"
    BY <1>1, FrameFacts
<1> HIDE DEF h
<1>3. LET f == [h EXCEPT !.rc = i] IN f \in Frames /\ f.lib = h.lib /\ f.at = h.at /\ f.rc = i
    BY <1>1, <1>2 DEF Frames
<1> QED
    BY <1>2, <1>3 DEF h

LEMMA InitOpsKeeps ==
    ASSUME IInv, InitOps
    PROVE  IInv'
<1>1. /\ TypeOK /\ Loading /\ LogExact /\ phase = "load" /\ todo' = todo \ {"ops"}
      /\ UNCHANGED <<env, menu, path>> /\ UNCHANGED <<ctl, rv, errno, table, room, base>>
      /\ UNCHANGED <<call, cause, origin, oom>>
      /\ UNCHANGED <<verbose, loglevel, logfile, buffer, shown, alone>>
    BY DEF IInv, InitOps, calls, logging
<1>2. buffer' = <<>> /\ LogExact'
    BY <1>1 DEF LogExact, Loading
<1>3. CASE phase' = "gone" /\ UNCHANGED <<ops, stack>>
  <2>1. TypeOK'
    BY <1>1, <1>3 DEF TypeOK
  <2>2. Loading' /\ \A u \in Thread : ~Logs(u)'
    BY <1>1, <1>3 DEF Loading, Logs
  <2> QED
    BY <1>2, <1>3, <2>1, <2>2, LoadStep
<1>4. CASE /\ env.name \notin {"help", "unset"}
           /\ ops' = Named(env.name)
           /\ UNCHANGED <<phase, stack>>
  <2>1. ops' \in 1 .. 3 /\ Len(Backends) = 3
    BY <1>4, NamedFacts, BackendsFacts
  <2>2. TypeOK'
    BY <1>1, <1>4, <2>1 DEF TypeOK
  <2>3. ops' # 0 /\ Backend' = Backends[Named(env.name)]
    BY <1>4, <2>1 DEF Backend
  <2>4. Chosen'
    BY <1>1, <1>4, <2>3, NamedFacts DEF Chosen
  <2>5. Loading'
    BY <1>1, <1>4, <2>4 DEF Loading
  <2>6. \A u \in Thread : ~Logs(u)'
    BY <1>1, <1>4 DEF Loading, Logs
  <2> QED
    BY <1>1, <1>2, <1>4, <2>2, <2>5, <2>6, LoadStep
<1>5. CASE /\ env.name = "unset"
           /\ phase' = "probe"
           /\ stack' = [stack EXCEPT ![Main] = <<[Frame("probe", "efivarfs") EXCEPT !.rc = 1]>>]
           /\ UNCHANGED ops
  <2> DEFINE f == [Frame("probe", "efivarfs") EXCEPT !.rc = 1]
  <2>1. f \in Frames /\ f.lib = "probe" /\ f.at = "start" /\ f.rc = 1
    <3>1. 1 \in 1 .. Len(Backends) /\ Backends[1] = "efivarfs"
      BY BackendsFacts
    <3> QED
      BY <3>1, ProbeFrame
  <2>2. stack' = [stack EXCEPT ![Main] = <<f>>]
    BY <1>5
  <2> HIDE DEF f
  <2>3. <<f>> \in Seq(Frames) /\ Len(<<f>>) = 1 /\ <<f>>[1] = f
    BY <2>1
  <2>4. /\ stack' \in [Thread -> Seq(Frames)] /\ stack'[Main] = <<f>>
        /\ \A u \in Thread \ {Main} : stack'[u] = stack[u]
    <3>1. stack \in [Thread -> Seq(Frames)]
      BY <1>1 DEF TypeOK
    <3> QED
      BY <2>2, <2>3, <3>1, MainAssumption
  <2>5. TypeOK'
    BY <1>1, <1>5, <2>4 DEF TypeOK
  <2>6. Probed'
    <3>1. Len(stack'[Main]) = 1 /\ stack'[Main][1] = f /\ 1 \in 1 .. Len(Backends)
      BY <2>3, <2>4, BackendsFacts
    <3> QED
      BY <2>1, <3>1 DEF Probed
  <2>7. Loading'
    BY <1>1, <1>5, <2>4, <2>6 DEF Loading
  <2>8. \A u \in Thread : ~Logs(u)'
    BY <1>1, <2>1, <2>3, <2>4 DEF Loading, Logs, Top, Last
  <2> QED
    BY <1>2, <1>5, <2>5, <2>7, <2>8, LoadStep
<1> QED
    BY <1>3, <1>4, <1>5 DEF InitOps

\* The frame of the probes, while there is one.
LEMMA Probing ==
    ASSUME IInv, phase = "probe"
    PROVE  LET f == Top(Main) IN
           /\ TypeOK /\ Loading /\ LogExact /\ buffer = <<>> /\ Main \in Thread
           /\ Len(stack[Main]) = 1 /\ stack[Main] # <<>> /\ stack[Main][1] = f
           /\ f \in Frames /\ f.lib = "probe" /\ f.rc \in 1 .. 3 /\ Len(Backends) = 3
           /\ \A i \in 1 .. f.rc - 1 : ~Usable(Backends[i])
           /\ f.at = "failed" => ~Usable(Backends[f.rc])
           /\ f.at = "found" => Usable(Backends[f.rc])
           /\ env.name = "unset" /\ "ops" \notin todo
<1>1. TypeOK /\ Loading /\ LogExact /\ buffer = <<>> /\ Main \in Thread /\ Probed
    BY MainAssumption DEF IInv, Loading
<1>2. Len(stack[Main]) = 1 /\ stack[Main] # <<>>
    BY <1>1 DEF Probed
<1>3. stack[Main][1] = Top(Main) /\ Top(Main) \in Frames
    BY <1>1, <1>2, TopFacts
<1> QED
    BY <1>1, <1>2, <1>3, BackendsFacts DEF Probed, Loading

\* A step of the probes: Main has the frame g.
LEMMA ProbeStep ==
    ASSUME IInv, phase = "probe", ErrStep(Main), NEW g \in Frames,
           stack' \in [Thread -> Seq(Frames)], \A u \in Thread \ {Main} : stack'[u] = stack[u],
           Len(stack'[Main]) = 1, stack'[Main][1] = g,
           g.lib = "probe", g.rc \in 1 .. Len(Backends), g.at \in {"start", "failed", "found"},
           \A i \in 1 .. g.rc - 1 : ~Usable(Backends[i]),
           g.at = "failed" => ~Usable(Backends[g.rc]),
           g.at = "found" => Usable(Backends[g.rc]),
           path' \in BOOLEAN, path => path',
           UNCHANGED <<env, menu, phase, todo, ops, ctl, rv, call, cause, origin, logging>>
    PROVE  IInv'
<1>1. /\ TypeOK /\ Loading /\ LogExact /\ buffer = <<>> /\ Main \in Thread
      /\ env.name = "unset" /\ "ops" \notin todo
    BY Probing
<1>2. UNCHANGED <<verbose, loglevel, logfile, buffer, shown, alone>>
    BY DEF logging
<1>3. ASSUME NEW u \in Thread PROVE base'[u] <= Len(table'[u]) /\ Len(table'[u]) <= room'[u]
    BY <1>1 DEF ErrStep, TypeOK
<1>4. TypeOK'
    BY <1>1, <1>2, <1>3 DEF TypeOK, ErrStep
<1>5. Probed'
    BY SameEnvironment DEF Probed
<1>6. Loading'
    BY <1>1, <1>2, <1>5 DEF Loading
<1>7. \A u \in Thread : ~Logs(u)'
    BY <1>1 DEF Loading, Logs, Top, Last
<1>8. LogExact' /\ buffer' = <<>>
    BY <1>1, <1>2 DEF LogExact
<1> QED
    BY <1>4, <1>6, <1>7, <1>8, LoadStep

\* The probe of the frame goes on at l.
LEMMA ProbeGoto ==
    ASSUME IInv, phase = "probe", NEW l \in {"failed", "found"},
           stack' = [stack EXCEPT ![Main][1].at = l]
    PROVE  LET g == [Top(Main) EXCEPT !.at = l] IN
           /\ g \in Frames /\ g.lib = "probe" /\ g.rc = Top(Main).rc /\ g.at = l
           /\ stack' \in [Thread -> Seq(Frames)]
           /\ \A u \in Thread \ {Main} : stack'[u] = stack[u]
           /\ Len(stack'[Main]) = 1 /\ stack'[Main][1] = g
<1>1. /\ TypeOK /\ Main \in Thread /\ Len(stack[Main]) = 1 /\ stack[Main] # <<>>
      /\ Top(Main) \in Frames /\ Top(Main).lib = "probe" /\ l \in Labels
    BY Probing DEF Labels
<1>2. stack' = [stack EXCEPT ![Main][Len(stack[Main])].at = l]
    BY <1>1
<1>3. /\ Moved(Main, [Top(Main) EXCEPT !.at = l]) /\ stack' \in [Thread -> Seq(Frames)]
      /\ \A u \in Thread \ {Main} : stack'[u] = stack[u]
    BY <1>1, <1>2, GotoMoves
<1> QED
    BY <1>1, <1>3, FrameSet DEF Moved

LEMMA ProbeKeeps ==
    ASSUME IInv, Probe
    PROVE  IInv'
<1> DEFINE b == Backends[Top(Main).rc]
<1>1. /\ phase = "probe" /\ Top(Main).rc \in 1 .. Len(Backends) /\ TypeOK /\ Main \in Thread
      /\ \A i \in 1 .. Top(Main).rc - 1 : ~Usable(Backends[i])
      /\ b \in Range(Backends) /\ b \in Recorders
  <2>1. phase = "probe" /\ Top(Main).rc \in 1 .. 3 /\ Len(Backends) = 3 /\ TypeOK /\ Main \in Thread
        /\ \A i \in 1 .. Top(Main).rc - 1 : ~Usable(Backends[i])
    BY Probing DEF Probe, ProbeAt
  <2>2. b \in Range(Backends)
    BY <2>1, BackendsFacts
  <2> QED
    BY <2>1, <2>2, Names
<1>2. /\ path' = (path \/ b = "efivarfs")
      /\ UNCHANGED <<env, menu, phase, todo, ops, ctl, rv, call, cause, origin, logging>>
    BY DEF Probe
<1>3. path' \in BOOLEAN /\ (path => path')
    BY <1>1, <1>2 DEF TypeOK
<1>4. CASE Usable(b)
  <2>1. stack' = [stack EXCEPT ![Main][1].at = "found"] /\ UNCHANGED <<errno, oom>>
    BY <1>4 DEF Probe
  <2>2. ErrStep(Main)
    <3>1. CASE Clear(Main)
      BY <1>1, <2>1, <3>1, ClearStep
    <3>2. CASE UNCHANGED <<table, room, base>>
      <4>1. errno' \in [Thread -> Code]
        BY <1>1, <2>1 DEF TypeOK
      <4> QED
        BY <1>1, <2>1, <3>2, <4>1, ErrSame
    <3> QED
      BY <1>4, <3>1, <3>2 DEF Probe
  <2> DEFINE g == [Top(Main) EXCEPT !.at = "found"]
  <2>3. /\ g \in Frames /\ g.lib = "probe" /\ g.rc = Top(Main).rc /\ g.at = "found"
        /\ stack' \in [Thread -> Seq(Frames)]
        /\ \A u \in Thread \ {Main} : stack'[u] = stack[u]
        /\ Len(stack'[Main]) = 1 /\ stack'[Main][1] = g
    BY <1>1, <2>1, ProbeGoto
  <2> HIDE DEF g
  <2> QED
    BY <1>1, <1>2, <1>3, <1>4, <2>2, <2>3, ProbeStep
<1>5. CASE ~Usable(b)
  <2>1. stack' = [stack EXCEPT ![Main][1].at = "failed"]
    BY <1>5 DEF Probe
  <2>2. PICK e \in Errno \cup {errno[Main]} : Efi_error(Main, b, e)
    BY <1>5 DEF Probe
  <2>3. e \in Code /\ "ENOMEM" \in Code
    BY <1>1, Names DEF TypeOK
  <2>4. ErrStep(Main)
    BY <1>1, <2>2, <2>3, RecordStep DEF Efi_error
  <2> DEFINE g == [Top(Main) EXCEPT !.at = "failed"]
  <2>5. /\ g \in Frames /\ g.lib = "probe" /\ g.rc = Top(Main).rc /\ g.at = "failed"
        /\ stack' \in [Thread -> Seq(Frames)]
        /\ \A u \in Thread \ {Main} : stack'[u] = stack[u]
        /\ Len(stack'[Main]) = 1 /\ stack'[Main][1] = g
    BY <1>1, <2>1, ProbeGoto
  <2> HIDE DEF g
  <2> QED
    BY <1>1, <1>2, <1>3, <1>5, <2>4, <2>5, ProbeStep
<1> QED
    BY <1>4, <1>5

LEMMA ProbeFailedKeeps ==
    ASSUME IInv, ProbeFailed
    PROVE  IInv'
<1> DEFINE i == Top(Main).rc + 1
           f == [Frame("probe", Backends[i]) EXCEPT !.rc = i]
<1>1. /\ phase = "probe" /\ Top(Main).rc \in 1 .. 3 /\ Len(Backends) = 3 /\ TypeOK /\ Main \in Thread
      /\ \A j \in 1 .. Top(Main).rc - 1 : ~Usable(Backends[j])
      /\ ~Usable(Backends[Top(Main).rc])
    BY Probing DEF ProbeFailed, ProbeAt
<1>2. Top(Main).rc # 3
    BY <1>1, BackendsFacts DEF Usable
<1>3. i \in 1 .. 3
    BY <1>1, <1>2
<1>4. f \in Frames /\ f.lib = "probe" /\ f.at = "start" /\ f.rc = i
    BY <1>1, <1>3, ProbeFrame
<1>5. ASSUME NEW j \in 1 .. i - 1 PROVE ~Usable(Backends[j])
  <2>1. j \in 1 .. Top(Main).rc - 1 \/ j = Top(Main).rc
    BY <1>1
  <2> QED
    BY <1>1, <2>1
<1>6. /\ stack' = [stack EXCEPT ![Main] = <<f>>]
      /\ Efi_error(Main, "libefivar_init", errno[Main])
      /\ UNCHANGED <<process, ctl, rv, call, cause, origin, logging>>
    BY DEF ProbeFailed
<1> HIDE DEF f, i
<1>7. errno[Main] \in Code /\ "ENOMEM" \in Code /\ "libefivar_init" \in Recorders
    BY <1>1, Names DEF TypeOK
<1>8. ErrStep(Main)
    BY <1>1, <1>6, <1>7, RecordStep DEF Efi_error
<1>9. <<f>> \in Seq(Frames) /\ Len(<<f>>) = 1 /\ <<f>>[1] = f
    BY <1>4
<1>10. /\ stack' \in [Thread -> Seq(Frames)] /\ stack'[Main] = <<f>>
       /\ \A u \in Thread \ {Main} : stack'[u] = stack[u]
    BY <1>1, <1>6, <1>9 DEF TypeOK
<1>11. /\ UNCHANGED <<env, menu, phase, todo, ops, ctl, rv, call, cause, origin, logging>>
       /\ path' = path /\ path' \in BOOLEAN
    BY <1>1, <1>6 DEF process, TypeOK
<1> QED
    BY <1>1, <1>3, <1>4, <1>5, <1>8, <1>9, <1>10, <1>11, ProbeStep

LEMMA ProbeFoundKeeps ==
    ASSUME IInv, ProbeFound
    PROVE  IInv'
<1>1. /\ phase = "probe" /\ Top(Main).rc \in 1 .. 3 /\ Len(Backends) = 3 /\ TypeOK /\ Main \in Thread
      /\ \A j \in 1 .. Top(Main).rc - 1 : ~Usable(Backends[j])
      /\ Usable(Backends[Top(Main).rc]) /\ Loading /\ LogExact /\ buffer = <<>>
      /\ env.name = "unset" /\ "ops" \notin todo
    BY Probing DEF ProbeFound, ProbeAt
<1>2. /\ Clear(Main) /\ ops' = Top(Main).rc /\ phase' = "load"
      /\ stack' = [stack EXCEPT ![Main] = <<>>]
      /\ UNCHANGED <<env, menu, todo, path, ctl, rv, errno>>
      /\ UNCHANGED <<call, cause, origin, oom>>
      /\ UNCHANGED <<verbose, loglevel, logfile, buffer, shown, alone>>
    BY DEF ProbeFound, calls, logging
<1>3. ErrStep(Main) /\ table'[Main] = <<>>
    BY <1>1, <1>2, ClearStep
<1>4. /\ stack' \in [Thread -> Seq(Frames)] /\ stack'[Main] = <<>>
      /\ \A u \in Thread \ {Main} : stack'[u] = stack[u]
    BY <1>1, <1>2 DEF TypeOK
<1>5. ASSUME NEW u \in Thread PROVE base'[u] <= Len(table'[u]) /\ Len(table'[u]) <= room'[u]
    BY <1>1, <1>3 DEF ErrStep, TypeOK
<1>6. ops' \in 1 .. 3 /\ ops' \in 0 .. Len(Backends) /\ ops' # 0
    BY <1>1, <1>2
<1>7. TypeOK'
    BY <1>1, <1>2, <1>3, <1>4, <1>5, <1>6 DEF TypeOK, ErrStep
<1>8. Chosen'
  <2>1. Backend' = Backends[Top(Main).rc]
    BY <1>2, <1>6 DEF Backend
  <2> QED
    BY <1>1, <1>2, <1>6, <2>1, SameEnvironment DEF Chosen
<1>9. Loading'
    BY <1>1, <1>2, <1>3, <1>4, <1>8 DEF Loading
<1>10. \A u \in Thread : ~Logs(u)'
    BY <1>1, <1>4 DEF Loading, Logs
<1>11. LogExact' /\ buffer' = <<>>
    BY <1>1, <1>2 DEF LogExact
<1> QED
    BY <1>2, <1>7, <1>9, <1>10, <1>11, LoadStep

LEMMA LoadedKeeps ==
    ASSUME IInv, Loaded
    PROVE  IInv'
<1>1. /\ TypeOK /\ Loading /\ LogExact /\ phase = "load" /\ phase' = "up"
      /\ env' = NoEnvironment /\ oom' = [oom EXCEPT ![Main] = FALSE]
      /\ UNCHANGED <<menu, todo, ops, path>>
      /\ UNCHANGED <<stack, ctl, rv, errno, table, room, base>> /\ UNCHANGED <<call, cause, origin>>
      /\ UNCHANGED <<verbose, loglevel, logfile, buffer, shown, alone>>
    BY DEF IInv, Loaded, thread, logging
<1>2. TypeOK'
  <2>1. env' \in Environments /\ oom' \in [Thread -> BOOLEAN]
    BY <1>1 DEF NoEnvironment, Environments, TypeOK
  <2> QED
    BY <1>1, <2>1 DEF TypeOK
<1>3. ASSUME NEW u \in Thread
      PROVE  stack'[u] = <<>> /\ ctl'[u] = "idle" /\ call'[u] = "none" /\ origin'[u] = "none"
    BY <1>1 DEF Loading
<1>4. ASSUME NEW u \in Thread PROVE StackOK(u)' /\ ErrorsOK(u)' /\ IdleOK(u)'
  <2>1. ~Looking(u)'
    BY <1>3 DEF Looking
  <2>2. StackOK(u)' /\ IdleOK(u)'
    BY <1>3 DEF StackOK, IdleOK, Public
  <2>3. ErrorsOK(u)'
    BY <1>3, <2>1 DEF ErrorsOK
  <2> QED
    BY <2>2, <2>3
<1>5. Writers' = {} /\ Len(buffer') = 0 /\ \A u \in Thread : ~Logs(u)'
    BY <1>1, <1>3 DEF Writers, Logs, Loading
<1>6. LogState'
    BY <1>5, FS_EmptySet, Threads DEF LogState
<1>7. Loading' /\ LogExact'
    BY <1>1 DEF Loading, LogExact
<1> QED
    BY <1>2, <1>4, <1>6, <1>7 DEF IInv, Up

-----------------------------------------------------------------------------
(* Theorems                                                                *)

LEMMA InitEstablishes == Init => IInv
<1> SUFFICES ASSUME Init PROVE IInv
    OBVIOUS
<1>1. <<>> \in Seq(Frames) /\ <<>> \in Seq(Entry) /\ <<>> \in Seq(Messages) /\ Len(<<>>) = 0
    OBVIOUS
<1>2. 0 \in 0 .. Len(Backends) /\ "0" \in Code
    BY BackendsFacts DEF Code
<1>3. TypeOK
  <2>1. /\ env \in Environments /\ menu \in Menus /\ phase \in {"load", "probe", "up", "gone"}
        /\ todo \subseteq {"path", "log", "ops"} /\ ops \in 0 .. Len(Backends) /\ path \in BOOLEAN
    BY <1>2 DEF Init
  <2>2. /\ stack \in [Thread -> Seq(Frames)] /\ ctl \in [Thread -> {"idle", "call", "return"}]
        /\ rv \in [Thread -> {-1, 0, 1}] /\ errno \in [Thread -> Code]
        /\ table \in [Thread -> Seq(Entry)]
        /\ room \in [Thread -> Nat] /\ base \in [Thread -> Nat]
    BY <1>1, <1>2 DEF Init
  <2>3. \A t \in Thread : base[t] <= Len(table[t]) /\ Len(table[t]) <= room[t]
    BY <1>1 DEF Init
  <2>4. /\ call \in [Thread -> Public \cup {"none"}] /\ cause \in [Thread -> Code \cup {"none"}]
        /\ origin \in [Thread -> Origins \cup {"none"}] /\ oom \in [Thread -> BOOLEAN]
    BY DEF Init
  <2>5. /\ verbose \in Level \cup {0} /\ loglevel \in Level \cup {0} /\ logfile \in BOOLEAN
        /\ alone \in [Thread -> BOOLEAN] /\ shown \subseteq Shown
    BY DEF Init
  <2>6. buffer \in Seq(Messages) /\ Len(buffer) <= Pending + Cardinality(Thread)
    BY <1>1, Threads DEF Init
  <2> QED
    BY <2>1, <2>2, <2>3, <2>4, <2>5, <2>6 DEF TypeOK
<1>4. Loading
    BY MainAssumption DEF Init, Loading
<1>5. Up /\ LogExact
    BY DEF Init, Up, LogExact
<1>6. Writers = {} /\ Len(buffer) = 0 /\ \A t \in Thread : ~Logs(t)
    BY <1>1 DEF Init, Writers, Logs
<1>7. LogState
    BY <1>6, FS_EmptySet, Threads DEF LogState
<1> QED
    BY <1>3, <1>4, <1>5, <1>7 DEF IInv

LEMMA StutterKeeps ==
    ASSUME IInv, UNCHANGED vars
    PROVE  IInv'
<1>1. /\ UNCHANGED <<env, menu, phase, todo, ops, path>>
      /\ UNCHANGED <<stack, ctl, rv, errno, table, room, base>>
      /\ UNCHANGED <<call, cause, origin, oom>>
      /\ UNCHANGED <<verbose, loglevel, logfile, buffer, shown, alone>>
    BY DEF vars, process, thread, calls, logging
<1>2. Backend' = Backend /\ (\A b : Usable(b)' <=> Usable(b))
    BY <1>1, SameBackend, SameEnvironment
<1>3. TypeOK' /\ LogExact'
    BY <1>1 DEF IInv, TypeOK, LogExact
<1>4. Loading'
  <2>1. (Chosen' <=> Chosen) /\ (Probed' <=> Probed)
    BY <1>1, <1>2 DEF Chosen, Probed
  <2> QED
    BY <1>1, <2>1 DEF IInv, Loading
<1>5. ASSUME NEW t \in Thread, phase = "up" PROVE StackOK(t)' /\ ErrorsOK(t)' /\ IdleOK(t)'
  <2>1. StackOK(t) /\ ErrorsOK(t) /\ IdleOK(t)
    BY <1>5 DEF IInv, Up
  <2>2. (Told(t)' <=> Told(t)) /\ (Looking(t)' <=> Looking(t)) /\ Top(t)' = Top(t)
    BY <1>1, <1>2 DEF Told, Blamed, InUpdate, LateErrno, Looking, Top
  <2>3. StackOK(t)'
    BY <1>1, <1>2, <2>1 DEF StackOK, Proper
  <2>4. ErrorsOK(t)'
    BY <1>1, <1>2, <2>1, <2>2 DEF ErrorsOK
  <2>5. IdleOK(t)'
    BY <1>1, <2>1, <2>2 DEF IdleOK
  <2> QED
    BY <2>3, <2>4, <2>5
<1>6. LogState'
  <2>1. (\A u \in Thread : (Logs(u)' <=> Logs(u)) /\ Top(u)' = Top(u)) /\ Writers' = Writers
    BY <1>1 DEF Logs, Top, Writers
  <2> QED
    BY <1>1, <2>1 DEF IInv, LogState
<1> QED
    BY <1>1, <1>3, <1>4, <1>5, <1>6 DEF IInv, Up

LEMMA NextPreserves == IInv /\ [Next]_vars => IInv'
<1> SUFFICES ASSUME IInv, [Next]_vars PROVE IInv'
    OBVIOUS
<1>1. CASE UNCHANGED vars
    BY <1>1, StutterKeeps
<1>2. CASE InitPath \/ InitLog \/ InitOps
    BY <1>2, InitPathKeeps, InitLogKeeps, InitOpsKeeps
<1>3. CASE Probe \/ ProbeFailed \/ ProbeFound \/ Loaded
    BY <1>3, ProbeKeeps, ProbeFailedKeeps, ProbeFoundKeeps, LoadedKeeps
<1>4. CASE Fini
    BY <1>4, FiniKeeps
<1>5. ASSUME NEW t \in Thread, Step(t) PROVE IInv'
  <2>1. CASE Call(t) \/ Enter(t) \/ EnterMissing(t) \/ LeaveFailed(t) \/ Leave(t)
    BY <2>1, CallKeeps, EnterKeeps, EnterMissingKeeps, LeaveFailedKeeps, LeaveKeeps
  <2>2. CASE LeafSucceeds(t) \/ LeafFails(t) \/ LeafRefuses(t) \/ ChmodFails(t) \/ ChmodSilent(t)
    BY <2>2, LeafSucceedsKeeps, LeafFailsKeeps, LeafRefusesKeeps, ChmodFailsKeeps,
       ChmodSilentKeeps
  <2>3. CASE Attrs(t) \/ AttrsDone(t) \/ FsAppend(t) \/ FsAppendDone(t)
    BY <2>3, AttrsKeeps, AttrsDoneKeeps, FsAppendKeeps, FsAppendDoneKeeps
  <2>4. CASE FsSet(t) \/ UpdateExits(t) \/ FsSetDone(t) \/ FsRollback(t)
    BY <2>4, FsSetKeeps, UpdateExitsKeeps, FsSetDoneKeeps, FsRollbackKeeps
  <2>5. CASE \/ FsDel(t) \/ FsUnlink(t) \/ FsDelDone(t) \/ VarsSet(t) \/ VarsSetDeleted(t)
             \/ VarsWrite(t)
    BY <2>5, FsDelKeeps, FsUnlinkKeeps, FsDelDoneKeeps, VarsSetKeeps, VarsSetDeletedKeeps,
       VarsWriteKeeps
  <2>6. CASE \/ GenericAppend(t) \/ AppendFound(t) \/ AppendMissing(t) \/ AppendDeleted(t)
             \/ AppendReset(t) \/ AppendSet(t)
    BY <2>6, GenericAppendKeeps, AppendFoundKeeps, AppendMissingKeeps, AppendDeletedKeeps,
       AppendResetKeeps, AppendSetKeeps
  <2>7. CASE Errors(t) \/ Efi_set_verbose(t) \/ LogBegin(t) \/ LogWrite(t) \/ LogFlush(t)
    BY <2>7, ErrorsKeeps, Efi_set_verboseKeeps, LogBeginKeeps, LogWriteKeeps, LogFlushKeeps
  <2> QED
    BY <1>5, <2>1, <2>2, <2>3, <2>4, <2>5, <2>6, <2>7 DEF Step
<1> QED
    BY <1>1, <1>2, <1>3, <1>4, <1>5 DEF Next

\* The invariant that the proofs are about holds in every reachable state of
\* the library, whatever the threads of the program call.
THEOREM Invariance == Spec => []IInv
<1>1. Init => IInv
    BY InitEstablishes
<1>2. IInv /\ [Next]_vars => IInv'
    BY NextPreserves
<1> QED
    BY <1>1, <1>2, PTL DEF Spec

\* Every variable keeps its type, and the table of errors never has more
\* entries than error.c has allocated memory for.
THEOREM TypeCorrect == Spec => []TypeOK
<1>1. IInv => TypeOK
    BY DEF IInv
<1> QED
    BY <1>1, Invariance, PTL

\* However the constructors are ordered (lib.c:232), the program starts with
\* a backend, the right one, and without the errors of the probes.
THEOREM LoadsRight == Spec => []LoadRight
<1>1. IInv => LoadRight
    BY DEF IInv, Loading, Chosen, LoadRight
<1> QED
    BY <1>1, Invariance, PTL

\* The errno of a failed call is that of the failure, whatever the functions
\* between it and the entry point did on the way back, but for the two
\* functions of the backends that save errno too late.
THEOREM ErrnoTells == Spec => []ErrnoIsCause
<1>1. ASSUME IInv, NEW t \in Thread, Failed(t), ~oom[t], cause[t] # "none",
             origin[t] # "write", ~(Backend = "efivarfs" /\ call[t] = "del")
      PROVE  errno[t] = cause[t]
  <2>1. TypeOK /\ StackOK(t) /\ IdleOK(t) /\ ctl[t] = "idle" /\ call[t] \in Public /\ rv[t] < 0
    BY <1>1 DEF IInv, Up, Failed
  <2>2. ~InUpdate(t)
    BY <2>1 DEF StackOK, InUpdate
  <2>3. Told(t)
    BY <2>1 DEF IdleOK
  <2> QED
    BY <1>1, <2>2, <2>3 DEF Told, LateErrno, Blamed
<1>2. IInv => ErrnoIsCause
    BY <1>1 DEF ErrnoIsCause
<1> QED
    BY <1>2, Invariance, PTL

\* The table of errors tells the truth about a call: it is empty after a
\* success, and after a failure it leads from the function that failed to the
\* entry point the program called.
THEOREM TraceTells == Spec => []TraceRight
<1>1. ASSUME IInv, NEW t \in Thread
      PROVE  Succeeded(t) /\ call[t] # "set0" => table[t] = <<>>
    BY <1>1 DEF IInv, Up, Succeeded, IdleOK
<1>2. ASSUME IInv, NEW t \in Thread, Failed(t), ~oom[t]
      PROVE  LET new == SubSeq(table[t], base[t] + 1, Len(table[t])) IN
             /\ new # <<>> /\ Last(new).fn = call[t]
             /\ origin[t] # "none" /\ ~(Backend = "efivarfs" /\ call[t] = "del") =>
                 \E i \in DOMAIN new : new[i].fn = origin[t]
  <2> DEFINE new == SubSeq(table[t], base[t] + 1, Len(table[t]))
             n == Len(table[t])
             b == base[t]
  <2>1. TypeOK /\ StackOK(t) /\ IdleOK(t) /\ ctl[t] = "idle" /\ call[t] \in Public /\ rv[t] < 0
    BY <1>2 DEF IInv, Up, Failed
  <2>2. table[t] \in Seq(Entry) /\ n \in Nat /\ b \in Nat
    BY <2>1 DEF TypeOK
  <2>3. Told(t) /\ b < n /\ table[t][n].fn = call[t]
    BY <1>2, <2>1 DEF IdleOK
  <2>4. \A i \in b + 1 .. n : table[t][i] \in Entry
    BY <2>2
  <2>5. b + 1 \in Int /\ n \in Int /\ b + 1 <= n
    BY <2>2, <2>3
  <2>6. /\ new \in Seq(Entry)
        /\ Len(new) = IF b + 1 <= n THEN n - (b + 1) + 1 ELSE 0
        /\ \A i \in 1 .. n - (b + 1) + 1 : new[i] = table[t][b + 1 + i - 1]
    BY <2>4, <2>5, SubSeqProperties
  <2> HIDE DEF new, n, b
  <2>7. Len(new) = n - b /\ DOMAIN new = 1 .. n - b
    <3>1. n - (b + 1) + 1 = n - b
      BY <2>2
    <3> QED
      BY <2>5, <2>6, <3>1
  <2>8. ASSUME NEW i \in 1 .. n - b PROVE new[i] = table[t][b + i]
    <3>1. i \in 1 .. n - (b + 1) + 1 /\ b + 1 + i - 1 = b + i
      BY <2>2
    <3> QED
      BY <2>6, <3>1
  <2>9. n - b \in 1 .. n - b /\ b + (n - b) = n
    BY <2>2, <2>3
  <2>10. new # <<>> /\ Last(new).fn = call[t]
    BY <2>3, <2>6, <2>7, <2>8, <2>9 DEF Last
  <2>11. ASSUME origin[t] # "none", ~(Backend = "efivarfs" /\ call[t] = "del")
         PROVE  \E i \in DOMAIN new : new[i].fn = origin[t]
    <3>1. ~InUpdate(t)
      BY <2>1 DEF StackOK, InUpdate
    <3>2. Blamed(t)
      BY <1>2, <2>3, <2>11, <3>1 DEF Told, LateErrno
    <3>3. PICK j \in b + 1 .. n : table[t][j].fn = origin[t]
      BY <2>11, <3>2 DEF Blamed, n, b
    <3>4. j - b \in 1 .. n - b /\ b + (j - b) = j
      BY <2>2
    <3>5. new[j - b] = table[t][j]
      BY <2>8, <3>4
    <3> QED
      BY <2>7, <3>3, <3>4, <3>5
  <2> QED
    BY <2>10, <2>11 DEF new
<1>3. IInv => CleanAfterSuccess
    BY <1>1 DEF CleanAfterSuccess
<1>4. IInv => TraceComplete
    BY <1>2 DEF TraceComplete
<1>5. IInv => TraceRight
    BY <1>3, <1>4 DEF TraceRight
<1> QED
    BY <1>5, Invariance, PTL

\* A message that no other thread disturbed gets out exactly when its level is
\* within the verbosity (dbglog_write).
THEOREM LogTells == Spec => []LogExact
<1>1. IInv => LogExact
    BY DEF IInv
<1> QED
    BY <1>1, Invariance, PTL

-----------------------------------------------------------------------------
(* Errors are not lost                                                     *)

\* No thread has lost an error.
Grown == \A t \in Thread : IsPrefix(table[t], table'[t])

LEMMA PrefixOf ==
    ASSUME NEW S, NEW s \in Seq(S), NEW r \in Seq(S), Len(s) <= Len(r),
           \A i \in 1 .. Len(s) : r[i] = s[i]
    PROVE  IsPrefix(s, r)
<1> DEFINE p == SubSeq(s, 1, Len(s))
           q == SubSeq(r, 1, Len(s))
           n == Len(s)
<1>1. n \in Nat /\ Len(r) \in Nat /\ 1 \in Int /\ n \in Int
    OBVIOUS
<1>2. \A i \in 1 .. n : s[i] \in S /\ r[i] \in S
    BY <1>1
<1>3. /\ p \in Seq(S) /\ Len(p) = IF 1 <= n THEN n - 1 + 1 ELSE 0
      /\ \A i \in 1 .. n - 1 + 1 : p[i] = s[1 + i - 1]
    BY <1>1, <1>2, SubSeqProperties
<1>4. /\ q \in Seq(S) /\ Len(q) = IF 1 <= n THEN n - 1 + 1 ELSE 0
      /\ \A i \in 1 .. n - 1 + 1 : q[i] = r[1 + i - 1]
    BY <1>1, <1>2, SubSeqProperties
<1> HIDE DEF p, q
<1>5. ASSUME NEW m, m = IF 1 <= n THEN n - 1 + 1 ELSE 0 PROVE m = n
    BY <1>1, <1>5
<1>6. Len(p) = n /\ Len(q) = n
    BY <1>3, <1>4, <1>5
<1>7. ASSUME NEW i \in 1 .. Len(p) PROVE p[i] = q[i]
  <2>1. i \in 1 .. n - 1 + 1 /\ 1 + i - 1 = i /\ i \in 1 .. n
    BY <1>1, <1>6
  <2> QED
    BY <1>3, <1>4, <2>1
<1>8. p = q
    BY <1>3, <1>4, <1>6, <1>7, SeqEqual
<1> QED
    BY <1>8 DEF IsPrefix, p, q

LEMMA SameGrown ==
    ASSUME TypeOK, UNCHANGED table
    PROVE  Grown
<1>1. \A t \in Thread : table[t] \in Seq(Entry) /\ Len(table[t]) \in Nat
    BY DEF TypeOK
<1> QED
    BY <1>1, PrefixOf DEF Grown

LEMMA RecordGrown ==
    ASSUME TypeOK, NEW t \in Thread, NEW f, NEW e, NEW good, NEW bad, Record(t, f, e, good, bad)
    PROVE  Grown
<1> DEFINE x == [fn |-> f, error |-> e]
<1>1. table \in [Thread -> Seq(Entry)]
    BY DEF TypeOK
<1>2. CASE table' = [table EXCEPT ![t] = Append(@, x)]
  <2> HIDE DEF x
  <2> DEFINE S == Entry \cup {x}
  <2>1. table[t] \in Seq(Entry) /\ table'[t] = Append(table[t], x)
    BY <1>1, <1>2
  <2>2. table[t] \in Seq(S)
    BY <2>1, SeqMonotonic
  <2>3. Append(table[t], x) \in Seq(S) /\ Len(table[t]) <= Len(Append(table[t], x))
        /\ \A i \in 1 .. Len(table[t]) : Append(table[t], x)[i] = table[t][i]
    BY <2>2
  <2>4. IsPrefix(table[t], table'[t])
    BY <2>1, <2>2, <2>3, PrefixOf
  <2>5. ASSUME NEW u \in Thread, u # t PROVE IsPrefix(table[u], table'[u])
    <3>1. table[u] \in Seq(Entry) /\ table'[u] = table[u] /\ Len(table[u]) \in Nat
      BY <1>1, <1>2, <2>5
    <3> QED
      BY <3>1, PrefixOf
  <2> QED
    BY <2>4, <2>5 DEF Grown
<1>3. CASE table' = [table EXCEPT ![t] = TableKept(t)]
  <2>1. table' = table
    BY <1>1, <1>3 DEF TableKept
  <2> QED
    BY <2>1, SameGrown
<1> QED
    BY <1>2, <1>3 DEF Record

\* The errors of t may go: a function of its program has succeeded, or the
\* program has asked for it.
Forgets(t) ==
    \/ ctl[t] = "idle" /\ call'[t] = "none"
    \/ stack[t] # <<>> /\ Top(t).lib = "public" /\ rv[t] >= 0

\* The errors of the threads other than t are kept.
LEMMA OthersGrown ==
    ASSUME TypeOK, NEW t \in Thread, \A u \in Thread \ {t} : table'[u] = table[u]
    PROVE  \A u \in Thread \ {t} : IsPrefix(table[u], table'[u])
<1>1. \A u \in Thread : table[u] \in Seq(Entry) /\ Len(table[u]) \in Nat
    BY DEF TypeOK
<1> QED
    BY <1>1, PrefixOf

LEMMA StepGrown ==
    ASSUME TypeOK, NEW t \in Thread, Step(t)
    PROVE  Grown \/ (Forgets(t) /\ \A u \in Thread \ {t} : IsPrefix(table[u], table'[u]))
<1>1. CASE Call(t) \/ Enter(t) \/ UpdateExits(t) \/ FsSetDone(t) \/ FsDelDone(t) \/ VarsSet(t)
  <2>1. UNCHANGED table
    BY <1>1 DEF Call, Enter, UpdateExits, FsSetDone, FsDelDone, VarsSet, thread
  <2> QED
    BY <2>1, SameGrown
<1>2. CASE Attrs(t) \/ FsAppend(t) \/ GenericAppend(t) \/ AppendFound(t) \/ ChmodSilent(t)
  <2>1. UNCHANGED table
    BY <1>2 DEF Attrs, FsAppend, GenericAppend, AppendFound, ChmodSilent
  <2> QED
    BY <2>1, SameGrown
<1>3. CASE Efi_set_verbose(t) \/ LogBegin(t) \/ LogWrite(t) \/ LogFlush(t)
  <2>1. UNCHANGED table
    BY <1>3 DEF Efi_set_verbose, LogBegin, LogWrite, LogFlush, thread
  <2> QED
    BY <2>1, SameGrown
<1>4. CASE EnterMissing(t) \/ LeaveFailed(t) \/ LeafFails(t) \/ LeafRefuses(t) \/ ChmodFails(t)
  <2>1. \E f, e, good, bad : Record(t, f, e, good, bad)
    BY <1>4 DEF EnterMissing, LeaveFailed, LeafFails, LeafRefuses, ChmodFails, Efi_error
  <2> QED
    BY <2>1, RecordGrown
<1>5. CASE LeafSucceeds(t) \/ AttrsDone(t) \/ FsAppendDone(t)
  <2>1. UNCHANGED table \/ \E f, e, good, bad : Record(t, f, e, good, bad)
    BY <1>5 DEF LeafSucceeds, AttrsDone, FsAppendDone, Efi_error
  <2> QED
    BY <2>1, RecordGrown, SameGrown
<1>6. CASE \/ FsSet(t) \/ FsRollback(t) \/ FsDel(t) \/ FsUnlink(t) \/ VarsSetDeleted(t)
           \/ VarsWrite(t)
  <2>1. UNCHANGED table \/ \E f, e, good, bad : Record(t, f, e, good, bad)
    BY <1>6 DEF FsSet, FsRollback, FsDel, FsUnlink, VarsSetDeleted, VarsWrite, Efi_error
  <2> QED
    BY <2>1, RecordGrown, SameGrown
<1>7. CASE AppendMissing(t) \/ AppendDeleted(t) \/ AppendReset(t) \/ AppendSet(t)
  <2>1. UNCHANGED table \/ \E f, e, good, bad : Record(t, f, e, good, bad)
    BY <1>7 DEF AppendMissing, AppendDeleted, AppendReset, AppendSet, Efi_error
  <2> QED
    BY <2>1, RecordGrown, SameGrown
<1>8. CASE Leave(t)
  <2>1. Forgets(t)
    BY <1>8 DEF Leave, Returned, At, Forgets
  <2>2. \A u \in Thread \ {t} : table'[u] = table[u]
    BY <1>8 DEF Leave, Clear, TypeOK
  <2> QED
    BY <2>1, <2>2, OthersGrown
<1>9. CASE Errors(t)
  <2>1. Forgets(t)
    BY <1>9 DEF Errors, Idle, Forgets, TypeOK
  <2>2. \A u \in Thread \ {t} : table'[u] = table[u]
    BY <1>9 DEF Errors, Efi_error_pop, Show_errors, Clear, TypeOK
  <2> QED
    BY <2>1, <2>2, OthersGrown
<1> QED
    BY <1>1, <1>2, <1>3, <1>4, <1>5, <1>6, <1>7, <1>8, <1>9 DEF Step

\* Errors disappear from the table of a thread only when a function of the
\* library succeeds, or the program clears them: no failure to record another
\* one (error.c:82), and no other thread, takes them away.
THEOREM ErrorsKept == Spec => ErrorsSurvive
<1> DEFINE Kept(t) ==
        \/ IsPrefix(table[t], table'[t])
        \/ phase = "probe" \/ phase' = "gone"
        \/ ctl[t] = "idle" /\ call'[t] = "none"
        \/ stack[t] # <<>> /\ Top(t).lib = "public" /\ rv[t] >= 0
<1>1. ASSUME TypeOK, Next PROVE \A t \in Thread : Kept(t)
  <2>1. CASE Grown
    BY <2>1 DEF Grown
  <2>2. ASSUME NEW u \in Thread, Step(u) PROVE \A t \in Thread : Kept(t)
    BY <1>1, <2>2, StepGrown DEF Grown, Forgets
  <2>3. CASE Fini
    BY <2>3 DEF Fini
  <2>4. CASE Probe \/ ProbeFailed \/ ProbeFound
    BY <2>4 DEF Probe, ProbeFailed, ProbeFound, ProbeAt
  <2>5. CASE InitPath \/ InitLog \/ InitOps \/ Loaded
    <3>1. UNCHANGED table
      BY <2>5 DEF InitPath, InitLog, InitOps, Loaded, thread
    <3> QED
      BY <1>1, <2>1, <3>1, SameGrown
  <2> QED
    BY <1>1, <2>2, <2>3, <2>4, <2>5 DEF Next
<1>2. TypeOK /\ [Next]_vars => [\A t \in Thread : Kept(t)]_vars
    BY <1>1
<1>3. Spec => [][\A t \in Thread : Kept(t)]_vars
    BY <1>2, TypeCorrect, PTL DEF Spec
<1> QED
    BY <1>3 DEF ErrorsSurvive
====
