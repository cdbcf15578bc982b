--------------------------- MODULE EfiSecdbProofs ---------------------------
(***************************************************************************)
(* Proofs about the output file of efisecdb: it overwrites nobody's file   *)
(* without --force, and a run that fails leaves none of its own.           *)
(***************************************************************************)
EXTENDS EfiSecdb, TLAPS

Label == {"options", "parse", "walk", "dump", "open", "truncate", "write", "exit"}

TypeOK ==
    /\ pc \in Label
    /\ status \in {0, 1}
    /\ out.by \in {"nobody", "other", "tool"}
    /\ out.by = "nobody" => out = Absent

\* Until the file is opened it is not the tool's.
NotYet == pc \in {"options", "parse", "walk", "dump", "open"} => out.by # "tool"

\* After it was opened without --force, it is.
OpenedOurs == pc \in {"truncate", "write"} /\ ~opt.force => out.by = "tool"

IInv == TypeOK /\ NotYet /\ OpenedOurs /\ FailsClean

LEMMA ByFacts ==
    /\ Absent.by = "nobody" /\ Others.by = "other"
    /\ \A f : Ours(f).by = "tool"
    BY DEF Absent, Others, Ours

LEMMA InitIInv == Init => IInv
    BY ByFacts DEF Init, IInv, TypeOK, Label, NotYet, OpenedOurs, FailsClean

\* What main() does before the file is opened.
LEMMA BeforePreserves ==
    ASSUME IInv, Option \/ Start \/ ParseFile \/ NextSig \/ NoIter \/ RunActions \/ Dumped
    PROVE  IInv' /\ out' = out
<1>1. /\ pc \in {"options", "parse", "walk", "dump"} /\ out' = out
      /\ pc' \in {"options", "parse", "walk", "dump", "open", "exit"} /\ status' \in {0, 1}
  <2>1. CASE Option
    BY <2>1 DEF Option, Exit, IInv, TypeOK
  <2>2. CASE Start
    BY <2>2 DEF Start, Exit, IInv, TypeOK
  <2>3. CASE ParseFile
    BY <2>3 DEF ParseFile, Exit, IInv, TypeOK
  <2>4. ASSUME NEW ok, Parsed(ok)
        PROVE  pc' \in {"parse", "dump", "exit"} /\ status' \in {0, 1}
    BY <2>4 DEF Parsed, Exit, IInv, TypeOK
  <2>5. CASE NextSig
    <3>1. \/ UNCHANGED <<pc, status>>
          \/ Parsed(TRUE) \/ Parsed(FALSE)
      BY <2>5 DEF NextSig
    <3> QED
      BY <2>4, <2>5, <3>1 DEF NextSig, IInv, TypeOK
  <2>6. CASE NoIter
    BY <2>4, <2>6 DEF NoIter
  <2>7. CASE RunActions
    BY <2>7 DEF RunActions, IInv, TypeOK
  <2>8. CASE Dumped
    BY <2>8 DEF Dumped, Exit, IInv, TypeOK
  <2> QED
    BY <2>1, <2>2, <2>3, <2>5, <2>6, <2>7, <2>8
<1> QED
    BY <1>1 DEF IInv, TypeOK, Label, NotYet, OpenedOurs, FailsClean

LEMMA OpenPreserves ==
    ASSUME IInv, Open
    PROVE  IInv' /\ (out = Others /\ ~opt.force => out' = out)
<1>1. pc = "open" /\ opt' = opt /\ out.by # "tool"
    BY DEF Open, IInv, NotYet
<1>2. CASE MayOpen
  <2>1. pc' = "truncate" /\ status' = status /\ out' = IF out = Absent THEN Ours(EmptyFile) ELSE out
    BY <1>2 DEF Open
  <2> QED
    BY <1>1, <1>2, <2>1, ByFacts
       DEF MayOpen, IInv, TypeOK, Label, NotYet, OpenedOurs, FailsClean
<1>3. CASE ~MayOpen
  <2>1. pc' = "exit" /\ status' = 1 /\ out' = out
    BY <1>3 DEF Open, Exit
  <2> QED
    BY <1>1, <2>1 DEF IInv, TypeOK, Label, NotYet, OpenedOurs, FailsClean
<1> QED
    BY <1>2, <1>3

LEMMA FailurePreserves ==
    ASSUME IInv, OpenFails \/ OutputFails
    PROVE  IInv'
<1>1. pc' = "exit" /\ status' = 1 /\ out' = Absent
    BY DEF OpenFails, OutputFails, Unlink, Exit
<1> QED
    BY <1>1, ByFacts DEF IInv, TypeOK, Label, NotYet, OpenedOurs, FailsClean

LEMMA OutputPreserves ==
    ASSUME IInv, Truncate \/ Write
    PROVE  IInv'
<1>1. /\ pc' \in {"write", "exit"} /\ out'.by = "tool" /\ status' \in {0, 1}
      /\ pc' = "exit" => status' = 0
    BY ByFacts DEF Truncate, Write, Exit, IInv, TypeOK
<1> QED
    BY <1>1 DEF IInv, TypeOK, Label, NotYet, OpenedOurs, FailsClean

LEMMA RestPreserves ==
    ASSUME IInv, Appear \/ UNCHANGED vars
    PROVE  IInv'
<1>1. CASE Appear
    BY <1>1, ByFacts DEF Appear, IInv, TypeOK, NotYet, OpenedOurs, FailsClean
<1>2. CASE UNCHANGED vars
    BY <1>2 DEF vars, IInv, TypeOK, NotYet, OpenedOurs, FailsClean
<1> QED
    BY <1>1, <1>2

-----------------------------------------------------------------------------

\* In every state the file is the tool's only if the tool made it or was told
\* to overwrite it.
THEOREM Invariance == Spec => []IInv
<1>1. IInv /\ [Next]_vars => IInv'
    BY BeforePreserves, OpenPreserves, FailurePreserves, OutputPreserves, RestPreserves
       DEF Next, Done
<1> QED
    BY <1>1, InitIInv, PTL DEF Spec

\* A run that ends with 1 leaves no file of its own (the unlink() calls of
\* main), whichever system call failed and whatever the options are.
THEOREM FailuresClean == Spec => []FailsClean
<1>1. IInv => FailsClean
    BY DEF IInv
<1> QED
    BY <1>1, Invariance, PTL

\* Without --force the tool does not touch a file that somebody else made,
\* before it started or while it ran, unless open() failed for another reason
\* than that the file is there (main, O_EXCL).
THEOREM OthersKept == Spec => NoClobber
<1> DEFINE Kept == out = Others /\ ~opt.force => out' = Others \/ fault' = "open"
<1>1. IInv /\ [Next]_vars => [Kept]_vars
  <2> SUFFICES ASSUME IInv, Next, out = Others, ~opt.force
               PROVE  out' = Others \/ fault' = "open"
    OBVIOUS
  <2>1. out.by = "other" /\ out # Absent
    BY ByFacts
  <2>2. pc \notin {"truncate", "write"}
    BY <2>1 DEF IInv, OpenedOurs
  <2>3. ~Truncate /\ ~OutputFails /\ ~Write /\ ~Appear
    BY <2>1, <2>2 DEF Truncate, OutputFails, Write, Appear
  <2> QED
    BY <2>3, BeforePreserves, OpenPreserves DEF Next, OpenFails, Done, vars
<1>2. Spec => [][Kept]_vars
    BY <1>1, Invariance, PTL DEF Spec
<1> QED
    BY <1>2 DEF NoClobber
=============================================================================
