-------------------------- MODULE EspVarFileProofs --------------------------
(***************************************************************************)
(* Proofs about EspVarFile, for any number of processes, changes, blocks   *)
(* and directories, and with every system call free to fail.               *)
(***************************************************************************)
EXTENDS EspVarFile, SequenceTheorems, WellFoundedInduction, TLAPS

\* A nonempty set of natural numbers has a least element.
LEMMA LeastOfNats ==
    ASSUME NEW S \in SUBSET Nat, S # {}
    PROVE  \E x \in S : \A y \in S : x <= y
<1> DEFINE less == {ss \in Nat \X Nat : ss[1] < ss[2]}
<1>1. PICK x \in S : \A y \in S : <<y, x>> \notin less
    BY WFMin, NatLessThanWellFounded DEF OpToRel
<1>2. ASSUME NEW y \in S PROVE x <= y
  <2>1. x \in Nat /\ y \in Nat
    OBVIOUS
  <2>2. y < x => <<y, x>> \in less
    BY <2>1
  <2> QED
    BY <1>1, <2>1, <2>2
<1> QED
    BY <1>2

LEMMA FirstInPaths ==
    ASSUME NEW there
    PROVE  \/ FirstIn(there) = 0
           \/ FirstIn(there) \in DOMAIN EspPaths /\ EspPaths[FirstIn(there)] \in there
<1> DEFINE I == {i \in 1 .. Len(EspPaths) : EspPaths[i] \in there}
<1>1. FirstIn(there) = IF I # {} THEN Min(I) ELSE 0
    BY DEF FirstIn, SelectInSeq
<1>2. CASE I # {}
  <2>0. I \in SUBSET Nat
    BY PathsAssumption
  <2>1. \E x \in I : \A y \in I : x <= y
    <3> HIDE DEF I
    <3> QED
      BY LeastOfNats, <1>2, <2>0
  <2>2. Min(I) \in I
    BY <2>1 DEF Min
  <2> QED
    BY <1>1, <1>2, <2>2, PathsAssumption
<1> QED
    BY <1>1, <1>2
-----------------------------------------------------------------------------
(* The inductive invariant                                                 *)

\* The file that get_esp_filepath finds.
Target == EspPaths[Found]

\* The steps of write_file.
Opening == {"openvar", "openesp"}
Copying == {"skip", "copy", "close", "closefail"}

\* write_file works on a file that is there, and on that of the first
\* directory that has one unless a stat() has failed.
OnTarget ==
    \A p \in Proc : pc[p] \in Opening \cup Copying =>
        /\ path[p] \in DOMAIN esp
        /\ silent[p] \/ (Found # 0 /\ path[p] = Target)

\* What raced stands for: outside it there is one update at a time.
OneAtATime ==
    \A d \in DOMAIN esp \ raced : \A p, q \in Proc :
        pc[p] # "idle" /\ pc[q] # "idle" => p = q

\* The first n blocks of a version are in the file.
Holds(file, v, n) ==
    /\ Len(file) = n
    /\ \A j \in 1 .. n : file[j] = Block(v, j)

\* An update that is alone has copied k blocks of the version there is, of
\* which the last one is still in the buffer.
Progress ==
    \A p \in Proc :
        /\ pc[p] \in {"idle", "filename", "filepath", "skip"} \cup Opening => k[p] = 0
        /\ k[p] = 0 => pending[p] = <<>>
        /\ pc[p] \in Copying /\ path[p] \notin raced =>
            IF k[p] = 0 THEN Holds(esp[path[p]], ver, 0)
            ELSE /\ pending[p] = <<Block(ver, k[p])>>
                 /\ Holds(esp[path[p]], ver, k[p] - 1)

\* A copy that ended early has said so, or was not told by the system.
Accounted ==
    \A p \in Proc :
        /\ pc[p] = "closefail" => told[p]
        /\ pc[p] = "close" => silent[p] \/ k[p] = Blocks
        /\ pc[p] = "ret" /\ path[p] \notin DOMAIN esp /\ rt # "none" => told[p] \/ silent[p]

IInv ==
    /\ TypeOK
    /\ OnTarget
    /\ OneAtATime
    /\ Progress
    /\ Accounted
    /\ OneVersion
    /\ SoloUpdate

-----------------------------------------------------------------------------
(* Facts about images, files and directories                               *)

LEMMA ImageIs ==
    ASSUME NEW v \in 0 .. MaxVer
    PROVE  /\ Image(v) \in Seq(FileBlock)
           /\ Len(Image(v)) = Blocks
           /\ \A j \in 1 .. Blocks : Image(v)[j] = Block(v, j)
<1>1. Image(v) \in [1 .. Blocks -> FileBlock]
    BY BlocksAssumption, MaxVerAssumption DEF Image, Block, FileBlock
<1>2. Image(v) \in Seq(FileBlock)
    BY <1>1, SeqDef, BlocksAssumption
<1> QED
    BY <1>1, <1>2, BlocksAssumption DEF Image

LEMMA WriteAtType ==
    ASSUME NEW file \in Seq(FileBlock),
           NEW v \in 0 .. MaxVer, NEW n \in 1 .. Blocks
    PROVE  /\ WriteAt(file, Block(v, n)) \in Seq(FileBlock)
           /\ Len(WriteAt(file, Block(v, n))) = IF n > Len(file) THEN n ELSE Len(file)
<1> DEFINE m == IF n > Len(file) THEN n ELSE Len(file)
           w == WriteAt(file, Block(v, n))
<1>1. m \in Nat
    BY BlocksAssumption
<1>2. /\ Block(v, n) \in FileBlock
      /\ Block(v, n)[2] = n
      /\ Hole \in FileBlock
    BY BlocksAssumption, MaxVerAssumption DEF Block, Hole, FileBlock
<1>3. \A j \in 1 .. m : j <= Len(file) => file[j] \in FileBlock
    BY <1>1
<1>4. w \in [1 .. m -> FileBlock]
    BY <1>1, <1>2, <1>3 DEF WriteAt
<1>5. w \in Seq(FileBlock)
    BY <1>1, <1>4, SeqDef
<1> QED
    BY <1>1, <1>4, <1>5

\* Writing the next block of a version continues its image.
LEMMA WriteAtEnd ==
    ASSUME NEW file \in Seq(FileBlock), NEW v \in 0 .. MaxVer,
           NEW n \in 1 .. Blocks, Holds(file, v, n - 1)
    PROVE  Holds(WriteAt(file, Block(v, n)), v, n)
<1>1. Block(v, n)[2] = n
    BY DEF Block
<1>2. Len(file) = n - 1
    BY DEF Holds
<1>3. Len(WriteAt(file, Block(v, n))) = n
    BY <1>2, WriteAtType
<1>4. \A j \in 1 .. n : WriteAt(file, Block(v, n))[j] = IF j = n THEN Block(v, n) ELSE file[j]
    BY <1>1, <1>2 DEF WriteAt
<1> QED
    BY <1>3, <1>4, <1>2 DEF Holds

LEMMA HoldsAll ==
    ASSUME NEW file \in Seq(FileBlock), NEW v \in 0 .. MaxVer, Holds(file, v, Blocks)
    PROVE  file = Image(v)
BY ImageIs, SeqEqual, BlocksAssumption DEF Holds

LEMMA HoldsPrefix ==
    ASSUME NEW file \in Seq(FileBlock), NEW v \in 0 .. MaxVer,
           NEW n \in 0 .. Blocks, Holds(file, v, n)
    PROVE  IsPrefix(file, Image(v))
<1> DEFINE a == SubSeq(file, 1, n)
           b == SubSeq(Image(v), 1, n)
<1>1. /\ Len(file) = n
      /\ \A i \in 1 .. n : file[i] = Block(v, i)
    BY DEF Holds
<1>2. /\ Image(v) \in Seq(FileBlock)
      /\ Len(Image(v)) = Blocks
      /\ \A i \in 1 .. n : Image(v)[i] = Block(v, i)
    BY ImageIs, BlocksAssumption
<1>3. /\ \A i \in 1 .. n : file[i] \in FileBlock
      /\ \A i \in 1 .. n : Image(v)[i] \in FileBlock
    BY <1>1, <1>2, BlocksAssumption
<1>4. /\ a \in Seq(FileBlock) /\ b \in Seq(FileBlock)
      /\ Len(a) = n /\ Len(b) = n
      /\ \A i \in 1 .. n : a[i] = file[i] /\ b[i] = Image(v)[i]
    BY <1>3, SubSeqProperties, BlocksAssumption
<1>5. a = b
    BY <1>1, <1>2, <1>4, SeqEqual
<1> QED
    BY <1>1, <1>2, <1>5, BlocksAssumption DEF IsPrefix

LEMMA FileReplaced ==
    ASSUME NEW S, NEW D, NEW files \in [D -> S], NEW d, NEW file \in S
    PROVE  [files EXCEPT ![d] = file] \in [D -> S]
OBVIOUS

LEMMA FoundStays ==
    ASSUME DOMAIN esp' = DOMAIN esp
    PROVE  Found' = Found /\ Target' = Target
<1>1. Found' = Found
    BY DEF Found
<1> QED
    BY <1>1 DEF Target

-----------------------------------------------------------------------------
(* Every action preserves the inductive invariant                          *)

LEMMA ChangePreserves ==
    ASSUME IInv, NEW p \in Proc, Change(p)
    PROVE  IInv'
<1> USE DEF IInv, Change, Goto
<1>0. /\ DOMAIN esp' = DOMAIN esp /\ Found' = Found /\ Target' = Target
      /\ pc[p] = "idle" /\ pc' = [pc EXCEPT ![p] = "filename"]
      /\ raced' \subseteq DOMAIN esp
      /\ \/ raced' = raced /\ \A q \in Proc \ {p} : pc[q] = "idle"
         \/ raced' = DOMAIN esp
    BY FoundStays DEF TypeOK, Solo
<1>1. TypeOK'
    BY <1>0, MaxVerAssumption DEF TypeOK, Label
<1>2. OnTarget'
    BY <1>0 DEF TypeOK, OnTarget, Opening, Copying
<1>3. OneAtATime'
    BY <1>0 DEF TypeOK, OneAtATime
<1>4. Progress'
    BY <1>0 DEF TypeOK, OnTarget, Progress, Opening, Copying, Holds, Block
<1>5. Accounted'
    BY <1>0 DEF TypeOK, Accounted
<1>6. OneVersion'
  <2>1. 1 .. ver \subseteq 1 .. ver'
    BY DEF TypeOK
  <2> QED
    BY <1>0, <2>1 DEF OneVersion, Image, Block
<1>7. SoloUpdate'
    BY <1>0, <1>5 DEF TypeOK, SoloUpdate, Accounted
<1> QED
    BY <1>1, <1>2, <1>3, <1>4, <1>5, <1>6, <1>7

LEMMA FileNamePreserves ==
    ASSUME IInv, NEW p \in Proc, FileName(p)
    PROVE  IInv'
<1> USE DEF IInv, FileName, Goto, sys
<1>1. TypeOK'
    BY DEF TypeOK, Label
<1>2. OnTarget'
    BY FoundStays DEF TypeOK, OnTarget, Opening, Copying
<1>3. OneAtATime'
    BY DEF TypeOK, OneAtATime
<1>4. Progress'
    BY FoundStays DEF TypeOK, Progress, Opening, Copying, Holds, Block
<1>5. Accounted'
    BY DEF TypeOK, Accounted
<1>6. OneVersion'
    BY DEF OneVersion, Image, Block
<1>7. SoloUpdate'
    BY FoundStays, RtAssumption DEF TypeOK, SoloUpdate, Current, Image, Block, Target
<1> QED
    BY <1>1, <1>2, <1>3, <1>4, <1>5, <1>6, <1>7

LEMMA FilePathPreserves ==
    ASSUME IInv, NEW p \in Proc, FilePath(p)
    PROVE  IInv'
<1> USE DEF IInv, Goto, sys
<1>0. /\ pc[p] = "filepath"
      /\ UNCHANGED <<ver, rt, esp, k, pending, raced, exited>>
      /\ Found' = Found /\ Target' = Target
    BY FoundStays DEF FilePath
<1>a. PICK there \in SUBSET DOMAIN esp :
        \/ /\ FirstIn(there) # 0
           /\ path' = [path EXCEPT ![p] = EspPaths[FirstIn(there)]]
           /\ silent' = [silent EXCEPT ![p] = (FirstIn(there) # Found)]
           /\ Goto(p, "openvar")
           /\ UNCHANGED told
        \/ /\ FirstIn(there) = 0
           /\ told' = [told EXCEPT ![p] = TRUE]
           /\ Goto(p, "ret")
           /\ UNCHANGED <<path, silent>>
    BY DEF FilePath
<1>b. CASE UNCHANGED told /\ Goto(p, "openvar")
  <2>1. /\ EspPaths[FirstIn(there)] \in DOMAIN esp
        /\ path' = [path EXCEPT ![p] = EspPaths[FirstIn(there)]]
        /\ FirstIn(there) # 0
    BY <1>0, <1>a, <1>b, FirstInPaths DEF TypeOK
  <2> DEFINE missed == FirstIn(there) # Found
  <2>2. missed \in BOOLEAN
    OBVIOUS
  <2>3. silent' = [silent EXCEPT ![p] = missed]
    BY <1>0, <1>a, <1>b DEF TypeOK
  <2>4. missed \/ (Found # 0 /\ EspPaths[FirstIn(there)] = Target)
    BY <2>1 DEF Target
  <2> HIDE DEF missed
  <2>5. /\ silent' \in [Proc -> BOOLEAN] /\ silent'[p] = missed
        /\ \A q \in Proc \ {p} : silent'[q] = silent[q]
    BY <2>2, <2>3 DEF TypeOK
  <2>6. /\ path' \in [Proc -> DOMAIN esp \cup {NoPath}]
        /\ path'[p] = EspPaths[FirstIn(there)] /\ path'[p] \in DOMAIN esp
        /\ \A q \in Proc \ {p} : path'[q] = path[q]
    BY <2>1 DEF TypeOK
  <2>7. /\ pc' \in [Proc -> Label] /\ pc'[p] = "openvar" /\ UNCHANGED told
        /\ \A q \in Proc \ {p} : pc'[q] = pc[q]
    BY <1>b DEF TypeOK, Label
  <2>8. TypeOK'
    BY <1>0, <2>5, <2>6, <2>7 DEF TypeOK
  <2>9. OnTarget'
    BY <1>0, <2>4, <2>5, <2>6, <2>7 DEF OnTarget, Opening, Copying
  <2>10. OneAtATime'
    BY <1>0, <2>7 DEF OneAtATime
  <2>11. Progress'
    BY <1>0, <2>6, <2>7 DEF Progress, Opening, Copying, Holds, Block
  <2>12. Accounted' /\ SoloUpdate'
    BY <1>0, <2>5, <2>6, <2>7 DEF Accounted, SoloUpdate, Current, Target, Image, Block
  <2>13. OneVersion'
    BY <1>0 DEF OneVersion, Image, Block
  <2> QED
    BY <2>8, <2>9, <2>10, <2>11, <2>12, <2>13
<1>c. CASE told' = [told EXCEPT ![p] = TRUE] /\ Goto(p, "ret") /\ UNCHANGED <<path, silent>>
  <2>1. TypeOK' /\ OneAtATime'
    BY <1>0, <1>c DEF TypeOK, Label, OneAtATime
  <2>2. OnTarget' /\ Progress'
    BY <1>0, <1>c DEF TypeOK, OnTarget, Progress, Opening, Copying, Holds, Block
  <2>3. Accounted' /\ SoloUpdate'
    BY <1>0, <1>c DEF TypeOK, Accounted, SoloUpdate, Current, Target, Image, Block
  <2>4. OneVersion'
    BY <1>0 DEF OneVersion, Image, Block
  <2> QED
    BY <2>1, <2>2, <2>3, <2>4
<1> QED
    BY <1>a, <1>b, <1>c

LEMMA SkipPreserves ==
    ASSUME IInv, NEW p \in Proc, Skip(p)
    PROVE  IInv'
<1> USE DEF IInv, Skip, Goto, sys
<1>1. TypeOK'
    BY DEF TypeOK, Label
<1>2. OnTarget'
    BY FoundStays DEF TypeOK, OnTarget, Opening, Copying
<1>3. OneAtATime'
    BY DEF TypeOK, OneAtATime
<1>4. Progress'
    BY FoundStays DEF TypeOK, Progress, Opening, Copying, Holds, Block
<1>5. Accounted'
    BY DEF TypeOK, Accounted
<1>6. OneVersion'
    BY DEF OneVersion, Image, Block
<1>7. SoloUpdate'
    BY FoundStays DEF TypeOK, SoloUpdate, Current, Image, Block, Target
<1> QED
    BY <1>1, <1>2, <1>3, <1>4, <1>5, <1>6, <1>7

\* Return, Exit and Kill
LEMMA LeavePreserves ==
    ASSUME IInv, NEW p \in Proc, Leave(p), UNCHANGED <<told, silent>>,
           exited' = exited \/ exited' = exited \cup {p}
    PROVE  IInv'
<1> USE DEF IInv, Leave, Goto, sys
<1>1. TypeOK'
  <2>1. pending' \in [Proc -> Buffer]
    BY DEF TypeOK, Buffer
  <2>2. exited' \subseteq Proc
    BY DEF TypeOK, Label
  <2> QED
    BY <2>1, <2>2, BlocksAssumption DEF TypeOK, Label
<1>2. OnTarget'
    BY FoundStays DEF TypeOK, OnTarget, Opening, Copying
<1>3. OneAtATime'
    BY DEF TypeOK, OneAtATime
<1>4. Progress'
    BY FoundStays DEF TypeOK, Progress, Opening, Copying, Holds, Block
<1>5. Accounted'
    BY DEF TypeOK, Accounted
<1>6. OneVersion'
    BY DEF OneVersion, Image, Block
<1>7. SoloUpdate'
    BY FoundStays DEF TypeOK, SoloUpdate, Current, Image, Block, Target
<1> QED
    BY <1>1, <1>2, <1>3, <1>4, <1>5, <1>6, <1>7

LEMMA OpenPreserves ==
    ASSUME IInv, NEW p \in Proc, Open(p)
    PROVE  IInv'
<1> USE DEF IInv, Open, Goto
<1>0. /\ DOMAIN esp' = DOMAIN esp
      /\ pc[p] \in Opening
      /\ Found' = Found /\ Target' = Target
      /\ UNCHANGED <<ver, rt, path, k, pending, silent, exited>>
    BY FoundStays DEF TypeOK, Opening
<1>1. path[p] \in DOMAIN esp
    BY <1>0 DEF OnTarget
<1>2. pc' \in [Proc -> Label] /\ told' \in [Proc -> BOOLEAN]
    BY DEF TypeOK, Label
<1>3. OnTarget'
    BY <1>0 DEF TypeOK, OnTarget, Opening, Copying
<1>4. CASE pc[p] = "openesp" /\ pc'[p] = "skip"
  <2> DEFINE d == path[p]
  <2>1. /\ esp' = [esp EXCEPT ![d] = <<>>] /\ UNCHANGED told
        /\ pc' = [pc EXCEPT ![p] = "skip"]
        /\ \/ raced' = raced
           \/ raced' = raced \ {d} /\ \A q \in Proc \ {p} : pc[q] = "idle"
    BY <1>4 DEF TypeOK, Solo
  <2>2. esp' \in [DOMAIN esp -> Seq(FileBlock)] /\ raced' \subseteq DOMAIN esp
    <3>1. <<>> \in Seq(FileBlock) /\ esp \in [DOMAIN esp -> Seq(FileBlock)]
      BY DEF TypeOK
    <3>2. esp' \in [DOMAIN esp -> Seq(FileBlock)]
      BY <2>1, <3>1, FileReplaced
    <3> QED
      BY <2>1, <3>2 DEF TypeOK
  <2>3. TypeOK'
    BY <1>0, <1>2, <2>2 DEF TypeOK
  <2>4. OneAtATime'
    BY <1>0, <1>4, <2>1 DEF TypeOK, OneAtATime
  <2>5. Holds(esp'[d], ver, 0) /\ esp'[d] \in Seq(FileBlock)
    BY <1>1, <2>1 DEF TypeOK, Holds
  <2>6. ASSUME d \notin raced', NEW q \in Proc \ {p} PROVE pc[q] = "idle"
    BY <1>1, <1>4, <2>1, <2>6 DEF OneAtATime
  <2>7. Progress'
    <3>1. ASSUME NEW q \in Proc \ {p}, pc[q] \in Copying, path[q] \notin raced'
          PROVE  path[q] # d /\ path[q] \notin raced
      BY <1>1, <2>1, <2>6, <3>1 DEF Copying
    <3>2. \A q \in Proc \ {p} : pc'[q] = pc[q]
      BY <2>1 DEF TypeOK
    <3> QED
      BY <1>0, <1>4, <2>1, <2>5, <3>1, <3>2 DEF TypeOK, Progress, Opening, Copying, OnTarget, Holds, Block
  <2>8. OneVersion'
    <3> SUFFICES ASSUME NEW e \in DOMAIN esp \ raced'
                 PROVE  \E v \in 1 .. ver : IsPrefix(esp'[e], Image(v))
      BY <1>0 DEF OneVersion, Image, Block
    <3>1. CASE e = d
      <4>1. ver \in 1 .. ver /\ ver \in 0 .. MaxVer /\ 0 \in 0 .. Blocks
        BY BlocksAssumption DEF TypeOK
      <4> QED
        BY <3>1, <4>1, <2>5, HoldsPrefix
    <3>2. CASE e # d
      <4>1. esp'[e] = esp[e] /\ e \in DOMAIN esp \ raced
        BY <3>2, <2>1
      <4> QED
        BY <4>1 DEF OneVersion
    <3> QED
      BY <3>1, <3>2
  <2>9. SoloUpdate'
    <3>1. ASSUME NEW q \in Proc, pc'[q] = "ret", rt # "none", path[q] \notin raced'
          PROVE  (told[q] \/ silent[q] \/ Current)'
      <4>1. q # p /\ pc[q] = "ret"
        BY <3>1, <1>4, <2>1 DEF TypeOK
      <4>2. path[q] \notin DOMAIN esp
        BY <3>1, <4>1, <1>1, <1>4, <2>1 DEF TypeOK, OneAtATime
      <4> QED
        BY <1>0, <2>1, <3>1, <4>1, <4>2 DEF Accounted
    <3> QED
      BY <1>0, <3>1 DEF SoloUpdate
  <2>10. Accounted'
    BY <1>0, <1>4, <2>1 DEF TypeOK, Accounted
  <2> QED
    BY <1>3, <2>3, <2>4, <2>7, <2>8, <2>9, <2>10
<1>5. CASE UNCHANGED <<esp, raced>> /\ pc'[p] # "skip"
  <2>0. TypeOK' /\ OneAtATime'
    BY <1>0, <1>2, <1>5 DEF TypeOK, OneAtATime
  <2>1. Progress'
    <3>1. pc'[p] \notin Copying /\ \A q \in Proc \ {p} : pc'[q] = pc[q]
      BY <1>0, <1>5 DEF TypeOK, Copying, Opening
    <3> QED
      BY <1>0, <1>5, <3>1 DEF TypeOK, Progress, Opening, Copying, Holds, Block
  <2>2. OneVersion'
    BY <1>0, <1>5 DEF OneVersion, Image, Block
  <2>3. SoloUpdate'
    BY <1>0, <1>5 DEF TypeOK, SoloUpdate, Current, Image, Block, Target
  <2>4. Accounted'
    BY <1>0, <1>1, <1>5 DEF TypeOK, Accounted
  <2> QED
    BY <1>3, <2>0, <2>1, <2>2, <2>3, <2>4
<1> QED
    BY <1>4, <1>5 DEF TypeOK

\* What the buffer holds when it is written, and the file after that.
LEMMA Flushed ==
    ASSUME IInv, NEW p \in Proc, pc[p] \in Copying
    PROVE  LET new == Put(esp[path[p]], pending[p]) IN
           /\ path[p] \in DOMAIN esp
           /\ new \in Seq(FileBlock)
           /\ path[p] \notin raced => Holds(new, ver, k[p])
<1> DEFINE old == esp[path[p]]
<1>1. path[p] \in DOMAIN esp
    BY DEF IInv, OnTarget
<1>2. old \in Seq(FileBlock)
    BY <1>1 DEF IInv, TypeOK, FileBlock
<1>3. ver \in 0 .. MaxVer /\ k[p] \in 0 .. Blocks
    BY DEF IInv, TypeOK
<1>4. CASE pending[p] = <<>>
  <2>1. <<Block(ver, k[p])>> # <<>>
    OBVIOUS
  <2>2. path[p] \notin raced => k[p] = 0 /\ Holds(old, ver, 0)
    BY <1>3, <1>4, <2>1 DEF IInv, Progress
  <2> QED
    BY <1>1, <1>2, <1>4, <2>2 DEF Put
<1>5. CASE pending[p] # <<>>
  <2>1. PICK b \in (1 .. MaxVer) \X (1 .. Blocks) : pending[p] = <<b>>
    BY <1>5 DEF IInv, TypeOK, Buffer
  <2>2. b = Block(b[1], b[2]) /\ b[1] \in 0 .. MaxVer /\ b[2] \in 1 .. Blocks
    BY MaxVerAssumption DEF Block
  <2>3. Put(old, pending[p]) = WriteAt(old, b)
    BY <1>5, <2>1 DEF Put
  <2>4. Put(old, pending[p]) \in Seq(FileBlock)
    BY <1>2, <2>2, <2>3, WriteAtType
  <2>5. ASSUME path[p] \notin raced PROVE Holds(Put(old, pending[p]), ver, k[p])
    <3>1. /\ k[p] # 0
          /\ pending[p] = <<Block(ver, k[p])>>
          /\ Holds(old, ver, k[p] - 1)
      BY <1>5, <2>5 DEF IInv, Progress
    <3>2. b = Block(ver, k[p]) /\ k[p] \in 1 .. Blocks
      BY <1>3, <2>1, <3>1, BlocksAssumption
    <3> QED
      BY <1>2, <1>3, <2>3, <3>1, <3>2, WriteAtEnd
  <2> QED
    BY <1>1, <2>4, <2>5
<1> QED
    BY <1>4, <1>5

LEMMA CopyPreserves ==
    ASSUME IInv, NEW p \in Proc, Copy(p)
    PROVE  IInv'
<1> USE DEF IInv
<1>0. /\ pc[p] = "copy" /\ pc[p] \in Copying
      /\ UNCHANGED <<ver, rt, path, raced, exited>>
    BY DEF Copy, Copying
<1>1. CASE /\ k[p] < Blocks
           /\ esp' = [esp EXCEPT ![path[p]] = Put(@, pending[p])]
           /\ pending' = [pending EXCEPT ![p] = <<Block(ver, k[p] + 1)>>]
           /\ k' = [k EXCEPT ![p] = @ + 1]
           /\ UNCHANGED <<pc, told, silent>>
  <2> DEFINE d == path[p]
             new == Put(esp[d], pending[p])
  <2>1. /\ d \in DOMAIN esp
        /\ new \in Seq(FileBlock)
        /\ d \notin raced => Holds(new, ver, k[p])
    BY <1>0, Flushed
  <2> HIDE DEF new
  <2>2. esp' = [esp EXCEPT ![d] = new]
    BY <1>1, <2>1 DEF new
  <2>3. /\ DOMAIN esp' = DOMAIN esp
        /\ Found' = Found /\ Target' = Target
    BY <2>2, FoundStays
  <2>4. /\ k[p] \in 0 .. Blocks /\ k[p] + 1 \in 1 .. Blocks
        /\ k'[p] = k[p] + 1 /\ \A q \in Proc \ {p} : k'[q] = k[q]
        /\ pending'[p] = <<Block(ver, k[p] + 1)>>
        /\ \A q \in Proc \ {p} : pending'[q] = pending[q]
    BY <1>1, BlocksAssumption DEF TypeOK
  <2>5. TypeOK'
    <3>1. esp' \in [DOMAIN esp -> Seq(FileBlock)]
      BY <2>1, <2>2 DEF TypeOK
    <3>2. <<Block(ver, k[p] + 1)>> \in Buffer
      BY <2>4 DEF TypeOK, Block, Buffer
    <3>3. pending' \in [Proc -> Buffer] /\ k' \in [Proc -> 0 .. Blocks]
      BY <1>1, <2>4, <3>2, BlocksAssumption DEF TypeOK
    <3> QED
      BY <1>0, <1>1, <2>3, <3>1, <3>3 DEF TypeOK
  <2>6. OnTarget'
    BY <1>0, <1>1, <2>1, <2>2, <2>3 DEF OnTarget, Image, Block
  <2>7. OneAtATime'
    BY <1>0, <1>1 DEF OneAtATime
  <2>8. Progress'
    <3>1. ASSUME NEW q \in Proc, q # p, pc[q] \in Copying, path[q] \notin raced
          PROVE  FALSE
      BY <1>0, <3>1 DEF OneAtATime, OnTarget, Copying
    <3>2. d \notin raced => Holds(esp'[d], ver', k'[p] - 1)
      BY <1>0, <2>1, <2>2, <2>4
    <3> QED
      BY <1>0, <1>1, <2>3, <2>4, <3>1, <3>2 DEF Progress, Copying, Opening, Block
  <2>9. Accounted'
    BY <1>0, <1>1, <2>4 DEF Accounted
  <2>10. OneVersion'
    <3> SUFFICES ASSUME NEW e \in DOMAIN esp \ raced
                 PROVE  \E v \in 1 .. ver : IsPrefix(esp'[e], Image(v))
      BY <1>0, <2>3 DEF OneVersion, Image, Block
    <3>1. ver \in 1 .. ver /\ ver \in 0 .. MaxVer
      BY DEF TypeOK
    <3>2. d \notin raced => IsPrefix(new, Image(ver))
      BY <2>1, <2>4, <3>1, HoldsPrefix
    <3> QED
      BY <2>2, <3>1, <3>2 DEF OneVersion
  <2>11. SoloUpdate'
    <3>1. ASSUME NEW q \in Proc, pc[q] = "ret", rt # "none", path[q] \notin raced
          PROVE  path[q] \notin DOMAIN esp
      BY <1>0, <3>1 DEF OneAtATime
    <3> QED
      BY <1>0, <1>1, <3>1 DEF Accounted, SoloUpdate
  <2> QED
    BY <2>5, <2>6, <2>7, <2>8, <2>9, <2>10, <2>11
<1>2. CASE /\ UNCHANGED <<esp, pending, k>>
           /\ \/ /\ told' = [told EXCEPT ![p] = TRUE]
                 /\ Goto(p, "closefail")
                 /\ UNCHANGED silent
              \/ /\ silent' = [silent EXCEPT ![p] = @ \/ k[p] < Blocks]
                 /\ Goto(p, "close")
                 /\ UNCHANGED told
  <2>0. /\ silent' \in [Proc -> BOOLEAN]
        /\ \A q \in Proc \ {p} : silent'[q] = silent[q]
        /\ pc'[p] = "close" => silent'[p] \/ ~(k[p] < Blocks)
        /\ silent[p] => silent'[p]
    <3> DEFINE short == silent[p] \/ k[p] < Blocks
    <3>1. short \in BOOLEAN
      OBVIOUS
    <3> HIDE DEF short
    <3>2. \/ silent' = silent /\ pc'[p] # "close"
          \/ silent' = [silent EXCEPT ![p] = short]
      BY <1>2 DEF TypeOK, Goto, short
    <3>3. /\ silent' \in [Proc -> BOOLEAN]
          /\ \A q \in Proc \ {p} : silent'[q] = silent[q]
          /\ silent'[p] \in {silent[p], short}
          /\ pc'[p] = "close" => silent'[p] = short
      BY <3>1, <3>2 DEF TypeOK
    <3> QED
      BY <3>3 DEF short
  <2>1. TypeOK'
    BY <1>0, <1>2, <2>0 DEF TypeOK, Label, Goto
  <2>2. OnTarget'
    <3>1. /\ Found' = Found /\ Target' = Target /\ pc'[p] \in Copying
          /\ \A q \in Proc \ {p} : pc'[q] = pc[q]
      BY <1>2, FoundStays DEF TypeOK, Copying, Goto
    <3> QED
      BY <1>0, <1>2, <2>0, <3>1 DEF OnTarget
  <2>3. OneAtATime'
    BY <1>0, <1>2 DEF TypeOK, OneAtATime, Goto
  <2>4. Progress'
    BY <1>0, <1>2, FoundStays DEF TypeOK, Progress, Opening, Copying, Holds, Block, Goto
  <2>5. Accounted'
    BY SMTT(20), <1>0, <1>2, <2>0, BlocksAssumption DEF TypeOK, Accounted, Goto
  <2>6. OneVersion'
    BY <1>0, <1>2 DEF OneVersion, Image, Block
  <2>7. SoloUpdate'
    <3>1. ASSUME NEW q \in Proc, pc'[q] = "ret", rt # "none", path[q] \notin raced
          PROVE  told'[q] \/ silent'[q]
      <4>1. q # p /\ pc[q] = "ret" /\ told'[q] = told[q] /\ silent'[q] = silent[q]
        BY <1>2, <2>0, <3>1 DEF TypeOK, Goto
      <4>2. path[q] \notin DOMAIN esp
        BY <1>0, <3>1, <4>1 DEF OneAtATime
      <4> QED
        BY <3>1, <4>1, <4>2 DEF Accounted
    <3> QED
      BY <1>0, <3>1 DEF SoloUpdate
  <2> QED
    BY <2>1, <2>2, <2>3, <2>4, <2>5, <2>6, <2>7
<1> QED
    BY <1>1, <1>2 DEF Copy

LEMMA ClosePreserves ==
    ASSUME IInv, NEW p \in Proc, Close(p)
    PROVE  IInv'
<1> USE DEF IInv
<1> DEFINE d == path[p]
           new == Put(esp[d], pending[p])
<1>0. /\ pc[p] \in {"close", "closefail"} /\ pc[p] \in Copying
      /\ pc' = [pc EXCEPT ![p] = IF pc[p] = "close" THEN "ret" ELSE "exit"]
      /\ pending' = [pending EXCEPT ![p] = <<>>]
      /\ UNCHANGED <<ver, rt, path, k, told, raced, exited>>
    BY DEF Close, Copying, Goto
<1>1. /\ d \in DOMAIN esp
      /\ new \in Seq(FileBlock)
      /\ d \notin raced => Holds(new, ver, k[p])
    BY <1>0, Flushed
<1>2. \/ esp' = [esp EXCEPT ![d] = new] /\ UNCHANGED silent
      \/ UNCHANGED esp /\ silent' = [silent EXCEPT ![p] = TRUE]
    BY <1>1 DEF Close
<1> HIDE DEF new
<1>3. /\ DOMAIN esp' = DOMAIN esp
      /\ Found' = Found /\ Target' = Target
    BY <1>2, FoundStays
<1>4. TypeOK'
  <2>1. esp' \in [DOMAIN esp -> Seq(FileBlock)]
    BY <1>1, <1>2 DEF TypeOK
  <2>2. pending' \in [Proc -> Buffer]
    BY <1>0 DEF TypeOK, Buffer
  <2>3. pc' \in [Proc -> Label] /\ silent' \in [Proc -> BOOLEAN]
    BY <1>0, <1>2 DEF TypeOK, Label
  <2> QED
    BY <1>0, <1>3, <2>1, <2>2, <2>3 DEF TypeOK
<1>5. OnTarget'
    BY <1>0, <1>1, <1>2, <1>3 DEF TypeOK, OnTarget, Opening, Copying
<1>6. OneAtATime'
    BY <1>0, <1>3 DEF TypeOK, OneAtATime
<1>7. ASSUME NEW e \in DOMAIN esp \ raced, NEW q \in Proc, q # p PROVE pc[q] = "idle"
    BY <1>0, <1>7 DEF OneAtATime
<1>8. Progress'
  <2>1. ASSUME NEW q \in Proc, pc'[q] \in Copying, path[q] \notin raced PROVE FALSE
    BY <1>0, <1>7, <2>1 DEF TypeOK, OnTarget, Copying
  <2> QED
    BY <1>0, <1>3, <2>1 DEF TypeOK, Progress, Opening, Copying
<1>9. Accounted'
    BY <1>0, <1>1, <1>2, <1>3 DEF TypeOK, Accounted
<1>10. OneVersion'
  <2> SUFFICES ASSUME NEW e \in DOMAIN esp \ raced
               PROVE  \E v \in 1 .. ver : IsPrefix(esp'[e], Image(v))
    BY <1>0, <1>3 DEF OneVersion, Image, Block
  <2>1. ver \in 1 .. ver /\ ver \in 0 .. MaxVer
    BY DEF TypeOK
  <2>2. d \notin raced => IsPrefix(new, Image(ver))
    BY <1>1, <2>1, HoldsPrefix DEF TypeOK
  <2> QED
    BY <1>2, <2>1, <2>2 DEF OneVersion
<1>11. SoloUpdate'
  <2>1. ASSUME pc[p] = "close", d \notin raced, ~silent'[p] PROVE Current'
    <3>1. ~silent[p] /\ d = Target /\ Found # 0 /\ k[p] = Blocks /\ esp'[d] = new
      BY <1>0, <1>1, <1>2, <2>1 DEF TypeOK, OnTarget, Accounted
    <3>2. new = Image(ver)
      BY <1>1, <2>1, <3>1, HoldsAll DEF TypeOK
    <3> QED
      BY <1>0, <1>3, <3>1, <3>2 DEF Current, Target, Image, Block
  <2>2. ASSUME NEW q \in Proc, q # p, pc[q] = "ret", rt # "none", path[q] \notin raced
        PROVE  told[q] \/ silent[q]
    BY <1>0, <1>7, <2>2 DEF Accounted
  <2>3. \A q \in Proc : q # p => pc'[q] = pc[q] /\ silent'[q] = silent[q]
    BY <1>0, <1>2 DEF TypeOK
  <2>4. pc'[p] = "ret" => pc[p] = "close"
    BY <1>0 DEF TypeOK
  <2> QED
    BY <1>0, <2>1, <2>2, <2>3, <2>4 DEF SoloUpdate
<1> QED
    BY <1>4, <1>5, <1>6, <1>8, <1>9, <1>10, <1>11

LEMMA NextPreserves ==
    ASSUME IInv, [Next]_vars
    PROVE  IInv'
<1>1. CASE Next
  <2>1. PICK p \in Proc :
            \/ Change(p) \/ FileName(p) \/ FilePath(p) \/ Open(p) \/ Skip(p)
            \/ Copy(p) \/ Close(p) \/ Return(p) \/ Exit(p) \/ Kill(p)
    BY <1>1 DEF Next
  <2>2. CASE Return(p) \/ Exit(p) \/ Kill(p)
    BY <2>2, LeavePreserves DEF Return, Exit, Kill
  <2> QED
    BY <2>1, <2>2, ChangePreserves, FileNamePreserves, FilePathPreserves, OpenPreserves,
       SkipPreserves, CopyPreserves, ClosePreserves
<1>2. CASE UNCHANGED vars
  <2>1. UNCHANGED <<ver, rt, esp, pc, path, k, pending, told, silent, raced, exited>>
    BY <1>2 DEF vars, sys, local
  <2>2. Found' = Found /\ Target' = Target
    BY <2>1, FoundStays
  <2>3. TypeOK' /\ OneAtATime' /\ Accounted'
    BY <2>1 DEF IInv, TypeOK, OneAtATime, Accounted
  <2>4. OnTarget' /\ OneVersion'
    BY <2>1, <2>2 DEF IInv, OnTarget, Opening, Copying, OneVersion, Image, Block
  <2>5. Progress' /\ SoloUpdate'
    BY <2>1, <2>2 DEF IInv, Progress, SoloUpdate, Current, Target, Holds, Image, Block
  <2> QED
    BY <2>3, <2>4, <2>5 DEF IInv
<1> QED
    BY <1>1, <1>2

LEMMA InitEstablishes == Init => IInv
<1> SUFFICES ASSUME Init PROVE IInv
    OBVIOUS
<1>1. PICK there \in Wheres : esp = [d \in there |-> Image(1)]
    BY DEF Init
<1>2. 1 \in 0 .. MaxVer /\ 1 \in 1 .. MaxVer /\ ver = 1
    BY MaxVerAssumption DEF Init
<1>3. Image(1) \in Seq(FileBlock) /\ IsPrefix(Image(1), Image(1))
    BY <1>2, ImageIs, HoldsPrefix, BlocksAssumption DEF Holds
<1>4. TypeOK
  <2>1. DOMAIN esp = there /\ esp \in [there -> Seq(FileBlock)]
    BY <1>1, <1>3
  <2>2. pc \in [Proc -> Label] /\ pending \in [Proc -> Buffer]
    BY DEF Init, Label, Buffer
  <2>3. k \in [Proc -> 0 .. Blocks] /\ path \in [Proc -> DOMAIN esp \cup {NoPath}]
    BY BlocksAssumption DEF Init
  <2> QED
    BY <1>2, <2>1, <2>2, <2>3 DEF Init, TypeOK
<1>5. OnTarget /\ OneAtATime /\ Progress /\ Accounted
    BY <1>1 DEF Init, OnTarget, OneAtATime, Progress, Accounted, Opening, Copying
<1>6. OneVersion /\ SoloUpdate
    BY <1>1, <1>2, <1>3 DEF Init, OneVersion, SoloUpdate
<1> QED
    BY <1>4, <1>5, <1>6 DEF IInv

-----------------------------------------------------------------------------
(* The theorems                                                            *)

\* The inductive invariant holds in every state of efi_update_var_file.
THEOREM Invariance == Spec => []IInv
<1>1. Init => IInv
    BY InitEstablishes
<1>2. IInv /\ [Next]_vars => IInv'
    BY NextPreserves
<1> QED
    BY <1>1, <1>2, PTL DEF Spec

\* The variables of efi_update_var_file's model keep their types: no block
\* beyond the image is ever in a buffer or in the file.
THEOREM TypeCorrect == Spec => []TypeOK
<1>1. IInv => TypeOK
    BY DEF IInv
<1> QED
    BY <1>1, Invariance, PTL

\* For any number of processes and any length of the image: without
\* overlapping updates write_file never leaves a mixture of versions,
\* whichever system call failed and whichever process died.
THEOREM NeverMixed == Spec => []OneVersion
<1>1. IInv => OneVersion
    BY DEF IInv
<1> QED
    BY <1>1, Invariance, PTL

\* For any number of processes and any length of the image: an update that
\* nothing overlapped leaves the current image or has said that it could not,
\* unless a failure was hidden from it, whatever was in the file before.
THEOREM Repairs == Spec => []SoloUpdate
<1>1. IInv => SoloUpdate
    BY DEF IInv
<1> QED
    BY <1>1, Invariance, PTL
====
