----------------------------- MODULE EspVarFile -----------------------------
(***************************************************************************)
(* efi_update_var_file (efivarfs.c:85-214).  On machines whose firmware    *)
(* keeps its variables in a file of the EFI system partition (ESP), every  *)
(* set and delete ends by copying the firmware's image of all variables,   *)
(* the variable VarToFile, to that file.                                   *)
(*                                                                         *)
(* A version counts the changes the firmware has accepted; the image of a  *)
(* version is a sequence of Blocks blocks, where a block is what stdio     *)
(* moves in one read() or write().  The firmware produces the image while  *)
(* it is being read, so each block shows the version of that moment.       *)
(* fwrite() buffers: a block reaches the file when the next one is written *)
(* or when the file is closed, and the result of fclose() is not checked.  *)
(***************************************************************************)
EXTENDS Naturals, Sequences, SequencesExt

CONSTANTS
    Proc,       \* the processes (or threads) that change variables
    Blocks,     \* the length of the image, in blocks
    MaxVer,     \* bound on the number of changes
    Rt,         \* what RTStorageVolatile holds: "none", "long" or "ok"
    EspPaths,   \* esp_paths, the directories tried in order
    Wheres,     \* the sets of those that may have the file
    Failing     \* the system calls that may fail for reasons of their own

ASSUME BlocksAssumption == Blocks \in Nat \ {0}
ASSUME MaxVerAssumption == MaxVer \in Nat \ {0}
ASSUME RtAssumption == Rt \subseteq {"none", "long", "ok"}
ASSUME PathsAssumption ==
    EspPaths \in Seq(STRING) /\ Wheres \subseteq SUBSET ToSet(EspPaths)

VARIABLES
    ver,        \* the version of the variables
    rt,         \* what RTStorageVolatile holds
    esp,        \* the file of the ESP, in each directory that has it
    pc,         \* what each process does next
    path,       \* the directory get_esp_filepath found
    k,          \* blocks read so far
    pending,    \* the block in the buffer of output_file, if there is one
    told,       \* a message was printed
    silent,     \* history: a call failed that the code does not report
    raced,      \* history: the directories in whose file updates may have
                \* overlapped since it was last truncated by an update that
                \* had the stage to itself
    exited      \* history: the processes the library ended

sys == <<ver, rt, esp>>
local == <<pc, path, k, pending, told, silent>>
vars == <<sys, local, raced, exited>>

NoPath == "nowhere"

Block(v, j) == <<v, j>>

Hole == <<0, 0>>

Image(v) == [j \in 1 .. Blocks |-> Block(v, j)]

Goto(p, l) == pc' = [pc EXCEPT ![p] = l]

May(syscall) == syscall \in Failing

\* write() at an offset beyond the end of the file leaves a hole.
WriteAt(file, block) ==
    [j \in 1 .. IF block[2] > Len(file) THEN block[2] ELSE Len(file) |->
        IF j = block[2] THEN block
        ELSE IF j <= Len(file) THEN file[j] ELSE Hole]

\* The buffer, of one block at most, is written to the file.
Put(file, blocks) == IF blocks = <<>> THEN file ELSE WriteAt(file, Head(blocks))

Solo(p) == \A q \in Proc \ {p} : pc[q] = "idle"

-----------------------------------------------------------------------------

Init ==
    /\ ver = 1
    /\ rt \in Rt
    /\ \E there \in Wheres : esp = [d \in there |-> Image(1)]
    /\ pc = [p \in Proc |-> "idle"]
    /\ path = [p \in Proc |-> NoPath]
    /\ k = [p \in Proc |-> 0]
    /\ pending = [p \in Proc |-> <<>>]
    /\ told = [p \in Proc |-> FALSE]
    /\ silent = [p \in Proc |-> FALSE]
    /\ raced = {}
    /\ exited = {}

\* A set or a delete changes the variables, or a delete fails to (and the
\* file is updated all the same).
Change(p) ==
    /\ pc[p] = "idle"
    /\ p \notin exited
    /\ \/ ver < MaxVer /\ ver' = ver + 1
       \/ UNCHANGED ver
    /\ told' = [told EXCEPT ![p] = FALSE]
    /\ silent' = [silent EXCEPT ![p] = FALSE]
    /\ raced' = IF Solo(p) THEN raced ELSE DOMAIN esp
    /\ Goto(p, "filename")
    /\ UNCHANGED <<rt, esp, path, k, pending, exited>>

\* get_esp_filename: without a variable RTStorageVolatile there is no file to
\* update, and a failure to read it is taken for the same (efivarfs.c:206).
FileName(p) ==
    /\ pc[p] = "filename"
    /\ \/ /\ rt = "ok" /\ Goto(p, "filepath")
          /\ UNCHANGED <<told, silent>>
       \/ /\ rt = "long" /\ Goto(p, "ret")
          /\ told' = [told EXCEPT ![p] = TRUE]
          /\ UNCHANGED silent
       \/ /\ rt = "none" /\ Goto(p, "ret")
          /\ UNCHANGED <<told, silent>>
       \/ /\ May("get") /\ Goto(p, "ret")
          /\ silent' = [silent EXCEPT ![p] = TRUE]
          /\ UNCHANGED told
    /\ UNCHANGED <<sys, path, k, pending, raced, exited>>

\* The first of esp_paths among some directories, 0 if there is none.
FirstIn(there) == SelectInSeq(EspPaths, LAMBDA d : d \in there)

Found == FirstIn(DOMAIN esp)

\* Mutant: the last directory that has the file, not the first.
FilePathLast(p) ==
    LET last == SelectLastInSeq(EspPaths, LAMBDA d : d \in DOMAIN esp) IN
    /\ pc[p] = "filepath"
    /\ \/ /\ last # 0
          /\ path' = [path EXCEPT ![p] = EspPaths[last]]
          /\ Goto(p, "openvar")
          /\ UNCHANGED told
       \/ /\ last = 0
          /\ told' = [told EXCEPT ![p] = TRUE]
          /\ Goto(p, "ret")
          /\ UNCHANGED path
    /\ UNCHANGED <<sys, k, pending, silent, raced, exited>>

\* get_esp_filepath: the first directory where stat() finds the file.  A
\* stat() that fails for any reason means that the file is not there, so that
\* another directory's copy, if there is one, is written in its place.
FilePath(p) ==
    /\ pc[p] = "filepath"
    /\ \E there \in IF May("stat") THEN SUBSET DOMAIN esp ELSE {DOMAIN esp} :
        \/ /\ FirstIn(there) # 0
           /\ path' = [path EXCEPT ![p] = EspPaths[FirstIn(there)]]
           /\ silent' = [silent EXCEPT ![p] = (FirstIn(there) # Found)]
           /\ Goto(p, "openvar")
           /\ UNCHANGED told
        \/ /\ FirstIn(there) = 0
           /\ told' = [told EXCEPT ![p] = TRUE]
           /\ Goto(p, "ret")
           /\ UNCHANGED <<path, silent>>
    /\ UNCHANGED <<sys, k, pending, raced, exited>>

\* Mutant: the file of the ESP is opened without being truncated ("r+").
OpenKeeping(p) ==
    /\ \/ pc[p] = "openvar" /\ Goto(p, "openesp") /\ UNCHANGED raced
       \/ pc[p] = "openesp" /\ Goto(p, "skip")
          /\ raced' = IF Solo(p) THEN raced \ {path[p]} ELSE raced
    /\ UNCHANGED <<sys, path, k, pending, told, silent, exited>>

\* write_file: fopen() of VarToFile, then of the file of the ESP, which
\* truncates it.  Without memory for the path the process ends.
Open(p) ==
    /\ \/ /\ pc[p] = "openvar"
          /\ Goto(p, "openesp")
          /\ UNCHANGED <<esp, told, raced>>
       \/ /\ pc[p] = "openesp"
          /\ esp' = [esp EXCEPT ![path[p]] = <<>>]
          /\ raced' = IF Solo(p) THEN raced \ {path[p]} ELSE raced
          /\ Goto(p, "skip")
          /\ UNCHANGED told
       \/ /\ pc[p] \in {"openvar", "openesp"}
          /\ May("open")
          /\ told' = [told EXCEPT ![p] = TRUE]
          /\ Goto(p, "ret")
          /\ UNCHANGED <<esp, raced>>
       \/ /\ pc[p] = "openvar"
          /\ May("alloc")
          /\ Goto(p, "exit")
          /\ UNCHANGED <<esp, told, raced>>
    /\ UNCHANGED <<ver, rt, path, k, pending, silent, exited>>

\* Skip the attributes.
Skip(p) ==
    /\ pc[p] = "skip"
    /\ \/ Goto(p, "copy") /\ UNCHANGED told
       \/ /\ May("skip")
          /\ told' = [told EXCEPT ![p] = TRUE]
          /\ Goto(p, "closefail")
    /\ UNCHANGED <<sys, path, k, pending, silent, raced, exited>>

\* Mutant: one block too many.
CopyTooFar(p) ==
    /\ pc[p] = "copy"
    /\ esp' = [esp EXCEPT ![path[p]] = Put(@, pending[p])]
    /\ pending' = [pending EXCEPT ![p] = <<Block(ver, k[p] + 1)>>]
    /\ k' = [k EXCEPT ![p] = @ + 1]
    /\ IF k[p] <= Blocks THEN UNCHANGED pc ELSE Goto(p, "close")
    /\ UNCHANGED <<ver, rt, path, told, silent, raced, exited>>

\* fread() and fwrite() of one block; fwrite() writes the block before it.
\* fread() returning 0 ends the loop, whether it met the end or an error.
Copy(p) ==
    /\ pc[p] = "copy"
    /\ \/ /\ k[p] < Blocks
          /\ esp' = [esp EXCEPT ![path[p]] = Put(@, pending[p])]
          /\ pending' = [pending EXCEPT ![p] = <<Block(ver, k[p] + 1)>>]
          /\ k' = [k EXCEPT ![p] = @ + 1]
          /\ UNCHANGED <<pc, told, silent>>
       \/ /\ k[p] < Blocks
          /\ pending[p] # <<>>
          /\ May("write")
          /\ told' = [told EXCEPT ![p] = TRUE]
          /\ Goto(p, "closefail")
          /\ UNCHANGED <<esp, pending, k, silent>>
       \/ /\ k[p] = Blocks \/ May("read")
          /\ silent' = [silent EXCEPT ![p] = @ \/ k[p] < Blocks]
          /\ Goto(p, "close")
          /\ UNCHANGED <<esp, pending, k, told>>
    /\ UNCHANGED <<ver, rt, path, raced, exited>>

\* Mutant: the descriptor is closed, the buffer of stdio forgotten.
CloseUnflushed(p) ==
    /\ pc[p] \in {"close", "closefail"}
    /\ Goto(p, IF pc[p] = "close" THEN "ret" ELSE "exit")
    /\ pending' = [pending EXCEPT ![p] = <<>>]
    /\ UNCHANGED <<sys, path, k, told, silent, raced, exited>>

\* fclose() writes the last block; whether it could is not looked at.
Close(p) ==
    /\ pc[p] \in {"close", "closefail"}
    /\ \/ /\ esp' = [esp EXCEPT ![path[p]] = Put(@, pending[p])]
          /\ UNCHANGED silent
       \/ /\ May("close")
          /\ silent' = [silent EXCEPT ![p] = TRUE]
          /\ UNCHANGED esp
    /\ Goto(p, IF pc[p] = "close" THEN "ret" ELSE "exit")
    /\ pending' = [pending EXCEPT ![p] = <<>>]
    /\ UNCHANGED <<ver, rt, path, k, told, raced, exited>>

Leave(p) ==
    /\ Goto(p, "idle")
    /\ path' = [path EXCEPT ![p] = NoPath]
    /\ k' = [k EXCEPT ![p] = 0]
    /\ pending' = [pending EXCEPT ![p] = <<>>]
    /\ UNCHANGED <<sys, raced>>

Return(p) ==
    /\ pc[p] = "ret"
    /\ Leave(p)
    /\ UNCHANGED <<told, silent, exited>>

\* exit(1) at the end of write_file
Exit(p) ==
    /\ pc[p] = "exit"
    /\ Leave(p)
    /\ exited' = exited \cup {p}
    /\ UNCHANGED <<told, silent>>

Kill(p) ==
    /\ May("kill")
    /\ pc[p] # "idle"
    /\ Leave(p)
    /\ UNCHANGED <<told, silent, exited>>

Next ==
    \E p \in Proc :
        \/ Change(p) \/ FileName(p) \/ FilePath(p) \/ Open(p) \/ Skip(p)
        \/ Copy(p) \/ Close(p) \/ Return(p) \/ Exit(p) \/ Kill(p)

Spec == Init /\ [][Next]_vars

-----------------------------------------------------------------------------

Label == {"idle", "filename", "filepath", "openvar", "openesp",
          "skip", "copy", "close", "closefail", "exit", "ret"}

\* A block of the file, or a hole.
FileBlock == (0 .. MaxVer) \X (0 .. Blocks)

\* What the buffer of a stream may hold.
Buffer == {<<>>} \cup {<<b>> : b \in (1 .. MaxVer) \X (1 .. Blocks)}

\* Every variable of the model has its type.
TypeOK ==
    /\ ver \in 1 .. MaxVer
    /\ rt \in Rt
    /\ DOMAIN esp \in Wheres
    /\ esp \in [DOMAIN esp -> Seq(FileBlock)]
    /\ pc \in [Proc -> Label]
    /\ path \in [Proc -> DOMAIN esp \cup {NoPath}]
    /\ k \in [Proc -> 0 .. Blocks]
    /\ pending \in [Proc -> Buffer]
    /\ told \in [Proc -> BOOLEAN]
    /\ silent \in [Proc -> BOOLEAN]
    /\ raced \subseteq DOMAIN esp
    /\ exited \subseteq Proc

Current == Found # 0 /\ esp[EspPaths[Found]] = Image(ver)

\* Without overlapping updates the file is never a mixture: whatever failed
\* and whoever died, it holds the beginning of the image of one version
\* (write_file truncates first and copies in order).
OneVersion ==
    \A d \in DOMAIN esp \ raced : \E v \in 1 .. ver : IsPrefix(esp[d], Image(v))

\* When an update that nothing overlapped returns, the file is complete and
\* current, whatever an earlier process that died or failed had left there;
\* otherwise it has said so, or one of the four calls failed whose failure the
\* code does not report: reading RTStorageVolatile (efivarfs.c:206), a stat()
\* of the first directory that has the file (efivarfs.c:99), a read()
\* (efivarfs.c:173) or the last write, in fclose() (efivarfs.c:192).
SoloUpdate ==
    \A p \in Proc :
        pc[p] = "ret" /\ rt # "none" /\ path[p] \notin raced =>
            told[p] \/ silent[p] \/ Current
=============================================================================
