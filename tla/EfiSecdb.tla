------------------------------ MODULE EfiSecdb ------------------------------
(***************************************************************************)
(* The efisecdb tool (efisecdb.c): its command line, the files it reads    *)
(* through the iterator of EslIter into the database of SecDb, and the     *)
(* file it writes, one system call per step.  The file that is to be       *)
(* written may be there before, may appear while the tool runs, and every  *)
(* system call may fail.                                                   *)
(***************************************************************************)
EXTENDS EslIter

CONSTANTS
    Argvs,      \* the command lines
    Files,      \* the files that --infile names, by name
    Unreadable  \* those of them that cannot be read

ASSUME UnreadableAssumption == Unreadable \subseteq DOMAIN Files

VARIABLES
    pc,         \* what main() does next
    argv,       \* the options that are left
    opt,        \* what the options said
    todo,       \* the input files that are left
    walk,       \* the iterator of the first of them, and what it has delivered
    db,         \* the database
    status,     \* the status that parse_input_files returned, or of the exit
    out,        \* the output file
    fault       \* what went wrong at the output file

vars == <<pc, argv, opt, todo, walk, db, status, out, fault>>

Db == INSTANCE SecDb WITH
    Sigs <- {}, Files <- {}, FlagSets <- {}, Settable <- {},
    MaxSigs <- 0, MaxLists <- 0, last <- fault

NoOwner == 0

\* The algorithm of a hash type that was not given (hash_index = -1).
NoHash == "none"

\* The output file: none, one that somebody else made, or the tool's.
Absent == [by |-> "nobody"]
Others == [by |-> "other"]
Ours(f) == [by |-> "tool", file |-> f]

NoWalk == [items |-> <<>>]

Exit(s) == pc' = "exit" /\ status' = s

-----------------------------------------------------------------------------
(* The options                                                             *)

Defaults ==
    [mode |-> "ADD", owner |-> NoOwner, hash |-> NoHash, infiles |-> <<>>,
     actions |-> <<>>, outfile |-> FALSE, dump |-> FALSE, force |-> FALSE,
     guids |-> FALSE, flags |-> {"SORT"}]

\* --sort: type, data, all and none set both of the flags, the others one
SortFlags(flags, how) ==
    LET order == flags \cap {"SORT_DESCENDING"}
    IN CASE how = "type" -> order \cup {"SORT"}
         [] how = "data" -> order \cup {"SORT_DATA"}
         [] how = "all" -> order \cup {"SORT", "SORT_DATA"}
         [] how = "none" -> order
         [] how = "ascending" -> flags \ {"SORT_DESCENDING"}
         [] how = "descending" -> flags \cup {"SORT_DESCENDING"}

\* add_action
AddAction(o, alg, data) ==
    [o EXCEPT !.actions =
        Append(@, [mode |-> o.mode, sig |-> [alg |-> alg, owner |-> o.owner, data |-> data]])]

\* add_action refuses an addition that has no owner
Unowned(o) == o.mode = "ADD" /\ o.owner = NoOwner

\* --hash before --type, or a value that does not have the size of the type
HashRefused(o, data) == o.hash = NoHash \/ Len(data) # Db!Size[o.hash]

\* Options that end the program at once.
Refused(o, a) ==
    \/ a.o = "hash" /\ (HashRefused(o, a.data) \/ Unowned(o))
    \/ a.o = "certificate" /\ (Len(a.data) < 4 \/ Unowned(o))
    \/ a.o = "type" /\ a.name = NoHash
    \/ a.o = "outfile" /\ o.outfile

Taken(o, a) ==
    CASE a.o = "add" -> [o EXCEPT !.mode = "ADD"]
      [] a.o = "remove" -> [o EXCEPT !.mode = "REMOVE"]
      [] a.o = "owner-guid" -> [o EXCEPT !.owner = a.guid]
      [] a.o = "type" -> [o EXCEPT !.hash = a.name]
      [] a.o = "hash" -> AddAction(o, o.hash, a.data)
      [] a.o = "certificate" -> AddAction(o, "X509_CERT", a.data)
      [] a.o = "infile" -> [o EXCEPT !.infiles = Append(@, a.name)]
      [] a.o = "outfile" -> [o EXCEPT !.outfile = TRUE]
      [] a.o = "dump" -> [o EXCEPT !.dump = TRUE]
      [] a.o = "force" -> [o EXCEPT !.force = TRUE]
      [] a.o = "list-guids" -> [o EXCEPT !.guids = TRUE]
      [] a.o = "sort" -> [o EXCEPT !.flags = SortFlags(@, a.how)]

Option ==
    /\ pc = "options" /\ argv # <<>>
    /\ argv' = Tail(argv)
    /\ IF Refused(opt, Head(argv))
       THEN Exit(1) /\ UNCHANGED opt
       ELSE opt' = Taken(opt, Head(argv)) /\ UNCHANGED <<pc, status>>
    /\ UNCHANGED <<todo, walk, db, out, fault>>

Adds == {i \in DOMAIN opt.actions : opt.actions[i].mode = "ADD"}

\* What main() checks after the options, and the empty database.
Start ==
    /\ pc = "options" /\ argv = <<>>
    /\ IF ~opt.outfile /\ ~opt.dump
       THEN Exit(IF opt.guids THEN 0 ELSE 1) /\ UNCHANGED <<db, todo, walk>>
       ELSE IF opt.infiles = <<>> /\ Adds = {}
       THEN Exit(1) /\ UNCHANGED <<db, todo, walk>>
       ELSE /\ db' = Db!New(opt.flags)
            /\ todo' = opt.infiles
            /\ pc' = "parse"
            /\ UNCHANGED <<walk, status>>
    /\ UNCHANGED <<argv, opt, out, fault>>

-----------------------------------------------------------------------------
(* parse_input_files and the actions                                       *)

File == Files[Head(todo)]

\* A file is opened and its iterator made.  One that begins with the attributes
\* of a variable is tried at offset 0 first; read four bytes too early, a list's
\* size is the end of its type and its signature size is 0, so that the first
\* call overflows, the second one is refused, and the database stays as it is.
ParseFile ==
    /\ pc = "parse" /\ todo # <<>>
    /\ IF Head(todo) \in Unreadable
       THEN Exit(1) /\ UNCHANGED walk
       ELSE pc' = "walk" /\ walk' = [it |-> New(File), items |-> <<>>] /\ UNCHANGED status
    /\ UNCHANGED <<argv, opt, todo, db, out, fault>>

\* efi_secdb_parse returns: the entries so far are in the database.  A file that
\* failed is not tried at offset 4, unless it begins with attributes: others
\* begin with a guid, none of which is within the bits of attributes.
Parsed(ok) ==
    /\ db' = Db!Parse(db, [items |-> walk.items, ok |-> ok], FALSE)
    /\ walk' = NoWalk
    /\ IF ok THEN todo' = Tail(todo) /\ pc' = "parse" /\ UNCHANGED status
       ELSE IF opt.dump THEN pc' = "dump" /\ status' = 1 /\ UNCHANGED todo
       ELSE Exit(1) /\ UNCHANGED todo

\* The loop of efi_secdb_parse, one signature per step.
NextSig ==
    /\ pc = "walk" /\ ~TooSmall(File)
    /\ \E r \in {IterNext(File, walk.it, FALSE)} : \E a \in {Again(File, r)} :
        IF a.rc \in {"new", "data"}
        THEN /\ walk' = [it |-> a.it,
                         items |-> Append(walk.items,
                                      Item(File, a.it, a.rc, r.rc = "overflow"))]
             /\ UNCHANGED <<pc, status, todo, db>>
        ELSE Parsed(a.rc = "done")
    /\ UNCHANGED <<argv, opt, out, fault>>

\* esl_iter_new fails.
NoIter ==
    /\ pc = "walk" /\ TooSmall(File)
    /\ Parsed(FALSE)
    /\ UNCHANGED <<argv, opt, out, fault>>

Do(d, a) == IF a.mode = "ADD" THEN Db!Add(d, a.sig, FALSE) ELSE Db!Del(d, a.sig)

\* Mutant: the removals are done before the additions.
DoActionsGrouped(d) ==
    LET adds == SelectSeq(opt.actions, LAMBDA a : a.mode = "ADD")
        dels == SelectSeq(opt.actions, LAMBDA a : a.mode # "ADD")
    IN FoldLeft(Do, d, dels \o adds)

DoActions(d) == FoldLeft(Do, d, opt.actions)

RunActions ==
    /\ pc = "parse" /\ todo = <<>>
    /\ db' = DoActions(db)
    /\ pc' = "dump"
    /\ UNCHANGED <<argv, opt, todo, walk, status, out, fault>>

\* secdb_dump, whose output is not modelled
Dumped ==
    /\ pc = "dump"
    /\ IF opt.outfile THEN pc' = "open" /\ UNCHANGED status ELSE Exit(status)
    /\ UNCHANGED <<argv, opt, todo, walk, db, out, fault>>

-----------------------------------------------------------------------------
(* The output file                                                         *)

\* Mutant: the file is opened without O_EXCL.
MayOpenAny == TRUE

\* open() with O_CREAT, and O_EXCL unless --force
MayOpen == opt.force \/ out = Absent

Open ==
    /\ pc = "open"
    /\ IF MayOpen
       THEN /\ out' = IF out = Absent THEN Ours(EmptyFile) ELSE out
            /\ pc' = "truncate" /\ UNCHANGED <<status, fault>>
       ELSE fault' = "EEXIST" /\ Exit(1) /\ UNCHANGED out
    /\ UNCHANGED <<argv, opt, todo, walk, db>>

\* Mutant: the failure is reported, the file stays.
Leave(err) == UNCHANGED out

Unlink(err) == out' = Absent

\* open() fails for another reason: the file is removed whoever made it
OpenFails ==
    /\ pc = "open"
    /\ fault' = "open" /\ Exit(1)
    /\ out' = Absent
    /\ UNCHANGED <<argv, opt, todo, walk, db>>

Truncate ==
    /\ pc = "truncate"
    /\ out' = Ours(EmptyFile)
    /\ pc' = "write"
    /\ UNCHANGED <<argv, opt, todo, walk, db, status, fault>>

\* ftruncate(), efi_secdb_realize() or write() fails
OutputFails ==
    /\ pc \in {"truncate", "write"}
    /\ fault' = "output" /\ Exit(1)
    /\ Unlink("output")
    /\ UNCHANGED <<argv, opt, todo, walk, db>>

\* write() has to write all; what it returns is only compared with 0.
Write ==
    /\ pc = "write"
    /\ \/ out' = Ours(Image(Db!Realize(db).items)) /\ UNCHANGED fault
       \/ out' = Ours(EmptyFile) /\ fault' = "short"
    /\ Exit(0)
    /\ UNCHANGED <<argv, opt, todo, walk, db>>

\* Somebody else makes a file of that name.
Appear ==
    /\ out = Absent /\ pc \in {"parse", "walk", "dump", "open"}
    /\ out' = Others
    /\ UNCHANGED <<pc, argv, opt, todo, walk, db, status, fault>>

Done == pc = "exit" /\ UNCHANGED vars

Init ==
    /\ pc = "options" /\ argv \in Argvs /\ opt = Defaults /\ todo = <<>> /\ walk = NoWalk
    /\ db = Db!New({}) /\ status = 0 /\ out \in {Absent, Others} /\ fault = "none"

Next ==
    \/ Option \/ Start \/ ParseFile \/ NextSig \/ NoIter \/ RunActions \/ Dumped
    \/ Open \/ OpenFails \/ Truncate \/ OutputFails \/ Write \/ Appear \/ Done

Spec == Init /\ [][Next]_vars

-----------------------------------------------------------------------------

Inputs == {Files[opt.infiles[i]] : i \in DOMAIN opt.infiles}

Removed == {opt.actions[i].sig : i \in DOMAIN opt.actions \ Adds}

\* Signatures that were given and not taken away: those of the sound part of
\* each file of a known type, and those added.
Asked ==
    {s \in UNION {Contents(f) : f \in Inputs} \cup {opt.actions[i].sig : i \in Adds} :
        s.alg \in Db!Alg}

LastWord(s) ==
    LET is == {i \in DOMAIN opt.actions : opt.actions[i].sig = s}
    IN IF is = {} THEN "none" ELSE opt.actions[CHOOSE i \in is : \A j \in is : j <= i].mode

\* The tool has ended with status 0 and write() took all of the file: main does
\* not notice when it takes less (efisecdb.c:589), ends with status 0 and leaves
\* an incomplete file.
Written == pc = "exit" /\ status = 0 /\ out.by = "tool" /\ fault = "none"

Same(s, t) == s.alg = t.alg /\ s.data = t.data

\* A file that was written has every signature that an --add gave, or a list of
\* an input file before the first damaged one of that file, and that no --remove
\* named, in whatever order (esl-iter.c, parse_input_files, main).  Of the lists
\* behind a damaged one nothing is said: the iterator may skip them and the
\* tool end with status 0.  A file that only --dump accepted is left out.
OutputComplete ==
    Written /\ ~opt.dump =>
        \A s \in Asked :
            (\A r \in Removed : ~Same(r, s)) =>
                \E t \in Contents(out.file) : Same(s, t)

\* ... and no other one, if no input is damaged: every signature of the file
\* was asked for and the last word about it was not --remove, if the lists are
\* merged (--sort).  Behind a damaged list the iterator may read anything as
\* signatures, which are then written.
OutputClean ==
    Written /\ (\A f \in Inputs : WellFormed(f)) =>
        /\ WellFormed(out.file)
        /\ \A t \in Contents(out.file) :
            t \in Asked /\ ("SORT" \in opt.flags => LastWord(t) # "REMOVE")

\* A run that ends with status 1 leaves no file of its own, neither empty nor
\* cut short, whichever call failed (the unlink() calls of main).
FailsClean == pc = "exit" /\ status = 1 => out.by # "tool"

\* What efisecdb leaves behind (main, parse_input_files, efi_secdb_parse).  With
\* status 0, unless write() fell short, a file that has all that was asked for
\* up to the first damage in each input, and nothing else if no input was
\* damaged, whatever the order of the options; with status 1 no file.
OutputRight == OutputComplete /\ OutputClean /\ FailsClean

\* Without --force a file that is there is not touched (O_EXCL), unless open()
\* itself failed for another reason.
NoClobber ==
    [][out = Others /\ ~opt.force => out' = Others \/ fault' = "open"]_vars
=============================================================================
