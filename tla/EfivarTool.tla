----------------------------- MODULE EfivarTool -----------------------------
(***************************************************************************)
(* The efivar tool (efivar.c) and callers of efi_variable_import and       *)
(* efi_variable_realize, run after run, on variables that another program  *)
(* changes at the same time.  A call of the library on a variable is one   *)
(* step (see Efivarfs for what it does); what the tool does between two    *)
(* calls, or between two calls on a file, is interleaved with everything   *)
(* else, fails, or ends because the tool is killed.                        *)
(***************************************************************************)
EXTENDS ExportImport

CONSTANTS
    Attrs,          \* the attribute words
    Bytes,          \* the bytes of data
    Missing,        \* the value of a variable that does not exist
    None,           \* an option that was not given
    Commands,       \* the command lines, see Operation
    Values,         \* the values another program sets
    InitialStores,  \* the variables there may be before the first run
    InitialFiles,   \* the files there may be before the first run, by path
    MaxRuns,        \* bound on the runs of the tool
    MaxOther        \* bound on the changes by another program

ASSUME BoundsAssumption == MaxRuns \in Nat /\ MaxOther \in Nat

\* -A 0: the attributes of the variable are used
Zero == "0"

NoFile == [recs |-> <<>>, len |-> -1]
EmptyFile == [recs |-> <<>>, len |-> 0]

Names == DOMAIN Chars \cup {Narrowed(n) : n \in Wide}

\* A variable that exists has attributes.
ASSUME StoresAssumption ==
    /\ Zero \notin Attrs /\ Values \subseteq [attrs : Attrs, data : Seq(Bytes)]
    /\ InitialStores \subseteq [Names -> Values \cup {Missing}]

Formats == {"native", "dmpstore"}

Records ==
    [fmt : Formats, name : Names, append : BOOLEAN, attrs : Attrs \cup {Zero},
     auth : AuthBits, data : Seq(Bytes), nl : Nat, dl : Nat, good : BOOLEAN]

\* A record whose checksum is right was written by an exporter.
AsExported(r) == r.data # <<>> /\ r.nl = NameLen(r.name) /\ r.dl = Len(r.data)

ASSUME FilesAssumption ==
    \A fs \in InitialFiles : \A p \in DOMAIN fs :
        /\ fs[p] \in [recs : Seq(Records), len : Int]
        /\ \A k \in DOMAIN fs[p].recs : fs[p].recs[k].good => AsExported(fs[p].recs[k])

VARIABLES
    store,      \* the variables of the firmware
    files,      \* the exported files
    pc, cmd,    \* what the tool does next, and its command line
    reg,        \* the variable it has in memory
    got, off,   \* the variables imported one after another, and the offset
    status,     \* its exit status
    fault,      \* whether something failed that the code does not look at
    seen,       \* the values of each variable since the tool was started
    before,     \* the variables when it was started
    runs, other \* counters

vars == <<store, files, pc, cmd, reg, got, off, status, fault, seen, before, runs, other>>

Uefi == INSTANCE UefiVariable

-----------------------------------------------------------------------------
(* The firmware and the other program                                      *)

\* What a write leaves behind; the attributes of a variable cannot be changed,
\* and without attributes it is deleted.
Refuses(old, new) ==
    IF new.attrs = Zero THEN old = Missing ELSE old # Missing /\ old.attrs # new.attrs

After(old, op, new) == IF new.attrs = Zero THEN Missing ELSE Uefi!Written(old, op, new)

Put(name, val) ==
    /\ store' = [store EXCEPT ![name] = val]
    /\ seen' = [seen EXCEPT ![name] = @ \cup {val}]

\* The variables of a command; no other one makes a difference to it.
Concerned ==
    IF cmd.name # None THEN {cmd.name}
    ELSE IF cmd.in # None THEN {r.name : r \in ToSet(files[cmd.in].recs)} \cap DOMAIN Chars
    ELSE {}

Other ==
    /\ other < MaxOther /\ other' = other + 1
    /\ pc # "idle"
    /\ \E n \in Concerned, v \in Values \cup {Missing} : v # store[n] /\ Put(n, v)
    /\ UNCHANGED <<files, pc, cmd, reg, got, off, status, fault, before, runs>>

-----------------------------------------------------------------------------
(* main(): what the options ask for.  acts are the bits of action.         *)

Operation(c) ==
    LET acts == IF c.name # None /\ c.out = None THEN c.acts \cup {"print"} ELSE c.acts
    IN CASE acts \in {{"print"}, {"print", "dec"}} -> "print"
         [] acts = {"append", "print"} -> "append"
         [] acts = {"write", "print"} -> "write"
         [] acts = {"export"} -> IF c.from = None THEN "export" ELSE "format"
         [] acts \in {{"import"}, {"import", "print"}, {"import", "print", "dec"}} -> "import"
         [] acts = {"import", "export"} -> IF c.from = None THEN "convert" ELSE "usage"
         [] acts \in {{"list"}, {"guids"}} -> "list"
         [] acts = {"restore"} -> "restore"
         [] acts = {"walk"} -> "walk"
         [] OTHER -> "usage"

\* An export or an edit names its variable, or ends in validate_name; an edit
\* has data, what is exported goes to a file, and what is imported comes from one.
ASSUME CommandsAssumption ==
    \A c \in Commands :
        /\ c.attrs \in Attrs \cup {Zero} /\ c.fmt \in Formats
        /\ Operation(c) \in {"export", "format", "write", "append"} => c.name \in Names
        /\ Operation(c) \in {"format", "write", "append"} => c.from \in Seq(Bytes)
        /\ Operation(c) \in {"export", "format", "convert"} =>
                \A f \in InitialFiles : c.out \in DOMAIN f
        /\ Operation(c) \in {"import", "convert", "restore", "walk"} =>
                \A f \in InitialFiles : c.in \in DOMAIN f

FirstStep(op) ==
    CASE op \in {"print", "export"} -> "get"
      [] op \in {"append", "write", "format"} -> "prepare"
      [] op \in {"import", "convert", "restore"} -> "import"
      [] op = "walk" -> "walk"
      [] op \in {"list", "usage"} -> "end"

Op == Operation(cmd)

NoVar == VarOf(None, Zero, <<>>)

FirstCommand == CHOOSE c \in Commands : TRUE

Start(c) ==
    /\ pc = "idle" /\ runs < MaxRuns
    /\ cmd' = c /\ pc' = FirstStep(Operation(c))
    /\ reg' = NoVar /\ got' = <<>> /\ off' = 0
    /\ status' = 0 /\ fault' = "none"
    /\ before' = store /\ seen' = [n \in Names |-> {store[n]}]
    /\ runs' = runs + 1 /\ other' = 0
    /\ UNCHANGED <<store, files>>

Exit(s) == pc' = "done" /\ status' = s

\* Options that only print, or that cannot be combined
End ==
    /\ pc = "end"
    /\ Exit(IF Op = "list" THEN 0 ELSE 1)
    /\ UNCHANGED <<store, files, cmd, reg, got, off, fault, seen, before, runs, other>>

\* The next run begins.
Again ==
    /\ pc \in {"done", "killed"} /\ pc' = "idle"
    /\ cmd' = FirstCommand /\ reg' = NoVar /\ got' = <<>> /\ off' = 0
    /\ status' = 0 /\ fault' = "none" /\ other' = 0
    /\ seen' = [n \in Names |-> {}] /\ before' = store
    /\ UNCHANGED <<store, files, runs>>

Kill ==
    /\ pc \notin {"idle", "done", "killed"} /\ pc' = "killed"
    /\ UNCHANGED <<store, files, cmd, reg, got, off, status, fault, seen, before, runs, other>>

-----------------------------------------------------------------------------
(* Reading and writing a variable                                          *)

\* prepare_data: a file without data cannot be mapped
Prepare ==
    /\ pc = "prepare"
    /\ IF cmd.from = <<>> THEN Exit(1) /\ UNCHANGED reg
       ELSE /\ reg' = VarOf(cmd.name, cmd.attrs, cmd.from)
            /\ pc' = IF Op = "format" THEN "open" ELSE "get"
            /\ UNCHANGED status
    /\ UNCHANGED <<store, files, cmd, got, off, fault, seen, before, runs, other>>

\* Mutant: the attributes of the command line are used only for a new variable.
EditAttrsOld(asked, old) == IF old = Missing THEN asked ELSE old.attrs

\* edit_variable: the attributes of the variable are used with -A 0, and 0 if
\* it could not be read
EditAttrs(asked, old) ==
    IF asked # Zero THEN asked ELSE IF old = Missing THEN Zero ELSE old.attrs

\* efi_get_variable, in show_variable, save_variable and edit_variable; a
\* variable that cannot be read is as good as none.
Get(val, f) ==
    /\ pc = "get" /\ fault' = f
    /\ IF Op \in {"append", "write"}
       THEN /\ reg' = [reg EXCEPT !.attrs = EditAttrs(cmd.attrs, val)]
            /\ pc' = "set" /\ UNCHANGED status
       ELSE IF val = Missing
       THEN Exit(1) /\ UNCHANGED reg
       ELSE /\ reg' = VarOf(cmd.name, val.attrs, val.data)
            /\ IF Op = "export" THEN pc' = "open" /\ UNCHANGED status ELSE Exit(0)
    /\ UNCHANGED <<store, files, cmd, got, off, seen, before, runs, other>>

\* efi_set_variable and efi_append_variable, also for efi_variable_realize
Write(op) ==
    LET new == [attrs |-> reg.attrs, data |-> reg.data]
    IN IF Refuses(store[reg.name], new)
       THEN Exit(1) /\ UNCHANGED <<store, seen>>
       ELSE Put(reg.name, After(store[reg.name], op, new)) /\ Exit(0)

Set ==
    /\ pc = "set"
    /\ Write(IF Op = "append" THEN "append" ELSE "set")
    /\ UNCHANGED <<files, cmd, reg, got, off, fault, before, runs, other>>

\* The firmware has no room, or the variable is protected.
SetFails ==
    /\ pc \in {"set", "realize"} /\ Exit(1)
    /\ UNCHANGED <<store, files, cmd, reg, got, off, fault, seen, before, runs, other>>

-----------------------------------------------------------------------------
(* save_variable_data                                                      *)

\* fopen() empties the file before the variable is formatted.
Open ==
    /\ pc = "open"
    /\ files' = [files EXCEPT ![cmd.out] = EmptyFile]
    /\ pc' = "format"
    /\ UNCHANGED <<store, cmd, reg, got, off, status, fault, seen, before, runs, other>>

\* Without data there is nothing to format.  What fflush() and fclose() return
\* is not looked at.
Format ==
    /\ pc = "format"
    /\ IF ~CanExport(reg) THEN Exit(1) /\ UNCHANGED <<files, fault>>
       ELSE /\ \/ /\ files' = [files EXCEPT ![cmd.out] = FileOf(reg, cmd.fmt)]
                  /\ UNCHANGED fault
               \/ fault' = "lost" /\ UNCHANGED files
            /\ Exit(0)
    /\ UNCHANGED <<store, cmd, reg, got, off, seen, before, runs, other>>

-----------------------------------------------------------------------------
(* Importing                                                               *)

\* The number of objects that fwrite() wrote, 1, is compared with the number of
\* bytes; then the name of the command line is freed.
DataFileStatus(data) ==
    IF Len(data) > 1 THEN 1 ELSE IF cmd.name # None THEN 134 ELSE 0

ImportFile ==
    /\ pc = "import"
    /\ LET r == Import(files[cmd.in], 0)
       IN IF files[cmd.in].len <= 0 \/ r = Failed
          THEN Exit(1) /\ UNCHANGED reg
          ELSE /\ reg' = r.var
               /\ CASE Op = "convert" -> pc' = "open" /\ UNCHANGED status
                    [] Op = "restore" -> pc' = "realize" /\ UNCHANGED status
                    [] OTHER -> Exit(IF cmd.from = None THEN 0 ELSE DataFileStatus(r.var.data))
    /\ UNCHANGED <<store, files, cmd, got, off, fault, seen, before, runs, other>>

\* efi_variable_realize
RealizeVar ==
    /\ pc = "realize"
    /\ IF Realized(reg) \in {"set", "append"}
       THEN Write(Realized(reg))
       ELSE Exit(1) /\ UNCHANGED <<store, seen>>
    /\ UNCHANGED <<files, cmd, reg, got, off, fault, before, runs, other>>

\* efi_variable_import used successively
WalkNext ==
    /\ pc = "walk"
    /\ LET f == files[cmd.in]
           r == Import(f, off)
       IN IF off >= f.len THEN Exit(0) /\ UNCHANGED <<got, off>>
          ELSE IF r = Failed THEN Exit(1) /\ UNCHANGED <<got, off>>
          ELSE /\ got' = Append(got, r.var) /\ off' = off + r.rc
               /\ UNCHANGED <<pc, status>>
    /\ UNCHANGED <<store, files, cmd, reg, fault, seen, before, runs, other>>

-----------------------------------------------------------------------------

Init ==
    /\ store \in InitialStores
    /\ files \in InitialFiles
    /\ pc = "idle" /\ cmd = FirstCommand /\ reg = NoVar
    /\ got = <<>> /\ off = 0 /\ status = 0 /\ fault = "none"
    /\ seen = [n \in Names |-> {}] /\ before = store /\ runs = 0 /\ other = 0

Next ==
    \/ Other
    \/ \E c \in Commands : Start(c)
    \/ Again \/ Kill \/ End
    \/ Prepare
    \/ Get(store[cmd.name], "none") \/ Get(Missing, "unread")
    \/ Set \/ SetFails \/ Open \/ Format \/ ImportFile \/ RealizeVar \/ WalkNext

Spec == Init /\ [][Next]_vars

-----------------------------------------------------------------------------

Finished(op) == pc = "done" /\ Op = op /\ status = 0

Holds(f, name, val) ==
    \E r \in ToSet(f.recs) :
        /\ f.recs = <<r>> /\ r.good /\ f.len = Size(r)
        /\ r.name = name /\ r.attrs = val.attrs /\ r.data = val.data

\* A run of --export that ends with 0 leaves one whole record in the file, of a
\* value that the variable had while it ran (save_variable), of the data file
\* (main) or of what the other format held, also if it is the same file; only a
\* write that failed in fflush() or fclose() is not noticed.
ExportExact ==
    fault = "none" =>
        /\ Finished("export") =>
                \E v \in seen[cmd.name] \ {Missing} : Holds(files[cmd.out], cmd.name, v)
        /\ Finished("format") =>
                Holds(files[cmd.out], cmd.name, [attrs |-> cmd.attrs, data |-> cmd.from])
        /\ Finished("convert") => Holds(files[cmd.out], reg.name, reg)

\* A file that was damaged or cut is never taken for a variable.
DamageRefused ==
    pc = "done" /\ Op \in {"import", "restore", "convert"} /\ reg # NoVar =>
        \/ cmd.in = cmd.out
        \/ files[cmd.in].recs[1].good /\ files[cmd.in].len >= Size(files[cmd.in].recs[1])

\* What a run that restored one variable leaves.
Restored ==
    Finished("restore") /\ other = 0 =>
        LET r == files[cmd.in].recs[1]
            n == IF r.fmt = "native" /\ r.name \in Wide THEN Narrowed(r.name) ELSE r.name
            new == [attrs |-> r.attrs, data |-> r.data]
        IN /\ r.auth # "header"
           /\ store = [before EXCEPT ![n] =
                          IF r.attrs = Zero THEN Missing
                          ELSE Uefi!Written(@, IF r.append THEN "append" ELSE "set", new)]
           /\ r.attrs # Zero /\ before[n] # Missing => store[n].attrs = before[n].attrs

\* Restoring a file that holds one variable gives that variable the value in
\* the file or appends it, keeps the attributes of one that exists, deletes it if
\* the file has no attributes for it, and changes no other (efi_variable_import,
\* efi_variable_realize); names that are not ASCII survive only in the dmpstore
\* format.  A file that was damaged or cut is refused.
RestoreRight == Restored /\ DamageRefused

\* What efi_variable_t(3) says of efi_variable_import, that it can be used
\* successively with its return code as an offset, for the files of dmpstore:
\* a walk over whole records returns all of them in their order.
WalkComplete ==
    LET f == files[cmd.in]
    IN pc = "done" /\ Op = "walk"
       /\ f.recs # <<>> /\ f.len = Offset(f, Len(f.recs) + 1)
       /\ (\A k \in DOMAIN f.recs : f.recs[k].good /\ f.recs[k].fmt = "dmpstore") =>
            /\ status = 0
            /\ [k \in DOMAIN got |-> <<got[k].name, got[k].data>>]
                   = [k \in DOMAIN f.recs |-> <<f.recs[k].name, f.recs[k].data>>]

\* An edit that nobody disturbs and that ends with 0 leaves the new data behind
\* the old or in its place, with the attributes the variable had or, if it is
\* new, those of -A (edit_variable).  It does not delete the variable, unless
\* -A 0 was given and the variable could not be read.
EditRight ==
    \A op \in {"write", "append"} :
        Finished(op) /\ other = 0 /\ fault = "none" =>
            LET old == before[cmd.name]
                a   == IF cmd.attrs = Zero THEN old.attrs ELSE cmd.attrs
            IN store = [before EXCEPT ![cmd.name] =
                            Uefi!Written(@, IF op = "append" THEN "append" ELSE "set",
                                         [attrs |-> a, data |-> cmd.from])]
=============================================================================
