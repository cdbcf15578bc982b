------------------------------ MODULE Library -------------------------------
(***************************************************************************)
(* libefivar as the threads of a program see it: the constructors that     *)
(* choose a backend (lib.c, efivarfs.c, vars.c), the entry points of lib.c *)
(* and the functions below them, which call entry points themselves, the   *)
(* error table each thread has, errno (error.c), and the log file that all *)
(* threads share (error.c, util.h).                                        *)
(*                                                                         *)
(* What a backend does to variables is in Efivarfs and VarsSysfs; here a   *)
(* backend function succeeds or fails, and what matters is the errno it    *)
(* leaves, the entries it adds to the table of errors, and which public    *)
(* functions it calls on the way, since each of those may clear the table. *)
(* A function and its private helpers (read_file, get_size_from_file ...)  *)
(* add one entry between them.  A thread is a stack of frames.  One step   *)
(* is the code between two calls or returns.                               *)
(***************************************************************************)
EXTENDS Integers, Sequences, FiniteSets, SequencesExt

CONSTANTS
    Thread,   \* the threads of the program
    Main,     \* the thread that loads the library
    Menus,    \* programs: what each thread calls
    Errno,    \* the values of errno a system call may leave
    Level,    \* levels of log messages
    Backlog,  \* a thread calls a function with at most that many old errors
    Pending,  \* at most that many messages wait in the log's buffer
    Faults    \* what may go wrong: "alloc", "syscall", "exit"

Public == {"set", "set0", "append", "del", "get", "attrs", "size", "next", "chmod"}
Other == {"pop", "clear", "show", "verbose", "log", "mark"}

ASSUME ThreadAssumption == IsFiniteSet(Thread)
ASSUME MainAssumption == Main \in Thread
ASSUME MenusAssumption == Menus \subseteq [Thread -> SUBSET (Public \cup Other)]
ASSUME ErrnoAssumption == "ENOENT" \in Errno /\ Errno \cap {"0", "none"} = {}
ASSUME LevelAssumption == Level \subseteq Nat /\ Level # {}
ASSUME BoundAssumption == Backlog \in Nat /\ Pending \in Nat

VARIABLES
    env,       \* the environment the program was started in
    menu,      \* the program
    phase,     \* "load", "probe", "up" or "gone"
    todo,      \* the constructors that have not run
    ops,       \* the backend, an index of Backends; 0 is NULL
    path,      \* efivarfs_path is not NULL
    stack,     \* the frames of each thread, the innermost last
    ctl,       \* "idle", or "call" or "return": how the innermost frame goes on
    rv,        \* the value the last function returned
    errno,     \* errno of each thread
    table,     \* error_table of each thread, up to current
    room,      \* the entries error_table has memory for
    base,      \* history: the errors that are older than the call
    call,      \* history: the entry point the thread called last
    cause,     \* history: the errno of the failure that failed the call
    origin,    \* history: the function that failed and said so
    oom,       \* history: an error could not be recorded
    verbose,   \* efi_verbose
    loglevel,  \* log_level
    logfile,   \* efi_dbglog is not NULL
    buffer,    \* messages in the buffer of efi_dbglog
    shown,     \* history: the messages that left the buffer last
    alone      \* history: no other thread disturbed the thread's message

process == <<env, menu, phase, todo, ops, path>>
thread == <<stack, ctl, rv, errno, table, room, base>>
calls == <<call, cause, origin, oom>>
logging == <<verbose, loglevel, logfile, buffer, shown, alone>>
vars == <<process, thread, calls, logging>>

\* ops_list of libefivar_init.
Backends == <<"efivarfs", "vars", "default">>

Backend == IF ops = 0 THEN "NULL" ELSE Backends[ops]

\* LIBEFIVAR_OPS, what statfs says of the path of efivarfs, whether
\* EFIVARFS_PATH names that path, whether there is a new_var.
Environments ==
    [name : {"unset", "efivarfs", "vars", "default", "unknown", "help"},
     fs : {"efivarfs", "else", "absent"}, given : BOOLEAN, newvar : BOOLEAN]

NoEnvironment == [name |-> "unset", fs |-> "absent", given |-> FALSE, newvar |-> FALSE]

Frame(lib, fn) == [lib |-> lib, fn |-> fn, at |-> "start", rc |-> 0]

Top(t) == Last(stack[t])

Init ==
    /\ env \in Environments
    /\ menu \in Menus
    /\ phase = "load"
    /\ todo = {"path", "log", "ops"}
    /\ ops = 0
    /\ path = FALSE
    /\ stack = [t \in Thread |-> <<>>]
    /\ ctl = [t \in Thread |-> "idle"]
    /\ rv = [t \in Thread |-> 0]
    /\ errno = [t \in Thread |-> "0"]
    /\ table = [t \in Thread |-> <<>>]
    /\ room = [t \in Thread |-> 0]
    /\ base = [t \in Thread |-> 0]
    /\ call = [t \in Thread |-> "none"]
    /\ cause = [t \in Thread |-> "none"]
    /\ origin = [t \in Thread |-> "none"]
    /\ oom = [t \in Thread |-> FALSE]
    /\ verbose = 0
    /\ loglevel = 0
    /\ logfile = FALSE
    /\ buffer = <<>>
    /\ shown = {}
    /\ alone = [t \in Thread |-> TRUE]

-----------------------------------------------------------------------------
(* error.c: the table of errors                                            *)

\* Mutant: realloc is asked for the entries there are.
RoomShort(n) == n

\* The entries realloc is asked for before one is added to n.
RoomFor(n) == n + 1

\* Mutant: the table is given up when it cannot grow.
TableLost(t) == <<>>

\* What is left of the table when it cannot grow, or a string not be copied.
TableKept(t) == table[t]

\* efi_error_set: the entry (f, e) is added and errno is good afterwards, or
\* there is no memory, for the table or for the entry's strings, and errno
\* is bad.
Record(t, f, e, good, bad) ==
    \/ /\ table' = [table EXCEPT ![t] = Append(@, [fn |-> f, error |-> e])]
       /\ room' = [room EXCEPT ![t] = RoomFor(Len(table[t]))]
       /\ errno' = [errno EXCEPT ![t] = good]
       /\ UNCHANGED <<base, oom>>
    \/ /\ "alloc" \in Faults
       /\ table' = [table EXCEPT ![t] = TableKept(t)]
       /\ \E n \in {room[t], RoomFor(Len(table[t]))} : room' = [room EXCEPT ![t] = n]
       /\ errno' = [errno EXCEPT ![t] = bad]
       /\ oom' = [oom EXCEPT ![t] = TRUE]
       /\ UNCHANGED base

\* efi_error(): the entry has the errno of the moment.
Efi_error(t, f, e) == Record(t, f, e, e, "ENOMEM")

\* efi_error_clear.
Clear(t) ==
    /\ table' = [table EXCEPT ![t] = <<>>]
    /\ room' = [room EXCEPT ![t] = 0]
    /\ base' = [base EXCEPT ![t] = 0]

\* efi_error_pop keeps the memory of the table.
Efi_error_pop(t) ==
    /\ table[t] # <<>>
    /\ table' = [table EXCEPT ![t] = Front(@)]
    /\ base' = [base EXCEPT ![t] = 0]
    /\ UNCHANGED room

\* show_errors reads the entries with efi_error_get, prints and clears them,
\* when efi_get_verbose() says so.
Show_errors(t) == verbose >= 1 /\ Clear(t)

-----------------------------------------------------------------------------
(* Loading: constructors run in any order, on the thread that loads        *)

\* init_efivarfs_path; without memory the program ends.
InitPath ==
    /\ phase = "load" /\ "path" \in todo
    /\ todo' = todo \ {"path"}
    /\ \/ path' = TRUE /\ UNCHANGED phase
       \/ ~path /\ "alloc" \in Faults /\ phase' = "gone" /\ UNCHANGED path
    /\ UNCHANGED <<env, menu, ops, thread, calls, logging>>

\* efi_error_init: without /dev/null there is no log.
InitLog ==
    /\ phase = "load" /\ "log" \in todo
    /\ todo' = todo \ {"log"}
    /\ \/ logfile' = TRUE
       \/ "syscall" \in Faults /\ logfile' = FALSE
    /\ UNCHANGED <<env, menu, phase, ops, path, thread, calls,
                   verbose, loglevel, buffer, shown, alone>>

\* The first of ops_list with that name, or the last.
Named(n) ==
    CHOOSE i \in DOMAIN Backends :
        /\ Backends[i] \in {n, "default"}
        /\ \A j \in 1 .. i - 1 : Backends[j] # n

\* libefivar_init: LIBEFIVAR_OPS decides alone, or the probes do.
InitOps ==
    /\ phase = "load" /\ "ops" \in todo
    /\ todo' = todo \ {"ops"}
    /\ \/ env.name = "help" /\ phase' = "gone" /\ UNCHANGED <<ops, stack>>
       \/ /\ env.name \notin {"help", "unset"}
          /\ ops' = Named(env.name)
          /\ UNCHANGED <<phase, stack>>
       \/ /\ env.name = "unset"
          /\ phase' = "probe"
          /\ stack' = [stack EXCEPT ![Main] = <<[Frame("probe", "efivarfs") EXCEPT !.rc = 1]>>]
          /\ UNCHANGED ops
    /\ UNCHANGED <<env, menu, path, ctl, rv, errno, table, room, base, calls, logging>>

\* The backend can be used.
Usable(b) ==
    CASE b = "efivarfs" -> env.fs = "efivarfs" \/ (env.fs = "else" /\ env.given)
      [] b = "vars" -> env.newvar
      [] OTHER -> TRUE

ProbeAt(l) == phase = "probe" /\ Top(Main).at = l

\* efivarfs_probe, vars_probe, default_probe; a failing one has its say, and
\* so has efivarfs_probe when another file system is at the path it was given.
Probe ==
    /\ ProbeAt("start")
    /\ LET b == Backends[Top(Main).rc] IN
       /\ path' = (path \/ b = "efivarfs")
       /\ IF Usable(b)
          THEN /\ IF b = "efivarfs" /\ env.fs = "else" THEN Clear(Main)
                  ELSE UNCHANGED <<table, room, base>>
               /\ stack' = [stack EXCEPT ![Main][1].at = "found"]
               /\ UNCHANGED <<errno, oom>>
          ELSE /\ \E e \in Errno \cup {errno[Main]} : Efi_error(Main, b, e)
               /\ stack' = [stack EXCEPT ![Main][1].at = "failed"]
    /\ UNCHANGED <<env, menu, phase, todo, ops, ctl, rv, call, cause, origin, logging>>

ProbeFailed ==
    /\ ProbeAt("failed")
    /\ Efi_error(Main, "libefivar_init", errno[Main])
    /\ LET i == Top(Main).rc + 1 IN
       stack' = [stack EXCEPT ![Main] = <<[Frame("probe", Backends[i]) EXCEPT !.rc = i]>>]
    /\ UNCHANGED <<process, ctl, rv, call, cause, origin, logging>>

\* Mutant: the errors of the backends that are not there stay.
ProbeFoundDirty ==
    /\ ProbeAt("found")
    /\ ops' = Top(Main).rc
    /\ phase' = "load"
    /\ stack' = [stack EXCEPT ![Main] = <<>>]
    /\ UNCHANGED <<env, menu, todo, path, ctl, rv, errno, table, room, base, calls, logging>>

ProbeFound ==
    /\ ProbeAt("found")
    /\ Clear(Main)
    /\ ops' = Top(Main).rc
    /\ phase' = "load"
    /\ stack' = [stack EXCEPT ![Main] = <<>>]
    /\ UNCHANGED <<env, menu, todo, path, ctl, rv, errno, calls, logging>>

\* The program starts; nothing reads the environment again.
Loaded ==
    /\ phase = "load" /\ todo = {}
    /\ phase' = "up"
    /\ env' = NoEnvironment
    /\ oom' = [oom EXCEPT ![Main] = FALSE]
    /\ UNCHANGED <<menu, todo, ops, path, thread, call, cause, origin, logging>>

-----------------------------------------------------------------------------
(* lib.c: the entry points                                                 *)

\* The operation of the backend behind an entry point.
Operation(f) == IF f = "set0" THEN "set" ELSE f

Implemented(f) ==
    Backend # "default" /\ (f = "append" => Backend = "efivarfs")

Push(t, frame) ==
    /\ stack' = [stack EXCEPT ![t] = Append(@, frame)]
    /\ ctl' = [ctl EXCEPT ![t] = "call"]

\* The innermost frame goes on at l when the function it calls returns.
CallAt(t, l, frame) ==
    /\ stack' = [stack EXCEPT ![t] = Append(Front(@), [Top(t) EXCEPT !.at = l]) \o <<frame>>]
    /\ ctl' = [ctl EXCEPT ![t] = "call"]

Goto(t, l) ==
    /\ stack' = [stack EXCEPT ![t][Len(stack[t])].at = l]
    /\ ctl' = [ctl EXCEPT ![t] = "call"]

Pop(t, value) ==
    /\ stack' = [stack EXCEPT ![t] = Front(@)]
    /\ ctl' = [ctl EXCEPT ![t] = IF Len(stack[t]) = 1 THEN "idle" ELSE "return"]
    /\ rv' = [rv EXCEPT ![t] = value]

\* A program calls a function of the library.
Call(t) ==
    /\ phase = "up" /\ ctl[t] = "idle" /\ Len(table[t]) <= Backlog
    /\ \E f \in Public \cap menu[t] :
        /\ Push(t, Frame("public", f))
        /\ call' = [call EXCEPT ![t] = f]
    /\ cause' = [cause EXCEPT ![t] = "none"]
    /\ origin' = [origin EXCEPT ![t] = "none"]
    /\ oom' = [oom EXCEPT ![t] = FALSE]
    /\ base' = [base EXCEPT ![t] = Len(table[t])]
    /\ UNCHANGED <<process, rv, errno, table, room, logging>>

At(t, lib, fn, l) ==
    /\ phase = "up" /\ stack[t] # <<>>
    /\ Top(t).lib \in lib /\ Top(t).fn \in fn /\ Top(t).at = l

Returned(t, lib, fn, l) == ctl[t] = "return" /\ At(t, lib, fn, l)

Started(t, lib, fn) == ctl[t] = "call" /\ At(t, lib, fn, "start")

Enter(t) ==
    /\ Started(t, {"public"}, Public)
    /\ LET f == Top(t).fn IN
       \/ /\ Implemented(f)
          /\ CallAt(t, "called", Frame(Backend, Operation(f)))
       \/ /\ ~Implemented(f) /\ f = "append"
          /\ CallAt(t, "called", Frame("generic", "append"))
    /\ UNCHANGED <<process, rv, errno, table, room, base, calls, logging>>

\* "... is not implemented": the entry has the errno from before.
EnterMissing(t) ==
    /\ Started(t, {"public"}, Public \ {"append"})
    /\ ~Implemented(Top(t).fn)
    /\ Record(t, Top(t).fn, errno[t], "ENOSYS", "ENOSYS")
    /\ Pop(t, -1)
    /\ cause' = [cause EXCEPT ![t] = "ENOSYS"]
    /\ UNCHANGED <<process, call, origin, logging>>

\* Mutant: the entry point forgets what the functions below it have recorded.
LeaveFailedAlone(t) ==
    /\ Returned(t, {"public"}, Public, "called") /\ rv[t] < 0
    /\ table' = [table EXCEPT ![t] = <<[fn |-> Top(t).fn, error |-> errno[t]]>>]
    /\ room' = [room EXCEPT ![t] = 1]
    /\ base' = [base EXCEPT ![t] = 0]
    /\ Pop(t, rv[t])
    /\ UNCHANGED <<process, errno, call, cause, origin, oom, logging>>

\* The entry point adds its own entry.
LeaveFailed(t) ==
    /\ Returned(t, {"public"}, Public, "called") /\ rv[t] < 0
    /\ Efi_error(t, Top(t).fn, errno[t])
    /\ Pop(t, rv[t])
    /\ UNCHANGED <<process, call, cause, origin, logging>>

\* Mutant: only a set clears the errors it left behind.
LeaveDirty(t) ==
    /\ Returned(t, {"public"}, Public, "called") /\ rv[t] >= 0
    /\ IF Top(t).fn # "set" THEN UNCHANGED <<table, room, base>> ELSE Clear(t)
    /\ Pop(t, rv[t])
    /\ UNCHANGED <<process, errno, calls, logging>>

\* The entry points of the old ABI do not clear the table.
Leave(t) ==
    /\ Returned(t, {"public"}, Public, "called") /\ rv[t] >= 0
    /\ IF Top(t).fn = "set0" THEN UNCHANGED <<table, room, base>> ELSE Clear(t)
    /\ Pop(t, rv[t])
    /\ UNCHANGED <<process, errno, calls, logging>>

-----------------------------------------------------------------------------
(* The functions of the backends that end without calling an entry point   *)

Libs == {"efivarfs", "vars"}

\* The frame belongs to the efi_get_variable() in efi_update_var_file().
InUpdate(t) ==
    \E i \in 1 .. Len(stack[t]) : stack[t][i].at \in {"update", "unlinked"}

Blame(t, e, f) ==
    IF InUpdate(t) THEN UNCHANGED <<cause, origin>>
    ELSE /\ cause' = [cause EXCEPT ![t] = e]
         /\ origin' = [origin EXCEPT ![t] = f]

\* Functions that may succeed and leave an entry: vars_chmod_variable always
\* does, an iteration does when it cannot set FD_CLOEXEC.
LeafSucceeds(t) ==
    /\ \/ Started(t, Libs, {"get", "size", "next"})
       \/ Started(t, {"vars"}, {"chmod", "del"})
    /\ \/ /\ Top(t).fn # "chmod"
          /\ UNCHANGED <<errno, table, room, base, oom>>
       \/ /\ Top(t).fn = "next"
          /\ \E e \in Errno : Efi_error(t, "next", e)
       \/ /\ Top(t).fn = "chmod"
          /\ Record(t, "chmod", "0", "0", "0")
    /\ \E n \in IF Top(t).fn = "next" THEN {0, 1} ELSE {0} : Pop(t, n)
    /\ UNCHANGED <<process, call, cause, origin, logging>>

\* A system call fails, and the function says so.
LeafFails(t) ==
    /\ \/ Started(t, Libs, {"get", "size", "next", "del"})
       \/ Started(t, {"vars"}, {"set"})
       \/ ctl[t] = "call" /\ At(t, {"vars"}, {"set"}, "write")
    /\ \E e \in Errno :
        /\ Efi_error(t, Top(t).lib, e)
        /\ Blame(t, e, Top(t).lib)
    /\ Pop(t, -1)
    /\ UNCHANGED <<process, call, logging>>

\* The functions of vars.c refuse an argument or a file of the wrong size, and
\* set errno after they have said so (ENOSPC for too much data, here EINVAL).
LeafRefuses(t) ==
    /\ Started(t, {"vars"}, {"get", "del", "set"})
    /\ Record(t, "vars", errno[t], "EINVAL", "EINVAL")
    /\ Blame(t, "EINVAL", "vars")
    /\ Pop(t, -1)
    /\ UNCHANGED <<process, call, logging>>

\* The two chmod functions keep errno over the recording.
ChmodFails(t) ==
    /\ Started(t, Libs, {"chmod"})
    /\ \E e \in Errno :
        /\ Record(t, Top(t).lib, e, e, e)
        /\ Blame(t, e, Top(t).lib)
    /\ Pop(t, -1)
    /\ UNCHANGED <<process, call, logging>>

\* efivarfs_chmod_variable returns -1 when chmod() has succeeded, too, and
\* vars_chmod_variable refuses a long name without a word.
ChmodSilent(t) ==
    /\ Started(t, Libs, {"chmod"})
    /\ \/ /\ Top(t).lib = "efivarfs"
          /\ UNCHANGED <<errno, cause>>
       \/ /\ Top(t).lib = "vars"
          /\ errno' = [errno EXCEPT ![t] = "EINVAL"]
          /\ cause' = [cause EXCEPT ![t] = "EINVAL"]
    /\ Pop(t, -1)
    /\ UNCHANGED <<process, table, room, base, call, origin, oom, logging>>

-----------------------------------------------------------------------------
(* The functions that call entry points of the library                     *)

\* get_variable_attributes of both backends.
Attrs(t) ==
    /\ Started(t, Libs, {"attrs"})
    /\ CallAt(t, "got", Frame("public", "get"))
    /\ UNCHANGED <<process, rv, errno, table, room, base, calls, logging>>

AttrsDone(t) ==
    /\ Returned(t, Libs, {"attrs"}, "got")
    /\ IF rv[t] < 0 THEN Efi_error(t, Top(t).lib, errno[t])
       ELSE UNCHANGED <<errno, table, room, base, oom>>
    /\ Pop(t, rv[t])
    /\ UNCHANGED <<process, call, cause, origin, logging>>

\* efivarfs_append_variable.
FsAppend(t) ==
    /\ Started(t, {"efivarfs"}, {"append"})
    /\ CallAt(t, "did", Frame("efivarfs", "set"))
    /\ UNCHANGED <<process, rv, errno, table, room, base, calls, logging>>

FsAppendDone(t) ==
    /\ Returned(t, {"efivarfs"}, {"append"}, "did")
    /\ IF rv[t] < 0 THEN Efi_error(t, "efivarfs_append_variable", errno[t])
       ELSE UNCHANGED <<errno, table, room, base, oom>>
    /\ Pop(t, rv[t])
    /\ UNCHANGED <<process, call, cause, origin, logging>>

\* efivarfs_set_variable: the variable is written and the ESP file brought up
\* to date, or a step fails; errno is saved after that.
FsSet(t) ==
    /\ Started(t, {"efivarfs"}, {"set"})
    /\ \/ /\ CallAt(t, "update", Frame("public", "get"))
          /\ UNCHANGED <<rv, errno, table, room, base, cause, origin, oom>>
       \/ /\ \E e \in Errno :
              /\ Efi_error(t, "efivarfs", e)
              /\ Blame(t, e, "efivarfs")
          /\ Goto(t, "rollback")
          /\ UNCHANGED rv
    /\ UNCHANGED <<process, call, logging>>

\* write_file() ends the program when it cannot write the file.
UpdateExits(t) ==
    /\ \/ Returned(t, {"efivarfs"}, {"set"}, "update")
       \/ Returned(t, {"efivarfs"}, {"del"}, "unlinked")
    /\ "exit" \in Faults /\ rv[t] >= 0
    /\ phase' = "gone"
    /\ UNCHANGED <<env, menu, todo, ops, path, thread, calls, logging>>

FsSetDone(t) ==
    /\ Returned(t, {"efivarfs"}, {"set"}, "update")
    /\ Pop(t, 0)
    /\ UNCHANGED <<process, errno, table, room, base, calls, logging>>

\* Mutant: the errno of a failed roll back is the one the caller sees.
SavedLate(t, e) == e

\* save_errno over the roll back.
Saved(t, e) == errno[t]

\* The file that was created is removed, which may fail as well.
FsRollback(t) ==
    /\ ctl[t] = "call" /\ At(t, {"efivarfs"}, {"set"}, "rollback")
    /\ \/ UNCHANGED <<errno, table, room, base, oom>>
       \/ \E e \in Errno : Record(t, "rollback", e, Saved(t, e), Saved(t, "ENOMEM"))
    /\ Pop(t, -1)
    /\ UNCHANGED <<process, call, cause, origin, logging>>

\* efivarfs_del_variable: the immutable flag may not be cleared, which is
\* recorded and forgotten, then the file is unlinked.
FsDel(t) ==
    /\ Started(t, {"efivarfs"}, {"del"})
    /\ \/ UNCHANGED <<errno, table, room, base, oom>>
       \/ \E e \in Errno : Efi_error(t, "efivarfs_set_immutable", e)
    /\ Goto(t, "unlink")
    /\ UNCHANGED <<process, rv, call, cause, origin, logging>>

FsUnlink(t) ==
    /\ ctl[t] = "call" /\ At(t, {"efivarfs"}, {"del"}, "unlink")
    /\ \E n \in {0, -1} :
        /\ IF n = 0 THEN UNCHANGED <<errno, table, room, base, cause, origin, oom>>
           ELSE \E e \in Errno :
                 /\ Efi_error(t, "efivarfs", e)
                 /\ Blame(t, e, "efivarfs")
        /\ stack' = [stack EXCEPT ![t] =
                       Append(Front(@), [Top(t) EXCEPT !.at = "unlinked", !.rc = n])
                           \o <<Frame("public", "get")>>]
        /\ ctl' = [ctl EXCEPT ![t] = "call"]
    /\ UNCHANGED <<process, rv, call, logging>>

\* errno is saved after efi_update_var_file(), whose system calls leave one.
FsDelDone(t) ==
    /\ Returned(t, {"efivarfs"}, {"del"}, "unlinked")
    /\ \E e \in {errno[t]} \cup (IF rv[t] >= 0 THEN Errno ELSE {}) :
        errno' = [errno EXCEPT ![t] = e]
    /\ Pop(t, Top(t).rc)
    /\ UNCHANGED <<process, table, room, base, calls, logging>>

\* vars_set_variable deletes the variable that is there, then writes; a file
\* that cannot be opened to write is in LeafFails.
VarsSet(t) ==
    /\ Started(t, {"vars"}, {"set"})
    /\ \/ Goto(t, "write")
       \/ CallAt(t, "deleted", Frame("public", "del"))
    /\ UNCHANGED <<process, rv, errno, table, room, base, calls, logging>>

VarsSetDeleted(t) ==
    /\ Returned(t, {"vars"}, {"set"}, "deleted")
    /\ \/ rv[t] >= 0 /\ Goto(t, "write") /\ UNCHANGED <<rv, errno, table, room, base, oom>>
       \/ rv[t] < 0 /\ Efi_error(t, "vars", errno[t]) /\ Pop(t, -1)
    /\ UNCHANGED <<process, call, cause, origin, logging>>

\* write() succeeds, or fails and is recorded; _vars_chmod_variable follows in
\* either case, and leaves 0 or the errno of a chmod() that failed.
VarsWrite(t) ==
    /\ ctl[t] = "call" /\ At(t, {"vars"}, {"set"}, "write")
    /\ \E g \in {"0"} \cup Errno :
        \/ /\ errno' = [errno EXCEPT ![t] = g]
           /\ Pop(t, 0)
           /\ UNCHANGED <<table, room, base, oom, cause, origin>>
        \/ /\ \E e \in Errno : Record(t, "write", e, g, g) /\ Blame(t, e, "write")
           /\ Pop(t, -1)
    /\ UNCHANGED <<process, call, logging>>

-----------------------------------------------------------------------------
(* generic_append_variable                                                 *)

GenericAppend(t) ==
    /\ Started(t, {"generic"}, {"append"})
    /\ CallAt(t, "got", Frame("public", "get"))
    /\ UNCHANGED <<process, rv, errno, table, room, base, calls, logging>>

\* The variable is there; one with other attributes is refused silently.
AppendFound(t) ==
    /\ Returned(t, {"generic"}, {"append"}, "got") /\ rv[t] >= 0
    /\ \/ /\ CallAt(t, "deleted", Frame("public", "del"))
          /\ UNCHANGED <<rv, errno, cause>>
       \/ /\ errno' = [errno EXCEPT ![t] = "EINVAL"]
          /\ cause' = [cause EXCEPT ![t] = "EINVAL"]
          /\ Pop(t, -1)
    /\ UNCHANGED <<process, table, room, base, call, origin, oom, logging>>

\* The variable is not there, as far as errno can tell.
AppendMissing(t) ==
    /\ Returned(t, {"generic"}, {"append"}, "got") /\ rv[t] < 0
    /\ \/ /\ errno[t] = "ENOENT"
          /\ CallAt(t, "set", Frame("public", "set"))
          /\ UNCHANGED <<rv, errno, table, room, base, oom>>
       \/ /\ errno[t] # "ENOENT"
          /\ Efi_error(t, "generic", errno[t])
          /\ Pop(t, -1)
    /\ UNCHANGED <<process, call, cause, origin, logging>>

AppendDeleted(t) ==
    /\ Returned(t, {"generic"}, {"append"}, "deleted")
    /\ \/ /\ rv[t] >= 0
          /\ CallAt(t, "reset", Frame("public", "set"))
          /\ UNCHANGED <<rv, errno, table, room, base, oom>>
       \/ rv[t] < 0 /\ Efi_error(t, "generic", errno[t]) /\ Pop(t, -1)
    /\ UNCHANGED <<process, call, cause, origin, logging>>

\* A failure to write the joined value is recorded twice.
AppendReset(t) ==
    /\ Returned(t, {"generic"}, {"append"}, "reset") /\ rv[t] < 0
    /\ Efi_error(t, "generic", errno[t])
    /\ stack' = [stack EXCEPT ![t][Len(stack[t])].at = "set"]
    /\ UNCHANGED <<process, ctl, rv, call, cause, origin, logging>>

AppendSet(t) ==
    /\ \/ Returned(t, {"generic"}, {"append"}, "set")
       \/ Returned(t, {"generic"}, {"append"}, "reset") /\ rv[t] >= 0
    /\ IF rv[t] < 0 THEN Efi_error(t, "generic", errno[t])
       ELSE UNCHANGED <<errno, table, room, base, oom>>
    /\ Pop(t, rv[t])
    /\ UNCHANGED <<process, call, cause, origin, logging>>

-----------------------------------------------------------------------------
(* What a program does with the table, the verbosity and the log           *)

Idle(t, f) == phase = "up" /\ ctl[t] = "idle" /\ f \in menu[t]

Errors(t) ==
    /\ \/ Idle(t, "pop") /\ Efi_error_pop(t)
       \/ Idle(t, "clear") /\ Clear(t)
       \/ Idle(t, "show") /\ Show_errors(t)
    /\ call' = [call EXCEPT ![t] = "none"]
    /\ UNCHANGED <<process, stack, ctl, rv, errno, cause, origin, oom, logging>>

Logs(t) == stack[t] # <<>> /\ Top(t).lib = "log"

\* efi_set_verbose, before other threads log: it may come between the level
\* of a message and its way out otherwise.
Efi_set_verbose(t) ==
    /\ Idle(t, "verbose")
    /\ \E v \in Level \cup {0} : verbose' = v
    /\ alone' = [u \in Thread |-> alone[u] /\ ~Logs(u)]
    /\ buffer' = [i \in DOMAIN buffer |-> [buffer[i] EXCEPT !.mixed = TRUE]]
    /\ UNCHANGED <<process, thread, calls, loglevel, logfile, shown>>

\* Mutant: log_() does not tell the log file its level.
LevelStale(l) == loglevel

\* efi_set_loglevel.
LevelSet(l) == l

\* log_() and debug_markers_(): the level is the log file's, not the message's.
LogBegin(t) ==
    \E f \in {"log", "mark"}, l \in Level :
    /\ Idle(t, f) /\ Len(buffer) < Pending
    /\ loglevel' = LevelSet(l)
    /\ IF logfile THEN Push(t, [Frame("log", f) EXCEPT !.rc = l])
       ELSE UNCHANGED <<stack, ctl>>
    /\ alone' = [u \in Thread |->
                   IF u = t THEN \A w \in Thread \ {t} : ~Logs(w)
                   ELSE alone[u] /\ ~Logs(u)]
    /\ buffer' = [i \in DOMAIN buffer |-> [buffer[i] EXCEPT !.mixed = TRUE]]
    /\ shown' = {}
    /\ call' = [call EXCEPT ![t] = "none"]
    /\ UNCHANGED <<process, rv, errno, table, room, base, cause, origin, oom,
                   verbose, logfile>>

\* The message enters the buffer of the stream; a marker stays there.
LogWrite(t) ==
    /\ Started(t, {"log"}, {"log", "mark"})
    /\ buffer' = Append(buffer, [level |-> Top(t).rc, by |-> t,
                                 mixed |-> Top(t).fn = "mark" \/ ~alone[t]])
    /\ IF Top(t).fn = "mark" THEN Pop(t, 0) ELSE Goto(t, "flush") /\ UNCHANGED rv
    /\ UNCHANGED <<process, errno, table, room, base, calls,
                   verbose, loglevel, logfile, shown, alone>>

\* The test of dbglog_write; what does not pass it goes to /dev/null.
Passes == verbose >= loglevel

Out == {[level |-> m.level, verbose |-> verbose, seen |-> Passes,
         mixed |-> m.mixed \/ ~alone[m.by]] : m \in Range(buffer)}

\* fflush() sends everything in the buffer through dbglog_write.
LogFlush(t) ==
    /\ ctl[t] = "call" /\ At(t, {"log"}, {"log"}, "flush")
    /\ shown' = Out
    /\ buffer' = <<>>
    /\ Pop(t, 0)
    /\ UNCHANGED <<process, errno, table, room, base, calls, verbose, loglevel, logfile, alone>>

\* The program ends when its threads are idle: efi_error_fini clears the table
\* of the last thread and closes the log, fini_efivarfs_path frees the path.
Fini ==
    /\ phase = "up" /\ \A t \in Thread : ctl[t] = "idle"
    /\ phase' = "gone"
    /\ path' = FALSE
    /\ Clear(Main)
    /\ shown' = Out
    /\ buffer' = <<>>
    /\ logfile' = FALSE
    /\ call' = [call EXCEPT ![Main] = "none"]
    /\ UNCHANGED <<env, menu, todo, ops, stack, ctl, rv, errno, cause, origin, oom,
                   verbose, loglevel, alone>>

Step(t) ==
    \/ Call(t) \/ Enter(t) \/ EnterMissing(t) \/ LeaveFailed(t) \/ Leave(t)
    \/ LeafSucceeds(t) \/ LeafFails(t) \/ LeafRefuses(t) \/ ChmodFails(t) \/ ChmodSilent(t)
    \/ Attrs(t) \/ AttrsDone(t) \/ FsAppend(t) \/ FsAppendDone(t)
    \/ FsSet(t) \/ UpdateExits(t) \/ FsSetDone(t) \/ FsRollback(t)
    \/ FsDel(t) \/ FsUnlink(t) \/ FsDelDone(t) \/ VarsSet(t) \/ VarsSetDeleted(t)
    \/ VarsWrite(t)
    \/ GenericAppend(t) \/ AppendFound(t) \/ AppendMissing(t) \/ AppendDeleted(t)
    \/ AppendReset(t) \/ AppendSet(t)
    \/ Errors(t) \/ Efi_set_verbose(t) \/ LogBegin(t) \/ LogWrite(t) \/ LogFlush(t)

Next ==
    \/ InitPath \/ InitLog \/ InitOps \/ Probe \/ ProbeFailed \/ ProbeFound \/ Loaded
    \/ \E t \in Thread : Step(t)
    \/ Fini

Spec == Init /\ [][Next]_vars
-----------------------------------------------------------------------------
(* Properties                                                              *)

Code == Errno \cup {"0", "EINVAL", "ENOSYS", "ENOMEM"}

Entry == [fn : Public \cup Range(Backends)
                \cup {"libefivar_init", "rollback", "generic", "efivarfs_append_variable",
                      "efivarfs_set_immutable", "write"},
          error : Code]

\* The functions a call can fail in: those of a backend, and write().
Origins == Range(Backends) \cup {"write"}

Labels == {"start", "called", "got", "did", "update", "rollback", "unlink", "unlinked",
           "deleted", "write", "set", "reset", "flush", "failed", "found"}

Frames ==
    [lib : Range(Backends) \cup {"public", "generic", "NULL", "log", "probe"},
     fn : Public \cup Range(Backends) \cup {"log", "mark"},
     at : Labels, rc : Level \cup -1 .. Len(Backends)]

Messages == [level : Level, by : Thread, mixed : BOOLEAN]

Shown == [level : Level, verbose : Level \cup {0}, seen : BOOLEAN, mixed : BOOLEAN]

\* Every variable has its type, and the table of errors of a thread (error.c)
\* never has more entries than memory was allocated for.
TypeOK ==
    /\ env \in Environments /\ menu \in Menus
    /\ phase \in {"load", "probe", "up", "gone"}
    /\ todo \subseteq {"path", "log", "ops"}
    /\ ops \in 0 .. Len(Backends) /\ path \in BOOLEAN
    /\ stack \in [Thread -> Seq(Frames)]
    /\ ctl \in [Thread -> {"idle", "call", "return"}]
    /\ rv \in [Thread -> {-1, 0, 1}]
    /\ errno \in [Thread -> Code]
    /\ table \in [Thread -> Seq(Entry)]
    /\ room \in [Thread -> Nat] /\ base \in [Thread -> Nat]
    /\ \A t \in Thread : base[t] <= Len(table[t]) /\ Len(table[t]) <= room[t]
    /\ call \in [Thread -> Public \cup {"none"}]
    /\ cause \in [Thread -> Code \cup {"none"}]
    /\ origin \in [Thread -> Origins \cup {"none"}]
    /\ oom \in [Thread -> BOOLEAN]
    /\ verbose \in Level \cup {0} /\ loglevel \in Level \cup {0}
    /\ logfile \in BOOLEAN /\ alone \in [Thread -> BOOLEAN]
    /\ buffer \in Seq(Messages) /\ Len(buffer) <= Pending + Cardinality(Thread)
    /\ shown \subseteq Shown

Succeeded(t) == phase = "up" /\ ctl[t] = "idle" /\ call[t] \in Public /\ rv[t] >= 0
Failed(t) == phase = "up" /\ ctl[t] = "idle" /\ call[t] \in Public /\ rv[t] < 0

\* When the constructors have run (lib.c:232), in whatever order, there is a
\* backend: without LIBEFIVAR_OPS the first one that works, with it the one
\* it names or none.  The errors of the probes that failed are not left for
\* the program to find.
LoadRight ==
    phase = "load" /\ todo = {} =>
        /\ ops # 0 /\ path
        /\ env.name = "unset" =>
            Usable(Backend) /\ \A i \in 1 .. ops - 1 : ~Usable(Backends[i])
        /\ env.name # "unset" =>
            Backend = IF env.name \in Range(Backends) THEN env.name ELSE "default"
        /\ table[Main] = <<>>

\* A call that succeeds leaves no errors behind (efi_error_clear in the entry
\* points of lib.c), however many the functions below it have met: a probe
\* for a variable that is not there, the ESP file that cannot be updated.
CleanAfterSuccess ==
    \A t \in Thread : Succeeded(t) /\ call[t] # "set0" => table[t] = <<>>

\* The errno of a failed call is the one of the failure that made it fail,
\* not of something the library did afterwards: rolling back, reading another
\* variable, recording the error.  thread-test.c:89 relies on this.  Left out
\* are calls in which there was no memory to record an error, and the two
\* functions that save errno too late: efivarfs_del_variable, after the ESP
\* file, and vars_set_variable, whose failed write() is followed by
\* _vars_chmod_variable (vars.c:606), which sets errno to 0 or its own.
ErrnoIsCause ==
    \A t \in Thread :
        Failed(t) /\ ~oom[t] /\ cause[t] # "none" /\ origin[t] # "write"
                  /\ ~(Backend = "efivarfs" /\ call[t] = "del") =>
            errno[t] = cause[t]

\* The trace of a failed call begins at the function that failed and ends at
\* the entry point, although functions in between call entry points that clear
\* the table when they succeed.  efivarfs_del_variable is left out: reading
\* the name of the ESP file clears what unlink had to say.
TraceComplete ==
    \A t \in Thread :
        LET new == SubSeq(table[t], base[t] + 1, Len(table[t])) IN
        Failed(t) /\ ~oom[t] =>
            /\ new # <<>> /\ Last(new).fn = call[t]
            /\ origin[t] # "none" /\ ~(Backend = "efivarfs" /\ call[t] = "del") =>
                \E i \in DOMAIN new : new[i].fn = origin[t]

\* The table of errors a program finds after a call tells the truth about that
\* call: nothing after a success, the whole way up after a failure.
TraceRight == CleanAfterSuccess /\ TraceComplete

\* Errors disappear only when a function succeeds or the program says so,
\* never because another one could not be recorded (error.c:82).
ErrorsSurvive ==
    [][\A t \in Thread :
        \/ IsPrefix(table[t], table'[t])
        \/ phase = "probe" \/ phase' = "gone"
        \/ ctl[t] = "idle" /\ call'[t] = "none"
        \/ stack[t] # <<>> /\ Top(t).lib = "public" /\ rv[t] >= 0]_vars

\* A message gets through the log file exactly when its level is within the
\* verbosity, unless another thread logged, or the verbosity was changed, at
\* the same time: the level is a static of error.c that messages share.
LogExact ==
    \A m \in shown : m.mixed \/ (m.seen <=> m.level <= m.verbose)
=============================================================================
