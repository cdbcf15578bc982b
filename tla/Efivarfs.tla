------------------------------ MODULE Efivarfs ------------------------------
(***************************************************************************)
(* The efivarfs backend of libefivar (efivarfs.c): how processes that set, *)
(* append to, delete and chmod variables at the same time change the files *)
(* of the efivarfs file system.  There is no lock: a call is a sequence of *)
(* system calls, and the calls of other processes run between any two of   *)
(* them.  One step of this model is one system call.                       *)
(*                                                                         *)
(* A variable is a file.  The kernel marks the files of most variables     *)
(* immutable (Protected), so the backend clears that flag, writes, and     *)
(* puts the flag back.  The fstat() comparison of efivarfs.c:575 is folded *)
(* into OpenW: the inode behind a descriptor never changes.                *)
(***************************************************************************)
EXTENDS UefiVariable, FiniteSets

CONSTANTS
    Proc,        \* the processes (or threads) that use the library
    Name,        \* the variables, each a GUID and a name
    Protected,   \* those whose files the kernel creates immutable
    Payload,     \* the values callers pass
    Mode,        \* the file modes callers pass
    AppendMode,  \* the mode 0 of efivarfs_append_variable
    Ino,         \* inode numbers
    NoIno,       \* no file, or the descriptor -1
    Uncommitted, \* content of a file that was created but never written
    MaxLen,      \* the longest value the firmware stores
    NoAttrs,     \* the attributes 0 a read starts with
    SizeMod,     \* the number of values of a size_t
    Ops,         \* the operations the processes call
    Failing      \* the system calls that may fail for reasons of their own

ASSUME NoInoAssumption == NoIno \notin Ino
ASSUME PayloadAssumption == Payload \subseteq Value
ASSUME ProtectedAssumption == Protected \subseteq Name
ASSUME UncommittedAssumption == Uncommitted \notin Value /\ Uncommitted # Missing
ASSUME SizeModAssumption == SizeMod \in Nat /\ SizeMod > 0
\* The firmware stores no value whose size a size_t cannot hold.
ASSUME MaxLenAssumption == MaxLen \in Nat /\ MaxLen < SizeMod
ASSUME OpsAssumption ==
    Ops \subseteq {"set", "append", "del", "chmod", "get", "size"}

VARIABLES
    dentry,      \* the directory: the inode each name refers to
    immutable,   \* the inodes with FS_IMMUTABLE_FL
    val,         \* the content of each inode
    mode,        \* the permission bits of each inode
    pc,          \* the next system call of each process
    call,        \* the operation a process is in, with its arguments
    rfd, wfd,    \* the inodes behind its descriptors rfd and wfd
    cleared,     \* the inode whose flag the call cleared; in a set or an
                 \* append this is restore_immutable_fd
    ret,         \* the result of the call so far
    got,         \* what a read has collected so far
    overtaken,   \* history: the variable was removed since the call began
    tainted,     \* history: inodes whose flag nobody will put back
    leaked       \* history: never-written files nobody will remove

fs == <<dentry, immutable, val, mode>>
local == <<pc, call, rfd, wfd, cleared, ret, got>>
history == <<overtaken, tainted, leaked>>
vars == <<fs, local, history>>

NoCall == [op |-> "none"]

NoRead == [attrs |-> NoAttrs, data |-> <<>>]

Writes == {"set", "append"}

Calls ==
    [op : {"set"} \cap Ops, name : Name, val : Payload, mode : Mode]
        \cup [op : {"append"} \cap Ops, name : Name, val : Payload,
              mode : {AppendMode}]
        \cup [op : {"del", "get", "size"} \cap Ops, name : Name]
        \cup [op : {"chmod"} \cap Ops, name : Name, mode : Mode]

Linked(i) == \E n \in Name : dentry[n] = i

\* The kernel reuses an inode number only when nothing refers to the inode.
Free == {i \in Ino : /\ ~Linked(i)
                     /\ \A p \in Proc : i \notin {rfd[p], wfd[p], cleared[p]}}

\* What a reader of the file finds; a never-written file holds no variable.
Content(i) == IF i = NoIno \/ val[i] = Uncommitted THEN Missing ELSE val[i]

Stored(n) == Content(dentry[n])

\* The file this call created with O_CREAT | O_EXCL.
Created(p) == rfd[p] = NoIno /\ wfd[p] # NoIno

Goto(p, l) == pc' = [pc EXCEPT ![p] = l]

May(syscall) == syscall \in Failing

\* Every set, append or delete in progress on n was overtaken by a removal.
Overtake(n) ==
    [q \in Proc |-> \/ overtaken[q]
                    \/ call[q].op \in {"set", "append", "del"} /\ call[q].name = n]

-----------------------------------------------------------------------------
(* The library's entry points (lib.c)                                      *)

Init ==
    \E there \in SUBSET Name :
    /\ dentry \in [Name -> Ino \cup {NoIno}]
    /\ \A n \in Name : dentry[n] # NoIno <=> n \in there
    /\ \A m, n \in there : dentry[m] = dentry[n] => m = n
    /\ immutable = {dentry[n] : n \in there \cap Protected}
    /\ \E v \in Payload, m \in Mode :
        /\ v.data # <<>> /\ Len(v.data) <= MaxLen
        /\ val = [i \in Ino |-> v]
        /\ mode = [i \in Ino |-> m]
    /\ pc = [p \in Proc |-> "idle"]
    /\ call = [p \in Proc |-> NoCall]
    /\ rfd = [p \in Proc |-> NoIno]
    /\ wfd = [p \in Proc |-> NoIno]
    /\ cleared = [p \in Proc |-> NoIno]
    /\ ret = [p \in Proc |-> -1]
    /\ got = [p \in Proc |-> NoRead]
    /\ overtaken = [p \in Proc |-> FALSE]
    /\ tainted = {}
    /\ leaked = {}

FirstStep(op) == CASE op \in Writes -> "openR"
                   [] op = "del" -> "openD"
                   [] op = "chmod" -> "chmod"
                   [] op = "get" -> "openG"
                   [] op = "size" -> "stat"

Call(p) ==
    /\ pc[p] = "idle"
    /\ \E c \in Calls :
        /\ call' = [call EXCEPT ![p] = c]
        /\ Goto(p, FirstStep(c.op))
    /\ overtaken' = [overtaken EXCEPT ![p] = FALSE]
    /\ UNCHANGED <<fs, rfd, wfd, cleared, ret, got, tainted, leaked>>

\* The process forgets its call and the kernel closes its descriptors.
Leave(p) ==
    /\ Goto(p, "idle")
    /\ call' = [call EXCEPT ![p] = NoCall]
    /\ rfd' = [rfd EXCEPT ![p] = NoIno]
    /\ wfd' = [wfd EXCEPT ![p] = NoIno]
    /\ cleared' = [cleared EXCEPT ![p] = NoIno]
    /\ ret' = [ret EXCEPT ![p] = -1]
    /\ got' = [got EXCEPT ![p] = NoRead]
    /\ overtaken' = [overtaken EXCEPT ![p] = FALSE]
    /\ UNCHANGED fs

Return(p) ==
    /\ pc[p] = "ret"
    /\ Leave(p)
    /\ UNCHANGED <<tainted, leaked>>

\* Path too long, no memory: nothing has been opened yet.
Reject(p) ==
    /\ pc[p] \in {"openR", "openD", "chmod", "openG", "stat"}
    /\ May("alloc")
    /\ Goto(p, "ret")
    /\ UNCHANGED <<fs, call, got, rfd, wfd, cleared, ret, history>>

\* The process dies in the middle of a call, and cleans nothing up.
Die(p) ==
    /\ Leave(p)
    /\ tainted' = tainted \cup ({cleared[p]} \ {NoIno})
    /\ leaked' = leaked \cup {i \in {wfd[p]} \ {NoIno} :
                                  Created(p) /\ val[i] = Uncommitted}

Kill(p) ==
    /\ May("kill")
    /\ pc[p] # "idle"
    /\ Die(p)

-----------------------------------------------------------------------------
(* efivarfs_set_variable, efivarfs_append_variable                         *)

OpenR(p) ==
    LET i == dentry[call[p].name] IN
    /\ pc[p] = "openR"
    /\ \/ /\ i # NoIno
          /\ rfd' = [rfd EXCEPT ![p] = i]
          /\ \/ Goto(p, "getflags")
             \/ May("fstat") /\ Goto(p, "rollback")
       \/ /\ i = NoIno \/ May("open")
          /\ Goto(p, "openW")
          /\ UNCHANGED rfd
    /\ UNCHANGED <<fs, call, got, wfd, cleared, ret, history>>

\* Open the file for writing if it could be opened for reading...
OpenExisting(p) ==
    LET i == dentry[call[p].name] IN
    /\ pc[p] = "openW"
    /\ rfd[p] # NoIno
    /\ \/ /\ i # NoIno /\ i \notin immutable
          /\ wfd' = [wfd EXCEPT ![p] = i]
          /\ \/ i = rfd[p] /\ Goto(p, "write")
             \/ (i # rfd[p] \/ May("fstat")) /\ Goto(p, "rollback")
       \/ /\ i = NoIno \/ i \in immutable \/ May("open")
          /\ Goto(p, "rollback")
          /\ UNCHANGED wfd
    /\ UNCHANGED <<fs, call, got, rfd, cleared, ret, history>>

\* Mutant: O_CREAT | O_TRUNC without O_EXCL empties a file that appeared
\* between the two open() calls.
CreateTruncating(p) ==
    LET n == call[p].name IN
    /\ pc[p] = "openW"
    /\ rfd[p] = NoIno
    /\ \E i \in IF dentry[n] = NoIno THEN Free ELSE {dentry[n]} :
        /\ dentry' = [dentry EXCEPT ![n] = i]
        /\ val' = [val EXCEPT ![i] = Uncommitted]
        /\ wfd' = [wfd EXCEPT ![p] = i]
    /\ Goto(p, "getflags")
    /\ UNCHANGED <<immutable, mode, call, got, rfd, cleared, ret, history>>

\* ... and create it if it could not.
Create(p) ==
    LET n == call[p].name IN
    /\ pc[p] = "openW"
    /\ rfd[p] = NoIno
    /\ dentry[n] = NoIno
    /\ \E i \in Free :
        /\ dentry' = [dentry EXCEPT ![n] = i]
        /\ immutable' = IF n \in Protected THEN immutable \cup {i}
                                           ELSE immutable \ {i}
        /\ val' = [val EXCEPT ![i] = Uncommitted]
        /\ mode' = [mode EXCEPT ![i] = call[p].mode]
        /\ wfd' = [wfd EXCEPT ![p] = i]
        /\ tainted' = tainted \ {i}
        /\ leaked' = leaked \ {i}
    /\ Goto(p, "getflags")
    /\ UNCHANGED <<call, got, rfd, cleared, ret, overtaken>>

CreateFails(p) ==
    /\ pc[p] = "openW"
    /\ rfd[p] = NoIno
    /\ dentry[call[p].name] # NoIno \/ May("open")
    /\ Goto(p, "rollback")
    /\ UNCHANGED <<fs, call, got, rfd, wfd, cleared, ret, history>>

OpenW(p) == OpenExisting(p) \/ Create(p) \/ CreateFails(p)

Write(p) ==
    LET n   == call[p].name
        i   == wfd[p]
        old == Content(i)
        new == Written(old, call[p].op, call[p].val)
    IN
    /\ pc[p] = "write"
    /\ i \notin immutable
    /\ ~(old = Missing /\ new = Missing /\ call[p].op = "set")
    /\ new # Missing => Len(new.data) <= MaxLen
    /\ IF new # Missing
       THEN /\ val' = [val EXCEPT ![i] = new]
            /\ UNCHANGED <<dentry, overtaken>>
       ELSE /\ UNCHANGED val
            /\ IF dentry[n] = i
               THEN /\ dentry' = [dentry EXCEPT ![n] = NoIno]
                    /\ overtaken' = Overtake(n)
               ELSE UNCHANGED <<dentry, overtaken>>
    /\ Goto(p, "sync")
    /\ UNCHANGED <<immutable, mode, call, got, rfd, wfd, cleared, ret, tainted, leaked>>

WriteFails(p) ==
    LET old == Content(wfd[p])
        new == Written(old, call[p].op, call[p].val)
    IN
    /\ pc[p] = "write"
    /\ \/ wfd[p] \in immutable
       \/ old = Missing /\ new = Missing /\ call[p].op = "set"
       \/ new # Missing /\ Len(new.data) > MaxLen
       \/ May("write")
    /\ Goto(p, "rollback")
    /\ UNCHANGED <<fs, call, got, rfd, wfd, cleared, ret, history>>

\* efi_update_var_file: copies the variables to a file of the ESP and may
\* end the process.
Sync(p) ==
    /\ pc[p] = "sync"
    /\ \/ /\ Goto(p, IF call[p].op = "del" THEN "ret" ELSE "restore")
          /\ ret' = IF call[p].op = "del" THEN ret ELSE [ret EXCEPT ![p] = 0]
          /\ UNCHANGED <<fs, call, got, rfd, wfd, cleared, history>>
       \/ May("exit") /\ Die(p)

\* Mutant: the error path closes the descriptors but leaves the file behind.
RollbackNothing(p) ==
    /\ pc[p] = "rollback"
    /\ Goto(p, "restore")
    /\ UNCHANGED <<fs, call, got, rfd, wfd, cleared, ret, history>>

\* Mutant: the error path repeats the unlink until it succeeds.
RollbackRetrying(p) ==
    LET n == call[p].name IN
    /\ pc[p] = "rollback"
    /\ \/ /\ ~Created(p)
          /\ UNCHANGED <<dentry, overtaken>>
       \/ /\ Created(p)
          /\ dentry[n] # NoIno /\ dentry[n] \notin immutable
          /\ dentry' = [dentry EXCEPT ![n] = NoIno]
          /\ overtaken' = Overtake(n)
    /\ Goto(p, "restore")
    /\ UNCHANGED <<immutable, val, mode, call, got, rfd, wfd, cleared, ret, tainted, leaked>>

\* The label err: of efivarfs_set_variable, reached with ret = -1.  The file
\* is removed by its name.
Rollback(p) ==
    LET n == call[p].name IN
    /\ pc[p] = "rollback"
    /\ \/ /\ ~Created(p)
          /\ UNCHANGED <<dentry, overtaken, leaked>>
       \/ /\ Created(p)
          /\ dentry[n] # NoIno /\ dentry[n] \notin immutable
          /\ dentry' = [dentry EXCEPT ![n] = NoIno]
          /\ overtaken' = Overtake(n)
          /\ UNCHANGED leaked
       \/ /\ Created(p)
          /\ dentry[n] = NoIno \/ dentry[n] \in immutable \/ May("unlink")
          /\ leaked' = leaked \cup {wfd[p]}
          /\ UNCHANGED <<dentry, overtaken>>
    /\ Goto(p, "restore")
    /\ UNCHANGED <<immutable, val, mode, call, got, rfd, wfd, cleared, ret, tainted>>

\* Mutant: the flag goes back only when the call succeeds.
RestoreOnSuccess(p) ==
    /\ pc[p] = "restore"
    /\ immutable' = IF ret[p] = 0 /\ cleared[p] # NoIno
                    THEN immutable \cup {cleared[p]} ELSE immutable
    /\ cleared' = [cleared EXCEPT ![p] = NoIno]
    /\ rfd' = [rfd EXCEPT ![p] = NoIno]
    /\ wfd' = [wfd EXCEPT ![p] = NoIno]
    /\ Goto(p, "ret")
    /\ UNCHANGED <<dentry, val, mode, call, got, ret, history>>

\* Put the flag back and close both descriptors.
Restore(p) ==
    /\ pc[p] = "restore"
    /\ \/ /\ cleared[p] = NoIno
          /\ UNCHANGED <<immutable, tainted>>
       \/ /\ cleared[p] # NoIno
          /\ immutable' = immutable \cup {cleared[p]}
          /\ tainted' = tainted \ {cleared[p]}
       \/ /\ cleared[p] # NoIno
          /\ May("setflags")
          /\ tainted' = tainted \cup {cleared[p]}
          /\ UNCHANGED immutable
    /\ cleared' = [cleared EXCEPT ![p] = NoIno]
    /\ rfd' = [rfd EXCEPT ![p] = NoIno]
    /\ wfd' = [wfd EXCEPT ![p] = NoIno]
    /\ Goto(p, "ret")
    /\ UNCHANGED <<dentry, val, mode, call, got, ret, overtaken, leaked>>

-----------------------------------------------------------------------------
(* efivarfs_make_fd_mutable, on rfd or on the file the call created, and   *)
(* efivarfs_set_immutable(path, 0) in a delete                             *)

FlagFd(p) == IF Created(p) THEN wfd[p] ELSE rfd[p]

AfterFlags(p) == IF call[p].op = "del" THEN "unlink"
                 ELSE IF Created(p) THEN "write" ELSE "openW"

\* A delete closes its descriptor when it is done with the flag.
DoneWithFlags(p) ==
    /\ Goto(p, AfterFlags(p))
    /\ rfd' = IF call[p].op = "del" THEN [rfd EXCEPT ![p] = NoIno] ELSE rfd

GetFlags(p) ==
    /\ pc[p] = "getflags"
    /\ \/ FlagFd(p) \in immutable /\ Goto(p, "clearflags") /\ UNCHANGED rfd
       \/ FlagFd(p) \notin immutable /\ DoneWithFlags(p)
       \/ May("getflags") /\ DoneWithFlags(p)
    /\ UNCHANGED <<fs, call, got, wfd, cleared, ret, history>>

\* Mutant: restore_immutable_fd is not set for a file the call created.
ClearFlagsForgetting(p) ==
    /\ pc[p] = "clearflags"
    /\ immutable' = immutable \ {FlagFd(p)}
    /\ cleared' = IF Created(p) THEN cleared
                  ELSE [cleared EXCEPT ![p] = FlagFd(p)]
    /\ DoneWithFlags(p)
    /\ UNCHANGED <<dentry, val, mode, call, got, wfd, ret, history>>

ClearFlags(p) ==
    /\ pc[p] = "clearflags"
    /\ \/ /\ immutable' = immutable \ {FlagFd(p)}
          /\ cleared' = [cleared EXCEPT ![p] = FlagFd(p)]
       \/ /\ May("setflags")
          /\ UNCHANGED <<immutable, cleared>>
    /\ DoneWithFlags(p)
    /\ UNCHANGED <<dentry, val, mode, call, got, wfd, ret, history>>

-----------------------------------------------------------------------------
(* efivarfs_del_variable, efivarfs_chmod_variable                          *)

OpenD(p) ==
    LET i == dentry[call[p].name] IN
    /\ pc[p] = "openD"
    /\ \/ i # NoIno /\ rfd' = [rfd EXCEPT ![p] = i] /\ Goto(p, "getflags")
       \/ (i = NoIno \/ May("open")) /\ Goto(p, "unlink") /\ UNCHANGED rfd
    /\ UNCHANGED <<fs, call, got, wfd, cleared, ret, history>>

Unlink(p) ==
    LET n == call[p].name IN
    /\ pc[p] = "unlink"
    /\ \/ /\ dentry[n] # NoIno /\ dentry[n] \notin immutable
          /\ dentry' = [dentry EXCEPT ![n] = NoIno]
          /\ overtaken' = Overtake(n)
          /\ ret' = [ret EXCEPT ![p] = 0]
          /\ UNCHANGED tainted
       \/ /\ dentry[n] = NoIno \/ dentry[n] \in immutable \/ May("unlink")
          /\ tainted' = tainted \cup ({cleared[p]} \ {NoIno})
          /\ UNCHANGED <<dentry, overtaken, ret>>
    /\ cleared' = [cleared EXCEPT ![p] = NoIno]
    /\ Goto(p, "sync")
    /\ UNCHANGED <<immutable, val, mode, call, got, rfd, wfd, leaked>>

Chmod(p) ==
    LET i == dentry[call[p].name] IN
    /\ pc[p] = "chmod"
    /\ \/ /\ i # NoIno /\ i \notin immutable
          /\ mode' = [mode EXCEPT ![i] = call[p].mode]
       \/ /\ i = NoIno \/ i \in immutable \/ May("chmod")
          /\ UNCHANGED mode
    /\ Goto(p, "ret")
    /\ UNCHANGED <<dentry, immutable, val, call, got, rfd, wfd, cleared, ret, history>>

-----------------------------------------------------------------------------
(* efivarfs_get_variable, efivarfs_get_variable_attributes,                *)
(* efi_get_variable_exists: a read() of the attributes, then read_file,    *)
(* where one read() returns one unit of data.  A file that was never       *)
(* written is at its end from the start.                                   *)

OpenG(p) ==
    LET i == dentry[call[p].name] IN
    /\ pc[p] = "openG"
    /\ \/ i # NoIno /\ rfd' = [rfd EXCEPT ![p] = i] /\ Goto(p, "readattrs")
       \/ (i = NoIno \/ May("open")) /\ Goto(p, "ret") /\ UNCHANGED rfd
    /\ UNCHANGED <<fs, call, wfd, cleared, ret, got, history>>

\* Mutant: ret_attributes is not set to 0 (efivarfs.c:384), so that a read()
\* of nothing leaves what was on the stack.
ReadAttrsUnset(p) ==
    LET v == Content(rfd[p]) IN
    /\ pc[p] = "readattrs"
    /\ got' = [got EXCEPT ![p].attrs = IF v = Missing THEN Uncommitted ELSE v.attrs]
    /\ Goto(p, "readdata")
    /\ UNCHANGED <<fs, call, rfd, wfd, cleared, ret, history>>

ReadAttrs(p) ==
    LET v == Content(rfd[p]) IN
    /\ pc[p] = "readattrs"
    /\ got' = IF v = Missing THEN got ELSE [got EXCEPT ![p].attrs = v.attrs]
    /\ Goto(p, "readdata")
    /\ UNCHANGED <<fs, call, rfd, wfd, cleared, ret, history>>

\* Mutant: read_file starts over, with an empty buffer, when it is turned away.
AgainFromStart(p) ==
    /\ \/ pc[p] = "readdata" /\ May("again") /\ Goto(p, "yield")
       \/ pc[p] = "yield" /\ Goto(p, "readdata")
    /\ got' = [got EXCEPT ![p].data = <<>>]
    /\ UNCHANGED <<fs, call, rfd, wfd, cleared, ret, history>>

\* The kernel's rate limiter turns a read() of read_file away with EAGAIN;
\* read_file yields the processor and repeats it, as often as it takes.
Again(p) ==
    /\ \/ pc[p] = "readdata" /\ May("again") /\ Goto(p, "yield")
       \/ pc[p] = "yield" /\ Goto(p, "readdata")
    /\ UNCHANGED <<fs, call, rfd, wfd, cleared, ret, got, history>>

\* Mutant: read_file takes the first read() for the whole file.
ReadDataOnce(p) ==
    LET v == Content(rfd[p]) IN
    /\ pc[p] = "readdata"
    /\ got' = IF v = Missing THEN got
              ELSE [got EXCEPT ![p].data = SubSeq(v.data, 1, 1)]
    /\ ret' = [ret EXCEPT ![p] = 0]
    /\ Goto(p, "ret")
    /\ UNCHANGED <<fs, call, rfd, wfd, cleared, history>>

ReadData(p) ==
    LET v == Content(rfd[p])
        k == Len(got[p].data)
    IN
    /\ pc[p] = "readdata"
    /\ IF v # Missing /\ k < Len(v.data)
       THEN /\ got' = [got EXCEPT ![p].data = Append(@, v.data[k + 1])]
            /\ UNCHANGED <<pc, ret>>
       ELSE /\ ret' = [ret EXCEPT ![p] = 0]
            /\ Goto(p, "ret")
            /\ UNCHANGED got
    /\ UNCHANGED <<fs, call, rfd, wfd, cleared, history>>

\* read() fails, or read_file runs out of memory.
ReadFails(p) ==
    /\ pc[p] \in {"readattrs", "readdata"}
    /\ May("read")
    /\ Goto(p, "ret")
    /\ UNCHANGED <<fs, call, rfd, wfd, cleared, ret, got, history>>

\* efivarfs_get_variable_size
FileSize(i) == IF val[i] = Uncommitted THEN 0 ELSE 4 + Len(val[i].data)

Stat(p) ==
    LET i == dentry[call[p].name] IN
    /\ pc[p] = "stat"
    /\ \/ /\ i # NoIno
          /\ got' = [got EXCEPT ![p] = [size |-> (FileSize(i) - 4) % SizeMod]]
          /\ ret' = [ret EXCEPT ![p] = 0]
       \/ /\ i = NoIno \/ May("stat")
          /\ UNCHANGED <<got, ret>>
    /\ Goto(p, "ret")
    /\ UNCHANGED <<fs, call, rfd, wfd, cleared, history>>

-----------------------------------------------------------------------------

Step(p) ==
    \/ OpenR(p) \/ OpenW(p) \/ GetFlags(p) \/ ClearFlags(p)
    \/ Write(p) \/ WriteFails(p) \/ Sync(p) \/ Rollback(p) \/ Restore(p)
    \/ OpenD(p) \/ Unlink(p) \/ Chmod(p)
    \/ OpenG(p) \/ ReadAttrs(p) \/ ReadData(p) \/ ReadFails(p) \/ Again(p)
    \/ Stat(p)
    \/ Reject(p) \/ Return(p)

Next == \E p \in Proc : Call(p) \/ Step(p) \/ Kill(p)

Spec == Init /\ [][Next]_vars

\* The scheduler runs every process that is inside the library, and a read()
\* that is repeated again and again is not turned away for ever: the rate
\* limiter allows so many reads per second.
FairSpec == Spec /\ \A p \in Proc : WF_vars(Step(p)) /\ SF_vars(ReadData(p))

-----------------------------------------------------------------------------
(* Safety                                                                  *)

Label == {"idle", "openR", "getflags", "clearflags", "openW", "write", "sync",
          "rollback", "restore", "openD", "unlink", "chmod",
          "openG", "readattrs", "readdata", "yield", "stat", "ret"}

Fd == Ino \cup {NoIno}

ReadBuf == [attrs : Attrs \cup {NoAttrs}, data : Seq(Bytes)]

\* Every variable of the model has its type.
TypeOK ==
    /\ dentry \in [Name -> Fd]
    /\ immutable \subseteq Ino
    /\ val \in [Ino -> Value \cup {Uncommitted}]
    /\ mode \in [Ino -> Mode \cup {AppendMode}]
    /\ pc \in [Proc -> Label]
    /\ call \in [Proc -> Calls \cup {NoCall}]
    /\ rfd \in [Proc -> Fd]
    /\ wfd \in [Proc -> Fd]
    /\ cleared \in [Proc -> Fd]
    /\ ret \in [Proc -> {0, -1}]
    /\ got \in [Proc -> ReadBuf \cup [size : 0 .. SizeMod - 1]]
    /\ overtaken \in [Proc -> BOOLEAN]
    /\ tainted \subseteq Ino
    /\ leaked \subseteq Ino

\* The protection of a variable is lifted only while a call that will put it
\* back, or will remove the file, is running: whatever the interleaving of
\* sets, appends and deletes, the flag that efivarfs.c:289 clears is lost
\* only if the process died, the ioctl of efivarfs.c:604 failed, or the
\* unlink of efivarfs.c:456 failed after its flag was cleared.
ImmutabilityGuarded ==
    \A n \in Protected :
        LET i == dentry[n] IN
        i # NoIno /\ i \notin immutable =>
            i \in tainted \/ \E p \in Proc : cleared[p] = i

\* A file without a variable behind it belongs to a running call that
\* created it and has yet to write it or to remove it (efivarfs.c:600),
\* unless that call was killed or its unlink failed.
StubOwned ==
    \A n \in Name :
        LET i == dentry[n] IN
        i # NoIno /\ val[i] = Uncommitted =>
            \/ i \in leaked
            \/ \E p \in Proc :
                  /\ Created(p) /\ wfd[p] = i
                  /\ pc[p] \in {"getflags", "clearflags", "write", "rollback"}

-----------------------------------------------------------------------------
(* The backend implements the abstract store of variables                  *)

AbsPhase(p) ==
    IF call[p].op \notin {"set", "append", "del"} THEN "idle"
    ELSE IF pc[p] \in {"openR", "openD", "getflags", "clearflags", "openW",
                       "write", "unlink"} THEN "pending"
    ELSE IF ret[p] = 0 \/ (pc[p] = "sync" /\ call[p].op \in Writes) THEN "done"
    ELSE "failed"

AbsWant(p) ==
    IF call[p].op \in Writes
    THEN [op |-> call[p].op, name |-> call[p].name, val |-> call[p].val]
    ELSE IF call[p].op = "del" THEN [op |-> "del", name |-> call[p].name]
    ELSE NoCall

Abs == INSTANCE VarStore WITH
    store <- [n \in Name |-> Stored(n)],
    phase <- [p \in Proc |-> AbsPhase(p)],
    want  <- [p \in Proc |-> AbsWant(p)]

\* Every set, append and delete takes effect at one instant, or not at all,
\* whatever happens between its system calls: creating a file is invisible,
\* and O_EXCL (efivarfs.c:545) keeps a creation from destroying a value that
\* another call stored since the first open().
Atomic == Abs!Spec

-----------------------------------------------------------------------------
(* Liveness                                                                *)

\* Every call of the library returns: no error path of efivarfs_set_variable
\* and efivarfs_del_variable waits or retries, and read_file, which does retry
\* (util.h:58), goes on where it was turned away, so that a file is read
\* through as soon as the rate limiter has let as many reads pass.
CallReturns == \A p \in Proc : pc[p] # "idle" ~> pc[p] = "idle"

\* A variable whose flag was cleared is protected again in the end, unless
\* the call that cleared it could not finish its work.
ProtectionReturns ==
    \A n \in Protected :
        dentry[n] # NoIno /\ dentry[n] \notin immutable
            ~> \/ dentry[n] \in immutable \cup tainted
               \/ dentry[n] = NoIno
=============================================================================
