----------------------------- MODULE VarsSysfs ------------------------------
(***************************************************************************)
(* The backend for kernels without efivarfs (vars.c, generics.h): every    *)
(* variable is a directory of /sys/firmware/efi/vars, a variable is made   *)
(* by writing a record to the file new_var and removed by writing one to   *)
(* del_var.  The kernel has no way to replace a variable, so a set is a    *)
(* delete and a create, and an append is a read, a delete and a create.    *)
(* One step of this model is one system call on a variable.                *)
(*                                                                         *)
(* A record has the layout of the kernel's ABI, 32 or 64 bit, which a      *)
(* process finds out once, from the variables there are when it starts.    *)
(* The six files of a variable change their mode together.  dirfd() does   *)
(* not fail on a directory that opendir() has opened.                      *)
(***************************************************************************)
EXTENDS UefiVariable, FiniteSets

CONSTANTS
    Proc,        \* the processes
    Name,        \* the variables
    Alien,       \* long entries of the directory that do not end in a GUID
    Payload,     \* the values callers pass
    Mode,        \* the modes callers pass
    DefaultMode, \* the mode the kernel, and an append, gives a variable
    MaxLen,      \* the most data a record holds (1024 bytes in the code)
    KernelAbi,   \* the layout of records: 32 or 64
    PointerAbi,  \* the layout a program guesses when it sees no variable
    Closed,      \* the static dir of generics.h when it is NULL
    Ops,         \* the operations the processes call
    Failing      \* the system calls that may fail for reasons of their own

ASSUME PayloadAssumption == Payload \subseteq Value
ASSUME AlienAssumption == Alien \cap Name = {}
ASSUME AbiAssumption == KernelAbi \in {32, 64} /\ PointerAbi \in {32, 64}
ASSUME MaxLenAssumption == MaxLen \in Nat
ASSUME ClosedAssumption ==
    Closed \notin [must : SUBSET Name, may : SUBSET (Name \cup Alien)]
ASSUME OpsAssumption ==
    Ops \subseteq {"set", "append", "del", "chmod", "get", "size", "next"}

VARIABLES
    store,      \* the variables
    mode,       \* the mode of each variable's files
    pc,         \* the next system call of each process
    call,       \* the operation a process is in, with its arguments
    phase,      \* the function whose delete is running: append, set or del
    value,      \* the value a set or an append is going to write
    opened,     \* the variable behind the descriptor is still there
    ret,        \* the result of the call so far
    abi,        \* sixtyfour_bit, once it is known
    dir,        \* the static directory stream of generics.h
    before,     \* history: the variable when the call began
    disturbed,  \* history: somebody else changed it since
    excused,    \* history: variables that are missing for a reason
    iter        \* history: what an iteration over the names has returned

kernel == <<store, mode>>
local == <<pc, call, phase, value, opened, ret, abi, dir>>
history == <<before, disturbed, excused, iter>>
vars == <<kernel, local, history>>

NoCall == [op |-> "none"]

NoIter == [on |-> FALSE, resumed |-> FALSE, owed |-> {}, got |-> {}]

Calls ==
    [op : {"set"} \cap Ops, name : Name, val : Payload, mode : Mode]
        \cup [op : {"append"} \cap Ops, name : Name, val : Payload]
        \cup [op : {"del", "get", "size"} \cap Ops, name : Name]
        \cup [op : {"chmod"} \cap Ops, name : Name, mode : Mode]

Present == {n \in Name : store[n] # Missing}

Goto(p, l) == pc' = [pc EXCEPT ![p] = l]

May(syscall) == syscall \in Failing

On(p, n) == call[p] # NoCall /\ call[p].name = n

\* The call is between the removal of a variable and its next value.
Owes(p, n) ==
    /\ On(p, n)
    /\ pc[p] = "newvar" \/ (pc[p] = "access" /\ call[p].op = "append")

\* The variable n becomes v: descriptors of a removed variable are dead, and
\* a directory that is being read shows the change or does not.
Change(p, n, v) ==
    /\ store' = [store EXCEPT ![n] = v]
    /\ opened' = [q \in Proc |-> opened[q] /\ ~(v = Missing /\ On(q, n))]
    /\ disturbed' = [q \in Proc |-> disturbed[q] \/ (q # p /\ On(q, n))]
    /\ dir' = [q \in Proc |->
                 IF dir[q] = Closed THEN Closed
                 ELSE IF v = Missing THEN [dir[q] EXCEPT !.must = @ \ {n}]
                 ELSE [dir[q] EXCEPT !.may = @ \cup {n}]]
    /\ iter' = [q \in Proc |->
                 IF v = Missing THEN [iter[q] EXCEPT !.owed = @ \ {n}] ELSE iter[q]]

\* The call fails; if it owed a variable, that one is lost.
Fail(p) ==
    /\ ret' = [ret EXCEPT ![p] = -1]
    /\ Goto(p, "ret")
    /\ excused' = excused \cup {n \in Name : Owes(p, n) /\ store[n] = Missing}

-----------------------------------------------------------------------------
(* Processes: the probe of the backend, the entry points of lib.c          *)

Init ==
    \E there \in SUBSET Name, v \in Payload :
    /\ v.data # <<>> /\ Len(v.data) <= MaxLen
    /\ store = [n \in Name |-> IF n \in there THEN v ELSE Missing]
    /\ mode = [n \in Name |-> DefaultMode]
    /\ pc = [p \in Proc |-> "off"]
    /\ call = [p \in Proc |-> NoCall]
    /\ phase = [p \in Proc |-> "none"]
    /\ value = [p \in Proc |-> Missing]
    /\ opened = [p \in Proc |-> FALSE]
    /\ ret = [p \in Proc |-> -1]
    /\ abi = [p \in Proc |-> PointerAbi]
    /\ dir = [p \in Proc |-> Closed]
    /\ before = [p \in Proc |-> Missing]
    /\ disturbed = [p \in Proc |-> FALSE]
    /\ excused = Name \ there
    /\ iter = [p \in Proc |-> NoIter]

\* vars_probe, is_64bit: the first variable that can be read tells.
Probe(p) ==
    /\ pc[p] = "off"
    /\ \/ Present # {} /\ abi' = [abi EXCEPT ![p] = KernelAbi]
       \/ /\ Present = {} \/ May("read")
          /\ abi' = [abi EXCEPT ![p] = PointerAbi]
    /\ Goto(p, "idle")
    /\ UNCHANGED <<kernel, call, phase, value, opened, ret, dir, history>>

FirstStep(op) == CASE op = "set" -> "access"
                   [] op \in {"append", "get"} -> "getopen"
                   [] op = "del" -> "delopen"
                   [] OTHER -> op

Call(p) ==
    /\ pc[p] = "idle"
    /\ \E c \in Calls :
        /\ call' = [call EXCEPT ![p] = c]
        /\ phase' = [phase EXCEPT ![p] = c.op]
        /\ value' = [value EXCEPT ![p] = IF c.op = "set" THEN c.val ELSE Missing]
        /\ before' = [before EXCEPT ![p] = store[c.name]]
        /\ Goto(p, FirstStep(c.op))
    /\ disturbed' = [disturbed EXCEPT ![p] = FALSE]
    /\ iter' = [iter EXCEPT ![p] = IF @.on THEN @ ELSE NoIter]
    /\ UNCHANGED <<kernel, opened, ret, abi, dir, excused>>

Return(p) ==
    /\ pc[p] = "ret"
    /\ Goto(p, "idle")
    /\ call' = [call EXCEPT ![p] = NoCall]
    /\ phase' = [phase EXCEPT ![p] = "none"]
    /\ value' = [value EXCEPT ![p] = Missing]
    /\ opened' = [opened EXCEPT ![p] = FALSE]
    /\ ret' = [ret EXCEPT ![p] = -1]
    /\ before' = [before EXCEPT ![p] = Missing]
    /\ disturbed' = [disturbed EXCEPT ![p] = FALSE]
    /\ UNCHANGED <<kernel, abi, dir, excused, iter>>

\* No memory for a path name, at the beginning of any of the functions.
NoMemory(p) ==
    /\ pc[p] \in {"getopen", "delopen", "access", "chmod", "size"}
    /\ May("alloc")
    /\ Fail(p)
    /\ UNCHANGED <<kernel, call, phase, value, opened, abi, dir, before, disturbed, iter>>

\* The process ends or is killed, and its next incarnation starts anew.
Kill(p) ==
    /\ pc[p] # "off" /\ May("kill")
    /\ Goto(p, "off")
    /\ excused' = excused \cup {n \in Name : Owes(p, n) /\ store[n] = Missing}
    /\ call' = [call EXCEPT ![p] = NoCall]
    /\ phase' = [phase EXCEPT ![p] = "none"]
    /\ value' = [value EXCEPT ![p] = Missing]
    /\ opened' = [opened EXCEPT ![p] = FALSE]
    /\ ret' = [ret EXCEPT ![p] = -1]
    /\ abi' = [abi EXCEPT ![p] = PointerAbi]
    /\ dir' = [dir EXCEPT ![p] = Closed]
    /\ before' = [before EXCEPT ![p] = Missing]
    /\ disturbed' = [disturbed EXCEPT ![p] = FALSE]
    /\ iter' = [iter EXCEPT ![p] = NoIter]
    /\ UNCHANGED kernel

-----------------------------------------------------------------------------
(* vars_get_variable, and generic_append_variable once it has the value    *)

\* Mutant: the old data is not copied.
JoinedNew(old, new) == new

Joined(old, new) == [attrs |-> old.attrs, data |-> old.data \o new.data]

GetOpen(p) ==
    LET n == call[p].name IN
    /\ pc[p] = "getopen"
    /\ \/ /\ store[n] # Missing
          /\ opened' = [opened EXCEPT ![p] = TRUE]
          /\ Goto(p, "getread")
          /\ UNCHANGED <<value, ret, excused>>
       \/ /\ store[n] = Missing /\ call[p].op = "append"    \* ENOENT
          /\ value' = [value EXCEPT ![p] = call[p].val]
          /\ Goto(p, "access")
          /\ UNCHANGED <<opened, ret, excused>>
       \/ /\ (store[n] = Missing /\ call[p].op = "get") \/ May("open")
          /\ Fail(p)
          /\ UNCHANGED <<opened, value>>
    /\ UNCHANGED <<kernel, call, phase, abi, dir, before, disturbed, iter>>

\* read_file fails if the variable is gone, and the size has to be that of a
\* record of the ABI the process believes in.
GetRead(p) ==
    LET n == call[p].name
        good == opened[p] /\ abi[p] = KernelAbi
    IN
    /\ pc[p] = "getread"
    /\ \/ /\ good /\ call[p].op = "get"
          /\ value' = [value EXCEPT ![p] = store[n]]
          /\ ret' = [ret EXCEPT ![p] = 0]
          /\ Goto(p, "ret")
          /\ UNCHANGED excused
       \/ /\ good /\ call[p].op = "append" /\ store[n].attrs = call[p].val.attrs
          /\ value' = [value EXCEPT ![p] = Joined(store[n], call[p].val)]
          /\ Goto(p, "delopen")
          /\ UNCHANGED <<ret, excused>>
       \/ /\ \/ ~good \/ May("read")
             \/ good /\ call[p].op = "append" /\ store[n].attrs # call[p].val.attrs
          /\ Fail(p)
          /\ UNCHANGED value
    /\ UNCHANGED <<kernel, call, phase, opened, abi, dir, before, disturbed, iter>>

-----------------------------------------------------------------------------
(* vars_del_variable                                                       *)

DelOpen(p) ==
    /\ pc[p] = "delopen"
    /\ \/ /\ store[call[p].name] # Missing
          /\ opened' = [opened EXCEPT ![p] = TRUE]
          /\ Goto(p, "delread")
          /\ UNCHANGED <<ret, excused>>
       \/ /\ store[call[p].name] = Missing \/ May("open")
          /\ Fail(p)
          /\ UNCHANGED opened
    /\ UNCHANGED <<kernel, call, phase, value, abi, dir, before, disturbed, iter>>

\* Records of either ABI will do: the kernel reads back what it wrote.
DelRead(p) ==
    /\ pc[p] = "delread"
    /\ \/ opened[p] /\ Goto(p, "delvar") /\ UNCHANGED <<ret, excused>>
       \/ (~opened[p] \/ May("read")) /\ Fail(p)
    /\ UNCHANGED <<kernel, call, phase, value, opened, abi, dir, before, disturbed, iter>>

\* Mutant: an append that has deleted is done.
AfterDelForgetting(f) == IF f = "set" THEN "newvar" ELSE "ret"

\* Where the function that called efi_del_variable goes on.
AfterDel(f) == CASE f = "del" -> "ret"
                 [] f = "append" -> "access"
                 [] f = "set" -> "newvar"

\* The write to del_var: the kernel looks for the name and the GUID of the
\* record only, so it removes what is there now.
DelVar(p) ==
    LET n == call[p].name IN
    /\ pc[p] = "delvar"
    /\ \/ /\ store[n] # Missing
          /\ Change(p, n, Missing)
          /\ excused' = IF phase[p] = "del" THEN excused \cup {n} ELSE excused
          /\ ret' = [ret EXCEPT ![p] = IF phase[p] = "del" THEN 0 ELSE @]
          /\ phase' = [phase EXCEPT ![p] = IF @ = "append" THEN "set" ELSE @]
          /\ Goto(p, AfterDel(phase[p]))
       \/ /\ store[n] = Missing \/ May("delvar")
          /\ Fail(p)
          /\ UNCHANGED <<store, opened, disturbed, dir, iter, phase>>
    /\ UNCHANGED <<mode, call, value, abi, before>>

-----------------------------------------------------------------------------
(* vars_set_variable, vars_chmod_variable, vars_get_variable_size          *)

\* Mutant: no limit on the data.
FitsAlways(v) == TRUE

Fits(v) == Len(v.data) <= MaxLen

\* The limit is looked at here, when an append has already deleted.
Access(p) ==
    LET n == call[p].name IN
    /\ pc[p] = "access"
    /\ \/ /\ Fits(value[p])
          /\ phase' = [phase EXCEPT ![p] = "set"]
          /\ Goto(p, IF store[n] # Missing THEN "delopen" ELSE "newvar")
          /\ UNCHANGED <<ret, excused>>
       \/ /\ ~Fits(value[p])
          /\ Fail(p)
          /\ UNCHANGED phase
    /\ UNCHANGED <<kernel, call, value, opened, abi, dir, before, disturbed, iter>>

\* What the kernel accepts from new_var.
Accepted(p, n) ==
    store[n] = Missing /\ abi[p] = KernelAbi /\ value[p].data # <<>>

\* If new_var cannot be opened, nothing changes its mode.
NewVar(p) ==
    LET n == call[p].name IN
    /\ pc[p] = "newvar"
    /\ \/ /\ Accepted(p, n)
          /\ Change(p, n, value[p])
          /\ mode' = [mode EXCEPT ![n] = DefaultMode]
          /\ excused' = excused \ {n}
          /\ ret' = [ret EXCEPT ![p] = 0]
          /\ Goto(p, "setmode")
       \/ /\ ~Accepted(p, n) \/ May("newvar")
          /\ excused' = IF store[n] = Missing THEN excused \cup {n} ELSE excused
          /\ ret' = [ret EXCEPT ![p] = -1]
          /\ Goto(p, "setmode") \/ (May("open") /\ Goto(p, "ret"))
          /\ UNCHANGED <<kernel, opened, disturbed, dir, iter>>
    /\ UNCHANGED <<call, phase, value, abi, before>>

Wanted(p) == IF call[p].op = "append" THEN DefaultMode ELSE call[p].mode

Moded(p) ==
    LET n == call[p].name
    IN IF store[n] = Missing THEN mode ELSE [mode EXCEPT ![n] = Wanted(p)]

\* _vars_chmod_variable: a set ignores what becomes of it, and calls it for
\* a variable it could not write as well.
SetMode(p) ==
    /\ pc[p] = "setmode"
    /\ mode' \in {Moded(p)} \cup (IF May("chmod") THEN {mode} ELSE {})
    /\ Goto(p, "ret")
    /\ UNCHANGED <<store, call, phase, value, opened, ret, abi, dir, history>>

Chmod(p) ==
    /\ pc[p] = "chmod"
    /\ \/ /\ store[call[p].name] # Missing
          /\ mode' = Moded(p)
          /\ ret' = [ret EXCEPT ![p] = 0]
       \/ /\ store[call[p].name] = Missing \/ May("chmod")
          /\ UNCHANGED <<mode, ret>>
    /\ Goto(p, "ret")
    /\ UNCHANGED <<store, call, phase, value, opened, abi, dir, history>>

\* get_size_from_file
Size(p) ==
    LET v == store[call[p].name] IN
    /\ pc[p] = "size"
    /\ \/ /\ v # Missing
          /\ ret' = [ret EXCEPT ![p] = 0]
          /\ value' = [value EXCEPT ![p] = v]
       \/ /\ v = Missing \/ May("open") \/ May("read")
          /\ UNCHANGED <<ret, value>>
    /\ Goto(p, "ret")
    /\ UNCHANGED <<kernel, call, phase, opened, abi, dir, history>>

-----------------------------------------------------------------------------
(* generic_get_next_variable_name.  The stream of a process shows every    *)
(* variable that was there all the time (must), and perhaps the others     *)
(* that were there some of the time (may).                                 *)

Stream(p) ==
    IF dir[p] # Closed THEN dir[p]
    ELSE [must |-> Present, may |-> Present \cup Alien]

\* A caller starts an iteration with NULL and NULL and goes on with what it
\* got; the code only looks at dir.
Begun(p, start) ==
    IF start THEN [on |-> TRUE, resumed |-> iter[p].on, owed |-> Present, got |-> {}]
    ELSE iter[p]

\* Mutant: an entry that is no variable leaves the stream open.
StopKeeping(p, e) == [Stream(p) EXCEPT !.may = @ \ {e}]

\* What is left of the stream when an entry that is no variable turns up.
Stop(p, e) == Closed

NextName(p, start) ==
    LET d == Stream(p) IN
    /\ pc[p] = "idle" /\ "next" \in Ops
    /\ start \/ iter[p].on
    /\ \/ \E n \in d.may \ Alien :
            /\ dir' = [dir EXCEPT ![p] = [must |-> d.must \ {n}, may |-> d.may \ {n}]]
            /\ iter' = [iter EXCEPT ![p] =
                          [Begun(p, start) EXCEPT !.got = @ \cup {n}]]
       \/ /\ d.must = {}
          /\ dir' = [dir EXCEPT ![p] = Closed]
          /\ iter' = [iter EXCEPT ![p] = [Begun(p, start) EXCEPT !.on = FALSE]]
       \/ \E e \in d.may \cap Alien :
            /\ dir' = [dir EXCEPT ![p] = Stop(p, e)]
            /\ iter' = [iter EXCEPT ![p] = NoIter]
       \/ /\ dir[p] = Closed /\ May("opendir")
          /\ iter' = [iter EXCEPT ![p] = NoIter]
          /\ UNCHANGED dir
    /\ UNCHANGED <<kernel, pc, call, phase, value, opened, ret, abi, before,
                   disturbed, excused>>

-----------------------------------------------------------------------------

Step(p) ==
    \/ GetOpen(p) \/ GetRead(p) \/ DelOpen(p) \/ DelRead(p) \/ DelVar(p)
    \/ Access(p) \/ NewVar(p) \/ SetMode(p) \/ Chmod(p) \/ Size(p)
    \/ NoMemory(p) \/ Return(p)

Next ==
    \E p \in Proc :
        \/ Probe(p) \/ Call(p) \/ Step(p) \/ Kill(p)
        \/ \E start \in BOOLEAN : NextName(p, start)

Spec == Init /\ [][Next]_vars

-----------------------------------------------------------------------------

Label == {"off", "idle", "getopen", "getread", "delopen", "delread", "delvar",
          "access", "newvar", "setmode", "chmod", "size", "ret"}

Storable == {v \in Value : Len(v.data) <= MaxLen}

Streams == [must : SUBSET Name, may : SUBSET (Name \cup Alien)]

Iterations == [on : BOOLEAN, resumed : BOOLEAN, owed : SUBSET Name, got : SUBSET Name]

\* Every variable of the model has its type; no stored value is longer than
\* a record.
TypeOK ==
    /\ store \in [Name -> Storable \cup {Missing}]
    /\ mode \in [Name -> Mode \cup {DefaultMode}]
    /\ pc \in [Proc -> Label]
    /\ call \in [Proc -> Calls \cup {NoCall}]
    /\ phase \in [Proc -> {"none", "set", "append", "del", "get", "size", "chmod"}]
    /\ value \in [Proc -> Value \cup {Missing}]
    /\ opened \in [Proc -> BOOLEAN]
    /\ ret \in [Proc -> {-1, 0}]
    /\ abi \in [Proc -> {32, 64}]
    /\ dir \in [Proc -> Streams \cup {Closed}]
    /\ before \in [Proc -> Value \cup {Missing}]
    /\ disturbed \in [Proc -> BOOLEAN]
    /\ excused \subseteq Name
    /\ iter \in [Proc -> Iterations]

\* A variable that nobody deleted is missing only while a set or an append
\* that removed it is about to write it again, or because such a call died,
\* was refused by the kernel or found the joined value too long: sets and
\* appends that overlap in any way never lose a variable between them.
LossExplained ==
    \A n \in Name :
        store[n] = Missing => n \in excused \/ \E p \in Proc : Owes(p, n)

\* What the caller and the variable have got when the call returns.
OutcomeAt(p) ==
    LET c == call[p]
        now == store[c.name]
    IN IF ret[p] = 0
       THEN CASE c.op \in {"set", "append"} -> now = Written(before[p], c.op, c.val)
              [] c.op = "del" -> now = Missing
              [] c.op \in {"get", "size"} -> value[p] = before[p] /\ now = before[p]
              [] c.op = "chmod" -> now = before[p]
       ELSE now = before[p] \/ (now = Missing /\ c.name \in excused)

\* A call whose variable nobody else changed does what it promises when it
\* returns 0, and when it fails it leaves the variable alone, or loses it
\* for one of the reasons above.
SoloOutcome ==
    \A p \in Proc : pc[p] = "ret" /\ ~disturbed[p] => OutcomeAt(p)

\* An iteration that ends with 0, and did not find the stream of an earlier
\* one that was given up half way, has returned every variable that was
\* there from its first call to its last.
NextCovers ==
    \A p \in Proc :
        ~iter[p].on /\ dir[p] = Closed /\ ~iter[p].resumed => iter[p].owed \subseteq iter[p].got
=============================================================================
