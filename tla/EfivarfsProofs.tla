--------------------------- MODULE EfivarfsProofs ---------------------------
(***************************************************************************)
(* Proofs about the efivarfs backend, for any number of processes,         *)
(* variables, inodes and values of any length, and with every system call  *)
(* free to fail: the invariants of Efivarfs, that it implements the        *)
(* abstract store of variables (Spec => Atomic), and that the reads of     *)
(* EfivarfsReads are exact.                                                *)
(***************************************************************************)
EXTENDS EfivarfsReads, SequenceTheorems, TLAPS

(***************************************************************************)
(* The inductive invariant.  TypeOK, ImmutabilityGuarded and StubOwned     *)
(* speak of what is in the file system; to be preserved they need to know  *)
(* what the calls in progress hold.                                        *)
(***************************************************************************)

\* No two names share an inode.
NoHardLinks ==
    \A m, n \in Name : dentry[m] = dentry[n] /\ dentry[m] # NoIno => m = n

\* What a call holds is, if linked at all, the file of its own variable.
HoldsOwn ==
    \A p \in Proc : \A n \in Name :
        dentry[n] # NoIno /\ dentry[n] \in {rfd[p], wfd[p], cleared[p]} =>
            call[p] \in Calls /\ n = call[p].name

\* The operation a process is in is the one whose code it executes.
Control ==
    \A p \in Proc :
        /\ pc[p] # "idle" <=> call[p] \in Calls
        /\ pc[p] \in {"openR", "openW", "write", "rollback", "restore"} =>
               call[p].op \in Writes
        /\ pc[p] \in {"openD", "unlink"} => call[p].op = "del"
        /\ pc[p] = "chmod" => call[p].op = "chmod"
        /\ pc[p] \in {"openG", "readattrs", "readdata", "yield"} => call[p].op = "get"
        /\ pc[p] = "stat" => call[p].op = "size"
        /\ pc[p] \in {"getflags", "clearflags", "sync"} =>
               call[p].op \in Writes \cup {"del"}
        /\ wfd[p] # NoIno => call[p].op \in Writes
        /\ pc[p] = "write" => wfd[p] # NoIno
        /\ pc[p] # "ret" => got[p] \in ReadBuf

\* A call has cleared a flag only where it will put it back or unlink.
ClearedWhere ==
    \A p \in Proc : cleared[p] # NoIno =>
        \/ pc[p] \in {"write", "rollback", "restore", "unlink"}
        \/ pc[p] = "openW" /\ rfd[p] # NoIno
        \/ pc[p] = "sync" /\ call[p].op \in Writes

IInv ==
    /\ TypeOK
    /\ NoHardLinks
    /\ HoldsOwn
    /\ Control
    /\ ClearedWhere
    /\ ImmutabilityGuarded
    /\ StubOwned

-----------------------------------------------------------------------------
(* Facts about the arguments of calls and about values                     *)

\* What a set, an append or a delete carries (lib.c's entry points).
LEMMA CallFields ==
    ASSUME NEW c \in Calls
    PROVE  /\ c.name \in Name
           /\ c.op \in Ops
           /\ c.op # "none"
           /\ c.op \in Writes => c.val \in Payload
           /\ c.op \in Writes \cup {"chmod"} => c.mode \in Mode \cup {AppendMode}
BY OpsAssumption DEF Calls, Writes

LEMMA NoCallIsNoCall == NoCall \notin Calls
BY OpsAssumption DEF Calls, NoCall

LEMMA ModRange ==
    ASSUME NEW a \in Int, NEW m \in Nat, m > 0
    PROVE  a % m \in 0 .. m - 1
OBVIOUS

LEMMA FirstSteps ==
    ASSUME NEW c \in Calls
    PROVE  \/ c.op \in Writes /\ FirstStep(c.op) = "openR"
           \/ c.op = "del" /\ FirstStep(c.op) = "openD"
           \/ c.op = "chmod" /\ FirstStep(c.op) = "chmod"
           \/ c.op = "get" /\ FirstStep(c.op) = "openG"
           \/ c.op = "size" /\ FirstStep(c.op) = "stat"
<1>1. c.op \in {"set", "append", "del", "chmod", "get", "size"}
    BY CallFields, OpsAssumption
<1> QED
    BY <1>1 DEF FirstStep, Writes

\* A write leaves a value of the right type, or none.
LEMMA WrittenType ==
    ASSUME NEW old \in Value \cup {Missing}, NEW op, NEW new \in Value
    PROVE  Written(old, op, new) \in Value \cup {Missing}
BY DEF Written, Value

-----------------------------------------------------------------------------
(* Every action preserves the inductive invariant                          *)

LEMMA CallPreserves ==
    ASSUME IInv, NEW p \in Proc, Call(p)
    PROVE  IInv'
<1> USE DEF IInv, Call, Goto, fs, history, Writes
<1>a. PICK c \in Calls : /\ call' = [call EXCEPT ![p] = c]
                        /\ pc' = [pc EXCEPT ![p] = FirstStep(c.op)]
    OBVIOUS
<1>b. FirstStep(c.op) \in Label \ {"idle"}
    BY FirstSteps DEF Label
<1>1. TypeOK'
    BY <1>a, <1>b DEF TypeOK
<1>2. NoHardLinks'
    BY DEF TypeOK, Fd, NoHardLinks
<1>3. HoldsOwn'
    BY CallFields, NoCallIsNoCall, NoInoAssumption DEF TypeOK, Fd, HoldsOwn, NoHardLinks, Control
<1>4. Control'
  <2>1. call[p] = NoCall /\ wfd[p] = NoIno /\ got[p] \in ReadBuf
    BY DEF TypeOK, Control, NoCall
  <2>2. c.op \in Writes \/ FirstStep(c.op) \notin {"openR"}
    BY FirstSteps
  <2>3. /\ FirstStep(c.op) \notin {"openW", "write", "rollback", "restore", "unlink",
                                  "getflags", "clearflags", "sync", "ret",
                                  "readattrs", "readdata", "yield"}
        /\ FirstStep(c.op) = "openG" => c.op = "get"
        /\ FirstStep(c.op) = "stat" => c.op = "size"
        /\ FirstStep(c.op) = "openD" => c.op = "del"
        /\ FirstStep(c.op) = "chmod" => c.op = "chmod"
    BY FirstSteps
  <2> QED
    BY <1>a, <1>b, <2>1, <2>2, <2>3 DEF TypeOK, Control
<1>5. ClearedWhere'
    BY DEF TypeOK, Control, ClearedWhere
<1>6. ImmutabilityGuarded'
    BY ProtectedAssumption, NoInoAssumption DEF TypeOK, Fd, ImmutabilityGuarded, HoldsOwn, ClearedWhere, Control
<1>7. StubOwned'
    BY NoInoAssumption, UncommittedAssumption DEF TypeOK, Fd, StubOwned, Created, HoldsOwn, Control
<1> QED
    BY <1>1, <1>2, <1>3, <1>4, <1>5, <1>6, <1>7

LEMMA ReturnPreserves ==
    ASSUME IInv, NEW p \in Proc, Return(p)
    PROVE  IInv'
<1> USE DEF IInv, Return, Leave, Goto, fs, history, Writes
<1>1. TypeOK'
    BY CallFields, NoCallIsNoCall, NoInoAssumption, SizeModAssumption DEF TypeOK, Control, Label, Fd, ReadBuf, NoRead, Overtake, Value
<1>2. NoHardLinks'
    BY DEF TypeOK, Fd, NoHardLinks
<1>3. HoldsOwn'
    BY CallFields, NoCallIsNoCall, NoInoAssumption DEF TypeOK, Fd, HoldsOwn, NoHardLinks, Control
<1>4. Control'
    BY CallFields, NoCallIsNoCall, NoInoAssumption DEF TypeOK, Control, Label, ReadBuf, NoRead
<1>5. ClearedWhere'
    BY DEF TypeOK, Control, ClearedWhere
<1>6. ImmutabilityGuarded'
    BY ProtectedAssumption, NoInoAssumption DEF TypeOK, Fd, ImmutabilityGuarded, HoldsOwn, ClearedWhere, Control
<1>7. StubOwned'
    BY NoInoAssumption, UncommittedAssumption DEF TypeOK, Fd, StubOwned, Created, HoldsOwn, Control
<1> QED
    BY <1>1, <1>2, <1>3, <1>4, <1>5, <1>6, <1>7

LEMMA DiePreserves ==
    ASSUME IInv, NEW p \in Proc, Die(p)
    PROVE  IInv'
<1> USE DEF IInv, Die, Leave, Goto, Created, fs, history, Writes
<1>1. TypeOK'
    BY CallFields, NoCallIsNoCall, NoInoAssumption, SizeModAssumption DEF TypeOK, Control, Label, Fd, ReadBuf, NoRead, Overtake, Value
<1>2. NoHardLinks'
    BY DEF TypeOK, Fd, NoHardLinks
<1>3. HoldsOwn'
    BY CallFields, NoCallIsNoCall, NoInoAssumption DEF TypeOK, Fd, HoldsOwn, NoHardLinks, Control
<1>4. Control'
    BY CallFields, NoCallIsNoCall, NoInoAssumption DEF TypeOK, Control, Label, ReadBuf, NoRead
<1>5. ClearedWhere'
    BY DEF TypeOK, Control, ClearedWhere
<1>6. ImmutabilityGuarded'
    BY ProtectedAssumption, NoInoAssumption DEF TypeOK, Fd, ImmutabilityGuarded, HoldsOwn, ClearedWhere, Control
<1>7. StubOwned'
    BY NoInoAssumption, UncommittedAssumption DEF TypeOK, Fd, StubOwned, Created, HoldsOwn, Control
<1> QED
    BY <1>1, <1>2, <1>3, <1>4, <1>5, <1>6, <1>7

LEMMA RejectPreserves ==
    ASSUME IInv, NEW p \in Proc, Reject(p)
    PROVE  IInv'
<1> USE DEF IInv, Reject, Goto, fs, history, Writes
<1>1. TypeOK'
    BY CallFields, NoCallIsNoCall, NoInoAssumption, SizeModAssumption DEF TypeOK, Control, Label, Fd, ReadBuf, NoRead, Overtake, Value
<1>2. NoHardLinks'
    BY DEF TypeOK, Fd, NoHardLinks
<1>3. HoldsOwn'
    BY CallFields, NoCallIsNoCall, NoInoAssumption DEF TypeOK, Fd, HoldsOwn, NoHardLinks, Control
<1>4. Control'
    BY CallFields, NoCallIsNoCall, NoInoAssumption DEF TypeOK, Control, Label, ReadBuf, NoRead
<1>5. ClearedWhere'
    BY DEF TypeOK, Control, ClearedWhere
<1>6. ImmutabilityGuarded'
    BY ProtectedAssumption, NoInoAssumption DEF TypeOK, Fd, ImmutabilityGuarded, HoldsOwn, ClearedWhere, Control
<1>7. StubOwned'
    BY NoInoAssumption, UncommittedAssumption DEF TypeOK, Fd, StubOwned, Created, HoldsOwn, Control
<1> QED
    BY <1>1, <1>2, <1>3, <1>4, <1>5, <1>6, <1>7

LEMMA OpenRPreserves ==
    ASSUME IInv, NEW p \in Proc, OpenR(p)
    PROVE  IInv'
<1> USE DEF IInv, OpenR, Goto, fs, history, Writes
<1>1. TypeOK'
    BY CallFields, NoCallIsNoCall, NoInoAssumption, SizeModAssumption DEF TypeOK, Control, Label, Fd, ReadBuf, NoRead, Overtake, Value
<1>2. NoHardLinks'
    BY DEF TypeOK, Fd, NoHardLinks
<1>3. HoldsOwn'
    BY CallFields, NoCallIsNoCall, NoInoAssumption DEF TypeOK, Fd, HoldsOwn, NoHardLinks, Control
<1>4. Control'
    BY CallFields, NoCallIsNoCall, NoInoAssumption DEF TypeOK, Control, Label, ReadBuf, NoRead
<1>5. ClearedWhere'
    BY DEF TypeOK, Control, ClearedWhere
<1>6. ImmutabilityGuarded'
    BY ProtectedAssumption, NoInoAssumption DEF TypeOK, Fd, ImmutabilityGuarded, HoldsOwn, ClearedWhere, Control
<1>7. StubOwned'
    BY NoInoAssumption, UncommittedAssumption DEF TypeOK, Fd, StubOwned, Created, HoldsOwn, Control
<1> QED
    BY <1>1, <1>2, <1>3, <1>4, <1>5, <1>6, <1>7

LEMMA OpenExistingPreserves ==
    ASSUME IInv, NEW p \in Proc, OpenExisting(p)
    PROVE  IInv'
<1> USE DEF IInv, OpenExisting, Goto, fs, history, Writes
<1>1. TypeOK'
    BY CallFields, NoCallIsNoCall, NoInoAssumption, SizeModAssumption DEF TypeOK, Control, Label, Fd, ReadBuf, NoRead, Overtake, Value
<1>2. NoHardLinks'
    BY DEF TypeOK, Fd, NoHardLinks
<1>3. HoldsOwn'
    BY CallFields, NoCallIsNoCall, NoInoAssumption DEF TypeOK, Fd, HoldsOwn, NoHardLinks, Control
<1>4. Control'
    BY CallFields, NoCallIsNoCall, NoInoAssumption DEF TypeOK, Control, Label, ReadBuf, NoRead
<1>5. ClearedWhere'
    BY DEF TypeOK, Control, ClearedWhere
<1>6. ImmutabilityGuarded'
    BY ProtectedAssumption, NoInoAssumption DEF TypeOK, Fd, ImmutabilityGuarded, HoldsOwn, ClearedWhere, Control
<1>7. StubOwned'
    BY NoInoAssumption, UncommittedAssumption DEF TypeOK, Fd, StubOwned, Created, HoldsOwn, Control
<1> QED
    BY <1>1, <1>2, <1>3, <1>4, <1>5, <1>6, <1>7

LEMMA CreatePreserves ==
    ASSUME IInv, NEW p \in Proc, Create(p)
    PROVE  IInv'
<1> USE DEF IInv, Create, Goto, Free, Linked, fs, history, Writes
<1>1. TypeOK'
  <2>1. PICK i \in Ino :
            /\ dentry' = [dentry EXCEPT ![call[p].name] = i]
            /\ immutable' \in {immutable \cup {i}, immutable \ {i}}
            /\ val' = [val EXCEPT ![i] = Uncommitted]
            /\ mode' = [mode EXCEPT ![i] = call[p].mode]
            /\ wfd' = [wfd EXCEPT ![p] = i]
            /\ tainted' = tainted \ {i}
            /\ leaked' = leaked \ {i}
    OBVIOUS
  <2>2. call[p].mode \in Mode \cup {AppendMode}
    BY CallFields DEF Control
  <2>3. pc' \in [Proc -> Label]
    BY DEF TypeOK, Label
  <2> HIDE DEF Create, Control
  <2>4. /\ dentry' \in [Name -> Fd] /\ immutable' \subseteq Ino
        /\ val' \in [Ino -> Value \cup {Uncommitted}]
        /\ mode' \in [Ino -> Mode \cup {AppendMode}]
        /\ wfd' \in [Proc -> Fd] /\ tainted' \subseteq Ino /\ leaked' \subseteq Ino
    BY <2>1, <2>2 DEF TypeOK, Fd
  <2> QED
    BY <2>3, <2>4 DEF TypeOK, Create
<1>2. NoHardLinks'
    BY DEF TypeOK, Fd, NoHardLinks
<1>3. HoldsOwn'
    BY CallFields, NoCallIsNoCall, NoInoAssumption DEF TypeOK, Fd, HoldsOwn, NoHardLinks, Control
<1>4. Control'
    BY CallFields, NoCallIsNoCall, NoInoAssumption DEF TypeOK, Control, Label, ReadBuf, NoRead
<1>5. ClearedWhere'
    BY DEF TypeOK, Control, ClearedWhere
<1>6. ImmutabilityGuarded'
    BY ProtectedAssumption, NoInoAssumption DEF TypeOK, Fd, ImmutabilityGuarded, HoldsOwn, ClearedWhere, Control
<1>7. StubOwned'
    BY NoInoAssumption, UncommittedAssumption DEF TypeOK, Fd, StubOwned, Created, HoldsOwn, Control
<1> QED
    BY <1>1, <1>2, <1>3, <1>4, <1>5, <1>6, <1>7

LEMMA CreateFailsPreserves ==
    ASSUME IInv, NEW p \in Proc, CreateFails(p)
    PROVE  IInv'
<1> USE DEF IInv, CreateFails, Goto, fs, history, Writes
<1>1. TypeOK'
    BY CallFields, NoCallIsNoCall, NoInoAssumption, SizeModAssumption DEF TypeOK, Control, Label, Fd, ReadBuf, NoRead, Overtake, Value
<1>2. NoHardLinks'
    BY DEF TypeOK, Fd, NoHardLinks
<1>3. HoldsOwn'
    BY CallFields, NoCallIsNoCall, NoInoAssumption DEF TypeOK, Fd, HoldsOwn, NoHardLinks, Control
<1>4. Control'
    BY CallFields, NoCallIsNoCall, NoInoAssumption DEF TypeOK, Control, Label, ReadBuf, NoRead
<1>5. ClearedWhere'
    BY DEF TypeOK, Control, ClearedWhere
<1>6. ImmutabilityGuarded'
    BY ProtectedAssumption, NoInoAssumption DEF TypeOK, Fd, ImmutabilityGuarded, HoldsOwn, ClearedWhere, Control
<1>7. StubOwned'
    BY NoInoAssumption, UncommittedAssumption DEF TypeOK, Fd, StubOwned, Created, HoldsOwn, Control
<1> QED
    BY <1>1, <1>2, <1>3, <1>4, <1>5, <1>6, <1>7

LEMMA WriteFailsPreserves ==
    ASSUME IInv, NEW p \in Proc, WriteFails(p)
    PROVE  IInv'
<1> USE DEF IInv, WriteFails, Goto, fs, history, Writes
<1>1. TypeOK'
    BY CallFields, NoCallIsNoCall, NoInoAssumption, SizeModAssumption DEF TypeOK, Control, Label, Fd, ReadBuf, NoRead, Overtake, Value
<1>2. NoHardLinks'
    BY DEF TypeOK, Fd, NoHardLinks
<1>3. HoldsOwn'
    BY CallFields, NoCallIsNoCall, NoInoAssumption DEF TypeOK, Fd, HoldsOwn, NoHardLinks, Control
<1>4. Control'
    BY CallFields, NoCallIsNoCall, NoInoAssumption DEF TypeOK, Control, Label, ReadBuf, NoRead
<1>5. ClearedWhere'
    BY DEF TypeOK, Control, ClearedWhere
<1>6. ImmutabilityGuarded'
    BY ProtectedAssumption, NoInoAssumption DEF TypeOK, Fd, ImmutabilityGuarded, HoldsOwn, ClearedWhere, Control
<1>7. StubOwned'
    BY NoInoAssumption, UncommittedAssumption DEF TypeOK, Fd, StubOwned, Created, HoldsOwn, Control
<1> QED
    BY <1>1, <1>2, <1>3, <1>4, <1>5, <1>6, <1>7

LEMMA RollbackPreserves ==
    ASSUME IInv, NEW p \in Proc, Rollback(p)
    PROVE  IInv'
<1> USE DEF IInv, Rollback, Goto, Created, fs, history, Writes
<1>1. TypeOK'
    BY CallFields, NoCallIsNoCall, NoInoAssumption, SizeModAssumption DEF TypeOK, Control, Label, Fd, ReadBuf, NoRead, Overtake, Value
<1>2. NoHardLinks'
    BY DEF TypeOK, Fd, NoHardLinks
<1>3. HoldsOwn'
    BY CallFields, NoCallIsNoCall, NoInoAssumption DEF TypeOK, Fd, HoldsOwn, NoHardLinks, Control
<1>4. Control'
    BY CallFields, NoCallIsNoCall, NoInoAssumption DEF TypeOK, Control, Label, ReadBuf, NoRead
<1>5. ClearedWhere'
    BY DEF TypeOK, Control, ClearedWhere
<1>6. ImmutabilityGuarded'
    BY ProtectedAssumption, NoInoAssumption DEF TypeOK, Fd, ImmutabilityGuarded, HoldsOwn, ClearedWhere, Control
<1>7. StubOwned'
    BY NoInoAssumption, UncommittedAssumption DEF TypeOK, Fd, StubOwned, Created, HoldsOwn, Control
<1> QED
    BY <1>1, <1>2, <1>3, <1>4, <1>5, <1>6, <1>7

LEMMA RestorePreserves ==
    ASSUME IInv, NEW p \in Proc, Restore(p)
    PROVE  IInv'
<1> USE DEF IInv, Restore, Goto, fs, history, Writes
<1>1. TypeOK'
    BY CallFields, NoCallIsNoCall, NoInoAssumption, SizeModAssumption DEF TypeOK, Control, Label, Fd, ReadBuf, NoRead, Overtake, Value
<1>2. NoHardLinks'
    BY DEF TypeOK, Fd, NoHardLinks
<1>3. HoldsOwn'
    BY CallFields, NoCallIsNoCall, NoInoAssumption DEF TypeOK, Fd, HoldsOwn, NoHardLinks, Control
<1>4. Control'
    BY CallFields, NoCallIsNoCall, NoInoAssumption DEF TypeOK, Control, Label, ReadBuf, NoRead
<1>5. ClearedWhere'
    BY DEF TypeOK, Control, ClearedWhere
<1>6. ImmutabilityGuarded'
    BY ProtectedAssumption, NoInoAssumption DEF TypeOK, Fd, ImmutabilityGuarded, HoldsOwn, ClearedWhere, Control
<1>7. StubOwned'
    BY NoInoAssumption, UncommittedAssumption DEF TypeOK, Fd, StubOwned, Created, HoldsOwn, Control
<1> QED
    BY <1>1, <1>2, <1>3, <1>4, <1>5, <1>6, <1>7

LEMMA GetFlagsPreserves ==
    ASSUME IInv, NEW p \in Proc, GetFlags(p)
    PROVE  IInv'
<1> USE DEF IInv, GetFlags, Goto, DoneWithFlags, AfterFlags, FlagFd, Created, fs, history, Writes
<1>1. TypeOK'
    BY CallFields, NoCallIsNoCall, NoInoAssumption, SizeModAssumption DEF TypeOK, Control, Label, Fd, ReadBuf, NoRead, Overtake, Value
<1>2. NoHardLinks'
    BY DEF TypeOK, Fd, NoHardLinks
<1>3. HoldsOwn'
    BY CallFields, NoCallIsNoCall, NoInoAssumption DEF TypeOK, Fd, HoldsOwn, NoHardLinks, Control
<1>4. Control'
    BY CallFields, NoCallIsNoCall, NoInoAssumption DEF TypeOK, Control, Label, ReadBuf, NoRead
<1>5. ClearedWhere'
    BY DEF TypeOK, Control, ClearedWhere
<1>6. ImmutabilityGuarded'
    BY ProtectedAssumption, NoInoAssumption DEF TypeOK, Fd, ImmutabilityGuarded, HoldsOwn, ClearedWhere, Control
<1>7. StubOwned'
    BY NoInoAssumption, UncommittedAssumption DEF TypeOK, Fd, StubOwned, Created, HoldsOwn, Control
<1> QED
    BY <1>1, <1>2, <1>3, <1>4, <1>5, <1>6, <1>7

LEMMA ClearFlagsPreserves ==
    ASSUME IInv, NEW p \in Proc, ClearFlags(p)
    PROVE  IInv'
<1> USE DEF IInv, ClearFlags, Goto, DoneWithFlags, AfterFlags, FlagFd, Created, fs, history, Writes
<1>1. TypeOK'
    BY CallFields, NoCallIsNoCall, NoInoAssumption, SizeModAssumption DEF TypeOK, Control, Label, Fd, ReadBuf, NoRead, Overtake, Value
<1>2. NoHardLinks'
    BY DEF TypeOK, Fd, NoHardLinks
<1>3. HoldsOwn'
    BY CallFields, NoCallIsNoCall, NoInoAssumption DEF TypeOK, Fd, HoldsOwn, NoHardLinks, Control
<1>4. Control'
    BY CallFields, NoCallIsNoCall, NoInoAssumption DEF TypeOK, Control, Label, ReadBuf, NoRead
<1>5. ClearedWhere'
    BY DEF TypeOK, Control, ClearedWhere
<1>6. ImmutabilityGuarded'
    BY ProtectedAssumption, NoInoAssumption DEF TypeOK, Fd, ImmutabilityGuarded, HoldsOwn, ClearedWhere, Control
<1>7. StubOwned'
    BY NoInoAssumption, UncommittedAssumption DEF TypeOK, Fd, StubOwned, Created, HoldsOwn, Control
<1> QED
    BY <1>1, <1>2, <1>3, <1>4, <1>5, <1>6, <1>7

LEMMA OpenDPreserves ==
    ASSUME IInv, NEW p \in Proc, OpenD(p)
    PROVE  IInv'
<1> USE DEF IInv, OpenD, Goto, fs, history, Writes
<1>1. TypeOK'
    BY CallFields, NoCallIsNoCall, NoInoAssumption, SizeModAssumption DEF TypeOK, Control, Label, Fd, ReadBuf, NoRead, Overtake, Value
<1>2. NoHardLinks'
    BY DEF TypeOK, Fd, NoHardLinks
<1>3. HoldsOwn'
    BY CallFields, NoCallIsNoCall, NoInoAssumption DEF TypeOK, Fd, HoldsOwn, NoHardLinks, Control
<1>4. Control'
    BY CallFields, NoCallIsNoCall, NoInoAssumption DEF TypeOK, Control, Label, ReadBuf, NoRead
<1>5. ClearedWhere'
    BY DEF TypeOK, Control, ClearedWhere
<1>6. ImmutabilityGuarded'
    BY ProtectedAssumption, NoInoAssumption DEF TypeOK, Fd, ImmutabilityGuarded, HoldsOwn, ClearedWhere, Control
<1>7. StubOwned'
    BY NoInoAssumption, UncommittedAssumption DEF TypeOK, Fd, StubOwned, Created, HoldsOwn, Control
<1> QED
    BY <1>1, <1>2, <1>3, <1>4, <1>5, <1>6, <1>7

LEMMA UnlinkPreserves ==
    ASSUME IInv, NEW p \in Proc, Unlink(p)
    PROVE  IInv'
<1> USE DEF IInv, Unlink, Goto, fs, history, Writes
<1>1. TypeOK'
    BY ZenonT(20), CallFields, NoCallIsNoCall, NoInoAssumption, SizeModAssumption DEF TypeOK, Control, Label, Fd, ReadBuf, NoRead, Overtake, Value
<1>2. NoHardLinks'
    BY DEF TypeOK, Fd, NoHardLinks
<1>3. HoldsOwn'
    BY CallFields, NoCallIsNoCall, NoInoAssumption DEF TypeOK, Fd, HoldsOwn, NoHardLinks, Control
<1>4. Control'
    BY CallFields, NoCallIsNoCall, NoInoAssumption DEF TypeOK, Control, Label, ReadBuf, NoRead
<1>5. ClearedWhere'
    BY DEF TypeOK, Control, ClearedWhere
<1>6. ImmutabilityGuarded'
    BY ProtectedAssumption, NoInoAssumption DEF TypeOK, Fd, ImmutabilityGuarded, HoldsOwn, ClearedWhere, Control
<1>7. StubOwned'
    BY NoInoAssumption, UncommittedAssumption DEF TypeOK, Fd, StubOwned, Created, HoldsOwn, Control
<1> QED
    BY <1>1, <1>2, <1>3, <1>4, <1>5, <1>6, <1>7

LEMMA ChmodPreserves ==
    ASSUME IInv, NEW p \in Proc, Chmod(p)
    PROVE  IInv'
<1> USE DEF IInv, Chmod, Goto, fs, history, Writes
<1>1. TypeOK'
  <2>1. call[p].mode \in Mode \cup {AppendMode}
    BY CallFields DEF Control
  <2> QED
    BY <2>1 DEF TypeOK, Label, Fd
<1>2. NoHardLinks'
    BY DEF TypeOK, Fd, NoHardLinks
<1>3. HoldsOwn'
    BY CallFields, NoCallIsNoCall, NoInoAssumption DEF TypeOK, Fd, HoldsOwn, NoHardLinks, Control
<1>4. Control'
    BY CallFields, NoCallIsNoCall, NoInoAssumption DEF TypeOK, Control, Label, ReadBuf, NoRead
<1>5. ClearedWhere'
    BY DEF TypeOK, Control, ClearedWhere
<1>6. ImmutabilityGuarded'
    BY ProtectedAssumption, NoInoAssumption DEF TypeOK, Fd, ImmutabilityGuarded, HoldsOwn, ClearedWhere, Control
<1>7. StubOwned'
    BY NoInoAssumption, UncommittedAssumption DEF TypeOK, Fd, StubOwned, Created, HoldsOwn, Control
<1> QED
    BY <1>1, <1>2, <1>3, <1>4, <1>5, <1>6, <1>7

LEMMA OpenGPreserves ==
    ASSUME IInv, NEW p \in Proc, OpenG(p)
    PROVE  IInv'
<1> USE DEF IInv, OpenG, Goto, fs, history, Writes
<1>1. TypeOK'
    BY CallFields, NoCallIsNoCall, NoInoAssumption, SizeModAssumption DEF TypeOK, Control, Label, Fd, ReadBuf, NoRead, Overtake, Value
<1>2. NoHardLinks'
    BY DEF TypeOK, Fd, NoHardLinks
<1>3. HoldsOwn'
    BY CallFields, NoCallIsNoCall, NoInoAssumption DEF TypeOK, Fd, HoldsOwn, NoHardLinks, Control
<1>4. Control'
    BY CallFields, NoCallIsNoCall, NoInoAssumption DEF TypeOK, Control, Label, ReadBuf, NoRead
<1>5. ClearedWhere'
    BY DEF TypeOK, Control, ClearedWhere
<1>6. ImmutabilityGuarded'
    BY ProtectedAssumption, NoInoAssumption DEF TypeOK, Fd, ImmutabilityGuarded, HoldsOwn, ClearedWhere, Control
<1>7. StubOwned'
    BY NoInoAssumption, UncommittedAssumption DEF TypeOK, Fd, StubOwned, Created, HoldsOwn, Control
<1> QED
    BY <1>1, <1>2, <1>3, <1>4, <1>5, <1>6, <1>7

LEMMA ReadAttrsPreserves ==
    ASSUME IInv, NEW p \in Proc, ReadAttrs(p)
    PROVE  IInv'
<1> USE DEF IInv, ReadAttrs, Goto, Content, NoRead, fs, history, Writes
<1>a. rfd[p] # NoIno => val[rfd[p]] \in Value \cup {Uncommitted}
    BY DEF TypeOK, Fd
<1>b. got[p] \in ReadBuf
    BY DEF Control
<1>c. got' \in [Proc -> ReadBuf \cup [size : 0 .. SizeMod - 1]] /\ got'[p] \in ReadBuf
    BY <1>a, <1>b, MissingAssumption DEF TypeOK, ReadBuf, Value
<1>1. TypeOK'
    BY <1>c DEF TypeOK, Label
<1>2. NoHardLinks'
    BY DEF TypeOK, Fd, NoHardLinks
<1>3. HoldsOwn'
    BY CallFields, NoCallIsNoCall, NoInoAssumption DEF TypeOK, Fd, HoldsOwn, NoHardLinks, Control
<1>4. Control'
    BY <1>c DEF TypeOK, Control
<1>5. ClearedWhere'
    BY DEF TypeOK, Control, ClearedWhere
<1>6. ImmutabilityGuarded'
    BY ProtectedAssumption, NoInoAssumption DEF TypeOK, Fd, ImmutabilityGuarded, HoldsOwn, ClearedWhere, Control
<1>7. StubOwned'
    BY NoInoAssumption, UncommittedAssumption DEF TypeOK, Fd, StubOwned, Created, HoldsOwn, Control
<1> QED
    BY <1>1, <1>2, <1>3, <1>4, <1>5, <1>6, <1>7

LEMMA ReadDataPreserves ==
    ASSUME IInv, NEW p \in Proc, ReadData(p)
    PROVE  IInv'
<1> USE DEF IInv, ReadData, Goto, Content, fs, history, Writes
<1>a. rfd[p] # NoIno => val[rfd[p]] \in Value \cup {Uncommitted}
    BY DEF TypeOK, Fd
<1>b. got[p] \in ReadBuf
    BY DEF Control
<1>c. got' \in [Proc -> ReadBuf \cup [size : 0 .. SizeMod - 1]] /\ got'[p] \in ReadBuf
  <2> DEFINE v == Content(rfd[p])
             k == Len(got[p].data)
  <2>1. CASE v # Missing /\ k < Len(v.data)
    <3>1. v.data \in Seq(Bytes) /\ got[p].data \in Seq(Bytes)
        BY <1>a, <1>b, <2>1 DEF Value, ReadBuf
    <3>2. Append(got[p].data, v.data[k + 1]) \in Seq(Bytes)
        BY <3>1, <2>1
    <3> DEFINE longer == Append(got[p].data, v.data[k + 1])
    <3>3. got' = [got EXCEPT ![p].data = longer]
        BY <2>1
    <3> HIDE DEF longer
    <3>4. got'[p] \in ReadBuf
        BY <3>2, <3>3, <1>b DEF TypeOK, ReadBuf, longer
    <3> QED
        BY <3>3, <3>4 DEF TypeOK
  <2>2. CASE ~(v # Missing /\ k < Len(v.data))
    BY <2>2, <1>b DEF TypeOK
  <2> QED
    BY <2>1, <2>2
<1>1. TypeOK'
    BY <1>c DEF TypeOK, Label
<1>2. NoHardLinks'
    BY DEF TypeOK, Fd, NoHardLinks
<1>3. HoldsOwn'
    BY CallFields, NoCallIsNoCall, NoInoAssumption DEF TypeOK, Fd, HoldsOwn, NoHardLinks, Control
<1>4. Control'
  <2>1. pc[p] = "readdata" /\ (pc' = pc \/ pc' = [pc EXCEPT ![p] = "ret"])
    OBVIOUS
  <2>2. UNCHANGED <<call, wfd>> /\ \A q \in Proc \ {p} : got'[q] = got[q]
    BY DEF TypeOK
  <2>3. \A q \in Proc : pc'[q] # "ret" => got'[q] \in ReadBuf
    BY <1>c, <2>1, <2>2 DEF TypeOK, Control
  <2> HIDE DEF ReadData, Content
  <2> QED
    BY <2>1, <2>2, <2>3 DEF TypeOK, Control
<1>5. ClearedWhere'
    BY DEF TypeOK, Control, ClearedWhere
<1>6. ImmutabilityGuarded'
    BY ProtectedAssumption, NoInoAssumption DEF TypeOK, Fd, ImmutabilityGuarded, HoldsOwn, ClearedWhere, Control
<1>7. StubOwned'
    BY NoInoAssumption, UncommittedAssumption DEF TypeOK, Fd, StubOwned, Created, HoldsOwn, Control
<1> QED
    BY <1>1, <1>2, <1>3, <1>4, <1>5, <1>6, <1>7

LEMMA ReadFailsPreserves ==
    ASSUME IInv, NEW p \in Proc, ReadFails(p)
    PROVE  IInv'
<1> USE DEF IInv, ReadFails, Goto, fs, history, Writes
<1>1. TypeOK'
    BY CallFields, NoCallIsNoCall, NoInoAssumption, SizeModAssumption DEF TypeOK, Control, Label, Fd, ReadBuf, NoRead, Overtake, Value
<1>2. NoHardLinks'
    BY DEF TypeOK, Fd, NoHardLinks
<1>3. HoldsOwn'
    BY CallFields, NoCallIsNoCall, NoInoAssumption DEF TypeOK, Fd, HoldsOwn, NoHardLinks, Control
<1>4. Control'
    BY CallFields, NoCallIsNoCall, NoInoAssumption DEF TypeOK, Control, Label, ReadBuf, NoRead
<1>5. ClearedWhere'
    BY DEF TypeOK, Control, ClearedWhere
<1>6. ImmutabilityGuarded'
    BY ProtectedAssumption, NoInoAssumption DEF TypeOK, Fd, ImmutabilityGuarded, HoldsOwn, ClearedWhere, Control
<1>7. StubOwned'
    BY NoInoAssumption, UncommittedAssumption DEF TypeOK, Fd, StubOwned, Created, HoldsOwn, Control
<1> QED
    BY <1>1, <1>2, <1>3, <1>4, <1>5, <1>6, <1>7

LEMMA AgainPreserves ==
    ASSUME IInv, NEW p \in Proc, Again(p)
    PROVE  IInv'
<1> USE DEF IInv, Again, Goto, fs, history, Writes
<1>1. TypeOK'
    BY CallFields, NoCallIsNoCall, NoInoAssumption, SizeModAssumption DEF TypeOK, Control, Label, Fd, ReadBuf, NoRead, Overtake, Value
<1>2. NoHardLinks'
    BY DEF TypeOK, Fd, NoHardLinks
<1>3. HoldsOwn'
    BY CallFields, NoCallIsNoCall, NoInoAssumption DEF TypeOK, Fd, HoldsOwn, NoHardLinks, Control
<1>4. Control'
    BY CallFields, NoCallIsNoCall, NoInoAssumption DEF TypeOK, Control, Label, ReadBuf, NoRead
<1>5. ClearedWhere'
    BY DEF TypeOK, Control, ClearedWhere
<1>6. ImmutabilityGuarded'
    BY ProtectedAssumption, NoInoAssumption DEF TypeOK, Fd, ImmutabilityGuarded, HoldsOwn, ClearedWhere, Control
<1>7. StubOwned'
    BY NoInoAssumption, UncommittedAssumption DEF TypeOK, Fd, StubOwned, Created, HoldsOwn, Control
<1> QED
    BY <1>1, <1>2, <1>3, <1>4, <1>5, <1>6, <1>7

LEMMA StatPreserves ==
    ASSUME IInv, NEW p \in Proc, Stat(p)
    PROVE  IInv'
<1> USE DEF IInv, Stat, Goto, FileSize, fs, history, Writes
<1>a. ASSUME NEW i \in Ino
      PROVE  (FileSize(i) - 4) % SizeMod \in 0 .. SizeMod - 1
  <2>1. FileSize(i) \in Int
    BY DEF TypeOK, Value
  <2> HIDE DEF FileSize
  <2> QED
    BY <2>1, SizeModAssumption, ModRange
<1> HIDE DEF FileSize
<1>b. got' \in [Proc -> ReadBuf \cup [size : 0 .. SizeMod - 1]]
  <2> DEFINE i == dentry[call[p].name]
  <2>1. i \in Fd
    BY CallFields DEF TypeOK, Control
  <2>2. CASE /\ i # NoIno
             /\ got' = [got EXCEPT ![p] = [size |-> (FileSize(i) - 4) % SizeMod]]
    <3>1. (FileSize(i) - 4) % SizeMod \in 0 .. SizeMod - 1
        BY <1>a, <2>1, <2>2 DEF Fd
    <3> DEFINE z == (FileSize(i) - 4) % SizeMod
    <3>2. z \in 0 .. SizeMod - 1 /\ got' = [got EXCEPT ![p] = [size |-> z]]
        BY <3>1, <2>2
    <3> HIDE DEF z
    <3> QED
        BY <3>2 DEF TypeOK
  <2>3. CASE got' = got
    BY <2>3 DEF TypeOK
  <2> QED
    BY <2>2, <2>3
<1>1. TypeOK'
    BY <1>b DEF TypeOK, Label
<1>2. NoHardLinks'
    BY DEF TypeOK, Fd, NoHardLinks
<1>3. HoldsOwn'
    BY CallFields, NoCallIsNoCall, NoInoAssumption DEF TypeOK, Fd, HoldsOwn, NoHardLinks, Control
<1>4. Control'
    BY CallFields, NoCallIsNoCall, NoInoAssumption DEF TypeOK, Control, Label, ReadBuf, NoRead
<1>5. ClearedWhere'
    BY DEF TypeOK, Control, ClearedWhere
<1>6. ImmutabilityGuarded'
    BY ProtectedAssumption, NoInoAssumption DEF TypeOK, Fd, ImmutabilityGuarded, HoldsOwn, ClearedWhere, Control
<1>7. StubOwned'
    BY NoInoAssumption, UncommittedAssumption DEF TypeOK, Fd, StubOwned, Created, HoldsOwn, Control
<1> QED
    BY <1>1, <1>2, <1>3, <1>4, <1>5, <1>6, <1>7

LEMMA WritePreserves ==
    ASSUME IInv, NEW p \in Proc, Write(p)
    PROVE  IInv'
<1> USE DEF IInv, Write, Goto, Content, fs, history, Writes
<1> DEFINE i   == wfd[p]
           old == Content(i)
           new == Written(old, call[p].op, call[p].val)
<1>a. old \in Value \cup {Missing}
    BY DEF TypeOK, Fd
<1>b. call[p].val \in Value
    BY CallFields, PayloadAssumption DEF Control
<1>c. new \in Value \cup {Missing}
    BY <1>a, <1>b, WrittenType
<1> HIDE DEF old, new
<1>d. \/ new \in Value /\ val' = [val EXCEPT ![i] = new] /\ dentry' = dentry
      \/ /\ val' = val
         /\ dentry[call[p].name] = i =>
                dentry' = [dentry EXCEPT ![call[p].name] = NoIno]
         /\ dentry[call[p].name] # i => dentry' = dentry
    BY <1>c DEF old, new
<1>1. TypeOK'
  <2>1. dentry' \in [Name -> Fd] /\ val' \in [Ino -> Value \cup {Uncommitted}]
    BY <1>d DEF TypeOK, Fd
  <2>2. overtaken' \in [Proc -> BOOLEAN]
    BY DEF TypeOK, Overtake
  <2> QED
    BY <2>1, <2>2 DEF TypeOK, Label
<1>2. NoHardLinks'
    BY <1>d DEF TypeOK, Fd, NoHardLinks
<1>3. HoldsOwn'
    BY <1>d DEF TypeOK, Fd, HoldsOwn
<1>4. Control'
    BY CallFields, NoCallIsNoCall, NoInoAssumption DEF TypeOK, Control, Label, ReadBuf, NoRead
<1>5. ClearedWhere'
    BY DEF TypeOK, Control, ClearedWhere
<1>6. ImmutabilityGuarded'
    BY <1>d, ProtectedAssumption DEF TypeOK, Fd, ImmutabilityGuarded
<1>7. StubOwned'
  <2> SUFFICES ASSUME NEW n \in Name, dentry'[n] # NoIno, val'[dentry'[n]] = Uncommitted
               PROVE  \/ dentry'[n] \in leaked
                      \/ \E q \in Proc :
                            /\ Created(q)' /\ wfd[q] = dentry'[n]
                            /\ pc'[q] \in {"getflags", "clearflags", "write", "rollback"}
    BY DEF StubOwned
  <2>1. dentry'[n] = dentry[n] /\ val[dentry[n]] = Uncommitted /\ dentry[n] # i
    BY <1>d, NoInoAssumption, UncommittedAssumption DEF TypeOK, Fd, HoldsOwn
  <2> QED
    BY <2>1 DEF StubOwned, Created, TypeOK
<1> QED
    BY <1>1, <1>2, <1>3, <1>4, <1>5, <1>6, <1>7

LEMMA SyncPreserves ==
    ASSUME IInv, NEW p \in Proc, Sync(p)
    PROVE  IInv'
<1>1. CASE Die(p)
    BY <1>1, DiePreserves
<1>2. CASE ~Die(p)
  <2> USE <1>2 DEF IInv, Sync, Goto, fs, history, Writes
  <2>1. TypeOK'
    BY DEF TypeOK, Label
  <2>2. NoHardLinks'
    BY DEF NoHardLinks
  <2>3. HoldsOwn'
    BY DEF HoldsOwn
  <2>4. Control'
    BY DEF TypeOK, Control
  <2>5. ClearedWhere'
    BY DEF TypeOK, ClearedWhere
  <2>6. ImmutabilityGuarded'
    BY DEF ImmutabilityGuarded
  <2>7. StubOwned'
    BY DEF TypeOK, StubOwned, Created
  <2> QED
    BY <2>1, <2>2, <2>3, <2>4, <2>5, <2>6, <2>7
<1> QED
    BY <1>1, <1>2

LEMMA NextPreserves ==
    ASSUME IInv, [Next]_vars
    PROVE  IInv'
<1>1. ASSUME NEW p \in Proc, Call(p) \/ Step(p) \/ Kill(p)
      PROVE  IInv'
  <2>1. CASE Call(p)
    BY <2>1, CallPreserves
  <2>2. CASE Kill(p)
    BY <2>2, DiePreserves DEF Kill
  <2>3. CASE Step(p)
    BY <2>3, OpenRPreserves, OpenExistingPreserves, CreatePreserves,
       CreateFailsPreserves, GetFlagsPreserves, ClearFlagsPreserves,
       WritePreserves, WriteFailsPreserves, SyncPreserves, RollbackPreserves,
       RestorePreserves, OpenDPreserves, UnlinkPreserves, ChmodPreserves,
       OpenGPreserves, ReadAttrsPreserves, ReadDataPreserves,
       ReadFailsPreserves, AgainPreserves, StatPreserves, RejectPreserves, ReturnPreserves
       DEF Step, OpenW
  <2> QED
    BY <1>1, <2>1, <2>2, <2>3
<1>2. CASE UNCHANGED vars
    BY <1>2 DEF vars, fs, local, history, IInv, TypeOK, NoHardLinks, HoldsOwn,
       Control, ClearedWhere, ImmutabilityGuarded, StubOwned, Created
<1> QED
    BY <1>1, <1>2 DEF Next

LEMMA InitEstablishes == Init => IInv
<1> SUFFICES ASSUME Init PROVE IInv
    OBVIOUS
<1> USE DEF Init
<1>1. TypeOK
    BY PayloadAssumption, NoInoAssumption
       DEF TypeOK, Fd, Label, ReadBuf, NoRead
<1>2. NoHardLinks /\ HoldsOwn
    BY DEF NoHardLinks, HoldsOwn
<1>3. Control /\ ClearedWhere
    BY NoCallIsNoCall DEF Control, ClearedWhere, ReadBuf, NoRead, Writes, NoCall
<1>4. ImmutabilityGuarded
    BY ProtectedAssumption DEF ImmutabilityGuarded
<1>5. StubOwned
    BY <1>1, PayloadAssumption, UncommittedAssumption DEF StubOwned, TypeOK, Fd
<1> QED
    BY <1>1, <1>2, <1>3, <1>4, <1>5 DEF IInv

-----------------------------------------------------------------------------
(* The theorems                                                            *)

\* The inductive invariant holds in every state the backend can reach.
THEOREM Invariance == Spec => []IInv
<1>1. Init => IInv
    BY InitEstablishes
<1>2. IInv /\ [Next]_vars => IInv'
    BY NextPreserves
<1> QED
    BY <1>1, <1>2, PTL DEF Spec

\* Every variable of the model keeps its type: descriptors refer to inodes,
\* sizes fit a size_t, calls carry the arguments of their operation.
THEOREM TypeCorrect == Spec => []TypeOK
<1>1. IInv => TypeOK
    BY DEF IInv
<1> QED
    BY <1>1, Invariance, PTL

\* For any number of processes and variables: the immutable flag of a
\* protected variable is off only while a call that cleared it is running,
\* unless that call was killed or a system call it depends on failed.
THEOREM ProtectionKept == Spec => []ImmutabilityGuarded
<1>1. IInv => ImmutabilityGuarded
    BY DEF IInv
<1> QED
    BY <1>1, Invariance, PTL

\* For any number of processes and variables: a file without a variable
\* behind it belongs to the running call that created it, unless that call
\* was killed or could not remove it.
THEOREM StubsHaveOwners == Spec => []StubOwned
<1>1. IInv => StubOwned
    BY DEF IInv
<1> QED
    BY <1>1, Invariance, PTL

-----------------------------------------------------------------------------
(***************************************************************************)
(* What the step-by-step argument needs beyond IInv.                       *)
(***************************************************************************)

\* A call that may still write to a file nobody can reach any more knows
\* that its variable was removed.
OrphanOvertaken ==
    \A p \in Proc :
        wfd[p] # NoIno /\ dentry[call[p].name] # wfd[p] => overtaken[p]

\* Only calls that change variables are overtaken.
OvertakenWrites ==
    \A p \in Proc : overtaken[p] => call[p].op \in {"set", "append", "del"}

\* The result is 0 only once the work is done.
ResultLate ==
    \A p \in Proc : pc[p] \notin {"sync", "restore", "ret"} => ret[p] = -1

RInv == IInv /\ OrphanOvertaken /\ OvertakenWrites /\ ResultLate

\* The abstract state of a process is a function of these.
Store == [n \in Name |-> Stored(n)]
Phase == [p \in Proc |-> AbsPhase(p)]
Want == [p \in Proc |-> AbsWant(p)]

-----------------------------------------------------------------------------
(* Every action preserves the three additions                              *)

LEMMA CallKeeps ==
    ASSUME RInv, NEW p \in Proc, Call(p)
    PROVE  (OrphanOvertaken /\ OvertakenWrites /\ ResultLate)'
<1> USE DEF RInv, IInv, Call, Goto, fs, history
<1>1. OrphanOvertaken'
    BY CallFields, NoInoAssumption DEF TypeOK, Fd, Control, OrphanOvertaken, HoldsOwn, Overtake, Writes, NoCall
<1>2. OvertakenWrites'
    BY CallFields DEF TypeOK, Control, OvertakenWrites, Overtake, Writes, NoCall
<1>3. ResultLate'
    BY FirstSteps DEF TypeOK, Control, ResultLate
<1> QED
    BY <1>1, <1>2, <1>3

LEMMA ReturnKeeps ==
    ASSUME RInv, NEW p \in Proc, Return(p)
    PROVE  (OrphanOvertaken /\ OvertakenWrites /\ ResultLate)'
<1> USE DEF RInv, IInv, Return, Leave, Goto, fs, history
<1>1. OrphanOvertaken'
    BY CallFields, NoInoAssumption DEF TypeOK, Fd, Control, OrphanOvertaken, HoldsOwn, Overtake, Writes, NoCall
<1>2. OvertakenWrites'
    BY CallFields DEF TypeOK, Control, OvertakenWrites, Overtake, Writes, NoCall
<1>3. ResultLate'
    BY FirstSteps DEF TypeOK, Control, ResultLate
<1> QED
    BY <1>1, <1>2, <1>3

LEMMA DieKeeps ==
    ASSUME RInv, NEW p \in Proc, Die(p)
    PROVE  (OrphanOvertaken /\ OvertakenWrites /\ ResultLate)'
<1> USE DEF RInv, IInv, Die, Leave, Goto, fs, history
<1>1. OrphanOvertaken'
    BY CallFields, NoInoAssumption DEF TypeOK, Fd, Control, OrphanOvertaken, HoldsOwn, Overtake, Writes, NoCall
<1>2. OvertakenWrites'
    BY CallFields DEF TypeOK, Control, OvertakenWrites, Overtake, Writes, NoCall
<1>3. ResultLate'
    BY FirstSteps DEF TypeOK, Control, ResultLate
<1> QED
    BY <1>1, <1>2, <1>3

LEMMA RejectKeeps ==
    ASSUME RInv, NEW p \in Proc, Reject(p)
    PROVE  (OrphanOvertaken /\ OvertakenWrites /\ ResultLate)'
<1> USE DEF RInv, IInv, Reject, Goto, fs, history
<1>1. OrphanOvertaken'
    BY CallFields, NoInoAssumption DEF TypeOK, Fd, Control, OrphanOvertaken, HoldsOwn, Overtake, Writes, NoCall
<1>2. OvertakenWrites'
    BY CallFields DEF TypeOK, Control, OvertakenWrites, Overtake, Writes, NoCall
<1>3. ResultLate'
    BY FirstSteps DEF TypeOK, Control, ResultLate
<1> QED
    BY <1>1, <1>2, <1>3

LEMMA OpenRKeeps ==
    ASSUME RInv, NEW p \in Proc, OpenR(p)
    PROVE  (OrphanOvertaken /\ OvertakenWrites /\ ResultLate)'
<1> USE DEF RInv, IInv, OpenR, Goto, fs, history
<1>1. OrphanOvertaken'
    BY CallFields, NoInoAssumption DEF TypeOK, Fd, Control, OrphanOvertaken, HoldsOwn, Overtake, Writes, NoCall
<1>2. OvertakenWrites'
    BY CallFields DEF TypeOK, Control, OvertakenWrites, Overtake, Writes, NoCall
<1>3. ResultLate'
    BY FirstSteps DEF TypeOK, Control, ResultLate
<1> QED
    BY <1>1, <1>2, <1>3

LEMMA OpenExistingKeeps ==
    ASSUME RInv, NEW p \in Proc, OpenExisting(p)
    PROVE  (OrphanOvertaken /\ OvertakenWrites /\ ResultLate)'
<1> USE DEF RInv, IInv, OpenExisting, Goto, fs, history
<1>1. OrphanOvertaken'
    BY CallFields, NoInoAssumption DEF TypeOK, Fd, Control, OrphanOvertaken, HoldsOwn, Overtake, Writes, NoCall
<1>2. OvertakenWrites'
    BY CallFields DEF TypeOK, Control, OvertakenWrites, Overtake, Writes, NoCall
<1>3. ResultLate'
    BY FirstSteps DEF TypeOK, Control, ResultLate
<1> QED
    BY <1>1, <1>2, <1>3

LEMMA CreateKeeps ==
    ASSUME RInv, NEW p \in Proc, Create(p)
    PROVE  (OrphanOvertaken /\ OvertakenWrites /\ ResultLate)'
<1> USE DEF RInv, IInv, Create, Goto, Free, Linked, fs, history
<1>1. OrphanOvertaken'
    BY CallFields, NoInoAssumption DEF TypeOK, Fd, Control, OrphanOvertaken, HoldsOwn, Overtake, Writes, NoCall
<1>2. OvertakenWrites'
    BY CallFields DEF TypeOK, Control, OvertakenWrites, Overtake, Writes, NoCall
<1>3. ResultLate'
    BY FirstSteps DEF TypeOK, Control, ResultLate
<1> QED
    BY <1>1, <1>2, <1>3

LEMMA CreateFailsKeeps ==
    ASSUME RInv, NEW p \in Proc, CreateFails(p)
    PROVE  (OrphanOvertaken /\ OvertakenWrites /\ ResultLate)'
<1> USE DEF RInv, IInv, CreateFails, Goto, fs, history
<1>1. OrphanOvertaken'
    BY CallFields, NoInoAssumption DEF TypeOK, Fd, Control, OrphanOvertaken, HoldsOwn, Overtake, Writes, NoCall
<1>2. OvertakenWrites'
    BY CallFields DEF TypeOK, Control, OvertakenWrites, Overtake, Writes, NoCall
<1>3. ResultLate'
    BY FirstSteps DEF TypeOK, Control, ResultLate
<1> QED
    BY <1>1, <1>2, <1>3

LEMMA WriteFailsKeeps ==
    ASSUME RInv, NEW p \in Proc, WriteFails(p)
    PROVE  (OrphanOvertaken /\ OvertakenWrites /\ ResultLate)'
<1> USE DEF RInv, IInv, WriteFails, Goto, fs, history
<1>1. OrphanOvertaken'
    BY CallFields, NoInoAssumption DEF TypeOK, Fd, Control, OrphanOvertaken, HoldsOwn, Overtake, Writes, NoCall
<1>2. OvertakenWrites'
    BY CallFields DEF TypeOK, Control, OvertakenWrites, Overtake, Writes, NoCall
<1>3. ResultLate'
    BY FirstSteps DEF TypeOK, Control, ResultLate
<1> QED
    BY <1>1, <1>2, <1>3

LEMMA RollbackKeeps ==
    ASSUME RInv, NEW p \in Proc, Rollback(p)
    PROVE  (OrphanOvertaken /\ OvertakenWrites /\ ResultLate)'
<1> USE DEF RInv, IInv, Rollback, Goto, Created, fs, history
<1>1. OrphanOvertaken'
    BY CallFields, NoInoAssumption DEF TypeOK, Fd, Control, OrphanOvertaken, HoldsOwn, Overtake, Writes, NoCall
<1>2. OvertakenWrites'
    BY CallFields DEF TypeOK, Control, OvertakenWrites, Overtake, Writes, NoCall
<1>3. ResultLate'
    BY FirstSteps DEF TypeOK, Control, ResultLate
<1> QED
    BY <1>1, <1>2, <1>3

LEMMA RestoreKeeps ==
    ASSUME RInv, NEW p \in Proc, Restore(p)
    PROVE  (OrphanOvertaken /\ OvertakenWrites /\ ResultLate)'
<1> USE DEF RInv, IInv, Restore, Goto, fs, history
<1>1. OrphanOvertaken'
    BY CallFields, NoInoAssumption DEF TypeOK, Fd, Control, OrphanOvertaken, HoldsOwn, Overtake, Writes, NoCall
<1>2. OvertakenWrites'
    BY CallFields DEF TypeOK, Control, OvertakenWrites, Overtake, Writes, NoCall
<1>3. ResultLate'
    BY FirstSteps DEF TypeOK, Control, ResultLate
<1> QED
    BY <1>1, <1>2, <1>3

LEMMA GetFlagsKeeps ==
    ASSUME RInv, NEW p \in Proc, GetFlags(p)
    PROVE  (OrphanOvertaken /\ OvertakenWrites /\ ResultLate)'
<1> USE DEF RInv, IInv, GetFlags, Goto, DoneWithFlags, AfterFlags, fs, history
<1>1. OrphanOvertaken'
    BY CallFields, NoInoAssumption DEF TypeOK, Fd, Control, OrphanOvertaken, HoldsOwn, Overtake, Writes, NoCall
<1>2. OvertakenWrites'
    BY CallFields DEF TypeOK, Control, OvertakenWrites, Overtake, Writes, NoCall
<1>3. ResultLate'
    BY FirstSteps DEF TypeOK, Control, ResultLate
<1> QED
    BY <1>1, <1>2, <1>3

LEMMA ClearFlagsKeeps ==
    ASSUME RInv, NEW p \in Proc, ClearFlags(p)
    PROVE  (OrphanOvertaken /\ OvertakenWrites /\ ResultLate)'
<1> USE DEF RInv, IInv, ClearFlags, Goto, DoneWithFlags, AfterFlags, fs, history
<1>1. OrphanOvertaken'
    BY CallFields, NoInoAssumption DEF TypeOK, Fd, Control, OrphanOvertaken, HoldsOwn, Overtake, Writes, NoCall
<1>2. OvertakenWrites'
    BY CallFields DEF TypeOK, Control, OvertakenWrites, Overtake, Writes, NoCall
<1>3. ResultLate'
    BY FirstSteps DEF TypeOK, Control, ResultLate
<1> QED
    BY <1>1, <1>2, <1>3

LEMMA OpenDKeeps ==
    ASSUME RInv, NEW p \in Proc, OpenD(p)
    PROVE  (OrphanOvertaken /\ OvertakenWrites /\ ResultLate)'
<1> USE DEF RInv, IInv, OpenD, Goto, fs, history
<1>1. OrphanOvertaken'
    BY CallFields, NoInoAssumption DEF TypeOK, Fd, Control, OrphanOvertaken, HoldsOwn, Overtake, Writes, NoCall
<1>2. OvertakenWrites'
    BY CallFields DEF TypeOK, Control, OvertakenWrites, Overtake, Writes, NoCall
<1>3. ResultLate'
    BY FirstSteps DEF TypeOK, Control, ResultLate
<1> QED
    BY <1>1, <1>2, <1>3

LEMMA UnlinkKeeps ==
    ASSUME RInv, NEW p \in Proc, Unlink(p)
    PROVE  (OrphanOvertaken /\ OvertakenWrites /\ ResultLate)'
<1> USE DEF RInv, IInv, Unlink, Goto, fs, history
<1>1. OrphanOvertaken'
    BY CallFields, NoInoAssumption DEF TypeOK, Fd, Control, OrphanOvertaken, HoldsOwn, Overtake, Writes, NoCall
<1>2. OvertakenWrites'
    BY CallFields DEF TypeOK, Control, OvertakenWrites, Overtake, Writes, NoCall
<1>3. ResultLate'
    BY FirstSteps DEF TypeOK, Control, ResultLate
<1> QED
    BY <1>1, <1>2, <1>3

LEMMA ChmodKeeps ==
    ASSUME RInv, NEW p \in Proc, Chmod(p)
    PROVE  (OrphanOvertaken /\ OvertakenWrites /\ ResultLate)'
<1> USE DEF RInv, IInv, Chmod, Goto, fs, history
<1>1. OrphanOvertaken'
    BY CallFields, NoInoAssumption DEF TypeOK, Fd, Control, OrphanOvertaken, HoldsOwn, Overtake, Writes, NoCall
<1>2. OvertakenWrites'
    BY CallFields DEF TypeOK, Control, OvertakenWrites, Overtake, Writes, NoCall
<1>3. ResultLate'
    BY FirstSteps DEF TypeOK, Control, ResultLate
<1> QED
    BY <1>1, <1>2, <1>3

LEMMA OpenGKeeps ==
    ASSUME RInv, NEW p \in Proc, OpenG(p)
    PROVE  (OrphanOvertaken /\ OvertakenWrites /\ ResultLate)'
<1> USE DEF RInv, IInv, OpenG, Goto, fs, history
<1>1. OrphanOvertaken'
    BY CallFields, NoInoAssumption DEF TypeOK, Fd, Control, OrphanOvertaken, HoldsOwn, Overtake, Writes, NoCall
<1>2. OvertakenWrites'
    BY CallFields DEF TypeOK, Control, OvertakenWrites, Overtake, Writes, NoCall
<1>3. ResultLate'
    BY FirstSteps DEF TypeOK, Control, ResultLate
<1> QED
    BY <1>1, <1>2, <1>3

LEMMA ReadAttrsKeeps ==
    ASSUME RInv, NEW p \in Proc, ReadAttrs(p)
    PROVE  (OrphanOvertaken /\ OvertakenWrites /\ ResultLate)'
<1> USE DEF RInv, IInv, ReadAttrs, Goto, fs, history
<1>1. OrphanOvertaken'
    BY CallFields, NoInoAssumption DEF TypeOK, Fd, Control, OrphanOvertaken, HoldsOwn, Overtake, Writes, NoCall
<1>2. OvertakenWrites'
    BY CallFields DEF TypeOK, Control, OvertakenWrites, Overtake, Writes, NoCall
<1>3. ResultLate'
    BY FirstSteps DEF TypeOK, Control, ResultLate
<1> QED
    BY <1>1, <1>2, <1>3

LEMMA ReadDataKeeps ==
    ASSUME RInv, NEW p \in Proc, ReadData(p)
    PROVE  (OrphanOvertaken /\ OvertakenWrites /\ ResultLate)'
<1> USE DEF RInv, IInv, ReadData, Goto, fs, history
<1>1. OrphanOvertaken'
    BY CallFields, NoInoAssumption DEF TypeOK, Fd, Control, OrphanOvertaken, HoldsOwn, Overtake, Writes, NoCall
<1>2. OvertakenWrites'
    BY CallFields DEF TypeOK, Control, OvertakenWrites, Overtake, Writes, NoCall
<1>3. ResultLate'
    BY FirstSteps DEF TypeOK, Control, ResultLate
<1> QED
    BY <1>1, <1>2, <1>3

LEMMA ReadFailsKeeps ==
    ASSUME RInv, NEW p \in Proc, ReadFails(p)
    PROVE  (OrphanOvertaken /\ OvertakenWrites /\ ResultLate)'
<1> USE DEF RInv, IInv, ReadFails, Goto, fs, history
<1>1. OrphanOvertaken'
    BY CallFields, NoInoAssumption DEF TypeOK, Fd, Control, OrphanOvertaken, HoldsOwn, Overtake, Writes, NoCall
<1>2. OvertakenWrites'
    BY CallFields DEF TypeOK, Control, OvertakenWrites, Overtake, Writes, NoCall
<1>3. ResultLate'
    BY FirstSteps DEF TypeOK, Control, ResultLate
<1> QED
    BY <1>1, <1>2, <1>3

LEMMA AgainKeeps ==
    ASSUME RInv, NEW p \in Proc, Again(p)
    PROVE  (OrphanOvertaken /\ OvertakenWrites /\ ResultLate)'
<1> USE DEF RInv, IInv, Again, Goto, fs, history
<1>1. OrphanOvertaken'
    BY CallFields, NoInoAssumption DEF TypeOK, Fd, Control, OrphanOvertaken, HoldsOwn, Overtake, Writes, NoCall
<1>2. OvertakenWrites'
    BY CallFields DEF TypeOK, Control, OvertakenWrites, Overtake, Writes, NoCall
<1>3. ResultLate'
    BY FirstSteps DEF TypeOK, Control, ResultLate
<1> QED
    BY <1>1, <1>2, <1>3

LEMMA StatKeeps ==
    ASSUME RInv, NEW p \in Proc, Stat(p)
    PROVE  (OrphanOvertaken /\ OvertakenWrites /\ ResultLate)'
<1> USE DEF RInv, IInv, Stat, Goto, fs, history
<1>1. OrphanOvertaken'
    BY CallFields, NoInoAssumption DEF TypeOK, Fd, Control, OrphanOvertaken, HoldsOwn, Overtake, Writes, NoCall
<1>2. OvertakenWrites'
    BY CallFields DEF TypeOK, Control, OvertakenWrites, Overtake, Writes, NoCall
<1>3. ResultLate'
    BY FirstSteps DEF TypeOK, Control, ResultLate
<1> QED
    BY <1>1, <1>2, <1>3

LEMMA WriteKeeps ==
    ASSUME RInv, NEW p \in Proc, Write(p)
    PROVE  (OrphanOvertaken /\ OvertakenWrites /\ ResultLate)'
<1> USE DEF RInv, IInv, Write, Goto, fs, history
<1>1. OrphanOvertaken'
    BY CallFields, NoInoAssumption DEF TypeOK, Fd, Control, OrphanOvertaken, HoldsOwn, Overtake, Writes, NoCall
<1>2. OvertakenWrites'
    BY CallFields DEF TypeOK, Control, OvertakenWrites, Overtake, Writes, NoCall
<1>3. ResultLate'
    BY FirstSteps DEF TypeOK, Control, ResultLate
<1> QED
    BY <1>1, <1>2, <1>3

LEMMA SyncKeeps ==
    ASSUME RInv, NEW p \in Proc, Sync(p)
    PROVE  (OrphanOvertaken /\ OvertakenWrites /\ ResultLate)'
<1>1. CASE Die(p)
    BY <1>1, DieKeeps
<1>2. CASE ~Die(p)
    BY <1>2 DEF RInv, IInv, Sync, Goto, fs, history, TypeOK, Control,
       OrphanOvertaken, OvertakenWrites, ResultLate
<1> QED
    BY <1>1, <1>2

LEMMA RInvNext ==
    ASSUME RInv, [Next]_vars
    PROVE  RInv'
<1>1. IInv'
    BY NextPreserves DEF RInv
<1>2. ASSUME NEW p \in Proc, Call(p) \/ Step(p) \/ Kill(p)
      PROVE  (OrphanOvertaken /\ OvertakenWrites /\ ResultLate)'
  <2>1. CASE Call(p)
    BY <2>1, CallKeeps
  <2>2. CASE Kill(p)
    BY <2>2, DieKeeps DEF Kill
  <2>3. CASE Step(p)
    BY <2>3, OpenRKeeps, OpenExistingKeeps, CreateKeeps, CreateFailsKeeps,
       GetFlagsKeeps, ClearFlagsKeeps, WriteKeeps, WriteFailsKeeps, SyncKeeps,
       RollbackKeeps, RestoreKeeps, OpenDKeeps, UnlinkKeeps, ChmodKeeps,
       OpenGKeeps, ReadAttrsKeeps, ReadDataKeeps, ReadFailsKeeps, AgainKeeps, StatKeeps,
       RejectKeeps, ReturnKeeps
       DEF Step, OpenW
  <2> QED
    BY <1>2, <2>1, <2>2, <2>3
<1>3. CASE UNCHANGED vars
    BY <1>3, <1>1 DEF RInv, vars, fs, local, history, OrphanOvertaken,
       OvertakenWrites, ResultLate
<1> QED
    BY <1>1, <1>2, <1>3 DEF Next, RInv

LEMMA RInvInit == Init => RInv
<1> SUFFICES ASSUME Init PROVE RInv
    OBVIOUS
<1>1. IInv
    BY InitEstablishes
<1>2. OrphanOvertaken /\ OvertakenWrites /\ ResultLate
    BY DEF Init, OrphanOvertaken, OvertakenWrites, ResultLate
<1> QED
    BY <1>1, <1>2 DEF RInv

-----------------------------------------------------------------------------
(* How a change of the concrete state changes the abstract one             *)

\* A step of p changes the abstract state of p only.
LEMMA OthersKeep ==
    ASSUME NEW p \in Proc,
           \A q \in Proc \ {p} : /\ pc'[q] = pc[q]
                                 /\ call'[q] = call[q]
                                 /\ ret'[q] = ret[q]
    PROVE  /\ Phase' = [Phase EXCEPT ![p] = AbsPhase(p)']
           /\ Want' = [Want EXCEPT ![p] = AbsWant(p)']
<1>1. \A q \in Proc \ {p} : AbsPhase(q)' = AbsPhase(q) /\ AbsWant(q)' = AbsWant(q)
    BY DEF AbsPhase, AbsWant
<1> QED
    BY <1>1 DEF Phase, Want

LEMMA StoreKeeps ==
    ASSUME UNCHANGED <<dentry, val>>
    PROVE  Store' = Store
BY DEF Store, Stored, Content

\* The abstract steps, in terms of the abstract state of one process.
LEMMA AbsStutter ==
    ASSUME NEW p \in Proc, AbsPhase(p)' = AbsPhase(p), AbsWant(p)' = AbsWant(p),
           Phase' = [Phase EXCEPT ![p] = AbsPhase(p)'],
           Want' = [Want EXCEPT ![p] = AbsWant(p)'],
           Store' = Store, overtaken' = overtaken
    PROVE  UNCHANGED Abs!vars
BY DEF Abs!vars, Phase, Want, Store

LEMMA AbsGiveUp ==
    ASSUME NEW p \in Proc, AbsPhase(p) = "pending", AbsPhase(p)' = "failed",
           AbsWant(p)' = AbsWant(p),
           Phase' = [Phase EXCEPT ![p] = AbsPhase(p)'],
           Want' = [Want EXCEPT ![p] = AbsWant(p)'],
           Store' = Store, overtaken' = overtaken
    PROVE  Abs!Next
<1>1. Abs!GiveUp(p)
    BY DEF Abs!GiveUp, Phase, Want, Store
<1> QED
    BY <1>1 DEF Abs!Next

LEMMA AbsFinish ==
    ASSUME NEW p \in Proc, AbsPhase(p) # "idle", AbsPhase(p)' = "idle",
           AbsWant(p)' = NoCall,
           Phase' = [Phase EXCEPT ![p] = AbsPhase(p)'],
           Want' = [Want EXCEPT ![p] = AbsWant(p)'],
           Store' = Store, overtaken' = [overtaken EXCEPT ![p] = FALSE]
    PROVE  Abs!Next
<1>1. Abs!Finish(p)
    BY DEF Abs!Finish, Abs!NoCall, NoCall, Phase, Want, Store
<1> QED
    BY <1>1 DEF Abs!Next

LEMMA AbsBegin ==
    ASSUME NEW p \in Proc, AbsPhase(p) = "idle", AbsPhase(p)' = "pending",
           AbsWant(p)' \in Abs!Calls,
           Phase' = [Phase EXCEPT ![p] = AbsPhase(p)'],
           Want' = [Want EXCEPT ![p] = AbsWant(p)'],
           Store' = Store, overtaken' = [overtaken EXCEPT ![p] = FALSE]
    PROVE  Abs!Next
<1>1. Abs!Begin(p)
    BY DEF Abs!Begin, Phase, Want, Store
<1> QED
    BY <1>1 DEF Abs!Next

-----------------------------------------------------------------------------
(* Every step is a step of the abstract store, or none                     *)

LEMMA CreateSimulates ==
    ASSUME RInv, NEW p \in Proc, Create(p)
    PROVE  UNCHANGED Abs!vars
<1> USE DEF RInv, IInv, Create, Goto, Free, Linked, fs, history
<1>1. Store' = Store /\ overtaken' = overtaken
    BY CallFields, NoInoAssumption, UncommittedAssumption
       DEF TypeOK, Fd, Control, Writes, Store, Stored, Content
<1>2. /\ Phase' = [Phase EXCEPT ![p] = AbsPhase(p)']
      /\ Want' = [Want EXCEPT ![p] = AbsWant(p)']
    BY OthersKeep DEF TypeOK
<1>3. AbsPhase(p)' = AbsPhase(p) /\ AbsWant(p)' = AbsWant(p)
    BY CallFields DEF TypeOK, Control, Writes, ResultLate, AbsPhase, AbsWant
<1> QED
    BY <1>1, <1>2, <1>3, AbsStutter

LEMMA GetFlagsSimulates ==
    ASSUME RInv, NEW p \in Proc, GetFlags(p)
    PROVE  UNCHANGED Abs!vars
<1> USE DEF RInv, IInv, GetFlags, Goto, DoneWithFlags, AfterFlags, fs, history
<1>1. Store' = Store /\ overtaken' = overtaken
    BY StoreKeeps
<1>2. /\ Phase' = [Phase EXCEPT ![p] = AbsPhase(p)']
      /\ Want' = [Want EXCEPT ![p] = AbsWant(p)']
    BY OthersKeep DEF TypeOK
<1>3. AbsPhase(p)' = AbsPhase(p) /\ AbsWant(p)' = AbsWant(p)
    BY CallFields DEF TypeOK, Control, Writes, ResultLate, AbsPhase, AbsWant
<1> QED
    BY <1>1, <1>2, <1>3, AbsStutter

LEMMA ClearFlagsSimulates ==
    ASSUME RInv, NEW p \in Proc, ClearFlags(p)
    PROVE  UNCHANGED Abs!vars
<1> USE DEF RInv, IInv, ClearFlags, Goto, DoneWithFlags, AfterFlags, fs, history
<1>1. Store' = Store /\ overtaken' = overtaken
    BY StoreKeeps
<1>2. /\ Phase' = [Phase EXCEPT ![p] = AbsPhase(p)']
      /\ Want' = [Want EXCEPT ![p] = AbsWant(p)']
    BY OthersKeep DEF TypeOK
<1>3. AbsPhase(p)' = AbsPhase(p) /\ AbsWant(p)' = AbsWant(p)
    BY CallFields DEF TypeOK, Control, Writes, ResultLate, AbsPhase, AbsWant
<1> QED
    BY <1>1, <1>2, <1>3, AbsStutter

LEMMA RestoreSimulates ==
    ASSUME RInv, NEW p \in Proc, Restore(p)
    PROVE  UNCHANGED Abs!vars
<1> USE DEF RInv, IInv, Restore, Goto, fs, history
<1>1. Store' = Store /\ overtaken' = overtaken
    BY StoreKeeps
<1>2. /\ Phase' = [Phase EXCEPT ![p] = AbsPhase(p)']
      /\ Want' = [Want EXCEPT ![p] = AbsWant(p)']
    BY OthersKeep DEF TypeOK
<1>3. AbsPhase(p)' = AbsPhase(p) /\ AbsWant(p)' = AbsWant(p)
    BY CallFields DEF TypeOK, Control, Writes, ResultLate, AbsPhase, AbsWant
<1> QED
    BY <1>1, <1>2, <1>3, AbsStutter

LEMMA OpenDSimulates ==
    ASSUME RInv, NEW p \in Proc, OpenD(p)
    PROVE  UNCHANGED Abs!vars
<1> USE DEF RInv, IInv, OpenD, Goto, fs, history
<1>1. Store' = Store /\ overtaken' = overtaken
    BY StoreKeeps
<1>2. /\ Phase' = [Phase EXCEPT ![p] = AbsPhase(p)']
      /\ Want' = [Want EXCEPT ![p] = AbsWant(p)']
    BY OthersKeep DEF TypeOK
<1>3. AbsPhase(p)' = AbsPhase(p) /\ AbsWant(p)' = AbsWant(p)
    BY CallFields DEF TypeOK, Control, Writes, ResultLate, AbsPhase, AbsWant
<1> QED
    BY <1>1, <1>2, <1>3, AbsStutter

LEMMA ChmodSimulates ==
    ASSUME RInv, NEW p \in Proc, Chmod(p)
    PROVE  UNCHANGED Abs!vars
<1> USE DEF RInv, IInv, Chmod, Goto, fs, history
<1>1. Store' = Store /\ overtaken' = overtaken
    BY StoreKeeps
<1>2. /\ Phase' = [Phase EXCEPT ![p] = AbsPhase(p)']
      /\ Want' = [Want EXCEPT ![p] = AbsWant(p)']
    BY OthersKeep DEF TypeOK
<1>3. AbsPhase(p)' = AbsPhase(p) /\ AbsWant(p)' = AbsWant(p)
    BY CallFields DEF TypeOK, Control, Writes, ResultLate, AbsPhase, AbsWant
<1> QED
    BY <1>1, <1>2, <1>3, AbsStutter

LEMMA OpenGSimulates ==
    ASSUME RInv, NEW p \in Proc, OpenG(p)
    PROVE  UNCHANGED Abs!vars
<1> USE DEF RInv, IInv, OpenG, Goto, fs, history
<1>1. Store' = Store /\ overtaken' = overtaken
    BY StoreKeeps
<1>2. /\ Phase' = [Phase EXCEPT ![p] = AbsPhase(p)']
      /\ Want' = [Want EXCEPT ![p] = AbsWant(p)']
    BY OthersKeep DEF TypeOK
<1>3. AbsPhase(p)' = AbsPhase(p) /\ AbsWant(p)' = AbsWant(p)
    BY CallFields DEF TypeOK, Control, Writes, ResultLate, AbsPhase, AbsWant
<1> QED
    BY <1>1, <1>2, <1>3, AbsStutter

LEMMA ReadAttrsSimulates ==
    ASSUME RInv, NEW p \in Proc, ReadAttrs(p)
    PROVE  UNCHANGED Abs!vars
<1> USE DEF RInv, IInv, ReadAttrs, Goto, fs, history
<1>1. Store' = Store /\ overtaken' = overtaken
    BY StoreKeeps
<1>2. /\ Phase' = [Phase EXCEPT ![p] = AbsPhase(p)']
      /\ Want' = [Want EXCEPT ![p] = AbsWant(p)']
    BY OthersKeep DEF TypeOK
<1>3. AbsPhase(p)' = AbsPhase(p) /\ AbsWant(p)' = AbsWant(p)
    BY CallFields DEF TypeOK, Control, Writes, ResultLate, AbsPhase, AbsWant
<1> QED
    BY <1>1, <1>2, <1>3, AbsStutter

LEMMA ReadDataSimulates ==
    ASSUME RInv, NEW p \in Proc, ReadData(p)
    PROVE  UNCHANGED Abs!vars
<1> USE DEF RInv, IInv, ReadData, Goto, fs, history
<1>1. Store' = Store /\ overtaken' = overtaken
    BY StoreKeeps
<1>2. /\ Phase' = [Phase EXCEPT ![p] = AbsPhase(p)']
      /\ Want' = [Want EXCEPT ![p] = AbsWant(p)']
    BY OthersKeep DEF TypeOK
<1>3. AbsPhase(p)' = AbsPhase(p) /\ AbsWant(p)' = AbsWant(p)
    BY CallFields DEF TypeOK, Control, Writes, ResultLate, AbsPhase, AbsWant
<1> QED
    BY <1>1, <1>2, <1>3, AbsStutter

LEMMA ReadFailsSimulates ==
    ASSUME RInv, NEW p \in Proc, ReadFails(p)
    PROVE  UNCHANGED Abs!vars
<1> USE DEF RInv, IInv, ReadFails, Goto, fs, history
<1>1. Store' = Store /\ overtaken' = overtaken
    BY StoreKeeps
<1>2. /\ Phase' = [Phase EXCEPT ![p] = AbsPhase(p)']
      /\ Want' = [Want EXCEPT ![p] = AbsWant(p)']
    BY OthersKeep DEF TypeOK
<1>3. AbsPhase(p)' = AbsPhase(p) /\ AbsWant(p)' = AbsWant(p)
    BY CallFields DEF TypeOK, Control, Writes, ResultLate, AbsPhase, AbsWant
<1> QED
    BY <1>1, <1>2, <1>3, AbsStutter

LEMMA AgainSimulates ==
    ASSUME RInv, NEW p \in Proc, Again(p)
    PROVE  UNCHANGED Abs!vars
<1> USE DEF RInv, IInv, Again, Goto, fs, history
<1>1. Store' = Store /\ overtaken' = overtaken
    BY StoreKeeps
<1>2. /\ Phase' = [Phase EXCEPT ![p] = AbsPhase(p)']
      /\ Want' = [Want EXCEPT ![p] = AbsWant(p)']
    BY OthersKeep DEF TypeOK
<1>3. AbsPhase(p)' = AbsPhase(p) /\ AbsWant(p)' = AbsWant(p)
    BY CallFields DEF TypeOK, Control, Writes, ResultLate, AbsPhase, AbsWant
<1> QED
    BY <1>1, <1>2, <1>3, AbsStutter

LEMMA StatSimulates ==
    ASSUME RInv, NEW p \in Proc, Stat(p)
    PROVE  UNCHANGED Abs!vars
<1> USE DEF RInv, IInv, Stat, Goto, fs, history
<1>1. Store' = Store /\ overtaken' = overtaken
    BY StoreKeeps
<1>2. /\ Phase' = [Phase EXCEPT ![p] = AbsPhase(p)']
      /\ Want' = [Want EXCEPT ![p] = AbsWant(p)']
    BY OthersKeep DEF TypeOK
<1>3. AbsPhase(p)' = AbsPhase(p) /\ AbsWant(p)' = AbsWant(p)
    BY CallFields DEF TypeOK, Control, Writes, ResultLate, AbsPhase, AbsWant
<1> QED
    BY <1>1, <1>2, <1>3, AbsStutter

LEMMA CreateFailsSimulates ==
    ASSUME RInv, NEW p \in Proc, CreateFails(p)
    PROVE  Abs!Next
<1> USE DEF RInv, IInv, CreateFails, Goto, fs, history
<1>1. Store' = Store /\ overtaken' = overtaken
    BY StoreKeeps
<1>2. /\ Phase' = [Phase EXCEPT ![p] = AbsPhase(p)']
      /\ Want' = [Want EXCEPT ![p] = AbsWant(p)']
    BY OthersKeep DEF TypeOK
<1>3. /\ AbsPhase(p) = "pending" /\ AbsPhase(p)' = "failed"
      /\ AbsWant(p)' = AbsWant(p)
    BY DEF TypeOK, Control, Writes, ResultLate, AbsPhase, AbsWant
<1> QED
    BY <1>1, <1>2, <1>3, AbsGiveUp

LEMMA WriteFailsSimulates ==
    ASSUME RInv, NEW p \in Proc, WriteFails(p)
    PROVE  Abs!Next
<1> USE DEF RInv, IInv, WriteFails, Goto, fs, history
<1>1. Store' = Store /\ overtaken' = overtaken
    BY StoreKeeps
<1>2. /\ Phase' = [Phase EXCEPT ![p] = AbsPhase(p)']
      /\ Want' = [Want EXCEPT ![p] = AbsWant(p)']
    BY OthersKeep DEF TypeOK
<1>3. /\ AbsPhase(p) = "pending" /\ AbsPhase(p)' = "failed"
      /\ AbsWant(p)' = AbsWant(p)
    BY DEF TypeOK, Control, Writes, ResultLate, AbsPhase, AbsWant
<1> QED
    BY <1>1, <1>2, <1>3, AbsGiveUp

LEMMA RejectSimulates ==
    ASSUME RInv, NEW p \in Proc, Reject(p)
    PROVE  Abs!Next \/ UNCHANGED Abs!vars
<1> USE DEF RInv, IInv, Reject, Goto, fs, history
<1>1. Store' = Store /\ overtaken' = overtaken
    BY StoreKeeps
<1>2. /\ Phase' = [Phase EXCEPT ![p] = AbsPhase(p)']
      /\ Want' = [Want EXCEPT ![p] = AbsWant(p)']
    BY OthersKeep DEF TypeOK
<1>3. \/ AbsPhase(p) = "pending" /\ AbsPhase(p)' = "failed"
      \/ AbsPhase(p)' = AbsPhase(p)
    BY DEF TypeOK, Control, Writes, ResultLate, AbsPhase
<1>4. AbsWant(p)' = AbsWant(p)
    BY DEF TypeOK, AbsWant
<1> QED
    BY <1>1, <1>2, <1>3, <1>4, AbsGiveUp, AbsStutter

LEMMA OpenRSimulates ==
    ASSUME RInv, NEW p \in Proc, OpenR(p)
    PROVE  Abs!Next \/ UNCHANGED Abs!vars
<1> USE DEF RInv, IInv, OpenR, Goto, fs, history
<1>1. Store' = Store /\ overtaken' = overtaken
    BY StoreKeeps
<1>2. /\ Phase' = [Phase EXCEPT ![p] = AbsPhase(p)']
      /\ Want' = [Want EXCEPT ![p] = AbsWant(p)']
    BY OthersKeep DEF TypeOK
<1>3. \/ AbsPhase(p) = "pending" /\ AbsPhase(p)' = "failed"
      \/ AbsPhase(p)' = AbsPhase(p)
    BY DEF TypeOK, Control, Writes, ResultLate, AbsPhase
<1>4. AbsWant(p)' = AbsWant(p)
    BY DEF TypeOK, AbsWant
<1> QED
    BY <1>1, <1>2, <1>3, <1>4, AbsGiveUp, AbsStutter

LEMMA OpenExistingSimulates ==
    ASSUME RInv, NEW p \in Proc, OpenExisting(p)
    PROVE  Abs!Next \/ UNCHANGED Abs!vars
<1> USE DEF RInv, IInv, OpenExisting, Goto, fs, history
<1>1. Store' = Store /\ overtaken' = overtaken
    BY StoreKeeps
<1>2. /\ Phase' = [Phase EXCEPT ![p] = AbsPhase(p)']
      /\ Want' = [Want EXCEPT ![p] = AbsWant(p)']
    BY OthersKeep DEF TypeOK
<1>3. \/ AbsPhase(p) = "pending" /\ AbsPhase(p)' = "failed"
      \/ AbsPhase(p)' = AbsPhase(p)
    BY DEF TypeOK, Control, Writes, ResultLate, AbsPhase
<1>4. AbsWant(p)' = AbsWant(p)
    BY DEF TypeOK, AbsWant
<1> QED
    BY <1>1, <1>2, <1>3, <1>4, AbsGiveUp, AbsStutter

LEMMA LeaveSimulates ==
    ASSUME RInv, NEW p \in Proc, pc[p] # "idle", Leave(p)
    PROVE  Abs!Next \/ UNCHANGED Abs!vars
<1> USE DEF RInv, IInv, Leave, Goto, fs
<1>1. Store' = Store
    BY StoreKeeps
<1>2. /\ Phase' = [Phase EXCEPT ![p] = AbsPhase(p)']
      /\ Want' = [Want EXCEPT ![p] = AbsWant(p)']
    BY OthersKeep DEF TypeOK
<1>3. AbsPhase(p)' = "idle" /\ AbsWant(p)' = NoCall
    BY DEF TypeOK, AbsPhase, AbsWant, NoCall, Writes
<1>4. CASE call[p].op \in {"set", "append", "del"}
  <2>1. AbsPhase(p) # "idle"
    BY <1>4 DEF AbsPhase
  <2> QED
    BY <1>1, <1>2, <1>3, <2>1, AbsFinish
<1>5. CASE call[p].op \notin {"set", "append", "del"}
  <2>1. AbsPhase(p) = "idle" /\ AbsWant(p) = NoCall
    BY <1>5 DEF AbsPhase, AbsWant, Writes
  <2>2. overtaken' = overtaken
    BY <1>5 DEF TypeOK, OvertakenWrites
  <2> QED
    BY <1>1, <1>2, <1>3, <2>1, <2>2, AbsStutter
<1> QED
    BY <1>4, <1>5

LEMMA SyncSimulates ==
    ASSUME RInv, NEW p \in Proc, Sync(p)
    PROVE  Abs!Next \/ UNCHANGED Abs!vars
<1>1. CASE Die(p)
    BY <1>1, LeaveSimulates DEF Die, Sync
<1>2. CASE ~Die(p)
  <2> USE <1>2 DEF RInv, IInv, Sync, Goto, fs, history
  <2>1. Store' = Store /\ overtaken' = overtaken
    BY StoreKeeps
  <2>2. /\ Phase' = [Phase EXCEPT ![p] = AbsPhase(p)']
        /\ Want' = [Want EXCEPT ![p] = AbsWant(p)']
    BY OthersKeep DEF TypeOK
  <2>3. AbsPhase(p)' = AbsPhase(p) /\ AbsWant(p)' = AbsWant(p)
    BY DEF TypeOK, Control, Writes, AbsPhase, AbsWant
  <2> QED
    BY <2>1, <2>2, <2>3, AbsStutter
<1> QED
    BY <1>1, <1>2

LEMMA CallSimulates ==
    ASSUME RInv, NEW p \in Proc, Call(p)
    PROVE  Abs!Next \/ UNCHANGED Abs!vars
<1> USE DEF RInv, IInv, Call, Goto, fs
<1>1. PICK c \in Calls : /\ call' = [call EXCEPT ![p] = c]
                        /\ pc' = [pc EXCEPT ![p] = FirstStep(c.op)]
    OBVIOUS
<1>2. Store' = Store
    BY StoreKeeps
<1>3. /\ Phase' = [Phase EXCEPT ![p] = AbsPhase(p)']
      /\ Want' = [Want EXCEPT ![p] = AbsWant(p)']
    BY OthersKeep, <1>1 DEF TypeOK
<1>4. call[p] = NoCall
    BY DEF TypeOK, Control
<1>5. AbsPhase(p) = "idle" /\ AbsWant(p) = NoCall
    BY <1>4 DEF AbsPhase, AbsWant, NoCall, Writes
<1>6. call'[p] = c /\ pc'[p] = FirstStep(c.op)
    BY <1>1 DEF TypeOK
<1>7. CASE c.op \in {"set", "append", "del"}
  <2>1. AbsPhase(p)' = "pending"
    BY <1>6, <1>7, FirstSteps DEF AbsPhase, FirstStep, Writes
  <2>2. AbsWant(p)' \in Abs!Calls
    BY <1>6, <1>7, CallFields DEF AbsWant, Writes, Abs!Calls
  <2> QED
    BY <1>2, <1>3, <1>5, <2>1, <2>2, AbsBegin
<1>8. CASE c.op \notin {"set", "append", "del"}
  <2>1. AbsPhase(p)' = "idle" /\ AbsWant(p)' = NoCall
    BY <1>6, <1>8 DEF AbsPhase, AbsWant, Writes
  <2>2. overtaken' = overtaken
    BY <1>4 DEF TypeOK, OvertakenWrites, NoCall
  <2> QED
    BY <1>2, <1>3, <1>5, <2>1, <2>2, AbsStutter
<1> QED
    BY <1>7, <1>8

\* Removing the file of n empties n and nothing else.
LEMMA StoreWithout ==
    ASSUME IInv, NEW n \in Name, dentry' = [dentry EXCEPT ![n] = NoIno], val' = val
    PROVE  Store' = [Store EXCEPT ![n] = Missing]
BY DEF IInv, TypeOK, Store, Stored, Content

\* The calls Overtake marks are those the abstract store marks.
LEMMA OvertakeSame ==
    ASSUME IInv, NEW n \in Name
    PROVE  Overtake(n) = Abs!Overtake(n)
<1> SUFFICES ASSUME NEW q \in Proc
             PROVE  (call[q].op \in {"set", "append", "del"} /\ call[q].name = n)
                        <=> (AbsPhase(q) # "idle" /\ AbsWant(q).name = n)
    BY DEF Overtake, Abs!Overtake
<1>1. CASE call[q].op \in {"set", "append", "del"}
    BY <1>1 DEF AbsPhase, AbsWant, Writes
<1>2. CASE call[q].op \notin {"set", "append", "del"}
    BY <1>2 DEF AbsPhase
<1> QED
    BY <1>1, <1>2

LEMMA UnlinkSimulates ==
    ASSUME RInv, NEW p \in Proc, Unlink(p)
    PROVE  Abs!Next
<1> DEFINE n == call[p].name
<1> USE DEF RInv, IInv, Unlink, Goto
<1>1. call[p] \in Calls /\ call[p].op = "del" /\ n \in Name /\ ret[p] = -1
    BY CallFields DEF Control, ResultLate
<1>2. /\ Phase' = [Phase EXCEPT ![p] = AbsPhase(p)']
      /\ Want' = [Want EXCEPT ![p] = AbsWant(p)']
    BY OthersKeep DEF TypeOK
<1>3. AbsPhase(p) = "pending" /\ AbsWant(p)' = AbsWant(p)
    BY <1>1 DEF AbsPhase, AbsWant, Writes
<1>4. CASE dentry' = [dentry EXCEPT ![n] = NoIno] /\ ret' = [ret EXCEPT ![p] = 0]
                /\ overtaken' = Overtake(n)
  <2>1. Store' = [Store EXCEPT ![n] = Missing]
    BY <1>1, <1>4, StoreWithout
  <2>2. AbsPhase(p)' = "done"
    BY <1>1, <1>4 DEF TypeOK, AbsPhase, Writes
  <2>3. overtaken' = Abs!Overtake(n)
    BY <1>1, <1>4, OvertakeSame
  <2>4. AbsWant(p).op = "del" /\ AbsWant(p).name = n
    BY <1>1 DEF AbsWant, Writes
  <2>5. Abs!ApplyDel(p)
    BY <1>2, <1>3, <2>1, <2>2, <2>3, <2>4 DEF Abs!ApplyDel, Phase, Want, Store
  <2> QED
    BY <2>5 DEF Abs!Next
<1>5. CASE UNCHANGED <<dentry, overtaken, ret>>
  <2>1. Store' = Store
    BY <1>5, StoreKeeps
  <2>2. AbsPhase(p)' = "failed"
    BY <1>1, <1>5 DEF TypeOK, AbsPhase, Writes
  <2> QED
    BY <1>2, <1>3, <1>5, <2>1, <2>2, AbsGiveUp
<1> QED
    BY <1>4, <1>5

LEMMA RollbackSimulates ==
    ASSUME RInv, NEW p \in Proc, Rollback(p)
    PROVE  Abs!Next \/ UNCHANGED Abs!vars
<1> DEFINE n == call[p].name
<1> USE DEF RInv, IInv, Rollback, Goto
<1>1. call[p] \in Calls /\ call[p].op \in Writes /\ n \in Name /\ ret[p] = -1
    BY CallFields DEF Control, ResultLate
<1>2. /\ Phase' = [Phase EXCEPT ![p] = AbsPhase(p)']
      /\ Want' = [Want EXCEPT ![p] = AbsWant(p)']
    BY OthersKeep DEF TypeOK
<1>3. /\ AbsPhase(p) = "failed" /\ AbsPhase(p)' = "failed"
      /\ AbsWant(p)' = AbsWant(p)
    BY <1>1 DEF TypeOK, AbsPhase, AbsWant, Writes
<1>4. CASE dentry' = [dentry EXCEPT ![n] = NoIno] /\ overtaken' = Overtake(n)
  <2>1. Store' = [Store EXCEPT ![n] = Missing]
    BY <1>1, <1>4, StoreWithout
  <2>2. overtaken' = Abs!Overtake(n)
    BY <1>1, <1>4, OvertakeSame
  <2>3. AbsWant(p).op \in {"set", "append"} /\ AbsWant(p).name = n
    BY <1>1 DEF AbsWant, Writes
  <2>4. Phase' = Phase /\ Want' = Want
    BY <1>2, <1>3 DEF Phase, Want
  <2>5. Abs!Undo(p)
    BY <1>3, <2>1, <2>2, <2>3, <2>4 DEF Abs!Undo, Phase, Want, Store
  <2> QED
    BY <2>5 DEF Abs!Next
<1>5. CASE UNCHANGED <<dentry, overtaken>>
  <2>1. Store' = Store
    BY <1>5, StoreKeeps
  <2> QED
    BY <1>2, <1>3, <1>5, <2>1, AbsStutter
<1> QED
    BY <1>4, <1>5

LEMMA WriteSimulates ==
    ASSUME RInv, NEW p \in Proc, Write(p)
    PROVE  Abs!Next
<1> DEFINE n   == call[p].name
           i   == wfd[p]
           new == Written(Content(i), call[p].op, call[p].val)
<1> USE DEF RInv, IInv, Write, Goto
<1>1. /\ call[p] \in Calls /\ call[p].op \in Writes
      /\ n \in Name /\ ret[p] = -1
    BY CallFields DEF Control, ResultLate
<1>2. /\ Phase' = [Phase EXCEPT ![p] = AbsPhase(p)']
      /\ Want' = [Want EXCEPT ![p] = AbsWant(p)']
    BY OthersKeep DEF TypeOK
<1>3. /\ AbsPhase(p) = "pending" /\ AbsPhase(p)' = "done"
      /\ AbsWant(p)' = AbsWant(p)
    BY <1>1 DEF TypeOK, AbsPhase, AbsWant, Writes
<1>4. /\ AbsWant(p).op = call[p].op /\ AbsWant(p).name = n
      /\ AbsWant(p).val = call[p].val
    BY <1>1 DEF AbsWant, Writes
<1>5. CASE i # NoIno /\ dentry[n] = i
  <2>1. Store[n] = Content(i)
    BY <1>1, <1>5 DEF Store, Stored
  <2>2. Store' = [Store EXCEPT ![n] = new]
    <3>1. CASE new # Missing
      <4>1. val' = [val EXCEPT ![i] = new] /\ dentry' = dentry
        BY <3>1
      <4>2. new # Uncommitted
        <5>1. Content(i) \in Value \cup {Missing}
            BY <1>5 DEF TypeOK, Fd, Content
        <5>2. call[p].val \in Value
            BY <1>1, CallFields, PayloadAssumption
        <5> QED
            BY <5>1, <5>2, WrittenType, UncommittedAssumption
      <4> HIDE DEF new
      <4>3. ASSUME NEW m \in Name
            PROVE  Stored(m)' = IF m = n THEN new ELSE Stored(m)
        <5>1. CASE m = n
            BY <5>1, <4>1, <4>2, <1>5 DEF TypeOK, Fd, Stored, Content
        <5>2. CASE m # n
          <6>1. dentry[m] # i
            BY <5>2, <1>1, <1>5 DEF NoHardLinks
          <6>2. dentry[m] = NoIno \/ val'[dentry[m]] = val[dentry[m]]
            BY <6>1, <4>1 DEF TypeOK, Fd
          <6> QED
            BY <6>2, <4>1, <5>2 DEF Stored, Content
        <5> QED
            BY <5>1, <5>2
      <4> QED
        BY <4>3, <1>1 DEF Store
    <3>2. CASE new = Missing
        BY <3>2, <1>1, <1>5, StoreWithout
    <3> QED
        BY <3>1, <3>2
  <2>3. overtaken' = IF new = Missing THEN Abs!Overtake(n) ELSE overtaken
    BY <1>1, <1>5, OvertakeSame
  <2>4. Store'[n] = new /\ new = Written(Store[n], AbsWant(p).op, AbsWant(p).val)
    BY <2>1, <2>2, <1>1, <1>4 DEF Store
  <2> HIDE DEF new
  <2>5. Abs!ApplyWrite(p)
    BY ZenonT(20), <1>1, <1>2, <1>3, <1>4, <2>2, <2>3, <2>4
       DEF Abs!ApplyWrite, Abs!Written, Written, Writes, Phase, Want, Store
  <2> QED
    BY <2>5 DEF Abs!Next
<1>6. CASE ~(i # NoIno /\ dentry[n] = i)
  <2>1. i # NoIno
    BY DEF Control
  <2>2. overtaken[p] /\ overtaken' = overtaken
    BY <1>6, <2>1 DEF OrphanOvertaken
  <2>3. Store' = Store
    <3>1. dentry' = dentry /\ (val' = val \/ val' = [val EXCEPT ![i] = new])
        BY <1>6, <2>1
    <3>2. \A m \in Name : dentry[m] # i
        BY <1>6, <2>1 DEF HoldsOwn
    <3> HIDE DEF new
    <3>3. \A m \in Name : dentry[m] = NoIno \/ val'[dentry[m]] = val[dentry[m]]
        BY <3>1, <3>2 DEF TypeOK, Fd
    <3> QED
        BY <3>1, <3>3 DEF Store, Stored, Content
  <2>4. Abs!ApplyInvisibly(p)
    BY <1>1, <1>2, <1>3, <1>4, <2>2, <2>3
       DEF Abs!ApplyInvisibly, Writes, Phase, Want, Store
  <2> QED
    BY <2>4 DEF Abs!Next
<1> QED
    BY <1>5, <1>6

LEMMA NextSimulates ==
    ASSUME RInv, [Next]_vars
    PROVE  [Abs!Next]_Abs!vars
<1>1. ASSUME NEW p \in Proc, Call(p) \/ Step(p) \/ Kill(p)
      PROVE  Abs!Next \/ UNCHANGED Abs!vars
  <2>1. CASE Call(p)
    BY <2>1, CallSimulates
  <2>2. CASE Kill(p)
    BY <2>2, LeaveSimulates DEF Kill, Die
  <2>3. CASE Return(p)
    BY <2>3, LeaveSimulates DEF Return
  <2>4. CASE Step(p) /\ ~Return(p)
    BY <2>4, OpenRSimulates, OpenExistingSimulates, CreateSimulates,
       CreateFailsSimulates, GetFlagsSimulates, ClearFlagsSimulates,
       WriteSimulates, WriteFailsSimulates, SyncSimulates, RollbackSimulates,
       RestoreSimulates, OpenDSimulates, UnlinkSimulates, ChmodSimulates,
       OpenGSimulates, ReadAttrsSimulates, ReadDataSimulates,
       ReadFailsSimulates, AgainSimulates, StatSimulates, RejectSimulates
       DEF Step, OpenW
  <2> QED
    BY <1>1, <2>1, <2>2, <2>3, <2>4
<1>2. CASE UNCHANGED vars
    BY <1>2 DEF vars, fs, local, history, Abs!vars, Stored, Content, AbsPhase,
       AbsWant
<1> QED
    BY <1>1, <1>2 DEF Next

LEMMA InitSimulates == Init => Abs!Init
<1> SUFFICES ASSUME Init PROVE Abs!Init
    OBVIOUS
<1>1. \A n \in Name : Stored(n) \in Payload \cup {Missing}
    BY DEF Init, Stored, Content
<1>2. \A p \in Proc : AbsPhase(p) = "idle" /\ AbsWant(p) = Abs!NoCall
    BY DEF Init, AbsPhase, AbsWant, Writes, NoCall, Abs!NoCall
<1>3. overtaken = [p \in Proc |-> FALSE]
    BY DEF Init
<1> QED
    BY <1>1, <1>2, <1>3 DEF Abs!Init

-----------------------------------------------------------------------------

\* The efivarfs backend implements the abstract store: for any number of
\* concurrent processes, every set, append and delete changes the stored
\* variables at one instant or not at all, except that a failed one may
\* remove its variable (efivarfs.c:601).
THEOREM Implements == Spec => Atomic
<1>1. Init => RInv /\ Abs!Init
    BY RInvInit, InitSimulates
<1>2. RInv /\ [Next]_vars => RInv' /\ [Abs!Next]_Abs!vars
    BY RInvNext, NextSimulates
<1> QED
    BY <1>1, <1>2, PTL DEF Spec, Atomic, Abs!Spec

-----------------------------------------------------------------------------
(***************************************************************************)
(* The inductive invariant.  A read is exact because its descriptor stays  *)
(* the file of the variable: a file is never replaced by another one       *)
(* without the variable being missing in between, which seen records.      *)
(***************************************************************************)

Reading(p) == call[p].op \in {"get", "size"}

\* What read_file has so far is the beginning of the data.
Begins(s, t) == Len(s) <= Len(t) /\ \A k \in 1 .. Len(s) : s[k] = t[k]

\* The read of p when its variable has had no value but v.
Quiet(p, v) ==
    /\ pc[p] \in {"readattrs", "readdata", "yield"} => rfd[p] = dentry[call[p].name]
    /\ pc[p] \in {"readdata", "yield"} =>
           got[p].attrs = v.attrs /\ Begins(got[p].data, v.data)
    /\ GetDone(p) => got[p] = v
    /\ SizeDone(p) => got[p].size = Len(v.data)

ReadAt(p) ==
    /\ Reading(p) => CurrentValue(p) \in seen[p]
    /\ ~Reading(p) => seen[p] = {}
    /\ pc[p] \notin {"readdata", "yield", "ret"} => got[p] = NoRead
    /\ pc[p] = "idle" \/ (Reading(p) /\ pc[p] # "ret") => ret[p] = -1
    /\ \A v \in seen[p] \ {Missing} : seen[p] = {v} => Quiet(p, v)

\* No file holds more than the firmware stores.
Lengths == \A i \in Ino : val[i] # Uncommitted => Len(val[i].data) <= MaxLen

ReadInv ==
    /\ IInv
    /\ Lengths
    /\ \A p \in Proc : ReadAt(p)

-----------------------------------------------------------------------------
(* Facts about sequences and sizes                                         *)

\* A beginning as long as the whole is the whole.
LEMMA WholeBeginning ==
    ASSUME NEW S, NEW s \in Seq(S), NEW t \in Seq(S), Begins(s, t), Len(s) = Len(t)
    PROVE  s = t
BY SeqEqual DEF Begins

LEMMA SmallMod ==
    ASSUME NEW a \in Nat, NEW m \in Nat, a < m
    PROVE  a % m = a
OBVIOUS

-----------------------------------------------------------------------------
(* What a step of q does to the reads of the others                        *)

Frame(q) ==
    /\ \A p \in Proc \ {q} :
        /\ call'[p] = call[p] /\ pc'[p] = pc[p] /\ rfd'[p] = rfd[p]
        /\ got'[p] = got[p] /\ ret'[p] = ret[p]
    /\ \A n \in Name : dentry'[n] = dentry[n] \/ NoIno \in {dentry[n], dentry'[n]}
    /\ Lengths'

\* Most steps touch no content.
LEMMA SameContent == ASSUME Lengths, val' = val PROVE Lengths'
BY DEF Lengths

LEMMA StepFrame ==
    ASSUME ReadInv, NEW q \in Proc, Call(q) \/ Step(q) \/ Kill(q)
    PROVE  Frame(q)
<1> USE DEF ReadInv, IInv, TypeOK, Goto, fs, history
<1>1. CASE Call(q)
    BY <1>1, SameContent DEF Call, Frame
<1>2. CASE Return(q) \/ Kill(q)
    BY <1>2, SameContent DEF Return, Kill, Die, Leave, Frame
<1>3. CASE OpenR(q) \/ OpenExisting(q) \/ CreateFails(q)
    BY <1>3, SameContent DEF OpenR, OpenExisting, CreateFails, Frame
<1>4. CASE Create(q)
  <2>1. Lengths'
    BY <1>4 DEF Create, Lengths, Free
  <2> QED
    BY <1>4, <2>1 DEF Create, Frame
<1>5. CASE GetFlags(q) \/ ClearFlags(q)
    BY <1>5, SameContent DEF GetFlags, ClearFlags, DoneWithFlags, Frame
<1>6. CASE Write(q)
  <2>1. Lengths'
    BY <1>6 DEF Write, Lengths
  <2> QED
    BY <1>6, <2>1 DEF Write, Frame
<1>7. CASE WriteFails(q) \/ Reject(q)
    BY <1>7, SameContent DEF WriteFails, Reject, Frame
<1>8. CASE Sync(q)
    BY <1>8, SameContent DEF Sync, Die, Leave, Frame
<1>9. CASE Rollback(q) \/ Restore(q)
    BY <1>9, SameContent DEF Rollback, Restore, Frame
<1>10. CASE OpenD(q) \/ Unlink(q) \/ Chmod(q)
    BY <1>10, SameContent DEF OpenD, Unlink, Chmod, Frame
<1>11. CASE OpenG(q) \/ ReadAttrs(q) \/ ReadData(q) \/ ReadFails(q)
             \/ Again(q)
    BY <1>11, SameContent DEF OpenG, ReadAttrs, ReadData, ReadFails, Again, Frame
<1>12. CASE Stat(q)
    BY <1>12, SameContent DEF Stat, Frame
<1> QED
    BY <1>1, <1>2, <1>3, <1>4, <1>5, <1>6, <1>7, <1>8, <1>9, <1>10, <1>11, <1>12
    DEF Step, OpenW

\* A read that sees one value only, and that one not missing, has had the
\* same file behind the name all the time.
LEMMA Bystander ==
    ASSUME ReadInv, NEW q \in Proc, Frame(q), NEW p \in Proc, p # q, seen'[p] = Watch(p)
    PROVE  ReadAt(p)'
<1> DEFINE n == call[p].name
<1>0. /\ call'[p] = call[p] /\ pc'[p] = pc[p] /\ rfd'[p] = rfd[p]
      /\ got'[p] = got[p] /\ ret'[p] = ret[p] /\ ReadAt(p)
    BY DEF Frame, ReadInv
<1>1. CASE ~Reading(p)
    BY <1>0, <1>1 DEF ReadAt, Reading, Watch
<1>2. CASE Reading(p)
  <2>1. /\ seen'[p] = seen[p] \cup {CurrentValue(p)'}
        /\ CurrentValue(p) \in seen[p]
    BY <1>0, <1>2 DEF ReadAt, Reading, Watch
  <2>2. ASSUME NEW v \in seen'[p] \ {Missing}, seen'[p] = {v} PROVE Quiet(p, v)'
    <3>1. seen[p] = {v} /\ CurrentValue(p) = v /\ CurrentValue(p)' = v
      BY <2>1, <2>2
    <3>2. n \in Name
      BY <1>2, CallFields DEF ReadInv, IInv, TypeOK, Reading, NoCall
    <3>3. dentry'[n] = dentry[n]
      BY <1>0, <2>2, <3>1, <3>2 DEF Frame, CurrentValue, Stored, Content
    <3> QED
      BY <1>0, <2>2, <3>1, <3>3 DEF ReadAt, Quiet, GetDone, SizeDone
  <2> QED
    BY <1>0, <1>2, <2>1, <2>2 DEF ReadAt, Reading
<1> QED
    BY <1>1, <1>2

-----------------------------------------------------------------------------
(* What a process does to its own read                                     *)

\* A step of a call that is no read.
LEMMA NoReadStep ==
    ASSUME ReadInv, NEW p \in Proc, call'[p] = call[p], ~Reading(p), got'[p] = got[p],
           pc[p] \notin {"readdata", "yield", "ret"}, pc'[p] # "idle", seen'[p] = Watch(p)
    PROVE  ReadAt(p)'
BY DEF ReadInv, ReadAt, Reading, Watch

\* A step of a read, which changes no file.
LEMMA ReadStep ==
    ASSUME ReadInv, NEW p \in Proc, call'[p] = call[p], Reading(p), UNCHANGED fs,
           pc'[p] \notin {"readdata", "yield", "ret"} => got'[p] = NoRead,
           pc'[p] # "ret" => ret'[p] = -1,
           pc'[p] # "idle",
           \A v \in seen[p] \ {Missing} :
               seen[p] = {v} /\ CurrentValue(p) = v => Quiet(p, v)',
           seen'[p] = Watch(p)
    PROVE  ReadAt(p)'
<1>1. CurrentValue(p)' = CurrentValue(p) /\ CurrentValue(p) \in seen[p]
    BY DEF fs, CurrentValue, Stored, Content, ReadInv, ReadAt
<1>2. seen'[p] = seen[p]
    BY <1>1 DEF Watch, Reading
<1>3. \A v \in seen[p] \ {Missing} : seen[p] = {v} => CurrentValue(p) = v
    BY <1>1
<1> QED
    BY <1>1, <1>2, <1>3 DEF ReadAt, Reading

\* Between calls a process watches nothing.
LEMMA LeaveOwn ==
    ASSUME ReadInv, NEW p \in Proc, Leave(p), seen'[p] = Watch(p)
    PROVE  ReadAt(p)'
<1>1. call'[p].op = "none" /\ got'[p] = NoRead /\ ret'[p] = -1
    BY DEF Leave, ReadInv, IInv, TypeOK, NoCall
<1> QED
    BY <1>1 DEF Watch, ReadAt, Reading

LEMMA CallOwn ==
    ASSUME ReadInv, NEW p \in Proc, Call(p), seen'[p] = Watch(p)
    PROVE  ReadAt(p)'
<1>0. /\ pc[p] = "idle" /\ ret' = ret /\ got' = got
      /\ \E c \in Calls : call' = [call EXCEPT ![p] = c] /\ pc' = [pc EXCEPT ![p] = FirstStep(c.op)]
    BY DEF Call, Goto
<1>1. /\ pc'[p] \notin {"idle", "readattrs", "readdata", "yield", "ret"}
      /\ ret'[p] = -1 /\ got'[p] = NoRead /\ seen[p] = {}
    BY <1>0, FirstSteps, NoCallIsNoCall
    DEF ReadInv, IInv, TypeOK, Control, ReadAt, Reading, NoCall
<1>2. seen'[p] = IF Reading(p)' THEN {CurrentValue(p)'} ELSE {}
    BY <1>1 DEF Watch, Reading
<1> QED
    BY <1>1, <1>2 DEF ReadAt, Quiet, GetDone, SizeDone

LEMMA RejectOwn ==
    ASSUME ReadInv, NEW p \in Proc, Reject(p), seen'[p] = Watch(p)
    PROVE  ReadAt(p)'
<1> USE DEF ReadInv, IInv, TypeOK
<1>1. /\ call'[p] = call[p] /\ got'[p] = got[p] /\ ret'[p] = ret[p] /\ UNCHANGED fs
      /\ pc[p] \notin {"idle", "readdata", "yield", "ret"} /\ pc'[p] = "ret"
    BY DEF Reject, Goto
<1>2. CASE ~Reading(p)
    BY <1>1, <1>2, NoReadStep
<1>3. CASE Reading(p)
  <2>1. ret'[p] # 0
    BY <1>1, <1>3 DEF ReadAt
  <2>2. \A v : Quiet(p, v)'
    BY <1>1, <2>1 DEF Quiet, GetDone, SizeDone
  <2> QED
    BY <1>1, <1>3, <2>2, ReadStep
<1> QED
    BY <1>2, <1>3

LEMMA OpenGOwn ==
    ASSUME ReadInv, NEW p \in Proc, OpenG(p), seen'[p] = Watch(p)
    PROVE  ReadAt(p)'
<1> USE DEF ReadInv, IInv, TypeOK
<1>1. /\ call'[p] = call[p] /\ got'[p] = got[p] /\ ret'[p] = ret[p] /\ UNCHANGED fs
      /\ pc[p] = "openG" /\ pc'[p] \in {"readattrs", "ret"}
      /\ pc'[p] = "readattrs" => rfd'[p] = dentry[call[p].name]
    BY DEF OpenG, Goto
<1>2. Reading(p) /\ ret[p] = -1 /\ got[p] = NoRead /\ ret[p] # 0
    BY <1>1 DEF Control, Reading, ReadAt
<1>3. \A v : Quiet(p, v)'
    BY <1>1, <1>2 DEF Quiet, GetDone, SizeDone, fs
<1> QED
    BY <1>1, <1>2, <1>3, ReadStep

LEMMA ReadFailsOwn ==
    ASSUME ReadInv, NEW p \in Proc, ReadFails(p), seen'[p] = Watch(p)
    PROVE  ReadAt(p)'
<1> USE DEF ReadInv, IInv, TypeOK
<1>1. /\ call'[p] = call[p] /\ got'[p] = got[p] /\ ret'[p] = ret[p] /\ UNCHANGED fs
      /\ pc[p] \in {"readattrs", "readdata"} /\ pc'[p] = "ret"
    BY DEF ReadFails, Goto
<1>2. Reading(p) /\ ret[p] # 0
    BY <1>1 DEF Control, Reading, ReadAt
<1>3. \A v : Quiet(p, v)'
    BY <1>1, <1>2 DEF Quiet, GetDone, SizeDone
<1> QED
    BY <1>1, <1>2, <1>3, ReadStep

LEMMA AgainOwn ==
    ASSUME ReadInv, NEW p \in Proc, Again(p), seen'[p] = Watch(p)
    PROVE  ReadAt(p)'
<1> USE DEF ReadInv, IInv, TypeOK
<1>1. /\ call'[p] = call[p] /\ rfd'[p] = rfd[p] /\ got'[p] = got[p]
      /\ ret'[p] = ret[p] /\ UNCHANGED fs
      /\ {pc[p], pc'[p]} \subseteq {"readdata", "yield"}
    BY DEF Again, Goto
<1>2. Reading(p) /\ ret[p] = -1
    BY <1>1 DEF Control, Reading, ReadAt
<1>3. ASSUME NEW v \in seen[p] \ {Missing}, seen[p] = {v} PROVE Quiet(p, v)'
    BY <1>1, <1>3 DEF ReadAt, Quiet, GetDone, SizeDone, fs
<1> QED
    BY <1>1, <1>2, <1>3, ReadStep

LEMMA ReadAttrsOwn ==
    ASSUME ReadInv, NEW p \in Proc, ReadAttrs(p), seen'[p] = Watch(p)
    PROVE  ReadAt(p)'
<1> USE DEF ReadInv, IInv, TypeOK
<1>1. /\ call'[p] = call[p] /\ rfd'[p] = rfd[p] /\ ret'[p] = ret[p] /\ UNCHANGED fs
      /\ pc[p] = "readattrs" /\ pc'[p] = "readdata"
    BY DEF ReadAttrs, Goto
<1>2. Reading(p) /\ ret[p] = -1 /\ got[p] = NoRead
    BY <1>1 DEF Control, Reading, ReadAt
<1>3. ASSUME NEW v \in seen[p] \ {Missing}, seen[p] = {v}, CurrentValue(p) = v
      PROVE  Quiet(p, v)'
  <2>1. rfd[p] = dentry[call[p].name] /\ Content(rfd[p]) = v
    BY <1>1, <1>3 DEF ReadAt, Quiet, CurrentValue, Stored
  <2>2. got' = [got EXCEPT ![p].attrs = v.attrs]
    BY <2>1, <1>3 DEF ReadAttrs
  <2>3. got'[p].attrs = v.attrs /\ got'[p].data = <<>>
    BY <1>2, <2>2 DEF NoRead
  <2>4. v \in Value
    BY <1>2, <1>3, <2>1, CallFields DEF Content, Reading, NoCall, Fd
  <2>5. Begins(<<>>, v.data)
    BY <2>4 DEF Begins, Value
  <2> QED
    BY <1>1, <2>1, <2>3, <2>5 DEF Quiet, GetDone, SizeDone, fs
<1> QED
    BY <1>1, <1>2, <1>3, ReadStep

LEMMA ReadDataOwn ==
    ASSUME ReadInv, NEW p \in Proc, ReadData(p), seen'[p] = Watch(p)
    PROVE  ReadAt(p)'
<1> USE DEF ReadInv, IInv, TypeOK
<1>1. /\ call'[p] = call[p] /\ rfd'[p] = rfd[p] /\ UNCHANGED fs
      /\ pc[p] = "readdata"
      /\ \/ pc'[p] = "readdata" /\ ret'[p] = ret[p]
         \/ pc'[p] = "ret"
    BY DEF ReadData, Goto
<1>2. Reading(p) /\ call[p].op = "get" /\ ret[p] = -1 /\ got[p] \in ReadBuf
    BY <1>1 DEF Control, Reading, ReadAt
<1>3. ASSUME NEW v \in seen[p] \ {Missing}, seen[p] = {v}, CurrentValue(p) = v
      PROVE  Quiet(p, v)'
  <2>1. /\ rfd[p] = dentry[call[p].name] /\ Content(rfd[p]) = v
        /\ got[p].attrs = v.attrs /\ Begins(got[p].data, v.data)
    BY <1>1, <1>3 DEF ReadAt, Quiet, CurrentValue, Stored
  <2>2. v \in Value
    BY <1>2, <1>3, <2>1, CallFields DEF Content, Reading, NoCall, Fd
  <2>3. /\ got[p].data \in Seq(Bytes) /\ v.data \in Seq(Bytes)
        /\ Len(got[p].data) \in Nat /\ Len(v.data) \in Nat
    BY <1>2, <2>2 DEF ReadBuf, Value
  <2>4. CASE Len(got[p].data) < Len(v.data)
    <3>1. /\ got' = [got EXCEPT ![p].data = Append(@, v.data[Len(got[p].data) + 1])]
          /\ pc'[p] = "readdata"
      BY <1>1, <1>3, <2>1, <2>4 DEF ReadData
    <3>2. /\ got'[p].attrs = got[p].attrs
          /\ got'[p].data = Append(got[p].data, v.data[Len(got[p].data) + 1])
      BY <1>2, <3>1 DEF ReadBuf
    <3>3. Begins(Append(got[p].data, v.data[Len(got[p].data) + 1]), v.data)
      BY <2>1, <2>3, <2>4 DEF Begins
    <3> QED
      BY <1>1, <2>1, <3>1, <3>2, <3>3 DEF Quiet, GetDone, SizeDone, fs
  <2>5. CASE ~(Len(got[p].data) < Len(v.data))
    <3>1. got' = got /\ pc'[p] = "ret"
      BY <1>3, <2>1, <2>5 DEF ReadData, Goto
    <3>2. Len(got[p].data) = Len(v.data)
      BY <2>1, <2>3, <2>5 DEF Begins
    <3>3. got[p].data = v.data
      BY <2>1, <2>3, <3>2, WholeBeginning
    <3>4. got[p] = v
      BY <1>2, <2>1, <2>2, <3>3 DEF ReadBuf, Value
    <3> QED
      BY <1>1, <1>2, <3>1, <3>4 DEF Quiet, GetDone, SizeDone
  <2> QED
    BY <2>4, <2>5
<1> QED
    BY <1>1, <1>2, <1>3, ReadStep

LEMMA StatOwn ==
    ASSUME ReadInv, NEW p \in Proc, Stat(p), seen'[p] = Watch(p)
    PROVE  ReadAt(p)'
<1> USE DEF ReadInv, IInv, TypeOK
<1> DEFINE i == dentry[call[p].name]
<1>1. /\ call'[p] = call[p] /\ UNCHANGED fs /\ pc[p] = "stat" /\ pc'[p] = "ret"
    BY DEF Stat, Goto
<1>2. Reading(p) /\ call[p].op = "size" /\ ret[p] = -1
    BY <1>1 DEF Control, Reading, ReadAt
<1>3. ASSUME NEW v \in seen[p] \ {Missing}, seen[p] = {v}, CurrentValue(p) = v
      PROVE  Quiet(p, v)'
  <2>1. i # NoIno /\ val[i] = v /\ val[i] # Uncommitted
    BY <1>3 DEF CurrentValue, Stored, Content
  <2>2. i \in Ino
    BY <1>2, <2>1, CallFields DEF NoCall, Fd
  <2>3. Len(v.data) \in Nat /\ Len(v.data) <= MaxLen
    BY <2>1, <2>2 DEF Lengths, Value
  <2>4. (FileSize(i) - 4) % SizeMod = Len(v.data)
    <3>1. FileSize(i) - 4 = Len(v.data)
      BY <2>1, <2>3 DEF FileSize
    <3>2. Len(v.data) < SizeMod
      BY <2>3, MaxLenAssumption, SizeModAssumption
    <3> QED
      BY <2>3, <3>1, <3>2, SizeModAssumption, SmallMod
  <2>5. ret'[p] = 0 => got'[p].size = Len(v.data)
    BY <1>2, <2>4 DEF Stat
  <2> QED
    BY <1>1, <1>2, <2>5 DEF Quiet, GetDone, SizeDone
<1> QED
    BY <1>1, <1>2, <1>3, ReadStep

\* The steps of sets, appends, deletes and chmods.
LEMMA OtherOwn ==
    ASSUME ReadInv, NEW p \in Proc, seen'[p] = Watch(p),
           \/ OpenR(p) \/ OpenW(p) \/ GetFlags(p) \/ ClearFlags(p) \/ Write(p)
           \/ WriteFails(p) \/ Rollback(p) \/ Restore(p) \/ OpenD(p)
           \/ Unlink(p) \/ Chmod(p)
    PROVE  ReadAt(p)'
<1> USE DEF ReadInv, IInv, TypeOK, Goto
<1>1. pc[p] \in {"openR", "openW", "getflags", "clearflags", "write", "rollback",
                 "restore", "openD", "unlink", "chmod"}
    BY DEF OpenR, OpenW, OpenExisting, Create, CreateFails, GetFlags, ClearFlags, Write,
           WriteFails, Rollback, Restore, OpenD, Unlink, Chmod
<1>2. ~Reading(p) /\ pc[p] \notin {"readdata", "yield", "ret"}
    BY <1>1 DEF Control, Reading, Writes
<1>3. call' = call /\ got' = got
    BY DEF OpenR, OpenW, OpenExisting, Create, CreateFails, GetFlags, ClearFlags, Write,
           WriteFails, Rollback, Restore, OpenD, Unlink, Chmod
<1>4. pc'[p] # "idle"
  <2>1. CASE OpenR(p) \/ OpenW(p) \/ Write(p) \/ WriteFails(p) \/ Rollback(p) \/ Restore(p)
    BY <2>1 DEF OpenR, OpenW, OpenExisting, Create, CreateFails, Write, WriteFails,
                Rollback, Restore
  <2>2. CASE GetFlags(p) \/ ClearFlags(p)
    BY <2>2 DEF GetFlags, ClearFlags, DoneWithFlags, AfterFlags
  <2>3. CASE OpenD(p) \/ Unlink(p) \/ Chmod(p)
    BY <2>3 DEF OpenD, Unlink, Chmod
  <2> QED
    BY <2>1, <2>2, <2>3
<1> QED
    BY <1>2, <1>3, <1>4, NoReadStep

LEMMA SyncOwn ==
    ASSUME ReadInv, NEW p \in Proc, Sync(p), seen'[p] = Watch(p)
    PROVE  ReadAt(p)'
<1> USE DEF ReadInv, IInv, TypeOK
<1>1. CASE Die(p)
    BY <1>1, LeaveOwn DEF Die
<1>2. CASE Goto(p, IF call[p].op = "del" THEN "ret" ELSE "restore")
           /\ UNCHANGED <<call, got>>
  <2>1. ~Reading(p) /\ pc[p] \notin {"readdata", "yield", "ret"}
    BY DEF Sync, Control, Reading, Writes
  <2>2. pc'[p] # "idle"
    BY <1>2 DEF Goto
  <2> QED
    BY <1>2, <2>1, <2>2, NoReadStep
<1> QED
    BY <1>1, <1>2 DEF Sync

-----------------------------------------------------------------------------
(* The theorems                                                            *)

LEMMA ReadInitEstablishes == ReadInit => ReadInv
<1> SUFFICES ASSUME ReadInit PROVE ReadInv
    OBVIOUS
<1>1. IInv
    BY InitEstablishes DEF ReadInit
<1>2. Lengths
    BY DEF ReadInit, Init, Lengths
<1>3. \A p \in Proc : ReadAt(p)
    BY DEF ReadInit, Init, ReadAt, Reading, NoCall
<1> QED
    BY <1>1, <1>2, <1>3 DEF ReadInv

LEMMA ReadNextPreserves == ReadInv /\ [ReadNext]_readVars => ReadInv'
<1> SUFFICES ASSUME ReadInv, [ReadNext]_readVars PROVE ReadInv'
    OBVIOUS
<1>1. CASE ReadNext
  <2>1. PICK q \in Proc : Call(q) \/ Step(q) \/ Kill(q)
    BY <1>1 DEF ReadNext, Next
  <2>2. \A p \in Proc : seen'[p] = Watch(p)
    BY <1>1 DEF ReadNext
  <2>3. IInv'
    BY <1>1, NextPreserves DEF ReadNext, ReadInv
  <2>4. Frame(q)
    BY <2>1, StepFrame
  <2>5. ReadAt(q)'
    BY <2>1, <2>2, CallOwn, LeaveOwn, RejectOwn, OpenGOwn, ReadAttrsOwn, ReadDataOwn,
       ReadFailsOwn, AgainOwn, StatOwn, OtherOwn, SyncOwn DEF Step, Kill, Die, Return
  <2>6. \A p \in Proc : ReadAt(p)'
    BY <2>2, <2>4, <2>5, Bystander
  <2> QED
    BY <2>3, <2>4, <2>6 DEF Frame, ReadInv
<1>2. CASE UNCHANGED readVars
  <2> USE <1>2 DEF readVars, vars, fs, local, history
  <2>1. IInv'
    BY NextPreserves DEF ReadInv
  <2>2. Lengths'
    BY DEF ReadInv, Lengths
  <2>3. \A p \in Proc : ReadAt(p)'
    BY DEF ReadInv, ReadAt, Reading, Quiet, GetDone, SizeDone, CurrentValue, Stored, Content
  <2> QED
    BY <2>1, <2>2, <2>3 DEF ReadInv
<1> QED
    BY <1>1, <1>2

\* The invariant of reads holds in every reachable state.
THEOREM ReadInvariance == ReadSpec => []ReadInv
BY ReadInitEstablishes, ReadNextPreserves, PTL DEF ReadSpec

\* efivarfs_get_variable and efivarfs_get_variable_size return the value and
\* the size of a variable that keeps its value while they run, whatever other
\* processes do to other variables, to removed files and to the flags.
THEOREM QuietReadsExact == ReadSpec => []QuietReadExact
<1>1. ReadInv => QuietReadExact
    BY DEF ReadInv, ReadAt, Quiet, QuietReadExact
<1> QED
    BY <1>1, ReadInvariance, PTL
=============================================================================
