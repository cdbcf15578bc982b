SPECIFICATION Spec
CONSTANTS
    a1 = a1
    b1 = b1
    b2 = b2
    Missing = Missing
    NoIno = NoIno
    Uncommitted = Uncommitted
    NoAttrs = NoAttrs
    SizeMod = 256
    AppendMode = m0
    Mode = {m1}
    Name = {n1}
    Bytes = {b1, b2}
    Proc = {p1, p2}
    Protected = {}
    Payload <- MCPayload
    Ino = {i1, i2, i3}
    MaxLen = 1
    Ops = {"set", "append", "del", "chmod", "get", "size"}
    Failing = {"alloc", "open", "fstat", "getflags", "write", "chmod", "exit", "kill", "read", "stat"}
    Attrs = {a1}
SYMMETRY Symm
VIEW View
PROPERTY Atomic
