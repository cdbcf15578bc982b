SPECIFICATION FairSpec
CONSTANTS
    a1 = a1
    b1 = b1
    b2 = b2
    Missing = Missing
    NoIno = NoIno
    Uncommitted = Uncommitted
    NoAttrs = NoAttrs
    SizeMod = 256
    AppendMode = m0
    Mode = {m1}
    Name = {n1}
    Bytes = {b1, b2}
    Proc = {p1, p2}
    Protected = {n1}
    Payload <- MCPayload1
    Ino = {i1, i2, i3}
    MaxLen = 1
    Ops = {"set", "del", "get", "size"}
    Failing = {"write", "read", "again"}
    Attrs = {a1}
VIEW View
PROPERTIES CallReturns ProtectionReturns
