SPECIFICATION Spec
CONSTANTS
    a1 = a1
    a2 = a2
    b1 = b1
    Attrs = {a1, a2}
    Bytes = {b1}
    Missing = Missing
    Proc = {p1, p2}
    Name = {n1}
    Alien = {x1}
    Payload <- MCPayload
    Mode = {m1}
    DefaultMode = m0
    MaxLen = 2
    KernelAbi = 64
    PointerAbi = 32
    Closed = Closed
    Ops = {"set", "append", "del", "chmod", "get", "size", "next"}
    Failing = {"alloc", "open", "read", "delvar", "newvar", "chmod", "opendir", "kill"}
SYMMETRY Symm
VIEW View
INVARIANTS TypeOK LossExplained SoloOutcome NextCovers
