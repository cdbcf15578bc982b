SPECIFICATION Spec
CONSTANTS
    Proc = {p1, p2}
    Blocks = 3
    MaxVer = 3
    Rt = {"none", "long", "ok"}
    EspPaths <- MCPaths
    Wheres <- MCWheres
    Failing = {"alloc", "get", "stat", "open", "skip", "read", "write", "close", "kill"}
SYMMETRY Symm
INVARIANTS TypeOK OneVersion SoloUpdate
CHECK_DEADLOCK FALSE
