CONSTANTS
    main = main
    worker = worker
    Thread <- MCThread
    Main = main
    Menus <- MCMenus
    Errno <- MCErrno
    Level = {0, 1}
    Backlog = 1
    Pending = 1
    Faults = {"alloc", "syscall", "exit"}
SPECIFICATION Spec
INVARIANT TypeOK
INVARIANT LoadRight
INVARIANT ErrnoIsCause
INVARIANT TraceRight
INVARIANT LogExact
PROPERTY ErrorsSurvive
CHECK_DEADLOCK FALSE
