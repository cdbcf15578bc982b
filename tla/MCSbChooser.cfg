CONSTANTS
    NumDirs = 2
    DirSecurity = 1
    Alignment = 2
    Word = 64
    Files <- MCFiles
    Menus <- MCMenus
    Damaged = Damaged
SPECIFICATION Spec
INVARIANT ImageRight
INVARIANT VerdictRight
INVARIANT BestFirst
INVARIANT OptionsRight
PROPERTY Ends
CHECK_DEADLOCK FALSE
