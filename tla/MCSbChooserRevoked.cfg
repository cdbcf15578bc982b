CONSTANTS
    NumDirs = 2
    DirSecurity = 1
    Alignment = 2
    Word = 64
    Files <- MCFiles
    Menus <- RevokedMenus
    Damaged = Damaged
SPECIFICATION Spec
INVARIANT RevokedNotListed
CHECK_DEADLOCK FALSE
