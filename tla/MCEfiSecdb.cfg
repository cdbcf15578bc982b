SPECIFICATION Spec
CONSTANTS
    Argvs <- MCArgvs
    Files <- MCFiles
    Unreadable <- MCUnreadable
INVARIANT OutputRight
PROPERTY NoClobber
