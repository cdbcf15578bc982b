SPECIFICATION Spec
CONSTANTS
    short = short
    longer = longer
    wide = wide
    Missing = Missing
    None = None
    Chars <- MCChars
    Wide <- MCWide
    Attrs <- MCAttrs
    Bytes = {1, 2}
    Commands <- MCCommands
    Values <- MCValues
    InitialStores <- MCInitialStores
    InitialFiles <- MCInitialFiles
    MaxRuns = 2
    MaxOther = 1
CHECK_DEADLOCK FALSE
INVARIANTS ExportExact RestoreRight WalkComplete EditRight
