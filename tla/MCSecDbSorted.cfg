SPECIFICATION Spec
CONSTANTS
    Sigs <- Hashes
    Files <- HashFiles
    FlagSets <- AllSorted
    Settable = {"SORT_DESCENDING"}
    MaxSigs = 4
    MaxLists = 5
INVARIANTS TypeOK ListsRight
PROPERTY ActsAsSet
