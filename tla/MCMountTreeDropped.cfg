SPECIFICATION Spec
CONSTANTS
    Trees <- MCTrees
    Stem <- MCStem
    Fallback <- MCFallback
    FileName <- MCFileName
    NoName = ""
    Unreadable = Unreadable
INVARIANTS
    NoneDropped
CHECK_DEADLOCK FALSE
