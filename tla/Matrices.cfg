CONSTANTS
    NaN = NaN
    None = None
    Huge <- MCHuge
    Apply <- MCApply
    Interpreters = {1, 2}
    Worlds <- MCWorlds
    Numbers <- MCNumbers
    Counts <- MCCounts
    Axes <- MCAxes
    Keys <- MCKeys
    Ways <- MCWays
    LineKeys <- MCLineKeys
    IndexLists <- MCIndexLists
SPECIFICATION Spec
INVARIANTS
    
    
    ForeignIsUntouched
CHECK_DEADLOCK FALSE
