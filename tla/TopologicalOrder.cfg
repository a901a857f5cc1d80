CONSTANTS
    MaxNodes = 4
    MaxLabelled = 3
    Ids <- MCIds
    Links <- MCLinks
    Inputs <- MCInputs
SPECIFICATION SortSpec
INVARIANTS SortTypeOK OrderRespectsEdges VerdictIsRight CycleIsReal
PROPERTIES SmallestFirst SortReturns
