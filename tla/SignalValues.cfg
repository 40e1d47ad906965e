CONSTANTS
    N8 = 2
    FieldElements = {0, 1, 3}
    I64Max = 1
    NoIndex = NoIndex
    Sections <- MCSections
    Files <- MCFiles
    Paths <- MCPaths
    SymbolLists <- MCSymbolLists

SPECIFICATION Spec

INVARIANTS
    TypeOK
    OkIsTheWitness
    WholeFileIsRead
    PanicInFieldSize
    ValuesAreWitness
    TreeHasSignals
