CONSTANTS
    T1 = T1
    T2 = T2
    T3 = T3
    File = File
    Templates = {T1, T2, T3}
    ComponentLists <- MCComponentLists
    Definitions <- MCDefinitions
SPECIFICATION Spec
INVARIANTS
    TypeOK
    EachOnce
    ReachableFirst
    ParentsFirst
    SiblingsInOrder
PROPERTIES
    EveryKnownCalled
    Termination
CHECK_DEADLOCK FALSE
