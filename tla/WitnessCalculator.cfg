CONSTANTS
    MaxStatements = 2
    MaxParts = 2
    Limbs <- MCLimbs
    N32 <- MCN32
    Prime <- MCPrime
    Circuits <- MCCircuits
    Declared <- MCDeclared
    Asked <- MCAsked
    Statements <- MCStatements
    WitnessSize <- MCWitnessSize
    Witness <- MCWitness
    AssignedAfter <- MCAssignedAfter
SPECIFICATION Spec
INVARIANTS TypeOK StoredIsAsked OkIsOfTheRun LogsArePrinted ErrorsHaveCause
PROPERTY Termination
CHECK_DEADLOCK FALSE
