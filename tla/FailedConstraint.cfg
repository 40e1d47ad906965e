CONSTANTS
    MaxStatements = 2
    MaxParts = 2
    Limbs <- MCLimbs
    N32 <- MCN32
    Prime <- MCPrime
    Circuits <- MCCircuits
    Declared <- MCDeclared
    Asked <- MCAsked
    Statements <- MCStatements
    WitnessSize <- MCWitnessSize
    Witness <- MCWitness
    AssignedAfter <- MCAssignedAfter
SPECIFICATION Spec
INVARIANT ConstraintFailureAborts
CHECK_DEADLOCK FALSE
