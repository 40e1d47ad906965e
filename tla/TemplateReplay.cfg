CONSTANTS
    MainLength = 4
    ChildLength = 1
    Programs <- MCPrograms
    Templates <- MCTemplates
    MainInputs <- MCMainInputs
    MainOf <- MCMainOf
    MainArgs <- MCMainArgs
    Called <- MCCalled
    ParsedIn <- MCParsedIn
    InputNames <- MCInputNames
    Evaluate <- MCEvaluate
SPECIFICATION Spec
INVARIANTS TypeOK FramesMatchCalls
PROPERTIES BuildsCallTree Termination
CHECK_DEADLOCK FALSE
