CONSTANTS
    MaxIterations = 4
    Checks = {{}, {"o4"}}
    Programs <- MCPrograms
    Templates <- MCTemplates
    Source <- MCSource
    MainInputs <- MCMainInputs
    MainOf <- MCMainOf
    MainArgs <- MCMainArgs
    Called <- MCCalled
    ParsedIn <- SourceTemplates
    InputNames <- SourceInputs
    Evaluate <- SourceEvents
SPECIFICATION Spec
INVARIANT BooleansAreConstrained
CHECK_DEADLOCK FALSE
