CONSTANTS
    NoFile = NoFile
    Versions <- MCVersions
    SizeOf <- MCSizeOf
    MainLine <- MCMainLine
    Known <- MCKnown
    Parsed <- MCParsed
    MaxEdits = 2
    MaxLogs = 1
    MaxBody = 3
    MaxDepth = 2

SPECIFICATION Spec

\* The process exits, so the system stops.
CHECK_DEADLOCK FALSE

INVARIANTS
    TypeOK
    FinishedIsBalanced
    RefusedOnlyIfGrown
    RefusalFailsRecording

PROPERTIES
    ErrorIsLast
    KeepsContract
    Termination
