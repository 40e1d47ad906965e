CONSTANTS
    TemplateFragments = {"plain", "input a", "input b", "loop", "part", "bad", "said", "defines", "comments", "unbalanced", "opens", "closes"}
    FunctionFragments = {"plain", "loop", "bad", "said", "defines", "comments", "unbalanced", "opens", "closes"}
    Names = {"A", "B", "P", "Q", "f", "g"}
    Sources <- MCSources

SPECIFICATION Spec

INVARIANTS
    TypeOK
    DefinitionsSurvive
    
    ScannedAreDefined
    ParentsAreEnclosing
    MainAtFileScope

PROPERTY Termination
