CONSTANTS
    PipeCapacity <- MCPipeCapacity
    MaxLines <- MCMaxLines
SPECIFICATION Spec
INVARIANTS
    TypeOK
    OkMeansDone
    ErrorIsTold
PROPERTIES
    Answered
