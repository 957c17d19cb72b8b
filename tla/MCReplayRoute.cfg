SPECIFICATION Spec
CONSTANTS
    path = path
    Null = Null
    Declared <- MCDeclared
    Numbers <- MCNumbers
    Paths = {path}
    Submitted <- MCSubmitted
INVARIANTS
    ResponseIsHonest
    NeverInternalError
\* The route answers one request and stops.
CHECK_DEADLOCK FALSE
