SPECIFICATION Spec
INVARIANTS
    CommandIsOver
    ProgramRedirected
CHECK_DEADLOCK FALSE
CONSTANTS
    p1 = p1
    p2 = p2
    p3 = p3
    p4 = p4
    Processes = {p1, p2, p3, p4}
    First = p1
    Lines <- SomeLines
    MaxLines = 2
    None = None
