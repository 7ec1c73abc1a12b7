SPECIFICATION Spec
INVARIANTS
    BackgroundChildExits
CHECK_DEADLOCK FALSE
CONSTANTS
    p1 = p1
    p2 = p2
    p3 = p3
    p4 = p4
    Processes = {p1, p2, p3, p4}
    First = p1
    Lines <- SomeLines
    MaxLines = 1
    None = None
