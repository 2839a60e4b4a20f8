SPECIFICATION Spec
CONSTANTS
    Conns = {c1, c2}
CHECK_DEADLOCK FALSE
INVARIANTS
    RequestsAreDrained
