SPECIFICATION Spec
CONSTANTS
    N = 3
    MaxPid = 4
    Eventi = {"filo"}
INVARIANTS SpazioDistruttoUnaVolta
