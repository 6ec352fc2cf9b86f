SPECIFICATION Spec
CONSTANTS
    N = 2
    MaxPid = 3
    Eventi = {}
INVARIANTS NonDormeSulloZombie
