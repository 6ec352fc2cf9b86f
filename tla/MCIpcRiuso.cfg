SPECIFICATION Spec
CONSTANTS
    Posti = {p1, p2}
    Nessuno = Nessuno
    Depth = 1
    MaxPid = 3
    DriverPid = {}
    Bersagli = {1, 2}
    Eventi = {"esce", "raccolta"}
SYMMETRY Simmetria
INVARIANTS MessaggioAlDestinatario
CHECK_DEADLOCK FALSE
