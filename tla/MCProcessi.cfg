SPECIFICATION Spec
CONSTANTS
    N = 3
    MaxPid = 4
    Eventi = {"filo", "stacca", "dentro"}
INVARIANTS RaccoltaEsclusiva SpazioVivo
PROPERTIES PresaResa CodiceDelCapo FineAnnunciata
