SPECIFICATION Spec
CONSTANTS
    Posti = {p1, p2, p3}
    Nessuno = Nessuno
    Depth = 1
    MaxPid = 4
    DriverPid = {1}
    Bersagli = {1}
    Eventi = {"esce", "filo", "nonparte", "raccolta"}
SYMMETRY Simmetria
INVARIANTS FilaGiusta RiservatiEsatti PromessiInTesta NessunoDimenticato PromessaNonDorme
PROPERTIES SorpassoLimitato
CHECK_DEADLOCK FALSE
