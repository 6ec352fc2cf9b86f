SPECIFICATION SpecEqua
CONSTANTS
    Posti = {p1, p2}
    Nessuno = Nessuno
    Depth = 1
    MaxPid = 2
    DriverPid = {1}
    Bersagli = {1, 2}
    Eventi = {"esce", "interrompi"}
INVARIANTS TypeOK MessaggioNonDorme
PROPERTIES InvioTorna RicevutaSvegliata
CHECK_DEADLOCK FALSE
