SPECIFICATION SpecEqua
CONSTANTS
    Posti = {p1, p2}
    Nessuno = Nessuno
    Depth = 2
    MaxPid = 2
    DriverPid = {1}
    Bersagli = {1}
    Eventi = {"esce", "interrompi", "segnale"}
INVARIANTS TypeOK MessaggioNonDorme
PROPERTIES ImplementaCassetta InvioTorna RicevutaSvegliata
CHECK_DEADLOCK FALSE
