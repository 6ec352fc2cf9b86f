SPECIFICATION Spec
CONSTANTS
    p1 = p1
    p2 = p2
    p3 = p3
    kbd = kbd
    mouse = mouse
    mio = mio
    Processi = {p1, p2, p3}
    Nessuno = Nessuno
    Nomi = {kbd, mouse, mio}
    Utente <- UtenteMC
    Prefisso <- PrefissoMC
    NomiMax = 2
INVARIANTS NomeDiUno NomeRipreso
PROPERTIES NomeTenuto ImplementaRegistro
CHECK_DEADLOCK FALSE
