SPECIFICATION SpecEqua
CONSTANTS
    Cpu = {0, 1, 2}
    Parcheggiati = {}
    Libero = Libero
    Giro = 4
INVARIANTS TypeOK UnoNelKernel
PROPERTIES ImplementaSportello FilaServita
