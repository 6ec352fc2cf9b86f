SPECIFICATION Spec
CONSTANTS
    Cpu = {0, 1, 2}
    Parcheggiati = {2}
    Libero = Libero
    Giro = 4
INVARIANTS UnoNelKernel
