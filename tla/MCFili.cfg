CONSTANTS
    a = a
    b = b
    c = c
    Fili = {a, b, c}
    Programmi <- TreProgrammi
    Annullabili = {}
    Unita = 0
    MaxDisturbi = 1
SPECIFICATION SpecEqua
INVARIANTS Esclusione SonnoGiusto FermaAscoltata
PROPERTIES ChiamataTorna
CHECK_DEADLOCK FALSE
