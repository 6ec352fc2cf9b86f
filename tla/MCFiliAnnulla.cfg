CONSTANTS
    a = a
    b = b
    c = c
    Fili = {a, b, c}
    Programmi <- Annullato
    Annullabili = {c}
    Unita = 0
    MaxDisturbi = 1
SPECIFICATION SpecEqua
PROPERTIES ChiamataTorna
CHECK_DEADLOCK FALSE
