SPECIFICATION Spec
CONSTANTS
  a1 = a1
  a2 = a2
  b = b
  A = A
  B = B
  Fili = {a1, a2, b}
  Programma <- DueProgrammi
  Primo = A
  Fa <- Mestieri
  Numeri = {3, 4}
  Tubi = {1}
  Dim = 2
  Chiede <- Pezzi
  Blocco = 1
  Elenchi = {{3}}
  Desideri = {{"IN", "OUT"}}
  MaxScritti = 2
  Eventi = {"memoria"}
INVARIANT InterrottoNonDorme
CHECK_DEADLOCK FALSE
