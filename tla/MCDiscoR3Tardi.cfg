SPECIFICATION Spec
CONSTANTS
  a = a
  b = b
  f = f
  s = s
  Nessuno = Nessuno
  Chiamanti = {a, b, f}
  Liberi = {f}
  Serventi = {s}
  Posti = {1}
  Operazioni <- Grezzo
  Giri = 2
  MaxOfferte = 1
  Eventi = {}
INVARIANT ScritturaSua
CHECK_DEADLOCK FALSE
