\* A caller may be left outside with no device to call: the driver is dead, the
\* bound on the devices is reached.
SPECIFICATION Spec
CONSTANTS
  a = a
  b = b
  f = f
  s = s
  Nessuno = Nessuno
  Chiamanti = {a, b, f}
  Liberi = {f}
  Serventi = {s}
  Posti = {1}
  Operazioni <- Tre
  Giri = 2
  MaxOfferte = 1
  Eventi = {"espelle", "muore", "ucciso"}
INVARIANTS RispostaSua CasellaDiUno RichiestaNonDorme
PROPERTY ChiamanteTorna
CHECK_DEADLOCK FALSE
