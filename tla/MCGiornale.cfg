SPECIFICATION Spec
CONSTANTS
  A = A
  D = D
  Nessuno = Nessuno
  File = {A, D}
  Cartelle = {D}
  Dati = {1, 2}
  MaxSlot = 5
  Riserva = 3
  Maxlen = 12
  MaxSeq = 5
  MaxTagli = 1
  Gruppo <- UnGruppo
  VolumiIniziali <- Volumi
  Eventi = {"errore", "fsync", "taglio"}
CHECK_DEADLOCK FALSE
INVARIANTS VolumeCoerente SyncPromette
PROPERTY ImplementaVolume
