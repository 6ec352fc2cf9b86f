----------------------------- MODULE BklProofs -----------------------------
(***************************************************************************)
(* The kernel lock lets one processor at a time into the kernel, in the    *)
(* order of arrival, for every number of processors below the wrap of the  *)
(* tickets, provided every processor that is awake has been given its      *)
(* number.                                                                 *)
(***************************************************************************)
EXTENDS BklSportello, FiniteSetTheorems, TLAPS

\* How many tickets are called before ticket m.
Dist(m) == IF m >= turno THEN m - turno ELSE m + Giro - turno

\* Holding the lock, or between the two writes of bkl_lascia.
Tenenti == {c \in Cpu : c \in tiene \/ pc[c] = "lascia"}

\* Whoever has a ticket not yet passed.
Impegnati == {c \in Cpu : pc[c] = "fila" \/ c \in tiene \/ pc[c] = "lascia"}

\* Before the lock is switched on only the boot processor is in the kernel.
Spento ==
    ~lavora => /\ tiene = {} /\ turno = 0 /\ coda = 0
               /\ \A c \in Cpu : pc[c] \notin {"fila", "lascia", "rientra"}
               /\ \A c \in Cpu : pc[c] \in {"dentro", "prog"} => c = 0

\* Where a processor is and whether it holds the lock.
Luogo ==
    \A c \in Cpu :
        /\ lavora /\ pc[c] = "dentro" => c \in tiene
        /\ pc[c] \in {"fila", "lascia", "rientra", "prog"} => c \notin tiene
        /\ pc[c] = "fila" => poi[c] \in {"dentro", "gestore"}
        /\ pc[c] = "lascia" => poi[c] \in {"prog", "prima", "rientra"}

\* The tickets: those that wait have different ones, all given out and not yet
\* called; the one being called is the holder's; none is lost or given twice.
Numeri ==
    lavora =>
        /\ \A c, d \in Tenenti : c = d
        /\ \A c \in Cpu : pc[c] = "fila" =>
              /\ Dist(mio[c]) < Dist(coda)
              /\ Tenenti # {} => mio[c] # turno
        /\ \A c, d \in Cpu : pc[c] = "fila" /\ pc[d] = "fila" /\ mio[c] = mio[d] => c = d
        /\ Dist(coda) = Cardinality(Impegnati)

BInv == TypeOK /\ Spento /\ Luogo /\ Numeri

-----------------------------------------------------------------------------
(* Arithmetic of the tickets, and counting.                                *)

\* The wrap, without the modulus.
LEMMA DopoVale ==
    ASSUME NEW x \in 0..Giro - 1
    PROVE  /\ Dopo(x) = (IF x + 1 = Giro THEN 0 ELSE x + 1)
           /\ Dopo(x) \in 0..Giro - 1
  <1>1. Giro \in Nat \ {0}
    BY GiroAssumption
  <1>2. CASE x + 1 = Giro
    BY <1>1, <1>2 DEF Dopo
  <1>3. CASE x + 1 # Giro
    <2>1. x + 1 \in 0..Giro - 1
      BY <1>1, <1>3
    <2>2. (x + 1) % Giro = x + 1
      BY <1>1, <2>1
    <2> QED  BY <1>3, <2>1, <2>2 DEF Dopo
  <1> QED  BY <1>2, <1>3

\* A set of processors is finite and smaller than the wrap.
LEMMA Contati ==
    ASSUME NEW S \in SUBSET Cpu
    PROVE  IsFiniteSet(S) /\ Cardinality(S) \in Nat /\ Cardinality(S) < Giro
  <1>1. IsFiniteSet(S) /\ Cardinality(S) \in Nat /\ Cardinality(S) <= Cardinality(Cpu)
    BY CpuAssumption, FS_Subset, FS_CardinalityType
  <1>2. Cardinality(Cpu) \in Nat
    BY CpuAssumption, FS_CardinalityType
  <1> QED  BY <1>1, <1>2, GiroAssumption

-----------------------------------------------------------------------------
(* The kinds of step: what each does to the lock.                          *)

\* A step that leaves the tickets alone and moves processor c, which neither
\* waits nor leaves, to h.
Sposta(c, h) ==
    /\ UNCHANGED <<lavora, coda, turno, tiene, mio, poi>>
    /\ pc' = [pc EXCEPT ![c] = h]
    /\ pc[c] \in {"dentro", "gestore", "prima", "hlt", "prog", "rientra"}
    /\ \/ h \in {"gestore", "prima", "hlt"}
       \/ h = "dentro" /\ (lavora => c \in tiene) /\ (~lavora => c = 0)
       \/ h = "prog" /\ ~lavora /\ c = 0

\* Such a step keeps the invariant.
LEMMA SpostaInv ==
    ASSUME Spento, Luogo, Numeri, TypeOK, NEW c \in Cpu, NEW h, Sposta(c, h)
    PROVE  Spento' /\ Luogo' /\ Numeri'
  <1>1. \A x \in Cpu : pc'[x] = IF x = c THEN h ELSE pc[x]
    BY DEF Sposta, TypeOK
  <1>2. UNCHANGED <<lavora, coda, turno, tiene, mio, poi>>
    BY DEF Sposta
  <1>3. h \in {"gestore", "prima", "hlt", "dentro", "prog"}
    BY DEF Sposta
  <1>4. Spento'
    BY <1>1, <1>2, <1>3 DEF Spento, Sposta
  <1>5. Luogo'
    BY <1>1, <1>2, <1>3 DEF Luogo, Sposta, Spento
  <1>6. /\ \A x \in Cpu : (pc'[x] = "fila" <=> pc[x] = "fila")
        /\ \A x \in Cpu : (pc'[x] = "lascia" <=> pc[x] = "lascia")
    BY <1>1, <1>3 DEF Sposta
  <1>7. Tenenti' = Tenenti /\ Impegnati' = Impegnati
    BY <1>2, <1>6 DEF Tenenti, Impegnati
  <1>8. Numeri'
    BY <1>2, <1>6, <1>7 DEF Numeri, Dist
  <1> QED  BY <1>4, <1>5, <1>8

\* bkl_entra takes a ticket.
Numero(c, h) ==
    /\ lavora /\ c \notin tiene
    /\ pc[c] \in {"prog", "prima", "hlt", "rientra"} /\ h \in {"dentro", "gestore"}
    /\ mio' = [mio EXCEPT ![c] = coda]
    /\ coda' = Dopo(coda)
    /\ poi' = [poi EXCEPT ![c] = h]
    /\ pc' = [pc EXCEPT ![c] = "fila"]
    /\ UNCHANGED <<lavora, turno, tiene>>

\* A ticket just given is new, and the last to be called.
LEMMA NumeroInv ==
    ASSUME Spento, Luogo, Numeri, TypeOK, NEW c \in Cpu, NEW h, Numero(c, h)
    PROVE  Spento' /\ Luogo' /\ Numeri'
  <1>1. /\ \A x \in Cpu : pc'[x] = IF x = c THEN "fila" ELSE pc[x]
        /\ \A x \in Cpu : mio'[x] = IF x = c THEN coda ELSE mio[x]
        /\ \A x \in Cpu : poi'[x] = IF x = c THEN h ELSE poi[x]
    BY DEF Numero, TypeOK
  <1>2. /\ UNCHANGED <<lavora, turno, tiene>> /\ lavora /\ c \notin tiene
        /\ coda' = Dopo(coda)
        /\ pc[c] \in {"prog", "prima", "hlt", "rientra"} /\ h \in {"dentro", "gestore"}
    BY DEF Numero
  <1>3. Spento'
    BY <1>2 DEF Spento
  <1>4. Luogo'
    BY <1>1, <1>2 DEF Luogo
  <1>5. Tenenti' = Tenenti
    BY <1>1, <1>2 DEF Tenenti
  <1>6. Impegnati' = Impegnati \cup {c} /\ c \notin Impegnati
    BY <1>1, <1>2 DEF Impegnati
  <1>7. /\ Impegnati \in SUBSET Cpu /\ Impegnati' \in SUBSET Cpu
        /\ IsFiniteSet(Impegnati) /\ Cardinality(Impegnati) \in Nat
        /\ Cardinality(Impegnati \cup {c}) < Giro
    BY Contati DEF Impegnati
  <1>8. Cardinality(Impegnati') = Cardinality(Impegnati) + 1
    BY <1>6, <1>7, FS_AddElement
  <1>9. /\ coda \in 0..Giro - 1 /\ turno \in 0..Giro - 1 /\ Giro \in Nat
        /\ coda' = (IF coda + 1 = Giro THEN 0 ELSE coda + 1)
        /\ Dist(coda) + 1 < Giro
    BY <1>2, <1>6, <1>7, <1>8, DopoVale, GiroAssumption DEF TypeOK, Numeri
  <1>10. Dist(coda)' = Dist(coda) + 1
    BY <1>2, <1>9 DEF Dist
  <1>11. \A m \in 0..Giro - 1 : Dist(m)' = Dist(m) /\ Dist(m) \in Nat
    BY <1>2, <1>9 DEF Dist
  <1>12. \A x \in Cpu : pc[x] = "fila" => mio[x] \in 0..Giro - 1 /\ Dist(mio[x]) < Dist(coda)
    BY <1>2 DEF TypeOK, Numeri
  <1>13. Tenenti # {} => coda # turno
    <2>1. Tenenti # {} => Cardinality(Impegnati) # 0
      BY <1>7, FS_EmptySet DEF Tenenti, Impegnati
    <2> QED  BY <1>2, <1>9, <2>1 DEF Numeri, Dist
  <1>14. \A x \in Cpu : pc'[x] = "fila" =>
            /\ Dist(mio'[x]) < Dist(coda)'
            /\ Tenenti # {} => mio'[x] # turno
    BY <1>1, <1>2, <1>9, <1>10, <1>11, <1>12, <1>13 DEF Numeri
  <1>15. \A x, y \in Cpu : pc'[x] = "fila" /\ pc'[y] = "fila" /\ mio'[x] = mio'[y] => x = y
    <2>1. \A x \in Cpu : pc[x] = "fila" => mio[x] # coda
      BY <1>9, <1>11, <1>12
    <2> QED  BY <1>1, <1>2, <2>1 DEF Numeri
  <1>16. \A x \in Cpu : mio'[x] \in 0..Giro - 1
    BY <1>1, <1>9 DEF TypeOK
  <1>17. \A x \in Cpu : pc'[x] = "fila" => (Dist(mio[x]))' < (Dist(coda))'
    BY <1>14, <1>16, <1>2 DEF Dist
  <1>18. \A x, y \in Tenenti : x = y
    BY <1>2 DEF Numeri
  <1>19. Dist(coda)' = Cardinality(Impegnati')
    BY <1>2, <1>8, <1>10 DEF Numeri
  <1>20. Numeri'
    BY <1>2, <1>5, <1>14, <1>15, <1>17, <1>18, <1>19 DEF Numeri
  <1> QED  BY <1>3, <1>4, <1>20

\* The ticket of c is called only when nobody holds the lock.
LEMMA TurnoInv ==
    ASSUME Spento, Luogo, Numeri, TypeOK, Parcheggiati = {}, NEW c \in Cpu, Turno(c)
    PROVE  Spento' /\ Luogo' /\ Numeri'
  <1>1. lavora /\ pc[c] = "fila" /\ turno = mio[c]
    BY DEF Turno, Spento
  <1>2. /\ UNCHANGED <<lavora, coda, turno, mio, poi>>
        /\ tiene' = tiene \cup {c}
        /\ \A x \in Cpu : pc'[x] = IF x = c THEN poi[c] ELSE pc[x]
    BY <1>1 DEF Turno, cpu_n, TypeOK
  <1>3. poi[c] \in {"dentro", "gestore"} /\ c \notin tiene
    BY <1>1 DEF Luogo
  <1>4. Tenenti = {}
    BY <1>1 DEF Numeri
  <1>5. Tenenti' = {c}
    BY <1>2, <1>3, <1>4 DEF Tenenti
  <1>6. Impegnati' = Impegnati
    BY <1>1, <1>2, <1>3 DEF Impegnati
  <1>7. Spento'
    BY <1>1, <1>2 DEF Spento
  <1>8. Luogo'
    BY <1>2, <1>3 DEF Luogo
  <1>9. \A m : Dist(m)' = Dist(m)
    BY <1>2 DEF Dist
  <1>10. \A x \in Cpu : pc'[x] = "fila" => pc[x] = "fila" /\ x # c
    BY <1>2, <1>3
  <1>11. \A x \in Cpu : pc'[x] = "fila" => mio[x] # turno
    BY <1>1, <1>10 DEF Numeri
  <1>12. \A x \in Cpu : pc'[x] = "fila" => (Dist(mio[x]))' < (Dist(coda))'
    BY <1>1, <1>2, <1>10 DEF Numeri, Dist
  <1>13. Dist(coda)' = Cardinality(Impegnati')
    BY <1>1, <1>2, <1>6 DEF Numeri, Dist
  <1>14. \A x, y \in Cpu : pc'[x] = "fila" /\ pc'[y] = "fila" /\ mio'[x] = mio'[y] => x = y
    BY <1>1, <1>2, <1>10 DEF Numeri
  <1>15. Numeri'
    BY <1>2, <1>5, <1>11, <1>12, <1>13, <1>14 DEF Numeri
  <1> QED  BY <1>7, <1>8, <1>15

\* bkl_lascia gives up the lock, but not yet its ticket.
Cede(c, h) ==
    /\ lavora /\ c \in tiene /\ h \in {"prog", "prima", "rientra"}
    /\ pc[c] \in {"dentro", "gestore"}
    /\ tiene' = tiene \ {c}
    /\ poi' = [poi EXCEPT ![c] = h]
    /\ pc' = [pc EXCEPT ![c] = "lascia"]
    /\ UNCHANGED <<lavora, coda, turno, mio>>

\* The one that leaves still keeps the others out.
LEMMA CedeInv ==
    ASSUME Spento, Luogo, Numeri, TypeOK, NEW c \in Cpu, NEW h, Cede(c, h)
    PROVE  Spento' /\ Luogo' /\ Numeri'
  <1>1. /\ UNCHANGED <<lavora, coda, turno, mio>> /\ lavora /\ c \in tiene
        /\ tiene' = tiene \ {c} /\ h \in {"prog", "prima", "rientra"}
        /\ pc[c] \in {"dentro", "gestore"}
        /\ \A x \in Cpu : pc'[x] = IF x = c THEN "lascia" ELSE pc[x]
        /\ \A x \in Cpu : poi'[x] = IF x = c THEN h ELSE poi[x]
    BY DEF Cede, TypeOK
  <1>2. Spento'
    BY <1>1 DEF Spento
  <1>3. Luogo'
    BY <1>1 DEF Luogo
  <1>4. Tenenti' = Tenenti /\ Impegnati' = Impegnati
    BY <1>1 DEF Tenenti, Impegnati
  <1>5. \A x \in Cpu : pc'[x] = "fila" <=> pc[x] = "fila"
    BY <1>1
  <1>6. Numeri'
    BY <1>1, <1>4, <1>5 DEF Numeri, Dist
  <1> QED  BY <1>2, <1>3, <1>6

\* The next ticket is called: everybody in the line moves one place.
LEMMA LasciaTurnoInv ==
    ASSUME Spento, Luogo, Numeri, TypeOK, NEW c \in Cpu, LasciaTurno(c)
    PROVE  Spento' /\ Luogo' /\ Numeri'
  <1>1. lavora /\ pc[c] = "lascia" /\ c \notin tiene /\ poi[c] \in {"prog", "prima", "rientra"}
    BY DEF LasciaTurno, Spento, Luogo
  <1>2. /\ UNCHANGED <<lavora, coda, tiene, mio, poi>> /\ turno' = Dopo(turno)
        /\ \A x \in Cpu : pc'[x] = IF x = c THEN poi[c] ELSE pc[x]
    BY DEF LasciaTurno, TypeOK
  <1>3. Spento'
    BY <1>1, <1>2 DEF Spento
  <1>4. Luogo'
    BY <1>1, <1>2 DEF Luogo
  <1>5. Tenenti = {c} /\ Tenenti' = {}
    BY <1>1, <1>2 DEF Tenenti, Numeri
  <1>6. Impegnati' = Impegnati \ {c} /\ c \in Impegnati
    BY <1>1, <1>2 DEF Impegnati
  <1>7. Impegnati \in SUBSET Cpu /\ IsFiniteSet(Impegnati) /\ Cardinality(Impegnati) \in Nat
    BY Contati DEF Impegnati
  <1>8. Cardinality(Impegnati') = Cardinality(Impegnati) - 1 /\ Cardinality(Impegnati) # 0
    BY <1>6, <1>7, FS_RemoveElement, FS_EmptySet
  <1>9. /\ coda \in 0..Giro - 1 /\ turno \in 0..Giro - 1 /\ Giro \in Nat
        /\ turno' = (IF turno + 1 = Giro THEN 0 ELSE turno + 1)
    BY <1>2, DopoVale, GiroAssumption DEF TypeOK
  <1>10. Dist(coda) = Cardinality(Impegnati)
    BY <1>1 DEF Numeri
  <1>11. \A m \in 0..Giro - 1 : Dist(m) # 0 => (Dist(m))' = Dist(m) - 1 /\ Dist(m) \in Nat
    BY <1>9 DEF Dist
  <1>12. (Dist(coda))' = Dist(coda) - 1 /\ Dist(coda) \in Nat
    BY <1>2, <1>7, <1>8, <1>9, <1>10 DEF Dist
  <1>13. \A x \in Cpu : pc'[x] = "fila" => pc[x] = "fila"
    BY <1>1, <1>2
  <1>14. ASSUME NEW x \in Cpu, pc'[x] = "fila"
         PROVE  (Dist(mio[x]))' < (Dist(coda))'
    <2>1. pc[x] = "fila" /\ mio[x] \in 0..Giro - 1
      BY <1>13, <1>14 DEF TypeOK
    <2>2. Dist(mio[x]) < Dist(coda) /\ mio[x] # turno
      BY <1>1, <1>5, <2>1 DEF Numeri
    <2>3. Dist(mio[x]) # 0
      BY <1>9, <2>1, <2>2 DEF Dist
    <2>4. (Dist(mio[x]))' = Dist(mio[x]) - 1 /\ Dist(mio[x]) \in Nat
      BY <1>2, <1>9, <2>1, <2>3 DEF Dist
    <2> QED  BY <1>12, <2>2, <2>4
  <1>15. \A x, y \in Cpu : pc'[x] = "fila" /\ pc'[y] = "fila" /\ mio'[x] = mio'[y] => x = y
    BY <1>1, <1>2, <1>13 DEF Numeri
  <1>16. (Dist(coda))' = Cardinality(Impegnati')
    BY <1>8, <1>10, <1>12
  <1>17. Numeri'
    BY <1>5, <1>14, <1>15, <1>16 DEF Numeri
  <1> QED  BY <1>3, <1>4, <1>17

\* The lock is switched on with the boot processor inside and ticket 0 its own.
LEMMA AccendiInv ==
    ASSUME Spento, Luogo, TypeOK, Accendi
    PROVE  Spento' /\ Luogo' /\ Numeri'
  <1>1. /\ ~lavora /\ lavora' /\ turno' = 0 /\ coda' = Dopo(0) /\ tiene' = {0}
        /\ UNCHANGED <<pc, mio, poi>> /\ pc[0] = "dentro" /\ 0 \in Cpu
    BY CpuAssumption DEF Accendi, Spento
  <1>2. Giro \in Nat /\ 1 < Giro
    <2>1. Cardinality({0}) = 1 /\ {0} \in SUBSET Cpu
      BY <1>1, FS_Singleton
    <2> QED  BY <2>1, Contati, GiroAssumption
  <1>3. coda' = 1
    BY <1>1, <1>2, DopoVale
  <1>4. Spento'
    BY <1>1 DEF Spento
  <1>5. \A c \in Cpu : /\ pc[c] \notin {"fila", "lascia", "rientra"}
                       /\ pc[c] \in {"dentro", "prog"} => c = 0
    BY <1>1 DEF Spento
  <1>6. Luogo'
    BY <1>1, <1>5 DEF Luogo
  <1>7. Tenenti' = {0} /\ Impegnati' = {0}
    BY <1>1, <1>5 DEF Tenenti, Impegnati
  <1>8. (Dist(coda))' = Cardinality(Impegnati')
    BY <1>1, <1>2, <1>3, <1>7, FS_Singleton DEF Dist
  <1>9. Numeri'
    BY <1>1, <1>5, <1>7, <1>8 DEF Numeri
  <1> QED  BY <1>4, <1>6, <1>9

-----------------------------------------------------------------------------
(* The theorems.                                                           *)

\* Every step keeps the types, parked processors or not.
LEMMA TipoPasso == TypeOK /\ [Next]_vars => TypeOK'
  <1> SUFFICES ASSUME TypeOK, [Next]_vars PROVE TypeOK'  OBVIOUS
  <1> USE DEF TypeOK, Luoghi
  <1>0. \A c \in Cpu : cpu_n(c) \in Cpu
    BY CpuAssumption DEF cpu_n
  <1>1. 0 \in 0..Giro - 1 /\ \A x \in 0..Giro - 1 : Dopo(x) \in 0..Giro - 1
    <2>1. Giro \in Nat \ {0}
      BY Contati, GiroAssumption
    <2> QED  BY <2>1, DopoVale
  <1>2. ASSUME Accendi PROVE TypeOK'
    BY <1>1, <1>2, CpuAssumption DEF Accendi
  <1>3. ASSUME NEW c \in Cpu, Turno(c) PROVE TypeOK'
    BY <1>0, <1>3 DEF Turno
  <1>4. ASSUME NEW c \in Cpu, LasciaTurno(c) PROVE TypeOK'
    BY <1>1, <1>4 DEF LasciaTurno
  <1>5. ASSUME NEW c \in Cpu, Battito(c) PROVE TypeOK'
    BY <1>5 DEF Battito, TornaOzio, bkl_lascia
  <1>6. ASSUME NEW c \in Cpu, Rientra(c) PROVE TypeOK'
    BY <1>1, <1>6 DEF Rientra, bkl_entra
  <1>7. ASSUME NEW c \in Cpu, bkl_esci(c) PROVE TypeOK'
    BY <1>7 DEF bkl_esci, bkl_lascia
  <1>8. ASSUME NEW c \in Cpu, bkl_ozio(c) PROVE TypeOK'
    BY <1>8 DEF bkl_ozio, TornaOzio, bkl_lascia
  <1>9. ASSUME NEW c \in Cpu, sched_yield(c) PROVE TypeOK'
    BY <1>9 DEF sched_yield, bkl_lascia
  <1>10. ASSUME NEW c \in Cpu, Entra(c) PROVE TypeOK'
    <2>1. PICK h \in {"dentro", "gestore"} : bkl_entra(c, h)
      BY <1>10 DEF Entra, EntraDa
    <2>2. UNCHANGED <<lavora, turno, tiene>> /\ ozio' \in [Cpu -> {"prima", "hlt"}]
      BY <1>10 DEF Entra
    <2> QED  BY <1>1, <2>1, <2>2 DEF bkl_entra
  <1>11. ASSUME NEW c \in Cpu, Ferma(c) PROVE TypeOK'
    BY <1>11 DEF Ferma, lockVars
  <1>12. CASE UNCHANGED vars
    BY <1>12 DEF vars
  <1> QED
    BY <1>2, <1>3, <1>4, <1>5, <1>6, <1>7, <1>8, <1>9, <1>10, <1>11, <1>12 DEF Next, Passo

\* What a step may do to the lock.
Fermi == UNCHANGED <<lavora, coda, turno, tiene, pc, mio, poi>>

Genere ==
    \/ Fermi \/ Accendi
    \/ \E c \in Cpu : \/ Turno(c) \/ LasciaTurno(c)
                      \/ \E h : Sposta(c, h) \/ Numero(c, h) \/ Cede(c, h)

\* Every step does one of these things, if no processor is left parked.
LEMMA Generi == Parcheggiati = {} /\ BInv /\ [Next]_vars => Genere
  <1> SUFFICES ASSUME Parcheggiati = {}, BInv, [Next]_vars
               PROVE  Genere
    OBVIOUS
  <1>0. TypeOK /\ Spento /\ Luogo /\ Numeri
    BY DEF BInv
  <1>1. \A c \in Cpu : lavora => cpu_n(c) = c
    BY DEF cpu_n
  <1>2. ASSUME NEW c \in Cpu, NEW h \in {"dentro", "gestore"}, bkl_entra(c, h),
               pc[c] \in {"prog", "prima", "hlt", "rientra"},
               ~lavora /\ h = "dentro" => c = 0,
               UNCHANGED <<lavora, turno, tiene>>
        PROVE  Genere
    <2>1. CASE ~lavora \/ cpu_n(c) \in tiene
      <3>1. Sposta(c, h)
        BY <1>1, <1>2, <2>1 DEF bkl_entra, Sposta
      <3> QED  BY <3>1, Zenon DEF Genere
    <2>2. CASE lavora /\ cpu_n(c) \notin tiene
      <3>1. Numero(c, h)
        BY <1>1, <1>2, <2>2 DEF bkl_entra, Numero
      <3> QED  BY <3>1, Zenon DEF Genere
    <2> QED  BY <2>1, <2>2
  <1>3. ASSUME NEW c \in Cpu, NEW h \in {"prog", "prima", "rientra"}, bkl_lascia(c, h),
               pc[c] \in {"dentro", "gestore"},
               h # "prima" => pc[c] = "dentro", h = "rientra" => lavora,
               UNCHANGED <<lavora, coda, turno, mio>>
        PROVE  Genere
    <2>1. CASE ~lavora \/ cpu_n(c) \notin tiene
      <3>1. Sposta(c, h)
        BY <1>0, <1>1, <1>3, <2>1 DEF bkl_lascia, Sposta, Spento, Luogo
      <3> QED  BY <3>1, Zenon DEF Genere
    <2>2. CASE lavora /\ cpu_n(c) \in tiene
      <3>1. Cede(c, h)
        BY <1>1, <1>3, <2>2 DEF bkl_lascia, Cede
      <3> QED  BY <3>1, Zenon DEF Genere
    <2> QED  BY <2>1, <2>2
  <1>4. ASSUME NEW c \in Cpu, TornaOzio(c), pc[c] \in {"dentro", "gestore"},
               UNCHANGED <<lavora, coda, turno, mio>>
        PROVE  Genere
    <2>1. CASE ozio[c] = "prima"
      <3>1. Sposta(c, "prima")
        BY <1>4, <2>1 DEF TornaOzio, Sposta
      <3> QED  BY <3>1, Zenon DEF Genere
    <2>2. CASE ozio[c] # "prima"
      <3>1. bkl_lascia(c, "prima")
        BY <1>4, <2>2 DEF TornaOzio
      <3> QED  BY <1>3, <1>4, <3>1
    <2> QED  BY <2>1, <2>2
  <1>5. ASSUME Accendi PROVE Genere
    BY <1>5 DEF Genere
  <1>6. ASSUME NEW c \in Cpu, Turno(c) PROVE Genere
    BY <1>6 DEF Genere
  <1>7. ASSUME NEW c \in Cpu, LasciaTurno(c) PROVE Genere
    BY <1>7 DEF Genere
  <1>8. ASSUME NEW c \in Cpu, Battito(c) PROVE Genere
    <2>1. pc[c] = "gestore" /\ UNCHANGED <<lavora, coda, turno, mio>>
      BY <1>8 DEF Battito
    <2>2. CASE lavora /\ cpu_n(c) \in tiene
      <3>1. Sposta(c, "dentro")
        BY <1>1, <1>8, <2>1, <2>2 DEF Battito, Sposta
      <3> QED  BY <3>1, Zenon DEF Genere
    <2>3. CASE ~(lavora /\ cpu_n(c) \in tiene)
      <3>1. TornaOzio(c)
        BY <1>8, <2>3 DEF Battito
      <3> QED  BY <1>4, <2>1, <3>1
    <2> QED  BY <2>2, <2>3
  <1>9. ASSUME NEW c \in Cpu, Rientra(c) PROVE Genere
    <2>1. lavora
      BY <1>0, <1>9 DEF Rientra, Spento
    <2> QED  BY <1>2, <1>9, <2>1 DEF Rientra
  <1>10. ASSUME NEW c \in Cpu, bkl_esci(c) PROVE Genere
    BY <1>3, <1>10 DEF bkl_esci
  <1>11. ASSUME NEW c \in Cpu, bkl_ozio(c) PROVE Genere
    BY <1>4, <1>11 DEF bkl_ozio
  <1>12. ASSUME NEW c \in Cpu, sched_yield(c) PROVE Genere
    BY <1>3, <1>12 DEF sched_yield
  <1>13. ASSUME NEW c \in Cpu, Entra(c) PROVE Genere
    <2>1. PICK h \in EntraDa(c) : bkl_entra(c, h)
      BY <1>13 DEF Entra
    <2>2. /\ h \in {"dentro", "gestore"} /\ pc[c] \in {"prog", "prima", "hlt"}
          /\ UNCHANGED <<lavora, turno, tiene>>
      BY <1>13, <2>1 DEF Entra, EntraDa
    <2>3. ~lavora /\ h = "dentro" => c = 0
      BY <1>0, <2>1 DEF EntraDa, Spento
    <2> QED  BY <1>2, <2>1, <2>2, <2>3
  <1>14. ASSUME NEW c \in Cpu, Ferma(c) PROVE Genere
    <2>1. Sposta(c, "hlt")
      BY <1>14 DEF Ferma, lockVars, Sposta
    <2> QED  BY <2>1, Zenon DEF Genere
  <1>15. CASE UNCHANGED vars
    BY <1>15 DEF vars, Genere, Fermi
  <1> QED
    BY <1>5, <1>6, <1>7, <1>8, <1>9, <1>10, <1>11, <1>12, <1>13, <1>14, <1>15 DEF Next, Passo

\* Every step keeps the inductive invariant.
LEMMA BInvPasso == Parcheggiati = {} /\ BInv /\ [Next]_vars => BInv'
  <1> SUFFICES ASSUME Parcheggiati = {}, BInv, [Next]_vars
               PROVE  Spento' /\ Luogo' /\ Numeri'
    BY TipoPasso DEF BInv
  <1>0. TypeOK /\ Spento /\ Luogo /\ Numeri
    BY DEF BInv
  <1>1. CASE Fermi
    <2>1. Tenenti' = Tenenti /\ Impegnati' = Impegnati
      BY <1>1 DEF Tenenti, Impegnati, Fermi
    <2> QED  BY <1>0, <1>1, <2>1 DEF Spento, Luogo, Numeri, Dist, Fermi
  <1>2. CASE Accendi
    BY <1>0, <1>2, AccendiInv
  <1>3. ASSUME NEW c \in Cpu, Turno(c) \/ LasciaTurno(c) PROVE Spento' /\ Luogo' /\ Numeri'
    BY <1>0, <1>3, TurnoInv, LasciaTurnoInv
  <1>4. ASSUME NEW c \in Cpu, NEW h, Sposta(c, h) \/ Numero(c, h) \/ Cede(c, h)
        PROVE  Spento' /\ Luogo' /\ Numeri'
    BY <1>0, <1>4, SpostaInv, NumeroInv, CedeInv
  <1> QED  BY <1>1, <1>2, <1>3, <1>4, Generi DEF Genere

\* The invariant holds at the start.
LEMMA BInvInizio == Init => BInv
  <1> SUFFICES ASSUME Init PROVE BInv  OBVIOUS
  <1>1. 0 \in 0..Giro - 1
    BY Contati, GiroAssumption
  <1>2. TypeOK
    BY <1>1 DEF Init, TypeOK, Luoghi
  <1> QED  BY <1>2 DEF Init, BInv, Spento, Luogo, Numeri

\* The kernel lock keeps its types, parked processors or not.
THEOREM BklTipo == Spec => []TypeOK
  <1>1. Init => TypeOK
    BY BInvInizio DEF BInv
  <1> QED  BY <1>1, TipoPasso, PTL DEF Spec

\* "In the kernel there is one processor at a time" (smp.h), for every number
\* of processors below the wrap of the tickets, if each one that is awake has
\* its own number.
THEOREM BklEsclude == ASSUME Parcheggiati = {} PROVE Spec => []UnoNelKernel
  <1>1. BInv => UnoNelKernel
    <2> SUFFICES ASSUME BInv, NEW c \in Cpu, NEW d \in Cpu, pc[c] = "dentro", pc[d] = "dentro"
                 PROVE  c = d
      BY DEF UnoNelKernel
    <2>1. CASE lavora
      BY <2>1 DEF BInv, Luogo, Numeri, Tenenti
    <2>2. CASE ~lavora
      BY <2>2 DEF BInv, Spento
    <2> QED  BY <2>1, <2>2
  <1>2. BInv /\ [Next]_vars => BInv'
    BY BInvPasso
  <1> QED  BY <1>1, <1>2, BInvInizio, PTL DEF Spec
-----------------------------------------------------------------------------
(* The tickets are a line.                                                 *)

\* An injection of a set into as many numbers takes every one of them, and each
\* element has before it those of the smaller numbers.
LEMMA Rango ==
    ASSUME NEW W, IsFiniteSet(W), NEW o \in Nat, NEW L \in Nat, o <= L,
           NEW f \in [W -> o..L - 1],
           \A c, d \in W : f[c] = f[d] => c = d,
           Cardinality(W) = L - o
    PROVE  /\ \A n \in o..L - 1 : \E c \in W : f[c] = n
           /\ \A c \in W : Cardinality({d \in W : f[d] < f[c]}) = f[c] - o
  <1>1. f \in Injection(W, o..L - 1)
    BY DEF Injection, IsInjective
  <1>2. IsFiniteSet(o..L - 1) /\ Cardinality(o..L - 1) = L - o
    <2>1. o \in Int /\ L - 1 \in Int /\ (IF o > L - 1 THEN 0 ELSE L - 1 - o + 1) = L - o
      OBVIOUS
    <2>2. PICK h \in Int : h = L - 1
      BY <2>1
    <2>3. IsFiniteSet(o..h) /\ Cardinality(o..h) = IF o > h THEN 0 ELSE h - o + 1
      BY <2>1, FS_Interval
    <2> QED  BY <2>1, <2>2, <2>3
  <1>3. f \in Surjection(W, o..L - 1)
    BY <1>1, <1>2, FS_Injection
  <1>4. \A n \in o..L - 1 : \E c \in W : f[c] = n
    BY <1>3 DEF Surjection
  <1>5. ASSUME NEW c \in W
        PROVE  Cardinality({d \in W : f[d] < f[c]}) = f[c] - o
    <2> DEFINE V == {d \in W : f[d] < f[c]}
               g == [d \in V |-> f[d]]
    <2>1. PICK h \in Int : h = f[c] - 1
      OBVIOUS
    <2>2. f[c] \in o..L - 1 /\ h < f[c] /\ V \in SUBSET W
      BY <2>1
    <2>3. g \in [V -> o..h] /\ \A x, y \in V : g[x] = g[y] => x = y
      BY <2>1
    <2>4. \A n \in o..h : \E d \in V : g[d] = n
      BY <1>4, <2>1, <2>2
    <2>5. g \in Injection(V, o..h)
      BY <2>3 DEF Injection, IsInjective
    <2>6. g \in Surjection(V, o..h)
      BY <2>3, <2>4 DEF Surjection
    <2>7. ExistsBijection(V, o..h)
      BY <2>5, <2>6, Zenon DEF ExistsBijection, Bijection
    <2>8. IsFiniteSet(V)
      BY <2>2, FS_Subset
    <2>9. Cardinality(o..h) = Cardinality(V)
      BY <2>7, <2>8, FS_Bijection
    <2>10. Cardinality(o..h) = IF o > h THEN 0 ELSE h - o + 1
      BY FS_Interval
    <2> QED  BY <2>1, <2>2, <2>9, <2>10
  <1> QED  BY <1>4, <1>5

\* The modulus of Davanti.
LEMMA DavantiVale ==
    ASSUME TypeOK, NEW m \in 0..Giro - 1
    PROVE  Davanti(m) = Dist(m) /\ Dist(m) \in 0..Giro - 1
  <1>1. Giro \in Nat \ {0} /\ turno \in 0..Giro - 1
    BY GiroAssumption DEF TypeOK
  <1>2. Dist(m) \in 0..Giro - 1
    BY <1>1 DEF Dist
  <1>3. PICK k \in Nat : k = Dist(m)
    BY <1>2
  <1>4. k % Giro = k /\ (k + Giro) % Giro = k
    <2>1. k % Giro = k
      BY <1>1, <1>2, <1>3
    <2> QED  BY <1>1, <1>3, <2>1
  <1>5. m + Giro - turno = k \/ m + Giro - turno = k + Giro
    BY <1>1, <1>3 DEF Dist
  <1> QED  BY <1>2, <1>3, <1>4, <1>5 DEF Davanti

\* 1 while the ticket being called is that of the holder.
Occupato == IF Tenenti = {} THEN 0 ELSE 1

\* s is the line: its i-th has i - 1 of the others' tickets before its own.
Riga(s) ==
    /\ s \in Seq(Cpu) /\ Len(s) + Occupato = Dist(coda)
    /\ \A i \in 1..Len(s) : s[i] \in InFila /\ Dist(mio[s[i]]) = i - 1 + Occupato

\* The line has nobody missing and nobody twice, so there is only one, and it
\* is the one of the mapping.
LEMMA RigaAttesa == BInv /\ lavora => Riga(Attesa) /\ \A s : Riga(s) => s = Attesa
  <1> SUFFICES ASSUME BInv, lavora
               PROVE  Riga(Attesa) /\ \A s : Riga(s) => s = Attesa
    OBVIOUS
  <1>0. /\ TypeOK /\ Numeri /\ Luogo /\ Giro \in Nat /\ InFila \in SUBSET Cpu
        /\ Occupato \in {0, 1} /\ coda \in 0..Giro - 1 /\ turno \in 0..Giro - 1
    BY GiroAssumption DEF BInv, TypeOK, InFila, Occupato
  <1>1. \A c \in InFila : mio[c] \in 0..Giro - 1
    BY <1>0 DEF TypeOK
  <1>2. \A m \in 0..Giro - 1 : Davanti(m) = Dist(m) /\ Dist(m) \in 0..Giro - 1
    BY <1>0, DavantiVale
  <1>3. ASSUME NEW c \in InFila, NEW d \in InFila, Dist(mio[c]) = Dist(mio[d])
        PROVE  c = d
    <2>1. mio[c] = mio[d]
      BY <1>0, <1>1, <1>3 DEF Dist
    <2> QED  BY <1>0, <2>1 DEF Numeri, InFila
  <1>4. IsFiniteSet(InFila) /\ Cardinality(InFila) \in Nat
    BY <1>0, Contati
  <1>5. Cardinality(InFila) + Occupato = Dist(coda)
    <2>1. Impegnati = InFila \cup Tenenti /\ Dist(coda) = Cardinality(Impegnati)
      BY <1>0 DEF Impegnati, InFila, Tenenti, Numeri
    <2>2. CASE Tenenti = {}
      <3>1. Impegnati = InFila
        BY <2>1, <2>2
      <3> QED  BY <1>4, <2>1, <2>2, <3>1 DEF Occupato
    <2>3. CASE Tenenti # {}
      <3>1. PICK t \in Cpu : Tenenti = {t} /\ t \notin InFila
        BY <1>0, <2>3 DEF Numeri, Luogo, InFila, Tenenti
      <3>2. Cardinality(InFila \cup {t}) = Cardinality(InFila) + 1
        BY <1>4, <3>1, FS_AddElement
      <3> QED  BY <2>1, <2>3, <3>1, <3>2 DEF Occupato
    <2> QED  BY <2>2, <2>3
  <1>6. \A c \in InFila : Dist(mio[c]) \in Occupato..Dist(coda) - 1
    <2>1. \A c \in InFila : Dist(mio[c]) < Dist(coda) /\ (Tenenti # {} => mio[c] # turno)
      BY <1>0 DEF Numeri, InFila
    <2>2. \A c \in InFila : Dist(mio[c]) = 0 => mio[c] = turno
      BY <1>0, <1>1 DEF Dist
    <2> QED  BY <1>0, <1>1, <1>2, <2>1, <2>2 DEF Occupato
  <1> DEFINE f == [c \in InFila |-> Dist(mio[c])]
  <1>7. PICK o \in Nat, L \in Nat, n \in Nat :
           o = Occupato /\ L = Dist(coda) /\ n = Cardinality(InFila) /\ o <= L /\ n = L - o
    BY <1>0, <1>2, <1>4, <1>5
  <1>8. f \in [InFila -> o..L - 1] /\ \A c, d \in InFila : f[c] = f[d] => c = d
    BY <1>3, <1>6, <1>7
  <1>9. /\ \A k \in o..L - 1 : \E c \in InFila : f[c] = k
        /\ \A c \in InFila : Cardinality({d \in InFila : f[d] < f[c]}) = f[c] - o
    <2>1. Cardinality(InFila) = L - o /\ o <= L
      BY <1>7
    <2>2. PICK W, g : W = InFila /\ g = f
      OBVIOUS
    <2> HIDE DEF f
    <2>3. IsFiniteSet(W) /\ Cardinality(W) = L - o
      BY <1>4, <2>1, <2>2
    <2>4. g \in [W -> o..L - 1]
      BY <1>8, <2>2
    <2>5. \A c, d \in W : g[c] = g[d] => c = d
      BY <1>8, <2>2
    <2>6. /\ \A k \in o..L - 1 : \E c \in W : g[c] = k
          /\ \A c \in W : Cardinality({d \in W : g[d] < g[c]}) = g[c] - o
      BY <2>1, <2>3, <2>4, <2>5, Rango
    <2> QED  BY <2>2, <2>6
  <1>10. ASSUME NEW c \in InFila
         PROVE  Cardinality({d \in InFila : Davanti(mio[d]) < Davanti(mio[c])}) = Dist(mio[c]) - o
    <2>1. \A d \in InFila : Davanti(mio[d]) = f[d]
      BY <1>1, <1>2
    <2>2. {d \in InFila : Davanti(mio[d]) < Davanti(mio[c])} = {d \in InFila : f[d] < f[c]}
      BY <2>1
    <2> QED  BY <1>9, <2>2
  <1>11. ASSUME NEW i \in 1..n
         PROVE  Attesa[i] \in InFila /\ Dist(mio[Attesa[i]]) = i - 1 + o
    <2> DEFINE P(c) == Cardinality({d \in InFila : Davanti(mio[d]) < Davanti(mio[c])}) = i - 1
    <2>1. ASSUME NEW c \in InFila PROVE P(c) <=> Dist(mio[c]) = i - 1 + o
      <3>1. PICK k \in Nat : k = Dist(mio[c])
        BY <1>1, <1>2
      <3>2. Cardinality({d \in InFila : Davanti(mio[d]) < Davanti(mio[c])}) = k - o
        BY <1>10, <3>1
      <3> QED  BY <3>1, <3>2
    <2>2. i - 1 + o \in o..L - 1
      BY <1>7
    <2>3. \E c \in InFila : P(c)
      BY <1>9, <2>1, <2>2
    <2>4. Attesa[i] = CHOOSE c \in InFila : P(c)
      BY <1>7 DEF Attesa
    <2> HIDE DEF P
    <2>5. Attesa[i] \in InFila /\ P(Attesa[i])
      BY <2>3, <2>4
    <2> QED  BY <2>1, <2>5
  <1>12. Attesa \in Seq(Cpu) /\ Len(Attesa) = n
    <2> DEFINE Q(i) ==
                  CHOOSE c \in InFila :
                      Cardinality({d \in InFila : Davanti(mio[d]) < Davanti(mio[c])}) = i - 1
    <2>1. Attesa = [i \in 1..Cardinality(InFila) |-> Q(i)]
      BY DEF Attesa
    <2> HIDE DEF Q
    <2>2. Attesa = [i \in 1..n |-> Q(i)]
      BY <1>7, <2>1
    <2>3. \A i \in 1..n : Attesa[i] = Q(i) /\ Q(i) \in Cpu
      BY <1>0, <1>11, <2>2
    <2>4. Attesa \in [1..n -> Cpu]
      BY <2>2, <2>3
    <2> QED  BY <1>7, <2>4
  <1>13. Riga(Attesa)
    BY <1>7, <1>11, <1>12 DEF Riga
  <1>14. ASSUME NEW s, Riga(s) PROVE s = Attesa
    <2>1. s \in Seq(Cpu) /\ Len(s) = n
      BY <1>7, <1>14 DEF Riga
    <2>2. \A i \in 1..n : s[i] \in InFila /\ Dist(mio[s[i]]) = i - 1 + o
      BY <1>7, <1>14, <2>1 DEF Riga
    <2>3. \A i \in 1..n : s[i] = Attesa[i]
      BY <1>3, <1>11, <2>2
    <2> QED  BY <1>12, <2>1, <2>3
  <1> QED  BY <1>13, <1>14

\* Before the lock is switched on nobody waits and nobody is inside.
LEMMA AttesaSpenta == BInv /\ ~lavora => Attesa = << >> /\ Servito = Libero
  <1> SUFFICES ASSUME BInv, ~lavora PROVE Attesa = << >> /\ Servito = Libero
    OBVIOUS
  <1>1. InFila = {} /\ tiene = {}
    BY DEF BInv, Spento, InFila
  <1>2. Cardinality(InFila) = 0
    BY <1>1, FS_EmptySet
  <1>3. Attesa \in [1..0 -> {}]
    BY <1>1, <1>2 DEF Attesa
  <1>4. Attesa \in Seq({}) /\ Len(Attesa) = 0
    BY <1>3
  <1> QED  BY <1>1, <1>4 DEF Servito

\* Who is inside.
LEMMA ServitoVale == BInv => (tiene = {} => Servito = Libero)
                             /\ \A c \in tiene : Servito = c /\ c \in Cpu /\ tiene = {c}
  <1> SUFFICES ASSUME BInv PROVE (tiene = {} => Servito = Libero)
                             /\ \A c \in tiene : Servito = c /\ c \in Cpu /\ tiene = {c}
    OBVIOUS
  <1>1. ASSUME NEW c \in tiene PROVE c \in Cpu /\ tiene = {c}
    <2>1. lavora
      BY <1>1 DEF BInv, Spento
    <2>2. tiene \subseteq Tenenti
      BY DEF BInv, TypeOK, Tenenti
    <2> QED  BY <1>1, <2>1, <2>2 DEF BInv, TypeOK, Numeri
  <1> QED  BY <1>1 DEF Servito

\* The same of the state after a step.
LEMMA RigaAttesaDopo ==
    /\ BInv' /\ lavora' => Riga(Attesa)' /\ \A s : Riga(s)' => s = Attesa'
    /\ BInv' /\ ~lavora' => Attesa' = << >> /\ Servito' = Libero
    /\ BInv' => /\ tiene' = {} => Servito' = Libero
                /\ \A c \in tiene' : Servito' = c /\ c \in Cpu /\ tiene' = {c}
  <1>1. (BInv /\ lavora => Riga(Attesa) /\ \A s : Riga(s) => s = Attesa)'
    BY RigaAttesa, PTL
  <1>2. (BInv /\ ~lavora => Attesa = << >> /\ Servito = Libero)'
    BY AttesaSpenta, PTL
  <1>3. (BInv => (tiene = {} => Servito = Libero)
                 /\ \A c \in tiene : Servito = c /\ c \in Cpu /\ tiene = {c})'
    BY ServitoVale, PTL
  <1> QED  BY <1>1, <1>2, <1>3, Zenon

\* How far the tickets are.
LEMMA DistTipo == TypeOK => Dist(coda) \in Nat /\ \A c \in Cpu : Dist(mio[c]) \in Nat
  <1> SUFFICES ASSUME TypeOK PROVE Dist(coda) \in Nat /\ \A c \in Cpu : Dist(mio[c]) \in Nat
    OBVIOUS
  <1>1. coda \in 0..Giro - 1 /\ \A c \in Cpu : mio[c] \in 0..Giro - 1
    BY DEF TypeOK
  <1>2. \A m \in 0..Giro - 1 : Dist(m) \in Nat
    BY GiroAssumption, DavantiVale
  <1> QED  BY <1>1, <1>2, Zenon

LEMMA DistTipoDopo ==
    TypeOK' => (Dist(coda))' \in Nat /\ \A c \in Cpu : (Dist(mio[c]))' \in Nat
  <1>1. (TypeOK => Dist(coda) \in Nat /\ \A c \in Cpu : Dist(mio[c]) \in Nat)'
    BY DistTipo, PTL
  <1> QED  BY <1>1, Zenon

\* A step keeps the line if nobody comes or goes and the places do not change.
LEMMA StessaAttesa ==
    ASSUME BInv, BInv', lavora, lavora', InFila' = InFila,
           (Dist(coda))' - Occupato' = Dist(coda) - Occupato,
           \A c \in InFila : (Dist(mio[c]))' - Occupato' = Dist(mio[c]) - Occupato
    PROVE  Attesa' = Attesa
  <1>1. Riga(Attesa)
    BY RigaAttesa
  <1>2. PICK s : s = Attesa
    OBVIOUS
  <1>3. /\ s \in Seq(Cpu) /\ Len(s) + Occupato = Dist(coda)
        /\ \A i \in 1..Len(s) : s[i] \in InFila /\ Dist(mio[s[i]]) = i - 1 + Occupato
    BY <1>1, <1>2 DEF Riga
  <1>4. Dist(coda) \in Nat /\ (Dist(coda))' \in Nat
    BY DistTipo, DistTipoDopo DEF BInv
  <1>5. Occupato \in {0, 1} /\ Occupato' \in {0, 1}
    BY DEF Occupato
  <1>6. \A c \in InFila : Dist(mio[c]) \in Nat /\ (Dist(mio[c]))' \in Nat
    BY DistTipo, DistTipoDopo DEF BInv, InFila
  <1>7. Len(s) + Occupato' = (Dist(coda))'
    BY <1>3, <1>4, <1>5
  <1>8. ASSUME NEW i \in 1..Len(s)
        PROVE  s[i] \in InFila' /\ (Dist(mio[s[i]]))' = i - 1 + Occupato'
    <2>1. PICK c \in InFila : c = s[i]
      BY <1>3
    <2>2. (Dist(mio[c]))' = i - 1 + Occupato'
      <3>1. Dist(mio[c]) = i - 1 + Occupato
        BY <1>3, <2>1
      <3>2. (Dist(mio[c]))' - Occupato' = Dist(mio[c]) - Occupato
        BY <2>1
      <3> QED  BY <1>3, <1>5, <1>6, <3>1, <3>2
    <2> QED  BY <2>1, <2>2
  <1>9. Riga(s)'
    BY <1>3, <1>7, <1>8 DEF Riga
  <1>10. s = Attesa'
    BY <1>9, RigaAttesaDopo
  <1> QED  BY <1>2, <1>10

\* A ticket given is one more at the end of the line.
LEMMA ArrivaRiga ==
    ASSUME BInv, BInv', NEW c \in Cpu, NEW h, Numero(c, h)
    PROVE  Astratto!Arriva
  <1>0. TypeOK /\ Numeri /\ Luogo /\ Giro \in Nat /\ coda \in 0..Giro - 1 /\ turno \in 0..Giro - 1
    BY GiroAssumption DEF BInv, TypeOK
  <1>1. /\ \A x \in Cpu : pc'[x] = IF x = c THEN "fila" ELSE pc[x]
        /\ \A x \in Cpu : mio'[x] = IF x = c THEN coda ELSE mio[x]
        /\ UNCHANGED <<turno, tiene>> /\ lavora /\ lavora' /\ c \notin tiene
        /\ coda' = Dopo(coda) /\ pc[c] \in {"prog", "prima", "hlt", "rientra"}
    BY <1>0 DEF Numero, TypeOK
  <1>2. Tenenti' = Tenenti /\ InFila' = InFila \cup {c} /\ c \notin InFila
    BY <1>1 DEF Tenenti, InFila
  <1>3. Occupato' = Occupato /\ Occupato \in {0, 1}
    BY <1>2 DEF Occupato
  <1>4. Dist(coda) \in Nat /\ (Dist(coda))' = Dist(coda) + 1
    <2>1. Cardinality(Impegnati) \in Nat /\ Cardinality(Impegnati') = Cardinality(Impegnati) + 1
      <3>1. Impegnati' = Impegnati \cup {c} /\ c \notin Impegnati /\ Impegnati \in SUBSET Cpu
        BY <1>1 DEF Impegnati
      <3> QED  BY <3>1, Contati, FS_AddElement
    <2>2. Dist(coda) = Cardinality(Impegnati) /\ (Dist(coda))' = Cardinality(Impegnati')
      BY <1>0, <1>1 DEF BInv, Numeri
    <2> QED  BY <2>1, <2>2
  <1>5. \A x \in InFila : (Dist(mio[x]))' = Dist(mio[x])
    BY <1>1, <1>2 DEF Dist, InFila
  <1>6. (Dist(mio[c]))' = Dist(coda)
    BY <1>1 DEF Dist
  <1>7. Riga(Attesa)
    BY <1>1, RigaAttesa
  <1>8. PICK s, t : s = Attesa /\ t = Append(s, c)
    OBVIOUS
  <1>9. /\ s \in Seq(Cpu) /\ Len(s) + Occupato = Dist(coda)
        /\ \A i \in 1..Len(s) : s[i] \in InFila /\ Dist(mio[s[i]]) = i - 1 + Occupato
    BY <1>7, <1>8 DEF Riga
  <1>10. /\ t \in Seq(Cpu) /\ Len(t) = Len(s) + 1 /\ Len(s) \in Nat
         /\ t[Len(s) + 1] = c /\ \A i \in 1..Len(s) : t[i] = s[i]
    BY <1>8, <1>9
  <1>11. Len(t) + Occupato' = (Dist(coda))'
    BY <1>3, <1>4, <1>9, <1>10
  <1>12. ASSUME NEW i \in 1..Len(t)
         PROVE  t[i] \in InFila' /\ (Dist(mio[t[i]]))' = i - 1 + Occupato'
    <2>1. CASE i \in 1..Len(s)
      <3>1. PICK x \in InFila : x = s[i] /\ x = t[i] /\ Dist(mio[x]) = i - 1 + Occupato
        BY <1>9, <1>10, <2>1
      <3>2. x \in InFila' /\ (Dist(mio[x]))' = i - 1 + Occupato'
        BY <1>2, <1>3, <1>5, <3>1
      <3> QED  BY <3>1, <3>2
    <2>2. CASE i = Len(s) + 1
      <3>1. t[i] = c /\ c \in InFila'
        BY <1>2, <1>10, <2>2
      <3>2. (Dist(mio[c]))' = i - 1 + Occupato'
        BY <1>3, <1>4, <1>6, <1>9, <1>10, <2>2
      <3> QED  BY <3>1, <3>2
    <2> QED  BY <1>10, <2>1, <2>2
  <1>13. Riga(t)'
    BY <1>10, <1>11, <1>12 DEF Riga
  <1>14. Attesa' = Append(Attesa, c)
    BY <1>1, <1>8, <1>13, RigaAttesaDopo
  <1>15. Servito # c
    BY <1>1, ServitoVale, LiberoAssumption DEF Servito
  <1>16. Servito' = Servito
    BY <1>1 DEF Servito
  <1> QED  BY <1>14, <1>15, <1>16 DEF Astratto!Arriva

\* The ticket called is that of the first of the line.
LEMMA EntraRiga ==
    ASSUME BInv, BInv', Parcheggiati = {}, NEW c \in Cpu, Turno(c)
    PROVE  Astratto!Entra
  <1>0. TypeOK /\ Numeri /\ Luogo /\ Spento /\ Giro \in Nat /\ turno \in 0..Giro - 1
    BY GiroAssumption DEF BInv, TypeOK
  <1>1. /\ lavora /\ pc[c] = "fila" /\ turno = mio[c] /\ lavora' /\ UNCHANGED <<coda, turno, mio>>
        /\ tiene' = tiene \cup {c} /\ poi[c] \in {"dentro", "gestore"}
        /\ \A x \in Cpu : pc'[x] = IF x = c THEN poi[c] ELSE pc[x]
    BY <1>0 DEF Turno, Spento, Luogo, TypeOK, cpu_n
  <1>2. Tenenti = {}
    BY <1>0, <1>1 DEF Numeri
  <1>3. tiene = {} /\ c \in Tenenti' /\ c \in InFila /\ InFila' = InFila \ {c}
    BY <1>0, <1>1, <1>2 DEF Tenenti, InFila, TypeOK
  <1>4. Occupato = 0 /\ Occupato' = 1
    BY <1>2, <1>3 DEF Occupato
  <1>5. (Dist(coda))' = Dist(coda) /\ \A x \in Cpu : (Dist(mio[x]))' = Dist(mio[x])
    BY <1>1 DEF Dist
  <1>6. Dist(mio[c]) = 0 /\ Dist(coda) \in Nat /\ Dist(coda) > 0
    <2>1. Dist(mio[c]) = 0
      BY <1>0, <1>1 DEF Dist
    <2>2. Dist(mio[c]) < Dist(coda)
      BY <1>0, <1>1 DEF Numeri
    <2> QED  BY <1>0, <2>1, <2>2, DistTipo
  <1>7. Riga(Attesa)
    BY <1>1, RigaAttesa
  <1>8. PICK s, t : s = Attesa /\ t = Tail(s)
    OBVIOUS
  <1>9. /\ s \in Seq(Cpu) /\ Len(s) = Dist(coda)
        /\ \A i \in 1..Len(s) : s[i] \in InFila /\ Dist(mio[s[i]]) = i - 1
    BY <1>4, <1>6, <1>7, <1>8 DEF Riga
  <1>10. s # << >> /\ Len(s) \in Nat /\ Len(s) > 0
    BY <1>6, <1>9
  <1>11. /\ t \in Seq(Cpu) /\ Len(t) = Len(s) - 1
         /\ \A i \in 1..Len(t) : t[i] = s[i + 1]
    BY <1>8, <1>9, <1>10
  <1>12. \A x \in InFila : Dist(mio[x]) = 0 => x = c
    <2>1. \A x \in InFila : mio[x] \in 0..Giro - 1
      BY <1>0 DEF TypeOK, InFila
    <2>2. \A x \in InFila : Dist(mio[x]) = 0 => mio[x] = turno
      BY <1>0, <2>1 DEF Dist
    <2> QED  BY <1>0, <1>1, <2>2 DEF Numeri, InFila
  <1>13. Head(s) = c
    <2>1. Head(s) = s[1] /\ s[1] \in InFila /\ Dist(mio[s[1]]) = 0
      BY <1>9, <1>10
    <2> QED  BY <1>12, <2>1
  <1>14. Len(t) + Occupato' = (Dist(coda))'
    BY <1>4, <1>5, <1>9, <1>10, <1>11
  <1>15. ASSUME NEW i \in 1..Len(t)
         PROVE  t[i] \in InFila' /\ (Dist(mio[t[i]]))' = i - 1 + Occupato'
    <2>1. i + 1 \in 1..Len(s) /\ i \in Nat /\ i # 0
      BY <1>10, <1>11
    <2>2. PICK x \in InFila : x = t[i] /\ Dist(mio[x]) = i
      BY <1>9, <1>11, <2>1
    <2>3. x # c /\ x \in Cpu
      BY <1>6, <2>1, <2>2 DEF InFila
    <2>4. x \in InFila' /\ (Dist(mio[x]))' = i - 1 + Occupato'
      BY <1>3, <1>4, <1>5, <2>1, <2>2, <2>3
    <2> QED  BY <2>2, <2>4
  <1>16. Riga(t)'
    BY <1>11, <1>14, <1>15 DEF Riga
  <1>17. Attesa' = Tail(Attesa) /\ Attesa # << >> /\ Head(Attesa) = c
    BY <1>1, <1>8, <1>10, <1>13, <1>16, RigaAttesaDopo
  <1>18. Servito = Libero /\ Servito' = c
    <2>1. Servito = Libero
      BY <1>3, ServitoVale
    <2>2. Servito' = c
      BY <1>1, RigaAttesaDopo
    <2> QED  BY <2>1, <2>2
  <1> QED  BY <1>17, <1>18 DEF Astratto!Entra

\* A step that moves one processor outside the line changes nothing of it.
LEMMA FermaRiga ==
    ASSUME BInv, BInv', UNCHANGED <<lavora, coda, turno, mio>>,
           Tenenti' = Tenenti, \A x \in Cpu : pc'[x] = "fila" <=> pc[x] = "fila"
    PROVE  Attesa' = Attesa
  <1>1. CASE ~lavora
    BY <1>1, AttesaSpenta, RigaAttesaDopo
  <1>2. CASE lavora
    <2>1. InFila' = InFila /\ Occupato' = Occupato
      BY DEF InFila, Occupato
    <2>2. (Dist(coda))' = Dist(coda) /\ \A c \in InFila : (Dist(mio[c]))' = Dist(mio[c])
      BY DEF Dist
    <2>3. lavora' /\ (Dist(coda))' - Occupato' = Dist(coda) - Occupato
      BY <1>2, <2>1, <2>2
    <2>4. \A c \in InFila : (Dist(mio[c]))' - Occupato' = Dist(mio[c]) - Occupato
      BY <2>1, <2>2
    <2> QED  BY <1>2, <2>1, <2>3, <2>4, StessaAttesa
  <1> QED  BY <1>1, <1>2

\* bkl_lascia's first write is the leaving: the line waits as it is.
LEMMA LasciaRiga ==
    ASSUME BInv, BInv', NEW c \in Cpu, NEW h, Cede(c, h)
    PROVE  Astratto!Lascia
  <1>1. /\ UNCHANGED <<lavora, coda, turno, mio>> /\ c \in tiene /\ tiene' = tiene \ {c}
        /\ pc[c] \in {"dentro", "gestore"}
        /\ \A x \in Cpu : pc'[x] = IF x = c THEN "lascia" ELSE pc[x]
    BY DEF Cede, BInv, TypeOK
  <1>2. Tenenti' = Tenenti
    BY <1>1 DEF Tenenti
  <1>3. Attesa' = Attesa
    BY <1>1, <1>2, FermaRiga
  <1>4. Servito = c /\ tiene = {c}
    BY <1>1, ServitoVale
  <1>5. Servito' = Libero
    BY <1>1, <1>4, RigaAttesaDopo
  <1> QED  BY <1>3, <1>4, <1>5, LiberoAssumption DEF Astratto!Lascia

\* Its second write calls the next ticket: everybody is one nearer, and the
\* place of the holder is gone.
LEMMA LasciaTurnoRiga ==
    ASSUME BInv, BInv', NEW c \in Cpu, LasciaTurno(c)
    PROVE  UNCHANGED <<Servito, Attesa>>
  <1>0. /\ TypeOK /\ Numeri /\ Luogo /\ Spento /\ Giro \in Nat
        /\ coda \in 0..Giro - 1 /\ turno \in 0..Giro - 1
    BY GiroAssumption DEF BInv, TypeOK
  <1>1. /\ lavora /\ lavora' /\ pc[c] = "lascia" /\ c \notin tiene
        /\ poi[c] \in {"prog", "prima", "rientra"}
        /\ UNCHANGED <<coda, tiene, mio>> /\ turno' = Dopo(turno)
        /\ \A x \in Cpu : pc'[x] = IF x = c THEN poi[c] ELSE pc[x]
    BY <1>0 DEF LasciaTurno, Spento, Luogo, TypeOK
  <1>2. Tenenti = {c} /\ Tenenti' = {}
    BY <1>0, <1>1 DEF Tenenti, Numeri
  <1>3. Occupato = 1 /\ Occupato' = 0 /\ InFila' = InFila
    BY <1>1, <1>2 DEF Occupato, InFila
  <1>4. turno' = (IF turno + 1 = Giro THEN 0 ELSE turno + 1)
    BY <1>0, <1>1, DopoVale
  <1>5. \A m \in 0..Giro - 1 :
           m # turno => (IF m >= turno' THEN m - turno' ELSE m + Giro - turno') = Dist(m) - 1
    BY <1>0, <1>4 DEF Dist
  <1>6. coda # turno /\ Dist(coda) \in Nat
    <2>1. c \in Impegnati /\ Impegnati \in SUBSET Cpu
      BY <1>1 DEF Impegnati
    <2>2. Cardinality(Impegnati) # 0 /\ Dist(coda) = Cardinality(Impegnati)
      BY <1>0, <1>1, <2>1, Contati, FS_EmptySet DEF Numeri
    <2>3. coda = turno => Dist(coda) = 0
      BY <1>0 DEF Dist
    <2> QED  BY <1>0, <2>2, <2>3, DistTipo
  <1>7. (Dist(coda))' - Occupato' = Dist(coda) - Occupato
    <2>1. (Dist(coda))' = Dist(coda) - 1
      BY <1>0, <1>1, <1>5, <1>6 DEF Dist
    <2> QED  BY <1>3, <1>6, <2>1
  <1>8. ASSUME NEW x \in InFila
        PROVE  (Dist(mio[x]))' - Occupato' = Dist(mio[x]) - Occupato
    <2>1. mio[x] \in 0..Giro - 1 /\ mio[x] # turno /\ Dist(mio[x]) \in Nat
      BY <1>0, <1>1, <1>2, DistTipo DEF TypeOK, InFila, Numeri
    <2>2. (Dist(mio[x]))' = Dist(mio[x]) - 1
      BY <1>1, <1>5, <2>1 DEF Dist
    <2> QED  BY <1>3, <2>1, <2>2
  <1>9. Attesa' = Attesa
    BY <1>1, <1>3, <1>7, <1>8, StessaAttesa
  <1>10. Servito' = Servito
    BY <1>1 DEF Servito
  <1> QED  BY <1>9, <1>10

\* The boot processor switches the lock on from inside.
LEMMA AccendiRiga ==
    ASSUME BInv, BInv', Accendi
    PROVE  Astratto!Accendi
  <1>1. ~lavora /\ lavora' /\ tiene' = tiene \cup {0} /\ UNCHANGED <<pc, mio>>
    BY DEF Accendi
  <1>2. Attesa = << >> /\ Servito = Libero
    BY <1>1, AttesaSpenta
  <1>3. Servito' \in Cpu
    BY <1>1, RigaAttesaDopo
  <1>4. Attesa' = << >>
    <2>1. InFila' = {}
      BY <1>1 DEF InFila, BInv, Spento
    <2>2. Riga(Attesa)'
      BY <1>1, RigaAttesaDopo
    <2>3. Attesa' \in Seq(Cpu) /\ \A i \in 1..Len(Attesa') : Attesa'[i] \in {}
      BY <2>1, <2>2 DEF Riga
    <2> QED  BY <2>3
  <1> QED  BY <1>2, <1>3, <1>4 DEF Astratto!Accendi

\* "Whoever arrives takes a number and is served in order; whoever leaves and
\* comes back goes behind those that were waiting" (bkl_entra): the ticket lock
\* implements a line with one place inside, for every number of processors below
\* the wrap of the tickets and across the wrap, if each processor that is awake
\* has its own number.
THEOREM SportelloImplementato == ASSUME Parcheggiati = {} PROVE Spec => ImplementaSportello
  <1>1. Init => Astratto!Init
    <2> SUFFICES ASSUME Init PROVE Astratto!Init  OBVIOUS
    <2>1. BInv /\ ~lavora
      BY BInvInizio DEF Init
    <2> QED  BY <2>1, AttesaSpenta DEF Astratto!Init
  <1>2. BInv /\ BInv' /\ [Next]_vars => [Astratto!Next]_<<Servito, Attesa>>
    <2> SUFFICES ASSUME BInv, BInv', [Next]_vars
                 PROVE  Astratto!Next \/ UNCHANGED <<Servito, Attesa>>
      OBVIOUS
    <2>1. CASE Fermi
      <3>1. UNCHANGED <<lavora, coda, turno, tiene, pc, mio>>
        BY <2>1 DEF Fermi
      <3>2. Tenenti' = Tenenti /\ Servito' = Servito
        BY <3>1 DEF Tenenti, Servito
      <3> QED  BY <3>1, <3>2, FermaRiga
    <2>2. CASE Accendi
      BY <2>2, AccendiRiga DEF Astratto!Next
    <2>3. ASSUME NEW c \in Cpu, Turno(c) PROVE Astratto!Next
      BY <2>3, EntraRiga DEF Astratto!Next
    <2>4. ASSUME NEW c \in Cpu, LasciaTurno(c) PROVE UNCHANGED <<Servito, Attesa>>
      BY <2>4, LasciaTurnoRiga
    <2>5. ASSUME NEW c \in Cpu, NEW h, Sposta(c, h) PROVE UNCHANGED <<Servito, Attesa>>
      <3>1. /\ UNCHANGED <<lavora, coda, turno, tiene, mio>>
            /\ \A x \in Cpu : pc'[x] = IF x = c THEN h ELSE pc[x]
            /\ pc[c] \notin {"fila", "lascia"} /\ h \notin {"fila", "lascia"}
        BY <2>5 DEF Sposta, BInv, TypeOK
      <3>2. Tenenti' = Tenenti /\ Servito' = Servito
        BY <3>1 DEF Tenenti, Servito
      <3>3. \A x \in Cpu : pc'[x] = "fila" <=> pc[x] = "fila"
        BY <3>1
      <3> QED  BY <3>1, <3>2, <3>3, FermaRiga
    <2>6. ASSUME NEW c \in Cpu, NEW h, Numero(c, h) PROVE Astratto!Next
      BY <2>6, ArrivaRiga DEF Astratto!Next
    <2>7. ASSUME NEW c \in Cpu, NEW h, Cede(c, h) PROVE Astratto!Next
      BY <2>7, LasciaRiga DEF Astratto!Next
    <2> QED  BY <2>1, <2>2, <2>3, <2>4, <2>5, <2>6, <2>7, Generi DEF Genere
  <1>3. BInv /\ [Next]_vars => BInv'
    BY BInvPasso
  <1> QED  BY <1>1, <1>2, <1>3, BInvInizio, PTL DEF Spec, ImplementaSportello, Astratto!Spec
=============================================================================
