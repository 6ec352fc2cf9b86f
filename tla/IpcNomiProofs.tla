--------------------------- MODULE IpcNomiProofs ---------------------------
(***************************************************************************)
(* Proofs about the name registry: for any number of processes, names and  *)
(* entries a name has one live holder, who keeps it while it lives, and    *)
(* can be taken again from the moment the holder dies.                     *)
(***************************************************************************)
EXTENDS IpcNomi, WellFoundedInduction, TLAPS

\* The inductive invariant: types, one live entry per name.
NInv == TypeOK /\ NomeDiUno

\* An empty table satisfies it: no entry is live.
LEMMA NInizio == Init => NInv
<1> SUFFICES ASSUME Init PROVE NInv
  OBVIOUS
<1>1. TypeOK
  BY DEF Init, TypeOK
<1>2. \A i \in Voci : ~voce_viva(i)
  BY DEF Init, voce_viva
<1> QED
  BY <1>1, <1>2 DEF NInv, NomeDiUno

\* A registration adds one entry, in a place that was not live, for a name no
\* live entry had.
LEMMA NRegistra ==
    ASSUME NInv, NEW p \in Processi, NEW n \in Nomi, ipc_register(p, n)
    PROVE  NInv'
<1> USE NessunoAssumption
<1>1. PICK i \in Voci : /\ VoceScelta(i)
                        /\ g_nomi' = [g_nomi EXCEPT ![i] = [pid |-> p, nome |-> n]]
  BY DEF ipc_register
<1>2. /\ stato' = stato /\ stato[p] = "vivo"
      /\ \A j \in Voci : voce_viva(j) => g_nomi[j].nome # n
  BY DEF ipc_register, Esito, Registrato
<1>3. TypeOK'
  BY <1>1, <1>2 DEF NInv, TypeOK
<1>4. /\ g_nomi'[i] = [pid |-> p, nome |-> n]
      /\ \A j \in Voci \ {i} : g_nomi'[j] = g_nomi[j]
  BY <1>1 DEF NInv, TypeOK
<1>5. \A j \in Voci \ {i} : voce_viva(j)' <=> voce_viva(j)
  BY <1>2, <1>4 DEF voce_viva
<1>6. NomeDiUno'
  <2> SUFFICES ASSUME NEW a \in Voci, NEW b \in Voci, voce_viva(a)', voce_viva(b)',
                      g_nomi'[a].nome = g_nomi'[b].nome
               PROVE  a = b
    BY DEF NomeDiUno
  <2>1. CASE a # i /\ b # i
    BY <2>1, <1>4, <1>5 DEF NInv, NomeDiUno
  <2>2. CASE a = i \/ b = i
    BY <2>2, <1>2, <1>4, <1>5
  <2> QED
    BY <2>1, <2>2
<1> QED
  BY <1>3, <1>6 DEF NInv

\* Deaths and collections only make entries dead; the others stay as they are.
LEMMA NToglie ==
    ASSUME NInv, NEW p \in Processi, Finisce(p) \/ ipc_cleanup_process(p)
    PROVE  NInv'
<1> USE NessunoAssumption
<1>1. TypeOK'
  BY DEF NInv, TypeOK, Finisce, ipc_cleanup_process
<1>2. \A i \in Voci : voce_viva(i)' => voce_viva(i) /\ g_nomi'[i] = g_nomi[i]
  <2> SUFFICES ASSUME NEW i \in Voci, voce_viva(i)'
               PROVE  voce_viva(i) /\ g_nomi'[i] = g_nomi[i]
    OBVIOUS
  <2>1. CASE Finisce(p)
    BY <2>1 DEF NInv, TypeOK, Finisce, voce_viva
  <2>2. CASE ipc_cleanup_process(p)
    <3>1. g_nomi[i].pid # p
      BY <2>2 DEF NInv, TypeOK, ipc_cleanup_process, voce_viva
    <3> QED
      BY <3>1, <2>2 DEF NInv, TypeOK, ipc_cleanup_process, voce_viva
  <2> QED
    BY <2>1, <2>2
<1> QED
  BY <1>1, <1>2 DEF NInv, NomeDiUno

\* A stuttering step changes nothing the invariant speaks of.
LEMMA NFerma == NInv /\ UNCHANGED vars => NInv'
  BY DEF NInv, TypeOK, NomeDiUno, voce_viva, vars

\* The invariant holds in every reachable state.
THEOREM NInvSempre == Spec => []NInv
<1>1. NInv /\ [Next]_vars => NInv'
  BY NRegistra, NToglie, NFerma DEF Next
<1> QED
  BY NInizio, <1>1, PTL DEF Spec

\* ipc_lookup has one answer: a name is never held by two live entries.
THEOREM NomeDiUnoSempre == Spec => []NomeDiUno
<1>1. NInv => NomeDiUno
  BY DEF NInv
<1> QED
  BY <1>1, NInvSempre, PTL

\* A live service never loses a name, whatever is registered, dies or is
\* collected around it.
THEOREM NomeTenutoSempre == Spec => NomeTenuto
<1> DEFINE Tenuto == \A i \in Voci : voce_viva(i) /\ stato'[g_nomi[i].pid] = "vivo"
                                     => g_nomi'[i] = g_nomi[i]
<1>1. NInv /\ [Next]_vars => [Tenuto]_vars
  <2> SUFFICES ASSUME NInv, Next, NEW i \in Voci, voce_viva(i),
                      stato'[g_nomi[i].pid] = "vivo"
               PROVE  g_nomi'[i] = g_nomi[i]
    OBVIOUS
  <2>1. PICK p \in Processi : \/ Finisce(p) \/ ipc_cleanup_process(p)
                              \/ \E n \in Nomi : ipc_register(p, n)
    BY DEF Next
  <2>2. CASE Finisce(p)
    BY <2>2 DEF Finisce
  <2>3. CASE ipc_cleanup_process(p)
    <3>1. stato'[p] = "via"
      BY <2>3 DEF ipc_cleanup_process, NInv, TypeOK
    <3> QED
      BY <3>1, <2>3 DEF ipc_cleanup_process
  <2>4. CASE \E n \in Nomi : ipc_register(p, n)
    BY <2>4 DEF ipc_register, VoceScelta, NInv, TypeOK
  <2> QED
    BY <2>1, <2>2, <2>3, <2>4
<1> QED
  BY <1>1, NInvSempre, PTL DEF Spec, NomeTenuto
-----------------------------------------------------------------------------
(* The refinement: seen through ipc_lookup the table is a Registro.        *)

\* What ipc_lookup answers: the pid of any live entry with the name, and
\* nothing when there is none.
Risposte ==
    \A n \in Nomi :
        /\ \A i \in Voci : voce_viva(i) /\ g_nomi[i].nome = n => ipc_lookup(n) = g_nomi[i].pid
        /\ ~Registrato(n) => ipc_lookup(n) = Nessuno

\* The first entry found is as good as any other: there is only one.
LEMMA CercaGiusto == NInv => Risposte
<1> SUFFICES ASSUME NInv, NEW n \in Nomi, NEW i \in Voci, voce_viva(i), g_nomi[i].nome = n
             PROVE  ipc_lookup(n) = g_nomi[i].pid
  BY DEF Risposte, ipc_lookup
<1> DEFINE c == CHOOSE j \in Voci : voce_viva(j) /\ g_nomi[j].nome = n
<1>1. c \in Voci /\ voce_viva(c) /\ g_nomi[c].nome = n
  OBVIOUS
<1>2. c = i
  BY <1>1 DEF NInv, NomeDiUno
<1>3. ipc_lookup(n) = g_nomi[c].pid
  BY DEF ipc_lookup, Registrato
<1> QED
  BY <1>2, <1>3

\* A live entry, and an answer other than nothing, are the same thing.
LEMMA CercaTrova ==
    ASSUME NInv, NEW n \in Nomi
    PROVE  /\ Registrato(n) => \E i \in Voci : /\ voce_viva(i) /\ g_nomi[i].nome = n
                                               /\ ipc_lookup(n) = g_nomi[i].pid
           /\ ~Registrato(n) => ipc_lookup(n) = Nessuno
  BY CercaGiusto DEF Risposte, Registrato

\* A registration takes the name, and no other name changes hands.
LEMMA RegistraPrende ==
    ASSUME NInv, NInv', Risposte', NEW p \in Processi, NEW n \in Nomi, ipc_register(p, n)
    PROVE  R!Prende(p, n)
<1> USE NessunoAssumption
<1>1. PICK i \in Voci : /\ VoceScelta(i)
                        /\ g_nomi' = [g_nomi EXCEPT ![i] = [pid |-> p, nome |-> n]]
  BY DEF ipc_register
<1>2. stato' = stato /\ stato[p] = "vivo" /\ ~Registrato(n) /\ ~voce_viva(i)
  BY <1>1 DEF ipc_register, Esito, VoceScelta
<1>3. /\ g_nomi'[i] = [pid |-> p, nome |-> n]
      /\ \A j \in Voci \ {i} : g_nomi'[j] = g_nomi[j]
  BY <1>1 DEF NInv, TypeOK
<1>4. \A j \in Voci \ {i} : voce_viva(j)' <=> voce_viva(j)
  BY <1>2, <1>3 DEF voce_viva
<1>5. ipc_lookup(n) = Nessuno
  BY <1>2, CercaTrova
<1>6. ipc_lookup(n)' = p
  <2>1. voce_viva(i)' /\ g_nomi'[i].nome = n
    BY <1>2, <1>3 DEF voce_viva
  <2> QED
    BY <2>1, <1>3 DEF Risposte
<1>7. \A m \in Nomi \ {n} : ipc_lookup(m)' = ipc_lookup(m)
  <2> SUFFICES ASSUME NEW m \in Nomi \ {n} PROVE ipc_lookup(m)' = ipc_lookup(m)
    OBVIOUS
  <2>1. CASE Registrato(m)
    <3>1. PICK j \in Voci : voce_viva(j) /\ g_nomi[j].nome = m /\ ipc_lookup(m) = g_nomi[j].pid
      BY <2>1, CercaTrova
    <3>2. voce_viva(j)' /\ g_nomi'[j] = g_nomi[j]
      BY <3>1, <1>2, <1>3, <1>4
    <3> QED
      BY <3>1, <3>2 DEF Risposte
  <2>2. CASE ~Registrato(m)
    <3>1. ~Registrato(m)'
      BY <2>2, <1>3, <1>4 DEF Registrato
    <3> QED
      BY <3>1, <2>2, CercaTrova DEF Risposte
  <2> QED
    BY <2>1, <2>2
<1>8. \A m \in Nomi : ipc_lookup(m)' = IF m = n THEN p ELSE ipc_lookup(m)
  BY <1>6, <1>7
<1> DEFINE f == [m \in Nomi |-> ipc_lookup(m)]
<1>9. f' = [f EXCEPT ![n] = p]
  <2>1. f' = [m \in Nomi |-> ipc_lookup(m)']
    OBVIOUS
  <2>2. [f EXCEPT ![n] = p] = [m \in Nomi |-> IF m = n THEN p ELSE ipc_lookup(m)]
    OBVIOUS
  <2>3. f' = [m \in Nomi |-> IF m = n THEN p ELSE ipc_lookup(m)]
    BY <2>1, <1>8, Zenon
  <2> QED
    BY <2>2, <2>3, Zenon
<1>10. f[n] = Nessuno
  BY <1>5
<1> QED
  BY <1>9, <1>10, Zenon DEF R!Prende

\* A death frees the names of the dead, and only those.
LEMMA FiniscePerde ==
    ASSUME NInv, NInv', Risposte', NEW p \in Processi, Finisce(p)
    PROVE  R!Perde(p)
<1> USE NessunoAssumption
<1>1. /\ g_nomi' = g_nomi /\ stato[p] = "vivo" /\ stato'[p] = "zombie"
      /\ \A q \in Processi \ {p} : stato'[q] = stato[q]
  BY DEF Finisce, NInv, TypeOK
<1>2. \A i \in Voci : voce_viva(i)' <=> voce_viva(i) /\ g_nomi[i].pid # p
  BY <1>1 DEF voce_viva, NInv, TypeOK
<1>3. \A m \in Nomi : ipc_lookup(m)' = IF ipc_lookup(m) = p THEN Nessuno ELSE ipc_lookup(m)
  <2> SUFFICES ASSUME NEW m \in Nomi
               PROVE  ipc_lookup(m)' = IF ipc_lookup(m) = p THEN Nessuno ELSE ipc_lookup(m)
    OBVIOUS
  <2>1. CASE Registrato(m)'
    <3>1. PICK i \in Voci : voce_viva(i)' /\ g_nomi'[i].nome = m
      BY <2>1 DEF Registrato
    <3>2. ipc_lookup(m)' = g_nomi[i].pid /\ g_nomi[i].pid # p
      BY <3>1, <1>1, <1>2 DEF Risposte
    <3>3. ipc_lookup(m) = g_nomi[i].pid
      BY <3>1, <1>1, <1>2, CercaGiusto DEF Risposte
    <3> QED
      BY <3>2, <3>3
  <2>2. CASE ~Registrato(m)'
    <3>1. ipc_lookup(m)' = Nessuno
      BY <2>2 DEF Risposte
    <3>2. CASE Registrato(m)
      <4>1. PICK i \in Voci : voce_viva(i) /\ g_nomi[i].nome = m /\ ipc_lookup(m) = g_nomi[i].pid
        BY <3>2, CercaTrova
      <4>2. g_nomi[i].pid = p
        BY <4>1, <2>2, <1>1, <1>2 DEF Registrato
      <4> QED
        BY <3>1, <4>1, <4>2
    <3>3. CASE ~Registrato(m)
      BY <3>1, <3>3, CercaTrova
    <3> QED
      BY <3>2, <3>3
  <2> QED
    BY <2>1, <2>2
<1> QED
  BY <1>3 DEF R!Perde

\* The sweep touches dead entries only: nobody sees it.
LEMMA RaccoltaInvisibile ==
    ASSUME NInv, NInv', Risposte', NEW p \in Processi, ipc_cleanup_process(p)
    PROVE  \A m \in Nomi : ipc_lookup(m)' = ipc_lookup(m)
<1> USE NessunoAssumption
<1>1. \A i \in Voci : /\ voce_viva(i)' <=> voce_viva(i)
                      /\ voce_viva(i) => g_nomi'[i] = g_nomi[i]
  <2> SUFFICES ASSUME NEW i \in Voci
               PROVE  /\ voce_viva(i)' <=> voce_viva(i)
                      /\ voce_viva(i) => g_nomi'[i] = g_nomi[i]
    OBVIOUS
  <2>1. CASE g_nomi[i].pid = p
    BY <2>1 DEF ipc_cleanup_process, voce_viva
  <2>2. CASE g_nomi[i].pid # p
    BY <2>2 DEF ipc_cleanup_process, voce_viva, NInv, TypeOK
  <2> QED
    BY <2>1, <2>2
<1> SUFFICES ASSUME NEW m \in Nomi PROVE ipc_lookup(m)' = ipc_lookup(m)
  OBVIOUS
<1>2. CASE Registrato(m)
  <2>1. PICK i \in Voci : voce_viva(i) /\ g_nomi[i].nome = m /\ ipc_lookup(m) = g_nomi[i].pid
    BY <1>2, CercaTrova
  <2> QED
    BY <2>1, <1>1 DEF Risposte
<1>3. CASE ~Registrato(m)
  <2>1. ~Registrato(m)'
    BY <1>1, <1>3 DEF Registrato
  <2> QED
    BY <2>1, <1>3, CercaTrova DEF Risposte
<1> QED
  BY <1>2, <1>3

\* Every behaviour of the table, seen through ipc_lookup, is one of the
\* abstract registry: a name changes hands only through the death of its
\* holder, and is free the moment it dies.
THEOREM RegistroImplementato == Spec => ImplementaRegistro
<1>1. Init => R!Init
  <2> SUFFICES ASSUME Init PROVE \A n \in Nomi : ipc_lookup(n) = Nessuno
    BY Zenon DEF R!Init
  <2>1. \A i \in Voci : ~voce_viva(i)
    BY DEF Init, voce_viva
  <2> QED
    BY <2>1 DEF ipc_lookup, Registrato
<1>2. NInv /\ NInv' /\ Risposte' /\ [Next]_vars
        => [R!Next]_([n \in Nomi |-> ipc_lookup(n)])
  <2> SUFFICES ASSUME NInv, NInv', Risposte', [Next]_vars
               PROVE  \/ R!Next
                      \/ [n \in Nomi |-> ipc_lookup(n)]' = [n \in Nomi |-> ipc_lookup(n)]
    OBVIOUS
  <2>1. CASE \E p \in Processi, n \in Nomi : ipc_register(p, n)
    BY <2>1, RegistraPrende DEF R!Next
  <2>2. CASE \E p \in Processi : Finisce(p)
    BY <2>2, FiniscePerde DEF R!Next
  <2>3. CASE \E p \in Processi : ipc_cleanup_process(p)
    BY <2>3, RaccoltaInvisibile
  <2>4. CASE UNCHANGED vars
    BY <2>4 DEF vars, ipc_lookup, Registrato, voce_viva
  <2> QED
    BY <2>1, <2>2, <2>3, <2>4 DEF Next
<1>3. NInv' => Risposte'
  BY CercaGiusto, PTL
<1> QED
  BY <1>1, <1>2, <1>3, NInvSempre, PTL DEF Spec, ImplementaRegistro, R!Spec
-----------------------------------------------------------------------------
(* A name taken again.                                                     *)

\* Every set of natural numbers with an element has a least one.
LEMMA PrimoEsiste ==
    ASSUME NEW S, S \subseteq Nat, S # {}
    PROVE  \E x \in S : \A y \in S : x <= y
<1> DEFINE Minori == {ss \in Nat \X Nat : ss[1] < ss[2]}
<1>1. IsWellFoundedOn(Minori, Nat)
  <2>1. OpToRel(<, Nat) = Minori
    BY DEF OpToRel
  <2> QED
    BY <2>1, NatLessThanWellFounded
<1>2. PICK x \in S : \A y \in S : ~(<<y, x>> \in Minori)
  <2> HIDE DEF Minori
  <2> QED
    BY <1>1, WFMin, Zenon
<1>3. ASSUME NEW y \in S PROVE x <= y
  <2>1. x \in Nat /\ y \in Nat /\ <<y, x>> \in Nat \X Nat
    OBVIOUS
  <2>2. ~(<<y, x>> \in Minori)
    BY <1>2
  <2> QED
    BY <2>1, <2>2
<1> QED
  BY <1>3

\* The loop of ipc_register stops at an entry as soon as one is not live.
LEMMA VoceTrovata ==
    ASSUME NEW k \in Voci, ~voce_viva(k)
    PROVE  \E i \in Voci : VoceScelta(i)
<1> DEFINE Morte == {i \in Voci : ~voce_viva(i)}
<1>1. Morte \subseteq Nat /\ Morte # {}
  BY DEF Voci
<1>2. PICK i \in Morte : \A j \in Morte : i <= j
  <2> HIDE DEF Morte
  <2> QED
    BY <1>1, PrimoEsiste, Zenon
<1>3. \A j \in Voci : j < i => voce_viva(j)
  BY <1>2, NomiMaxAssumption DEF Voci
<1> QED
  BY <1>2, <1>3 DEF VoceScelta

\* ipc_register gives root the name of a service from the moment it dies,
\* collected or not, unless live processes fill the table: neither the zombie nor
\* an entry of the dead stands in the way.
THEOREM NomeRipresoSempre == Spec => []NomeRipreso
<1>1. NInv => NomeRipreso
  <2> SUFFICES ASSUME NInv, NEW p \in Processi, NEW n \in Nomi,
                      stato[p] = "vivo", Utente[p] = 0,
                      \A q \in Processi, i \in Voci :
                         stato[q] = "vivo" /\ g_nomi[i].pid = q => g_nomi[i].nome # n,
                      NEW k \in Voci, \A q \in Processi : stato[q] = "vivo" => g_nomi[k].pid # q
               PROVE  Esito(p, n) = "ok"
    BY DEF NomeRipreso
  <2>1. \A i \in Voci : g_nomi[i].pid \in Processi \cup {Nessuno}
    BY DEF NInv, TypeOK
  <2>2. ~Registrato(n)
    BY <2>1 DEF Registrato, voce_viva
  <2>3. ~voce_viva(k)
    BY <2>1 DEF voce_viva
  <2>4. \E i \in Voci : VoceScelta(i)
    BY <2>3, VoceTrovata
  <2>5. Permesso(p, n)
    BY DEF Permesso
  <2> QED
    BY <2>2, <2>4, <2>5 DEF Esito
<1> QED
  BY <1>1, NInvSempre, PTL
=============================================================================
