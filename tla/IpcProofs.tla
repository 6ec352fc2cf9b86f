----------------------------- MODULE IpcProofs -----------------------------
(***************************************************************************)
(* Theorems about module Ipc, for every process table, mailbox depth and   *)
(* number of processes: types, the ring and its refinement to Cassetta;    *)
(* then the line in front of a mailbox and the receivers, whatever ends,   *)
(* times out, is interrupted or is born in a reused slot meanwhile.        *)
(***************************************************************************)
EXTENDS IpcCassetta, FiniteSetTheorems, TLAPS

-----------------------------------------------------------------------------
(* Sets of processes, and fila_avanza's choice.                            *)

\* Every set of processes is finite and its size is a natural number.
LEMMA Finiti ==
    ASSUME NEW U \in SUBSET Posti
    PROVE  IsFiniteSet(U) /\ Cardinality(U) \in Nat
  BY PostiAssumption, FS_Subset, FS_CardinalityType

\* fila_avanza promises slots to members of the line that had none, at most
\* as many as are free, and stops only when the line is all promised or the
\* mailbox is spoken for.
LEMMA PromosseFatti ==
    ASSUME NEW F \in SUBSET Posti, NEW n \in Nat, NEW r \in Nat,
           NEW G \in Promosse(F, n, r)
    PROVE  /\ G \in SUBSET F
           /\ Cardinality(G) \in Nat
           /\ \A w \in G : w \notin concesso
           /\ \A w \in G : \A x \in prima[w] \cap F : x \notin concesso => x \in G
           /\ n + r + Cardinality(G) <= Depth \/ G = {}
           /\ n + r + Cardinality(G) >= Depth \/ \A w \in F : w \in concesso \/ w \in G
  <1> DEFINE U == F \ concesso
             liberi == IF n + r < Depth THEN Depth - (n + r) ELSE 0
             k == IF liberi < Cardinality(U) THEN liberi ELSE Cardinality(U)
  <1>1. /\ G \in SUBSET U
        /\ Cardinality(G) = k
        /\ \A w \in G : prima[w] \cap U \subseteq G
    BY DEF Promosse, PiuVecchi
  <1>2. U \in SUBSET Posti /\ IsFiniteSet(U) /\ Cardinality(U) \in Nat
    BY Finiti
  <1>3. liberi \in Nat /\ k \in Nat
    BY <1>2, DepthAssumption
  <1>4. IsFiniteSet(G) /\ (Cardinality(G) = 0 <=> G = {})
    BY <1>1, <1>2, FS_Subset, FS_EmptySet
  <1>5. n + r + Cardinality(G) <= Depth \/ G = {}
    BY <1>1, <1>2, <1>3, <1>4, DepthAssumption
  <1>6. n + r + Cardinality(G) >= Depth \/ \A w \in F : w \in concesso \/ w \in G
    <2>1. CASE liberi < Cardinality(U)
      BY <1>1, <1>2, <1>3, <2>1, DepthAssumption
    <2>2. CASE ~(liberi < Cardinality(U))
      <3>1. Cardinality(G) = Cardinality(U)
        BY <1>1, <2>2
      <3>2. G = U
        BY <3>1, <1>1, <1>2, FS_Subset
      <3> QED  BY <3>2
    <2> QED  BY <2>1, <2>2
  <1> QED  BY <1>1, <1>3, <1>5, <1>6

-----------------------------------------------------------------------------
(* Type correctness, in four parts.                                        *)

TipoTabella ==
    /\ pid \in [Posti -> 0..MaxPid] /\ tgid \in [Posti -> 0..MaxPid]
    /\ nextPid \in 1..MaxPid + 1
    /\ st \in [Posti -> Stati]
    /\ morenti \in SUBSET Posti

TipoChiamate ==
    /\ pc \in [Posti -> Punti]
    /\ destPid \in [Posti -> 0..MaxPid]
    /\ dest \in [Posti -> Posti \cup {Nessuno}]
    /\ senza \in SUBSET Posti
    /\ scad \in [Posti -> {"no", "armata", "scaduta"}]
    /\ interrotto \in SUBSET Posti

TipoAnelli ==
    /\ buf \in [Posti -> [0..Depth - 1 -> Messaggi]]
    /\ head \in [Posti -> 0..Depth - 1] /\ tail \in [Posti -> 0..Depth - 1]
    /\ count \in [Posti -> 0..Depth]

TipoFile ==
    /\ su \in [Posti -> Posti \cup {Nessuno}]
    /\ prima \in [Posti -> SUBSET Posti]
    /\ concesso \in SUBSET Posti
    /\ riservati \in [Posti -> Nat]

\* The four parts are the type invariant.
LEMMA TipoParti == TypeOK <=> TipoTabella /\ TipoChiamate /\ TipoAnelli /\ TipoFile
  BY DEF TypeOK, TipoTabella, TipoChiamate, TipoAnelli, TipoFile

\* The same parts, after a step.
LEMMA TipoPartiDopo == TypeOK' <=> (TipoTabella /\ TipoChiamate /\ TipoAnelli /\ TipoFile)'
  BY DEF TypeOK, TipoTabella, TipoChiamate, TipoAnelli, TipoFile

\* A wake leaves every process in a state.
LEMMA SvegliatiTipo ==
    ASSUME TipoTabella, NEW W
    PROVE  Svegliati(W) \in [Posti -> Stati]
  BY DEF TipoTabella, Svegliati, Stati

\* The end of a call.
LEMMA TornaTipo ==
    ASSUME TipoChiamate, NEW s \in Posti, Torna(s), UNCHANGED interrotto
    PROVE  TipoChiamate'
  BY MaxPidAssumption DEF TipoChiamate, Torna, Punti

\* A delivery into a mailbox with a free slot.
LEMMA DepositaTipo ==
    ASSUME TipoAnelli, NEW d \in Posti, NEW m \in Messaggi, Deposita(d, m), count[d] < Depth
    PROVE  TipoAnelli'
  BY DepthAssumption DEF TipoAnelli, Deposita

\* The content of an unused slot is a message like any other.
LEMMA VuotoTipo == Vuoto \in Messaggi
  BY MaxPidAssumption DEF Messaggi, Vuoto, Kernel

\* A message taken from a mailbox that has one.
LEMMA PrelevaTipo ==
    ASSUME TipoAnelli, NEW d \in Posti, Preleva(d), count[d] > 0
    PROVE  TipoAnelli'
  <1>2. buf' \in [Posti -> [0..Depth - 1 -> Messaggi]]
    BY VuotoTipo DEF TipoAnelli, Preleva
  <1>3. head' \in [Posti -> 0..Depth - 1] /\ tail' \in [Posti -> 0..Depth - 1]
    BY DepthAssumption DEF TipoAnelli, Preleva
  <1>4. count' \in [Posti -> 0..Depth]
    BY DepthAssumption DEF TipoAnelli, Preleva
  <1> QED  BY <1>2, <1>3, <1>4 DEF TipoAnelli

\* Giving back a promise.
LEMMA RiservatiSenzaTipo ==
    ASSUME TipoFile, NEW d \in Posti, NEW w \in Posti
    PROVE  RiservatiSenza(d, w) \in Nat
  BY DEF TipoFile, RiservatiSenza

\* Leaving a line.
LEMMA LasciaFilaTipo ==
    ASSUME TypeOK, NEW w \in Posti, LasciaFila(w)
    PROVE  TipoFile' /\ st' \in [Posti -> Stati]
  <1> USE TipoParti
  <1>1. CASE su[w] = Nessuno /\ UNCHANGED <<lineVars, st>>
    BY <1>1 DEF TipoFile, TipoTabella, lineVars
  <1>2. CASE su[w] # Nessuno
    <2> DEFINE d == su[w]
               F == Fila(d) \ {w}
               r == RiservatiSenza(d, w)
    <2>1. d \in Posti /\ F \in SUBSET Posti /\ count[d] \in Nat
      BY <1>2, DepthAssumption DEF TipoFile, TipoAnelli, Fila
    <2>2. r \in Nat
      BY <2>1, RiservatiSenzaTipo
    <2>3. PICK G \in Promosse(F, count[d], r) :
                /\ su' = [su EXCEPT ![w] = Nessuno]
                /\ prima' = [x \in Posti |-> IF x = w THEN {} ELSE prima[x] \ {w}]
                /\ concesso' = (concesso \ {w}) \cup G
                /\ riservati' = [riservati EXCEPT ![d] = r + Cardinality(G)]
                /\ st' = Svegliati(Raggiunti(F, G))
      BY <1>2, Zenon DEF LasciaFila
    <2> HIDE DEF d, F, r
    <2>4. G \in SUBSET Posti /\ Cardinality(G) \in Nat
      BY <2>1, <2>2, PromosseFatti
    <2>5. TipoFile'
      BY <2>1, <2>2, <2>3, <2>4 DEF TipoFile
    <2> QED  BY <2>3, <2>5, SvegliatiTipo
  <1> QED  BY <1>1, <1>2 DEF LasciaFila

\* Waiting in the line, after leaving another one if there is one.
LEMMA SendAspettaTipo ==
    ASSUME TypeOK, NEW s \in Posti, SendAspetta(s)
    PROVE  TipoFile' /\ st' \in [Posti -> Stati]
  <1> USE TipoParti
  <1> DEFINE d == dest[s]
             v == su[s]
             F == Fila(v) \ {s}
             r == RiservatiSenza(v, s)
  <1>0. d \in Posti /\ Fila(d) \in SUBSET Posti
    BY DEF SendAspetta, DestMorto, Fila
  <1>1. CASE v = d
    BY <1>1 DEF SendAspetta, TipoFile, TipoTabella, Stati, lineVars
  <1>2. CASE v # d
    <2>1. PICK G \in IF v = Nessuno THEN {{}} ELSE Promosse(F, count[v], r) :
                  /\ su' = [su EXCEPT ![s] = d]
                  /\ prima' = [x \in Posti |-> IF x = s THEN Fila(d) ELSE prima[x] \ {s}]
                  /\ concesso' = (concesso \ {s}) \cup G
                  /\ riservati' = [x \in Posti |->
                        IF x = v THEN r + Cardinality(G) ELSE riservati[x]]
                  /\ st' = [Svegliati(IF v = Nessuno THEN {} ELSE Raggiunti(F, G))
                              EXCEPT ![s] = "BLOCKED"]
      BY <1>2, Zenon DEF SendAspetta
    <2>2. F \in SUBSET Posti
      BY DEF Fila
    <2>3. v # Nessuno => /\ v \in Posti
                         /\ count[v] \in Nat
                         /\ r \in Nat
      BY DepthAssumption, RiservatiSenzaTipo DEF TipoFile, TipoAnelli
    <2> HIDE DEF d, v, F, r
    <2>4. G \in SUBSET Posti /\ Cardinality(G) \in Nat
      BY <2>2, <2>3, PromosseFatti, FS_EmptySet
    <2>5. TipoFile'
      BY <1>0, <2>1, <2>3, <2>4, PostiAssumption DEF TipoFile
    <2> DEFINE W == IF v = Nessuno THEN {} ELSE Raggiunti(F, G)
    <2>6. Svegliati(W) \in [Posti -> Stati]
      BY SvegliatiTipo
    <2> QED  BY <2>1, <2>5, <2>6 DEF Stati
  <1> QED  BY <1>1, <1>2

\* The death of a process.
LEMMA FinisceTipo ==
    ASSUME TypeOK, NEW s \in Posti, Finisce(s)
    PROVE  TypeOK'
  <1> USE TipoParti
  <1> DEFINE d == su[s]
             F == Fila(d) \ {s}
             r == RiservatiSenza(d, s)
             altrove == d # Nessuno /\ d # s
  <1>1. PICK G \in IF altrove THEN Promosse(F, count[d], r) ELSE {{}} :
         /\ su' = [w \in Posti |-> IF w \in Usciti(s) THEN Nessuno ELSE su[w]]
         /\ prima' = [w \in Posti |-> IF w \in Usciti(s) THEN {} ELSE prima[w] \ {s}]
         /\ concesso' = (concesso \ Usciti(s)) \cup G
         /\ riservati' = [x \in Posti |->
               CASE x = s -> 0
                 [] altrove /\ x = d -> r + Cardinality(G)
                 [] OTHER -> riservati[x]]
         /\ st' = [Svegliati(Fila(s) \cup (IF altrove THEN Raggiunti(F, G) ELSE {}))
                      EXCEPT ![s] = "ZOMBIE"]
    BY Zenon DEF Finisce
  <1>2. F \in SUBSET Posti
    BY DEF Fila
  <1>3. altrove => d \in Posti /\ count[d] \in Nat /\ r \in Nat
    BY DepthAssumption, RiservatiSenzaTipo DEF TipoFile, TipoAnelli
  <1>7. TipoChiamate'
    BY MaxPidAssumption DEF Finisce, TipoChiamate, Punti
  <1>8. TipoAnelli' /\ UNCHANGED procVars /\ morenti' \in SUBSET Posti
    BY DEF Finisce, TipoAnelli, boxVars, TipoTabella
  <1> HIDE DEF d, F, r, altrove
  <1>4. G \in SUBSET Posti /\ Cardinality(G) \in Nat
    BY <1>2, <1>3, PromosseFatti, FS_EmptySet
  <1>5. TipoFile'
    <2>1. su' \in [Posti -> Posti \cup {Nessuno}] /\ prima' \in [Posti -> SUBSET Posti]
      BY <1>1 DEF TipoFile
    <2>2. concesso' \in SUBSET Posti
      BY <1>1, <1>4 DEF TipoFile
    <2>3. riservati' \in [Posti -> Nat]
      BY <1>1, <1>3, <1>4 DEF TipoFile
    <2> QED  BY <2>1, <2>2, <2>3 DEF TipoFile
  <1> DEFINE W == Fila(s) \cup (IF altrove THEN Raggiunti(F, G) ELSE {})
  <1>6. Svegliati(W) \in [Posti -> Stati]
    BY SvegliatiTipo
  <1>9. st' \in [Posti -> Stati]
    BY <1>1, <1>6 DEF Stati
  <1>10. TipoTabella'
    BY <1>8, <1>9 DEF TipoTabella, procVars
  <1> QED  BY <1>5, <1>7, <1>8, <1>10, TipoPartiDopo

\* Whoever may take a slot finds one free.
LEMMA PostoLibero ==
    ASSUME TypeOK, NEW s \in Posti, ~DestMorto(s), Posto(s)
    PROVE  dest[s] \in Posti /\ count[dest[s]] < Depth
  <1>1. dest[s] \in Posti
    BY DEF DestMorto
  <1>2. count[dest[s]] \in Nat /\ riservati[dest[s]] \in Nat
    BY <1>1, DepthAssumption DEF TypeOK
  <1> QED  BY <1>1, <1>2, DepthAssumption DEF Posto

\* A birth.
LEMMA NasceTipo ==
    ASSUME TypeOK, NEW s \in Posti, NEW g \in 0..MaxPid, Nasce(s, g)
    PROVE  TypeOK'
  <1> USE TipoParti
  <1>1. TipoTabella'
    BY MaxPidAssumption DEF Nasce, TipoTabella, Stati
  <1>2. TipoChiamate' /\ TipoFile'
    BY DEF Nasce, TipoChiamate, TipoFile, callVars, lineVars
  <1>3. TipoAnelli'
    BY VuotoTipo DEF Nasce, TipoAnelli
  <1> QED  BY <1>1, <1>2, <1>3, TipoPartiDopo

\* One step of the specification keeps every variable in its type.
LEMMA TipoPasso == TypeOK /\ [Next]_vars => TypeOK'
  <1> SUFFICES ASSUME TypeOK, [Next]_vars
               PROVE  TypeOK'
    OBVIOUS
  <1> USE TipoParti
  <1>1. ASSUME NEW s \in Posti, SendTrova(s) PROVE TypeOK'
    <2>1. TipoChiamate'
      BY <1>1 DEF SendTrova, TipoChiamate, callVars, proc_get_by_pid, Punti
    <2>2. TipoTabella' /\ TipoAnelli' /\ TipoFile'
      BY <1>1 DEF SendTrova, TipoTabella, TipoAnelli, TipoFile, procVars, boxVars, lineVars
    <2> QED  BY <2>1, <2>2, TipoPartiDopo
  <1>2. ASSUME NEW s \in Posti, SendEsrch(s) PROVE TypeOK'
    <2>1. TipoTabella'
      BY <1>2, LasciaFilaTipo DEF SendEsrch, TipoTabella, procVars
    <2>2. TipoChiamate'
      BY <1>2, TornaTipo DEF SendEsrch
    <2>3. TipoFile'
      BY <1>2, LasciaFilaTipo DEF SendEsrch
    <2>4. TipoAnelli'
      BY <1>2 DEF SendEsrch, TipoAnelli, boxVars
    <2> QED  BY <2>1, <2>2, <2>3, <2>4, TipoPartiDopo
  <1>3. ASSUME NEW s \in Posti, SendConsegna(s) PROVE TypeOK'
    <2>1. TipoTabella'
      BY <1>3 DEF SendConsegna, TipoTabella, procVars
    <2>2. TipoChiamate'
      <3>1. CASE st[dest[s]] = "BLOCKED"
        BY <1>3, <3>1 DEF SendConsegna, TipoChiamate, Punti
      <3>2. CASE st[dest[s]] # "BLOCKED"
        BY <1>3, <3>2, TornaTipo DEF SendConsegna
      <3> QED  BY <3>1, <3>2
    <2>3. TipoAnelli'
      <3>1. dest[s] \in Posti /\ count[dest[s]] < Depth
        BY <1>3, PostoLibero DEF SendConsegna
      <3>2. [da |-> pid[s], a |-> destPid[s]] \in Messaggi
        BY DEF Messaggi, TipoTabella, TipoChiamate
      <3> QED  BY <1>3, <3>1, <3>2, DepositaTipo DEF SendConsegna
    <2>4. TipoFile'
      <3>1. dest[s] \in Posti
        BY <1>3 DEF SendConsegna, DestMorto
      <3>2. RiservatiSenza(dest[s], s) \in Nat
        BY <3>1, RiservatiSenzaTipo
      <3> QED  BY <1>3, <3>1, <3>2 DEF SendConsegna, TipoFile, lineVars
    <2> QED  BY <2>1, <2>2, <2>3, <2>4, TipoPartiDopo
  <1>4. ASSUME NEW s \in Posti, SendSveglia(s) PROVE TypeOK'
    <2>1. TipoTabella'
      BY <1>4, SvegliatiTipo DEF SendSveglia, TipoTabella, procVars
    <2>2. TipoChiamate'
      BY <1>4, TornaTipo DEF SendSveglia
    <2>3. TipoAnelli' /\ TipoFile'
      BY <1>4 DEF SendSveglia, TipoAnelli, TipoFile, boxVars, lineVars
    <2> QED  BY <2>1, <2>2, <2>3, TipoPartiDopo
  <1>5. ASSUME NEW s \in Posti, SendEbusySenza(s) PROVE TypeOK'
    <2>1. TipoChiamate'
      BY <1>5, TornaTipo DEF SendEbusySenza
    <2>2. TipoTabella' /\ TipoAnelli' /\ TipoFile'
      BY <1>5 DEF SendEbusySenza, TipoTabella, TipoAnelli, TipoFile, procVars, boxVars, lineVars
    <2> QED  BY <2>1, <2>2, TipoPartiDopo
  <1>6. ASSUME NEW s \in Posti, SendEbusyScaduta(s) PROVE TypeOK'
    <2>1. TipoTabella'
      BY <1>6, LasciaFilaTipo DEF SendEbusyScaduta, TipoTabella, procVars
    <2>2. TipoChiamate'
      BY <1>6, TornaTipo DEF SendEbusyScaduta
    <2>3. TipoFile'
      BY <1>6, LasciaFilaTipo DEF SendEbusyScaduta
    <2>4. TipoAnelli'
      BY <1>6 DEF SendEbusyScaduta, TipoAnelli, boxVars
    <2> QED  BY <2>1, <2>2, <2>3, <2>4, TipoPartiDopo
  <1>7. ASSUME NEW s \in Posti, SendAspetta(s) PROVE TypeOK'
    <2>1. TipoTabella'
      BY <1>7, SendAspettaTipo DEF SendAspetta, TipoTabella, procVars
    <2>2. TipoChiamate'
      BY <1>7 DEF SendAspetta, TipoChiamate, callVars, Punti
    <2>3. TipoFile'
      BY <1>7, SendAspettaTipo
    <2>4. TipoAnelli'
      BY <1>7 DEF SendAspetta, TipoAnelli, boxVars
    <2> QED  BY <2>1, <2>2, <2>3, <2>4, TipoPartiDopo
  <1>8. ASSUME NEW s \in Posti, RecvPrende(s) PROVE TypeOK'
    <2>1. TipoTabella'
      BY <1>8, SvegliatiTipo DEF RecvPrende, TipoTabella, procVars
    <2>2. TipoChiamate'
      BY <1>8, TornaTipo DEF RecvPrende
    <2>3. TipoAnelli'
      BY <1>8, PrelevaTipo DEF RecvPrende
    <2>4. TipoFile'
      <3>1. count[s] - 1 \in Nat /\ riservati[s] \in Nat /\ Fila(s) \in SUBSET Posti
        BY <1>8, DepthAssumption DEF RecvPrende, TipoAnelli, TipoFile, Fila
      <3>2. PICK G \in Promosse(Fila(s), count[s] - 1, riservati[s]) :
               /\ concesso' = concesso \cup G
               /\ riservati' = [riservati EXCEPT ![s] = riservati[s] + Cardinality(G)]
        BY <1>8 DEF RecvPrende
      <3>3. G \in SUBSET Posti /\ Cardinality(G) \in Nat
        BY <3>1, PromosseFatti
      <3> QED  BY <1>8, <3>1, <3>2, <3>3 DEF RecvPrende, TipoFile
    <2> QED  BY <2>1, <2>2, <2>3, <2>4, TipoPartiDopo
  <1>9. ASSUME NEW s \in Posti, RecvScaduta(s) PROVE TypeOK'
    <2>1. TipoChiamate'
      BY <1>9, TornaTipo DEF RecvScaduta
    <2>2. TipoTabella' /\ TipoAnelli' /\ TipoFile'
      BY <1>9 DEF RecvScaduta, TipoTabella, TipoAnelli, TipoFile, procVars, boxVars, lineVars
    <2> QED  BY <2>1, <2>2, TipoPartiDopo
  <1>10. ASSUME NEW s \in Posti, RecvAspetta(s) PROVE TypeOK'
    <2>1. TipoTabella'
      BY <1>10 DEF RecvAspetta, TipoTabella, procVars, Stati
    <2>2. TipoChiamate'
      BY <1>10 DEF RecvAspetta, TipoChiamate, callVars, Punti
    <2>3. TipoAnelli' /\ TipoFile'
      BY <1>10 DEF RecvAspetta, TipoAnelli, TipoFile, boxVars, lineVars
    <2> QED  BY <2>1, <2>2, <2>3, TipoPartiDopo
  <1>11. ASSUME NEW s \in Posti, RecvRisveglio(s) PROVE TypeOK'
    <2>1. TipoChiamate'
      <3>1. CASE s \in interrotto
        BY <1>11, <3>1, TornaTipo DEF RecvRisveglio
      <3>2. CASE s \notin interrotto
        BY <1>11, <3>2 DEF RecvRisveglio, TipoChiamate, Punti
      <3> QED  BY <3>1, <3>2
    <2>2. TipoTabella' /\ TipoAnelli' /\ TipoFile'
      BY <1>11 DEF RecvRisveglio, TipoTabella, TipoAnelli, TipoFile, procVars, boxVars, lineVars
    <2> QED  BY <2>1, <2>2, TipoPartiDopo
  <1>12. ASSUME NEW s \in Posti, RitornoUtente(s) PROVE TypeOK'
    <2>1. TipoChiamate'
      BY <1>12 DEF RitornoUtente, TipoChiamate, callVars, Punti
    <2>2. TipoTabella' /\ TipoAnelli' /\ TipoFile'
      BY <1>12 DEF RitornoUtente, TipoTabella, TipoAnelli, TipoFile, procVars, boxVars, lineVars
    <2> QED  BY <2>1, <2>2, TipoPartiDopo
  <1>13. ASSUME NEW s \in Posti, RitornoInterrotto(s) PROVE TypeOK'
    <2>1. TipoTabella'
      BY <1>13 DEF RitornoInterrotto, Termina, Gruppo, TipoTabella, procVars
    <2>2. TipoChiamate' /\ TipoAnelli' /\ TipoFile'
      BY <1>13 DEF RitornoInterrotto, Termina, TipoChiamate, TipoAnelli, TipoFile, callVars, boxVars, lineVars
    <2> QED  BY <2>1, <2>2, TipoPartiDopo
  <1>14. ASSUME NEW s \in Posti, Crea(s) PROVE TypeOK'
    <2>1. nextPid \in 0..MaxPid
      BY <1>14 DEF Crea, Nasce, TipoTabella
    <2> QED  BY <1>14, <2>1, NasceTipo DEF Crea
  <1>15. ASSUME NEW s \in Posti, proc_set_ready(s) PROVE TypeOK'
    <2>1. TipoTabella'
      BY <1>15 DEF proc_set_ready, TipoTabella, procVars, Stati
    <2>2. TipoChiamate' /\ TipoAnelli' /\ TipoFile'
      BY <1>15 DEF proc_set_ready, TipoChiamate, TipoAnelli, TipoFile, callVars, boxVars, lineVars
    <2> QED  BY <2>1, <2>2, TipoPartiDopo
  <1>16. ASSUME NEW s \in Posti, EsciGruppo(s) PROVE TypeOK'
    <2>1. TipoTabella'
      BY <1>16 DEF EsciGruppo, Termina, Gruppo, TipoTabella, procVars
    <2>2. TipoChiamate' /\ TipoAnelli' /\ TipoFile'
      BY <1>16 DEF EsciGruppo, Termina, TipoChiamate, TipoAnelli, TipoFile, callVars, boxVars, lineVars
    <2> QED  BY <2>1, <2>2, TipoPartiDopo
  <1>17. ASSUME NEW s \in Posti, EsciFilo(s) PROVE TypeOK'
    <2>1. TipoTabella'
      BY <1>17 DEF EsciFilo, Termina, TipoTabella, procVars
    <2>2. TipoChiamate' /\ TipoAnelli' /\ TipoFile'
      BY <1>17 DEF EsciFilo, Termina, TipoChiamate, TipoAnelli, TipoFile, callVars, boxVars, lineVars
    <2> QED  BY <2>1, <2>2, TipoPartiDopo
  <1>18. ASSUME NEW s \in Posti, UccidiNascente(s) PROVE TypeOK'
    <2>1. TipoTabella'
      BY <1>18 DEF UccidiNascente, Termina, TipoTabella, procVars
    <2>2. TipoChiamate' /\ TipoAnelli' /\ TipoFile'
      BY <1>18 DEF UccidiNascente, Termina, TipoChiamate, TipoAnelli, TipoFile, callVars, boxVars, lineVars
    <2> QED  BY <2>1, <2>2, TipoPartiDopo
  <1>19. ASSUME NEW s \in Posti, proc_reap_zombie(s) PROVE TypeOK'
    <2>1. TipoTabella'
      BY <1>19, MaxPidAssumption DEF proc_reap_zombie, TipoTabella, Stati
    <2>2. TipoAnelli'
      <3>1. head' \in [Posti -> 0..Depth - 1] /\ tail' \in [Posti -> 0..Depth - 1]
        BY <1>19, DepthAssumption DEF proc_reap_zombie, TipoAnelli
      <3>2. count' \in [Posti -> 0..Depth]
        BY <1>19, DepthAssumption DEF proc_reap_zombie, TipoAnelli
      <3>3. buf' \in [Posti -> [0..Depth - 1 -> Messaggi]]
        BY <1>19, VuotoTipo DEF proc_reap_zombie, TipoAnelli
      <3> QED  BY <3>1, <3>2, <3>3 DEF TipoAnelli
    <2>3. TipoChiamate' /\ TipoFile'
      BY <1>19 DEF proc_reap_zombie, TipoChiamate, TipoFile, callVars, lineVars
    <2> QED  BY <2>1, <2>2, <2>3, TipoPartiDopo
  <1>20. ASSUME NEW s \in Posti, SendInizia(s) PROVE TypeOK'
    <2>1. TipoChiamate'
      BY <1>20, MaxPidAssumption DEF SendInizia, TipoChiamate, Punti
    <2>2. TipoTabella' /\ TipoAnelli' /\ TipoFile'
      BY <1>20 DEF SendInizia, TipoTabella, TipoAnelli, TipoFile, procVars, boxVars, lineVars
    <2> QED  BY <2>1, <2>2, TipoPartiDopo
  <1>21. ASSUME NEW s \in Posti, RecvInizia(s) PROVE TypeOK'
    <2>1. TipoChiamate'
      BY <1>21 DEF RecvInizia, TipoChiamate, callVars, Punti
    <2>2. TipoTabella' /\ TipoAnelli' /\ TipoFile'
      BY <1>21 DEF RecvInizia, TipoTabella, TipoAnelli, TipoFile, procVars, boxVars, lineVars
    <2> QED  BY <2>1, <2>2, TipoPartiDopo
  <1>22. ASSUME NEW s \in Posti, proc_interrompi(s) PROVE TypeOK'
    <2>1. TipoTabella'
      BY <1>22, SvegliatiTipo DEF proc_interrompi, TipoTabella, procVars
    <2>2. TipoChiamate'
      BY <1>22 DEF proc_interrompi, TipoChiamate, callVars
    <2>3. TipoAnelli' /\ TipoFile'
      BY <1>22 DEF proc_interrompi, TipoAnelli, TipoFile, boxVars, lineVars
    <2> QED  BY <2>1, <2>2, <2>3, TipoPartiDopo
  <1>23. ASSUME NEW s \in Posti, sveglia_per(s) PROVE TypeOK'
    <2>1. TipoTabella'
      BY <1>23, SvegliatiTipo DEF sveglia_per, TipoTabella, procVars
    <2>2. TipoChiamate' /\ TipoAnelli' /\ TipoFile'
      BY <1>23 DEF sveglia_per, TipoChiamate, TipoAnelli, TipoFile, callVars, boxVars, lineVars
    <2> QED  BY <2>1, <2>2, TipoPartiDopo
  <1>24. ASSUME NEW s \in Posti, Scade(s) PROVE TypeOK'
    <2>1. TipoTabella'
      BY <1>24, SvegliatiTipo DEF Scade, TipoTabella, procVars
    <2>2. TipoChiamate'
      BY <1>24 DEF Scade, TipoChiamate, callVars
    <2>3. TipoAnelli' /\ TipoFile'
      BY <1>24 DEF Scade, TipoAnelli, TipoFile, boxVars, lineVars
    <2> QED  BY <2>1, <2>2, <2>3, TipoPartiDopo
  <1>25. ASSUME NEW s \in Posti, ipc_notify_irq(s) PROVE TypeOK'
    <2>1. TipoTabella'
      BY <1>25, SvegliatiTipo DEF ipc_notify_irq, TipoTabella, procVars
    <2>2. TipoAnelli'
      <3>1. pid[s] \in 0..MaxPid /\ [da |-> Kernel, a |-> pid[s]] \in Messaggi
        BY MaxPidAssumption DEF Messaggi, TipoTabella, Kernel
      <3> QED  BY <1>25, <3>1, DepositaTipo DEF ipc_notify_irq
    <2>3. TipoChiamate' /\ TipoFile'
      BY <1>25 DEF ipc_notify_irq, TipoChiamate, TipoFile, callVars, lineVars
    <2> QED  BY <2>1, <2>2, <2>3, TipoPartiDopo
  <1>26. ASSUME NEW s \in Posti, Finisce(s) PROVE TypeOK'
    BY <1>26, FinisceTipo
  <1>27. ASSUME NEW s \in Posti, NEW t \in Posti, CreaFilo(s, t) PROVE TypeOK'
    <2>1. tgid[t] \in 0..MaxPid
      BY DEF TipoTabella
    <2> QED  BY <1>27, <2>1, NasceTipo DEF CreaFilo
  <1>28. CASE UNCHANGED vars
    BY <1>28 DEF TypeOK, vars, procVars, callVars, boxVars, lineVars
  <1> QED
    BY <1>1, <1>2, <1>3, <1>4, <1>5, <1>6, <1>7, <1>8, <1>9, <1>10, <1>11, <1>12, <1>13, <1>14, <1>15, <1>16, <1>17, <1>18, <1>19, <1>20, <1>21, <1>22, <1>23, <1>24, <1>25, <1>26, <1>27, <1>28
       DEF Next, Chiamata, Programma, Ambiente

\* The type invariant holds in every behaviour.
THEOREM TipoSempre == Spec => []TypeOK
  <1>1. Init => TypeOK
    BY VuotoTipo, DepthAssumption, MaxPidAssumption
       DEF Init, TypeOK, Stati, Punti
  <1> QED  BY <1>1, TipoPasso, PTL DEF Spec

-----------------------------------------------------------------------------
(* The ring is a queue.                                                    *)

\* What the ring needs, beside the types: ipc_tail is where head and count say,
\* and a free slot of the table has an empty mailbox (pcb_alloc clears the
\* messages and not the counters).
AnelloInv ==
    /\ \A d \in Posti : tail[d] = (head[d] + count[d]) % Depth
    /\ \A d \in Posti : st[d] = "UNUSED" => count[d] = 0

\* The modulus of the ring, for what is at most one turn too far.
LEMMA GiroAnello ==
    ASSUME NEW n \in Nat, n < Depth + Depth
    PROVE  n % Depth = (IF n < Depth THEN n ELSE n - Depth)
  <1>1. Depth \in Nat \ {0}
    BY DepthAssumption
  <1>2. CASE n < Depth
    BY <1>1, <1>2
  <1>3. CASE ~(n < Depth)
    <2>1. PICK k \in Nat : k = n - Depth
      BY <1>1, <1>3
    <2>2. k % Depth = k
      BY <1>1, <2>1
    <2>3. (k + Depth) % Depth = k
      BY <1>1, <2>1, <2>2
    <2> QED  BY <1>1, <1>3, <2>1, <2>3
  <1> QED  BY <1>2, <1>3

Contenuti == [0..Depth - 1 -> Messaggi]

\* The n messages of ring b that begin at h.
Lista(b, h, n) == [i \in 1..n |-> b[(h + i - 1) % Depth]]

\* They are a sequence.
LEMMA ListaSeq ==
    ASSUME NEW b \in Contenuti, NEW h \in 0..Depth - 1, NEW n \in 0..Depth
    PROVE  /\ Lista(b, h, n) \in Seq(Messaggi)
           /\ Len(Lista(b, h, n)) = n
           /\ \A i \in 1..n : Lista(b, h, n)[i] = b[(h + i - 1) % Depth]
  <1>1. Depth \in Nat \ {0} /\ n \in Nat
    BY DepthAssumption
  <1>2. \A i \in 1..n : (h + i - 1) % Depth \in 0..Depth - 1
    BY <1>1
  <1>3. \A i \in 1..n : b[(h + i - 1) % Depth] \in Messaggi
    BY <1>1, <1>2 DEF Contenuti
  <1>4. Lista(b, h, n) \in [1..n -> Messaggi]
    BY <1>3 DEF Lista
  <1>5. Lista(b, h, n) \in Seq(Messaggi) /\ Len(Lista(b, h, n)) = n
    BY <1>1, <1>4
  <1>6. \A i \in 1..n : Lista(b, h, n)[i] = b[(h + i - 1) % Depth]
    BY DEF Lista
  <1> QED  BY <1>5, <1>6

\* Two sequences as long, and equal place by place.
LEMMA SeqUguali ==
    ASSUME NEW s \in Seq(Messaggi), NEW t \in Seq(Messaggi), Len(s) = Len(t),
           \A i \in 1..Len(s) : s[i] = t[i]
    PROVE  s = t
  OBVIOUS

\* A message put at the tail is the last of the queue.
LEMMA ListaMette ==
    ASSUME NEW b \in Contenuti, NEW h \in 0..Depth - 1, NEW n \in 0..Depth - 1, NEW m \in Messaggi
    PROVE  Lista([b EXCEPT ![(h + n) % Depth] = m], h, n + 1) = Append(Lista(b, h, n), m)
  <1>0. Depth \in Nat \ {0} /\ n \in Nat /\ n + 1 \in 0..Depth /\ n \in 0..Depth /\ h \in Nat
    BY DepthAssumption
  <1>1. PICK t \in 0..Depth - 1 : t = (h + n) % Depth
    BY <1>0
  <1>2. PICK c : c = [b EXCEPT ![t] = m]
    OBVIOUS
  <1>3. c \in Contenuti
    BY <1>2 DEF Contenuti
  <1>4. \A i \in 1..n : (h + i - 1) % Depth # t
    <2> SUFFICES ASSUME NEW i \in 1..n PROVE (h + i - 1) % Depth # t
      OBVIOUS
    <2>1. h + i - 1 \in Nat /\ h + i - 1 < Depth + Depth /\ h + n < Depth + Depth /\ h + n \in Nat
      BY <1>0
    <2>2. PICK x \in Nat, y \in Nat : x = h + i - 1 /\ y = h + n
      BY <2>1
    <2>3. /\ x % Depth = IF x < Depth THEN x ELSE x - Depth
          /\ y % Depth = IF y < Depth THEN y ELSE y - Depth
      BY <2>1, <2>2, GiroAnello
    <2> QED  BY <1>0, <1>1, <2>2, <2>3
  <1>5. \A i \in 1..n : c[(h + i - 1) % Depth] = b[(h + i - 1) % Depth]
    <2>1. \A i \in 1..n : (h + i - 1) % Depth \in 0..Depth - 1
      BY <1>0
    <2> QED  BY <1>2, <1>4, <2>1 DEF Contenuti
  <1>6. c[(h + (n + 1) - 1) % Depth] = m
    <2>1. h + (n + 1) - 1 = h + n
      BY <1>0
    <2> QED  BY <1>1, <1>2, <2>1 DEF Contenuti
  <1> DEFINE u == Lista(c, h, n + 1)
             v == Append(Lista(b, h, n), m)
  <1>7. /\ u \in Seq(Messaggi) /\ Len(u) = n + 1
        /\ \A i \in 1..n + 1 : u[i] = c[(h + i - 1) % Depth]
    BY <1>0, <1>3, ListaSeq
  <1>8. /\ Lista(b, h, n) \in Seq(Messaggi) /\ Len(Lista(b, h, n)) = n
        /\ \A i \in 1..n : Lista(b, h, n)[i] = b[(h + i - 1) % Depth]
    BY <1>0, ListaSeq
  <1>9. /\ v \in Seq(Messaggi) /\ Len(v) = n + 1 /\ v[n + 1] = m
        /\ \A i \in 1..n : v[i] = Lista(b, h, n)[i]
    BY <1>0, <1>8
  <1> HIDE DEF u, v
  <1>10. \A i \in 1..n + 1 : u[i] = v[i]
    <2> SUFFICES ASSUME NEW i \in 1..n + 1 PROVE u[i] = v[i]
      OBVIOUS
    <2>1. CASE i = n + 1
      BY <1>6, <1>7, <1>9, <2>1
    <2>2. CASE i # n + 1
      <3>1. i \in 1..n
        BY <1>0, <2>2
      <3> QED  BY <1>5, <1>7, <1>8, <1>9, <3>1
    <2> QED  BY <2>1, <2>2
  <1>11. u = v
    BY <1>7, <1>9, <1>10, SeqUguali
  <1> QED  BY <1>1, <1>2, <1>11 DEF u, v

\* The message at the head is the first of the queue.
LEMMA ListaToglie ==
    ASSUME NEW b \in Contenuti, NEW h \in 0..Depth - 1, NEW n \in 1..Depth
    PROVE  Lista([b EXCEPT ![h] = Vuoto], (h + 1) % Depth, n - 1) = Tail(Lista(b, h, n))
  <1>0. Depth \in Nat \ {0} /\ n \in Nat /\ n - 1 \in 0..Depth /\ n \in 0..Depth /\ h \in Nat
    BY DepthAssumption
  <1>1. PICK t \in 0..Depth - 1 : t = (h + 1) % Depth
    BY <1>0
  <1>2. PICK c : c = [b EXCEPT ![h] = Vuoto]
    OBVIOUS
  <1>3. c \in Contenuti
    BY <1>2, VuotoTipo DEF Contenuti
  <1>4. \A i \in 1..n - 1 : (t + i - 1) % Depth = (h + (i + 1) - 1) % Depth /\ (t + i - 1) % Depth # h
    <2> SUFFICES ASSUME NEW i \in 1..n - 1
                 PROVE  (t + i - 1) % Depth = (h + (i + 1) - 1) % Depth /\ (t + i - 1) % Depth # h
      OBVIOUS
    <2>1. /\ t + i - 1 \in Nat /\ t + i - 1 < Depth + Depth /\ h + i < Depth + Depth /\ h + i \in Nat
          /\ h + 1 \in Nat /\ h + 1 < Depth + Depth
          /\ h + (i + 1) - 1 = h + i
      BY <1>0
    <2>2. PICK x \in Nat, y \in Nat, z \in Nat : x = t + i - 1 /\ y = h + i /\ z = h + 1
      BY <2>1
    <2>3. /\ x % Depth = IF x < Depth THEN x ELSE x - Depth
          /\ y % Depth = IF y < Depth THEN y ELSE y - Depth
          /\ z % Depth = IF z < Depth THEN z ELSE z - Depth
      BY <1>0, <2>1, <2>2, GiroAnello
    <2> QED  BY <1>0, <1>1, <2>1, <2>2, <2>3
  <1>5. \A i \in 1..n - 1 : c[(t + i - 1) % Depth] = b[(h + (i + 1) - 1) % Depth]
    <2>1. \A i \in 1..n - 1 : (t + i - 1) % Depth \in 0..Depth - 1
      BY <1>0
    <2> QED  BY <1>2, <1>4, <2>1 DEF Contenuti
  <1> DEFINE u == Lista(c, t, n - 1)
             v == Tail(Lista(b, h, n))
  <1>7. /\ u \in Seq(Messaggi) /\ Len(u) = n - 1
        /\ \A i \in 1..n - 1 : u[i] = c[(t + i - 1) % Depth]
    BY <1>0, <1>3, ListaSeq
  <1>8. /\ Lista(b, h, n) \in Seq(Messaggi) /\ Len(Lista(b, h, n)) = n
        /\ \A i \in 1..n : Lista(b, h, n)[i] = b[(h + i - 1) % Depth]
    BY <1>0, ListaSeq
  <1>9. /\ v \in Seq(Messaggi) /\ Len(v) = n - 1
        /\ \A i \in 1..n - 1 : v[i] = Lista(b, h, n)[i + 1]
    BY <1>0, <1>8
  <1> HIDE DEF u, v
  <1>10. \A i \in 1..n - 1 : u[i] = v[i]
    <2> SUFFICES ASSUME NEW i \in 1..n - 1 PROVE u[i] = v[i]
      OBVIOUS
    <2>1. i + 1 \in 1..n
      BY <1>0
    <2> QED  BY <1>5, <1>7, <1>8, <1>9, <2>1
  <1>11. u = v
    BY <1>7, <1>9, <1>10, SeqUguali
  <1> QED  BY <1>1, <1>2, <1>11 DEF u, v

\* No slot of the table is freed.
NienteLiberi == \A d \in Posti : st'[d] = "UNUSED" => st[d] = "UNUSED"

Avvisi == [da : 0..MaxPid, a : 1..MaxPid]

\* What a step may do to the mailboxes.
Effetto ==
    \/ UNCHANGED boxVars /\ NienteLiberi
    \/ \E d \in Posti, m \in Avvisi :
          st[d] # "UNUSED" /\ count[d] < Depth /\ Deposita(d, m) /\ NienteLiberi
    \/ \E d \in Posti : count[d] > 0 /\ Preleva(d) /\ NienteLiberi
    \/ \E d \in Posti :
          /\ head' = [head EXCEPT ![d] = 0] /\ tail' = [tail EXCEPT ![d] = 0]
          /\ count' = [count EXCEPT ![d] = 0]
          /\ buf' = [buf EXCEPT ![d] = [i \in 0..Depth - 1 |-> Vuoto]]
          /\ \A x \in Posti : x # d /\ st'[x] = "UNUSED" => st[x] = "UNUSED"
    \/ \E d \in Posti :
          /\ st[d] = "UNUSED" /\ NienteLiberi
          /\ buf' = [buf EXCEPT ![d] = [i \in 0..Depth - 1 |-> Vuoto]]
          /\ UNCHANGED <<head, tail, count>>

\* Whoever is in ipc_send has a destination.
Diretti == \A s \in Posti : pc[s] \in {"trova", "send", "sveglia"} => destPid[s] # 0

\* A wake frees no slot.
LEMMA SvegliatiLiberi ==
    ASSUME TypeOK, NEW W, NEW s \in Posti, NEW v, v # "UNUSED",
           st' = Svegliati(W) \/ st' = [Svegliati(W) EXCEPT ![s] = v]
    PROVE  NienteLiberi
  <1>1. Svegliati(W) \in [Posti -> Stati]
    BY SvegliatiTipo, TipoParti
  <1>2. \A d \in Posti : Svegliati(W)[d] = "UNUSED" => st[d] = "UNUSED"
    BY DEF Svegliati
  <1> HIDE DEF Svegliati
  <1> QED  BY <1>1, <1>2 DEF NienteLiberi

\* Nor does leaving a line.
LEMMA LasciaLiberi ==
    ASSUME TypeOK, NEW s \in Posti, LasciaFila(s)
    PROVE  NienteLiberi
  <1>1. st' = st \/ \E W : st' = Svegliati(W)
    BY Zenon DEF LasciaFila, lineVars
  <1>2. CASE st' = st
    BY <1>2 DEF NienteLiberi
  <1>3. CASE \E W : st' = Svegliati(W)
    BY <1>3 DEF NienteLiberi, Svegliati
  <1> QED  BY <1>1, <1>2, <1>3

\* The end of a call keeps Diretti.
LEMMA TornaDiretti ==
    ASSUME TypeOK, Diretti, NEW s \in Posti, Torna(s)
    PROVE  Diretti'
  BY DEF TypeOK, Diretti, Torna

\* Every step has one of these effects, and sends to a pid.
LEMMA PassoAnello == TypeOK /\ Diretti /\ [Next]_vars => Effetto /\ Diretti'
  <1> SUFFICES ASSUME TypeOK, Diretti, [Next]_vars PROVE Effetto /\ Diretti'
    OBVIOUS
  <1>1. ASSUME NEW s \in Posti, SendEsrch(s) \/ SendEbusyScaduta(s) PROVE Effetto /\ Diretti'
    <2>1. NienteLiberi /\ Diretti'
      BY <1>1, LasciaLiberi, TornaDiretti DEF SendEsrch, SendEbusyScaduta
    <2> QED  BY <1>1, <2>1 DEF SendEsrch, SendEbusyScaduta, Effetto
  <1>2. ASSUME NEW s \in Posti, SendConsegna(s) PROVE Effetto /\ Diretti'
    <2>1. dest[s] \in Posti /\ count[dest[s]] < Depth /\ st[dest[s]] # "UNUSED"
      BY <1>2, PostoLibero DEF SendConsegna, DestMorto, Vivo
    <2>2. [da |-> pid[s], a |-> destPid[s]] \in Avvisi
      BY <1>2, MaxPidAssumption DEF SendConsegna, Avvisi, TypeOK, Diretti
    <2>3. NienteLiberi /\ Deposita(dest[s], [da |-> pid[s], a |-> destPid[s]])
      BY <1>2 DEF SendConsegna, NienteLiberi
    <2>4. Effetto
      BY <2>1, <2>2, <2>3, Zenon DEF Effetto
    <2>5. Diretti'
      <3>1. CASE Torna(s)
        BY <3>1, TornaDiretti
      <3>2. CASE pc' = [pc EXCEPT ![s] = "sveglia"] /\ UNCHANGED destPid
        BY <1>2, <3>2 DEF SendConsegna, Diretti, TypeOK
      <3> QED  BY <1>2, <3>1, <3>2 DEF SendConsegna
    <2> QED  BY <2>4, <2>5
  <1>3. ASSUME NEW s \in Posti, SendSveglia(s) PROVE Effetto /\ Diretti'
    <2>1. NienteLiberi /\ Diretti'
      BY <1>3, TornaDiretti DEF SendSveglia, NienteLiberi, Svegliati
    <2> QED  BY <1>3, <2>1 DEF SendSveglia, Effetto
  <1>4. ASSUME NEW s \in Posti, SendAspetta(s) PROVE Effetto /\ Diretti'
    <2>1. st' = [st EXCEPT ![s] = "BLOCKED"] \/ \E W : st' = [Svegliati(W) EXCEPT ![s] = "BLOCKED"]
      BY <1>4, Zenon DEF SendAspetta
    <2>2. NienteLiberi
      <3>1. CASE st' = [st EXCEPT ![s] = "BLOCKED"]
        BY <3>1 DEF NienteLiberi, TypeOK
      <3>2. CASE \E W : st' = [Svegliati(W) EXCEPT ![s] = "BLOCKED"]
        BY <3>2, SvegliatiLiberi
      <3> QED  BY <2>1, <3>1, <3>2
    <2>3. Diretti'
      BY <1>4 DEF SendAspetta, Diretti, TypeOK
    <2> QED  BY <1>4, <2>2, <2>3 DEF SendAspetta, Effetto
  <1>5. ASSUME NEW s \in Posti, RecvPrende(s) PROVE Effetto /\ Diretti'
    <2>1. \E W : st' = Svegliati(W)
      BY <1>5, Zenon DEF RecvPrende
    <2>2. NienteLiberi
      BY <2>1 DEF NienteLiberi, Svegliati
    <2>3. Diretti'
      BY <1>5, TornaDiretti DEF RecvPrende
    <2>4. count[s] > 0 /\ Preleva(s)
      BY <1>5 DEF RecvPrende
    <2> QED  BY <2>2, <2>3, <2>4, Zenon DEF Effetto
  <1>6. ASSUME NEW s \in Posti, SendTrova(s) \/ SendInizia(s) PROVE Effetto /\ Diretti'
    <2>1. NienteLiberi /\ UNCHANGED boxVars
      BY <1>6 DEF SendTrova, SendInizia, NienteLiberi
    <2>2. Diretti'
      BY <1>6, MaxPidAssumption DEF SendTrova, SendInizia, Diretti, TypeOK
    <2> QED  BY <2>1, <2>2 DEF Effetto
  <1>7. ASSUME NEW s \in Posti, SendEbusySenza(s) \/ RecvScaduta(s) PROVE Effetto /\ Diretti'
    <2>1. NienteLiberi /\ UNCHANGED boxVars
      BY <1>7 DEF SendEbusySenza, RecvScaduta, NienteLiberi
    <2>2. Diretti'
      BY <1>7, TornaDiretti DEF SendEbusySenza, RecvScaduta
    <2> QED  BY <2>1, <2>2 DEF Effetto
  <1>8. ASSUME NEW s \in Posti, RecvAspetta(s) \/ RecvRisveglio(s) \/ RitornoUtente(s) \/ RecvInizia(s)
        PROVE  Effetto /\ Diretti'
    <2>1. NienteLiberi /\ UNCHANGED boxVars
      BY <1>8 DEF RecvAspetta, RecvRisveglio, RitornoUtente, RecvInizia, NienteLiberi, TypeOK
    <2>2. Diretti'
      <3>1. CASE Torna(s)
        BY <3>1, TornaDiretti
      <3>2. CASE UNCHANGED destPid /\ \E l \in {"recv", "risveglio", "usr"} : pc' = [pc EXCEPT ![s] = l]
        BY <3>2 DEF Diretti, TypeOK
      <3> QED  BY <1>8, <3>1, <3>2 DEF RecvAspetta, RecvRisveglio, RitornoUtente, RecvInizia
    <2> QED  BY <2>1, <2>2 DEF Effetto
  <1>9. ASSUME NEW s \in Posti,
               RitornoInterrotto(s) \/ EsciGruppo(s) \/ EsciFilo(s) \/ UccidiNascente(s)
        PROVE  Effetto /\ Diretti'
    <2>1. UNCHANGED <<st, pc, destPid>> /\ UNCHANGED boxVars
      BY <1>9 DEF RitornoInterrotto, EsciGruppo, EsciFilo, UccidiNascente, Termina, callVars
    <2> QED  BY <2>1 DEF Effetto, NienteLiberi, Diretti
  <1>10. ASSUME NEW s \in Posti,
                proc_set_ready(s) \/ proc_interrompi(s) \/ sveglia_per(s) \/ Scade(s)
         PROVE  Effetto /\ Diretti'
    <2>1. NienteLiberi
      BY <1>10 DEF proc_set_ready, proc_interrompi, sveglia_per, Scade, NienteLiberi, Svegliati, TypeOK
    <2>2. UNCHANGED <<pc, destPid>> /\ UNCHANGED boxVars
      BY <1>10 DEF proc_set_ready, proc_interrompi, sveglia_per, Scade, callVars
    <2> QED  BY <2>1, <2>2 DEF Effetto, Diretti
  <1>11. ASSUME NEW s \in Posti, ipc_notify_irq(s) PROVE Effetto /\ Diretti'
    <2>1. NienteLiberi
      BY <1>11 DEF ipc_notify_irq, NienteLiberi, Svegliati
    <2>2. [da |-> Kernel, a |-> pid[s]] \in Avvisi
      <3>1. pid[s] \in 1..MaxPid
        BY <1>11, MaxPidAssumption DEF ipc_notify_irq
      <3>2. Kernel \in 0..MaxPid
        BY MaxPidAssumption DEF Kernel
      <3> QED  BY <3>1, <3>2 DEF Avvisi
    <2>3. st[s] # "UNUSED" /\ count[s] < Depth /\ Deposita(s, [da |-> Kernel, a |-> pid[s]])
      BY <1>11 DEF ipc_notify_irq, Vivo
    <2>4. Diretti'
      BY <1>11 DEF ipc_notify_irq, callVars, Diretti
    <2> QED  BY <2>1, <2>2, <2>3, <2>4, Zenon DEF Effetto
  <1>12. ASSUME NEW s \in Posti, Finisce(s) PROVE Effetto /\ Diretti'
    <2>1. \E W : st' = [Svegliati(W) EXCEPT ![s] = "ZOMBIE"]
      BY <1>12, Zenon DEF Finisce
    <2>2. NienteLiberi
      BY <2>1, SvegliatiLiberi
    <2>3. Diretti'
      BY <1>12 DEF Finisce, Diretti, TypeOK
    <2> QED  BY <1>12, <2>2, <2>3 DEF Finisce, Effetto
  <1>13. ASSUME NEW s \in Posti, NEW g, Nasce(s, g) PROVE Effetto /\ Diretti'
    <2>1. NienteLiberi
      BY <1>13 DEF Nasce, NienteLiberi, TypeOK
    <2>2. Diretti'
      BY <1>13 DEF Nasce, callVars, Diretti
    <2> QED  BY <1>13, <2>1, <2>2 DEF Nasce, Effetto
  <1>14. ASSUME NEW s \in Posti, proc_reap_zombie(s) PROVE Effetto /\ Diretti'
    <2>1. \A x \in Posti : x # s /\ st'[x] = "UNUSED" => st[x] = "UNUSED"
      BY <1>14 DEF proc_reap_zombie, TypeOK
    <2>2. Diretti'
      BY <1>14 DEF proc_reap_zombie, callVars, Diretti
    <2> QED  BY <1>14, <2>1, <2>2 DEF proc_reap_zombie, Effetto
  <1>15. CASE UNCHANGED vars
    BY <1>15 DEF vars, callVars, Effetto, NienteLiberi, Diretti
  <1>16. CASE Next
    BY <1>16, <1>1, <1>2, <1>3, <1>4, <1>5, <1>6, <1>7, <1>8, <1>9, <1>10, <1>11, <1>12, <1>13, <1>14
       DEF Next, Chiamata, Programma, Ambiente, Crea, CreaFilo
  <1> QED  BY <1>15, <1>16
\* A mailbox is the list of its ring.
LEMMA AnelloLista == \A d \in Posti : Anello(d) = Lista(buf[d], head[d], count[d])
  BY DEF Anello, Lista

\* The same after a step.
LEMMA AnelloListaDopo == \A d \in Posti : Anello(d)' = Lista(buf'[d], head'[d], count'[d])
  BY DEF Anello, Lista

\* The types of one ring.
LEMMA UnAnello ==
    ASSUME TypeOK, NEW d \in Posti
    PROVE  buf[d] \in Contenuti /\ head[d] \in 0..Depth - 1 /\ count[d] \in 0..Depth
  BY DEF TypeOK, Contenuti

Code == [d \in Posti |-> Anello(d)]

\* A delivery: the counters agree afterwards, and the message is the last.
LEMMA DepositaCode ==
    ASSUME TypeOK, AnelloInv, NEW d \in Posti, NEW m \in Avvisi,
           st[d] # "UNUSED", count[d] < Depth, Deposita(d, m), NienteLiberi
    PROVE  /\ AnelloInv'
           /\ Len(Code[d]) < Depth /\ Code' = [Code EXCEPT ![d] = Append(@, m)]
  <1>0. /\ buf[d] \in Contenuti /\ head[d] \in 0..Depth - 1 /\ count[d] \in 0..Depth - 1
        /\ tail[d] = (head[d] + count[d]) % Depth
    BY UnAnello, DepthAssumption DEF AnelloInv
  <1>1. /\ buf'[d] = [buf[d] EXCEPT ![(head[d] + count[d]) % Depth] = m]
        /\ head'[d] = head[d] /\ count'[d] = count[d] + 1
        /\ tail'[d] = (tail[d] + 1) % Depth
        /\ \A x \in Posti : x # d => /\ buf'[x] = buf[x] /\ head'[x] = head[x]
                                     /\ count'[x] = count[x] /\ tail'[x] = tail[x]
    BY <1>0 DEF Deposita, TypeOK
  <1>2. m \in Messaggi
    BY DEF Avvisi, Messaggi
  <1>3. Lista(buf'[d], head'[d], count'[d]) = Append(Lista(buf[d], head[d], count[d]), m)
    <2>1. Lista([buf[d] EXCEPT ![(head[d] + count[d]) % Depth] = m], head[d], count[d] + 1)
            = Append(Lista(buf[d], head[d], count[d]), m)
      BY <1>0, <1>2, ListaMette, Zenon
    <2> QED  BY <1>1, <2>1, Zenon
  <1>4. Anello(d)' = Append(Anello(d), m) /\ \A x \in Posti : x # d => Anello(x)' = Anello(x)
    BY <1>1, <1>3, AnelloLista, AnelloListaDopo
  <1>5. Code' = [Code EXCEPT ![d] = Append(@, m)]
    BY <1>4 DEF Code
  <1>6. Len(Code[d]) < Depth
    <2>1. count[d] \in 0..Depth
      BY <1>0, DepthAssumption
    <2>2. Len(Lista(buf[d], head[d], count[d])) = count[d]
      BY <1>0, <2>1, ListaSeq
    <2> QED  BY <2>2, AnelloLista DEF Code
  <1>7. tail'[d] = (head'[d] + count'[d]) % Depth
    <2>1. PICK x \in Nat : x = head[d] + count[d]
      BY <1>0, DepthAssumption
    <2>2. x % Depth = (IF x < Depth THEN x ELSE x - Depth)
      BY <1>0, <2>1, DepthAssumption, GiroAnello
    <2>3. CASE x + 1 < Depth + Depth
      <3>1. PICK y \in Nat, z \in Nat : y = x + 1 /\ z = tail[d] + 1
        BY <1>0, <2>1, <2>2, DepthAssumption
      <3>2. /\ y % Depth = (IF y < Depth THEN y ELSE y - Depth)
            /\ z % Depth = (IF z < Depth THEN z ELSE z - Depth)
        BY <1>0, <2>1, <2>2, <2>3, <3>1, DepthAssumption, GiroAnello
      <3> QED  BY <1>0, <1>1, <2>1, <2>2, <3>1, <3>2, DepthAssumption
    <2> QED  BY <1>0, <2>1, <2>3, DepthAssumption
  <1> QED  BY <1>1, <1>5, <1>6, <1>7 DEF AnelloInv, NienteLiberi

\* A receive: the counters agree afterwards, and the first message is gone.
LEMMA PrelevaCode ==
    ASSUME TypeOK, AnelloInv, NEW d \in Posti, count[d] > 0, Preleva(d), NienteLiberi
    PROVE  /\ AnelloInv'
           /\ Code[d] # <<>> /\ Code' = [Code EXCEPT ![d] = Tail(@)]
  <1>0. /\ buf[d] \in Contenuti /\ head[d] \in 0..Depth - 1 /\ count[d] \in 1..Depth
        /\ count[d] \in 0..Depth /\ tail[d] = (head[d] + count[d]) % Depth
    BY UnAnello, DepthAssumption DEF AnelloInv
  <1>1. /\ buf'[d] = [buf[d] EXCEPT ![head[d]] = Vuoto]
        /\ head'[d] = (head[d] + 1) % Depth /\ count'[d] = count[d] - 1
        /\ tail'[d] = tail[d]
        /\ \A x \in Posti : x # d => /\ buf'[x] = buf[x] /\ head'[x] = head[x]
                                     /\ count'[x] = count[x] /\ tail'[x] = tail[x]
    BY <1>0 DEF Preleva, TypeOK
  <1>3. Lista(buf'[d], head'[d], count'[d]) = Tail(Lista(buf[d], head[d], count[d]))
    BY <1>0, <1>1, ListaToglie
  <1>4. Anello(d)' = Tail(Anello(d)) /\ \A x \in Posti : x # d => Anello(x)' = Anello(x)
    BY <1>1, <1>3, AnelloLista, AnelloListaDopo
  <1>5. Code' = [Code EXCEPT ![d] = Tail(@)]
    BY <1>4 DEF Code
  <1>6. Code[d] # <<>>
    <2>1. Len(Lista(buf[d], head[d], count[d])) = count[d]
      BY <1>0, ListaSeq
    <2>2. Len(Code[d]) = count[d] /\ count[d] # 0
      BY <1>0, <2>1, AnelloLista DEF Code
    <2> QED  BY <2>2
  <1>7. tail'[d] = (head'[d] + count'[d]) % Depth
    <2>1. PICK x \in Nat, y \in Nat : x = head[d] + count[d] /\ y = head[d] + 1
      BY <1>0, DepthAssumption
    <2>2. /\ x % Depth = (IF x < Depth THEN x ELSE x - Depth)
          /\ y % Depth = (IF y < Depth THEN y ELSE y - Depth)
      BY <1>0, <2>1, DepthAssumption, GiroAnello
    <2>3. PICK z \in Nat : z = (y % Depth) + count[d] - 1
      BY <1>0, <2>1, <2>2, DepthAssumption
    <2>4. z < Depth + Depth
      BY <1>0, <2>1, <2>2, <2>3, DepthAssumption
    <2>5. z % Depth = (IF z < Depth THEN z ELSE z - Depth)
      BY <2>4, GiroAnello
    <2> QED  BY <1>0, <1>1, <2>1, <2>2, <2>3, <2>5, DepthAssumption
  <1> QED  BY <1>1, <1>5, <1>6, <1>7 DEF AnelloInv, NienteLiberi

\* What a step does to the ring it does to the queue.
LEMMA EffettoCode ==
    ASSUME TypeOK, AnelloInv, Effetto
    PROVE  /\ AnelloInv'
           /\ \/ Code' = Code
              \/ \E d \in Posti, m \in Avvisi :
                    Len(Code[d]) < Depth /\ Code' = [Code EXCEPT ![d] = Append(@, m)]
              \/ \E d \in Posti : Code[d] # <<>> /\ Code' = [Code EXCEPT ![d] = Tail(@)]
              \/ \E d \in Posti : Code' = [Code EXCEPT ![d] = <<>>]
  <1>1. CASE UNCHANGED boxVars /\ NienteLiberi
    BY <1>1 DEF boxVars, NienteLiberi, AnelloInv, Code, Anello
  <1>2. CASE \E d \in Posti, m \in Avvisi :
               st[d] # "UNUSED" /\ count[d] < Depth /\ Deposita(d, m) /\ NienteLiberi
    BY <1>2, DepositaCode
  <1>3. CASE \E d \in Posti : count[d] > 0 /\ Preleva(d) /\ NienteLiberi
    BY <1>3, PrelevaCode
  <1>4. ASSUME NEW d \in Posti,
               head' = [head EXCEPT ![d] = 0], tail' = [tail EXCEPT ![d] = 0],
               count' = [count EXCEPT ![d] = 0],
               buf' = [buf EXCEPT ![d] = [i \in 0..Depth - 1 |-> Vuoto]],
               \A x \in Posti : x # d /\ st'[x] = "UNUSED" => st[x] = "UNUSED"
        PROVE  AnelloInv' /\ Code' = [Code EXCEPT ![d] = <<>>]
    <2>1. /\ head'[d] = 0 /\ tail'[d] = 0 /\ count'[d] = 0
          /\ \A x \in Posti : x # d => /\ buf'[x] = buf[x] /\ head'[x] = head[x]
                                       /\ count'[x] = count[x] /\ tail'[x] = tail[x]
      BY <1>4 DEF TypeOK
    <2>2. Lista(buf'[d], head'[d], count'[d]) = <<>>
      BY <2>1 DEF Lista
    <2>3. Anello(d)' = <<>> /\ \A x \in Posti : x # d => Anello(x)' = Anello(x)
      BY <2>1, <2>2, AnelloLista, AnelloListaDopo
    <2>4. (0 + 0) % Depth = 0
      BY DepthAssumption
    <2>5. AnelloInv'
      BY <1>4, <2>1, <2>4 DEF AnelloInv
    <2> QED  BY <2>3, <2>5 DEF Code
  <1>5. ASSUME NEW d \in Posti, st[d] = "UNUSED", NienteLiberi,
               buf' = [buf EXCEPT ![d] = [i \in 0..Depth - 1 |-> Vuoto]],
               UNCHANGED <<head, tail, count>>
        PROVE  AnelloInv' /\ Code' = Code
    <2>1. count[d] = 0 /\ \A x \in Posti : x # d => buf'[x] = buf[x]
      BY <1>5 DEF AnelloInv, TypeOK
    <2>2. Lista(buf'[d], head'[d], count'[d]) = Lista(buf[d], head[d], count[d])
      BY <1>5, <2>1 DEF Lista
    <2>3. \A x \in Posti : Anello(x)' = Anello(x)
      BY <1>5, <2>1, <2>2, AnelloLista, AnelloListaDopo
    <2>4. AnelloInv'
      BY <1>5 DEF AnelloInv, NienteLiberi
    <2> QED  BY <2>3, <2>4 DEF Code
  <1> QED  BY <1>1, <1>2, <1>3, <1>4, <1>5 DEF Effetto

\* The ring of kernel/ipc/ipc.c, with its three counters and the modulus, is a
\* bounded first-in first-out queue for any depth and any number of processes:
\* whatever the line, deadlines, deaths and reuse of slots do, a step puts one
\* message at the end of one mailbox, takes the first of one, empties one that
\* is collected, or leaves all of them alone.
THEOREM CassettaImplementata == Spec => ImplementaCassetta
  <1> DEFINE CInv == TypeOK /\ AnelloInv /\ Diretti
  <1>1. Init => CInv /\ Astratta!CassettaInit
    <2> SUFFICES ASSUME Init PROVE CInv /\ Astratta!CassettaInit
      OBVIOUS
    <2>1. TypeOK
      BY VuotoTipo, DepthAssumption, MaxPidAssumption DEF Init, TypeOK, Stati, Punti
    <2>2. AnelloInv /\ Diretti
      BY DepthAssumption DEF Init, AnelloInv, Diretti
    <2>3. \A d \in Posti : Anello(d) = <<>>
      BY DEF Init, Anello
    <2> QED  BY <2>1, <2>2, <2>3 DEF Astratta!CassettaInit
  <1>2. CInv /\ [Next]_vars => CInv' /\ [Astratta!CassettaNext]_([d \in Posti |-> Anello(d)])
    <2> SUFFICES ASSUME CInv, [Next]_vars
                 PROVE  CInv' /\ (Astratta!CassettaNext \/ Code' = Code)
      BY DEF Code
    <2>1. TypeOK' /\ Effetto /\ Diretti'
      BY TipoPasso, PassoAnello
    <2>2. /\ AnelloInv'
          /\ \/ Code' = Code
             \/ \E d \in Posti, m \in Avvisi :
                   Len(Code[d]) < Depth /\ Code' = [Code EXCEPT ![d] = Append(@, m)]
             \/ \E d \in Posti : Code[d] # <<>> /\ Code' = [Code EXCEPT ![d] = Tail(@)]
             \/ \E d \in Posti : Code' = [Code EXCEPT ![d] = <<>>]
      BY <2>1, EffettoCode
    <2>3. Code' = Code \/ Astratta!CassettaNext
      BY <2>2 DEF Astratta!CassettaNext, Astratta!Metti, Astratta!Togli, Astratta!Svuota, Code, Avvisi
    <2> QED  BY <2>1, <2>2, <2>3
  <1> QED  BY <1>1, <1>2, PTL DEF Spec, ImplementaCassetta, Astratta!CassettaSpec

\* What the counters delimit is exactly what is in use: the n slots of ring b
\* from h.
Usate(b, h, n) == \A i \in 0..Depth - 1 : (i < n) <=> (b[(h + i) % Depth] # Vuoto)

\* Two places of a ring less than a turn apart.
LEMMA PostiDiversi ==
    ASSUME NEW h \in 0..Depth - 1, NEW i \in 0..Depth - 1, NEW j \in 0..Depth - 1
    PROVE  /\ (h + i) % Depth \in 0..Depth - 1
           /\ (h + i) % Depth = (h + j) % Depth => i = j
  <1>0. Depth \in Nat \ {0}
    BY DepthAssumption
  <1>1. PICK x \in Nat, y \in Nat : x = h + i /\ y = h + j
    BY <1>0
  <1>2. x < Depth + Depth /\ y < Depth + Depth
    BY <1>0, <1>1
  <1>3. /\ x % Depth = IF x < Depth THEN x ELSE x - Depth
        /\ y % Depth = IF y < Depth THEN y ELSE y - Depth
    BY <1>2, GiroAnello
  <1> QED  BY <1>0, <1>1, <1>2, <1>3

\* A message put at the tail takes one slot more,
LEMMA UsateMette ==
    ASSUME NEW b \in Contenuti, NEW h \in 0..Depth - 1, NEW n \in 0..Depth - 1, NEW m \in Avvisi,
           Usate(b, h, n)
    PROVE  Usate([b EXCEPT ![(h + n) % Depth] = m], h, n + 1)
  <1>1. PICK c : c = [b EXCEPT ![(h + n) % Depth] = m]
    OBVIOUS
  <1>2. m # Vuoto
    BY DEF Avvisi, Vuoto
  <1>3. ASSUME NEW i \in 0..Depth - 1
        PROVE  (i < n + 1) <=> (c[(h + i) % Depth] # Vuoto)
    <2>1. PICK x \in 0..Depth - 1 : x = (h + i) % Depth
      BY PostiDiversi
    <2>2. PICK y \in 0..Depth - 1 : y = (h + n) % Depth
      BY PostiDiversi
    <2>3. c[x] = (IF x = y THEN m ELSE b[x]) /\ (x = y => i = n)
      BY <1>1, <2>1, <2>2, PostiDiversi DEF Contenuti
    <2>4. (i < n) <=> (b[x] # Vuoto)
      BY <2>1 DEF Usate
    <2>5. CASE i = n
      BY <1>2, <2>1, <2>2, <2>3, <2>5, DepthAssumption
    <2>6. CASE i # n
      <3>1. i < n + 1 <=> i < n
        BY <2>6, DepthAssumption
      <3> QED  BY <2>1, <2>3, <2>4, <2>6, <3>1
    <2> QED  BY <2>5, <2>6
  <1> QED  BY <1>1, <1>3 DEF Usate

\* and the message taken from the head leaves its own.
LEMMA UsateToglie ==
    ASSUME NEW b \in Contenuti, NEW h \in 0..Depth - 1, NEW n \in 1..Depth, Usate(b, h, n)
    PROVE  Usate([b EXCEPT ![h] = Vuoto], (h + 1) % Depth, n - 1)
  <1>0. Depth \in Nat \ {0}
    BY DepthAssumption
  <1>1. PICK c : c = [b EXCEPT ![h] = Vuoto]
    OBVIOUS
  <1>2. PICK u \in Nat : u = h + 1
    BY <1>0
  <1>3. u % Depth = (IF u < Depth THEN u ELSE u - Depth)
    BY <1>0, <1>2, GiroAnello
  <1>4. PICK k \in 0..Depth - 1 : k = u % Depth
    BY <1>0, <1>2, <1>3
  <1>5. ASSUME NEW i \in 0..Depth - 1
        PROVE  (i < n - 1) <=> (c[(k + i) % Depth] # Vuoto)
    <2>1. PICK x \in Nat : x = k + i
      BY <1>0
    <2>2. x % Depth = (IF x < Depth THEN x ELSE x - Depth)
      BY <1>0, <2>1, GiroAnello
    <2>3. CASE i = Depth - 1
      <3>1. x % Depth = h
        BY <1>0, <1>2, <1>3, <1>4, <2>1, <2>2, <2>3
      <3>2. c[h] = Vuoto
        BY <1>1 DEF Contenuti
      <3> QED  BY <1>0, <2>1, <2>3, <3>1, <3>2
    <2>4. CASE i # Depth - 1
      <3>1. PICK j \in 0..Depth - 1 : j = i + 1
        BY <1>0, <2>4
      <3>2. PICK y \in Nat : y = h + j
        BY <1>0
      <3>3. y % Depth = (IF y < Depth THEN y ELSE y - Depth)
        BY <1>0, <3>2, GiroAnello
      <3>4. x % Depth = y % Depth /\ x % Depth # h /\ x % Depth \in 0..Depth - 1
        BY <1>0, <1>2, <1>3, <1>4, <2>1, <2>2, <3>1, <3>2, <3>3
      <3>5. c[x % Depth] = b[x % Depth]
        BY <1>1, <3>4 DEF Contenuti
      <3>6. (j < n) <=> (b[y % Depth] # Vuoto)
        BY <3>2 DEF Usate
      <3>7. (i < n - 1) <=> (j < n)
        BY <1>0, <3>1
      <3> QED  BY <2>1, <3>4, <3>5, <3>6, <3>7
    <2> QED  BY <2>3, <2>4
  <1> QED  BY <1>1, <1>2, <1>4, <1>5 DEF Usate

\* An empty ring.
LEMMA UsateNessuna ==
    ASSUME NEW h \in 0..Depth - 1
    PROVE  Usate([i \in 0..Depth - 1 |-> Vuoto], h, 0)
  <1>1. \A i \in 0..Depth - 1 : (h + i) % Depth \in 0..Depth - 1
    BY PostiDiversi
  <1> QED  BY <1>1, DepthAssumption DEF Usate

TutteUsate == \A d \in Posti : Usate(buf[d], head[d], count[d])

\* Every step keeps what the counters delimit.
LEMMA EffettoUsate ==
    ASSUME TypeOK, AnelloInv, TutteUsate, Effetto
    PROVE  TutteUsate'
  <1> DEFINE Nuova(x) == Usate(buf'[x], head'[x], count'[x])
  <1>0. \A x \in Posti : Usate(buf[x], head[x], count[x])
    BY DEF TutteUsate
  <1>1. CASE UNCHANGED boxVars /\ NienteLiberi
    BY <1>0, <1>1 DEF boxVars, TutteUsate, Usate
  <1>2. ASSUME NEW d \in Posti, Nuova(d),
               \A x \in Posti : x # d => /\ buf'[x] = buf[x] /\ head'[x] = head[x]
                                         /\ count'[x] = count[x]
        PROVE  TutteUsate'
    <2>1. \A x \in Posti : Nuova(x)
      BY <1>0, <1>2
    <2> QED  BY <2>1 DEF TutteUsate, Usate
  <1>3. ASSUME NEW d \in Posti, NEW m \in Avvisi, count[d] < Depth, Deposita(d, m)
        PROVE  TutteUsate'
    <2>1. /\ buf[d] \in Contenuti /\ head[d] \in 0..Depth - 1 /\ count[d] \in 0..Depth - 1
          /\ tail[d] = (head[d] + count[d]) % Depth
      BY <1>3, UnAnello, DepthAssumption DEF AnelloInv
    <2>2. /\ buf'[d] = [buf[d] EXCEPT ![(head[d] + count[d]) % Depth] = m]
          /\ head'[d] = head[d] /\ count'[d] = count[d] + 1
          /\ \A x \in Posti : x # d => /\ buf'[x] = buf[x] /\ head'[x] = head[x]
                                       /\ count'[x] = count[x]
      BY <1>3, <2>1 DEF Deposita, TypeOK
    <2>3. Usate([buf[d] EXCEPT ![(head[d] + count[d]) % Depth] = m], head[d], count[d] + 1)
      BY <1>0, <2>1, UsateMette, Zenon
    <2>4. Nuova(d)
      BY <2>2, <2>3, Zenon
    <2> QED  BY <1>2, <2>2, <2>4
  <1>4. ASSUME NEW d \in Posti, count[d] > 0, Preleva(d)
        PROVE  TutteUsate'
    <2>1. buf[d] \in Contenuti /\ head[d] \in 0..Depth - 1 /\ count[d] \in 1..Depth
      BY <1>4, UnAnello, DepthAssumption
    <2>2. /\ buf'[d] = [buf[d] EXCEPT ![head[d]] = Vuoto]
          /\ head'[d] = (head[d] + 1) % Depth /\ count'[d] = count[d] - 1
          /\ \A x \in Posti : x # d => /\ buf'[x] = buf[x] /\ head'[x] = head[x]
                                       /\ count'[x] = count[x]
      BY <1>4, <2>1 DEF Preleva, TypeOK
    <2>3. Usate([buf[d] EXCEPT ![head[d]] = Vuoto], (head[d] + 1) % Depth, count[d] - 1)
      BY <1>0, <2>1, UsateToglie, Zenon
    <2>4. Nuova(d)
      BY <2>2, <2>3, Zenon
    <2> QED  BY <1>2, <2>2, <2>4
  <1>5. ASSUME NEW d \in Posti, NEW h \in 0..Depth - 1,
               buf' = [buf EXCEPT ![d] = [i \in 0..Depth - 1 |-> Vuoto]],
               head'[d] = h, count'[d] = 0,
               \A x \in Posti : x # d => head'[x] = head[x] /\ count'[x] = count[x]
        PROVE  TutteUsate'
    <2>1. /\ buf'[d] = [i \in 0..Depth - 1 |-> Vuoto]
          /\ \A x \in Posti : x # d => buf'[x] = buf[x]
      BY <1>5 DEF TypeOK
    <2>2. Nuova(d)
      BY <1>5, <2>1, UsateNessuna
    <2> QED  BY <1>2, <1>5, <2>1, <2>2
  <1>6. ASSUME NEW d \in Posti,
               head' = [head EXCEPT ![d] = 0], count' = [count EXCEPT ![d] = 0],
               buf' = [buf EXCEPT ![d] = [i \in 0..Depth - 1 |-> Vuoto]]
        PROVE  TutteUsate'
    <2>1. /\ head'[d] = 0 /\ count'[d] = 0 /\ 0 \in 0..Depth - 1
          /\ \A x \in Posti : x # d => head'[x] = head[x] /\ count'[x] = count[x]
      BY <1>6, DepthAssumption DEF TypeOK
    <2> QED  BY <1>5, <1>6, <2>1
  <1>7. ASSUME NEW d \in Posti, st[d] = "UNUSED",
               buf' = [buf EXCEPT ![d] = [i \in 0..Depth - 1 |-> Vuoto]],
               UNCHANGED <<head, tail, count>>
        PROVE  TutteUsate'
    <2>1. head'[d] \in 0..Depth - 1 /\ count'[d] = 0
      BY <1>7, UnAnello DEF AnelloInv
    <2> QED  BY <1>5, <1>7, <2>1
  <1> QED  BY <1>1, <1>3, <1>4, <1>6, <1>7 DEF Effetto

\* The ring's three counters agree in every state, and delimit exactly the slots
\* that hold a message.
THEOREM AnelloCoerenteSempre == Spec => []AnelloCoerente
  <1> DEFINE CInv == TypeOK /\ AnelloInv /\ Diretti /\ TutteUsate
  <1>1. Init => CInv
    <2> SUFFICES ASSUME Init PROVE CInv
      OBVIOUS
    <2>1. TypeOK
      BY VuotoTipo, DepthAssumption, MaxPidAssumption DEF Init, TypeOK, Stati, Punti
    <2>2. AnelloInv /\ Diretti
      BY DepthAssumption DEF Init, AnelloInv, Diretti
    <2>3. \A d \in Posti : /\ buf[d] = [i \in 0..Depth - 1 |-> Vuoto]
                           /\ head[d] = 0 /\ count[d] = 0 /\ 0 \in 0..Depth - 1
      BY DepthAssumption DEF Init
    <2>4. TutteUsate
      BY <2>3, UsateNessuna DEF TutteUsate
    <2> QED  BY <2>1, <2>2, <2>4
  <1>2. CInv /\ [Next]_vars => CInv'
    <2> SUFFICES ASSUME CInv, [Next]_vars PROVE CInv'
      OBVIOUS
    <2>1. TypeOK' /\ Effetto /\ Diretti'
      BY TipoPasso, PassoAnello
    <2>2. AnelloInv' /\ TutteUsate'
      BY <2>1, EffettoCode, EffettoUsate
    <2> QED  BY <2>1, <2>2
  <1>3. CInv => AnelloCoerente
    BY DEF AnelloInv, TutteUsate, Usate, AnelloCoerente
  <1> QED  BY <1>1, <1>2, <1>3, PTL DEF Spec

-----------------------------------------------------------------------------
(* The inductive invariant: the line as a structure (Ordine), the promises *)
(* (from Ipc), and what ties a waiting sender to its destination           *)
(* (Legami).                                                               *)

\* Those before w stand in w's line, and nobody is before itself; whoever is
\* in no line has nobody before it and no promise.
Ordine ==
    \A w \in Posti :
        /\ \A x \in prima[w] : x # w /\ su[x] = su[w]
        /\ su[w] = Nessuno => prima[w] = {} /\ w \notin concesso

\* A pid belongs to one slot, and only slots in use have one.
PidUnici ==
    /\ \A a \in Posti : st[a] = "UNUSED" <=> pid[a] = 0
    /\ \A a \in Posti : pid[a] < nextPid
    /\ \A a, b \in Posti : pid[a] = pid[b] /\ pid[a] # 0 => a = b

\* What ipc_send knows of its destination: a pid given out before, and a slot
\* that had that pid when it was looked up.
Riferimenti ==
    \A s \in Posti : pc[s] \in {"trova", "send"} =>
        /\ destPid[s] > 0 /\ destPid[s] < nextPid
        /\ pc[s] = "send" /\ dest[s] # Nessuno =>
              pid[dest[s]] = destPid[s] \/ Sparito(destPid[s])

\* An exit ends processes that are alive.
MorentiVivi == \A s \in morenti : Vivo(s)

Legami == PidUnici /\ Riferimenti /\ FilaGiusta /\ MorentiVivi

LineaInv == Ordine /\ RiservatiEsatti /\ PromessiInTesta /\ NessunoDimenticato /\ PromessaNonDorme

IInv == TypeOK /\ Legami /\ LineaInv

-----------------------------------------------------------------------------
(* Counting promises.                                                      *)

\* Two sets of processes with nobody in common.
LEMMA CardDisgiunti ==
    ASSUME NEW A \in SUBSET Posti, NEW B \in SUBSET Posti, A \cap B = {}
    PROVE  Cardinality(A \cup B) = Cardinality(A) + Cardinality(B)
  <1>1. /\ IsFiniteSet(A) /\ Cardinality(A) \in Nat
        /\ IsFiniteSet(B) /\ Cardinality(B) \in Nat
    BY Finiti
  <1>2. Cardinality(A \cup B) = Cardinality(A) + Cardinality(B) - Cardinality(A \cap B)
    BY <1>1, FS_Union
  <1> QED  BY <1>1, <1>2, FS_EmptySet

\* fila_togli keeps the counter exact: it is the number of promises among
\* those that stay.
LEMMA RiservatiSenzaEsatti ==
    ASSUME TypeOK, RiservatiEsatti, NEW d \in Posti, NEW w \in Posti
    PROVE  RiservatiSenza(d, w) = Cardinality((Fila(d) \ {w}) \cap concesso)
  <1> DEFINE P == Promessi(d)
  <1>1. P \in SUBSET Posti /\ IsFiniteSet(P) /\ Cardinality(P) \in Nat
    BY Finiti DEF Promessi, Fila
  <1>2. riservati[d] = Cardinality(P)
    BY DEF RiservatiEsatti
  <1>3. (Fila(d) \ {w}) \cap concesso = P \ {w}
    BY DEF Promessi
  <1>4. w \in P <=> su[w] = d /\ w \in concesso
    BY DEF Promessi, Fila
  <1>5. w \in P => Cardinality(P) > 0
    BY <1>1, FS_EmptySet
  <1>6. Cardinality(P \ {w}) = IF w \in P THEN Cardinality(P) - 1 ELSE Cardinality(P)
    BY <1>1, FS_RemoveElement
  <1> HIDE DEF P
  <1> QED  BY <1>1, <1>2, <1>3, <1>4, <1>5, <1>6 DEF RiservatiSenza

-----------------------------------------------------------------------------
(* What each kind of step does to the lines.                               *)

\* A step that leaves the lines alone, takes no message out of a mailbox with
\* a line, and puts to sleep nobody with a promise unless the mailbox is full.
LEMMA LineaFerma ==
    ASSUME TypeOK, TypeOK', LineaInv, UNCHANGED lineVars,
           \A d \in Posti : Fila(d) # {} => count'[d] >= count[d],
           \A s \in Posti : su[s] # Nessuno /\ s \in concesso /\ st'[s] = "BLOCKED"
                              => st[s] = "BLOCKED" \/ count'[su[s]] = Depth
    PROVE  LineaInv'
  <1> USE DEF lineVars
  <1>1. Ordine'
    BY DEF LineaInv, Ordine
  <1>2. RiservatiEsatti'
    BY DEF LineaInv, RiservatiEsatti, Promessi, Fila
  <1>3. PromessiInTesta'
    BY DEF LineaInv, PromessiInTesta
  <1>4. NessunoDimenticato'
    <2> SUFFICES ASSUME NEW d \in Posti, NEW w \in Fila(d), w \notin concesso
                 PROVE  count'[d] + riservati[d] > 0
      BY DEF NessunoDimenticato, Fila
    <2>1. count[d] + riservati[d] > 0
      BY DEF LineaInv, NessunoDimenticato
    <2>2. count[d] \in Nat /\ count'[d] \in Nat /\ riservati[d] \in Nat /\ count'[d] >= count[d]
      BY DepthAssumption DEF TypeOK
    <2> QED  BY <2>1, <2>2
  <1>5. PromessaNonDorme'
    <2> SUFFICES ASSUME NEW s \in Posti, su[s] # Nessuno, s \in concesso, st'[s] = "BLOCKED"
                 PROVE  count'[su[s]] = Depth
      BY DEF PromessaNonDorme
    <2>1. su[s] \in Posti /\ s \in Fila(su[s])
      BY DEF TypeOK, Fila
    <2>2. st[s] = "BLOCKED" => count[su[s]] = Depth
      BY DEF LineaInv, PromessaNonDorme
    <2>3. count'[su[s]] >= count[su[s]] /\ count'[su[s]] \in 0..Depth
      BY <2>1 DEF TypeOK
    <2> QED  BY <2>2, <2>3, DepthAssumption
  <1> QED  BY <1>1, <1>2, <1>3, <1>4, <1>5 DEF LineaInv

\* Some processes X leave their lines, and fila_avanza runs on what is left
\* of d's line; every other line is untouched or empty.
LEMMA LineaAvanza ==
    ASSUME TypeOK, LineaInv,
           NEW X \in SUBSET Posti, NEW d \in Posti, NEW n \in 0..Depth,
           NEW F \in SUBSET Posti, NEW r \in Nat, NEW G \in Promosse(F, n, r),
           \A x \in Posti : x \in F <=> x \notin X /\ su[x] = d,
           r = Cardinality(F \cap concesso), r <= Depth,
           \A x \in Posti : su'[x] = IF x \in X THEN Nessuno ELSE su[x],
           \A x \in Posti : prima'[x] = IF x \in X THEN {} ELSE prima[x] \ X,
           concesso' = (concesso \ X) \cup G,
           riservati'[d] = r + Cardinality(G),
           count'[d] = n,
           \A e \in Posti \ {d} :
              \/ Fila(e) \cap X = {} /\ riservati'[e] = riservati[e] /\ count'[e] = count[e]
              \/ Fila(e) \subseteq X /\ riservati'[e] = 0,
           \A x \in Posti : st'[x] = "BLOCKED" => st[x] = "BLOCKED" /\ x \notin Raggiunti(F, G)
    PROVE  LineaInv'
  <1>1. \A x \in Posti : x \in F <=> x \notin X /\ su[x] = d
    OBVIOUS
  <1>2. F \subseteq Posti /\ F \in SUBSET Fila(d)
    BY DEF Fila
  <1>3. Ordine /\ PromessiInTesta
    BY DEF LineaInv
  <1>4. \A x \in Posti : prima[x] \subseteq Posti
    BY DEF TypeOK
  <1>5. /\ G \in SUBSET F /\ Cardinality(G) \in Nat
        /\ G \cap concesso = {}
        /\ Cardinality((F \cap concesso) \cup G) = r + Cardinality(G)
        /\ r + Cardinality(G) <= Depth
        /\ \A x \in G : prima[x] \cap F \subseteq concesso \cup G
        /\ (\E x \in F : x \notin concesso \cup G) => n + r + Cardinality(G) > 0
        /\ F \cap (concesso \cup G) \subseteq Raggiunti(F, G)
    <2>1. F \cap concesso \in SUBSET Posti
      BY <1>2
    <2>2. n \in Nat /\ r \in Nat /\ Depth \in Nat \ {0}
      BY <2>1, Finiti, DepthAssumption
    <2>3. /\ G \in SUBSET F
          /\ Cardinality(G) \in Nat
          /\ \A w \in G : w \notin concesso
          /\ \A w \in G : \A x \in prima[w] \cap F : x \notin concesso => x \in G
          /\ n + r + Cardinality(G) <= Depth \/ G = {}
          /\ n + r + Cardinality(G) >= Depth \/ \A w \in F : w \in concesso \/ w \in G
      BY <1>2, <2>2, PromosseFatti
    <2>4. Cardinality((F \cap concesso) \cup G) = r + Cardinality(G)
      <3>1. G \in SUBSET Posti /\ (F \cap concesso) \cap G = {}
        BY <1>2, <2>3
      <3>2. Cardinality((F \cap concesso) \cup G) = Cardinality(F \cap concesso) + Cardinality(G)
        BY <2>1, <3>1, CardDisgiunti, Zenon
      <3> QED  BY <3>2
    <2>5. r + Cardinality(G) <= Depth
      <3>1. CASE G = {}
        <4>1. Cardinality(G) = 0
          BY <3>1, FS_EmptySet
        <4> QED  BY <4>1, <2>2
      <3>2. CASE G # {}
        BY <3>2, <2>2, <2>3
      <3> QED  BY <3>1, <3>2
    <2>6. (\E w \in F : w \notin concesso \cup G) => n + r + Cardinality(G) > 0
      BY <2>2, <2>3
    <2>7. \A w \in F \cap concesso : prima[w] \subseteq concesso
      BY <1>2, <1>3, PostiAssumption DEF PromessiInTesta, Fila
    <2>8. F \cap (concesso \cup G) \subseteq Raggiunti(F, G)
      BY <2>7 DEF Raggiunti
    <2> QED  BY <2>3, <2>4, <2>5, <2>6, <2>8
  <1>6. n \in Nat /\ r \in Nat
    BY <1>2, Finiti, DepthAssumption
  <1>7. Ordine'
    <2> SUFFICES ASSUME NEW w \in Posti
                 PROVE  /\ \A x \in prima'[w] : x # w /\ su'[x] = su'[w]
                        /\ su'[w] = Nessuno => prima'[w] = {} /\ w \notin concesso'
      BY DEF Ordine
    <2>1. CASE w \in X
      BY <2>1, <1>1, <1>2, <1>5
    <2>2. CASE w \notin X
      <3>1. /\ \A x \in prima[w] : x # w /\ su[x] = su[w]
            /\ su[w] = Nessuno => prima[w] = {} /\ w \notin concesso
        BY <1>3 DEF Ordine
      <3>2. w \in G => su[w] # Nessuno
        BY <1>1, <1>2, <1>5, PostiAssumption
      <3>3. prima'[w] = prima[w] \ X /\ su'[w] = su[w] /\ (w \in concesso' <=> w \in concesso \cup G)
        BY <2>2
      <3>4. \A x \in prima'[w] : x # w /\ su'[x] = su'[w]
        BY <3>1, <3>3, <1>4
      <3> QED  BY <3>1, <3>2, <3>3, <3>4
    <2> QED  BY <2>1, <2>2
  <1>8. \A e \in Posti \ {d} : G \cap Fila(e) = {}
    BY <1>1, <1>2, <1>5 DEF Fila
  <1>9. RiservatiEsatti'
    <2> SUFFICES ASSUME NEW e \in Posti
                 PROVE  riservati'[e] = Cardinality(Promessi(e)')
      BY DEF RiservatiEsatti
    <2>1. Fila(e)' = Fila(e) \ X
      BY PostiAssumption DEF Fila
    <2>2. CASE e = d
      <3>1. Promessi(d)' = (F \cap concesso) \cup G
        <4>1. Fila(d)' = F /\ F \cap X = {}
          BY <2>1, <2>2, <1>1, <1>2 DEF Fila
        <4> QED  BY <4>1, <1>5 DEF Promessi
      <3> QED  BY <3>1, <2>2, <1>5
    <2>3. CASE e # d /\ Fila(e) \cap X = {} /\ riservati'[e] = riservati[e]
      <3>1. Promessi(e)' = Promessi(e)
        BY <2>1, <2>3, <1>8 DEF Promessi
      <3> QED  BY <3>1, <2>3 DEF LineaInv, RiservatiEsatti
    <2>4. CASE e # d /\ Fila(e) \subseteq X /\ riservati'[e] = 0
      <3>1. Promessi(e)' = {}
        BY <2>1, <2>4 DEF Promessi
      <3> QED  BY <3>1, <2>4, FS_EmptySet
    <2> QED  BY <2>2, <2>3, <2>4
  <1>10. PromessiInTesta'
    <2>1. \A e \in Posti : riservati'[e] <= Depth
      BY <1>3, <1>5, DepthAssumption DEF PromessiInTesta
    <2>2. ASSUME NEW x \in Posti, su'[x] # Nessuno, x \in concesso', NEW y \in prima'[x]
          PROVE  su'[y] = su'[x] /\ y \in concesso'
      <3>1. x \notin X /\ y \notin X /\ y \in prima[x] /\ y \in Posti /\ su[x] # Nessuno
        <4>1. x \notin X
          BY <2>2
        <4>2. prima'[x] = prima[x] \ X /\ su'[x] = su[x]
          BY <4>1
        <4> QED  BY <2>2, <4>1, <4>2, <1>4
      <3>2. su[y] = su[x]
        BY <3>1, <1>3 DEF Ordine
      <3>3. y \in concesso \cup G
        <4>1. CASE x \in G
          BY <4>1, <3>1, <3>2, <1>1, <1>2, <1>5
        <4>2. CASE x \in concesso
          BY <4>2, <3>1, <1>3 DEF PromessiInTesta
        <4> QED  BY <4>1, <4>2, <2>2
      <3> QED  BY <3>1, <3>2, <3>3
    <2> QED  BY <2>1, <2>2 DEF PromessiInTesta
  <1>11. NessunoDimenticato'
    <2> SUFFICES ASSUME NEW e \in Posti, NEW x \in Posti, su'[x] = e, x \notin concesso'
                 PROVE  count'[e] + riservati'[e] > 0
      BY DEF NessunoDimenticato, Fila
    <2>1. x \notin X /\ su[x] = e /\ x \in Fila(e)
      BY PostiAssumption DEF Fila
    <2>2. CASE e = d
      <3>1. x \in F /\ x \notin concesso \cup G
        BY <2>1, <2>2, <1>1
      <3>2. n + r + Cardinality(G) > 0
        BY <3>1, <1>5
      <3> QED  BY <2>2, <3>2, <1>5, <1>6
    <2>3. CASE e # d
      <3>1. x \notin concesso /\ riservati'[e] = riservati[e] /\ count'[e] = count[e]
        BY <2>1, <2>3
      <3> QED  BY <2>1, <3>1 DEF LineaInv, NessunoDimenticato
    <2> QED  BY <2>2, <2>3
  <1>12. PromessaNonDorme'
    <2> SUFFICES ASSUME NEW x \in Posti, su'[x] # Nessuno, x \in concesso', st'[x] = "BLOCKED"
                 PROVE  count'[su'[x]] = Depth
      BY DEF PromessaNonDorme
    <2>1. x \notin X /\ su'[x] = su[x] /\ st[x] = "BLOCKED" /\ x \notin Raggiunti(F, G)
      OBVIOUS
    <2>2. x \notin F
      BY <2>1, <1>5
    <2>3. x \in concesso /\ su[x] # d /\ su[x] \in Posti /\ x \in Fila(su[x])
      BY <2>1, <2>2, <1>1, <1>5 DEF TypeOK, Fila
    <2>4. count'[su[x]] = count[su[x]]
      BY <2>1, <2>3
    <2> QED  BY <2>1, <2>3, <2>4 DEF LineaInv, PromessaNonDorme
  <1> QED  BY <1>7, <1>9, <1>10, <1>11, <1>12 DEF LineaInv

\* What fila_togli leaves is never more than what was promised.
LEMMA RiservatiSenzaLimite ==
    ASSUME TypeOK, LineaInv, NEW d \in Posti, NEW w \in Posti
    PROVE  RiservatiSenza(d, w) \in Nat /\ RiservatiSenza(d, w) <= Depth
  <1>1. riservati[d] \in Nat
    BY DEF TypeOK
  <1>2. riservati[d] <= Depth
    BY DEF LineaInv, PromessiInTesta
  <1> QED  BY <1>1, <1>2, DepthAssumption DEF RiservatiSenza

\* A process leaves its line and fila_avanza runs (ESRCH, EBUSY).
LEMMA LineaLascia ==
    ASSUME TypeOK, TypeOK', LineaInv, NEW w \in Posti, LasciaFila(w), UNCHANGED boxVars
    PROVE  LineaInv'
  <1>1. CASE su[w] = Nessuno /\ UNCHANGED <<lineVars, st>>
    <2>1. \A d \in Posti : count'[d] >= count[d]
      BY DepthAssumption DEF boxVars, TypeOK
    <2> QED  BY <1>1, <2>1, LineaFerma
  <1>2. CASE su[w] # Nessuno
    <2> DEFINE d == su[w]
               X == {w}
               F == Fila(d) \ {w}
               r == RiservatiSenza(d, w)
               n == count[d]
    <2>1. PICK G \in Promosse(F, n, r) :
                /\ su' = [su EXCEPT ![w] = Nessuno]
                /\ prima' = [x \in Posti |-> IF x = w THEN {} ELSE prima[x] \ {w}]
                /\ concesso' = (concesso \ {w}) \cup G
                /\ riservati' = [riservati EXCEPT ![d] = r + Cardinality(G)]
                /\ st' = Svegliati(Raggiunti(F, G))
      BY <1>2, Zenon DEF LasciaFila
    <2>2. d \in Posti /\ X \in SUBSET Posti /\ n \in 0..Depth /\ F \in SUBSET Posti
      BY <1>2 DEF TypeOK, Fila
    <2>3. r \in Nat /\ r <= Depth /\ r = Cardinality(F \cap concesso)
      BY <2>2, RiservatiSenzaEsatti, RiservatiSenzaLimite DEF LineaInv
    <2>4. \A x \in Posti : x \in F <=> x \notin X /\ su[x] = d
      BY DEF Fila
    <2>5. \A x \in Posti : su'[x] = IF x \in X THEN Nessuno ELSE su[x]
      BY <2>1 DEF TypeOK
    <2>6. \A x \in Posti : prima'[x] = IF x \in X THEN {} ELSE prima[x] \ X
      BY <2>1
    <2>7. concesso' = (concesso \ X) \cup G
      BY <2>1
    <2>8. riservati'[d] = r + Cardinality(G) /\ count'[d] = n
      BY <2>1, <2>2 DEF TypeOK, boxVars
    <2>9. \A e \in Posti \ {d} :
              \/ Fila(e) \cap X = {} /\ riservati'[e] = riservati[e] /\ count'[e] = count[e]
              \/ Fila(e) \subseteq X /\ riservati'[e] = 0
      BY <2>1 DEF TypeOK, boxVars, Fila
    <2>10. \A x \in Posti : st'[x] = "BLOCKED" => st[x] = "BLOCKED" /\ x \notin Raggiunti(F, G)
      BY <2>1 DEF Svegliati
    <2> HIDE DEF d, X, F, r, n
    <2> QED
      BY <2>2, <2>3, <2>4, <2>5, <2>6, <2>7, <2>8, <2>9, <2>10, LineaAvanza, Zenon
  <1> QED  BY <1>1, <1>2 DEF LasciaFila

\* ipc_recv_timeout takes a message and promises the slot.
LEMMA LineaPrende ==
    ASSUME TypeOK, LineaInv, NEW s \in Posti, RecvPrende(s)
    PROVE  LineaInv'
  <1> DEFINE X == {}
             F == Fila(s)
             r == riservati[s]
             n == count[s] - 1
  <1>1. PICK G \in Promosse(F, n, r) :
         /\ concesso' = concesso \cup G
         /\ riservati' = [riservati EXCEPT ![s] = r + Cardinality(G)]
         /\ st' = Svegliati(Raggiunti(F, G))
    BY Zenon DEF RecvPrende
  <1>2. X \in SUBSET Posti /\ n \in 0..Depth /\ F \in SUBSET Posti
    BY DepthAssumption DEF TypeOK, Fila, RecvPrende
  <1>3. r \in Nat /\ r <= Depth /\ r = Cardinality(F \cap concesso)
    BY DEF TypeOK, LineaInv, PromessiInTesta, RiservatiEsatti, Promessi
  <1>4. \A x \in Posti : x \in F <=> x \notin X /\ su[x] = s
    BY DEF Fila
  <1>5. \A x \in Posti : su'[x] = IF x \in X THEN Nessuno ELSE su[x]
    BY DEF RecvPrende
  <1>6. \A x \in Posti : prima'[x] = IF x \in X THEN {} ELSE prima[x] \ X
    BY DEF RecvPrende
  <1>7. concesso' = (concesso \ X) \cup G
    BY <1>1
  <1>8. riservati'[s] = r + Cardinality(G) /\ count'[s] = n
    BY <1>1 DEF TypeOK, RecvPrende, Preleva
  <1>9. \A e \in Posti \ {s} :
            \/ Fila(e) \cap X = {} /\ riservati'[e] = riservati[e] /\ count'[e] = count[e]
            \/ Fila(e) \subseteq X /\ riservati'[e] = 0
    BY <1>1 DEF TypeOK, RecvPrende, Preleva
  <1>10. \A x \in Posti : st'[x] = "BLOCKED" => st[x] = "BLOCKED" /\ x \notin Raggiunti(F, G)
    BY <1>1 DEF Svegliati
  <1> HIDE DEF X, F, r, n
  <1> QED
    BY <1>2, <1>3, <1>4, <1>5, <1>6, <1>7, <1>8, <1>9, <1>10, LineaAvanza, Zenon

\* ipc_processo_finito: the process leaves its line, its own line is emptied.
LEMMA LineaFinisce ==
    ASSUME TypeOK, LineaInv, NEW s \in Posti, Finisce(s)
    PROVE  LineaInv'
  <1> DEFINE d == su[s]
             X == Usciti(s)
             altrove == d # Nessuno /\ d # s
             F == Fila(d) \ {s}
             r == RiservatiSenza(d, s)
             n == count[d]
  <1>1. PICK G \in IF altrove THEN Promosse(F, n, r) ELSE {{}} :
         /\ su' = [w \in Posti |-> IF w \in X THEN Nessuno ELSE su[w]]
         /\ prima' = [w \in Posti |-> IF w \in X THEN {} ELSE prima[w] \ {s}]
         /\ concesso' = (concesso \ X) \cup G
         /\ riservati' = [x \in Posti |->
               CASE x = s -> 0
                 [] altrove /\ x = d -> r + Cardinality(G)
                 [] OTHER -> riservati[x]]
         /\ st' = [Svegliati(Fila(s) \cup (IF altrove THEN Raggiunti(F, G) ELSE {}))
                      EXCEPT ![s] = "ZOMBIE"]
    BY Zenon DEF Finisce
  <1>2. X \in SUBSET Posti /\ \A x \in Posti : x \in X <=> x = s \/ su[x] = s
    BY DEF Usciti, Fila
  <1>3. \A x \in Posti : su'[x] = IF x \in X THEN Nessuno ELSE su[x]
    BY <1>1
  <1>4. \A x \in Posti : prima'[x] = IF x \in X THEN {} ELSE prima[x] \ X
    <2> SUFFICES ASSUME NEW x \in Posti, x \notin X
                 PROVE  prima[x] \ {s} = prima[x] \ X
      BY <1>1
    <2>1. su[x] # s
      BY <1>2
    <2>2. \A y \in prima[x] : y \in Posti /\ su[y] # s
      BY <2>1 DEF LineaInv, Ordine, TypeOK
    <2> QED  BY <1>2, <2>2
  <1>5. UNCHANGED count
    BY DEF Finisce, boxVars
  <1>6. CASE altrove
    <2>1. /\ d \in Posti /\ n \in 0..Depth /\ F \in SUBSET Posti
          /\ G \in Promosse(F, n, r)
      BY <1>1, <1>6 DEF TypeOK, Fila
    <2>2. r \in Nat /\ r <= Depth /\ r = Cardinality(F \cap concesso)
      BY <2>1, RiservatiSenzaEsatti, RiservatiSenzaLimite DEF LineaInv
    <2>3. \A x \in Posti : x \in F <=> x \notin X /\ su[x] = d
      BY <1>2, <1>6 DEF Fila
    <2>4. concesso' = (concesso \ X) \cup G
      BY <1>1
    <2>5. riservati'[d] = r + Cardinality(G) /\ count'[d] = n
      BY <1>1, <1>5, <1>6, <2>1
    <2>6. \A e \in Posti \ {d} :
              \/ Fila(e) \cap X = {} /\ riservati'[e] = riservati[e] /\ count'[e] = count[e]
              \/ Fila(e) \subseteq X /\ riservati'[e] = 0
      <3> TAKE e \in Posti \ {d}
      <3>1. CASE e = s
        BY <1>1, <1>2, <3>1 DEF Fila
      <3>2. CASE e # s
        BY <1>1, <1>2, <1>5, <3>2 DEF Fila
      <3> QED  BY <3>1, <3>2
    <2>7. \A x \in Posti : st'[x] = "BLOCKED" => st[x] = "BLOCKED" /\ x \notin Raggiunti(F, G)
      BY <1>1, <1>6 DEF Svegliati
    <2> HIDE DEF d, X, F, r, n, altrove
    <2> QED
      BY <1>2, <1>3, <1>4, <2>1, <2>2, <2>3, <2>4, <2>5, <2>6, <2>7, LineaAvanza, Zenon
  <1>7. CASE ~altrove
    <2> DEFINE m == count[s]
    <2>1. m \in 0..Depth /\ m \in Nat /\ {} \in SUBSET Posti
      BY DepthAssumption DEF TypeOK
    <2>2. G = {} /\ Cardinality({}) = 0 /\ 0 \in Nat /\ 0 <= Depth
      BY <1>1, <1>7, FS_EmptySet, DepthAssumption
    <2>3. {} \in Promosse({}, m, 0)
      BY <2>1, <2>2, DepthAssumption DEF Promosse, PiuVecchi
    <2>4. 0 = Cardinality({} \cap concesso)
      BY <2>2
    <2>5. \A x \in Posti : x \in {} <=> x \notin X /\ su[x] = s
      BY <1>2
    <2>6. concesso' = (concesso \ X) \cup {}
      BY <1>1, <2>2
    <2>7. riservati'[s] = 0 + Cardinality({}) /\ count'[s] = m
      BY <1>1, <1>5, <2>2
    <2>8. \A e \in Posti \ {s} :
              \/ Fila(e) \cap X = {} /\ riservati'[e] = riservati[e] /\ count'[e] = count[e]
              \/ Fila(e) \subseteq X /\ riservati'[e] = 0
      BY <1>1, <1>2, <1>5, <1>7, PostiAssumption DEF Fila
    <2>9. \A x \in Posti : st'[x] = "BLOCKED" => st[x] = "BLOCKED" /\ x \notin Raggiunti({}, {})
      BY <1>1, <1>7 DEF Svegliati, Raggiunti
    <2> HIDE DEF X, m
    <2> QED
      BY <1>2, <1>3, <1>4, <2>1, <2>2, <2>3, <2>4, <2>5, <2>6, <2>7, <2>8, <2>9, LineaAvanza, Zenon
  <1> QED  BY <1>6, <1>7

\* ipc_send delivers: the sender leaves the line, nobody is promised anything.
LEMMA LineaConsegna ==
    ASSUME TypeOK, TypeOK', LineaInv, NEW s \in Posti, SendConsegna(s)
    PROVE  LineaInv'
  <1>5. PICK d \in Posti : d = dest[s]
    BY DEF SendConsegna, DestMorto
  <1>1. d \in Posti /\ count[d] < Depth /\ count[d] \in Nat
    <2>1. dest[s] \in Posti /\ count[dest[s]] < Depth
      BY PostoLibero DEF SendConsegna
    <2> QED  BY <1>5, <2>1, DepthAssumption DEF TypeOK
  <1>2. /\ UNCHANGED st
        /\ count'[d] = count[d] + 1
        /\ \A e \in Posti \ {d} : count'[e] = count[e]
    <2>1. UNCHANGED st /\ count' = [count EXCEPT ![d] = count[d] + 1]
      BY <1>5 DEF SendConsegna, Deposita
    <2>2. DOMAIN count = Posti
      BY DEF TypeOK
    <2> QED  BY <1>1, <2>1, <2>2
  <1>0. IF su[s] = d
        THEN /\ su' = [su EXCEPT ![s] = Nessuno]
             /\ prima' = [x \in Posti |-> IF x = s THEN {} ELSE prima[x] \ {s}]
             /\ concesso' = concesso \ {s}
             /\ riservati' = [riservati EXCEPT ![d] = RiservatiSenza(d, s)]
        ELSE UNCHANGED lineVars
    BY <1>5, Zenon DEF SendConsegna
  <1>3. CASE su[s] # d
    <2>1. UNCHANGED lineVars
      BY <1>0, <1>3
    <2>2. \A e \in Posti : count[e] \in Nat
      BY DepthAssumption DEF TypeOK
    <2>3. \A e \in Posti : count'[e] >= count[e]
      BY <1>1, <1>2, <2>2
    <2> QED  BY <1>2, <2>1, <2>3, LineaFerma
  <1>4. CASE su[s] = d
    <2>1. /\ \A x \in Posti : su'[x] = IF x = s THEN Nessuno ELSE su[x]
          /\ \A x \in Posti : prima'[x] = IF x = s THEN {} ELSE prima[x] \ {s}
          /\ concesso' = concesso \ {s}
          /\ \A x \in Posti : riservati'[x] = IF x = d THEN RiservatiSenza(d, s) ELSE riservati[x]
      <3>1. DOMAIN su = Posti /\ DOMAIN riservati = Posti
        BY DEF TypeOK
      <3> QED  BY <1>0, <1>4, <3>1
    <2>2. \A x \in Posti : prima[x] \subseteq Posti
      BY DEF TypeOK
    <2>3. Ordine'
      <3> SUFFICES ASSUME NEW w \in Posti
                   PROVE  /\ \A x \in prima'[w] : x # w /\ su'[x] = su'[w]
                          /\ su'[w] = Nessuno => prima'[w] = {} /\ w \notin concesso'
        BY DEF Ordine
      <3>1. CASE w = s
        BY <3>1, <2>1
      <3>2. CASE w # s
        <4>1. /\ \A x \in prima[w] : x # w /\ su[x] = su[w]
              /\ su[w] = Nessuno => prima[w] = {} /\ w \notin concesso
          BY DEF LineaInv, Ordine
        <4>2. prima'[w] = prima[w] \ {s} /\ su'[w] = su[w] /\ (w \in concesso' => w \in concesso)
          BY <3>2, <2>1
        <4>3. \A x \in prima'[w] : x # w /\ su'[x] = su'[w]
          BY <4>1, <4>2, <2>1, <2>2
        <4> QED  BY <4>1, <4>2, <4>3
      <3> QED  BY <3>1, <3>2
    <2>4. RiservatiEsatti'
      <3>1. Promessi(d)' = (Fila(d) \ {s}) \cap concesso
        <4>1. Fila(d)' = Fila(d) \ {s}
          BY <1>1, <1>4, <2>1, PostiAssumption DEF Fila
        <4> QED  BY <4>1, <2>1 DEF Promessi
      <3>2. \A e \in Posti \ {d} : Promessi(e)' = Promessi(e)
        BY <1>4, <2>1, PostiAssumption DEF Promessi, Fila
      <3>3. RiservatiSenza(d, s) = Cardinality((Fila(d) \ {s}) \cap concesso)
        BY <1>1, RiservatiSenzaEsatti DEF LineaInv
      <3> SUFFICES ASSUME NEW e \in Posti
                   PROVE  riservati'[e] = Cardinality(Promessi(e)')
        BY DEF RiservatiEsatti
      <3>4. CASE e = d
        BY <3>4, <2>1, <3>1, <3>3
      <3>5. CASE e # d
        BY <3>5, <2>1, <3>2 DEF LineaInv, RiservatiEsatti
      <3> QED  BY <3>4, <3>5
    <2>5. PromessiInTesta'
      <3>1. \A e \in Posti : riservati'[e] <= Depth
        BY <1>1, <2>1, RiservatiSenzaLimite DEF LineaInv, PromessiInTesta
      <3>2. ASSUME NEW x \in Posti, su'[x] # Nessuno, x \in concesso', NEW y \in prima'[x]
            PROVE  su'[y] = su'[x] /\ y \in concesso'
        <4>1. x # s /\ su[x] # Nessuno /\ x \in concesso /\ y # s /\ y \in prima[x] /\ y \in Posti
          BY <3>2, <2>1, <2>2
        <4>2. su[y] = su[x] /\ y \in concesso
          BY <4>1 DEF LineaInv, PromessiInTesta
        <4> QED  BY <4>1, <4>2, <2>1
      <3> QED  BY <3>1, <3>2 DEF PromessiInTesta
    <2>6. NessunoDimenticato'
      <3> SUFFICES ASSUME NEW e \in Posti, NEW x \in Posti, su'[x] = e, x \notin concesso'
                   PROVE  count'[e] + riservati'[e] > 0
        BY DEF NessunoDimenticato, Fila
      <3>1. CASE e = d
        BY <3>1, <1>1, <1>2, <2>1, RiservatiSenzaLimite
      <3>2. CASE e # d
        BY <3>2, <1>2, <2>1, PostiAssumption DEF LineaInv, NessunoDimenticato, Fila
      <3> QED  BY <3>1, <3>2
    <2>7. PromessaNonDorme'
      <3> SUFFICES ASSUME NEW x \in Posti, su'[x] # Nessuno, x \in concesso', st'[x] = "BLOCKED"
                   PROVE  count'[su'[x]] = Depth
        BY DEF PromessaNonDorme
      <3>1. x # s /\ su'[x] = su[x] /\ x \in concesso /\ st[x] = "BLOCKED" /\ su[x] \in Posti
        BY <1>2, <2>1 DEF TypeOK
      <3>2. count[su[x]] = Depth
        BY <2>1, <3>1 DEF LineaInv, PromessaNonDorme
      <3>3. su[x] # d
        BY <3>2, <1>1, DepthAssumption
      <3> QED  BY <1>2, <3>1, <3>2, <3>3
    <2> QED  BY <2>3, <2>4, <2>5, <2>6, <2>7 DEF LineaInv
  <1> QED  BY <1>3, <1>4

\* ipc_send goes to sleep in the line of its destination, as the last one.
LEMMA LineaAspetta ==
    ASSUME TypeOK, TypeOK', LineaInv, NEW s \in Posti, SendAspetta(s),
           su[s] \in {dest[s], Nessuno}
    PROVE  LineaInv'
  <1> DEFINE d == dest[s]
  <1>1. d \in Posti /\ d # Nessuno /\ count[d] \in 0..Depth /\ riservati[d] \in Nat /\ UNCHANGED count
    BY PostiAssumption DEF SendAspetta, DestMorto, TypeOK, boxVars
  <1>2. CASE su[s] = d
    <2>1. UNCHANGED lineVars /\ st' = [st EXCEPT ![s] = "BLOCKED"]
      BY <1>2 DEF SendAspetta
    <2>2. s \in concesso => count[d] = Depth
      BY <1>1, <1>2, DepthAssumption DEF SendAspetta, Posto
    <2>3. \A e \in Posti : count'[e] >= count[e]
      BY <1>1, DepthAssumption DEF TypeOK
    <2>4. \A x \in Posti : su[x] # Nessuno /\ x \in concesso /\ st'[x] = "BLOCKED"
                              => st[x] = "BLOCKED" \/ count'[su[x]] = Depth
      BY <1>1, <1>2, <2>1, <2>2 DEF TypeOK
    <2> QED  BY <2>1, <2>3, <2>4, LineaFerma
  <1>3. CASE su[s] # d
    <2>0. su[s] = Nessuno /\ s \notin concesso /\ Nessuno \notin Posti
      BY <1>3, PostiAssumption DEF LineaInv, Ordine
    <2>1. /\ \A x \in Posti : su'[x] = IF x = s THEN d ELSE su[x]
          /\ \A x \in Posti : prima'[x] = IF x = s THEN Fila(d) ELSE prima[x] \ {s}
          /\ concesso' = concesso
          /\ \A x \in Posti : riservati'[x] = riservati[x]
          /\ \A x \in Posti : st'[x] = IF x = s THEN "BLOCKED" ELSE st[x]
      <3>1. \E G \in {{}} :
               /\ su' = [su EXCEPT ![s] = d]
               /\ prima' = [x \in Posti |-> IF x = s THEN Fila(d) ELSE prima[x] \ {s}]
               /\ concesso' = (concesso \ {s}) \cup G
               /\ riservati' = [x \in Posti |->
                     IF x = Nessuno THEN RiservatiSenza(Nessuno, s) + Cardinality(G) ELSE riservati[x]]
               /\ st' = [Svegliati({}) EXCEPT ![s] = "BLOCKED"]
        BY <1>3, <2>0 DEF SendAspetta
      <3>2. DOMAIN su = Posti /\ DOMAIN Svegliati({}) = Posti
        BY DEF TypeOK, Svegliati
      <3>3. \A x \in Posti : Svegliati({})[x] = st[x]
        BY DEF Svegliati
      <3> HIDE DEF d
      <3> QED  BY <2>0, <3>1, <3>2, <3>3
    <2>2. \A x \in Posti : prima[x] \subseteq Posti
      BY DEF TypeOK
    <2>3. Ordine'
      <3> SUFFICES ASSUME NEW w \in Posti
                   PROVE  /\ \A x \in prima'[w] : x # w /\ su'[x] = su'[w]
                          /\ su'[w] = Nessuno => prima'[w] = {} /\ w \notin concesso'
        BY DEF Ordine
      <3>1. CASE w = s
        <4>1. prima'[s] = Fila(d) /\ su'[s] = d /\ d # Nessuno
          BY <1>1, <2>1
        <4>2. \A x \in Fila(d) : x # s /\ x \in Posti /\ su'[x] = d
          BY <1>1, <2>0, <2>1 DEF Fila
        <4> QED  BY <3>1, <4>1, <4>2
      <3>2. CASE w # s
        <4>1. /\ \A x \in prima[w] : x # w /\ su[x] = su[w]
              /\ su[w] = Nessuno => prima[w] = {} /\ w \notin concesso
          BY DEF LineaInv, Ordine
        <4>2. prima'[w] = prima[w] \ {s} /\ su'[w] = su[w] /\ (w \in concesso' => w \in concesso)
          BY <3>2, <2>1
        <4>3. \A x \in prima'[w] : x # w /\ su'[x] = su'[w]
          BY <4>1, <4>2, <2>1, <2>2
        <4> QED  BY <4>1, <4>2, <4>3
      <3> QED  BY <3>1, <3>2
    <2>4. \A e \in Posti : Promessi(e)' = Promessi(e)
      BY <2>0, <2>1 DEF Promessi, Fila
    <2>5. RiservatiEsatti'
      BY <2>1, <2>4 DEF LineaInv, RiservatiEsatti
    <2>6. PromessiInTesta'
      BY <2>0, <2>1, <2>2 DEF LineaInv, PromessiInTesta
    <2>7. NessunoDimenticato'
      <3> SUFFICES ASSUME NEW e \in Posti, NEW x \in Posti, su'[x] = e, x \notin concesso'
                   PROVE  count[e] + riservati[e] > 0
        BY <1>1, <2>1 DEF NessunoDimenticato, Fila
      <3>1. CASE x # s
        BY <3>1, <2>1 DEF LineaInv, NessunoDimenticato, Fila
      <3>2. CASE x = s
        <4>1. e = d
          BY <3>2, <2>1
        <4>2. CASE Fila(d) = {}
          <5>1. count[d] + riservati[d] >= Depth
            BY <1>1, <1>3, <4>2, DepthAssumption DEF SendAspetta, Posto
          <5> QED  BY <5>1, <4>1, <1>1, DepthAssumption
        <4>3. CASE Fila(d) # {}
          <5>1. PICK y \in Fila(d) : TRUE
            BY <4>3
          <5>2. CASE y \notin concesso
            BY <5>1, <5>2, <4>1 DEF LineaInv, NessunoDimenticato
          <5>3. CASE y \in concesso
            <6>1. y \in Promessi(d) /\ Promessi(d) \in SUBSET Posti
              BY <5>1, <5>3 DEF Promessi, Fila
            <6>2. Cardinality(Promessi(d)) # 0
              BY <6>1, Finiti, FS_EmptySet
            <6>3. riservati[d] # 0
              BY <6>2, <1>1 DEF LineaInv, RiservatiEsatti
            <6> QED  BY <6>3, <4>1, <1>1, DepthAssumption
          <5> QED  BY <5>2, <5>3
        <4> QED  BY <4>2, <4>3
      <3> QED  BY <3>1, <3>2
    <2>8. PromessaNonDorme'
      BY <1>1, <2>0, <2>1 DEF LineaInv, PromessaNonDorme
    <2> QED  BY <2>3, <2>5, <2>6, <2>7, <2>8 DEF LineaInv
  <1> QED  BY <1>2, <1>3

-----------------------------------------------------------------------------
(* What each kind of step does to a waiting sender and its destination.    *)

\* Nobody is born, ends or is collected.
VitaFerma ==
    /\ UNCHANGED <<pid, nextPid>>
    /\ \A a \in Posti :
          /\ st'[a] = "UNUSED" <=> st[a] = "UNUSED"
          /\ st'[a] = "ZOMBIE" <=> st[a] = "ZOMBIE"

\* A wake is no birth and no death.
LEMMA SvegliatiVita ==
    ASSUME NEW W, st' = Svegliati(W), UNCHANGED <<pid, nextPid>>
    PROVE  VitaFerma
  BY DEF Svegliati, VitaFerma

\* The unique pids survive a step in which nobody is born or collected.
LEMMA PidFermi ==
    ASSUME PidUnici, UNCHANGED <<pid, nextPid>>,
           \A a \in Posti : st'[a] = "UNUSED" <=> st[a] = "UNUSED"
    PROVE  PidUnici'
  BY DEF PidUnici

\* A step in which nobody else's call moves, and s is in no ipc_send after it.
LEMMA UnoFuori ==
    ASSUME TypeOK, Legami, NEW s \in Posti, VitaFerma, UNCHANGED morenti,
           \A x \in Posti \ {s} :
              /\ pc'[x] = pc[x] /\ destPid'[x] = destPid[x] /\ dest'[x] = dest[x]
              /\ su'[x] \in {su[x], Nessuno}
              /\ x \in senza' => x \in senza,
           pc'[s] \notin {"trova", "send"}, su'[s] = Nessuno
    PROVE  Legami'
  <1>1. PidUnici'
    BY PidFermi DEF Legami, VitaFerma
  <1>2. Riferimenti'
    BY DEF Legami, VitaFerma, Riferimenti, Sparito
  <1>3. FilaGiusta'
    <2> SUFFICES ASSUME NEW x \in Posti, su'[x] # Nessuno
                 PROVE  /\ Vivo(x)' /\ Vivo(su[x])'
                        /\ pc'[x] \in {"trova", "send"} /\ x \notin senza'
                        /\ pid[su[x]] = destPid'[x] \/ Sparito(destPid'[x])
                        /\ pc'[x] = "send" => dest'[x] \in {su[x], Nessuno}
                        /\ su'[x] = su[x]
      BY DEF FilaGiusta, VitaFerma, Sparito
    <2>1. x # s /\ su'[x] = su[x]
      OBVIOUS
    <2>2. /\ Vivo(x) /\ Vivo(su[x])
          /\ pc[x] \in {"trova", "send"} /\ x \notin senza
          /\ pid[su[x]] = destPid[x] \/ Sparito(destPid[x])
          /\ pc[x] = "send" => dest[x] \in {su[x], Nessuno}
      BY <2>1 DEF Legami, FilaGiusta
    <2>3. su[x] \in Posti
      BY <2>1 DEF TypeOK
    <2> QED  BY <2>1, <2>2, <2>3 DEF VitaFerma, Vivo
  <1>4. MorentiVivi'
    BY DEF TypeOK, Legami, MorentiVivi, VitaFerma, Vivo
  <1> QED  BY <1>1, <1>2, <1>3, <1>4 DEF Legami

\* A step in which no call moves, and nobody is born or ends.
LEMMA NessunoSiMuove ==
    ASSUME TypeOK, Legami, VitaFerma, UNCHANGED <<pc, destPid, dest, senza, su>>,
           \A x \in morenti' : x \in Posti /\ Vivo(x)
    PROVE  Legami'
  <1>1. PidUnici'
    BY PidFermi DEF Legami, VitaFerma
  <1>2. Riferimenti'
    BY DEF Legami, VitaFerma, Riferimenti, Sparito
  <1>3. FilaGiusta'
    <2> SUFFICES ASSUME NEW x \in Posti, su[x] # Nessuno
                 PROVE  Vivo(x)' /\ Vivo(su[x])'
      BY DEF Legami, FilaGiusta, VitaFerma, Sparito
    <2>1. su[x] \in Posti /\ Vivo(x) /\ Vivo(su[x])
      BY DEF TypeOK, Legami, FilaGiusta
    <2> QED  BY <2>1 DEF VitaFerma, Vivo
  <1>4. MorentiVivi'
    BY DEF MorentiVivi, VitaFerma, Vivo
  <1> QED  BY <1>1, <1>2, <1>3, <1>4 DEF Legami

\* Whoever is not inside ipc_send stands in no line.
LEMMA FuoriDallaFila ==
    ASSUME Legami, NEW s \in Posti, pc[s] \notin {"trova", "send"} \/ s \in senza
    PROVE  su[s] = Nessuno
  BY DEF Legami, FilaGiusta

\* Leaving the line moves nobody else's, and wakes only.
LEMMA LasciaFilaAltri ==
    ASSUME TypeOK, NEW w \in Posti, LasciaFila(w), UNCHANGED <<pid, nextPid>>
    PROVE  /\ su'[w] = Nessuno
           /\ \A x \in Posti \ {w} : su'[x] = su[x]
           /\ VitaFerma
  <1>1. CASE su[w] = Nessuno /\ UNCHANGED <<lineVars, st>>
    BY <1>1 DEF lineVars, VitaFerma
  <1>2. CASE su[w] # Nessuno
    <2>1. PICK G : /\ su' = [su EXCEPT ![w] = Nessuno]
                   /\ st' = Svegliati(Raggiunti(Fila(su[w]) \ {w}, G))
      BY <1>2 DEF LasciaFila
    <2>2. VitaFerma
      BY <2>1, SvegliatiVita
    <2> QED  BY <2>1, <2>2 DEF TypeOK
  <1> QED  BY <1>1, <1>2 DEF LasciaFila

\* A birth: the new pid is nobody's destination yet.
LEMMA NasceLegami ==
    ASSUME TypeOK, Legami, NEW s \in Posti, NEW g, Nasce(s, g), morenti = {}
    PROVE  Legami'
  <1>1. /\ nextPid \in Nat /\ nextPid > 0 /\ nextPid' = nextPid + 1
        /\ st[s] = "UNUSED"
        /\ \A x \in Posti : pid'[x] = IF x = s THEN nextPid ELSE pid[x]
        /\ \A x \in Posti : st'[x] = IF x = s THEN "NASCENTE" ELSE st[x]
        /\ UNCHANGED <<pc, destPid, dest, senza, su>>
        /\ \A x \in Posti : pid[x] \in Nat /\ destPid[x] \in Nat
    BY MaxPidAssumption DEF Nasce, TypeOK, callVars, lineVars
  <1>2. \A x \in Posti : pid[x] < nextPid
    BY DEF Legami, PidUnici
  <1>3. PidUnici'
    BY <1>1, <1>2 DEF Legami, PidUnici
  <1>4. \A x \in Posti : pc[x] \in {"trova", "send"} => destPid[x] > 0 /\ destPid[x] < nextPid
    BY DEF Legami, Riferimenti
  <1>5. \A x \in Posti : pc[x] \in {"trova", "send"} /\ Sparito(destPid[x]) => Sparito(destPid[x])'
    BY <1>1, <1>4 DEF Sparito
  <1>6. \A x \in Posti : pc[x] \in {"trova", "send"} =>
          \A d \in Posti : pid[d] = destPid[x] => pid'[d] = destPid[x]
    <2>1. pid[s] = 0
      BY <1>1 DEF Legami, PidUnici
    <2> QED  BY <1>1, <1>4, <2>1
  <1>7. Riferimenti'
    <2> SUFFICES ASSUME NEW x \in Posti, pc[x] \in {"trova", "send"}
                 PROVE  /\ destPid[x] > 0 /\ destPid[x] < nextPid'
                        /\ pc[x] = "send" /\ dest[x] # Nessuno =>
                              pid'[dest[x]] = destPid[x] \/ Sparito(destPid[x])'
      BY <1>1 DEF Riferimenti, Sparito
    <2>1. destPid[x] > 0 /\ destPid[x] < nextPid'
      BY <1>1, <1>4
    <2>2. ASSUME pc[x] = "send", dest[x] # Nessuno
          PROVE  pid'[dest[x]] = destPid[x] \/ Sparito(destPid[x])'
      <3>1. dest[x] \in Posti /\ (pid[dest[x]] = destPid[x] \/ Sparito(destPid[x]))
        BY <2>2 DEF TypeOK, Legami, Riferimenti
      <3> QED  BY <3>1, <1>5, <1>6
    <2> QED  BY <2>1, <2>2
  <1>8. FilaGiusta'
    <2> SUFFICES ASSUME NEW x \in Posti, su[x] # Nessuno
                 PROVE  /\ Vivo(x)' /\ Vivo(su[x])'
                        /\ pc[x] \in {"trova", "send"} /\ x \notin senza
                        /\ pid'[su[x]] = destPid[x] \/ Sparito(destPid[x])'
                        /\ pc[x] = "send" => dest[x] \in {su[x], Nessuno}
      BY <1>1 DEF FilaGiusta, Sparito
    <2>1. /\ Vivo(x) /\ Vivo(su[x]) /\ su[x] \in Posti
          /\ pc[x] \in {"trova", "send"} /\ x \notin senza
          /\ pid[su[x]] = destPid[x] \/ Sparito(destPid[x])
          /\ pc[x] = "send" => dest[x] \in {su[x], Nessuno}
      BY DEF TypeOK, Legami, FilaGiusta
    <2>2. Vivo(x)' /\ Vivo(su[x])'
      BY <1>1, <2>1 DEF Vivo
    <2>3. pid'[su[x]] = destPid[x] \/ Sparito(destPid[x])'
      BY <1>5, <1>6, <2>1
    <2> QED  BY <2>1, <2>2, <2>3
  <1>9. MorentiVivi'
    BY DEF MorentiVivi, Nasce
  <1> QED  BY <1>3, <1>7, <1>8, <1>9 DEF Legami

\* A zombie is collected: its pid is gone for good, and nobody waits for it.
LEMMA RaccoltaLegami ==
    ASSUME TypeOK, Legami, NEW s \in Posti, proc_reap_zombie(s)
    PROVE  Legami'
  <1>1. /\ UNCHANGED <<nextPid, pc, destPid, dest, senza, su>>
        /\ st[s] = "ZOMBIE"
        /\ \A x \in Posti : pid'[x] = IF x = s THEN 0 ELSE pid[x]
        /\ \A x \in Posti : st'[x] = IF x = s THEN "UNUSED" ELSE st[x]
        /\ \A x \in Posti : pid[x] \in Nat /\ destPid[x] \in Nat
        /\ nextPid \in Nat
    BY MaxPidAssumption DEF proc_reap_zombie, TypeOK, callVars, lineVars
  <1>2. PidUnici'
    BY <1>1 DEF Legami, PidUnici
  <1>3. \A x \in Posti : pc[x] \in {"trova", "send"} => destPid[x] > 0 /\ destPid[x] < nextPid
    BY DEF Legami, Riferimenti
  <1>4. \A x \in Posti : pc[x] \in {"trova", "send"} /\ Sparito(destPid[x]) => Sparito(destPid[x])'
    BY <1>1, <1>3 DEF Sparito
  <1>5. \A x \in Posti : pc[x] \in {"trova", "send"} /\ pid[s] = destPid[x] => Sparito(destPid[x])'
    BY <1>1, <1>3 DEF Sparito, Legami, PidUnici
  <1>6. Riferimenti'
    <2> SUFFICES ASSUME NEW x \in Posti, pc[x] = "send", dest[x] # Nessuno
                 PROVE  pid'[dest[x]] = destPid[x] \/ Sparito(destPid[x])'
      BY <1>1, <1>3 DEF Riferimenti, Sparito
    <2>1. dest[x] \in Posti /\ (pid[dest[x]] = destPid[x] \/ Sparito(destPid[x]))
      BY DEF TypeOK, Legami, Riferimenti
    <2> QED  BY <1>1, <1>4, <1>5, <2>1
  <1>7. FilaGiusta'
    <2> SUFFICES ASSUME NEW x \in Posti, su[x] # Nessuno
                 PROVE  /\ Vivo(x)' /\ Vivo(su[x])'
                        /\ pc[x] \in {"trova", "send"} /\ x \notin senza
                        /\ pid'[su[x]] = destPid[x] \/ Sparito(destPid[x])'
                        /\ pc[x] = "send" => dest[x] \in {su[x], Nessuno}
      BY <1>1 DEF FilaGiusta, Sparito
    <2>1. /\ Vivo(x) /\ Vivo(su[x]) /\ su[x] \in Posti
          /\ pc[x] \in {"trova", "send"} /\ x \notin senza
          /\ pid[su[x]] = destPid[x] \/ Sparito(destPid[x])
          /\ pc[x] = "send" => dest[x] \in {su[x], Nessuno}
      BY DEF TypeOK, Legami, FilaGiusta
    <2>2. x # s /\ su[x] # s
      BY <1>1, <2>1 DEF Vivo
    <2>3. Vivo(x)' /\ Vivo(su[x])'
      BY <1>1, <2>1, <2>2 DEF Vivo
    <2> QED  BY <1>1, <1>4, <2>1, <2>2, <2>3
  <1>8. MorentiVivi'
    BY DEF MorentiVivi, proc_reap_zombie
  <1> QED  BY <1>2, <1>6, <1>7, <1>8 DEF Legami

\* A death: whoever stood in the dead one's line is out of it.
LEMMA FinisceLegami ==
    ASSUME TypeOK, Legami, NEW s \in Posti, Finisce(s)
    PROVE  Legami'
  <1>1. /\ UNCHANGED <<pid, nextPid>>
        /\ \A x \in Posti : su'[x] = IF x = s \/ su[x] = s THEN Nessuno ELSE su[x]
        /\ \A x \in Posti : pc'[x] = IF x = s THEN "usr" ELSE pc[x]
        /\ \A x \in Posti : destPid'[x] = IF x = s THEN 0 ELSE destPid[x]
        /\ \A x \in Posti : dest'[x] = IF x = s THEN Nessuno ELSE dest[x]
        /\ senza' = senza \ {s}
    BY DEF Finisce, TypeOK, procVars, Usciti, Fila
  <1>2. PICK W : st' = [Svegliati(W) EXCEPT ![s] = "ZOMBIE"]
    BY DEF Finisce
  <1>3. /\ st'[s] = "ZOMBIE"
        /\ \A x \in Posti \ {s} : /\ st'[x] = "UNUSED" <=> st[x] = "UNUSED"
                                  /\ st'[x] = "ZOMBIE" <=> st[x] = "ZOMBIE"
    BY <1>2 DEF Svegliati
  <1>4. PidUnici'
    <2>1. st[s] # "UNUSED"
      BY DEF Finisce, Legami, MorentiVivi, Vivo
    <2> QED  BY <1>1, <1>3, <2>1, PidFermi DEF Legami
  <1>5. Riferimenti'
    BY <1>1 DEF Legami, Riferimenti, Sparito
  <1>6. FilaGiusta'
    <2> SUFFICES ASSUME NEW x \in Posti, su'[x] # Nessuno
                 PROVE  /\ Vivo(x)' /\ Vivo(su[x])' /\ su'[x] = su[x]
                        /\ pc'[x] \in {"trova", "send"} /\ x \notin senza'
                        /\ pid[su[x]] = destPid'[x] \/ Sparito(destPid'[x])
                        /\ pc'[x] = "send" => dest'[x] \in {su[x], Nessuno}
      BY <1>1 DEF FilaGiusta, Sparito
    <2>1. x # s /\ su[x] # s /\ su'[x] = su[x] /\ su[x] # Nessuno
      BY <1>1
    <2>2. /\ Vivo(x) /\ Vivo(su[x]) /\ su[x] \in Posti
          /\ pc[x] \in {"trova", "send"} /\ x \notin senza
          /\ pid[su[x]] = destPid[x] \/ Sparito(destPid[x])
          /\ pc[x] = "send" => dest[x] \in {su[x], Nessuno}
      BY <2>1 DEF TypeOK, Legami, FilaGiusta
    <2>3. Vivo(x)' /\ Vivo(su[x])'
      BY <1>3, <2>1, <2>2 DEF Vivo
    <2> QED  BY <1>1, <2>1, <2>2, <2>3
  <1>7. MorentiVivi'
    BY <1>3 DEF Finisce, TypeOK, Legami, MorentiVivi, Vivo
  <1> QED  BY <1>4, <1>5, <1>6, <1>7 DEF Legami

\* ipc_send begins: the caller stands in no line.
LEMMA SendIniziaLegami ==
    ASSUME TypeOK, Legami, NEW s \in Posti, SendInizia(s)
    PROVE  Legami'
  <1>1. PICK p \in Bersagli \cap 1..nextPid - 1 : destPid' = [destPid EXCEPT ![s] = p]
    BY DEF SendInizia
  <1>2. /\ UNCHANGED <<pid, nextPid, st, dest, su, morenti>>
        /\ p > 0 /\ p < nextPid
        /\ \A x \in Posti : destPid'[x] = IF x = s THEN p ELSE destPid[x]
        /\ \A x \in Posti : pc'[x] = IF x = s THEN "trova" ELSE pc[x]
        /\ senza' \in {senza, senza \cup {s}}
    BY <1>1, MaxPidAssumption DEF SendInizia, TypeOK, procVars, lineVars
  <1>3. su[s] = Nessuno
    BY FuoriDallaFila DEF SendInizia
  <1>4. PidUnici' /\ MorentiVivi'
    BY <1>2 DEF Legami, PidUnici, MorentiVivi, Vivo
  <1>5. Riferimenti'
    BY <1>2 DEF Legami, Riferimenti, Sparito
  <1>6. FilaGiusta'
    <2> SUFFICES ASSUME NEW x \in Posti, su[x] # Nessuno
                 PROVE  /\ Vivo(x) /\ Vivo(su[x])
                        /\ pc'[x] \in {"trova", "send"} /\ x \notin senza'
                        /\ pid[su[x]] = destPid'[x] \/ Sparito(destPid'[x])
                        /\ pc'[x] = "send" => dest[x] \in {su[x], Nessuno}
      BY <1>2 DEF FilaGiusta, Sparito, Vivo
    <2> QED  BY <1>2, <1>3 DEF Legami, FilaGiusta
  <1> QED  BY <1>4, <1>5, <1>6 DEF Legami

\* The lookup finds the process in whose line the sender stands, or nobody.
LEMMA SendTrovaLegami ==
    ASSUME TypeOK, Legami, NEW s \in Posti, SendTrova(s)
    PROVE  Legami'
  <1> DEFINE d == proc_get_by_pid(destPid[s])
  <1>1. /\ UNCHANGED <<pid, nextPid, st, destPid, senza, su, morenti>>
        /\ \A x \in Posti : dest'[x] = IF x = s THEN d ELSE dest[x]
        /\ \A x \in Posti : pc'[x] = IF x = s THEN "send" ELSE pc[x]
        /\ pc[s] = "trova"
    BY DEF SendTrova, TypeOK, procVars, lineVars
  <1>2. d # Nessuno => d \in Posti /\ pid[d] = destPid[s]
    BY DEF proc_get_by_pid
  <1>3. d = Nessuno => \A t \in Posti : pid[t] = destPid[s] => st[t] = "UNUSED"
    BY PostiAssumption DEF proc_get_by_pid
  <1> HIDE DEF d
  <1>4. destPid[s] > 0 /\ destPid[s] < nextPid
    BY <1>1 DEF Legami, Riferimenti
  <1>5. PidUnici' /\ MorentiVivi'
    BY <1>1 DEF Legami, PidUnici, MorentiVivi, Vivo
  <1>6. Riferimenti'
    <2> SUFFICES ASSUME NEW x \in Posti, pc'[x] \in {"trova", "send"}
                 PROVE  /\ destPid[x] > 0 /\ destPid[x] < nextPid
                        /\ pc'[x] = "send" /\ dest'[x] # Nessuno =>
                              pid[dest'[x]] = destPid[x] \/ Sparito(destPid[x])
      BY <1>1 DEF Riferimenti, Sparito
    <2>1. CASE x = s
      BY <2>1, <1>1, <1>2, <1>4
    <2>2. CASE x # s
      BY <2>2, <1>1 DEF Legami, Riferimenti
    <2> QED  BY <2>1, <2>2
  <1>7. FilaGiusta'
    <2> SUFFICES ASSUME NEW x \in Posti, su[x] # Nessuno
                 PROVE  /\ Vivo(x) /\ Vivo(su[x])
                        /\ pc'[x] \in {"trova", "send"} /\ x \notin senza
                        /\ pid[su[x]] = destPid[x] \/ Sparito(destPid[x])
                        /\ pc'[x] = "send" => dest'[x] \in {su[x], Nessuno}
      BY <1>1 DEF FilaGiusta, Sparito, Vivo
    <2>1. /\ Vivo(x) /\ Vivo(su[x]) /\ su[x] \in Posti
          /\ pc[x] \in {"trova", "send"} /\ x \notin senza
          /\ pid[su[x]] = destPid[x] \/ Sparito(destPid[x])
          /\ pc[x] = "send" => dest[x] \in {su[x], Nessuno}
      BY DEF TypeOK, Legami, FilaGiusta
    <2>2. x = s => d \in {su[s], Nessuno}
      <3> SUFFICES ASSUME x = s, d # Nessuno
                   PROVE  d = su[s]
        OBVIOUS
      <3>1. pid[su[s]] = destPid[s] /\ pid[d] = destPid[s] /\ d \in Posti /\ destPid[s] # 0
        <4>1. d \in Posti /\ pid[d] = destPid[s]
          BY <1>2
        <4>2. ~Sparito(destPid[s])
          BY <4>1 DEF Sparito
        <4>3. destPid[s] \in Nat
          BY MaxPidAssumption DEF TypeOK
        <4> QED  BY <4>1, <4>2, <4>3, <1>4, <2>1
      <3> QED  BY <2>1, <3>1 DEF Legami, PidUnici
    <2> QED  BY <1>1, <2>1, <2>2
  <1> QED  BY <1>5, <1>6, <1>7 DEF Legami

\* A sender inside the loop is in its destination's line or in none, so the
\* branch of ipc_send that leaves another line first is never taken.
LEMMA UnaSolaFila ==
    ASSUME Legami, NEW s \in Posti, pc[s] = "send", ~DestMorto(s)
    PROVE  su[s] \in {dest[s], Nessuno}
  BY PostiAssumption DEF Legami, FilaGiusta, DestMorto

\* Joining the line: the destination is alive.
LEMMA SendAspettaLegami ==
    ASSUME TypeOK, Legami, NEW s \in Posti, SendAspetta(s)
    PROVE  Legami'
  <1>0. PICK d \in Posti : d = dest[s]
    BY DEF SendAspetta, DestMorto
  <1>1. /\ UNCHANGED <<pid, nextPid, destPid, senza, morenti>>
        /\ \A x \in Posti : dest'[x] = IF x = s THEN Nessuno ELSE dest[x]
        /\ \A x \in Posti : pc'[x] = IF x = s THEN "trova" ELSE pc[x]
        /\ pc[s] = "send" /\ s \notin senza /\ st[s] = "READY"
        /\ d \in Posti /\ Vivo(d) /\ d # Nessuno
    BY <1>0, PostiAssumption DEF SendAspetta, TypeOK, procVars, Gira, DestMorto
  <1>2. su[s] \in {d, Nessuno}
    BY <1>0, UnaSolaFila DEF SendAspetta
  <1>3. /\ \A x \in Posti : su'[x] = IF x = s THEN d ELSE su[x]
        /\ st' = [st EXCEPT ![s] = "BLOCKED"]
           \/ \E W : st' = [Svegliati(W) EXCEPT ![s] = "BLOCKED"]
    <2>1. CASE su[s] = d
      BY <1>0, <2>1 DEF SendAspetta, lineVars, TypeOK
    <2>2. CASE su[s] # d
      <3>1. /\ su' = [su EXCEPT ![s] = d]
            /\ \E W : st' = [Svegliati(W) EXCEPT ![s] = "BLOCKED"]
        BY <1>0, <2>2 DEF SendAspetta
      <3> QED  BY <3>1 DEF TypeOK
    <2> QED  BY <2>1, <2>2
  <1>4. VitaFerma
    BY <1>1, <1>3 DEF VitaFerma, Svegliati, TypeOK
  <1>5. PidUnici' /\ MorentiVivi'
    BY <1>1, <1>4, PidFermi DEF Legami, MorentiVivi, Vivo, VitaFerma, TypeOK
  <1>6. Riferimenti'
    BY <1>1 DEF Legami, Riferimenti, Sparito
  <1>7. FilaGiusta'
    <2> SUFFICES ASSUME NEW x \in Posti, su'[x] # Nessuno
                 PROVE  /\ st'[x] \notin {"UNUSED", "ZOMBIE"} /\ st'[su'[x]] \notin {"UNUSED", "ZOMBIE"}
                        /\ pc'[x] \in {"trova", "send"} /\ x \notin senza
                        /\ pid[su'[x]] = destPid[x] \/ Sparito(destPid[x])
                        /\ pc'[x] = "send" => dest'[x] \in {su'[x], Nessuno}
      BY <1>1 DEF FilaGiusta, Sparito, Vivo
    <2>1. CASE x = s
      <3>1. pid[d] = destPid[s] \/ Sparito(destPid[s])
        BY <1>0, <1>1 DEF Legami, Riferimenti
      <3>2. su'[s] = d /\ Vivo(s)
        BY <1>1, <1>3 DEF Vivo
      <3> QED  BY <2>1, <1>1, <1>4, <3>1, <3>2 DEF VitaFerma, Vivo
    <2>2. CASE x # s
      <3>1. /\ su'[x] = su[x] /\ su[x] \in Posti /\ Vivo(x) /\ Vivo(su[x])
            /\ pc[x] \in {"trova", "send"} /\ x \notin senza
            /\ pid[su[x]] = destPid[x] \/ Sparito(destPid[x])
            /\ pc[x] = "send" => dest[x] \in {su[x], Nessuno}
        BY <2>2, <1>3 DEF TypeOK, Legami, FilaGiusta
      <3> QED  BY <2>2, <1>1, <1>4, <3>1 DEF VitaFerma, Vivo
    <2> QED  BY <2>1, <2>2
  <1> QED  BY <1>5, <1>6, <1>7 DEF Legami

-----------------------------------------------------------------------------
(* The inductive step and the theorems.                                    *)

\* A step of s that ends outside ipc_send, and frees, fills or leaves alone.
LEMMA FuoriUsciti ==
    ASSUME TypeOK, Legami, NEW s \in Posti, VitaFerma, UNCHANGED morenti,
           pc[s] \notin {"trova", "send"} \/ s \in senza, UNCHANGED su,
           pc'[s] \notin {"trova", "send"},
           \A x \in Posti \ {s} :
              /\ pc'[x] = pc[x] /\ destPid'[x] = destPid[x] /\ dest'[x] = dest[x]
              /\ x \in senza' => x \in senza
    PROVE  Legami'
  BY FuoriDallaFila, UnoFuori

\* The end of a call moves nobody else.
LEMMA TornaAltri ==
    ASSUME TypeOK, NEW s \in Posti, Torna(s)
    PROVE  /\ pc'[s] \notin {"trova", "send"}
           /\ \A x \in Posti \ {s} :
                /\ pc'[x] = pc[x] /\ destPid'[x] = destPid[x] /\ dest'[x] = dest[x]
                /\ x \in senza' => x \in senza
  BY DEF Torna, TypeOK

\* The number of messages in a mailbox is a natural number.
LEMMA AnelliNat == ASSUME TypeOK PROVE count \in [Posti -> Nat]
  BY DepthAssumption DEF TypeOK

\* The mailboxes do not change: no message leaves one.
LEMMA AnelliFermi ==
    ASSUME TypeOK, UNCHANGED count
    PROVE  \A d \in Posti : count'[d] >= count[d]
  BY DepthAssumption DEF TypeOK

\* A wake puts nobody to sleep.
LEMMA SvegliatiNonDorme ==
    ASSUME NEW W, st' = Svegliati(W)
    PROVE  \A x \in Posti : st'[x] = "BLOCKED" => st[x] = "BLOCKED"
  BY DEF Svegliati

\* Every step keeps the inductive invariant.
LEMMA IInvPasso == IInv /\ [Next]_vars => IInv'
  <1> SUFFICES ASSUME IInv, [Next]_vars
               PROVE  Legami' /\ LineaInv'
    BY TipoPasso DEF IInv
  <1>0. TypeOK /\ Legami /\ LineaInv /\ TypeOK'
    BY TipoPasso DEF IInv
  <1>1. ASSUME NEW s \in Posti, SendTrova(s) PROVE Legami' /\ LineaInv'
    <2>1. UNCHANGED <<lineVars, st, count>>
      BY <1>1 DEF SendTrova, boxVars
    <2> QED  BY <1>1, <1>0, <2>1, SendTrovaLegami, AnelliFermi, LineaFerma
  <1>2. ASSUME NEW s \in Posti, SendEsrch(s) PROVE Legami' /\ LineaInv'
    <2>1. UNCHANGED <<pid, nextPid, morenti>> /\ UNCHANGED boxVars
      BY <1>2 DEF SendEsrch, procVars
    <2>2. su'[s] = Nessuno /\ VitaFerma /\ \A x \in Posti \ {s} : su'[x] = su[x]
      BY <1>2, <1>0, <2>1, LasciaFilaAltri DEF SendEsrch
    <2>3. Legami'
      BY <1>2, <1>0, <2>1, <2>2, TornaAltri, UnoFuori DEF SendEsrch
    <2>4. LineaInv'
      BY <1>2, <1>0, <2>1, LineaLascia DEF SendEsrch
    <2> QED  BY <2>3, <2>4
  <1>3. ASSUME NEW s \in Posti, SendEbusyScaduta(s) PROVE Legami' /\ LineaInv'
    <2>1. UNCHANGED <<pid, nextPid, morenti>> /\ UNCHANGED boxVars
      BY <1>3 DEF SendEbusyScaduta, procVars
    <2>2. su'[s] = Nessuno /\ VitaFerma /\ \A x \in Posti \ {s} : su'[x] = su[x]
      BY <1>3, <1>0, <2>1, LasciaFilaAltri DEF SendEbusyScaduta
    <2>3. Legami'
      BY <1>3, <1>0, <2>1, <2>2, TornaAltri, UnoFuori DEF SendEbusyScaduta
    <2>4. LineaInv'
      BY <1>3, <1>0, <2>1, LineaLascia DEF SendEbusyScaduta
    <2> QED  BY <2>3, <2>4
  <1>4. ASSUME NEW s \in Posti, SendConsegna(s) PROVE Legami' /\ LineaInv'
    <2>1. VitaFerma /\ UNCHANGED morenti
      BY <1>4 DEF SendConsegna, VitaFerma, procVars
    <2>2. /\ pc'[s] \notin {"trova", "send"}
          /\ \A x \in Posti \ {s} :
                /\ pc'[x] = pc[x] /\ destPid'[x] = destPid[x] /\ dest'[x] = dest[x]
                /\ x \in senza' => x \in senza
      <3>1. CASE Torna(s)
        BY <1>0, <3>1, TornaAltri
      <3>2. CASE /\ pc' = [pc EXCEPT ![s] = "sveglia"]
                 /\ dest' = [dest EXCEPT ![s] = Nessuno]
                 /\ UNCHANGED <<destPid, senza, scad>>
        BY <1>0, <3>2 DEF TypeOK
      <3> QED  BY <1>4, <3>1, <3>2 DEF SendConsegna
    <2>3. su'[s] = Nessuno /\ \A x \in Posti \ {s} : su'[x] = su[x]
      <3>1. su[s] \in {dest[s], Nessuno}
        BY <1>4, <1>0, UnaSolaFila DEF SendConsegna
      <3>2. CASE su[s] = dest[s]
        BY <1>4, <1>0, <3>2 DEF SendConsegna, TypeOK
      <3>3. CASE su[s] # dest[s]
        BY <1>4, <1>0, <3>1, <3>3 DEF SendConsegna, lineVars
      <3> QED  BY <3>2, <3>3
    <2>4. Legami'
      BY <1>0, <2>1, <2>2, <2>3, UnoFuori
    <2> QED  BY <1>4, <1>0, <2>4, LineaConsegna
  <1>5. ASSUME NEW s \in Posti, SendSveglia(s) PROVE Legami' /\ LineaInv'
    <2>1. UNCHANGED <<pid, nextPid, morenti, su, lineVars, count>>
      BY <1>5 DEF SendSveglia, procVars, lineVars, boxVars
    <2>2. PICK W : st' = Svegliati(W)
      BY <1>5 DEF SendSveglia
    <2>3. VitaFerma /\ \A x \in Posti : st'[x] = "BLOCKED" => st[x] = "BLOCKED"
      BY <2>1, <2>2, SvegliatiVita, SvegliatiNonDorme
    <2>4. Legami'
      BY <1>5, <1>0, <2>1, <2>3, TornaAltri, FuoriUsciti DEF SendSveglia
    <2> QED  BY <1>0, <2>1, <2>3, <2>4, AnelliFermi, LineaFerma
  <1>6. ASSUME NEW s \in Posti, SendEbusySenza(s) PROVE Legami' /\ LineaInv'
    <2>1. UNCHANGED <<pid, nextPid, morenti, st, su, lineVars, count>> /\ VitaFerma
      BY <1>6 DEF SendEbusySenza, procVars, lineVars, boxVars, VitaFerma
    <2>2. Legami'
      BY <1>6, <1>0, <2>1, TornaAltri, FuoriUsciti DEF SendEbusySenza
    <2> QED  BY <1>0, <2>1, <2>2, AnelliFermi, LineaFerma
  <1>7. ASSUME NEW s \in Posti, RecvScaduta(s) PROVE Legami' /\ LineaInv'
    <2>1. UNCHANGED <<pid, nextPid, morenti, st, su, lineVars, count>> /\ VitaFerma
      BY <1>7 DEF RecvScaduta, procVars, lineVars, boxVars, VitaFerma
    <2>2. Legami'
      BY <1>7, <1>0, <2>1, TornaAltri, FuoriUsciti DEF RecvScaduta
    <2> QED  BY <1>0, <2>1, <2>2, AnelliFermi, LineaFerma
  <1>8. ASSUME NEW s \in Posti, SendAspetta(s) PROVE Legami' /\ LineaInv'
    <2>1. su[s] \in {dest[s], Nessuno}
      BY <1>8, <1>0, UnaSolaFila DEF SendAspetta
    <2> QED  BY <1>8, <1>0, <2>1, SendAspettaLegami, LineaAspetta
  <1>9. ASSUME NEW s \in Posti, RecvPrende(s) PROVE Legami' /\ LineaInv'
    <2>1. UNCHANGED <<pid, nextPid, morenti, su>>
      BY <1>9 DEF RecvPrende, procVars
    <2>2. PICK W : st' = Svegliati(W)
      BY <1>9 DEF RecvPrende
    <2>3. VitaFerma
      BY <2>1, <2>2, SvegliatiVita
    <2>4. Legami'
      BY <1>9, <1>0, <2>1, <2>3, TornaAltri, FuoriUsciti DEF RecvPrende
    <2> QED  BY <1>9, <1>0, <2>4, LineaPrende
  <1>10. ASSUME NEW s \in Posti, RecvAspetta(s) PROVE Legami' /\ LineaInv'
    <2>1. /\ UNCHANGED <<pid, nextPid, morenti, su, lineVars, count, destPid, dest, senza>>
          /\ VitaFerma
          /\ \A x \in Posti \ {s} : st'[x] = st[x] /\ pc'[x] = pc[x]
          /\ pc'[s] = "risveglio"
      BY <1>10, <1>0 DEF RecvAspetta, procVars, lineVars, boxVars, VitaFerma, Gira, TypeOK
    <2>2. su[s] = Nessuno
      BY <1>10, <1>0, FuoriDallaFila DEF RecvAspetta
    <2>3. Legami'
      BY <1>0, <2>1, <2>2, UnoFuori
    <2> QED  BY <1>0, <2>1, <2>2, <2>3, AnelliFermi, LineaFerma
  <1>11. ASSUME NEW s \in Posti, RecvRisveglio(s) PROVE Legami' /\ LineaInv'
    <2>1. /\ UNCHANGED <<pid, nextPid, morenti, st, su, lineVars, count>> /\ VitaFerma
          /\ pc'[s] \notin {"trova", "send"}
          /\ \A x \in Posti \ {s} :
                /\ pc'[x] = pc[x] /\ destPid'[x] = destPid[x] /\ dest'[x] = dest[x]
                /\ x \in senza' => x \in senza
      BY <1>11, <1>0 DEF RecvRisveglio, Torna, procVars, lineVars, boxVars, VitaFerma, TypeOK
    <2>2. Legami'
      BY <1>11, <1>0, <2>1, FuoriUsciti DEF RecvRisveglio
    <2> QED  BY <1>0, <2>1, <2>2, AnelliFermi, LineaFerma
  <1>12. ASSUME NEW s \in Posti, RitornoUtente(s) PROVE Legami' /\ LineaInv'
    <2>1. /\ UNCHANGED <<pid, nextPid, morenti, st, su, lineVars, count>> /\ VitaFerma
          /\ pc'[s] \notin {"trova", "send"}
          /\ \A x \in Posti \ {s} :
                /\ pc'[x] = pc[x] /\ destPid'[x] = destPid[x] /\ dest'[x] = dest[x]
                /\ x \in senza' => x \in senza
      BY <1>12, <1>0 DEF RitornoUtente, procVars, lineVars, boxVars, VitaFerma, TypeOK
    <2>2. Legami'
      BY <1>12, <1>0, <2>1, FuoriUsciti DEF RitornoUtente
    <2> QED  BY <1>0, <2>1, <2>2, AnelliFermi, LineaFerma
  <1>13. ASSUME NEW s \in Posti, RecvInizia(s) PROVE Legami' /\ LineaInv'
    <2>1. /\ UNCHANGED <<pid, nextPid, morenti, st, su, lineVars, count>> /\ VitaFerma
          /\ pc'[s] \notin {"trova", "send"}
          /\ \A x \in Posti \ {s} :
                /\ pc'[x] = pc[x] /\ destPid'[x] = destPid[x] /\ dest'[x] = dest[x]
                /\ x \in senza' => x \in senza
      BY <1>13, <1>0 DEF RecvInizia, procVars, lineVars, boxVars, VitaFerma, TypeOK
    <2>2. Legami'
      BY <1>13, <1>0, <2>1, FuoriUsciti DEF RecvInizia
    <2> QED  BY <1>0, <2>1, <2>2, AnelliFermi, LineaFerma
  <1>14. ASSUME NEW s \in Posti, RitornoInterrotto(s) PROVE Legami' /\ LineaInv'
    <2>1. /\ UNCHANGED <<pid, nextPid, pc, destPid, dest, senza, st, su, lineVars, count>>
          /\ VitaFerma
          /\ \A x \in morenti' : x \in Posti /\ Vivo(x)
      BY <1>14 DEF RitornoInterrotto, Termina, Gruppo, Vivo, Gira, procVars, callVars, lineVars, boxVars, VitaFerma
    <2> QED  BY <1>0, <2>1, NessunoSiMuove, AnelliFermi, LineaFerma
  <1>15. ASSUME NEW s \in Posti, EsciGruppo(s) PROVE Legami' /\ LineaInv'
    <2>1. /\ UNCHANGED <<pid, nextPid, pc, destPid, dest, senza, st, su, lineVars, count>>
          /\ VitaFerma
          /\ \A x \in morenti' : x \in Posti /\ Vivo(x)
      BY <1>15 DEF EsciGruppo, Termina, Gruppo, Vivo, Gira, procVars, callVars, lineVars, boxVars, VitaFerma
    <2> QED  BY <1>0, <2>1, NessunoSiMuove, AnelliFermi, LineaFerma
  <1>16. ASSUME NEW s \in Posti, EsciFilo(s) PROVE Legami' /\ LineaInv'
    <2>1. /\ UNCHANGED <<pid, nextPid, pc, destPid, dest, senza, st, su, lineVars, count>>
          /\ VitaFerma
          /\ \A x \in morenti' : x \in Posti /\ Vivo(x)
      BY <1>16 DEF EsciFilo, Termina, Gruppo, Vivo, Gira, procVars, callVars, lineVars, boxVars, VitaFerma
    <2> QED  BY <1>0, <2>1, NessunoSiMuove, AnelliFermi, LineaFerma
  <1>17. ASSUME NEW s \in Posti, UccidiNascente(s) PROVE Legami' /\ LineaInv'
    <2>1. /\ UNCHANGED <<pid, nextPid, pc, destPid, dest, senza, st, su, lineVars, count>>
          /\ VitaFerma
          /\ \A x \in morenti' : x \in Posti /\ Vivo(x)
      BY <1>17 DEF UccidiNascente, Termina, Gruppo, Vivo, Gira, procVars, callVars, lineVars, boxVars, VitaFerma
    <2> QED  BY <1>0, <2>1, NessunoSiMuove, AnelliFermi, LineaFerma
  <1>18. ASSUME NEW s \in Posti, proc_interrompi(s) PROVE Legami' /\ LineaInv'
    <2>1. /\ UNCHANGED <<pid, nextPid, pc, destPid, dest, senza, su, lineVars, count>>
          /\ st' = Svegliati({s})
          /\ morenti' = {}
      BY <1>18 DEF proc_interrompi, procVars, callVars, lineVars, boxVars
    <2>2. VitaFerma /\ \A x \in Posti : st'[x] = "BLOCKED" => st[x] = "BLOCKED"
      BY <2>1, SvegliatiVita, SvegliatiNonDorme
    <2> QED  BY <1>0, <2>1, <2>2, NessunoSiMuove, AnelliFermi, LineaFerma
  <1>19. ASSUME NEW s \in Posti, sveglia_per(s) PROVE Legami' /\ LineaInv'
    <2>1. /\ UNCHANGED <<pid, nextPid, pc, destPid, dest, senza, su, lineVars, count>>
          /\ st' = Svegliati({s})
          /\ morenti' = {}
      BY <1>19 DEF sveglia_per, procVars, callVars, lineVars, boxVars
    <2>2. VitaFerma /\ \A x \in Posti : st'[x] = "BLOCKED" => st[x] = "BLOCKED"
      BY <2>1, SvegliatiVita, SvegliatiNonDorme
    <2> QED  BY <1>0, <2>1, <2>2, NessunoSiMuove, AnelliFermi, LineaFerma
  <1>20. ASSUME NEW s \in Posti, Scade(s) PROVE Legami' /\ LineaInv'
    <2>1. /\ UNCHANGED <<pid, nextPid, pc, destPid, dest, senza, su, lineVars, count>>
          /\ st' = Svegliati({s})
          /\ morenti' = {}
      BY <1>20 DEF Scade, procVars, callVars, lineVars, boxVars
    <2>2. VitaFerma /\ \A x \in Posti : st'[x] = "BLOCKED" => st[x] = "BLOCKED"
      BY <2>1, SvegliatiVita, SvegliatiNonDorme
    <2> QED  BY <1>0, <2>1, <2>2, NessunoSiMuove, AnelliFermi, LineaFerma
  <1>21. ASSUME NEW s \in Posti, ipc_notify_irq(s) PROVE Legami' /\ LineaInv'
    <2>1. /\ UNCHANGED <<pid, nextPid, pc, destPid, dest, senza, su, lineVars>>
          /\ st' = Svegliati({s})
          /\ morenti' = {}
          /\ count' = [count EXCEPT ![s] = count[s] + 1]
      BY <1>21 DEF ipc_notify_irq, Deposita, procVars, callVars, lineVars
    <2>2. VitaFerma /\ \A x \in Posti : st'[x] = "BLOCKED" => st[x] = "BLOCKED"
      BY <2>1, SvegliatiVita, SvegliatiNonDorme
    <2>3. count \in [Posti -> Nat]
      BY <1>0, AnelliNat
    <2>4. \A d \in Posti : count'[d] >= count[d]
      BY <2>1, <2>3
    <2> QED  BY <1>0, <2>1, <2>2, <2>4, NessunoSiMuove, LineaFerma
  <1>22. ASSUME NEW s \in Posti, proc_set_ready(s) PROVE Legami' /\ LineaInv'
    <2>1. /\ UNCHANGED <<pid, nextPid, pc, destPid, dest, senza, su, lineVars, count>>
          /\ \A x \in Posti : st'[x] = IF x = s THEN "READY" ELSE st[x]
          /\ st[s] = "NASCENTE" /\ morenti' = {}
      BY <1>22, <1>0 DEF proc_set_ready, procVars, callVars, lineVars, boxVars, TypeOK
    <2>2. VitaFerma
      BY <2>1 DEF VitaFerma
    <2> QED  BY <1>0, <2>1, <2>2, NessunoSiMuove, AnelliFermi, LineaFerma
  <1>23. ASSUME NEW s \in Posti, SendInizia(s) PROVE Legami' /\ LineaInv'
    <2>1. UNCHANGED <<lineVars, st, count>>
      BY <1>23 DEF SendInizia, boxVars
    <2> QED  BY <1>23, <1>0, <2>1, SendIniziaLegami, AnelliFermi, LineaFerma
  <1>24. ASSUME NEW s \in Posti, Crea(s) PROVE Legami' /\ LineaInv'
    <2>1. PICK g : Nasce(s, g) /\ morenti = {}
      BY <1>24 DEF Crea
    <2>2. Legami'
      BY <1>0, <2>1, NasceLegami
    <2>3. /\ UNCHANGED <<lineVars, count>>
          /\ \A x \in Posti : st'[x] = "BLOCKED" => st[x] = "BLOCKED"
      BY <1>0, <2>1 DEF Nasce, TypeOK
    <2> QED  BY <1>0, <2>2, <2>3, AnelliFermi, LineaFerma
  <1>25. ASSUME NEW s \in Posti, NEW t \in Posti, CreaFilo(s, t) PROVE Legami' /\ LineaInv'
    <2>1. PICK g : Nasce(s, g) /\ morenti = {}
      BY <1>25 DEF CreaFilo, Gira
    <2>2. Legami'
      BY <1>0, <2>1, NasceLegami
    <2>3. /\ UNCHANGED <<lineVars, count>>
          /\ \A x \in Posti : st'[x] = "BLOCKED" => st[x] = "BLOCKED"
      BY <1>0, <2>1 DEF Nasce, TypeOK
    <2> QED  BY <1>0, <2>2, <2>3, AnelliFermi, LineaFerma
  <1>26. ASSUME NEW s \in Posti, proc_reap_zombie(s) PROVE Legami' /\ LineaInv'
    <2>1. /\ UNCHANGED lineVars /\ st[s] = "ZOMBIE"
          /\ \A x \in Posti : st'[x] = "BLOCKED" => st[x] = "BLOCKED"
          /\ \A x \in Posti \ {s} : count'[x] = count[x]
      BY <1>26, <1>0 DEF proc_reap_zombie, TypeOK
    <2>2. Fila(s) = {}
      BY <1>0, <2>1, PostiAssumption DEF Fila, Legami, FilaGiusta, Vivo
    <2>3. count \in [Posti -> Nat]
      BY <1>0, AnelliNat
    <2>4. \A d \in Posti : Fila(d) # {} => count'[d] >= count[d]
      BY <2>1, <2>2, <2>3
    <2> QED  BY <1>26, <1>0, <2>1, <2>4, RaccoltaLegami, LineaFerma
  <1>27. ASSUME NEW s \in Posti, Finisce(s) PROVE Legami' /\ LineaInv'
    BY <1>27, <1>0, FinisceLegami, LineaFinisce
  <1>28. CASE UNCHANGED vars
    <2>1. UNCHANGED <<pid, nextPid, pc, destPid, dest, senza, st, su, lineVars, count, morenti>>
      BY <1>28 DEF vars, procVars, callVars, lineVars, boxVars
    <2>2. VitaFerma /\ \A x \in morenti' : x \in Posti /\ Vivo(x)
      BY <1>0, <2>1 DEF VitaFerma, Legami, MorentiVivi, TypeOK
    <2> QED  BY <1>0, <2>1, <2>2, NessunoSiMuove, AnelliFermi, LineaFerma
  <1> QED
    BY <1>1, <1>2, <1>3, <1>4, <1>5, <1>6, <1>7, <1>8, <1>9, <1>10, <1>11, <1>12, <1>13, <1>14, <1>15, <1>16, <1>17, <1>18, <1>19, <1>20, <1>21, <1>22, <1>23, <1>24, <1>25, <1>26, <1>27, <1>28
       DEF Next, Chiamata, Programma, Ambiente

-----------------------------------------------------------------------------
(* The theorems.                                                           *)

\* The inductive invariant holds at the start.
LEMMA IInvInizio == Init => IInv
  <1> SUFFICES ASSUME Init PROVE IInv  OBVIOUS
  <1>1. TypeOK
    BY VuotoTipo, DepthAssumption, MaxPidAssumption DEF Init, TypeOK, Stati, Punti
  <1>2. Legami
    BY PostiAssumption
       DEF Init, Legami, PidUnici, Riferimenti, FilaGiusta, MorentiVivi
  <1>3. \A d \in Posti : Fila(d) = {} /\ Promessi(d) = {} /\ riservati[d] = 0
    BY PostiAssumption DEF Init, Fila, Promessi
  <1>4. Ordine /\ PromessiInTesta /\ PromessaNonDorme /\ NessunoDimenticato
    BY <1>3, DepthAssumption
       DEF Init, Ordine, PromessiInTesta, PromessaNonDorme, NessunoDimenticato
  <1>5. RiservatiEsatti
    BY <1>3, FS_EmptySet DEF RiservatiEsatti
  <1> QED  BY <1>1, <1>2, <1>4, <1>5 DEF IInv, LineaInv

\* The inductive invariant holds in every behaviour.
THEOREM IInvSempre == Spec => []IInv
  BY IInvInizio, IInvPasso, PTL DEF Spec

\* Nobody is ever left in the line of a process it does not write to, whatever
\* dies, is collected or reuses a process slot (fila_togli, fila_metti,
\* ipc_processo_finito).
THEOREM FilaGiustaSempre == Spec => []FilaGiusta
  <1>1. IInv => FilaGiusta
    BY DEF IInv, Legami
  <1> QED  BY <1>1, IInvSempre, PTL

\* ipc_riservati counts the promises exactly: none leaks, none is given back
\* twice (fila_togli, fila_avanza, ipc_processo_finito).
THEOREM RiservatiEsattiSempre == Spec => []RiservatiEsatti
  <1>1. IInv => RiservatiEsatti
    BY DEF IInv, LineaInv
  <1> QED  BY <1>1, IInvSempre, PTL

\* The promised senders are at the front of the line and at most Depth of them,
\* as fila_avanza's comment says.
THEOREM PromessiInTestaSempre == Spec => []PromessiInTesta
  <1>1. IInv => PromessiInTesta
    BY DEF IInv, LineaInv
  <1> QED  BY <1>1, IInvSempre, PTL

\* Nobody stands without a promise before a mailbox that is empty and promised
\* to nobody: some receive or departure will move the line (fila_avanza).
THEOREM NessunoDimenticatoSempre == Spec => []NessunoDimenticato
  <1>1. IInv => NessunoDimenticato
    BY DEF IInv, LineaInv
  <1> QED  BY <1>1, IInvSempre, PTL

\* A promised sender sleeps only in front of a full mailbox: fila_avanza wakes
\* also the ones whose slot was taken.
THEOREM PromessaNonDormeSempre == Spec => []PromessaNonDorme
  <1>1. IInv => PromessaNonDorme
    BY DEF IInv, LineaInv
  <1> QED  BY <1>1, IInvSempre, PTL

\* Only a delivery of s takes s out of ipc_send and makes a mailbox longer.
LEMMA SoloConsegna ==
    ASSUME TypeOK, Next, NEW s \in Posti, pc[s] = "send",
           pc'[s] \in {"ret", "sveglia"}, dest[s] \in Posti,
           count'[dest[s]] = count[dest[s]] + 1
    PROVE  SendConsegna(s)
  <1>1. PICK t \in Posti : Chiamata(t) \/ Programma(t) \/ Ambiente(t) \/ Finisce(t)
    BY DEF Next
  <1>2. pc \in [Posti -> Punti] /\ pc'[s] # pc[s] /\ count \in [Posti -> Nat]
    BY AnelliNat DEF TypeOK
  <1>3. Chiamata(t)
    <2>1. Ambiente(t) => FALSE
      BY <1>2 DEF Ambiente, proc_interrompi, sveglia_per, Scade, ipc_notify_irq, callVars
    <2>2. Finisce(t) => FALSE
      BY <1>2 DEF Finisce
    <2>3. Programma(t) => FALSE
      BY <1>2 DEF Programma, Crea, CreaFilo, Nasce, proc_set_ready, EsciGruppo, EsciFilo,
                  UccidiNascente, Termina, proc_reap_zombie, SendInizia, RecvInizia, callVars
    <2> QED  BY <1>1, <2>1, <2>2, <2>3
  <1>4. t = s
    <2>1. t # s => pc'[s] = pc[s]
      BY <1>3, <1>2 DEF Chiamata, SendTrova, SendEsrch, SendConsegna, SendSveglia, SendEbusySenza,
         SendEbusyScaduta, SendAspetta, RecvPrende, RecvScaduta, RecvAspetta, RecvRisveglio,
         RitornoUtente, RitornoInterrotto, Termina, Torna, callVars
    <2> QED  BY <1>2, <2>1
  <1>5. count' # count
    BY <1>2
  <1>6. ~(SendEsrch(s) \/ SendEbusySenza(s) \/ SendEbusyScaduta(s))
    BY <1>5 DEF SendEsrch, SendEbusySenza, SendEbusyScaduta, boxVars
  <1>7. ~(SendTrova(s) \/ SendSveglia(s) \/ SendAspetta(s))
    BY <1>5 DEF SendTrova, SendSveglia, SendAspetta, boxVars
  <1>8. ~(RecvPrende(s) \/ RecvScaduta(s) \/ RecvAspetta(s) \/ RecvRisveglio(s)
             \/ RitornoUtente(s) \/ RitornoInterrotto(s))
    BY DEF RecvPrende, RecvScaduta, RecvAspetta, RecvRisveglio, RitornoUtente, RitornoInterrotto
  <1> QED  BY <1>3, <1>4, <1>6, <1>7, <1>8 DEF Chiamata

\* Fewer than Depth senders stand before one that has a promise.
LEMMA PochiPrima ==
    ASSUME IInv, NEW s \in Posti, su[s] \in Posti, s \in concesso
    PROVE  Cardinality(prima[s]) < Depth
  <1> DEFINE P == Promessi(su[s])
  <1>1. P \in SUBSET Posti /\ IsFiniteSet(P) /\ Cardinality(P) \in Nat
    BY Finiti DEF Promessi, Fila
  <1>2. prima[s] \in SUBSET Posti /\ Cardinality(P) <= Depth
    BY DEF IInv, TypeOK, LineaInv, RiservatiEsatti, PromessiInTesta
  <1>3. prima[s] \subseteq P \ {s} /\ s \in P
    BY <1>2, PostiAssumption DEF IInv, LineaInv, Ordine, PromessiInTesta, Promessi, Fila
  <1>4. /\ Cardinality(P \ {s}) = Cardinality(P) - 1
        /\ IsFiniteSet(P \ {s})
    BY <1>1, <1>3, FS_RemoveElement
  <1>5. Cardinality(prima[s]) <= Cardinality(P \ {s}) /\ Cardinality(prima[s]) \in Nat
    BY <1>2, <1>3, <1>4, Finiti, FS_Subset
  <1> HIDE DEF P
  <1> QED  BY <1>1, <1>2, <1>4, <1>5, DepthAssumption

\* A waiting sender is overtaken by at most the Depth - 1 promised with it, and
\* a newcomer delivers only where nobody waits (posto, in ipc_send).
THEOREM SorpassoSempre == Spec => SorpassoLimitato
  <1> DEFINE Consegnato(s) ==
               /\ pc[s] = "send" /\ pc'[s] \in {"ret", "sveglia"} /\ s \notin senza
               /\ dest[s] # Nessuno /\ count'[dest[s]] = count[dest[s]] + 1
             InOrdine(s) == IF su[s] = dest[s] THEN Cardinality(prima[s]) < Depth
                                               ELSE Fila(dest[s]) = {}
  <1>1. IInv /\ [Next]_vars => [\A s \in Posti : Consegnato(s) => InOrdine(s)]_vars
    <2> SUFFICES ASSUME IInv, Next, NEW s \in Posti, Consegnato(s) PROVE InOrdine(s)
      OBVIOUS
    <2>1. TypeOK /\ dest[s] \in Posti
      BY DEF IInv, TypeOK
    <2>2. SendConsegna(s)
      BY <2>1, SoloConsegna
    <2>3. IF su[s] = dest[s] THEN s \in concesso ELSE Fila(dest[s]) = {}
      BY <2>2 DEF SendConsegna, Posto
    <2> QED  BY <2>1, <2>3, PochiPrima
  <1> QED  BY <1>1, IInvSempre, PTL DEF Spec, SorpassoLimitato

-----------------------------------------------------------------------------
(* A message wakes the process that sleeps for it.  ipc_send reads         *)
(* need_wake with interrupts off and wakes after they are back on: until   *)
(* then the wake is owed by the sender alone.  Two things lose it, both    *)
(* shown by further instances and so excluded here: the end of the         *)
(* sender's group in between ("filo"), and a mailbox whose slot has become *)
(* another process's since the lookup ("raccolta").                        *)

\* Without threads every process is its own group.
Soli == \A s \in Posti : tgid[s] = pid[s]

\* Only a process that runs or sleeps is inside a call.
FuoriServizio ==
    \A s \in Posti : st[s] \in {"UNUSED", "NASCENTE", "ZOMBIE"} => pc[s] = "usr"

\* A process that ends is in none of the calls that owe something.
MorentiQuieti == \A s \in morenti : pc[s] \in {"usr", "ret"}

\* Without slot reuse the destination looked up is still the one meant.
Agganci ==
    \A s \in Posti : pc[s] = "send" /\ dest[s] # Nessuno => pid[dest[s]] = destPid[s]

Contorno == Soli /\ FuoriServizio /\ MorentiQuieti /\ Agganci

\* One running process s moves; the others at most wake.
LEMMA UnoCammina ==
    ASSUME TypeOK, Contorno, NEW s \in Posti, Gira(s), UNCHANGED <<pid, tgid, morenti>>,
           \A x \in Posti \ {s} :
              pc'[x] = pc[x] /\ destPid'[x] = destPid[x] /\ dest'[x] = dest[x],
           \A x \in Posti : \/ st'[x] = st[x]
                            \/ st[x] = "BLOCKED" /\ st'[x] = "READY"
                            \/ x = s /\ st'[x] = "BLOCKED",
           pc'[s] = "send" /\ dest'[s] # Nessuno => pid[dest'[s]] = destPid'[s]
    PROVE  Contorno'
  <1>1. Soli'
    BY DEF Contorno, Soli
  <1>2. FuoriServizio'
    <2> SUFFICES ASSUME NEW x \in Posti, st'[x] \in {"UNUSED", "NASCENTE", "ZOMBIE"}
                 PROVE  pc'[x] = "usr"
      BY DEF FuoriServizio
    <2>1. st[x] = st'[x] /\ x # s
      BY DEF Gira
    <2> QED  BY <2>1 DEF Contorno, FuoriServizio
  <1>3. MorentiQuieti'
    BY DEF MorentiQuieti, Gira
  <1>4. Agganci'
    BY DEF Contorno, Agganci
  <1> QED  BY <1>1, <1>2, <1>3, <1>4 DEF Contorno

\* Nobody's call moves; some may wake or begin to run.
LEMMA NessunoCammina ==
    ASSUME TypeOK, Contorno, UNCHANGED <<pid, tgid, pc, destPid, dest>>,
           \A x \in Posti : st'[x] = st[x] \/ st'[x] = "READY",
           \A x \in morenti' : x \in Posti /\ pc[x] \in {"usr", "ret"}
    PROVE  Contorno'
  <1>1. Soli' /\ Agganci' /\ MorentiQuieti'
    BY DEF Contorno, Soli, Agganci, MorentiQuieti
  <1>2. FuoriServizio'
    BY DEF Contorno, FuoriServizio
  <1> QED  BY <1>1, <1>2 DEF Contorno

\* No message enters a mailbox and nobody goes to sleep on one that holds
\* any, and every wake that is owed stays owed to the same process.
LEMMA NienteDiNuovo ==
    ASSUME MessaggioNonDorme,
           \A x \in Posti : st'[x] = "BLOCKED" /\ pc'[x] = "risveglio" /\ count'[x] > 0 =>
              st[x] = "BLOCKED" /\ pc[x] = "risveglio" /\ count[x] > 0 /\ pid'[x] = pid[x],
           \A t \in Posti : Vivo(t) /\ pc[t] = "sveglia" =>
              Vivo(t)' /\ pc'[t] = "sveglia" /\ destPid'[t] = destPid[t]
    PROVE  MessaggioNonDorme'
  BY DEF MessaggioNonDorme

\* The same, for the step of one process that owes no wake.
LEMMA UnoNonDeve ==
    ASSUME MessaggioNonDorme, NEW s \in Posti, UNCHANGED pid, pc[s] # "sveglia",
           \A x \in Posti \ {s} : pc'[x] = pc[x] /\ destPid'[x] = destPid[x],
           \A x \in Posti : \/ st'[x] = st[x]
                            \/ st[x] = "BLOCKED" /\ st'[x] = "READY"
                            \/ x = s /\ st'[x] = "BLOCKED",
           \A x \in Posti : count'[x] > 0 => count[x] > 0,
           pc'[s] = "risveglio" /\ st'[s] = "BLOCKED" => ~(count'[s] > 0)
    PROVE  MessaggioNonDorme'
  <1>1. ASSUME NEW x \in Posti, st'[x] = "BLOCKED", pc'[x] = "risveglio", count'[x] > 0
        PROVE  st[x] = "BLOCKED" /\ pc[x] = "risveglio" /\ count[x] > 0 /\ pid'[x] = pid[x]
    BY <1>1
  <1>2. ASSUME NEW t \in Posti, Vivo(t), pc[t] = "sveglia"
        PROVE  Vivo(t)' /\ pc'[t] = "sveglia" /\ destPid'[t] = destPid[t]
    BY <1>2 DEF Vivo
  <1> QED  BY <1>1, <1>2, NienteDiNuovo

\* The same, when no call moves.
LEMMA NessunoNonDeve ==
    ASSUME MessaggioNonDorme, UNCHANGED <<pid, pc, destPid, count>>,
           \A x \in Posti : st'[x] = st[x] \/ st'[x] = "READY"
    PROVE  MessaggioNonDorme'
  <1>1. ASSUME NEW t \in Posti, Vivo(t), pc[t] = "sveglia"
        PROVE  Vivo(t)' /\ pc'[t] = "sveglia" /\ destPid'[t] = destPid[t]
    BY <1>1 DEF Vivo
  <1> QED  BY <1>1, NienteDiNuovo

\* What a wake does to each process.
LEMMA SvegliatiPunto ==
    ASSUME NEW W, st' = Svegliati(W)
    PROVE  \A x \in Posti : st'[x] = st[x] \/ (st[x] = "BLOCKED" /\ st'[x] = "READY")
  BY DEF Svegliati

\* Leaving the line wakes at most.
LEMMA LasciaFilaPunto ==
    ASSUME NEW w \in Posti, LasciaFila(w)
    PROVE  \A x \in Posti : st'[x] = st[x] \/ (st[x] = "BLOCKED" /\ st'[x] = "READY")
  <1>1. CASE UNCHANGED st
    BY <1>1
  <1>2. CASE \E W : st' = Svegliati(W)
    BY <1>2, SvegliatiPunto
  <1> QED  BY <1>1, <1>2 DEF LasciaFila

\* Waiting in the line puts the sender alone to sleep.
LEMMA SendAspettaPunto ==
    ASSUME TypeOK, NEW s \in Posti, SendAspetta(s)
    PROVE  \A x \in Posti : \/ st'[x] = st[x]
                            \/ st[x] = "BLOCKED" /\ st'[x] = "READY"
                            \/ x = s /\ st'[x] = "BLOCKED"
  <1>1. CASE st' = [st EXCEPT ![s] = "BLOCKED"]
    BY <1>1 DEF TypeOK
  <1>2. CASE \E W : st' = [Svegliati(W) EXCEPT ![s] = "BLOCKED"]
    BY <1>2 DEF Svegliati
  <1>3. \/ st' = [st EXCEPT ![s] = "BLOCKED"]
        \/ \E W : st' = [Svegliati(W) EXCEPT ![s] = "BLOCKED"]
    BY DEF SendAspetta
  <1> QED  BY <1>1, <1>2, <1>3

\* Every step keeps the wakes that are owed.
LEMMA SveglieDovute ==
    ASSUME "filo" \notin Eventi, "raccolta" \notin Eventi
    PROVE  IInv /\ Contorno /\ MessaggioNonDorme /\ [Next]_vars => Contorno' /\ MessaggioNonDorme'
  <1> SUFFICES ASSUME IInv, Contorno, MessaggioNonDorme, [Next]_vars
               PROVE  Contorno' /\ MessaggioNonDorme'
    OBVIOUS
  <1>0. IInv /\ TypeOK /\ Contorno /\ MessaggioNonDorme
    BY DEF IInv
  <1>1. ASSUME NEW s \in Posti, SendEsrch(s) PROVE Contorno' /\ MessaggioNonDorme'
    <2>1. /\ Gira(s) /\ UNCHANGED <<pid, tgid, morenti>> /\ pc[s] # "sveglia"
          /\ pc'[s] # "send" /\ (pc'[s] = "risveglio" => FALSE)
      BY <1>1, <1>0 DEF SendEsrch, Torna, Gira, Preleva, procVars, boxVars, TypeOK
    <2>2. \A x \in Posti \ {s} : pc'[x] = pc[x] /\ destPid'[x] = destPid[x] /\ dest'[x] = dest[x]
      BY <1>1, <1>0 DEF SendEsrch, Torna, Gira, Preleva, procVars, boxVars, TypeOK
    <2>3. \A x \in Posti : \/ st'[x] = st[x]
                           \/ st[x] = "BLOCKED" /\ st'[x] = "READY"
                           \/ x = s /\ st'[x] = "BLOCKED"
      BY <1>1, LasciaFilaPunto DEF SendEsrch
    <2>4. \A x \in Posti : count'[x] > 0 => count[x] > 0
      BY <1>1 DEF SendEsrch, boxVars
    <2> QED  BY <1>0, <2>1, <2>2, <2>3, <2>4, UnoCammina, UnoNonDeve
  <1>2. ASSUME NEW s \in Posti, SendEbusyScaduta(s) PROVE Contorno' /\ MessaggioNonDorme'
    <2>1. /\ Gira(s) /\ UNCHANGED <<pid, tgid, morenti>> /\ pc[s] # "sveglia"
          /\ pc'[s] # "send" /\ (pc'[s] = "risveglio" => FALSE)
      BY <1>2, <1>0 DEF SendEbusyScaduta, Torna, Gira, Preleva, procVars, boxVars, TypeOK
    <2>2. \A x \in Posti \ {s} : pc'[x] = pc[x] /\ destPid'[x] = destPid[x] /\ dest'[x] = dest[x]
      BY <1>2, <1>0 DEF SendEbusyScaduta, Torna, Gira, Preleva, procVars, boxVars, TypeOK
    <2>3. \A x \in Posti : \/ st'[x] = st[x]
                           \/ st[x] = "BLOCKED" /\ st'[x] = "READY"
                           \/ x = s /\ st'[x] = "BLOCKED"
      BY <1>2, LasciaFilaPunto DEF SendEbusyScaduta
    <2>4. \A x \in Posti : count'[x] > 0 => count[x] > 0
      BY <1>2 DEF SendEbusyScaduta, boxVars
    <2> QED  BY <1>0, <2>1, <2>2, <2>3, <2>4, UnoCammina, UnoNonDeve
  <1>3. ASSUME NEW s \in Posti, SendEbusySenza(s) PROVE Contorno' /\ MessaggioNonDorme'
    <2>1. /\ Gira(s) /\ UNCHANGED <<pid, tgid, morenti>> /\ pc[s] # "sveglia"
          /\ pc'[s] # "send" /\ (pc'[s] = "risveglio" => FALSE)
      BY <1>3, <1>0 DEF SendEbusySenza, Torna, Gira, Preleva, procVars, boxVars, TypeOK
    <2>2. \A x \in Posti \ {s} : pc'[x] = pc[x] /\ destPid'[x] = destPid[x] /\ dest'[x] = dest[x]
      BY <1>3, <1>0 DEF SendEbusySenza, Torna, Gira, Preleva, procVars, boxVars, TypeOK
    <2>3. \A x \in Posti : \/ st'[x] = st[x]
                           \/ st[x] = "BLOCKED" /\ st'[x] = "READY"
                           \/ x = s /\ st'[x] = "BLOCKED"
      BY <1>3 DEF SendEbusySenza
    <2>4. \A x \in Posti : count'[x] > 0 => count[x] > 0
      BY <1>3 DEF SendEbusySenza, boxVars
    <2> QED  BY <1>0, <2>1, <2>2, <2>3, <2>4, UnoCammina, UnoNonDeve
  <1>4. ASSUME NEW s \in Posti, SendAspetta(s) PROVE Contorno' /\ MessaggioNonDorme'
    <2>1. /\ Gira(s) /\ UNCHANGED <<pid, tgid, morenti>> /\ pc[s] # "sveglia"
          /\ pc'[s] # "send" /\ (pc'[s] = "risveglio" => FALSE)
      BY <1>4, <1>0 DEF SendAspetta, Torna, Gira, Preleva, procVars, boxVars, TypeOK
    <2>2. \A x \in Posti \ {s} : pc'[x] = pc[x] /\ destPid'[x] = destPid[x] /\ dest'[x] = dest[x]
      BY <1>4, <1>0 DEF SendAspetta, Torna, Gira, Preleva, procVars, boxVars, TypeOK
    <2>3. \A x \in Posti : \/ st'[x] = st[x]
                           \/ st[x] = "BLOCKED" /\ st'[x] = "READY"
                           \/ x = s /\ st'[x] = "BLOCKED"
      BY <1>4, <1>0, SendAspettaPunto
    <2>4. \A x \in Posti : count'[x] > 0 => count[x] > 0
      BY <1>4 DEF SendAspetta, boxVars
    <2> QED  BY <1>0, <2>1, <2>2, <2>3, <2>4, UnoCammina, UnoNonDeve
  <1>5. ASSUME NEW s \in Posti, RecvPrende(s) PROVE Contorno' /\ MessaggioNonDorme'
    <2>1. /\ Gira(s) /\ UNCHANGED <<pid, tgid, morenti>> /\ pc[s] # "sveglia"
          /\ pc'[s] # "send" /\ (pc'[s] = "risveglio" => FALSE)
      BY <1>5, <1>0 DEF RecvPrende, Torna, Gira, Preleva, procVars, boxVars, TypeOK
    <2>2. \A x \in Posti \ {s} : pc'[x] = pc[x] /\ destPid'[x] = destPid[x] /\ dest'[x] = dest[x]
      BY <1>5, <1>0 DEF RecvPrende, Torna, Gira, Preleva, procVars, boxVars, TypeOK
    <2>3. \A x \in Posti : \/ st'[x] = st[x]
                           \/ st[x] = "BLOCKED" /\ st'[x] = "READY"
                           \/ x = s /\ st'[x] = "BLOCKED"
      BY <1>5, SvegliatiPunto DEF RecvPrende
    <2>4. \A x \in Posti : count'[x] > 0 => count[x] > 0
      BY <1>5, <1>0, AnelliNat DEF RecvPrende, Preleva
    <2> QED  BY <1>0, <2>1, <2>2, <2>3, <2>4, UnoCammina, UnoNonDeve
  <1>6. ASSUME NEW s \in Posti, RecvScaduta(s) PROVE Contorno' /\ MessaggioNonDorme'
    <2>1. /\ Gira(s) /\ UNCHANGED <<pid, tgid, morenti>> /\ pc[s] # "sveglia"
          /\ pc'[s] # "send" /\ (pc'[s] = "risveglio" => FALSE)
      BY <1>6, <1>0 DEF RecvScaduta, Torna, Gira, Preleva, procVars, boxVars, TypeOK
    <2>2. \A x \in Posti \ {s} : pc'[x] = pc[x] /\ destPid'[x] = destPid[x] /\ dest'[x] = dest[x]
      BY <1>6, <1>0 DEF RecvScaduta, Torna, Gira, Preleva, procVars, boxVars, TypeOK
    <2>3. \A x \in Posti : \/ st'[x] = st[x]
                           \/ st[x] = "BLOCKED" /\ st'[x] = "READY"
                           \/ x = s /\ st'[x] = "BLOCKED"
      BY <1>6 DEF RecvScaduta
    <2>4. \A x \in Posti : count'[x] > 0 => count[x] > 0
      BY <1>6 DEF RecvScaduta, boxVars
    <2> QED  BY <1>0, <2>1, <2>2, <2>3, <2>4, UnoCammina, UnoNonDeve
  <1>7. ASSUME NEW s \in Posti, RecvAspetta(s) PROVE Contorno' /\ MessaggioNonDorme'
    <2>1. /\ Gira(s) /\ UNCHANGED <<pid, tgid, morenti>> /\ pc[s] # "sveglia"
          /\ pc'[s] # "send" /\ (pc'[s] = "risveglio" => count[s] = 0 /\ count[s] = count'[s])
      BY <1>7, <1>0 DEF RecvAspetta, Torna, Gira, Preleva, procVars, boxVars, TypeOK
    <2>2. \A x \in Posti \ {s} : pc'[x] = pc[x] /\ destPid'[x] = destPid[x] /\ dest'[x] = dest[x]
      BY <1>7, <1>0 DEF RecvAspetta, Torna, Gira, Preleva, procVars, boxVars, TypeOK
    <2>3. \A x \in Posti : \/ st'[x] = st[x]
                           \/ st[x] = "BLOCKED" /\ st'[x] = "READY"
                           \/ x = s /\ st'[x] = "BLOCKED"
      BY <1>7, <1>0 DEF RecvAspetta, TypeOK
    <2>4. \A x \in Posti : count'[x] > 0 => count[x] > 0
      BY <1>7 DEF RecvAspetta, boxVars
    <2> QED  BY <1>0, <2>1, <2>2, <2>3, <2>4, UnoCammina, UnoNonDeve
  <1>8. ASSUME NEW s \in Posti, RecvRisveglio(s) PROVE Contorno' /\ MessaggioNonDorme'
    <2>1. /\ Gira(s) /\ UNCHANGED <<pid, tgid, morenti>> /\ pc[s] # "sveglia"
          /\ pc'[s] # "send" /\ (pc'[s] = "risveglio" => FALSE)
      BY <1>8, <1>0 DEF RecvRisveglio, Torna, Gira, Preleva, procVars, boxVars, TypeOK
    <2>2. \A x \in Posti \ {s} : pc'[x] = pc[x] /\ destPid'[x] = destPid[x] /\ dest'[x] = dest[x]
      BY <1>8, <1>0 DEF RecvRisveglio, Torna, Gira, Preleva, procVars, boxVars, TypeOK
    <2>3. \A x \in Posti : \/ st'[x] = st[x]
                           \/ st[x] = "BLOCKED" /\ st'[x] = "READY"
                           \/ x = s /\ st'[x] = "BLOCKED"
      BY <1>8 DEF RecvRisveglio
    <2>4. \A x \in Posti : count'[x] > 0 => count[x] > 0
      BY <1>8 DEF RecvRisveglio, boxVars
    <2> QED  BY <1>0, <2>1, <2>2, <2>3, <2>4, UnoCammina, UnoNonDeve
  <1>9. ASSUME NEW s \in Posti, RitornoUtente(s) PROVE Contorno' /\ MessaggioNonDorme'
    <2>1. /\ Gira(s) /\ UNCHANGED <<pid, tgid, morenti>> /\ pc[s] # "sveglia"
          /\ pc'[s] # "send" /\ (pc'[s] = "risveglio" => FALSE)
      BY <1>9, <1>0 DEF RitornoUtente, Torna, Gira, Preleva, procVars, boxVars, TypeOK
    <2>2. \A x \in Posti \ {s} : pc'[x] = pc[x] /\ destPid'[x] = destPid[x] /\ dest'[x] = dest[x]
      BY <1>9, <1>0 DEF RitornoUtente, Torna, Gira, Preleva, procVars, boxVars, TypeOK
    <2>3. \A x \in Posti : \/ st'[x] = st[x]
                           \/ st[x] = "BLOCKED" /\ st'[x] = "READY"
                           \/ x = s /\ st'[x] = "BLOCKED"
      BY <1>9 DEF RitornoUtente
    <2>4. \A x \in Posti : count'[x] > 0 => count[x] > 0
      BY <1>9 DEF RitornoUtente, boxVars
    <2> QED  BY <1>0, <2>1, <2>2, <2>3, <2>4, UnoCammina, UnoNonDeve
  <1>10. ASSUME NEW s \in Posti, SendInizia(s) PROVE Contorno' /\ MessaggioNonDorme'
    <2>1. /\ Gira(s) /\ UNCHANGED <<pid, tgid, morenti>> /\ pc[s] # "sveglia"
          /\ pc'[s] # "send" /\ (pc'[s] = "risveglio" => FALSE)
      BY <1>10, <1>0 DEF SendInizia, Torna, Gira, Preleva, procVars, boxVars, TypeOK
    <2>2. \A x \in Posti \ {s} : pc'[x] = pc[x] /\ destPid'[x] = destPid[x] /\ dest'[x] = dest[x]
      BY <1>10, <1>0 DEF SendInizia, Torna, Gira, Preleva, procVars, boxVars, TypeOK
    <2>3. \A x \in Posti : \/ st'[x] = st[x]
                           \/ st[x] = "BLOCKED" /\ st'[x] = "READY"
                           \/ x = s /\ st'[x] = "BLOCKED"
      BY <1>10 DEF SendInizia
    <2>4. \A x \in Posti : count'[x] > 0 => count[x] > 0
      BY <1>10 DEF SendInizia, boxVars
    <2> QED  BY <1>0, <2>1, <2>2, <2>3, <2>4, UnoCammina, UnoNonDeve
  <1>11. ASSUME NEW s \in Posti, RecvInizia(s) PROVE Contorno' /\ MessaggioNonDorme'
    <2>1. /\ Gira(s) /\ UNCHANGED <<pid, tgid, morenti>> /\ pc[s] # "sveglia"
          /\ pc'[s] # "send" /\ (pc'[s] = "risveglio" => FALSE)
      BY <1>11, <1>0 DEF RecvInizia, Torna, Gira, Preleva, procVars, boxVars, TypeOK
    <2>2. \A x \in Posti \ {s} : pc'[x] = pc[x] /\ destPid'[x] = destPid[x] /\ dest'[x] = dest[x]
      BY <1>11, <1>0 DEF RecvInizia, Torna, Gira, Preleva, procVars, boxVars, TypeOK
    <2>3. \A x \in Posti : \/ st'[x] = st[x]
                           \/ st[x] = "BLOCKED" /\ st'[x] = "READY"
                           \/ x = s /\ st'[x] = "BLOCKED"
      BY <1>11 DEF RecvInizia
    <2>4. \A x \in Posti : count'[x] > 0 => count[x] > 0
      BY <1>11 DEF RecvInizia, boxVars
    <2> QED  BY <1>0, <2>1, <2>2, <2>3, <2>4, UnoCammina, UnoNonDeve
  <1>12. ASSUME NEW s \in Posti, SendTrova(s) PROVE Contorno' /\ MessaggioNonDorme'
    <2>1. /\ Gira(s) /\ UNCHANGED <<pid, tgid, morenti, destPid, st, count>>
          /\ pc[s] # "sveglia" /\ pc'[s] # "risveglio"
          /\ dest'[s] = proc_get_by_pid(destPid[s])
      BY <1>12, <1>0 DEF SendTrova, procVars, boxVars, TypeOK
    <2>2. \A x \in Posti \ {s} : pc'[x] = pc[x] /\ destPid'[x] = destPid[x] /\ dest'[x] = dest[x]
      BY <1>12, <1>0 DEF SendTrova, TypeOK
    <2>3. dest'[s] # Nessuno => pid[dest'[s]] = destPid[s]
      BY <2>1 DEF proc_get_by_pid
    <2> QED  BY <1>0, <2>1, <2>2, <2>3, UnoCammina, UnoNonDeve
  <1>13. ASSUME NEW s \in Posti, SendSveglia(s) PROVE Contorno' /\ MessaggioNonDorme'
    <2>1. /\ Gira(s) /\ UNCHANGED <<pid, tgid, morenti, count>> /\ pc'[s] = "ret"
          /\ st' = Svegliati({t \in Posti : pid[t] = destPid[s]})
      BY <1>13, <1>0 DEF SendSveglia, Torna, procVars, boxVars, TypeOK
    <2>2. \A x \in Posti \ {s} : pc'[x] = pc[x] /\ destPid'[x] = destPid[x] /\ dest'[x] = dest[x]
      BY <1>13, <1>0, TornaAltri DEF SendSveglia
    <2>3. \A x \in Posti : st'[x] = st[x] \/ (st[x] = "BLOCKED" /\ st'[x] = "READY")
      BY <2>1, SvegliatiPunto
    <2>4. Contorno'
      BY <1>0, <2>1, <2>2, <2>3, UnoCammina
    <2>5. MessaggioNonDorme'
      <3> SUFFICES ASSUME NEW x \in Posti, st'[x] = "BLOCKED", pc'[x] = "risveglio", count[x] > 0
                   PROVE  \E t \in Posti : Vivo(t)' /\ pc'[t] = "sveglia" /\ destPid'[t] = pid[x]
        BY <2>1 DEF MessaggioNonDorme
      <3>1. st[x] = "BLOCKED" /\ pc[x] = "risveglio" /\ pid[x] # destPid[s]
        BY <2>1, <2>2, <2>3 DEF Svegliati
      <3>2. PICK t \in Posti : Vivo(t) /\ pc[t] = "sveglia" /\ destPid[t] = pid[x]
        BY <1>0, <3>1 DEF MessaggioNonDorme
      <3>3. t # s /\ Vivo(t)'
        BY <2>3, <3>1, <3>2 DEF Vivo
      <3> QED  BY <2>2, <3>2, <3>3
    <2> QED  BY <2>4, <2>5
  <1>14. ASSUME NEW s \in Posti, SendConsegna(s) PROVE Contorno' /\ MessaggioNonDorme'
    <2>1. /\ Gira(s) /\ UNCHANGED <<pid, tgid, morenti, st>> /\ pc[s] = "send"
          /\ dest[s] \in Posti
          /\ count' = [count EXCEPT ![dest[s]] = count[dest[s]] + 1]
      BY <1>14 DEF SendConsegna, Deposita, DestMorto, procVars
    <2>2. /\ \A x \in Posti \ {s} : pc'[x] = pc[x] /\ destPid'[x] = destPid[x] /\ dest'[x] = dest[x]
          /\ pc'[s] \in {"ret", "sveglia"}
          /\ st[dest[s]] = "BLOCKED" => pc'[s] = "sveglia" /\ destPid'[s] = destPid[s]
      <3>1. CASE st[dest[s]] = "BLOCKED"
        BY <1>14, <1>0, <3>1 DEF SendConsegna, TypeOK
      <3>2. CASE st[dest[s]] # "BLOCKED"
        BY <1>14, <1>0, <3>2 DEF SendConsegna, Torna, TypeOK
      <3> QED  BY <3>1, <3>2
    <2>3. Contorno'
      BY <1>0, <2>1, <2>2, UnoCammina
    <2>4. MessaggioNonDorme'
      <3> SUFFICES ASSUME NEW x \in Posti, st[x] = "BLOCKED", pc'[x] = "risveglio", count'[x] > 0
                   PROVE  \E t \in Posti : Vivo(t) /\ pc'[t] = "sveglia" /\ destPid'[t] = pid[x]
        BY <2>1 DEF MessaggioNonDorme, Vivo
      <3>1. CASE x = dest[s]
        <4>1. pid[x] = destPid[s]
          BY <1>0, <2>1, <3>1, PostiAssumption DEF Contorno, Agganci
        <4>2. Vivo(s)
          BY <2>1 DEF Gira, Vivo
        <4> QED  BY <2>2, <3>1, <4>1, <4>2
      <3>2. CASE x # dest[s]
        <4>1. count[x] > 0 /\ x # s
          BY <1>0, <2>1, <2>2, <3>2, AnelliNat
        <4>2. PICK t \in Posti : Vivo(t) /\ pc[t] = "sveglia" /\ destPid[t] = pid[x]
          BY <1>0, <2>2, <4>1 DEF MessaggioNonDorme
        <4>3. t # s
          BY <2>1, <4>2
        <4> QED  BY <2>2, <4>2, <4>3
      <3> QED  BY <3>1, <3>2
    <2> QED  BY <2>3, <2>4
  <1>15. ASSUME NEW s \in Posti, RitornoInterrotto(s) PROVE Contorno' /\ MessaggioNonDorme'
    <2>1. /\ UNCHANGED <<pid, tgid, pc, destPid, dest, st, count>>
          /\ morenti' = Gruppo(s) /\ pc[s] \in {"usr", "ret"} /\ st[s] = "READY"
      BY <1>15 DEF RitornoInterrotto, Termina, Gira, procVars, callVars, boxVars
    <2>2. \A x \in morenti' : x \in Posti /\ pc[x] \in {"usr", "ret"}
      <3> SUFFICES ASSUME NEW x \in Gruppo(s) PROVE x \in Posti /\ pc[x] \in {"usr", "ret"}
        BY <2>1
      <3>1. x \in Posti /\ pid[x] = pid[s] /\ st[x] # "UNUSED"
        BY <1>0 DEF Gruppo, Vivo, Contorno, Soli
      <3>2. x = s
        BY <1>0, <2>1, <3>1 DEF IInv, Legami, PidUnici
      <3> QED  BY <2>1, <3>2
    <2> QED  BY <1>0, <2>1, <2>2, NessunoCammina, NessunoNonDeve
  <1>16. ASSUME NEW s \in Posti, EsciGruppo(s) PROVE Contorno' /\ MessaggioNonDorme'
    <2>1. /\ UNCHANGED <<pid, tgid, pc, destPid, dest, st, count>>
          /\ morenti' = Gruppo(s) /\ pc[s] \in {"usr", "ret"} /\ st[s] = "READY"
      BY <1>16 DEF EsciGruppo, Termina, Gira, procVars, callVars, boxVars
    <2>2. \A x \in morenti' : x \in Posti /\ pc[x] \in {"usr", "ret"}
      <3> SUFFICES ASSUME NEW x \in Gruppo(s) PROVE x \in Posti /\ pc[x] \in {"usr", "ret"}
        BY <2>1
      <3>1. x \in Posti /\ pid[x] = pid[s] /\ st[x] # "UNUSED"
        BY <1>0 DEF Gruppo, Vivo, Contorno, Soli
      <3>2. x = s
        BY <1>0, <2>1, <3>1 DEF IInv, Legami, PidUnici
      <3> QED  BY <2>1, <3>2
    <2> QED  BY <1>0, <2>1, <2>2, NessunoCammina, NessunoNonDeve
  <1>17. ASSUME NEW s \in Posti, EsciFilo(s) PROVE Contorno' /\ MessaggioNonDorme'
    BY <1>17, <1>0 DEF EsciFilo, Contorno, Soli
  <1>18. ASSUME NEW s \in Posti, UccidiNascente(s) PROVE Contorno' /\ MessaggioNonDorme'
    <2>1. /\ UNCHANGED <<pid, tgid, pc, destPid, dest, st, count>>
          /\ morenti' = {s} /\ st[s] = "NASCENTE"
      BY <1>18 DEF UccidiNascente, Termina, procVars, callVars, boxVars
    <2>2. pc[s] = "usr"
      BY <1>0, <2>1 DEF Contorno, FuoriServizio
    <2> QED  BY <1>0, <2>1, <2>2, NessunoCammina, NessunoNonDeve
  <1>19. ASSUME NEW s \in Posti, proc_interrompi(s) PROVE Contorno' /\ MessaggioNonDorme'
    <2>1. /\ UNCHANGED <<pid, tgid, pc, destPid, dest, count>>
          /\ morenti' = {} /\ st' = Svegliati({s})
      BY <1>19 DEF proc_interrompi, procVars, callVars, boxVars
    <2> QED  BY <1>0, <2>1, SvegliatiPunto, NessunoCammina, NessunoNonDeve
  <1>20. ASSUME NEW s \in Posti, sveglia_per(s) PROVE Contorno' /\ MessaggioNonDorme'
    <2>1. /\ UNCHANGED <<pid, tgid, pc, destPid, dest, count>>
          /\ morenti' = {} /\ st' = Svegliati({s})
      BY <1>20 DEF sveglia_per, procVars, callVars, boxVars
    <2> QED  BY <1>0, <2>1, SvegliatiPunto, NessunoCammina, NessunoNonDeve
  <1>21. ASSUME NEW s \in Posti, Scade(s) PROVE Contorno' /\ MessaggioNonDorme'
    <2>1. /\ UNCHANGED <<pid, tgid, pc, destPid, dest, count>>
          /\ morenti' = {} /\ st' = Svegliati({s})
      BY <1>21 DEF Scade, procVars, callVars, boxVars
    <2> QED  BY <1>0, <2>1, SvegliatiPunto, NessunoCammina, NessunoNonDeve
  <1>22. ASSUME NEW s \in Posti, proc_set_ready(s) PROVE Contorno' /\ MessaggioNonDorme'
    <2>1. /\ UNCHANGED <<pid, tgid, pc, destPid, dest, count>>
          /\ morenti' = {} /\ \A x \in Posti : st'[x] = st[x] \/ st'[x] = "READY"
      BY <1>22, <1>0 DEF proc_set_ready, procVars, callVars, boxVars, TypeOK
    <2> QED  BY <1>0, <2>1, NessunoCammina, NessunoNonDeve
  <1>23. ASSUME NEW s \in Posti, ipc_notify_irq(s) PROVE Contorno' /\ MessaggioNonDorme'
    <2>1. /\ UNCHANGED <<pid, tgid, pc, destPid, dest>>
          /\ morenti' = {} /\ st' = Svegliati({s})
          /\ count' = [count EXCEPT ![s] = count[s] + 1]
      BY <1>23 DEF ipc_notify_irq, Deposita, procVars, callVars
    <2>2. /\ \A x \in Posti : st'[x] = st[x] \/ (st[x] = "BLOCKED" /\ st'[x] = "READY")
          /\ st'[s] # "BLOCKED"
      BY <2>1, SvegliatiPunto DEF Svegliati
    <2>3. Contorno'
      BY <1>0, <2>1, <2>2, NessunoCammina
    <2>4. ASSUME NEW x \in Posti, st'[x] = "BLOCKED", pc'[x] = "risveglio", count'[x] > 0
          PROVE  st[x] = "BLOCKED" /\ pc[x] = "risveglio" /\ count[x] > 0 /\ pid'[x] = pid[x]
      BY <1>0, <2>1, <2>2, <2>4, AnelliNat
    <2>5. ASSUME NEW t \in Posti, Vivo(t), pc[t] = "sveglia"
          PROVE  Vivo(t)' /\ pc'[t] = "sveglia" /\ destPid'[t] = destPid[t]
      BY <2>1, <2>2, <2>5 DEF Vivo
    <2>6. MessaggioNonDorme'
      BY <1>0, <2>4, <2>5, NienteDiNuovo
    <2> QED  BY <2>3, <2>6
  <1>24. ASSUME NEW s \in Posti, Crea(s) PROVE Contorno' /\ MessaggioNonDorme'
    <2>1. /\ UNCHANGED <<pc, destPid, dest, morenti, count>>
          /\ \A x \in Posti : /\ pid'[x] = IF x = s THEN nextPid ELSE pid[x]
                              /\ tgid'[x] = IF x = s THEN nextPid ELSE tgid[x]
                              /\ st'[x] = IF x = s THEN "NASCENTE" ELSE st[x]
          /\ st[s] = "UNUSED"
      BY <1>24, <1>0 DEF Crea, Nasce, callVars, TypeOK
    <2>2. Soli' /\ FuoriServizio' /\ MorentiQuieti'
      BY <1>0, <2>1 DEF Contorno, Soli, FuoriServizio, MorentiQuieti
    <2>3. Agganci'
      <3> SUFFICES ASSUME NEW x \in Posti, pc[x] = "send", dest[x] # Nessuno
                   PROVE  pid'[dest[x]] = destPid[x]
        BY <2>1 DEF Agganci
      <3>1. dest[x] \in Posti /\ pid[dest[x]] = destPid[x] /\ destPid[x] > 0
        BY <1>0 DEF TypeOK, Contorno, Agganci, IInv, Legami, Riferimenti
      <3>2. dest[x] # s
        BY <1>0, <2>1, <3>1 DEF IInv, Legami, PidUnici
      <3> QED  BY <2>1, <3>1, <3>2
    <2>4. MessaggioNonDorme'
      <3>1. ASSUME NEW x \in Posti, st'[x] = "BLOCKED", pc'[x] = "risveglio", count'[x] > 0
            PROVE  st[x] = "BLOCKED" /\ pc[x] = "risveglio" /\ count[x] > 0 /\ pid'[x] = pid[x]
        BY <2>1, <3>1
      <3>2. ASSUME NEW t \in Posti, Vivo(t), pc[t] = "sveglia"
            PROVE  Vivo(t)' /\ pc'[t] = "sveglia" /\ destPid'[t] = destPid[t]
        BY <2>1, <3>2 DEF Vivo
      <3> QED  BY <1>0, <3>1, <3>2, NienteDiNuovo
    <2> QED  BY <2>2, <2>3, <2>4 DEF Contorno
  <1>25. ASSUME NEW s \in Posti, Finisce(s) PROVE Contorno' /\ MessaggioNonDorme'
    <2>1. /\ UNCHANGED <<pid, tgid, count>> /\ s \in morenti /\ morenti' = morenti \ {s}
          /\ pc' = [pc EXCEPT ![s] = "usr"]
          /\ destPid' = [destPid EXCEPT ![s] = 0]
          /\ dest' = [dest EXCEPT ![s] = Nessuno]
          /\ \E W : st' = [Svegliati(W) EXCEPT ![s] = "ZOMBIE"]
      BY <1>25 DEF Finisce, procVars, boxVars
    <2>2. /\ pc'[s] = "usr" /\ st'[s] = "ZOMBIE"
          /\ \A x \in Posti \ {s} : /\ pc'[x] = pc[x] /\ destPid'[x] = destPid[x] /\ dest'[x] = dest[x]
                                    /\ (st'[x] = st[x] \/ (st[x] = "BLOCKED" /\ st'[x] = "READY"))
      <3>1. PICK W : st' = [Svegliati(W) EXCEPT ![s] = "ZOMBIE"]
        BY <2>1
      <3>2. /\ st'[s] = "ZOMBIE"
            /\ \A x \in Posti \ {s} : st'[x] = st[x] \/ (st[x] = "BLOCKED" /\ st'[x] = "READY")
        BY <3>1 DEF Svegliati
      <3>3. /\ pc'[s] = "usr"
            /\ \A x \in Posti \ {s} : pc'[x] = pc[x] /\ destPid'[x] = destPid[x] /\ dest'[x] = dest[x]
        BY <1>0, <2>1 DEF TypeOK
      <3> QED  BY <3>2, <3>3
    <2>3. pc[s] \in {"usr", "ret"}
      BY <1>0, <2>1 DEF Contorno, MorentiQuieti
    <2>4. Soli' /\ Agganci'
      BY <1>0, <2>1, <2>2 DEF Contorno, Soli, Agganci
    <2>5. FuoriServizio'
      BY <1>0, <2>2 DEF Contorno, FuoriServizio
    <2>6. MorentiQuieti'
      BY <1>0, <2>1, <2>2 DEF Contorno, MorentiQuieti, TypeOK
    <2>7. ASSUME NEW x \in Posti, st'[x] = "BLOCKED", pc'[x] = "risveglio", count'[x] > 0
          PROVE  st[x] = "BLOCKED" /\ pc[x] = "risveglio" /\ count[x] > 0 /\ pid'[x] = pid[x]
      BY <2>1, <2>2, <2>7
    <2>8. ASSUME NEW t \in Posti, Vivo(t), pc[t] = "sveglia"
          PROVE  Vivo(t)' /\ pc'[t] = "sveglia" /\ destPid'[t] = destPid[t]
      BY <2>2, <2>3, <2>8 DEF Vivo
    <2>9. MessaggioNonDorme'
      BY <1>0, <2>7, <2>8, NienteDiNuovo
    <2> QED  BY <2>4, <2>5, <2>6, <2>9 DEF Contorno
  <1>26. CASE UNCHANGED vars
    <2>1. UNCHANGED <<pid, tgid, pc, destPid, dest, st, count, morenti>>
      BY <1>26 DEF vars, procVars, callVars, boxVars
    <2>2. \A x \in morenti' : x \in Posti /\ pc[x] \in {"usr", "ret"}
      BY <1>0, <2>1 DEF Contorno, MorentiQuieti, TypeOK
    <2> QED  BY <1>0, <2>1, <2>2, NessunoCammina, NessunoNonDeve
  <1>27. ASSUME NEW s \in Posti PROVE ~proc_reap_zombie(s) /\ \A t \in Posti : ~CreaFilo(s, t)
    BY DEF proc_reap_zombie, CreaFilo
  <1> QED
    BY <1>1, <1>2, <1>3, <1>4, <1>5, <1>6, <1>7, <1>8, <1>9, <1>10, <1>11, <1>12, <1>13, <1>14, <1>15, <1>16, <1>17, <1>18, <1>19, <1>20, <1>21, <1>22, <1>23, <1>24, <1>25, <1>26, <1>27
       DEF Next, Chiamata, Programma, Ambiente

\* ipc_recv "blocks until ipc_send delivers something": where processes have
\* one thread and slots are not reused, a receiver asleep in front of a message
\* is always about to be woken by the sender that delivered it, whatever ends,
\* times out or is interrupted between the delivery and the wake (ipc_send's
\* need_wake and sched_unblock).
THEOREM MessaggioNonDormeSempre ==
    ASSUME "filo" \notin Eventi, "raccolta" \notin Eventi
    PROVE  Spec => []MessaggioNonDorme
  <1>1. Init => Contorno /\ MessaggioNonDorme
    BY DEF Init, Contorno, Soli, FuoriServizio, MorentiQuieti, Agganci, MessaggioNonDorme
  <1>2. IInv /\ Contorno /\ MessaggioNonDorme /\ [Next]_vars => Contorno' /\ MessaggioNonDorme'
    BY SveglieDovute
  <1> QED  BY <1>1, <1>2, IInvSempre, PTL DEF Spec
=============================================================================
