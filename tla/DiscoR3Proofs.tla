--------------------------- MODULE DiscoR3Proofs ---------------------------
(***************************************************************************)
(* The request slots of blkr3.c serve every number of callers, drivers and *)
(* devices: a slot is one caller's, a driver does not sleep on a request,  *)
(* an answer is the answer to the request it is given for; the lock of the *)
(* VFS is lost only with a thread that is killed.                          *)
(***************************************************************************)
EXTENDS DiscoR3, WellFoundedInduction, TLAPS

-----------------------------------------------------------------------------
(* The inductive invariant, in three layers.  The first holds whatever     *)
(* happens, the other two without "riuso".                                 *)

Contenuti == {Nessuno} \cup ({"scritto"} \X Chiamanti)
                       \cup ({"letto"} \X Nat \X (Chiamanti \cup {Nessuno}))

Casi == {"LEGGI", "SCRIVI", "SVUOTA"}

Pid == Serventi \cup {CHOOSE s \in Serventi : TRUE}

Caselle ==
    [usato : BOOLEAN, pid : Pid, disp : Nat,
     stato : {"LIBERA", "PRONTA", "IN_CORSO", "SERVITA"}, op : Casi,
     pid_chiamante : Chiamanti \cup {Nessuno}, esito : {"no", "ok", "EIO"}, dati : Contenuti]

Chiamate ==
    [st : {"fuori", "prendi", "in fila", "spezza", "entra", "casella", "aspetta", "morto"},
     posto : Posti \cup {0}, disp : Nat, op : Casi, giri : Nat, scaduto : BOOLEAN,
     sonno : BOOLEAN, esito : {"no", "ok"}, buf : Contenuti]

Guide ==
    [st : {"libero", "dorme", "prende", "copia fuori", "lavora", "risponde", "copia dentro",
           "rende", "zombie", "raccolto"},
     posto : Posti \cup {0}, disp : Nat, op : Casi, lba : Chiamanti \cup {Nessuno},
     esito : {"no", "ok", "EIO"}, buf : Contenuti]

\* The slots, the callers and the drivers are records of the right shape.
TypeOK ==
    /\ g_r3 \in [Posti -> Caselle]
    /\ g_dorme \in [Posti -> Serventi \cup {Nessuno}]
    /\ offerte \in Nat
    /\ ch \in [Chiamanti -> Chiamate]
    /\ sv \in [Serventi -> Guide]
    /\ scritti \in SUBSET (Nat \X (Chiamanti \cup {Nessuno}) \X Contenuti)
    /\ detentore \in Chiamanti \cup {Nessuno}
    /\ fila \in SUBSET Chiamanti

\* A driver asleep is registered in every slot of its own, and nothing is ready
\* there.
DormeRegistrato ==
    \A s \in Serventi : sv[s].st = "dorme" =>
        \A i \in Suoi(s) : g_dorme[i] = s /\ g_r3[i].stato # "PRONTA"

\* A slot in use has a driver and a device of its own, that no other slot had.
Dispositivi ==
    /\ \A i \in Posti : g_r3[i].disp <= offerte
    /\ \A i \in Posti : g_r3[i].usato => g_r3[i].pid \in Serventi /\ 0 < g_r3[i].disp
    /\ \A i, j \in Posti : g_r3[i].usato /\ g_r3[i].disp = g_r3[j].disp => i = j

\* Whoever has a pointer to a slot has one to a slot of the table.
Puntati ==
    /\ \A c \in Chiamanti : InGiro(c) => ch[c].posto \in Posti
    /\ \A s \in Serventi : sv[s].st \in {"copia fuori", "copia dentro"} => sv[s].posto \in Posti

Inv1 == TypeOK /\ Puntati /\ DormeRegistrato /\ Dispositivi

\* The pointer of a caller inside un_giro is to the slot of its device.
Puntatori ==
    \A c \in Chiamanti : InGiro(c) => g_r3[ch[c].posto].disp = ch[c].disp

\* A request in a slot is of a caller that waits for it there, or died waiting.
RichiestaDiUno ==
    \A i \in Posti : g_r3[i].usato /\ g_r3[i].stato # "LIBERA" =>
        /\ g_r3[i].pid_chiamante \in Chiamanti
        /\ \/ ch[g_r3[i].pid_chiamante].st = "morto"
           \/ /\ ch[g_r3[i].pid_chiamante].st = "aspetta"
              /\ ch[g_r3[i].pid_chiamante].posto = i
              /\ ch[g_r3[i].pid_chiamante].op = g_r3[i].op

\* A slot that is not in use, or is free, has no good answer in it.
Spenti == \A i \in Posti : ~g_r3[i].usato \/ g_r3[i].stato = "LIBERA" => g_r3[i].esito = "EIO"

InMano(s) == sv[s].st \in {"prende", "copia fuori", "lavora", "risponde", "copia dentro", "rende"}

\* A request under way is in the hands of the driver of its slot, which has
\* copied what it is about.
InCorso ==
    \A i \in Posti : g_r3[i].usato /\ g_r3[i].stato = "IN_CORSO" =>
        \/ Morto(g_r3[i].pid)
        \/ /\ InMano(g_r3[i].pid)
           /\ sv[g_r3[i].pid].disp = g_r3[i].disp
           /\ sv[g_r3[i].pid].op = g_r3[i].op
           /\ sv[g_r3[i].pid].lba = g_r3[i].pid_chiamante

Inv2 == Puntatori /\ CasellaDiUno /\ RichiestaDiUno /\ Spenti /\ InCorso

\* A driver that copies has a pointer to a slot of the device it works for.
\* Its request may be gone from there, and another one come: but that one has
\* not been served.
Copie ==
    \A s \in Serventi :
        /\ sv[s].st \in {"copia fuori", "copia dentro"} =>
              /\ g_r3[sv[s].posto].pid = s /\ g_r3[sv[s].posto].disp = sv[s].disp
              /\ g_r3[sv[s].posto].usato => g_r3[sv[s].posto].stato # "SERVITA"
        /\ sv[s].st \in {"prende", "copia fuori"} => sv[s].op = "SCRIVI"
        /\ sv[s].st = "copia dentro" => sv[s].op = "LEGGI" /\ sv[s].esito = "ok"

\* Along the way of a request that is still under way, the driver has done what
\* it says it did.
FattoDavvero ==
    \A i \in Posti : g_r3[i].usato /\ g_r3[i].stato = "IN_CORSO" =>
        LET s == g_r3[i].pid
            c == g_r3[i].pid_chiamante IN
        sv[s].st \in {"risponde", "copia dentro", "rende"} /\ sv[s].esito = "ok" =>
              /\ sv[s].op = "SCRIVI" => Scritto(sv[s].disp, c)
              /\ sv[s].op = "LEGGI" =>
                    IF sv[s].st = "rende" THEN g_r3[i].dati = <<"letto", sv[s].disp, c>>
                    ELSE sv[s].buf = <<"letto", sv[s].disp, c>>

\* An answer that waits in its slot is the answer to the request there.
Serviti ==
    \A i \in Posti : g_r3[i].usato /\ g_r3[i].stato = "SERVITA" /\ g_r3[i].esito = "ok" =>
        LET c == g_r3[i].pid_chiamante IN
        /\ g_r3[i].op = "LEGGI" => g_r3[i].dati = <<"letto", g_r3[i].disp, c>>
        /\ g_r3[i].op = "SCRIVI" => Scritto(g_r3[i].disp, c)

\* Only a thread outside a call keeps a good outcome.
EsitoFuori == \A c \in Chiamanti : ch[c].esito = "ok" => ch[c].st = "fuori"

Inv3 == Copie /\ FattoDavvero /\ Serviti /\ EsitoFuori /\ RispostaSua

-----------------------------------------------------------------------------
(* What the operators of the model return.                                 *)

\* A set of slots that is not empty has a first one.
LEMMA PrimoPosto ==
    ASSUME NEW P \in SUBSET Posti, P # {}
    PROVE  \E i \in P : \A j \in P : i <= j
  <1> DEFINE minore == {n \in Nat \X Nat : n[1] < n[2]}
  <1>1. P \subseteq Nat
    BY ChiServe
  <1>2. IsWellFoundedOn(minore, Nat)
    BY NatLessThanWellFounded, Zenon DEF OpToRel
  <1>3. \E i \in P : \A j \in P : ~(<<j, i>> \in minore)
    <2> HIDE DEF minore
    <2> QED  BY <1>1, <1>2, WFMin
  <1>4. PICK i \in P : \A j \in P : <<j, i>> \notin minore
    BY <1>3
  <1>5. ASSUME NEW j \in P, j < i  PROVE FALSE
    <2>1. <<j, i>> \in Nat \X Nat /\ <<j, i>>[1] < <<j, i>>[2]
      BY <1>1, <1>5
    <2>2. <<j, i>> \in minore
      BY <2>1, Zenon
    <2> QED  BY <2>2, <1>4
  <1> QED  BY <1>1, <1>5

\* cerca_per_pid finds a slot of that driver in that state, or says that there
\* is none.
LEMMA CercaTrova ==
    ASSUME NEW s \in Serventi, NEW stato
    PROVE  /\ cerca_per_pid(s, stato) # 0 =>
                 /\ cerca_per_pid(s, stato) \in Suoi(s)
                 /\ g_r3[cerca_per_pid(s, stato)].stato = stato
           /\ cerca_per_pid(s, stato) = 0 => \A i \in Suoi(s) : g_r3[i].stato # stato
  <1> DEFINE buoni == {i \in Suoi(s) : g_r3[i].stato = stato}
  <1>1. CASE buoni = {}
    BY <1>1 DEF cerca_per_pid
  <1>2. CASE buoni # {}
    <2>1. \E i \in buoni : \A j \in buoni : i <= j
      BY <1>2, PrimoPosto DEF Suoi
    <2>2. cerca_per_pid(s, stato) = CHOOSE i \in buoni : \A j \in buoni : i <= j
      BY <1>2 DEF cerca_per_pid
    <2>3. cerca_per_pid(s, stato) \in buoni
      BY <2>1, <2>2
    <2> QED  BY <2>3, ChiServe DEF Suoi
  <1> QED  BY <1>1, <1>2

\* A slot made free is a slot.
LEMMA VuotaTipo ==
    ASSUME TypeOK, NEW i \in Posti
    PROVE  Vuota(i) \in Caselle
  <1>1. Nessuno \in Contenuti
    BY DEF Contenuti
  <1>2. CASE InCopia(i)
    BY <1>2 DEF TypeOK, Vuota, Caselle, Casi
  <1>3. CASE ~InCopia(i)
    BY <1>1, <1>3 DEF TypeOK, Vuota, Caselle, Casi
  <1> QED  BY <1>2, <1>3

\* Whoever returns has its result; nobody else moves, but for those woken from
\* the line of the lock.
LEMMA TornaSolo ==
    ASSUME TypeOK, NEW c \in Chiamanti, NEW e, NEW b \in Contenuti, Torna(c, e, b)
    PROVE  /\ ch' \in [Chiamanti -> Chiamate]
           /\ ch'[c] = Reso(c, e, b)
           /\ \A x \in Chiamanti : x # c =>
                 \/ ch'[x] = ch[x]
                 \/ ch[x].st = "in fila" /\ ch'[x] = [ch[x] EXCEPT !.st = "prendi"]
           /\ detentore' \in Chiamanti \cup {Nessuno} /\ fila' \in SUBSET Chiamanti
           /\ detentore' # c /\ detentore' \in {detentore, Nessuno}
  <1>1. Reso(c, e, b) \in Chiamate
    BY DEF TypeOK, Reso, Riposo, Chiamate, Contenuti, Casi
  <1>2. CASE detentore = c
    <2>1. ch' = [x \in Chiamanti |->
                     IF x = c THEN Reso(c, e, b)
                     ELSE IF x \in fila /\ ch[x].st = "in fila"
                     THEN [ch[x] EXCEPT !.st = "prendi"] ELSE ch[x]]
      BY <1>2 DEF Torna
    <2>2. \A x \in Chiamanti : [ch[x] EXCEPT !.st = "prendi"] \in Chiamate
      BY DEF TypeOK, Chiamate
    <2> HIDE DEF Torna
    <2>3. ch' \in [Chiamanti -> Chiamate]
      BY <1>1, <2>1, <2>2 DEF TypeOK
    <2> QED  BY <1>2, <2>1, <2>3, ChiServe DEF Torna, TypeOK
  <1>3. CASE detentore # c
    <2>1. ch' = [ch EXCEPT ![c] = Reso(c, e, b)] /\ UNCHANGED <<detentore, fila>>
      BY <1>3 DEF Torna
    <2> QED  BY <1>1, <1>3, <2>1 DEF TypeOK
  <1> QED  BY <1>2, <1>3

\* What is left in a slot made free.
LEMMA VuotaCampi ==
    ASSUME TypeOK, NEW i \in Posti
    PROVE  /\ Vuota(i).usato = g_r3[i].usato /\ Vuota(i).pid = g_r3[i].pid
           /\ Vuota(i).disp = g_r3[i].disp /\ Vuota(i).stato = "LIBERA"
           /\ Vuota(i).esito = "EIO"
  <1>1. CASE InCopia(i)
    BY <1>1 DEF TypeOK, Vuota, Caselle
  <1>2. CASE ~InCopia(i)
    BY <1>2 DEF TypeOK, Vuota, Caselle
  <1> QED  BY <1>1, <1>2

\* The slot with a request in it.
LEMMA RichiestaCampi ==
    ASSUME TypeOK, NEW c \in Chiamanti, ch[c].posto \in Posti
    PROVE  /\ Richiesta(c) \in Caselle
           /\ Richiesta(c).usato = g_r3[ch[c].posto].usato
           /\ Richiesta(c).pid = g_r3[ch[c].posto].pid
           /\ Richiesta(c).disp = g_r3[ch[c].posto].disp
           /\ Richiesta(c).stato = "PRONTA" /\ Richiesta(c).esito = "EIO"
           /\ Richiesta(c).pid_chiamante = c /\ Richiesta(c).op = ch[c].op
  <1>1. <<"scritto", c>> \in Contenuti
    BY DEF Contenuti
  <1>2. PICK r \in Caselle : r = g_r3[ch[c].posto]
    BY DEF TypeOK
  <1>3. ch[c].op \in Casi
    BY DEF TypeOK, Chiamate
  <1>4. CASE ch[c].op = "SCRIVI"
    <2>1. Richiesta(c) = [r EXCEPT !.op = ch[c].op, !.pid_chiamante = c, !.esito = "EIO",
                                   !.dati = <<"scritto", c>>, !.stato = "PRONTA"]
      BY <1>2, <1>4 DEF Richiesta
    <2> QED  BY <1>1, <1>2, <1>3, <2>1 DEF Caselle
  <1>5. CASE ch[c].op # "SCRIVI"
    <2>1. Richiesta(c) = [r EXCEPT !.op = ch[c].op, !.pid_chiamante = c, !.esito = "EIO",
                                   !.dati = @, !.stato = "PRONTA"]
      BY <1>2, <1>5 DEF Richiesta
    <2> QED  BY <1>2, <1>3, <1>5, <2>1 DEF Caselle
  <1> QED  BY <1>4, <1>5

\* Drivers are woken, and nothing else is done to them.
LEMMA SvegliatoCampi ==
    ASSUME TypeOK, NEW i \in Posti
    PROVE  /\ Svegliato(i) \in [Serventi -> Guide]
           /\ \A s \in Serventi :
                 \/ Svegliato(i)[s] = sv[s] /\ ~(g_dorme[i] = s /\ sv[s].st = "dorme")
                 \/ sv[s].st = "dorme" /\ Svegliato(i)[s] = [sv[s] EXCEPT !.st = "libero"]
  <1>1. \A s \in Serventi : sv[s] \in Guide /\ [sv[s] EXCEPT !.st = "libero"] \in Guide
    BY DEF TypeOK, Guide
  <1> QED  BY <1>1 DEF Svegliato

\* No caller moves, but for being woken.
StesseChiamate ==
    \A c \in Chiamanti :
        /\ ch'[c].st = ch[c].st /\ ch'[c].posto = ch[c].posto /\ ch'[c].disp = ch[c].disp
        /\ ch'[c].op = ch[c].op /\ ch'[c].esito = ch[c].esito /\ ch'[c].buf = ch[c].buf

\* A slot whose device goes keeps its place, and what was asked has failed.
LEMMA ToltiCampi ==
    ASSUME TypeOK, NEW P \in SUBSET Posti, Tolti(P)
    PROVE  /\ g_r3' \in [Posti -> Caselle]
           /\ \A i \in Posti \ P : g_r3'[i] = g_r3[i]
           /\ \A i \in P : /\ ~g_r3'[i].usato
                           /\ g_r3'[i].disp = g_r3[i].disp /\ g_r3'[i].pid = g_r3[i].pid
                           /\ g_r3[i].stato # "LIBERA" => /\ g_r3'[i].stato = "SERVITA"
                                                          /\ g_r3'[i].esito = "EIO"
                           /\ g_r3[i].stato = "LIBERA" => g_r3'[i].esito = g_r3[i].esito
           /\ ch' \in [Chiamanti -> Chiamate]
           /\ StesseChiamate
  <1>1. \A i \in Posti : [g_r3[i] EXCEPT !.usato = FALSE] \in Caselle
    BY DEF TypeOK, Caselle
  <1>2. \A i \in Posti : [g_r3[i] EXCEPT !.usato = FALSE, !.esito = "EIO", !.stato = "SERVITA"] \in Caselle
    BY DEF TypeOK, Caselle
  <1>3. \A c \in Chiamanti : [ch[c] EXCEPT !.sonno = FALSE] \in Chiamate
    BY DEF TypeOK, Chiamate
  <1>4. \A i \in Posti :
          g_r3'[i] = IF i \in P
                     THEN IF g_r3[i].stato # "LIBERA"
                          THEN [g_r3[i] EXCEPT !.usato = FALSE, !.esito = "EIO", !.stato = "SERVITA"]
                          ELSE [g_r3[i] EXCEPT !.usato = FALSE]
                     ELSE g_r3[i]
    BY DEF Tolti
  <1>5. g_r3' \in [Posti -> Caselle]
    <2>1. g_r3' = [i \in Posti |-> g_r3'[i]]
      BY DEF Tolti
    <2> QED  BY <1>1, <1>2, <1>4, <2>1 DEF TypeOK
  <1>6. /\ ch' \in [Chiamanti -> Chiamate]
        /\ \A c \in Chiamanti : ch'[c] = ch[c] \/ ch'[c] = [ch[c] EXCEPT !.sonno = FALSE]
    BY <1>3 DEF Tolti, TypeOK
  <1>7. ASSUME NEW i \in P
        PROVE  /\ ~g_r3'[i].usato
               /\ g_r3'[i].disp = g_r3[i].disp /\ g_r3'[i].pid = g_r3[i].pid
               /\ g_r3[i].stato # "LIBERA" => /\ g_r3'[i].stato = "SERVITA"
                                              /\ g_r3'[i].esito = "EIO"
               /\ g_r3[i].stato = "LIBERA" => g_r3'[i].esito = g_r3[i].esito
    <2>1. PICK r \in Caselle : r = g_r3[i]
      BY DEF TypeOK
    <2>2. CASE r.stato # "LIBERA"
      <3>1. g_r3'[i] = [r EXCEPT !.usato = FALSE, !.esito = "EIO", !.stato = "SERVITA"]
        BY <1>4, <2>1, <2>2
      <3> QED  BY <2>1, <2>2, <3>1 DEF Caselle
    <2>3. CASE r.stato = "LIBERA"
      <3>1. g_r3'[i] = [r EXCEPT !.usato = FALSE]
        BY <1>4, <2>1, <2>3
      <3> QED  BY <2>1, <2>3, <3>1 DEF Caselle
    <2> QED  BY <2>2, <2>3
  <1>8. StesseChiamate
    <2> SUFFICES ASSUME NEW c \in Chiamanti
                 PROVE  /\ ch'[c].st = ch[c].st /\ ch'[c].posto = ch[c].posto /\ ch'[c].disp = ch[c].disp
                        /\ ch'[c].op = ch[c].op /\ ch'[c].esito = ch[c].esito /\ ch'[c].buf = ch[c].buf
      BY DEF StesseChiamate
    <2>1. PICK r \in Chiamate : r = ch[c]
      BY DEF TypeOK
    <2>2. ch'[c] = r \/ ch'[c] = [r EXCEPT !.sonno = FALSE]
      BY <1>6, <2>1
    <2> QED  BY <2>1, <2>2 DEF Chiamate
  <1> QED  BY <1>4, <1>5, <1>6, <1>7, <1>8

-----------------------------------------------------------------------------
(* Every step keeps the types.                                             *)

\* Init makes every variable of the right shape.
LEMMA InitTipo == Init => TypeOK
  <1>1. Nessuno \in Contenuti
    BY DEF Contenuti
  <1> QED  BY <1>1 DEF Init, TypeOK, Caselle, Chiamate, Guide, Riposo, Ozio, Pid, Casi

\* The types after a step of a caller.
LEMMA TipoChiamante ==
    ASSUME TypeOK, Puntati, NEW c \in Chiamanti,
           Chiama(c) \/ PassoChiamante(c) \/ Scade(c) \/ Scosso(c) \/ Ucciso(c)
    PROVE  TypeOK'
  <1>n. Nessuno \in Contenuti
    BY DEF Contenuti
  <1>c. ch[c] \in Chiamate
    BY DEF TypeOK
  <1>r. Riposo \in Chiamate
    BY <1>n DEF Riposo, Chiamate, Casi
  <1>1. CASE Chiama(c)
    <2>1. PICK g \in 1 .. offerte, op \in Operazioni[c] :
            ch' = [ch EXCEPT ![c] = [Riposo EXCEPT !.disp = g, !.op = op,
                                     !.st = IF c \in Liberi THEN "spezza" ELSE "prendi"]]
      BY <1>1 DEF Chiama
    <2>2. g \in Nat /\ op \in Casi
      BY ChiServe DEF Casi, TypeOK
    <2>3. [Riposo EXCEPT !.disp = g, !.op = op,
                         !.st = IF c \in Liberi THEN "spezza" ELSE "prendi"] \in Chiamate
      BY <1>r, <2>2 DEF Chiamate
    <2> QED  BY <1>1, <2>1, <2>3 DEF Chiama, TypeOK
  <1>2. CASE fs_prendi(c)
    <2>1. [ch[c] EXCEPT !.st = "spezza"] \in Chiamate /\ [ch[c] EXCEPT !.st = "in fila"] \in Chiamate
      BY <1>c DEF Chiamate
    <2> QED  BY <1>2, <2>1 DEF fs_prendi, TypeOK
  <1>3. CASE spezza(c)
    <2>1. CASE da_blkdev(ch[c].disp) = {}
      BY <1>3, <2>1, <1>n, TornaSolo DEF spezza, TypeOK
    <2>2. CASE da_blkdev(ch[c].disp) # {}
      <3>1. PICK i \in Posti : ch' = [ch EXCEPT ![c].st = "entra", ![c].posto = i]
        BY <1>3, <2>2 DEF spezza, da_blkdev
      <3>2. [ch[c] EXCEPT !.st = "entra", !.posto = i] \in Chiamate
        BY <1>c DEF Chiamate
      <3>3. ch' \in [Chiamanti -> Chiamate]
        BY <3>1, <3>2 DEF TypeOK
      <3> QED  BY <1>3, <2>2, <3>3 DEF spezza, TypeOK
    <2> QED  BY <2>1, <2>2
  <1>4. CASE Entra(c)
    <2>1. CASE Morto(g_r3[ch[c].posto].pid)
      BY <1>4, <2>1, <1>n, TornaSolo DEF Entra, TypeOK
    <2>2. CASE ~Morto(g_r3[ch[c].posto].pid)
      <3>1. [ch[c] EXCEPT !.st = "casella", !.scaduto = FALSE] \in Chiamate
        BY <1>c DEF Chiamate
      <3> QED  BY <1>4, <2>2, <3>1 DEF Entra, TypeOK
    <2> QED  BY <2>1, <2>2
  <1>5. CASE Casella(c)
    <2> DEFINE i == ch[c].posto
    <2>1. i \in Posti
      BY <1>5 DEF Casella, InGiro, Puntati
    <2>2. Vuota(i) \in Caselle /\ Richiesta(c) \in Caselle
      BY <2>1, VuotaTipo, RichiestaCampi
    <2>3. ch' \in [Chiamanti -> Chiamate] /\ detentore' \in Chiamanti \cup {Nessuno} /\ fila' \in SUBSET Chiamanti
      <3>1. [ch[c] EXCEPT !.st = "aspetta", !.sonno = TRUE] \in Chiamate
        BY <1>c DEF Chiamate
      <3>2. CASE Torna(c, "EIO", Nessuno)
        BY <3>2, <1>n, TornaSolo
      <3>3. CASE ch' = [ch EXCEPT ![c].st = "aspetta", ![c].sonno = TRUE] /\ UNCHANGED <<detentore, fila>>
        BY <3>1, <3>3 DEF TypeOK
      <3> QED  BY <1>5, <3>2, <3>3 DEF Casella
    <2>4. g_r3' \in [Posti -> Caselle] /\ g_dorme' \in [Posti -> Serventi \cup {Nessuno}] /\ sv' \in [Serventi -> Guide]
      <3>1. CASE ~Occupata(i)
        BY <1>5, <2>1, <2>2, <3>1, SvegliatoCampi DEF Casella, TypeOK
      <3>2. CASE Occupata(i)
        BY <1>5, <3>2 DEF Casella, TypeOK
      <3> QED  BY <3>1, <3>2
    <2> QED  BY <1>5, <2>3, <2>4 DEF Casella, TypeOK
  <1>6. CASE Aspetta(c)
    <2> DEFINE i == ch[c].posto
    <2>1. i \in Posti
      BY <1>6 DEF Aspetta, InGiro, Puntati
    <2>2. Vuota(i) \in Caselle /\ g_r3[i] \in Caselle
      BY <2>1, VuotaTipo DEF TypeOK
    <2>3. g_r3' \in [Posti -> Caselle]
      <3>1. g_r3' = g_r3 \/ g_r3' = [g_r3 EXCEPT ![i] = Vuota(i)]
        BY <1>6 DEF Aspetta, Rinuncia
      <3> QED  BY <3>1, <2>2 DEF TypeOK
    <2>4. ch' \in [Chiamanti -> Chiamate] /\ detentore' \in Chiamanti \cup {Nessuno} /\ fila' \in SUBSET Chiamanti
      <3>g. ch[c].giri \in Nat
        BY <1>c DEF Chiamate
      <3>0. ch[c].giri + 1 \in Nat
        BY <3>g
      <3>1. [ch[c] EXCEPT !.st = "entra", !.giri = @ + 1] \in Chiamate /\ [ch[c] EXCEPT !.sonno = TRUE] \in Chiamate
        BY <1>c, <3>0 DEF Chiamate
      <3>2. ASSUME NEW e, NEW b \in {Nessuno, g_r3[i].dati}, Torna(c, e, b)
            PROVE  <2>4!:
        <4>1. b \in Contenuti
          BY <1>n, <2>2 DEF Caselle
        <4> QED  BY <3>2, <4>1, TornaSolo
      <3>3. CASE ch' = [ch EXCEPT ![c].st = "entra", ![c].giri = @ + 1] /\ UNCHANGED <<detentore, fila>>
        BY <3>1, <3>3 DEF TypeOK
      <3>4. CASE ch' = [ch EXCEPT ![c].sonno = TRUE] /\ UNCHANGED <<detentore, fila>>
        BY <3>1, <3>4 DEF TypeOK
      <3>5. \/ \E e, b : b \in {Nessuno, g_r3[i].dati} /\ Torna(c, e, b)
            \/ ch' = [ch EXCEPT ![c].st = "entra", ![c].giri = @ + 1] /\ UNCHANGED <<detentore, fila>>
            \/ ch' = [ch EXCEPT ![c].sonno = TRUE] /\ UNCHANGED <<detentore, fila>>
        BY <1>6, Zenon DEF Aspetta
      <3> QED  BY <3>2, <3>3, <3>4, <3>5
    <2> QED  BY <1>6, <2>3, <2>4 DEF Aspetta, TypeOK
  <1>7. CASE Scade(c)
    <2>1. [ch[c] EXCEPT !.scaduto = TRUE, !.sonno = FALSE] \in Chiamate
      BY <1>c DEF Chiamate
    <2> QED  BY <1>7, <2>1 DEF Scade, TypeOK
  <1>8. CASE Scosso(c)
    <2>1. [ch[c] EXCEPT !.st = "prendi"] \in Chiamate /\ [ch[c] EXCEPT !.sonno = FALSE] \in Chiamate
      BY <1>c DEF Chiamate
    <2> QED  BY <1>8, <2>1 DEF Scosso, TypeOK
  <1>9. CASE Ucciso(c)
    <2>1. [Riposo EXCEPT !.st = "morto"] \in Chiamate
      BY <1>r DEF Chiamate
    <2> QED  BY <1>9, <2>1 DEF Ucciso, TypeOK
  <1> QED  BY <1>1, <1>2, <1>3, <1>4, <1>5, <1>6, <1>7, <1>8, <1>9 DEF PassoChiamante

\* The types after a step of a driver.
LEMMA TipoServente ==
    ASSUME TypeOK, Puntati, NEW s \in Serventi,
           \/ blkr3_offri(s) \/ blkr3_attendi(s) \/ Destato(s) \/ PrendiDati(s)
           \/ Lavora(s) \/ DaiDati(s) \/ Copia(s) \/ blkr3_risposta(s)
           \/ Muore(s) \/ blkr3_processo_morto(s)
    PROVE  TypeOK'
  <1>n. Nessuno \in Contenuti
    BY DEF Contenuti
  <1>s. sv[s] \in Guide
    BY DEF TypeOK
  <1>o. \A st \in {"libero", "prende", "lavora", "zombie"} : Ozio(st) \in Guide
    BY <1>n DEF Ozio, Guide, Casi
  <1>g. \A i \in Posti : g_r3[i] \in Caselle
    BY DEF TypeOK
  <1>c. \A st \in {"PRONTA", "IN_CORSO"} : cerca_per_pid(s, st) # 0 => cerca_per_pid(s, st) \in Posti
    BY CercaTrova DEF Suoi
  <1>1. CASE blkr3_offri(s)
    <2>1. offerte + 1 \in Nat
      BY DEF TypeOK
    <2>2. \A i \in Posti : [Vuota(i) EXCEPT !.usato = TRUE, !.pid = s, !.disp = offerte + 1] \in Caselle
      BY <2>1, VuotaTipo DEF Caselle, Pid
    <2>3. g_r3' \in [Posti -> Caselle] /\ g_dorme' \in [Posti -> Serventi \cup {Nessuno}]
      BY <1>1, <2>2 DEF blkr3_offri, TypeOK
    <2> QED  BY <1>1, <2>1, <2>3 DEF blkr3_offri, TypeOK
  <1>2. CASE blkr3_attendi(s)
    <2> DEFINE i == cerca_per_pid(s, "PRONTA")
    <2>1. CASE i # 0
      <3>1. i \in Posti /\ g_r3[i] \in Caselle
        BY <1>c, <1>g, <2>1
      <3>2. [g_r3[i] EXCEPT !.stato = "IN_CORSO"] \in Caselle
        BY <3>1 DEF Caselle
      <3>3. [Ozio(IF g_r3[i].op = "SCRIVI" THEN "prende" ELSE "lavora") EXCEPT
               !.disp = g_r3[i].disp, !.op = g_r3[i].op, !.lba = g_r3[i].pid_chiamante] \in Guide
        <4>1. PICK r \in Guide : r = Ozio(IF g_r3[i].op = "SCRIVI" THEN "prende" ELSE "lavora")
          BY <1>o
        <4> QED  BY <3>1, <4>1 DEF Caselle, Guide
      <3>4. g_r3' \in [Posti -> Caselle] /\ sv' \in [Serventi -> Guide]
        BY <1>2, <2>1, <3>2, <3>3 DEF blkr3_attendi, TypeOK
      <3>5. g_dorme' \in [Posti -> Serventi \cup {Nessuno}]
        BY <1>2, <2>1 DEF blkr3_attendi, TypeOK
      <3> QED  BY <1>2, <3>4, <3>5 DEF blkr3_attendi, TypeOK
    <2>2. CASE i = 0
      <3>1. [sv[s] EXCEPT !.st = "dorme"] \in Guide
        BY <1>s DEF Guide
      <3>2. g_dorme' \in [Posti -> Serventi \cup {Nessuno}]
        BY <1>2, <2>2 DEF blkr3_attendi, TypeOK
      <3> QED  BY <1>2, <2>2, <3>1, <3>2 DEF blkr3_attendi, TypeOK
    <2> QED  BY <2>1, <2>2
  <1>3. CASE Destato(s)
    <2>1. [sv[s] EXCEPT !.st = "libero"] \in Guide
      BY <1>s DEF Guide
    <2>2. g_dorme' \in [Posti -> Serventi \cup {Nessuno}]
      BY <1>3 DEF Destato, TypeOK
    <2> QED  BY <1>3, <2>1, <2>2 DEF Destato, TypeOK
  <1>4. CASE PrendiDati(s)
    <2>1. blkr3_dati(s) # 0 => [sv[s] EXCEPT !.st = "copia fuori", !.posto = blkr3_dati(s)] \in Guide
      BY <1>s, <1>c DEF Guide, blkr3_dati
    <2> QED  BY <1>4, <1>o, <2>1 DEF PrendiDati, TypeOK
  <1>5. CASE Lavora(s)
    <2>1. PICK esito \in {"ok", "EIO"} :
            /\ sv' = [sv EXCEPT ![s].st = "risponde", ![s].esito = esito,
                     ![s].buf = IF sv[s].op = "LEGGI" /\ esito = "ok"
                                THEN <<"letto", sv[s].disp, sv[s].lba>> ELSE Nessuno]
            /\ scritti' \subseteq scritti \cup {<<sv[s].disp, sv[s].lba, sv[s].buf>>}
      BY <1>5 DEF Lavora
    <2>2. <<"letto", sv[s].disp, sv[s].lba>> \in Contenuti
      BY <1>s DEF Guide, Contenuti
    <2>3. PICK b \in Contenuti : b = IF sv[s].op = "LEGGI" /\ esito = "ok"
                                     THEN <<"letto", sv[s].disp, sv[s].lba>> ELSE Nessuno
      BY <1>n, <2>2
    <2>4. sv' = [sv EXCEPT ![s].st = "risponde", ![s].esito = esito, ![s].buf = b]
      BY <2>1, <2>3 DEF TypeOK
    <2>5. [sv[s] EXCEPT !.st = "risponde", !.esito = esito, !.buf = b] \in Guide
      BY <1>s DEF Guide
    <2>6. sv' \in [Serventi -> Guide]
      BY <2>4, <2>5 DEF TypeOK
    <2>7. scritti' \in SUBSET (Nat \X (Chiamanti \cup {Nessuno}) \X Contenuti)
      <3>1. <<sv[s].disp, sv[s].lba, sv[s].buf>> \in Nat \X (Chiamanti \cup {Nessuno}) \X Contenuti
        BY <1>s DEF Guide
      <3> QED  BY <2>1, <3>1 DEF TypeOK
    <2> QED  BY <1>5, <2>6, <2>7 DEF Lavora, TypeOK
  <1>6. CASE DaiDati(s)
    <2>1. \A st \in {"copia dentro", "rende"} : [sv[s] EXCEPT !.posto = blkr3_dati(s), !.st = st] \in Guide
      BY <1>s, <1>c DEF Guide, blkr3_dati
    <2>2. PICK st \in {"copia dentro", "rende"} : sv' = [sv EXCEPT ![s].posto = blkr3_dati(s), ![s].st = st]
      BY <1>6 DEF DaiDati
    <2> QED  BY <1>6, <2>1, <2>2 DEF DaiDati, TypeOK
  <1>7. CASE CopiaFuori(s)
    <2>1. g_r3[sv[s].posto].dati \in Contenuti
      BY <1>7, <1>g DEF CopiaFuori, Puntati, Caselle
    <2>2. [sv[s] EXCEPT !.buf = g_r3[sv[s].posto].dati, !.posto = 0, !.st = "lavora"] \in Guide
      BY <1>s, <2>1 DEF Guide
    <2> QED  BY <1>7, <2>2 DEF CopiaFuori, TypeOK
  <1>8. CASE CopiaDentro(s)
    <2>1. sv[s].posto \in Posti
      BY <1>8 DEF CopiaDentro, Puntati
    <2>b. sv[s].buf \in Contenuti
      BY <1>s DEF Guide
    <2>r. PICK r \in Caselle : r = g_r3[sv[s].posto]
      BY <1>g, <2>1
    <2>2. [g_r3[sv[s].posto] EXCEPT !.dati = sv[s].buf] \in Caselle
      BY <2>b, <2>r DEF Caselle
    <2>3. [sv[s] EXCEPT !.st = "rende"] \in Guide
      BY <1>s DEF Guide
    <2> QED  BY <1>8, <2>2, <2>3 DEF CopiaDentro, TypeOK
  <1>9. CASE blkr3_risposta(s)
    <2> DEFINE i == cerca_per_pid(s, "IN_CORSO")
    <2>1. g_r3' \in [Posti -> Caselle]
      <3>1. CASE i # 0
        <4>1. sv[s].esito \in {"no", "ok", "EIO"}
          BY <1>s DEF Guide
        <4>2. PICK r \in Caselle : r = g_r3[i]
          BY <1>g, <1>c, <3>1
        <4>3. [r EXCEPT !.esito = sv[s].esito, !.stato = "SERVITA"] \in Caselle
          BY <4>1, <4>2 DEF Caselle
        <4> QED  BY <1>9, <3>1, <4>2, <4>3 DEF blkr3_risposta, TypeOK
      <3> QED  BY <1>9, <3>1 DEF blkr3_risposta, TypeOK
    <2>2. ch' \in [Chiamanti -> Chiamate]
      <3>1. \A x \in Chiamanti : [ch[x] EXCEPT !.sonno = FALSE] \in Chiamate
        BY DEF TypeOK, Chiamate
      <3> QED  BY <1>9, <3>1 DEF blkr3_risposta, TypeOK
    <2> QED  BY <1>9, <1>o, <2>1, <2>2 DEF blkr3_risposta, TypeOK
  <1>10. CASE Muore(s)
    BY <1>10, <1>o DEF Muore, TypeOK
  <1>11. CASE blkr3_processo_morto(s)
    <2>1. [sv[s] EXCEPT !.st = "raccolto"] \in Guide
      BY <1>s DEF Guide
    <2>2. g_r3' \in [Posti -> Caselle] /\ ch' \in [Chiamanti -> Chiamate]
      BY <1>11, ToltiCampi DEF blkr3_processo_morto, Suoi
    <2>3. g_dorme' \in [Posti -> Serventi \cup {Nessuno}]
      BY <1>11 DEF blkr3_processo_morto, TypeOK
    <2> QED  BY <1>11, <2>1, <2>2, <2>3 DEF blkr3_processo_morto, TypeOK
  <1> QED  BY <1>1, <1>2, <1>3, <1>4, <1>5, <1>6, <1>7, <1>8, <1>9, <1>10, <1>11 DEF Copia

\* The types after a device is sent away.
LEMMA TipoEspelli ==
    ASSUME TypeOK, NEW i \in Posti, blkr3_espelli(i)
    PROVE  TypeOK'
  BY ToltiCampi, SvegliatoCampi DEF blkr3_espelli, TypeOK

-----------------------------------------------------------------------------
(* The steps of a caller that leave the slots alone.                       *)

\* What the other callers have in hand when c moves.
Altri(c) ==
    \A x \in Chiamanti : x # c =>
        /\ ch'[x].posto = ch[x].posto /\ ch'[x].disp = ch[x].disp /\ ch'[x].op = ch[x].op
        /\ ch'[x].esito = ch[x].esito /\ ch'[x].buf = ch[x].buf
        /\ ch'[x].st = ch[x].st \/ (ch[x].st = "in fila" /\ ch'[x].st = "prendi")

\* c moves and no slot changes.  It comes to a slot only through spezza, keeps
\* waiting where it waited, and stops waiting only if it dies or the device is
\* gone.
Quieto(c) ==
    /\ UNCHANGED <<g_r3, g_dorme, offerte, sv>> /\ Altri(c)
    /\ scritti' = scritti \/ (ch[c].st = "fuori" /\ scritti' = {w \in scritti : w[2] # c})
    /\ ch[c].st # "morto" /\ (ch[c].st = "fuori" => ch'[c].esito = "no")
    /\ ch'[c].esito \in {"no", ch[c].esito} /\ ch'[c].buf \in {Nessuno, ch[c].buf}
    /\ InGiro(c)' => \/ /\ InGiro(c) /\ ch'[c].posto = ch[c].posto
                        /\ ch'[c].disp = ch[c].disp /\ ch'[c].op = ch[c].op
                     \/ /\ ch'[c].st = "entra" /\ ch'[c].posto \in Posti
                        /\ g_r3[ch'[c].posto].usato /\ g_r3[ch'[c].posto].disp = ch'[c].disp
    /\ ch'[c].st = "aspetta" => ch[c].st = "aspetta"
    /\ ch[c].st = "aspetta" =>
          ch'[c].st \in {"aspetta", "morto"} \/ ~g_r3[ch[c].posto].usato

\* A call that returns without having been served.
LEMMA TornaVuoto ==
    ASSUME TypeOK, NEW c \in Chiamanti, NEW e \in {"EIO", "ENODEV"}, Torna(c, e, Nessuno)
    PROVE  /\ Altri(c) /\ ch'[c].st = "fuori" /\ ch'[c].esito = "no" /\ ch'[c].buf = Nessuno
           /\ detentore' # c /\ detentore' \in {detentore, Nessuno}
  <1>1. Nessuno \in Contenuti
    BY DEF Contenuti
  <1>2. ch'[c] = Riposo
    BY <1>1, TornaSolo DEF Reso
  <1>3. \A x \in Chiamanti : x # c =>
                 \/ ch'[x] = ch[x]
                 \/ ch[x].st = "in fila" /\ ch'[x] = [ch[x] EXCEPT !.st = "prendi"]
    BY <1>1, TornaSolo
  <1>4. ASSUME NEW x \in Chiamanti, x # c
        PROVE  /\ ch'[x].posto = ch[x].posto /\ ch'[x].disp = ch[x].disp /\ ch'[x].op = ch[x].op
               /\ ch'[x].esito = ch[x].esito /\ ch'[x].buf = ch[x].buf
               /\ ch'[x].st = ch[x].st \/ (ch[x].st = "in fila" /\ ch'[x].st = "prendi")
    <2>1. PICK r \in Chiamate : r = ch[x]
      BY DEF TypeOK
    <2>2. ch'[x] = r \/ (r.st = "in fila" /\ ch'[x] = [r EXCEPT !.st = "prendi"])
      BY <1>3, <1>4, <2>1
    <2> QED  BY <2>1, <2>2 DEF Chiamate
  <1>5. Altri(c)
    BY <1>4 DEF Altri
  <1>6. detentore' # c /\ detentore' \in {detentore, Nessuno}
    BY <1>1, TornaSolo
  <1> QED  BY <1>2, <1>5, <1>6 DEF Riposo

\* These steps of a caller are quiet.
LEMMA PassiQuieti ==
    ASSUME TypeOK, NEW c \in Chiamanti,
           \/ Chiama(c) \/ fs_prendi(c) \/ spezza(c) \/ Entra(c) \/ Scade(c) \/ Scosso(c) \/ Ucciso(c)
           \/ Casella(c) /\ Occupata(ch[c].posto)
           \/ Aspetta(c) /\ g_r3[ch[c].posto].stato # "SERVITA"
                         /\ (~g_r3[ch[c].posto].usato \/ ~Scaduto(c))
    PROVE  Quieto(c)
  <1>c. ch[c] \in Chiamate /\ \A x \in Chiamanti : ch[x] \in Chiamate
    BY DEF TypeOK
  <1>r. Riposo.st = "fuori" /\ Riposo.esito = "no" /\ Riposo.buf = Nessuno
    BY DEF Riposo
  <1>1. CASE Chiama(c)
    <2>1. PICK g \in 1 .. offerte, op \in Operazioni[c] :
            ch' = [ch EXCEPT ![c] = [Riposo EXCEPT !.disp = g, !.op = op,
                                     !.st = IF c \in Liberi THEN "spezza" ELSE "prendi"]]
      BY <1>1 DEF Chiama
    <2>2. ch'[c].st \in {"spezza", "prendi"} /\ ch'[c].esito = "no" /\ ch'[c].buf = Nessuno
      BY <2>1 DEF TypeOK, Riposo
    <2>3. Altri(c)
      BY <2>1 DEF Altri, TypeOK
    <2> QED  BY <1>1, <2>2, <2>3 DEF Chiama, Quieto, InGiro
  <1>2. CASE fs_prendi(c)
    <2>1. PICK st \in {"spezza", "in fila"} : ch' = [ch EXCEPT ![c].st = st]
      BY <1>2 DEF fs_prendi
    <2>2. ch'[c].st = st /\ ch'[c].esito = ch[c].esito /\ ch'[c].buf = ch[c].buf
      BY <2>1, <1>c DEF TypeOK, Chiamate
    <2>3. Altri(c)
      BY <2>1 DEF Altri, TypeOK
    <2> QED  BY <1>2, <2>2, <2>3 DEF fs_prendi, Quieto, InGiro
  <1>3. CASE spezza(c)
    <2>1. CASE da_blkdev(ch[c].disp) = {}
      BY <1>3, <2>1, TornaVuoto DEF spezza, Quieto, InGiro
    <2>2. CASE da_blkdev(ch[c].disp) # {}
      <3>1. PICK i \in da_blkdev(ch[c].disp) : ch' = [ch EXCEPT ![c].st = "entra", ![c].posto = i]
        BY <1>3, <2>2 DEF spezza
      <3>2. /\ ch'[c].st = "entra" /\ ch'[c].posto = i /\ ch'[c].disp = ch[c].disp
            /\ ch'[c].esito = ch[c].esito /\ ch'[c].buf = ch[c].buf
        BY <3>1, <1>c DEF TypeOK, Chiamate
      <3>3. Altri(c)
        BY <3>1 DEF Altri, TypeOK
      <3>4. UNCHANGED <<g_r3, g_dorme, offerte, sv, scritti>> /\ ch[c].st = "spezza"
        BY <1>3 DEF spezza
      <3> QED  BY <3>1, <3>2, <3>3, <3>4 DEF Quieto, InGiro, da_blkdev
    <2> QED  BY <2>1, <2>2
  <1>4. CASE Entra(c)
    <2>1. CASE Morto(g_r3[ch[c].posto].pid)
      BY <1>4, <2>1, TornaVuoto DEF Entra, Quieto, InGiro
    <2>2. CASE ~Morto(g_r3[ch[c].posto].pid)
      <3>1. ch' = [ch EXCEPT ![c].st = "casella", ![c].scaduto = FALSE]
        BY <1>4, <2>2 DEF Entra
      <3>2. /\ ch'[c].st = "casella" /\ ch'[c].posto = ch[c].posto /\ ch'[c].disp = ch[c].disp
            /\ ch'[c].op = ch[c].op /\ ch'[c].esito = ch[c].esito /\ ch'[c].buf = ch[c].buf
        BY <3>1, <1>c DEF TypeOK, Chiamate
      <3>3. Altri(c)
        BY <3>1 DEF Altri, TypeOK
      <3> QED  BY <1>4, <3>2, <3>3 DEF Entra, Quieto, InGiro
    <2> QED  BY <2>1, <2>2
  <1>5. CASE Scade(c)
    <2>1. ch' = [ch EXCEPT ![c].scaduto = TRUE, ![c].sonno = FALSE]
      BY <1>5 DEF Scade
    <2>2. /\ ch'[c].st = ch[c].st /\ ch'[c].posto = ch[c].posto /\ ch'[c].disp = ch[c].disp
          /\ ch'[c].op = ch[c].op /\ ch'[c].esito = ch[c].esito /\ ch'[c].buf = ch[c].buf
      BY <2>1, <1>c DEF TypeOK, Chiamate
    <2>3. Altri(c)
      BY <2>1 DEF Altri, TypeOK
    <2> QED  BY <1>5, <2>2, <2>3 DEF Scade, Quieto, InGiro
  <1>6. CASE Scosso(c)
    <2>1. /\ Altri(c) /\ ch'[c].posto = ch[c].posto /\ ch'[c].disp = ch[c].disp
          /\ ch'[c].op = ch[c].op /\ ch'[c].esito = ch[c].esito /\ ch'[c].buf = ch[c].buf
          /\ \/ ch[c].st = "in fila" /\ ch'[c].st = "prendi"
             \/ ch[c].st = "aspetta" /\ ch'[c].st = "aspetta"
      <3>1. CASE ch[c].st = "in fila" /\ ch' = [ch EXCEPT ![c].st = "prendi"]
        BY <3>1, <1>c DEF Altri, TypeOK, Chiamate
      <3>2. CASE ch[c].st = "aspetta" /\ ch' = [ch EXCEPT ![c].sonno = FALSE]
        BY <3>2, <1>c DEF Altri, TypeOK, Chiamate
      <3> QED  BY <1>6, <3>1, <3>2 DEF Scosso
    <2> QED  BY <1>6, <2>1 DEF Scosso, Quieto, InGiro
  <1>7. CASE Ucciso(c)
    <2>1. ch'[c] = [Riposo EXCEPT !.st = "morto"] /\ Altri(c)
      BY <1>7 DEF Ucciso, Altri, TypeOK
    <2>2. ch'[c].st = "morto" /\ ch'[c].esito = "no" /\ ch'[c].buf = Nessuno
      BY <2>1 DEF Riposo
    <2> QED  BY <1>7, <2>1, <2>2 DEF Ucciso, Quieto, InGiro
  <1>8. CASE Casella(c) /\ Occupata(ch[c].posto)
    <2>1. Torna(c, "EIO", Nessuno) /\ UNCHANGED <<g_r3, g_dorme, sv, offerte, scritti>> /\ ch[c].st = "casella"
      BY <1>8 DEF Casella
    <2> QED  BY <2>1, TornaVuoto DEF Quieto, InGiro
  <1>9. CASE Aspetta(c) /\ g_r3[ch[c].posto].stato # "SERVITA"
                        /\ (~g_r3[ch[c].posto].usato \/ ~Scaduto(c))
    <2>1. CASE ~g_r3[ch[c].posto].usato
      <3>1. Torna(c, "EIO", Nessuno) /\ UNCHANGED <<g_r3, g_dorme, sv, offerte, scritti>> /\ ch[c].st = "aspetta"
        BY <1>9, <2>1 DEF Aspetta
      <3> QED  BY <2>1, <3>1, TornaVuoto DEF Quieto, InGiro
    <2>2. CASE g_r3[ch[c].posto].usato
      <3>1. /\ ch' = [ch EXCEPT ![c].sonno = TRUE] /\ UNCHANGED <<g_r3, g_dorme, sv, offerte, scritti>>
            /\ ch[c].st = "aspetta"
        BY <1>9, <2>2 DEF Aspetta
      <3>2. /\ ch'[c].st = "aspetta" /\ ch'[c].posto = ch[c].posto /\ ch'[c].disp = ch[c].disp
            /\ ch'[c].op = ch[c].op /\ ch'[c].esito = ch[c].esito /\ ch'[c].buf = ch[c].buf
        BY <3>1, <1>c DEF TypeOK, Chiamate
      <3>3. Altri(c)
        BY <3>1 DEF Altri, TypeOK
      <3> QED  BY <3>1, <3>2, <3>3 DEF Quieto, InGiro
    <2> QED  BY <2>1, <2>2
  <1> QED  BY <1>1, <1>2, <1>3, <1>4, <1>5, <1>6, <1>7, <1>8, <1>9

\* A quiet step keeps the first layer.
LEMMA QuietoInv1 ==
    ASSUME Inv1, NEW c \in Chiamanti, Quieto(c), TypeOK'
    PROVE  Inv1'
  <1>1. DormeRegistrato'
    BY DEF Inv1, Quieto, DormeRegistrato, Suoi
  <1>2. Dispositivi'
    BY DEF Inv1, Quieto, Dispositivi
  <1>3. Puntati'
    BY DEF Inv1, Quieto, Altri, Puntati, InGiro
  <1> QED  BY <1>1, <1>2, <1>3 DEF Inv1

\* A quiet step keeps the second layer.
LEMMA QuietoInv2 ==
    ASSUME Inv1, Inv2, NEW c \in Chiamanti, Quieto(c)
    PROVE  Inv2'
  <1>g. UNCHANGED <<g_r3, sv>>
    BY DEF Quieto
  <1>1. Puntatori'
    <2> SUFFICES ASSUME NEW x \in Chiamanti, InGiro(x)'
                 PROVE  g_r3[ch'[x].posto].disp = ch'[x].disp
      BY <1>g DEF Puntatori
    <2>1. CASE x = c
      BY <2>1 DEF Inv2, Puntatori, Quieto
    <2>2. CASE x # c
      <3>0. Altri(c)
        BY Zenon DEF Quieto
      <3>1. /\ ch'[x].posto = ch[x].posto /\ ch'[x].disp = ch[x].disp
            /\ ch'[x].st = ch[x].st \/ (ch[x].st = "in fila" /\ ch'[x].st = "prendi")
        BY <2>2, <3>0, Zenon DEF Altri
      <3>2. InGiro(x)
        BY <3>1 DEF InGiro
      <3>3. g_r3[ch[x].posto].disp = ch[x].disp
        BY <3>2 DEF Inv2, Puntatori
      <3> QED  BY <3>1, <3>3
    <2> QED  BY <2>1, <2>2
  <1>2. CasellaDiUno'
    <2> SUFFICES ASSUME NEW x \in Chiamanti, ch'[x].st = "aspetta", g_r3[ch'[x].posto].usato
                 PROVE  g_r3[ch'[x].posto].pid_chiamante = x /\ g_r3[ch'[x].posto].stato # "LIBERA"
      BY <1>g DEF CasellaDiUno
    <2>1. ch[x].st = "aspetta" /\ ch'[x].posto = ch[x].posto
      <3>1. CASE x = c
        BY <3>1 DEF Quieto, InGiro
      <3>2. CASE x # c
        BY <3>2 DEF Quieto, Altri
      <3> QED  BY <3>1, <3>2
    <2> QED  BY <2>1 DEF Inv2, CasellaDiUno
  <1>3. RichiestaDiUno'
    <2> SUFFICES ASSUME NEW i \in Posti, g_r3[i].usato, g_r3[i].stato # "LIBERA",
                        NEW x \in Chiamanti, x = g_r3[i].pid_chiamante
                 PROVE  ch'[x].st = "morto" \/
                        (ch'[x].st = "aspetta" /\ ch'[x].posto = i /\ ch'[x].op = g_r3[i].op)
      BY <1>g DEF RichiestaDiUno, Inv2
    <2>0. ch[x].st = "morto" \/
          (ch[x].st = "aspetta" /\ ch[x].posto = i /\ ch[x].op = g_r3[i].op)
      BY DEF Inv2, RichiestaDiUno
    <2>1. CASE x = c
      BY <2>0, <2>1 DEF Quieto, InGiro
    <2>2. CASE x # c
      BY <2>0, <2>2 DEF Quieto, Altri
    <2> QED  BY <2>1, <2>2
  <1>4. Spenti'
    BY DEF Inv2, Quieto, Spenti
  <1>5. InCorso'
    BY DEF Inv2, Quieto, InCorso, InMano, Morto
  <1> QED  BY <1>1, <1>2, <1>3, <1>4, <1>5 DEF Inv2

\* A quiet step keeps the third layer: a call that begins takes away only what
\* its own thread wrote before, and no answer for it is waiting.
LEMMA QuietoInv3 ==
    ASSUME Inv1, Inv2, Inv3, NEW c \in Chiamanti, Quieto(c)
    PROVE  Inv3'
  <1>1. Copie'
    BY DEF Inv3, Quieto, Copie
  <1>s. ASSUME NEW i \in Posti, g_r3[i].usato, g_r3[i].stato \in {"IN_CORSO", "SERVITA"},
               NEW w \in scritti, w[2] = g_r3[i].pid_chiamante
        PROVE  w \in scritti'
    BY <1>s DEF Inv2, RichiestaDiUno, Quieto
  <1>3. FattoDavvero'
    <2> SUFFICES ASSUME NEW i \in Posti, g_r3[i].usato, g_r3[i].stato = "IN_CORSO"
                 PROVE  FattoDavvero!(i)!2'
      BY DEF FattoDavvero, Quieto
    <2> QED  BY <1>s DEF Inv3, FattoDavvero, Quieto, Scritto
  <1>4. Serviti'
    BY <1>s DEF Inv3, Serviti, Quieto, Scritto
  <1>5. ASSUME NEW x \in Chiamanti, ch'[x].esito = "ok"
        PROVE  /\ x # c /\ ch[x].esito = "ok" /\ ch'[x].st = "fuori"
               /\ ch'[x].op = ch[x].op /\ ch'[x].disp = ch[x].disp /\ ch'[x].buf = ch[x].buf
    <2>1. x # c
      BY <1>5 DEF Inv3, EsitoFuori, Quieto
    <2>2. EsitoFuori
      BY DEF Inv3
    <2> QED  BY <1>5, <2>1, <2>2 DEF EsitoFuori, Quieto, Altri
  <1>6. EsitoFuori'
    BY <1>5 DEF EsitoFuori
  <1>7. RispostaSua'
    <2> SUFFICES ASSUME NEW x \in Chiamanti, ch'[x].esito = "ok"
                 PROVE  RispostaSua!(x)!2'
      BY DEF RispostaSua
    <2>1. x # c /\ (\A w \in scritti : w[2] = x => w \in scritti')
      BY <1>5 DEF Quieto
    <2> QED  BY <1>5, <2>1 DEF Inv3, RispostaSua, Scritto
  <1> QED  BY <1>1, <1>3, <1>4, <1>6, <1>7 DEF Inv3

-----------------------------------------------------------------------------
(* A request is put in a free slot (Casella).                              *)

\* Only drivers asleep are touched, and they are woken.
SoloSvegliati ==
    \A s \in Serventi : sv'[s] = sv[s] \/ (sv[s].st = "dorme" /\ sv'[s].st = "libero")

\* Only the slot i changes, and it keeps its device.
SoloPosto(i) ==
    /\ \A j \in Posti : j # i => g_r3'[j] = g_r3[j]
    /\ g_r3'[i].usato = g_r3[i].usato /\ g_r3'[i].pid = g_r3[i].pid /\ g_r3'[i].disp = g_r3[i].disp

\* What Casella does when it finds the slot free.
LEMMA EffettoCasella ==
    ASSUME TypeOK, Puntati, NEW c \in Chiamanti, Casella(c), ~Occupata(ch[c].posto),
           NEW i, i = ch[c].posto
    PROVE  /\ i \in Posti /\ g_r3[i].stato = "LIBERA" /\ ch[c].st = "casella"
           /\ SoloPosto(i) /\ g_r3'[i].esito = "EIO"
           /\ \A j \in Posti : j # i => g_dorme'[j] = g_dorme[j]
           /\ SoloSvegliati /\ \A s \in Serventi : g_dorme[i] = s => sv'[s].st # "dorme"
           /\ Altri(c) /\ UNCHANGED <<offerte, scritti>>
           /\ ch'[c].esito \in {"no", ch[c].esito} /\ ch'[c].buf \in {Nessuno, ch[c].buf}
           /\ \/ g_r3[i].usato /\ g_r3'[i].stato = "LIBERA" /\ ch'[c].st = "fuori"
              \/ /\ g_r3[i].usato /\ g_r3'[i].stato = "PRONTA" /\ g_r3'[i].pid_chiamante = c
                 /\ g_r3'[i].op = ch[c].op /\ ch'[c].st = "aspetta" /\ ch'[c].posto = i
                 /\ ch'[c].disp = ch[c].disp /\ ch'[c].op = ch[c].op
              \/ ~g_r3[i].usato /\ g_r3'[i].stato = "PRONTA" /\ ch'[c].st = "fuori"
  <1>1. i \in Posti /\ g_r3[i].stato = "LIBERA" /\ ch[c].st = "casella"
    BY DEF Casella, Puntati, InGiro, Occupata
  <1>2. /\ g_r3' = [g_r3 EXCEPT ![i] =
                      IF g_r3[i].usato /\ Scaduto(c) THEN Vuota(i) ELSE Richiesta(c)]
        /\ g_dorme' = [g_dorme EXCEPT ![i] = Nessuno]
        /\ sv' = Svegliato(i)
        /\ IF g_r3[i].usato /\ ~Scaduto(c)
           THEN ch' = [ch EXCEPT ![c].st = "aspetta", ![c].sonno = TRUE]
           ELSE Torna(c, "EIO", Nessuno)
        /\ UNCHANGED <<offerte, scritti>>
    BY <1>1, Zenon DEF Casella
  <1>3. \A j \in Posti : j # i => g_r3'[j] = g_r3[j] /\ g_dorme'[j] = g_dorme[j]
    BY <1>2 DEF TypeOK
  <1>4. g_r3'[i] = IF g_r3[i].usato /\ Scaduto(c) THEN Vuota(i) ELSE Richiesta(c)
    BY <1>1, <1>2 DEF TypeOK
  <1>5. SoloSvegliati /\ \A s \in Serventi : g_dorme[i] = s => sv'[s].st # "dorme"
    <2> SUFFICES ASSUME NEW s \in Serventi
                 PROVE  /\ sv'[s] = sv[s] \/ (sv[s].st = "dorme" /\ sv'[s].st = "libero")
                        /\ g_dorme[i] = s => sv'[s].st # "dorme"
      BY DEF SoloSvegliati
    <2>1. PICK r \in Guide : r = sv[s]
      BY DEF TypeOK
    <2>2. \/ sv'[s] = r /\ ~(g_dorme[i] = s /\ r.st = "dorme")
          \/ r.st = "dorme" /\ sv'[s] = [r EXCEPT !.st = "libero"]
      BY <1>1, <1>2, <2>1, SvegliatoCampi
    <2> QED  BY <2>1, <2>2 DEF Guide
  <1>6. CASE g_r3[i].usato /\ ~Scaduto(c)
    <2>1. ch' = [ch EXCEPT ![c].st = "aspetta", ![c].sonno = TRUE] /\ g_r3'[i] = Richiesta(c)
      BY <1>2, <1>4, <1>6
    <2>2. /\ ch'[c].st = "aspetta" /\ ch'[c].posto = ch[c].posto /\ ch'[c].disp = ch[c].disp
          /\ ch'[c].op = ch[c].op /\ ch'[c].esito = ch[c].esito /\ ch'[c].buf = ch[c].buf
      BY <2>1 DEF TypeOK, Chiamate
    <2>3. Altri(c)
      BY <2>1 DEF Altri, TypeOK
    <2>4. /\ SoloPosto(i) /\ g_r3'[i].esito = "EIO" /\ g_r3'[i].stato = "PRONTA"
          /\ g_r3'[i].pid_chiamante = c /\ g_r3'[i].op = ch[c].op
      BY <1>1, <1>3, <2>1, RichiestaCampi DEF SoloPosto
    <2> QED  BY <1>1, <1>2, <1>3, <1>5, <1>6, <2>2, <2>3, <2>4
  <1>7. CASE g_r3[i].usato /\ Scaduto(c)
    <2>1. Torna(c, "EIO", Nessuno) /\ g_r3'[i] = Vuota(i)
      BY <1>2, <1>4, <1>7
    <2>2. Altri(c) /\ ch'[c].st = "fuori" /\ ch'[c].esito = "no" /\ ch'[c].buf = Nessuno
      BY <2>1, TornaVuoto
    <2>3. SoloPosto(i) /\ g_r3'[i].esito = "EIO" /\ g_r3'[i].stato = "LIBERA"
      BY <1>1, <1>3, <2>1, VuotaCampi DEF SoloPosto
    <2> QED  BY <1>1, <1>2, <1>3, <1>5, <1>7, <2>2, <2>3
  <1>8. CASE ~g_r3[i].usato
    <2>1. Torna(c, "EIO", Nessuno) /\ g_r3'[i] = Richiesta(c)
      BY <1>2, <1>4, <1>8
    <2>2. Altri(c) /\ ch'[c].st = "fuori" /\ ch'[c].esito = "no" /\ ch'[c].buf = Nessuno
      BY <2>1, TornaVuoto
    <2>3. SoloPosto(i) /\ g_r3'[i].esito = "EIO" /\ g_r3'[i].stato = "PRONTA"
      BY <1>1, <1>3, <2>1, RichiestaCampi DEF SoloPosto
    <2> QED  BY <1>1, <1>2, <1>3, <1>5, <1>8, <2>2, <2>3
  <1> QED  BY <1>6, <1>7, <1>8

\* Casella keeps the first layer: the driver of the slot is not left asleep.
LEMMA CasellaInv1 ==
    ASSUME Inv1, NEW c \in Chiamanti, Casella(c), ~Occupata(ch[c].posto), TypeOK'
    PROVE  Inv1'
  <1> DEFINE i == ch[c].posto
  <1>t. TypeOK /\ Puntati
    BY DEF Inv1
  <1>1. DormeRegistrato'
    <2> SUFFICES ASSUME NEW s \in Serventi, sv'[s].st = "dorme", NEW j \in Posti,
                        g_r3'[j].usato, g_r3'[j].pid = s
                 PROVE  g_dorme'[j] = s /\ g_r3'[j].stato # "PRONTA"
      BY DEF DormeRegistrato, Suoi
    <2>1. sv[s].st = "dorme" /\ g_r3[j].usato /\ g_r3[j].pid = s
      BY <1>t, EffettoCasella DEF SoloSvegliati, SoloPosto
    <2>2. g_dorme[j] = s /\ g_r3[j].stato # "PRONTA"
      BY <2>1 DEF Inv1, DormeRegistrato, Suoi
    <2>3. j # i
      BY <1>t, <2>2, EffettoCasella
    <2> QED  BY <1>t, <2>2, <2>3, EffettoCasella DEF SoloPosto
  <1>2. Dispositivi'
    <2>1. \A j \in Posti : g_r3'[j].usato = g_r3[j].usato /\ g_r3'[j].pid = g_r3[j].pid
                           /\ g_r3'[j].disp = g_r3[j].disp
      BY <1>t, EffettoCasella DEF SoloPosto
    <2>2. offerte' = offerte
      BY <1>t, EffettoCasella
    <2> QED  BY <2>1, <2>2 DEF Inv1, Dispositivi
  <1>3. Puntati'
    <2>1. ASSUME NEW x \in Chiamanti, InGiro(x)'
          PROVE  ch'[x].posto \in Posti
      <3>1. CASE x = c
        BY <1>t, <2>1, <3>1, EffettoCasella DEF InGiro
      <3>2. CASE x # c
        BY <1>t, <2>1, <3>2, EffettoCasella DEF Puntati, InGiro, Altri
      <3> QED  BY <3>1, <3>2
    <2>2. ASSUME NEW s \in Serventi, sv'[s].st \in {"copia fuori", "copia dentro"}
          PROVE  sv'[s].posto \in Posti
      BY <1>t, <2>2, EffettoCasella DEF Puntati, SoloSvegliati
    <2> QED  BY <2>1, <2>2 DEF Puntati
  <1> QED  BY <1>1, <1>2, <1>3 DEF Inv1

\* Casella keeps the second layer: nobody else waits in a slot that is free.
LEMMA CasellaInv2 ==
    ASSUME Inv1, Inv2, NEW c \in Chiamanti, Casella(c), ~Occupata(ch[c].posto)
    PROVE  Inv2'
  <1> DEFINE i == ch[c].posto
  <1>t. TypeOK /\ Puntati
    BY DEF Inv1
  <1>1. Puntatori'
    <2> SUFFICES ASSUME NEW x \in Chiamanti, InGiro(x)'
                 PROVE  g_r3'[ch'[x].posto].disp = ch'[x].disp
      BY DEF Puntatori
    <2>1. InGiro(x) /\ ch'[x].posto = ch[x].posto /\ ch'[x].disp = ch[x].disp
      <3>1. CASE x = c
        BY <1>t, <3>1, EffettoCasella DEF InGiro
      <3>2. CASE x # c
        BY <1>t, <3>2, EffettoCasella DEF InGiro, Altri
      <3> QED  BY <3>1, <3>2
    <2>2. ch[x].posto \in Posti /\ g_r3[ch[x].posto].disp = ch[x].disp
      BY <2>1 DEF Inv1, Puntati, Inv2, Puntatori
    <2> QED  BY <1>t, <2>1, <2>2, EffettoCasella DEF SoloPosto
  <1>2. CasellaDiUno'
    <2> SUFFICES ASSUME NEW x \in Chiamanti, ch'[x].st = "aspetta", g_r3'[ch'[x].posto].usato
                 PROVE  g_r3'[ch'[x].posto].pid_chiamante = x /\ g_r3'[ch'[x].posto].stato # "LIBERA"
      BY DEF CasellaDiUno
    <2>1. CASE x = c
      BY <1>t, <2>1, EffettoCasella DEF SoloPosto
    <2>2. CASE x # c
      <3>0. Altri(c)
        BY <1>t, EffettoCasella
      <3>1. ch[x].st = "aspetta" /\ ch'[x].posto = ch[x].posto /\ ch[x].posto \in Posti
        BY <1>t, <2>2, <3>0 DEF Altri, Puntati, InGiro
      <3>2. g_r3[ch[x].posto].usato
        BY <1>t, <3>1, EffettoCasella DEF SoloPosto
      <3>3. ch[x].posto # i
        BY <1>t, <3>1, <3>2, EffettoCasella DEF Inv2, CasellaDiUno
      <3> QED  BY <1>t, <3>1, <3>2, <3>3, EffettoCasella DEF Inv2, CasellaDiUno, SoloPosto
    <2> QED  BY <2>1, <2>2
  <1>3. RichiestaDiUno'
    <2> SUFFICES ASSUME NEW j \in Posti, g_r3'[j].usato, g_r3'[j].stato # "LIBERA"
                 PROVE  RichiestaDiUno!(j)!2'
      BY DEF RichiestaDiUno
    <2>1. CASE j = i
      BY <1>t, <2>1, EffettoCasella DEF SoloPosto
    <2>2. CASE j # i
      <3>1. g_r3'[j] = g_r3[j]
        BY <1>t, <2>2, EffettoCasella DEF SoloPosto
      <3>2. PICK x \in Chiamanti : /\ x = g_r3[j].pid_chiamante
                                   /\ \/ ch[x].st = "morto"
                                      \/ ch[x].st = "aspetta" /\ ch[x].posto = j /\ ch[x].op = g_r3[j].op
        BY <3>1 DEF Inv2, RichiestaDiUno
      <3>3. x # c
        BY <1>t, <3>2, EffettoCasella
      <3>4. ch'[x].st = ch[x].st /\ ch'[x].posto = ch[x].posto /\ ch'[x].op = ch[x].op
        BY <1>t, <3>2, <3>3, EffettoCasella DEF Altri
      <3> QED  BY <3>1, <3>2, <3>4
    <2> QED  BY <2>1, <2>2
  <1>4. Spenti'
    BY <1>t, EffettoCasella DEF Inv2, Spenti, SoloPosto
  <1>5. InCorso'
    <2> SUFFICES ASSUME NEW j \in Posti, g_r3'[j].usato, g_r3'[j].stato = "IN_CORSO"
                 PROVE  InCorso!(j)!2'
      BY DEF InCorso
    <2>1. g_r3'[j] = g_r3[j]
      BY <1>t, EffettoCasella DEF SoloPosto
    <2>2. g_r3[j].pid \in Serventi
      BY <2>1 DEF Inv1, Dispositivi
    <2>3. sv'[g_r3[j].pid] = sv[g_r3[j].pid]
      <3>1. SoloSvegliati
        BY <1>t, EffettoCasella
      <3>2. sv[g_r3[j].pid].st # "dorme"
        BY <2>1 DEF Inv2, InCorso, InMano, Morto
      <3> QED  BY <2>2, <3>1, <3>2 DEF SoloSvegliati
    <2> QED  BY <2>1, <2>3 DEF Inv2, InCorso, InMano, Morto
  <1> QED  BY <1>1, <1>2, <1>3, <1>4, <1>5 DEF Inv2

\* A request whose slot and driver do not move is as far as it was.
LEMMA FattoFermo ==
    ASSUME NEW j \in Posti, g_r3'[j] = g_r3[j], sv'[g_r3[j].pid] = sv[g_r3[j].pid],
           scritti' = scritti, FattoDavvero!(j)!2
    PROVE  FattoDavvero!(j)!2'
  BY DEF Scritto

\* A driver that is at work on a request is not touched by who wakes drivers.
LEMMA GuidaFerma ==
    ASSUME Dispositivi, InCorso, SoloSvegliati, NEW j \in Posti, g_r3[j].usato,
           g_r3[j].stato = "IN_CORSO"
    PROVE  g_r3[j].pid \in Serventi /\ sv'[g_r3[j].pid] = sv[g_r3[j].pid]
  <1>1. g_r3[j].pid \in Serventi
    BY DEF Dispositivi
  <1>2. sv[g_r3[j].pid].st # "dorme"
    BY DEF InCorso, InMano, Morto
  <1> QED  BY <1>1, <1>2 DEF SoloSvegliati

\* When c leaves its call with nothing, the other callers keep what they have.
LEMMA EsitiFermi ==
    ASSUME EsitoFuori, RispostaSua, NEW c \in Chiamanti, Altri(c), ch[c].st # "fuori",
           ch'[c].esito \in {"no", ch[c].esito}, scritti' = scritti
    PROVE  EsitoFuori' /\ RispostaSua'
  <1>1. ASSUME NEW x \in Chiamanti, ch'[x].esito = "ok"
        PROVE  /\ ch[x].esito = "ok" /\ ch'[x].st = "fuori"
               /\ ch'[x].op = ch[x].op /\ ch'[x].disp = ch[x].disp /\ ch'[x].buf = ch[x].buf
    <2>1. x # c
      BY <1>1 DEF EsitoFuori
    <2> QED  BY <1>1, <2>1 DEF EsitoFuori, Altri
  <1>2. EsitoFuori'
    BY <1>1 DEF EsitoFuori
  <1>3. RispostaSua'
    BY <1>1 DEF RispostaSua, Scritto
  <1> QED  BY <1>2, <1>3

\* Casella keeps the third layer.
LEMMA CasellaInv3 ==
    ASSUME Inv1, Inv2, Inv3, NEW c \in Chiamanti, Casella(c), ~Occupata(ch[c].posto)
    PROVE  Inv3'
  <1> DEFINE i == ch[c].posto
  <1>t. TypeOK /\ Puntati /\ Dispositivi /\ InCorso
    BY DEF Inv1, Inv2
  <1>e. /\ i \in Posti /\ g_r3[i].stato = "LIBERA" /\ SoloPosto(i) /\ SoloSvegliati /\ Altri(c)
        /\ ch[c].st = "casella" /\ ch'[c].esito \in {"no", ch[c].esito} /\ scritti' = scritti
        /\ g_r3'[i].stato \in {"LIBERA", "PRONTA"}
    BY <1>t, EffettoCasella
  <1>1. Copie'
    <2> SUFFICES ASSUME NEW s \in Serventi  PROVE Copie!(s)'
      BY DEF Copie
    <2>1. CASE sv'[s] = sv[s]
      <3>3. ASSUME sv[s].st \in {"copia fuori", "copia dentro"}, g_r3'[sv[s].posto].usato
            PROVE  g_r3'[sv[s].posto].stato # "SERVITA"
        <4>1. sv[s].posto \in Posti
          BY <1>t, <3>3 DEF Puntati
        <4>2. CASE sv[s].posto = i
          BY <1>e, <4>2
        <4>3. CASE sv[s].posto # i
          <5>1. g_r3'[sv[s].posto] = g_r3[sv[s].posto]
            BY <1>e, <4>1, <4>3 DEF SoloPosto
          <5> QED  BY <3>3, <5>1 DEF Inv3, Copie
        <4> QED  BY <4>2, <4>3
      <3>4. sv[s].st \in {"copia fuori", "copia dentro"} =>
              g_r3'[sv[s].posto].pid = s /\ g_r3'[sv[s].posto].disp = sv[s].disp
        <4>1. \A j \in Posti : g_r3'[j].disp = g_r3[j].disp /\ g_r3'[j].pid = g_r3[j].pid
          BY <1>e DEF SoloPosto
        <4> QED  BY <1>t, <4>1 DEF Inv3, Copie, Puntati
      <3> QED  BY <2>1, <3>3, <3>4 DEF Inv3, Copie
    <2>2. CASE sv'[s].st = "libero"
      BY <2>2
    <2> QED  BY <1>e, <2>1, <2>2 DEF SoloSvegliati
  <1>3. FattoDavvero'
    <2> SUFFICES ASSUME NEW j \in Posti, g_r3'[j].usato, g_r3'[j].stato = "IN_CORSO"
                 PROVE  FattoDavvero!(j)!2'
      BY DEF FattoDavvero
    <2>1. g_r3'[j] = g_r3[j]
      BY <1>e DEF SoloPosto
    <2>2. sv'[g_r3[j].pid] = sv[g_r3[j].pid]
      BY <1>e, <1>t, <2>1, GuidaFerma
    <2>3. FattoDavvero!(j)!2
      BY <2>1, Zenon DEF Inv3, FattoDavvero
    <2>4. scritti' = scritti
      BY <1>e
    <2> QED  BY <2>1, <2>2, <2>3, <2>4, FattoFermo, Zenon
  <1>4. Serviti'
    <2> SUFFICES ASSUME NEW j \in Posti, g_r3'[j].stato = "SERVITA"  PROVE Serviti!(j)'
      BY DEF Serviti
    <2>1. g_r3'[j] = g_r3[j]
      BY <1>e DEF SoloPosto
    <2> QED  BY <1>e, <2>1 DEF Inv3, Serviti, Scritto
  <1>5. EsitoFuori' /\ RispostaSua'
    BY <1>e, EsitiFermi DEF Inv3
  <1> QED  BY <1>1, <1>3, <1>4, <1>5 DEF Inv3

-----------------------------------------------------------------------------
(* A caller frees its slot: it has its answer, or gives up (Aspetta).      *)

\* c has been served, or its deadline is over.
Finisce(c) ==
    g_r3[ch[c].posto].stato = "SERVITA" \/ (g_r3[ch[c].posto].usato /\ Scaduto(c))

\* What Aspetta does then.
LEMMA EffettoAspetta ==
    ASSUME TypeOK, Puntati, NEW c \in Chiamanti, Aspetta(c), Finisce(c), NEW i, i = ch[c].posto
    PROVE  /\ i \in Posti /\ ch[c].st = "aspetta" /\ SoloPosto(i)
           /\ g_r3'[i].stato = "LIBERA" /\ g_r3'[i].esito = "EIO"
           /\ Altri(c) /\ UNCHANGED <<g_dorme, offerte, sv, scritti>>
           /\ g_r3[i].stato = "SERVITA" \/ g_r3[i].usato
           /\ \/ /\ ch'[c].st = "entra" /\ ch'[c].posto = i /\ ch'[c].disp = ch[c].disp
                 /\ ch'[c].op = ch[c].op /\ ch'[c].esito = ch[c].esito /\ g_r3[i].esito = "ok"
              \/ ch'[c].st = "fuori" /\ ch'[c].esito = "no"
              \/ /\ ch'[c].st = "fuori" /\ ch'[c].esito = "ok" /\ ch'[c].disp = ch[c].disp
                 /\ ch'[c].op = ch[c].op /\ g_r3[i].stato = "SERVITA" /\ g_r3[i].esito = "ok"
                 /\ ch[c].op = "LEGGI" => ch'[c].buf = g_r3[i].dati
  <1>n. Nessuno \in Contenuti /\ g_r3[i].dati \in Contenuti /\ g_r3[i].esito \in {"no", "ok", "EIO"}
    BY DEF Contenuti, TypeOK, Caselle, Aspetta, Puntati, InGiro
  <1>1. i \in Posti /\ ch[c].st = "aspetta" /\ UNCHANGED <<g_dorme, offerte, sv, scritti>>
    BY DEF Aspetta, Puntati, InGiro
  <1>2. g_r3' = [g_r3 EXCEPT ![i] = Vuota(i)]
    BY Zenon DEF Aspetta, Finisce, Rinuncia
  <1>3. /\ SoloPosto(i) /\ g_r3'[i].stato = "LIBERA" /\ g_r3'[i].esito = "EIO"
    <2>1. g_r3'[i] = Vuota(i) /\ \A j \in Posti : j # i => g_r3'[j] = g_r3[j]
      BY <1>1, <1>2 DEF TypeOK
    <2> QED  BY <1>1, <2>1, VuotaCampi DEF SoloPosto
  <1>4. ASSUME NEW e, NEW b \in Contenuti, Torna(c, e, b)
        PROVE  /\ Altri(c) /\ ch'[c].st = "fuori"
               /\ e # "ok" => ch'[c].esito = "no"
               /\ e = "ok" => /\ ch'[c].esito = "ok" /\ ch'[c].disp = ch[c].disp
                              /\ ch'[c].op = ch[c].op /\ ch'[c].buf = b
    <2>1. ch'[c] = Reso(c, e, b)
      BY <1>4, TornaSolo
    <2>2. \A x \in Chiamanti : x # c =>
                 \/ ch'[x] = ch[x]
                 \/ ch[x].st = "in fila" /\ ch'[x] = [ch[x] EXCEPT !.st = "prendi"]
      BY <1>4, TornaSolo
    <2>3. ASSUME NEW x \in Chiamanti, x # c
          PROVE  /\ ch'[x].posto = ch[x].posto /\ ch'[x].disp = ch[x].disp /\ ch'[x].op = ch[x].op
                 /\ ch'[x].esito = ch[x].esito /\ ch'[x].buf = ch[x].buf
                 /\ ch'[x].st = ch[x].st \/ (ch[x].st = "in fila" /\ ch'[x].st = "prendi")
      <3>1. PICK r \in Chiamate : r = ch[x]
        BY DEF TypeOK
      <3>2. ch'[x] = r \/ (r.st = "in fila" /\ ch'[x] = [r EXCEPT !.st = "prendi"])
        BY <2>2, <2>3, <3>1
      <3> QED  BY <3>1, <3>2 DEF Chiamate
    <2>4. Altri(c)
      BY <2>3 DEF Altri
    <2>5. CASE e # "ok"
      BY <2>1, <2>4, <2>5 DEF Reso, Riposo
    <2>6. CASE e = "ok"
      BY <2>1, <2>4, <2>6 DEF Reso, Riposo
    <2> QED  BY <2>5, <2>6
  <1>5. CASE g_r3[i].stato = "SERVITA"
    <2>1. CASE g_r3[i].esito = "ok" /\ ch[c].giri + 1 < QuantiGiri(ch[c].op)
      <3>1. ch' = [ch EXCEPT ![c].st = "entra", ![c].giri = @ + 1]
        BY <1>5, <2>1 DEF Aspetta
      <3>2. /\ ch'[c].st = "entra" /\ ch'[c].posto = ch[c].posto /\ ch'[c].disp = ch[c].disp
            /\ ch'[c].op = ch[c].op /\ ch'[c].esito = ch[c].esito
        BY <3>1 DEF TypeOK, Chiamate
      <3>3. Altri(c)
        BY <3>1 DEF Altri, TypeOK
      <3> QED  BY <1>1, <1>3, <1>5, <2>1, <3>2, <3>3
    <2>2. CASE ~(g_r3[i].esito = "ok" /\ ch[c].giri + 1 < QuantiGiri(ch[c].op))
      <3>1. Torna(c, g_r3[i].esito, IF g_r3[i].esito = "ok" /\ ch[c].op = "LEGGI"
                                    THEN g_r3[i].dati ELSE Nessuno)
        BY <1>5, <2>2, Zenon DEF Aspetta
      <3>2. PICK b \in Contenuti : /\ Torna(c, g_r3[i].esito, b)
                                   /\ g_r3[i].esito = "ok" /\ ch[c].op = "LEGGI" => b = g_r3[i].dati
        BY <3>1, <1>n
      <3> QED  BY <1>1, <1>3, <1>4, <1>5, <3>2
    <2> QED  BY <2>1, <2>2
  <1>6. CASE g_r3[i].stato # "SERVITA"
    <2>1. g_r3[i].usato /\ Scaduto(c)
      BY <1>6 DEF Finisce
    <2>2. Torna(c, "EIO", Nessuno)
      BY <1>6, <2>1, Zenon DEF Aspetta
    <2> QED  BY <1>n, <1>1, <1>3, <1>4, <2>1, <2>2
  <1> QED  BY <1>5, <1>6

\* Aspetta keeps the first layer.
LEMMA AspettaInv1 ==
    ASSUME Inv1, NEW c \in Chiamanti, Aspetta(c), Finisce(c), TypeOK'
    PROVE  Inv1'
  <1> DEFINE i == ch[c].posto
  <1>t. TypeOK /\ Puntati
    BY DEF Inv1
  <1>e. /\ i \in Posti /\ ch[c].st = "aspetta" /\ SoloPosto(i) /\ g_r3'[i].stato = "LIBERA"
        /\ Altri(c) /\ UNCHANGED <<g_dorme, offerte, sv, scritti>>
        /\ ch'[c].st = "fuori" \/ (ch'[c].st = "entra" /\ ch'[c].posto = i)
    BY <1>t, EffettoAspetta
  <1>1. DormeRegistrato'
    BY <1>e DEF Inv1, DormeRegistrato, Suoi, SoloPosto
  <1>2. Dispositivi'
    <2>1. \A j \in Posti : g_r3'[j].usato = g_r3[j].usato /\ g_r3'[j].pid = g_r3[j].pid
                           /\ g_r3'[j].disp = g_r3[j].disp
      BY <1>e DEF SoloPosto
    <2> QED  BY <1>e, <2>1 DEF Inv1, Dispositivi
  <1>3. Puntati'
    <2>1. ASSUME NEW x \in Chiamanti, InGiro(x)'
          PROVE  ch'[x].posto \in Posti
      <3>1. CASE x = c
        BY <1>e, <2>1, <3>1 DEF InGiro
      <3>2. CASE x # c
        BY <1>t, <1>e, <2>1, <3>2 DEF Puntati, InGiro, Altri
      <3> QED  BY <3>1, <3>2
    <2> QED  BY <1>t, <1>e, <2>1 DEF Puntati
  <1> QED  BY <1>1, <1>2, <1>3 DEF Inv1

\* Aspetta keeps the second layer: the slot it frees was its own.
LEMMA AspettaInv2 ==
    ASSUME Inv1, Inv2, NEW c \in Chiamanti, Aspetta(c), Finisce(c)
    PROVE  Inv2'
  <1> DEFINE i == ch[c].posto
  <1>t. TypeOK /\ Puntati
    BY DEF Inv1
  <1>e. /\ i \in Posti /\ ch[c].st = "aspetta" /\ SoloPosto(i) /\ g_r3'[i].stato = "LIBERA"
        /\ g_r3'[i].esito = "EIO" /\ Altri(c) /\ UNCHANGED <<g_dorme, offerte, sv, scritti>>
        /\ \/ ch'[c].st = "fuori"
           \/ ch'[c].st = "entra" /\ ch'[c].posto = i /\ ch'[c].disp = ch[c].disp
    BY <1>t, EffettoAspetta
  <1>1. Puntatori'
    <2> SUFFICES ASSUME NEW x \in Chiamanti, InGiro(x)'
                 PROVE  g_r3'[ch'[x].posto].disp = ch'[x].disp
      BY DEF Puntatori
    <2>1. InGiro(x) /\ ch'[x].posto = ch[x].posto /\ ch'[x].disp = ch[x].disp
      <3>1. CASE x = c
        BY <1>e, <3>1 DEF InGiro
      <3>2. CASE x # c
        BY <1>e, <3>2 DEF InGiro, Altri
      <3> QED  BY <3>1, <3>2
    <2>2. ch[x].posto \in Posti /\ g_r3[ch[x].posto].disp = ch[x].disp
      BY <2>1 DEF Inv1, Puntati, Inv2, Puntatori
    <2> QED  BY <1>e, <2>1, <2>2 DEF SoloPosto
  <1>2. CasellaDiUno'
    <2> SUFFICES ASSUME NEW x \in Chiamanti, ch'[x].st = "aspetta", g_r3'[ch'[x].posto].usato
                 PROVE  g_r3'[ch'[x].posto].pid_chiamante = x /\ g_r3'[ch'[x].posto].stato # "LIBERA"
      BY DEF CasellaDiUno
    <2>1. x # c
      BY <1>e
    <2>2. ch[x].st = "aspetta" /\ ch'[x].posto = ch[x].posto /\ ch[x].posto \in Posti
      BY <1>t, <1>e, <2>1 DEF Altri, Puntati, InGiro
    <2>3. g_r3[ch[x].posto].usato
      BY <1>e, <2>2 DEF SoloPosto
    <2>4. ch[x].posto # i
      BY <1>e, <2>1, <2>2, <2>3 DEF Inv2, CasellaDiUno
    <2> QED  BY <1>e, <2>2, <2>3, <2>4 DEF Inv2, CasellaDiUno, SoloPosto
  <1>3. RichiestaDiUno'
    <2> SUFFICES ASSUME NEW j \in Posti, g_r3'[j].usato, g_r3'[j].stato # "LIBERA"
                 PROVE  RichiestaDiUno!(j)!2'
      BY DEF RichiestaDiUno
    <2>1. j # i /\ g_r3'[j] = g_r3[j]
      BY <1>e DEF SoloPosto
    <2>2. PICK x \in Chiamanti : /\ x = g_r3[j].pid_chiamante
                                 /\ \/ ch[x].st = "morto"
                                    \/ ch[x].st = "aspetta" /\ ch[x].posto = j /\ ch[x].op = g_r3[j].op
      BY <2>1 DEF Inv2, RichiestaDiUno
    <2>3. x # c
      BY <1>e, <2>1, <2>2
    <2>4. ch'[x].st = ch[x].st /\ ch'[x].posto = ch[x].posto /\ ch'[x].op = ch[x].op
      BY <1>e, <2>2, <2>3 DEF Altri
    <2> QED  BY <2>1, <2>2, <2>4
  <1>4. Spenti'
    BY <1>e DEF Inv2, Spenti, SoloPosto
  <1>5. InCorso'
    <2> SUFFICES ASSUME NEW j \in Posti, g_r3'[j].usato, g_r3'[j].stato = "IN_CORSO"
                 PROVE  InCorso!(j)!2'
      BY DEF InCorso
    <2>1. g_r3'[j] = g_r3[j]
      BY <1>e DEF SoloPosto
    <2> QED  BY <1>e, <2>1 DEF Inv2, InCorso, InMano, Morto
  <1> QED  BY <1>1, <1>2, <1>3, <1>4, <1>5 DEF Inv2

\* Aspetta keeps the third layer: what a caller takes home is the answer to its
\* own request.  A driver may be copying in the slot it frees.
LEMMA AspettaInv3 ==
    ASSUME Inv1, Inv2, Inv3, NEW c \in Chiamanti, Aspetta(c), Finisce(c)
    PROVE  Inv3'
  <1> DEFINE i == ch[c].posto
  <1>t. TypeOK /\ Puntati
    BY DEF Inv1
  <1>e. /\ i \in Posti /\ ch[c].st = "aspetta" /\ SoloPosto(i) /\ g_r3'[i].stato = "LIBERA"
        /\ Altri(c) /\ UNCHANGED <<g_dorme, offerte, sv, scritti>>
    BY <1>t, EffettoAspetta
  <1>1. Copie'
    <2> SUFFICES ASSUME NEW s \in Serventi, sv[s].st \in {"copia fuori", "copia dentro"}
                 PROVE  /\ g_r3'[sv[s].posto].pid = s /\ g_r3'[sv[s].posto].disp = sv[s].disp
                        /\ g_r3'[sv[s].posto].usato => g_r3'[sv[s].posto].stato # "SERVITA"
      BY <1>e DEF Copie, Inv3
    <2>1. sv[s].posto \in Posti
      BY <1>t DEF Puntati
    <2>2. CASE sv[s].posto # i
      <3>1. g_r3'[sv[s].posto] = g_r3[sv[s].posto]
        BY <1>e, <2>1, <2>2 DEF SoloPosto
      <3> QED  BY <3>1 DEF Inv3, Copie
    <2>3. CASE sv[s].posto = i
      <3>1. g_r3'[i].disp = g_r3[i].disp /\ g_r3'[i].pid = g_r3[i].pid
        BY <1>e DEF SoloPosto
      <3> QED  BY <1>e, <2>3, <3>1 DEF Inv3, Copie
    <2> QED  BY <2>2, <2>3
  <1>3. FattoDavvero'
    <2> SUFFICES ASSUME NEW j \in Posti, g_r3'[j].usato, g_r3'[j].stato = "IN_CORSO"
                 PROVE  FattoDavvero!(j)!2'
      BY DEF FattoDavvero
    <2>1. g_r3'[j] = g_r3[j]
      BY <1>e DEF SoloPosto
    <2> QED  BY <1>e, <2>1 DEF Inv3, FattoDavvero, Scritto
  <1>4. Serviti'
    <2> SUFFICES ASSUME NEW j \in Posti, g_r3'[j].stato = "SERVITA"  PROVE Serviti!(j)'
      BY DEF Serviti
    <2>1. g_r3'[j] = g_r3[j]
      BY <1>e DEF SoloPosto
    <2> QED  BY <1>e, <2>1 DEF Inv3, Serviti, Scritto
  <1>5. ASSUME NEW x \in Chiamanti, x # c, ch'[x].esito = "ok"
        PROVE  /\ ch[x].esito = "ok" /\ ch'[x].st = "fuori"
               /\ ch'[x].op = ch[x].op /\ ch'[x].disp = ch[x].disp /\ ch'[x].buf = ch[x].buf
    BY <1>e, <1>5 DEF Inv3, EsitoFuori, Altri
  <1>6. ASSUME ch'[c].esito = "ok"
        PROVE  /\ ch'[c].st = "fuori" /\ ch'[c].disp = ch[c].disp /\ ch'[c].op = ch[c].op
               /\ g_r3[i].stato = "SERVITA" /\ g_r3[i].esito = "ok"
               /\ ch[c].op = "LEGGI" => ch'[c].buf = g_r3[i].dati
    <2>1. ch[c].esito # "ok"
      BY <1>e DEF Inv3, EsitoFuori
    <2> QED  BY <1>6, <1>t, <2>1, EffettoAspetta
  <1>7. EsitoFuori'
    BY <1>5, <1>6 DEF EsitoFuori
  <1>8. RispostaSua'
    <2> SUFFICES ASSUME NEW x \in Chiamanti, ch'[x].esito = "ok"
                 PROVE  RispostaSua!(x)!2'
      BY DEF RispostaSua
    <2>1. CASE x # c
      BY <1>e, <1>5, <2>1 DEF Inv3, RispostaSua, Scritto
    <2>2. CASE x = c
      <3>1. g_r3[i].usato
        BY <1>e, <1>6, <2>2 DEF Inv2, Spenti
      <3>2. g_r3[i].pid_chiamante = c /\ g_r3[i].op = ch[c].op /\ g_r3[i].disp = ch[c].disp
        <4>1. g_r3[i].pid_chiamante = c /\ g_r3[i].disp = ch[c].disp
          BY <1>e, <3>1 DEF Inv2, CasellaDiUno, Puntatori, InGiro
        <4> QED  BY <1>e, <1>6, <2>2, <3>1, <4>1 DEF Inv2, RichiestaDiUno
      <3> QED  BY <1>e, <1>6, <2>2, <3>1, <3>2 DEF Inv3, Serviti, Scritto
    <2> QED  BY <2>1, <2>2
  <1> QED  BY <1>1, <1>3, <1>4, <1>7, <1>8 DEF Inv3

-----------------------------------------------------------------------------
(* The steps of a driver that leave the slots and the callers alone.       *)

SoloGuida(s) == \A t \in Serventi : t # s => sv'[t] = sv[t]

\* A driver with nothing in hand has no request under way.
LEMMA NienteInMano ==
    ASSUME InCorso, NEW s \in Serventi, sv[s].st \in {"libero", "dorme"}, NEW j \in Suoi(s)
    PROVE  g_r3[j].stato # "IN_CORSO"
  BY DEF InCorso, Suoi, InMano, Morto

\* A driver that lives has at most one request under way.
LEMMA UnaInCorso ==
    ASSUME Dispositivi, InCorso, NEW s \in Serventi, ~Morto(s),
           NEW i \in Suoi(s), g_r3[i].stato = "IN_CORSO",
           NEW j \in Suoi(s), g_r3[j].stato = "IN_CORSO"
    PROVE  i = j
  <1>1. g_r3[i].disp = sv[s].disp /\ g_r3[j].disp = sv[s].disp
    BY DEF InCorso, Suoi
  <1> QED  BY <1>1 DEF Dispositivi, Suoi

\* The first layer.
LEMMA GuidaInv1 ==
    ASSUME Inv1, TypeOK', NEW s \in Serventi, SoloGuida(s), UNCHANGED <<g_r3, ch, offerte>>,
           \A j \in Posti : j \notin Suoi(s) => g_dorme'[j] = g_dorme[j],
           sv'[s].st = "dorme" => \A j \in Suoi(s) : g_dorme'[j] = s /\ g_r3[j].stato # "PRONTA",
           sv'[s].st \in {"copia fuori", "copia dentro"} => sv'[s].posto \in Posti
    PROVE  Inv1'
  <1>1. DormeRegistrato'
    <2> SUFFICES ASSUME NEW t \in Serventi, sv'[t].st = "dorme", NEW j \in Posti,
                        g_r3[j].usato, g_r3[j].pid = t
                 PROVE  g_dorme'[j] = t /\ g_r3[j].stato # "PRONTA"
      BY DEF DormeRegistrato, Suoi
    <2>1. CASE t = s
      BY <2>1 DEF Suoi
    <2>2. CASE t # s
      BY <2>2 DEF Suoi, SoloGuida, Inv1, DormeRegistrato
    <2> QED  BY <2>1, <2>2
  <1>2. Dispositivi'
    BY DEF Inv1, Dispositivi
  <1>3. Puntati'
    BY DEF Inv1, Puntati, SoloGuida, InGiro
  <1> QED  BY <1>1, <1>2, <1>3 DEF Inv1

\* The request in hand stays in hand, or there is none, or the driver is dead.
PassoMano(s) ==
    \/ /\ InMano(s)' /\ sv'[s].disp = sv[s].disp /\ sv'[s].op = sv[s].op /\ sv'[s].lba = sv[s].lba
       /\ ~Morto(s)
    \/ Morto(s)'
    \/ \A j \in Suoi(s) : g_r3[j].stato # "IN_CORSO"

\* The second layer.
LEMMA GuidaInv2 ==
    ASSUME Inv1, Inv2, NEW s \in Serventi, SoloGuida(s), UNCHANGED <<g_r3, ch>>, PassoMano(s)
    PROVE  Inv2'
  <1>1. Puntatori' /\ CasellaDiUno' /\ RichiestaDiUno' /\ Spenti'
    BY DEF Inv2, Puntatori, CasellaDiUno, RichiestaDiUno, Spenti, InGiro
  <1>2. InCorso'
    <2> SUFFICES ASSUME NEW j \in Posti, g_r3[j].usato, g_r3[j].stato = "IN_CORSO"
                 PROVE  InCorso!(j)!2'
      BY DEF InCorso
    <2>1. g_r3[j].pid \in Serventi
      BY DEF Inv1, Dispositivi
    <2>2. CASE g_r3[j].pid # s
      <3>1. sv'[g_r3[j].pid] = sv[g_r3[j].pid]
        BY <2>1, <2>2 DEF SoloGuida
      <3> QED  BY <3>1 DEF Inv2, InCorso, InMano, Morto
    <2>3. CASE g_r3[j].pid = s
      <3>1. j \in Suoi(s)
        BY <2>3 DEF Suoi
      <3> QED  BY <2>3, <3>1 DEF PassoMano, Inv2, InCorso, Morto, InMano
    <2> QED  BY <2>2, <2>3
  <1> QED  BY <1>1, <1>2 DEF Inv2

\* The third layer.
LEMMA GuidaInv3 ==
    ASSUME Inv1, Inv3, NEW s \in Serventi, SoloGuida(s), UNCHANGED <<g_r3, ch>>,
           \A g, x : Scritto(g, x) => Scritto(g, x)', Copie!(s)',
           \A j \in Suoi(s) : g_r3[j].stato = "IN_CORSO" => FattoDavvero!(j)!2'
    PROVE  Inv3'
  <1>1. Copie'
    <2> SUFFICES ASSUME NEW t \in Serventi, t # s  PROVE Copie!(t)'
      BY DEF Copie
    <2>1. sv'[t] = sv[t] /\ g_r3' = g_r3
      BY DEF SoloGuida
    <2>2. Copie!(t)
      BY Zenon DEF Inv3, Copie
    <2> QED  BY <2>1, <2>2, Zenon
  <1>3. FattoDavvero'
    <2> SUFFICES ASSUME NEW j \in Posti, g_r3[j].usato, g_r3[j].stato = "IN_CORSO", g_r3[j].pid # s
                 PROVE  FattoDavvero!(j)!2'
      BY DEF FattoDavvero, Suoi
    <2>1. sv'[g_r3[j].pid] = sv[g_r3[j].pid]
      BY DEF Inv1, Dispositivi, SoloGuida
    <2> QED  BY <2>1 DEF Inv3, FattoDavvero
  <1>4. Serviti'
    BY DEF Inv3, Serviti
  <1>5. EsitoFuori' /\ RispostaSua'
    BY DEF Inv3, EsitoFuori, RispostaSua
  <1> QED  BY <1>1, <1>3, <1>4, <1>5 DEF Inv3

\* A driver that goes to sleep, wakes or dies has no request in hand, or not any
\* more.
LEMMA GuidaOziosa ==
    ASSUME Inv1, TypeOK', NEW s \in Serventi,
           \/ blkr3_attendi(s) /\ cerca_per_pid(s, "PRONTA") = 0
           \/ Destato(s) \/ Muore(s)
    PROVE  Inv1' /\ (Inv2 => Inv2') /\ (Inv2 /\ Inv3 => Inv3')
  <1>t. sv[s] \in Guide /\ sv \in [Serventi -> Guide] /\ g_dorme \in [Posti -> Serventi \cup {Nessuno}]
    BY DEF Inv1, TypeOK
  <1>e. /\ UNCHANGED <<g_r3, ch, offerte, scritti>> /\ SoloGuida(s)
        /\ \A j \in Posti : j \notin Suoi(s) => g_dorme'[j] = g_dorme[j]
        /\ sv'[s].st \in {"dorme", "libero", "zombie"}
        /\ sv'[s].st = "dorme" => \A j \in Suoi(s) : g_dorme'[j] = s /\ g_r3[j].stato # "PRONTA"
        /\ sv[s].st \in {"libero", "dorme"} \/ Morto(s)'
    <2>1. CASE blkr3_attendi(s) /\ cerca_per_pid(s, "PRONTA") = 0
      <3>1. /\ g_dorme' = [j \in Posti |-> IF j \in Suoi(s) THEN s ELSE g_dorme[j]]
            /\ sv' = [sv EXCEPT ![s].st = "dorme"]
            /\ UNCHANGED <<g_r3, ch, offerte, scritti>> /\ sv[s].st = "libero"
        BY <2>1 DEF blkr3_attendi
      <3>2. \A j \in Suoi(s) : g_r3[j].stato # "PRONTA"
        BY <2>1, CercaTrova
      <3>3. sv'[s].st = "dorme" /\ SoloGuida(s)
        BY <1>t, <3>1 DEF Guide, SoloGuida
      <3>4. \A j \in Posti : g_dorme'[j] = IF j \in Suoi(s) THEN s ELSE g_dorme[j]
        BY <3>1
      <3>5. \A j \in Suoi(s) : j \in Posti
        BY DEF Suoi
      <3> QED  BY <3>1, <3>2, <3>3, <3>4, <3>5
    <2>2. CASE Destato(s)
      <3>1. /\ g_dorme' = [j \in Posti |-> IF j \in Suoi(s) THEN Nessuno ELSE g_dorme[j]]
            /\ sv' = [sv EXCEPT ![s].st = "libero"]
            /\ UNCHANGED <<g_r3, ch, offerte, scritti>> /\ sv[s].st = "dorme"
        BY <2>2 DEF Destato
      <3>2. sv'[s].st = "libero" /\ SoloGuida(s)
        BY <1>t, <3>1 DEF Guide, SoloGuida
      <3> QED  BY <3>1, <3>2
    <2>3. CASE Muore(s)
      <3>1. sv' = [sv EXCEPT ![s] = Ozio("zombie")] /\ UNCHANGED <<g_r3, ch, offerte, scritti, g_dorme>>
        BY <2>3 DEF Muore
      <3>2. sv'[s].st = "zombie" /\ SoloGuida(s)
        BY <1>t, <3>1 DEF Ozio, SoloGuida
      <3> QED  BY <3>1, <3>2 DEF Morto
    <2> QED  BY <2>1, <2>2, <2>3
  <1>1. Inv1'
    BY <1>e, GuidaInv1
  <1>2. ASSUME Inv2 PROVE Inv2'
    <2>1. PassoMano(s)
      BY <1>2, <1>e, NienteInMano DEF PassoMano, Inv2
    <2> QED  BY <1>2, <1>e, <2>1, GuidaInv2
  <1>3. ASSUME Inv2, Inv3 PROVE Inv3'
    <2>1. Copie!(s)'
      BY <1>e
    <2>2. \A j \in Suoi(s) : g_r3[j].stato = "IN_CORSO" => FattoDavvero!(j)!2'
      <3>1. \A j \in Suoi(s) : g_r3[j].pid = s
        BY DEF Suoi
      <3>2. sv'[s].st \notin {"lavora", "risponde", "copia dentro", "rende"}
        BY <1>e
      <3> QED  BY <1>e, <3>1, <3>2
    <2> QED  BY <1>3, <1>e, <2>1, <2>2, GuidaInv3 DEF Scritto
  <1> QED  BY <1>1, <1>2, <1>3

\* sys_blk_attendi, a write: the driver is given the buffer of the request it has
\* in hand, and the data in it are that caller's.
LEMMA GuidaPrendiDati ==
    ASSUME Inv1, TypeOK', NEW s \in Serventi, PrendiDati(s)
    PROVE  Inv1' /\ (Inv2 => Inv2') /\ (Inv2 /\ Inv3 => Inv3')
  <1> DEFINE i == blkr3_dati(s)
  <1>t. sv[s] \in Guide /\ sv \in [Serventi -> Guide]
    BY DEF Inv1, TypeOK
  <1>c. /\ i # 0 => i \in Posti /\ i \in Suoi(s) /\ g_r3[i].usato /\ g_r3[i].pid = s
                    /\ g_r3[i].stato = "IN_CORSO"
        /\ i = 0 => \A j \in Suoi(s) : g_r3[j].stato # "IN_CORSO"
    BY CercaTrova DEF blkr3_dati, Suoi
  <1>e. UNCHANGED <<g_r3, ch, offerte, scritti, g_dorme>> /\ sv[s].st = "prende"
    BY DEF PrendiDati
  <1>s. sv' = [sv EXCEPT ![s] = IF i = 0 THEN Ozio("libero")
                                ELSE [sv[s] EXCEPT !.st = "copia fuori", !.posto = i]]
    BY DEF PrendiDati
  <1>g. SoloGuida(s)
    BY <1>t, <1>s DEF SoloGuida
  <1>f. /\ i = 0 => sv'[s].st = "libero"
        /\ i # 0 => /\ sv'[s].st = "copia fuori" /\ sv'[s].posto = i /\ sv'[s].disp = sv[s].disp
                    /\ sv'[s].op = sv[s].op /\ sv'[s].lba = sv[s].lba
    <2>1. CASE i = 0
      BY <1>t, <1>s, <2>1 DEF Ozio
    <2>2. CASE i # 0
      BY <1>t, <1>s, <2>2 DEF Guide
    <2> QED  BY <2>1, <2>2
  <1>1. Inv1'
    BY <1>c, <1>e, <1>f, <1>g, GuidaInv1
  <1>2. ASSUME Inv2 PROVE Inv2'
    <2>1. PassoMano(s)
      BY <1>c, <1>e, <1>f DEF PassoMano, InMano, Morto
    <2> QED  BY <1>2, <1>e, <1>g, <2>1, GuidaInv2
  <1>m. ASSUME Inv2, i # 0
        PROVE  g_r3[i].disp = sv[s].disp /\ g_r3[i].op = sv[s].op /\ g_r3[i].pid_chiamante = sv[s].lba
    BY <1>m, <1>c, <1>e DEF Inv2, InCorso, Morto
  <1>3. ASSUME Inv2, Inv3 PROVE Inv3'
    <2>1. Copie!(s)'
      <3>1. CASE i = 0
        BY <1>f, <3>1
      <3>2. CASE i # 0
        BY <1>3, <1>c, <1>e, <1>f, <1>m, <3>2 DEF Inv3, Copie
      <3> QED  BY <3>1, <3>2
    <2>2. \A j \in Suoi(s) : g_r3[j].stato = "IN_CORSO" => FattoDavvero!(j)!2'
      <3>1. \A j \in Suoi(s) : g_r3[j].pid = s
        BY DEF Suoi
      <3>2. sv'[s].st \notin {"lavora", "risponde", "copia dentro", "rende"}
        BY <1>f
      <3> QED  BY <1>e, <3>1, <3>2
    <2> QED  BY <1>3, <1>e, <1>g, <2>1, <2>2, GuidaInv3 DEF Scritto
  <1> QED  BY <1>1, <1>2, <1>3

\* The copy out of the slot gives the driver the data of the request it has in
\* hand.
LEMMA GuidaCopiaFuori ==
    ASSUME Inv1, TypeOK', NEW s \in Serventi, CopiaFuori(s)
    PROVE  Inv1' /\ (Inv2 => Inv2') /\ (Inv2 /\ Inv3 => Inv3')
  <1>t. sv[s] \in Guide /\ sv \in [Serventi -> Guide]
    BY DEF Inv1, TypeOK
  <1>e. UNCHANGED <<g_r3, ch, offerte, scritti, g_dorme>> /\ sv[s].st = "copia fuori"
    BY DEF CopiaFuori
  <1>s. sv' = [sv EXCEPT ![s].buf = g_r3[sv[s].posto].dati, ![s].posto = 0, ![s].st = "lavora"]
    BY DEF CopiaFuori
  <1>g. SoloGuida(s)
    BY <1>t, <1>s DEF SoloGuida
  <1>f. /\ sv'[s].st = "lavora" /\ sv'[s].disp = sv[s].disp /\ sv'[s].op = sv[s].op
        /\ sv'[s].lba = sv[s].lba /\ sv'[s].buf = g_r3[sv[s].posto].dati
    BY <1>t, <1>s DEF Guide
  <1>p. sv[s].posto \in Posti
    BY <1>e DEF Inv1, Puntati
  <1>1. Inv1'
    BY <1>e, <1>f, <1>g, GuidaInv1
  <1>2. ASSUME Inv2 PROVE Inv2'
    <2>1. PassoMano(s)
      BY <1>e, <1>f DEF PassoMano, InMano, Morto
    <2> QED  BY <1>2, <1>e, <1>g, <2>1, GuidaInv2
  <1>3. ASSUME Inv2, Inv3 PROVE Inv3'
    <2>1. Copie!(s)'
      BY <1>f
    <2>2. ASSUME NEW j \in Suoi(s), g_r3[j].stato = "IN_CORSO"
          PROVE  FattoDavvero!(j)!2'
      <3>1. j \in Posti /\ g_r3[j].usato /\ g_r3[j].pid = s
        BY DEF Suoi
      <3> QED  BY <1>e, <1>f, <3>1
    <2> QED  BY <1>3, <1>e, <1>g, <2>1, <2>2, GuidaInv3 DEF Scritto
  <1> QED  BY <1>1, <1>2, <1>3

\* The driver works on its disk: what it says it wrote, it wrote.
LEMMA GuidaLavora ==
    ASSUME Inv1, TypeOK', NEW s \in Serventi, Lavora(s)
    PROVE  Inv1' /\ (Inv2 => Inv2') /\ (Inv2 /\ Inv3 => Inv3')
  <1>t. sv[s] \in Guide /\ sv \in [Serventi -> Guide]
    BY DEF Inv1, TypeOK
  <1>e. UNCHANGED <<g_r3, ch, offerte, g_dorme>> /\ sv[s].st = "lavora"
    BY DEF Lavora
  <1>s. PICK esito \in {"ok", "EIO"} :
          /\ sv' = [sv EXCEPT ![s].st = "risponde", ![s].esito = esito,
                     ![s].buf = IF sv[s].op = "LEGGI" /\ esito = "ok"
                                THEN <<"letto", sv[s].disp, sv[s].lba>> ELSE Nessuno]
          /\ scritti' = IF sv[s].op = "SCRIVI" /\ esito = "ok"
                        THEN {w \in scritti : w[1] # sv[s].disp \/ w[2] # sv[s].lba}
                             \cup {<<sv[s].disp, sv[s].lba, sv[s].buf>>}
                        ELSE scritti
    BY DEF Lavora
  <1>g. SoloGuida(s)
    BY <1>t, <1>s DEF SoloGuida
  <1>f. /\ sv'[s].st = "risponde" /\ sv'[s].disp = sv[s].disp /\ sv'[s].op = sv[s].op
        /\ sv'[s].lba = sv[s].lba /\ sv'[s].esito = esito
        /\ sv[s].op = "LEGGI" /\ esito = "ok" => sv'[s].buf = <<"letto", sv[s].disp, sv[s].lba>>
    <2>1. PICK b : b = IF sv[s].op = "LEGGI" /\ esito = "ok"
                       THEN <<"letto", sv[s].disp, sv[s].lba>> ELSE Nessuno
      OBVIOUS
    <2>2. sv' = [sv EXCEPT ![s].st = "risponde", ![s].esito = esito, ![s].buf = b]
      BY <1>s, <1>t, <2>1
    <2>3. /\ sv'[s].st = "risponde" /\ sv'[s].disp = sv[s].disp /\ sv'[s].op = sv[s].op
          /\ sv'[s].lba = sv[s].lba /\ sv'[s].esito = esito /\ sv'[s].buf = b
      BY <1>t, <2>2 DEF Guide
    <2> QED  BY <2>1, <2>3
  <1>w. /\ sv[s].op = "SCRIVI" /\ esito = "ok" =>
              \E w \in scritti' : w[1] = sv[s].disp /\ w[2] = sv[s].lba
        /\ \A g, x : Scritto(g, x) => Scritto(g, x)'
    <2>1. CASE sv[s].op = "SCRIVI" /\ esito = "ok"
      <3> DEFINE n == <<sv[s].disp, sv[s].lba, sv[s].buf>>
      <3>1. n \in scritti' /\ n[1] = sv[s].disp /\ n[2] = sv[s].lba
        BY <1>s, <2>1
      <3>2. \A w \in scritti : w \in scritti' \/ (w[1] = n[1] /\ w[2] = n[2])
        BY <1>s, <2>1
      <3>3. ASSUME NEW g, NEW x, Scritto(g, x)  PROVE Scritto(g, x)'
        <4>1. PICK w \in scritti : w[1] = g /\ w[2] = x
          BY <3>3 DEF Scritto
        <4>2. CASE w \in scritti'
          BY <4>1, <4>2 DEF Scritto
        <4>3. CASE w[1] = n[1] /\ w[2] = n[2]
          <5> HIDE DEF n
          <5> QED  BY <3>1, <4>1, <4>3 DEF Scritto
        <4> QED  BY <3>2, <4>2, <4>3
      <3> QED  BY <2>1, <3>1, <3>3
    <2>2. CASE ~(sv[s].op = "SCRIVI" /\ esito = "ok")
      BY <1>s, <2>2 DEF Scritto
    <2> QED  BY <2>1, <2>2
  <1>1. Inv1'
    BY <1>e, <1>f, <1>g, GuidaInv1
  <1>2. ASSUME Inv2 PROVE Inv2'
    <2>1. PassoMano(s)
      BY <1>e, <1>f DEF PassoMano, InMano, Morto
    <2> QED  BY <1>2, <1>e, <1>g, <2>1, GuidaInv2
  <1>3. ASSUME Inv2, Inv3 PROVE Inv3'
    <2>1. Copie!(s)'
      BY <1>f
    <2>2. ASSUME NEW j \in Suoi(s), g_r3[j].stato = "IN_CORSO"
          PROVE  FattoDavvero!(j)!2'
      <3>1. j \in Posti /\ g_r3[j].usato /\ g_r3[j].pid = s
        BY DEF Suoi
      <3>2. g_r3[j].pid_chiamante = sv[s].lba
        BY <1>3, <1>e, <2>2, <3>1 DEF Inv2, InCorso, Morto
      <3>3. sv[s].op = "SCRIVI" /\ esito = "ok" =>
              \E w \in scritti' : w[1] = sv'[s].disp /\ w[2] = g_r3'[j].pid_chiamante
        BY <1>e, <1>f, <1>w, <3>2
      <3> QED  BY <1>e, <1>f, <3>1, <3>2, <3>3 DEF Scritto
    <2> QED  BY <1>3, <1>e, <1>g, <1>w, <2>1, <2>2, GuidaInv3
  <1> QED  BY <1>1, <1>2, <1>3

\* sys_blk_risposta asks where the sectors go: the slot of the request in hand.
LEMMA GuidaDaiDati ==
    ASSUME Inv1, TypeOK', NEW s \in Serventi, DaiDati(s)
    PROVE  Inv1' /\ (Inv2 => Inv2') /\ (Inv2 /\ Inv3 => Inv3')
  <1> DEFINE i == blkr3_dati(s)
             legge == sv[s].esito = "ok" /\ i # 0 /\ \E j \in Posti : j = i /\ g_r3[j].op = "LEGGI"
  <1>t. sv[s] \in Guide /\ sv \in [Serventi -> Guide]
    BY DEF Inv1, TypeOK
  <1>c. /\ i # 0 => i \in Posti /\ i \in Suoi(s) /\ g_r3[i].usato /\ g_r3[i].pid = s
                    /\ g_r3[i].stato = "IN_CORSO"
        /\ i = 0 => \A j \in Suoi(s) : g_r3[j].stato # "IN_CORSO"
    BY CercaTrova DEF blkr3_dati, Suoi
  <1>e. UNCHANGED <<g_r3, ch, offerte, scritti, g_dorme>> /\ sv[s].st = "risponde"
    BY DEF DaiDati
  <1>s. PICK st : /\ sv' = [sv EXCEPT ![s].posto = i, ![s].st = st]
                  /\ st = IF legge THEN "copia dentro" ELSE "rende"
    BY DEF DaiDati
  <1>g. SoloGuida(s)
    BY <1>t, <1>s DEF SoloGuida
  <1>f. /\ sv'[s].st = st /\ sv'[s].posto = i /\ sv'[s].disp = sv[s].disp
        /\ sv'[s].op = sv[s].op /\ sv'[s].lba = sv[s].lba
        /\ sv'[s].esito = sv[s].esito /\ sv'[s].buf = sv[s].buf
    BY <1>t, <1>s DEF Guide
  <1>l. /\ st \in {"copia dentro", "rende"}
        /\ st = "copia dentro" => sv[s].esito = "ok" /\ i # 0 /\ g_r3[i].op = "LEGGI"
        /\ st = "rende" /\ i # 0 /\ sv[s].esito = "ok" => g_r3[i].op # "LEGGI"
    BY <1>s, <1>c
  <1> HIDE DEF legge
  <1>1. Inv1'
    BY <1>c, <1>e, <1>f, <1>g, <1>l, GuidaInv1
  <1>2. ASSUME Inv2 PROVE Inv2'
    <2>1. PassoMano(s)
      BY <1>e, <1>f, <1>l DEF PassoMano, InMano, Morto
    <2> QED  BY <1>2, <1>e, <1>g, <2>1, GuidaInv2
  <1>m. ASSUME Inv2, i # 0
        PROVE  g_r3[i].disp = sv[s].disp /\ g_r3[i].op = sv[s].op /\ g_r3[i].pid_chiamante = sv[s].lba
    BY <1>m, <1>c, <1>e DEF Inv2, InCorso, Morto
  <1>3. ASSUME Inv2, Inv3 PROVE Inv3'
    <2>1. Copie!(s)'
      <3>1. CASE st = "rende"
        BY <1>f, <3>1
      <3>2. CASE st = "copia dentro"
        BY <1>3, <1>c, <1>e, <1>f, <1>l, <1>m, <3>2
      <3> QED  BY <1>l, <3>1, <3>2
    <2>2. ASSUME NEW j \in Suoi(s), g_r3[j].stato = "IN_CORSO"
          PROVE  FattoDavvero!(j)!2'
      <3>1. j \in Posti /\ g_r3[j].usato /\ g_r3[j].pid = s
        BY DEF Suoi
      <3>2. j = i /\ i # 0
        <4>1. i # 0
          BY <1>c, <2>2
        <4>2. ~Morto(s)
          BY <1>e DEF Morto
        <4> QED  BY <1>3, <1>c, <2>2, <4>1, <4>2, UnaInCorso DEF Inv1, Inv2
      <3>3. /\ sv[s].op = "SCRIVI" /\ sv[s].esito = "ok" =>
                 Scritto(sv[s].disp, g_r3[j].pid_chiamante)
            /\ sv[s].op = "LEGGI" /\ sv[s].esito = "ok" =>
                 sv[s].buf = <<"letto", sv[s].disp, g_r3[j].pid_chiamante>>
        BY <1>3, <1>e, <2>2, <3>1 DEF Inv3, FattoDavvero
      <3>4. st = "rende" /\ sv[s].esito = "ok" => sv[s].op # "LEGGI"
        BY <1>3, <1>l, <1>m, <3>2
      <3> QED  BY <1>e, <1>f, <1>l, <3>1, <3>3, <3>4 DEF Scritto
    <2> QED  BY <1>3, <1>e, <1>g, <2>1, <2>2, GuidaInv3 DEF Scritto
  <1> QED  BY <1>1, <1>2, <1>3

-----------------------------------------------------------------------------
(* The steps of a driver that change a slot.                               *)

\* blkr3_offri: a new device in a slot that nobody points to.
LEMMA OffriPasso ==
    ASSUME Inv1, TypeOK', NEW s \in Serventi, blkr3_offri(s)
    PROVE  /\ Inv1'
           /\ "riuso" \notin Eventi =>
                 (Inv2 => Inv2') /\ (Inv2 /\ Inv3 => Inv3')
  <1>t. TypeOK /\ Puntati
    BY DEF Inv1
  <1>1. PICK i \in Posti :
          /\ ~g_r3[i].usato
          /\ \/ "riuso" \in Eventi
             \/ ~InCopia(i) /\ \A c \in Chiamanti : InGiro(c) => ch[c].posto # i
          /\ g_r3' = [g_r3 EXCEPT ![i] = [Vuota(i) EXCEPT !.usato = TRUE, !.pid = s,
                                                          !.disp = offerte + 1]]
          /\ g_dorme' = [g_dorme EXCEPT ![i] = Nessuno]
    BY DEF blkr3_offri
  <1>e. sv[s].st = "libero" /\ offerte' = offerte + 1 /\ UNCHANGED <<ch, sv, scritti>>
    BY DEF blkr3_offri
  <1>2. \A j \in Posti : j # i => g_r3'[j] = g_r3[j] /\ g_dorme'[j] = g_dorme[j]
    BY <1>t, <1>1 DEF TypeOK
  <1>3. /\ g_r3'[i].usato /\ g_r3'[i].pid = s /\ g_r3'[i].disp = offerte + 1
        /\ g_r3'[i].stato = "LIBERA" /\ g_r3'[i].esito = "EIO"
    <2>1. PICK r \in Caselle : r = Vuota(i)
      BY <1>t, VuotaTipo
    <2>2. r.stato = "LIBERA" /\ r.esito = "EIO"
      BY <1>t, <2>1, VuotaCampi
    <2>3. g_r3'[i] = [r EXCEPT !.usato = TRUE, !.pid = s, !.disp = offerte + 1]
      BY <1>t, <1>1, <2>1 DEF TypeOK
    <2> QED  BY <2>1, <2>2, <2>3 DEF Caselle
  <1>4. Inv1'
    <2>1. DormeRegistrato'
      <3> SUFFICES ASSUME NEW t \in Serventi, sv[t].st = "dorme", NEW j \in Posti,
                          g_r3'[j].usato, g_r3'[j].pid = t
                   PROVE  g_dorme'[j] = t /\ g_r3'[j].stato # "PRONTA"
        BY <1>e DEF DormeRegistrato, Suoi
      <3>1. j # i
        BY <1>e, <1>3
      <3> QED  BY <1>2, <3>1 DEF Inv1, DormeRegistrato, Suoi
    <2>2. Dispositivi'
      <3>n. offerte \in Nat /\ \A j \in Posti : g_r3[j].disp \in Nat
        BY <1>t DEF TypeOK, Caselle
      <3>d. \A j \in Posti : g_r3[j].disp <= offerte
        BY DEF Inv1, Dispositivi
      <3>1. \A j \in Posti : g_r3'[j].disp <= offerte'
        BY <1>e, <1>2, <1>3, <3>n, <3>d
      <3>2. \A j \in Posti : g_r3'[j].usato => g_r3'[j].pid \in Serventi /\ 0 < g_r3'[j].disp
        BY <1>2, <1>3, <3>n DEF Inv1, Dispositivi
      <3>3. ASSUME NEW j \in Posti, NEW k \in Posti, g_r3'[j].usato, g_r3'[j].disp = g_r3'[k].disp
            PROVE  j = k
        <4>1. CASE j = i \/ k = i
          BY <1>2, <1>3, <3>n, <3>d, <3>3, <4>1
        <4>2. CASE j # i /\ k # i
          BY <1>2, <3>3, <4>2 DEF Inv1, Dispositivi
        <4> QED  BY <4>1, <4>2
      <3> QED  BY <3>1, <3>2, <3>3 DEF Dispositivi
    <2>3. Puntati'
      BY <1>t, <1>e DEF Puntati, InGiro
    <2> QED  BY <2>1, <2>2, <2>3 DEF Inv1
  <1>5. ASSUME "riuso" \notin Eventi
        PROVE  ~InCopia(i) /\ \A c \in Chiamanti : InGiro(c) => ch[c].posto # i
    BY <1>1, <1>5
  <1>6. ASSUME "riuso" \notin Eventi, Inv2 PROVE Inv2'
    <2>p. \A c \in Chiamanti : InGiro(c) => ch[c].posto \in Posti /\ ch[c].posto # i
      BY <1>t, <1>5, <1>6 DEF Puntati
    <2>1. Puntatori'
      BY <1>e, <1>2, <1>6, <2>p DEF Inv2, Puntatori, InGiro
    <2>2. CasellaDiUno'
      BY <1>e, <1>2, <1>6, <2>p DEF Inv2, CasellaDiUno, InGiro
    <2>3. RichiestaDiUno'
      BY <1>e, <1>2, <1>3, <1>6 DEF Inv2, RichiestaDiUno
    <2>4. Spenti'
      BY <1>2, <1>3, <1>6 DEF Inv2, Spenti
    <2>5. InCorso'
      <3> SUFFICES ASSUME NEW j \in Posti, g_r3'[j].usato, g_r3'[j].stato = "IN_CORSO"
                   PROVE  InCorso!(j)!2'
        BY DEF InCorso
      <3>1. g_r3'[j] = g_r3[j]
        BY <1>2, <1>3
      <3> QED  BY <1>e, <1>6, <3>1 DEF Inv2, InCorso, InMano, Morto
    <2> QED  BY <2>1, <2>2, <2>3, <2>4, <2>5 DEF Inv2
  <1>c. ASSUME "riuso" \notin Eventi, NEW t \in Serventi, sv[t].st \in {"copia fuori", "copia dentro"}
        PROVE  sv[t].posto \in Posti /\ g_r3'[sv[t].posto] = g_r3[sv[t].posto] /\ sv[t].posto # i
    BY <1>c, <1>t, <1>2, <1>5 DEF Puntati, InCopia
  <1>7. ASSUME "riuso" \notin Eventi, Inv2, Inv3 PROVE Inv3'
    <2>1. Copie'
      <3> SUFFICES ASSUME NEW t \in Serventi  PROVE Copie!(t)'
        BY DEF Copie
      <3>1. Copie!(t) /\ sv' = sv
        BY <1>e, <1>7, Zenon DEF Inv3, Copie
      <3> QED  BY <1>c, <1>7, <3>1
    <2>3. FattoDavvero'
      <3> SUFFICES ASSUME NEW j \in Posti, g_r3'[j].usato, g_r3'[j].stato = "IN_CORSO"
                   PROVE  FattoDavvero!(j)!2'
        BY DEF FattoDavvero
      <3>1. g_r3'[j] = g_r3[j]
        BY <1>2, <1>3
      <3> QED  BY <1>e, <1>7, <3>1 DEF Inv3, FattoDavvero, Scritto
    <2>4. Serviti'
      BY <1>e, <1>2, <1>3, <1>7 DEF Inv3, Serviti, Scritto
    <2>5. EsitoFuori' /\ RispostaSua'
      BY <1>e, <1>7 DEF Inv3, EsitoFuori, RispostaSua, Scritto
    <2> QED  BY <2>1, <2>3, <2>4, <2>5 DEF Inv3
  <1> QED  BY <1>4, <1>6, <1>7

\* blkr3_attendi finds a request: it is in this driver's hands, with what it is
\* about.
LEMMA AttendiPasso ==
    ASSUME Inv1, TypeOK', NEW s \in Serventi, blkr3_attendi(s), cerca_per_pid(s, "PRONTA") # 0
    PROVE  Inv1' /\ (Inv2 => Inv2') /\ (Inv2 /\ Inv3 => Inv3')
  <1> DEFINE i == cerca_per_pid(s, "PRONTA")
  <1>t. TypeOK /\ Puntati
    BY DEF Inv1
  <1>1. i \in Posti /\ g_r3[i].usato /\ g_r3[i].pid = s /\ g_r3[i].stato = "PRONTA"
    BY CercaTrova DEF Suoi
  <1>e. sv[s].st = "libero" /\ UNCHANGED <<offerte, ch, scritti>>
    BY DEF blkr3_attendi
  <1>f. /\ g_r3' = [g_r3 EXCEPT ![i].stato = "IN_CORSO"]
        /\ sv' = [sv EXCEPT ![s] =
                    [Ozio(IF g_r3[i].op = "SCRIVI" THEN "prende" ELSE "lavora") EXCEPT
                        !.disp = g_r3[i].disp, !.op = g_r3[i].op, !.lba = g_r3[i].pid_chiamante]]
        /\ g_dorme' = [j \in Posti |-> IF j \in Suoi(s) THEN Nessuno ELSE g_dorme[j]]
    BY DEF blkr3_attendi
  <1>2. /\ \A j \in Posti : j # i => g_r3'[j] = g_r3[j]
        /\ g_r3'[i].usato /\ g_r3'[i].pid = g_r3[i].pid /\ g_r3'[i].disp = g_r3[i].disp
        /\ g_r3'[i].stato = "IN_CORSO" /\ g_r3'[i].op = g_r3[i].op /\ g_r3'[i].esito = g_r3[i].esito
        /\ g_r3'[i].pid_chiamante = g_r3[i].pid_chiamante /\ g_r3'[i].dati = g_r3[i].dati
    BY <1>t, <1>1, <1>f DEF TypeOK, Caselle
  <1>3. /\ SoloGuida(s)
        /\ sv'[s].st = IF g_r3[i].op = "SCRIVI" THEN "prende" ELSE "lavora"
        /\ sv'[s].disp = g_r3[i].disp /\ sv'[s].op = g_r3[i].op /\ sv'[s].lba = g_r3[i].pid_chiamante
    BY <1>t, <1>f DEF TypeOK, Ozio, SoloGuida
  <1>4. Inv1'
    <2>1. DormeRegistrato'
      <3> SUFFICES ASSUME NEW t \in Serventi, sv'[t].st = "dorme", NEW j \in Posti,
                          g_r3'[j].usato, g_r3'[j].pid = t
                   PROVE  g_dorme'[j] = t /\ g_r3'[j].stato # "PRONTA"
        BY DEF DormeRegistrato, Suoi
      <3>1. t # s
        BY <1>3
      <3>2. sv[t].st = "dorme" /\ j # i /\ g_r3'[j] = g_r3[j]
        BY <1>1, <1>2, <1>3, <3>1 DEF SoloGuida
      <3>3. j \notin Suoi(s)
        BY <3>1, <3>2 DEF Suoi
      <3>4. g_dorme'[j] = g_dorme[j]
        BY <1>f, <3>3
      <3> QED  BY <3>2, <3>4 DEF Inv1, DormeRegistrato, Suoi
    <2>2. Dispositivi'
      <3>1. \A j \in Posti : /\ g_r3'[j].usato => g_r3[j].usato
                             /\ g_r3'[j].pid = g_r3[j].pid /\ g_r3'[j].disp = g_r3[j].disp
        BY <1>1, <1>2
      <3> QED  BY <1>e, <3>1 DEF Inv1, Dispositivi
    <2>3. Puntati'
      <3>1. \A t \in Serventi : sv'[t].st \in {"copia fuori", "copia dentro"} => sv'[t] = sv[t]
        BY <1>3 DEF SoloGuida
      <3> QED  BY <1>t, <1>e, <3>1 DEF Puntati, InGiro
    <2> QED  BY <2>1, <2>2, <2>3 DEF Inv1
  <1>5. ASSUME Inv2 PROVE Inv2'
    <2>1. Puntatori'
      <3>1. \A j \in Posti : g_r3'[j].disp = g_r3[j].disp
        BY <1>2
      <3> QED  BY <1>t, <1>e, <1>5, <3>1 DEF Inv2, Puntatori, Puntati, InGiro
    <2>2. CasellaDiUno'
      <3> SUFFICES ASSUME NEW x \in Chiamanti, ch[x].st = "aspetta", g_r3'[ch[x].posto].usato
                   PROVE  g_r3'[ch[x].posto].pid_chiamante = x /\ g_r3'[ch[x].posto].stato # "LIBERA"
        BY <1>e DEF CasellaDiUno
      <3>1. ch[x].posto \in Posti
        BY <1>t DEF Puntati, InGiro
      <3>2. g_r3[ch[x].posto].usato
        BY <1>1, <1>2, <3>1
      <3> QED  BY <1>2, <1>5, <3>1, <3>2 DEF Inv2, CasellaDiUno
    <2>3. RichiestaDiUno'
      <3> SUFFICES ASSUME NEW j \in Posti, g_r3'[j].usato, g_r3'[j].stato # "LIBERA"
                   PROVE  RichiestaDiUno!(j)!2'
        BY DEF RichiestaDiUno
      <3>1. g_r3[j].usato /\ g_r3[j].stato # "LIBERA"
            /\ g_r3'[j].pid_chiamante = g_r3[j].pid_chiamante /\ g_r3'[j].op = g_r3[j].op
        BY <1>1, <1>2
      <3> QED  BY <1>e, <1>5, <3>1 DEF Inv2, RichiestaDiUno
    <2>4. Spenti'
      BY <1>1, <1>2, <1>5 DEF Inv2, Spenti
    <2>5. InCorso'
      <3> SUFFICES ASSUME NEW j \in Posti, g_r3'[j].usato, g_r3'[j].stato = "IN_CORSO"
                   PROVE  InCorso!(j)!2'
        BY DEF InCorso
      <3>1. CASE j = i
        BY <1>1, <1>2, <1>3, <3>1 DEF InMano
      <3>2. CASE j # i
        <4>1. g_r3'[j] = g_r3[j] /\ g_r3[j].pid \in Serventi
          BY <1>2, <3>2 DEF Inv1, Dispositivi
        <4>2. g_r3[j].pid # s
          BY <1>e, <1>5, <4>1, NienteInMano DEF Inv2, Suoi
        <4>3. sv'[g_r3[j].pid] = sv[g_r3[j].pid]
          BY <1>3, <4>1, <4>2 DEF SoloGuida
        <4> QED  BY <1>5, <4>1, <4>3 DEF Inv2, InCorso, InMano, Morto
      <3> QED  BY <3>1, <3>2
    <2> QED  BY <2>1, <2>2, <2>3, <2>4, <2>5 DEF Inv2
  <1>c. ASSUME Inv3, NEW t \in Serventi, sv'[t].st \in {"copia fuori", "copia dentro"}
        PROVE  t # s /\ sv'[t] = sv[t] /\ sv[t].posto \in Posti /\ g_r3'[sv[t].posto] = g_r3[sv[t].posto]
    <2>1. t # s /\ sv'[t] = sv[t]
      BY <1>c, <1>3 DEF SoloGuida
    <2>2. sv[t].posto \in Posti /\ g_r3[sv[t].posto].pid = t
      BY <1>c, <1>t, <2>1 DEF Puntati, Inv3, Copie
    <2> QED  BY <1>1, <1>2, <2>1, <2>2
  <1>6. ASSUME Inv2, Inv3 PROVE Inv3'
    <2>1. Copie'
      <3> SUFFICES ASSUME NEW t \in Serventi  PROVE Copie!(t)'
        BY DEF Copie
      <3>1. CASE t = s
        BY <1>3, <3>1
      <3>2. CASE t # s
        <4>1. sv'[t] = sv[t]
          BY <1>3, <3>2 DEF SoloGuida
        <4>2. Copie!(t)
          BY <1>6, Zenon DEF Inv3, Copie
        <4> QED  BY <1>6, <1>c, <4>1, <4>2
      <3> QED  BY <3>1, <3>2
    <2>3. FattoDavvero'
      <3> SUFFICES ASSUME NEW j \in Posti, g_r3'[j].usato, g_r3'[j].stato = "IN_CORSO"
                   PROVE  FattoDavvero!(j)!2'
        BY DEF FattoDavvero
      <3>1. CASE j = i
        BY <1>1, <1>2, <1>3, <3>1
      <3>2. CASE j # i
        <4>1. g_r3'[j] = g_r3[j] /\ g_r3[j].pid \in Serventi
          BY <1>2, <3>2 DEF Inv1, Dispositivi
        <4>2. g_r3[j].pid # s
          BY <1>e, <1>6, <4>1, NienteInMano DEF Inv2, Suoi
        <4>3. sv'[g_r3[j].pid] = sv[g_r3[j].pid]
          BY <1>3, <4>1, <4>2 DEF SoloGuida
        <4>4. FattoDavvero!(j)!2
          BY <1>6, <4>1, Zenon DEF Inv3, FattoDavvero
        <4>5. scritti' = scritti
          BY <1>e
        <4> QED  BY <4>1, <4>3, <4>4, <4>5, FattoFermo, Zenon
      <3> QED  BY <3>1, <3>2
    <2>4. Serviti'
      BY <1>e, <1>2, <1>6 DEF Inv3, Serviti, Scritto
    <2>5. EsitoFuori' /\ RispostaSua'
      BY <1>e, <1>6 DEF Inv3, EsitoFuori, RispostaSua, Scritto
    <2> QED  BY <2>1, <2>3, <2>4, <2>5 DEF Inv3
  <1> QED  BY <1>4, <1>5, <1>6

\* The copy into the slot: of the request in hand, or of a slot not in use.
LEMMA CopiaDentroPasso ==
    ASSUME Inv1, TypeOK', NEW s \in Serventi, CopiaDentro(s)
    PROVE  Inv1' /\ (Inv2 => Inv2') /\ (Inv2 /\ Inv3 => Inv3')
  <1> DEFINE p == sv[s].posto
  <1>t. TypeOK /\ Puntati
    BY DEF Inv1
  <1>e. sv[s].st = "copia dentro" /\ UNCHANGED <<g_dorme, offerte, ch, scritti>>
    BY DEF CopiaDentro
  <1>p. p \in Posti
    BY <1>t, <1>e DEF Puntati
  <1>f. g_r3' = [g_r3 EXCEPT ![p].dati = sv[s].buf] /\ sv' = [sv EXCEPT ![s].st = "rende"]
    BY DEF CopiaDentro
  <1>2. /\ \A j \in Posti : j # p => g_r3'[j] = g_r3[j]
        /\ g_r3'[p].dati = sv[s].buf
        /\ \A j \in Posti : /\ g_r3'[j].usato = g_r3[j].usato /\ g_r3'[j].pid = g_r3[j].pid
                            /\ g_r3'[j].disp = g_r3[j].disp /\ g_r3'[j].stato = g_r3[j].stato
                            /\ g_r3'[j].op = g_r3[j].op /\ g_r3'[j].esito = g_r3[j].esito
                            /\ g_r3'[j].pid_chiamante = g_r3[j].pid_chiamante
    BY <1>t, <1>p, <1>f DEF TypeOK, Caselle
  <1>3. /\ SoloGuida(s) /\ sv'[s].st = "rende" /\ sv'[s].disp = sv[s].disp /\ sv'[s].op = sv[s].op
        /\ sv'[s].lba = sv[s].lba /\ sv'[s].esito = sv[s].esito
    BY <1>t, <1>f DEF TypeOK, Guide, SoloGuida
  <1>4. Inv1'
    <2>1. DormeRegistrato'
      <3> SUFFICES ASSUME NEW t \in Serventi, sv'[t].st = "dorme", NEW j \in Posti,
                          g_r3'[j].usato, g_r3'[j].pid = t
                   PROVE  g_dorme'[j] = t /\ g_r3'[j].stato # "PRONTA"
        BY DEF DormeRegistrato, Suoi
      <3>1. sv[t].st = "dorme" /\ g_r3[j].usato /\ g_r3[j].pid = t
        BY <1>2, <1>3 DEF SoloGuida
      <3> QED  BY <1>e, <1>2, <3>1 DEF Inv1, DormeRegistrato, Suoi
    <2>2. Dispositivi'
      <3>1. \A j \in Posti : /\ g_r3'[j].usato => g_r3[j].usato
                             /\ g_r3'[j].pid = g_r3[j].pid /\ g_r3'[j].disp = g_r3[j].disp
        BY <1>2
      <3>2. Dispositivi
        BY DEF Inv1
      <3> QED  BY <1>e, <3>1, <3>2 DEF Dispositivi
    <2>3. Puntati'
      <3>1. \A t \in Serventi : sv'[t].st \in {"copia fuori", "copia dentro"} => sv'[t] = sv[t]
        BY <1>3 DEF SoloGuida
      <3> QED  BY <1>t, <1>e, <3>1 DEF Puntati, InGiro
    <2> QED  BY <2>1, <2>2, <2>3 DEF Inv1
  <1>5. ASSUME Inv2 PROVE Inv2'
    <2>1. Puntatori'
      BY <1>t, <1>e, <1>2, <1>5 DEF Inv2, Puntatori, Puntati, InGiro
    <2>2. CasellaDiUno'
      BY <1>t, <1>e, <1>2, <1>5 DEF Inv2, CasellaDiUno, Puntati, InGiro
    <2>3. RichiestaDiUno'
      <3> SUFFICES ASSUME NEW j \in Posti, g_r3'[j].usato, g_r3'[j].stato # "LIBERA"
                   PROVE  RichiestaDiUno!(j)!2'
        BY DEF RichiestaDiUno
      <3>1. g_r3[j].usato /\ g_r3[j].stato # "LIBERA"
        BY <1>2
      <3>2. RichiestaDiUno!(j)!2
        BY <1>5, <3>1, Zenon DEF Inv2, RichiestaDiUno
      <3>3. g_r3'[j].pid_chiamante = g_r3[j].pid_chiamante /\ g_r3'[j].op = g_r3[j].op /\ ch' = ch
        BY <1>e, <1>2
      <3> QED  BY <3>2, <3>3
    <2>4. Spenti'
      BY <1>2, <1>5 DEF Inv2, Spenti
    <2>5. InCorso'
      <3> SUFFICES ASSUME NEW j \in Posti, g_r3'[j].usato, g_r3'[j].stato = "IN_CORSO"
                   PROVE  InCorso!(j)!2'
        BY DEF InCorso
      <3>1. g_r3[j].usato /\ g_r3[j].stato = "IN_CORSO" /\ g_r3[j].pid \in Serventi
        BY <1>2 DEF Inv1, Dispositivi
      <3>2. InCorso!(j)!2
        BY <1>5, <3>1 DEF Inv2, InCorso
      <3>3. CASE g_r3[j].pid = s
        BY <1>e, <1>2, <1>3, <3>2, <3>3 DEF InMano, Morto
      <3>4. CASE g_r3[j].pid # s
        <4>1. sv'[g_r3[j].pid] = sv[g_r3[j].pid]
          BY <1>3, <3>1, <3>4 DEF SoloGuida
        <4> QED  BY <1>2, <3>2, <4>1 DEF InMano, Morto
      <3> QED  BY <3>3, <3>4
    <2> QED  BY <2>1, <2>2, <2>3, <2>4, <2>5 DEF Inv2
  <1>6. ASSUME Inv2, Inv3 PROVE Inv3'
    <2>p. /\ g_r3[p].pid = s /\ g_r3[p].disp = sv[s].disp /\ sv[s].op = "LEGGI" /\ sv[s].esito = "ok"
          /\ g_r3[p].usato => g_r3[p].stato # "SERVITA"
      BY <1>6, <1>e DEF Inv3, Copie
    <2>1. Copie'
      <3> SUFFICES ASSUME NEW t \in Serventi  PROVE Copie!(t)'
        BY DEF Copie
      <3>1. CASE t = s
        BY <1>3, <3>1
      <3>2. CASE t # s
        <4>1. sv'[t] = sv[t]
          BY <1>3, <3>2 DEF SoloGuida
        <4>2. Copie!(t)
          BY <1>6, Zenon DEF Inv3, Copie
        <4>3. sv[t].st \in {"copia fuori", "copia dentro"} => sv[t].posto \in Posti
          BY <1>t DEF Puntati
        <4>4. \A j \in Posti : /\ g_r3'[j].pid = g_r3[j].pid /\ g_r3'[j].disp = g_r3[j].disp
                                /\ g_r3'[j].usato = g_r3[j].usato
                                /\ g_r3'[j].stato = g_r3[j].stato
          BY <1>2
        <4>5. sv[t].st \in {"copia fuori", "copia dentro"} =>
                /\ g_r3'[sv[t].posto].pid = t /\ g_r3'[sv[t].posto].disp = sv[t].disp
                /\ g_r3'[sv[t].posto].usato => g_r3'[sv[t].posto].stato # "SERVITA"
          BY <4>2, <4>3, <4>4
        <4>6. /\ sv[t].st \in {"prende", "copia fuori"} => sv[t].op = "SCRIVI"
              /\ sv[t].st = "copia dentro" => sv[t].op = "LEGGI" /\ sv[t].esito = "ok"
          BY <4>2
        <4> QED  BY <4>1, <4>5, <4>6, Zenon
      <3> QED  BY <3>1, <3>2
    <2>3. FattoDavvero'
      <3> SUFFICES ASSUME NEW j \in Posti, g_r3'[j].usato, g_r3'[j].stato = "IN_CORSO"
                   PROVE  FattoDavvero!(j)!2'
        BY DEF FattoDavvero
      <3>1. g_r3[j].usato /\ g_r3[j].stato = "IN_CORSO" /\ g_r3[j].pid \in Serventi
        BY <1>2 DEF Inv1, Dispositivi
      <3>2. FattoDavvero!(j)!2
        BY <1>6, <3>1, Zenon DEF Inv3, FattoDavvero
      <3>3. CASE g_r3[j].pid = s
        <4>1. g_r3[j].disp = sv[s].disp
          BY <1>6, <1>e, <3>1, <3>3 DEF Inv2, InCorso, Morto
        <4>2. j = p
          BY <1>p, <2>p, <3>1, <4>1 DEF Inv1, Dispositivi
        <4>3. sv[s].buf = <<"letto", sv[s].disp, g_r3[j].pid_chiamante>>
          BY <1>e, <2>p, <3>2, <3>3
        <4>4. /\ g_r3'[j].pid = s /\ g_r3'[j].dati = sv[s].buf
              /\ g_r3'[j].pid_chiamante = g_r3[j].pid_chiamante
          BY <1>2, <3>3, <4>2
        <4>5. sv'[s].st = "rende" /\ sv'[s].op = "LEGGI" /\ sv'[s].disp = sv[s].disp
          BY <1>3, <2>p
        <4> QED  BY <4>3, <4>4, <4>5
      <3>4. CASE g_r3[j].pid # s
        <4>1. sv'[g_r3[j].pid] = sv[g_r3[j].pid]
          BY <1>3, <3>1, <3>4 DEF SoloGuida
        <4>2. j # p
          BY <2>p, <3>4
        <4>3. g_r3'[j] = g_r3[j] /\ scritti' = scritti
          BY <1>e, <1>2, <4>2
        <4> QED  BY <3>2, <4>1, <4>3 DEF Scritto
      <3> QED  BY <3>3, <3>4
    <2>4. Serviti'
      <3> SUFFICES ASSUME NEW j \in Posti, g_r3'[j].usato, g_r3'[j].stato = "SERVITA"
                   PROVE  Serviti!(j)'
        BY DEF Serviti
      <3>1. g_r3'[j] = g_r3[j]
        BY <1>2, <2>p
      <3> QED  BY <1>e, <1>6, <3>1 DEF Inv3, Serviti, Scritto
    <2>5. EsitoFuori' /\ RispostaSua'
      BY <1>e, <1>6 DEF Inv3, EsitoFuori, RispostaSua, Scritto
    <2> QED  BY <2>1, <2>3, <2>4, <2>5 DEF Inv3
  <1> QED  BY <1>4, <1>5, <1>6

\* blkr3_risposta: the answer is given for the request in hand.
LEMMA RispostaPasso ==
    ASSUME Inv1, TypeOK', NEW s \in Serventi, blkr3_risposta(s)
    PROVE  Inv1' /\ (Inv2 => Inv2') /\ (Inv2 /\ Inv3 => Inv3')
  <1> DEFINE i == cerca_per_pid(s, "IN_CORSO")
  <1>t. TypeOK /\ Puntati
    BY DEF Inv1
  <1>e. sv[s].st = "rende" /\ UNCHANGED <<g_dorme, offerte, scritti>>
    BY DEF blkr3_risposta
  <1>s. SoloGuida(s) /\ sv'[s].st = "libero"
    BY <1>t DEF blkr3_risposta, TypeOK, Ozio, SoloGuida
  <1>0. CASE i = 0
    <2>1. UNCHANGED <<g_r3, ch>>
      BY <1>0 DEF blkr3_risposta
    <2>2. \A j \in Suoi(s) : g_r3[j].stato # "IN_CORSO"
      BY <1>0, CercaTrova
    <2>3. Inv1'
      BY <1>e, <1>s, <2>1, GuidaInv1
    <2>4. Inv2 => Inv2'
      BY <1>s, <2>1, <2>2, GuidaInv2 DEF PassoMano
    <2>5. Inv3 => Inv3'
      <3>1. Copie!(s)'
        BY <1>s
      <3> QED  BY <1>e, <1>s, <2>1, <2>2, <3>1, GuidaInv3 DEF Scritto
    <2> QED  BY <2>3, <2>4, <2>5
  <1>1. CASE i # 0
    <2>i. i \in Posti /\ i \in Suoi(s) /\ g_r3[i].usato /\ g_r3[i].pid = s /\ g_r3[i].stato = "IN_CORSO"
      BY <1>1, CercaTrova DEF Suoi
    <2>f. /\ g_r3' = [g_r3 EXCEPT ![i].esito = sv[s].esito, ![i].stato = "SERVITA"]
          /\ ch' = [ch EXCEPT ![g_r3[i].pid_chiamante].sonno = FALSE]
      BY <1>1 DEF blkr3_risposta
    <2>1. /\ \A j \in Posti : j # i => g_r3'[j] = g_r3[j]
          /\ \A j \in Posti : /\ g_r3'[j].usato = g_r3[j].usato /\ g_r3'[j].pid = g_r3[j].pid
                              /\ g_r3'[j].disp = g_r3[j].disp /\ g_r3'[j].op = g_r3[j].op
                              /\ g_r3'[j].pid_chiamante = g_r3[j].pid_chiamante
                              /\ g_r3'[j].dati = g_r3[j].dati
          /\ g_r3'[i].stato = "SERVITA" /\ g_r3'[i].esito = sv[s].esito
      BY <1>t, <2>i, <2>f DEF TypeOK, Caselle
    <2>2. StesseChiamate
      BY <1>t, <2>f DEF TypeOK, Chiamate, StesseChiamate
    <2>3. Inv1'
      <3>1. DormeRegistrato'
        <4> SUFFICES ASSUME NEW t \in Serventi, sv'[t].st = "dorme", NEW j \in Posti,
                            g_r3'[j].usato, g_r3'[j].pid = t
                     PROVE  g_dorme'[j] = t /\ g_r3'[j].stato # "PRONTA"
          BY DEF DormeRegistrato, Suoi
        <4>1. sv[t].st = "dorme" /\ g_r3[j].usato /\ g_r3[j].pid = t
          BY <1>s, <2>1 DEF SoloGuida
        <4>2. g_dorme[j] = t /\ g_r3[j].stato # "PRONTA"
          BY <4>1 DEF Inv1, DormeRegistrato, Suoi
        <4> QED  BY <1>e, <2>1, <4>2
      <3>2. Dispositivi'
        BY <1>e, <2>1 DEF Inv1, Dispositivi
      <3>3. Puntati'
        <4>1. \A t \in Serventi : sv'[t].st \in {"copia fuori", "copia dentro"} => sv'[t] = sv[t]
          BY <1>s DEF SoloGuida
        <4> QED  BY <1>t, <2>2, <4>1 DEF Puntati, InGiro, StesseChiamate
      <3> QED  BY <3>1, <3>2, <3>3 DEF Inv1
    <2>4. ASSUME Inv2 PROVE Inv2'
      <3>1. Puntatori'
        <4>1. \A j \in Posti : g_r3'[j].disp = g_r3[j].disp
          BY <2>1
        <4> SUFFICES ASSUME NEW x \in Chiamanti, InGiro(x)'
                     PROVE  g_r3'[ch'[x].posto].disp = ch'[x].disp
          BY DEF Puntatori
        <4>2. InGiro(x) /\ ch'[x].posto = ch[x].posto /\ ch'[x].disp = ch[x].disp
          BY <2>2 DEF InGiro, StesseChiamate
        <4>3. ch[x].posto \in Posti /\ g_r3[ch[x].posto].disp = ch[x].disp
          BY <1>t, <2>4, <4>2 DEF Inv2, Puntatori, Puntati
        <4> QED  BY <4>1, <4>2, <4>3
      <3>2. CasellaDiUno'
        <4> SUFFICES ASSUME NEW x \in Chiamanti, ch[x].st = "aspetta", g_r3'[ch[x].posto].usato
                     PROVE  g_r3'[ch[x].posto].pid_chiamante = x /\ g_r3'[ch[x].posto].stato # "LIBERA"
          BY <2>2 DEF CasellaDiUno, StesseChiamate
        <4>1. ch[x].posto \in Posti
          BY <1>t DEF Puntati, InGiro
        <4>2. g_r3[ch[x].posto].usato
          BY <2>1, <4>1
        <4>3. g_r3[ch[x].posto].pid_chiamante = x /\ g_r3[ch[x].posto].stato # "LIBERA"
          BY <2>4, <4>2 DEF Inv2, CasellaDiUno
        <4> QED  BY <2>1, <4>1, <4>3
      <3>3. RichiestaDiUno'
        <4> SUFFICES ASSUME NEW j \in Posti, g_r3'[j].usato, g_r3'[j].stato # "LIBERA"
                     PROVE  RichiestaDiUno!(j)!2'
          BY DEF RichiestaDiUno
        <4>1. g_r3[j].usato /\ g_r3[j].stato # "LIBERA"
          BY <2>i, <2>1
        <4>2. RichiestaDiUno!(j)!2
          BY <2>4, <4>1 DEF Inv2, RichiestaDiUno
        <4> QED  BY <2>1, <2>2, <4>2 DEF StesseChiamate
      <3>4. Spenti'
        BY <2>i, <2>1, <2>4 DEF Inv2, Spenti
      <3>5. InCorso'
        <4> SUFFICES ASSUME NEW j \in Posti, g_r3'[j].usato, g_r3'[j].stato = "IN_CORSO"
                     PROVE  InCorso!(j)!2'
          BY DEF InCorso
        <4>1. j # i /\ g_r3'[j] = g_r3[j] /\ g_r3[j].pid \in Serventi
          BY <2>1 DEF Inv1, Dispositivi
        <4>2. g_r3[j].pid # s
          BY <1>e, <2>i, <2>4, <4>1, UnaInCorso DEF Inv1, Inv2, Suoi, Morto
        <4>3. sv'[g_r3[j].pid] = sv[g_r3[j].pid]
          BY <1>s, <4>1, <4>2 DEF SoloGuida
        <4> QED  BY <2>4, <4>1, <4>3 DEF Inv2, InCorso, InMano, Morto
      <3> QED  BY <3>1, <3>2, <3>3, <3>4, <3>5 DEF Inv2
    <2>c. ASSUME Inv3, NEW t \in Serventi, sv'[t].st \in {"copia fuori", "copia dentro"}
          PROVE  /\ t # s /\ sv'[t] = sv[t] /\ sv[t].posto \in Posti
                 /\ g_r3'[sv[t].posto] = g_r3[sv[t].posto]
      <3>1. t # s /\ sv'[t] = sv[t]
        BY <2>c, <1>s DEF SoloGuida
      <3>2. sv[t].posto \in Posti /\ g_r3[sv[t].posto].pid = t
        BY <2>c, <1>t, <3>1 DEF Puntati, Inv3, Copie
      <3> QED  BY <2>i, <2>1, <3>1, <3>2
    <2>5. ASSUME Inv2, Inv3 PROVE Inv3'
      <3>1. Copie'
        <4> SUFFICES ASSUME NEW t \in Serventi  PROVE Copie!(t)'
          BY DEF Copie
        <4>1. CASE t = s
          BY <1>s, <4>1
        <4>2. CASE t # s
          <5>1. sv'[t] = sv[t]
            BY <1>s, <4>2 DEF SoloGuida
          <5>2. Copie!(t)
            BY <2>5, Zenon DEF Inv3, Copie
          <5> QED  BY <2>5, <2>c, <5>1, <5>2
        <4> QED  BY <4>1, <4>2
      <3>3. FattoDavvero'
        <4> SUFFICES ASSUME NEW j \in Posti, g_r3'[j].usato, g_r3'[j].stato = "IN_CORSO"
                     PROVE  FattoDavvero!(j)!2'
          BY DEF FattoDavvero
        <4>1. j # i /\ g_r3'[j] = g_r3[j] /\ g_r3[j].pid \in Serventi
          BY <2>1 DEF Inv1, Dispositivi
        <4>2. g_r3[j].pid # s
          BY <1>e, <2>i, <2>5, <4>1, UnaInCorso DEF Inv1, Inv2, Suoi, Morto
        <4>3. sv'[g_r3[j].pid] = sv[g_r3[j].pid] /\ scritti' = scritti
          BY <1>e, <1>s, <4>1, <4>2 DEF SoloGuida
        <4>4. FattoDavvero!(j)!2
          BY <2>5, <4>1, Zenon DEF Inv3, FattoDavvero
        <4> QED  BY <4>1, <4>3, <4>4, FattoFermo, Zenon
      <3>4. Serviti'
        <4> SUFFICES ASSUME NEW j \in Posti  PROVE Serviti!(j)'
          BY DEF Serviti
        <4>1. CASE j # i
          BY <1>e, <2>1, <2>5, <4>1 DEF Inv3, Serviti, Scritto
        <4>2. CASE j = i
          <5>1. sv[s].disp = g_r3[i].disp /\ sv[s].op = g_r3[i].op
            BY <1>e, <2>i, <2>5 DEF Inv2, InCorso, Morto
          <5>2. sv[s].esito = "ok" =>
                  /\ g_r3[i].op = "LEGGI" => g_r3[i].dati = <<"letto", g_r3[i].disp, g_r3[i].pid_chiamante>>
                  /\ g_r3[i].op = "SCRIVI" => Scritto(g_r3[i].disp, g_r3[i].pid_chiamante)
            BY <1>e, <2>i, <2>5, <5>1 DEF Inv3, FattoDavvero
          <5> QED  BY <1>e, <2>i, <2>1, <4>2, <5>2 DEF Scritto
        <4> QED  BY <4>1, <4>2
      <3>5. EsitoFuori' /\ RispostaSua'
        BY <1>e, <2>2, <2>5 DEF Inv3, EsitoFuori, RispostaSua, StesseChiamate, Scritto
      <3> QED  BY <3>1, <3>3, <3>4, <3>5 DEF Inv3
    <2> QED  BY <2>3, <2>4, <2>5
  <1> QED  BY <1>0, <1>1

-----------------------------------------------------------------------------
(* The device goes (blkr3_espelli, blkr3_processo_morto).                  *)

\* The slots in P are not used any more: whoever waits there has its -EIO.
LEMMA ToltiPasso ==
    ASSUME Inv1, TypeOK', NEW P \in SUBSET Posti, Tolti(P), \A j \in P : g_r3[j].usato,
           UNCHANGED <<offerte, scritti>>,
           \A j \in Posti : j \notin P => g_dorme'[j] = g_dorme[j],
           \A t \in Serventi : \/ sv'[t] = sv[t]
                               \/ sv[t].st = "dorme" /\ sv'[t].st = "libero"
                               \/ sv[t].st = "zombie" /\ sv'[t].st = "raccolto"
    PROVE  Inv1' /\ (Inv2 => Inv2') /\ (Inv2 /\ Inv3 => Inv3')
  <1>t. TypeOK /\ Puntati /\ Dispositivi /\ DormeRegistrato
    BY DEF Inv1
  <1>c. StesseChiamate
    BY <1>t, ToltiCampi
  <1>u. ASSUME NEW j \in Posti, g_r3'[j].usato
        PROVE  j \notin P /\ g_r3'[j] = g_r3[j] /\ g_r3[j].usato /\ g_r3[j].pid \in Serventi
    <2>1. j \notin P /\ g_r3'[j] = g_r3[j]
      BY <1>t, <1>u, ToltiCampi
    <2> QED  BY <1>t, <1>u, <2>1 DEF Dispositivi
  <1>d. \A j \in Posti : g_r3'[j].disp = g_r3[j].disp /\ g_r3'[j].pid = g_r3[j].pid
    BY <1>t, ToltiCampi
  <1>p. \A j \in P : /\ g_r3[j].stato # "LIBERA" => g_r3'[j].stato = "SERVITA" /\ g_r3'[j].esito = "EIO"
                     /\ g_r3[j].stato = "LIBERA" => g_r3'[j].esito = g_r3[j].esito
    BY <1>t, ToltiCampi
  <1>f. \A j \in Posti : j \notin P => g_r3'[j] = g_r3[j]
    BY <1>t, ToltiCampi
  <1>g. ASSUME NEW x \in Chiamanti
        PROVE  (InGiro(x)' <=> InGiro(x)) /\ ch'[x].posto = ch[x].posto /\ ch'[x].disp = ch[x].disp
    BY <1>c DEF InGiro, StesseChiamate
  <1>1. Inv1'
    <2>1. DormeRegistrato'
      <3> SUFFICES ASSUME NEW t \in Serventi, sv'[t].st = "dorme", NEW j \in Posti,
                          g_r3'[j].usato, g_r3'[j].pid = t
                   PROVE  g_dorme'[j] = t /\ g_r3'[j].stato # "PRONTA"
        BY DEF DormeRegistrato, Suoi
      <3>1. j \notin P /\ g_r3'[j] = g_r3[j] /\ g_r3[j].usato
        BY <1>u
      <3>2. sv[t].st = "dorme" /\ g_dorme'[j] = g_dorme[j]
        BY <3>1
      <3> QED  BY <1>t, <3>1, <3>2 DEF DormeRegistrato, Suoi
    <2>2. Dispositivi'
      BY <1>t, <1>u, <1>d DEF Dispositivi
    <2>3. Puntati'
      <3>1. \A x \in Chiamanti : InGiro(x)' => ch'[x].posto \in Posti
        BY <1>t, <1>g DEF Puntati
      <3>2. \A t \in Serventi : sv'[t].st \in {"copia fuori", "copia dentro"} => sv'[t] = sv[t]
        OBVIOUS
      <3> QED  BY <1>t, <3>1, <3>2 DEF Puntati
    <2> QED  BY <2>1, <2>2, <2>3 DEF Inv1
  <1>2. ASSUME Inv2 PROVE Inv2'
    <2>1. Puntatori'
      <3> SUFFICES ASSUME NEW x \in Chiamanti, InGiro(x)'
                   PROVE  g_r3'[ch'[x].posto].disp = ch'[x].disp
        BY DEF Puntatori
      <3>1. InGiro(x) /\ ch'[x].posto = ch[x].posto /\ ch'[x].disp = ch[x].disp
        BY <1>g
      <3>2. ch[x].posto \in Posti /\ g_r3[ch[x].posto].disp = ch[x].disp
        BY <1>t, <1>2, <3>1 DEF Inv2, Puntatori, Puntati
      <3> QED  BY <1>d, <3>1, <3>2
    <2>2. CasellaDiUno'
      <3> SUFFICES ASSUME NEW x \in Chiamanti, ch'[x].st = "aspetta", g_r3'[ch'[x].posto].usato
                   PROVE  g_r3'[ch'[x].posto].pid_chiamante = x /\ g_r3'[ch'[x].posto].stato # "LIBERA"
        BY DEF CasellaDiUno
      <3>1. ch[x].st = "aspetta" /\ ch'[x].posto = ch[x].posto
        BY <1>c DEF StesseChiamate
      <3>2. ch[x].posto \in Posti
        BY <1>t, <3>1 DEF Puntati, InGiro
      <3>3. g_r3'[ch[x].posto] = g_r3[ch[x].posto] /\ g_r3[ch[x].posto].usato
        BY <1>u, <3>1, <3>2
      <3> QED  BY <1>2, <3>1, <3>3 DEF Inv2, CasellaDiUno
    <2>3. RichiestaDiUno'
      <3> SUFFICES ASSUME NEW j \in Posti, g_r3'[j].usato, g_r3'[j].stato # "LIBERA"
                   PROVE  RichiestaDiUno!(j)!2'
        BY DEF RichiestaDiUno
      <3>1. g_r3'[j] = g_r3[j] /\ g_r3[j].usato /\ g_r3[j].stato # "LIBERA"
        BY <1>u
      <3>2. RichiestaDiUno!(j)!2
        BY <1>2, <3>1, Zenon DEF Inv2, RichiestaDiUno
      <3> QED  BY <1>c, <3>1, <3>2 DEF StesseChiamate
    <2>4. Spenti'
      <3> SUFFICES ASSUME NEW j \in Posti, ~g_r3'[j].usato \/ g_r3'[j].stato = "LIBERA"
                   PROVE  g_r3'[j].esito = "EIO"
        BY DEF Spenti
      <3>1. CASE j \in P
        BY <1>2, <1>p, <3>1 DEF Inv2, Spenti
      <3>2. CASE j \notin P
        BY <1>2, <1>f, <3>2 DEF Inv2, Spenti
      <3> QED  BY <3>1, <3>2
    <2>5. InCorso'
      <3> SUFFICES ASSUME NEW j \in Posti, g_r3'[j].usato, g_r3'[j].stato = "IN_CORSO"
                   PROVE  InCorso!(j)!2'
        BY DEF InCorso
      <3>1. g_r3'[j] = g_r3[j] /\ g_r3[j].usato /\ g_r3[j].stato = "IN_CORSO" /\ g_r3[j].pid \in Serventi
        BY <1>u
      <3>2. InCorso!(j)!2
        BY <1>2, <3>1, Zenon DEF Inv2, InCorso
      <3>3. \/ sv'[g_r3[j].pid] = sv[g_r3[j].pid]
            \/ sv'[g_r3[j].pid].st = "raccolto"
        BY <3>1, <3>2 DEF InMano, Morto
      <3> QED  BY <3>1, <3>2, <3>3 DEF InMano, Morto
    <2> QED  BY <2>1, <2>2, <2>3, <2>4, <2>5 DEF Inv2
  <1>3. ASSUME Inv2, Inv3 PROVE Inv3'
    <2>1. Copie'
      <3> SUFFICES ASSUME NEW t \in Serventi  PROVE Copie!(t)'
        BY DEF Copie
      <3>1. CASE sv'[t] # sv[t]
        <4>1. sv'[t].st \in {"libero", "raccolto"}
          BY <3>1
        <4> QED  BY <4>1
      <3>2. CASE sv'[t] = sv[t]
        <4>1. Copie!(t)
          BY <1>3, Zenon DEF Inv3, Copie
        <4>2. ASSUME sv[t].st \in {"copia fuori", "copia dentro"}
              PROVE  /\ g_r3'[sv[t].posto].pid = g_r3[sv[t].posto].pid
                     /\ g_r3'[sv[t].posto].disp = g_r3[sv[t].posto].disp
                     /\ g_r3'[sv[t].posto].usato =>
                          g_r3[sv[t].posto].usato /\ g_r3'[sv[t].posto].stato = g_r3[sv[t].posto].stato
          BY <1>t, <1>d, <1>u, <4>2 DEF Puntati
        <4> QED  BY <3>2, <4>1, <4>2
      <3> QED  BY <3>1, <3>2
    <2>3. FattoDavvero'
      <3> SUFFICES ASSUME NEW j \in Posti, g_r3'[j].usato, g_r3'[j].stato = "IN_CORSO"
                   PROVE  FattoDavvero!(j)!2'
        BY DEF FattoDavvero
      <3>1. g_r3'[j] = g_r3[j] /\ g_r3[j].usato /\ g_r3[j].stato = "IN_CORSO" /\ g_r3[j].pid \in Serventi
        BY <1>u
      <3>2. FattoDavvero!(j)!2
        BY <1>3, <3>1, Zenon DEF Inv3, FattoDavvero
      <3>3. sv'[g_r3[j].pid] = sv[g_r3[j].pid] \/ sv'[g_r3[j].pid].st \in {"libero", "raccolto"}
        BY <3>1
      <3>4. CASE sv'[g_r3[j].pid] = sv[g_r3[j].pid]
        <4>1. scritti' = scritti
          OBVIOUS
        <4> QED  BY <3>1, <3>2, <3>4, <4>1, FattoFermo, Zenon
      <3>5. CASE sv'[g_r3[j].pid].st \in {"libero", "raccolto"}
        BY <3>1, <3>5
      <3> QED  BY <3>3, <3>4, <3>5
    <2>4. Serviti'
      <3> SUFFICES ASSUME NEW j \in Posti, g_r3'[j].usato  PROVE Serviti!(j)'
        BY DEF Serviti
      <3>1. g_r3'[j] = g_r3[j] /\ scritti' = scritti
        BY <1>u
      <3>2. Serviti!(j)
        BY <1>3, Zenon DEF Inv3, Serviti
      <3> QED  BY <3>1, <3>2 DEF Scritto
    <2>5. EsitoFuori' /\ RispostaSua'
      BY <1>c, <1>3 DEF Inv3, EsitoFuori, RispostaSua, StesseChiamate, Scritto
    <2> QED  BY <2>1, <2>3, <2>4, <2>5 DEF Inv3
  <1> QED  BY <1>1, <1>2, <1>3

\* blkr3_processo_morto: the slots of a driver that is collected.
LEMMA MortoPasso ==
    ASSUME Inv1, TypeOK', NEW s \in Serventi, blkr3_processo_morto(s)
    PROVE  Inv1' /\ (Inv2 => Inv2') /\ (Inv2 /\ Inv3 => Inv3')
  <1>t. TypeOK
    BY DEF Inv1
  <1>1. /\ Suoi(s) \in SUBSET Posti /\ Tolti(Suoi(s)) /\ UNCHANGED <<offerte, scritti>>
        /\ \A j \in Suoi(s) : g_r3[j].usato
        /\ \A j \in Posti : j \notin Suoi(s) => g_dorme'[j] = g_dorme[j]
    BY DEF blkr3_processo_morto, Suoi
  <1>2. \A t \in Serventi : sv'[t] = sv[t] \/ (sv[t].st = "zombie" /\ sv'[t].st = "raccolto")
    <2>1. PICK r \in Guide : r = sv[s]
      BY <1>t DEF TypeOK
    <2>2. [r EXCEPT !.st = "raccolto"].st = "raccolto"
      BY <2>1 DEF Guide
    <2> QED  BY <1>t, <2>1, <2>2 DEF blkr3_processo_morto, TypeOK
  <1> QED  BY <1>1, <1>2, ToltiPasso

\* blkr3_espelli: the slot of a device that nobody has mounted.
LEMMA EspelliPasso ==
    ASSUME Inv1, TypeOK', NEW i \in Posti, blkr3_espelli(i)
    PROVE  Inv1' /\ (Inv2 => Inv2') /\ (Inv2 /\ Inv3 => Inv3')
  <1>t. TypeOK
    BY DEF Inv1
  <1>1. /\ {i} \in SUBSET Posti /\ Tolti({i}) /\ UNCHANGED <<offerte, scritti>>
        /\ \A j \in {i} : g_r3[j].usato
    BY DEF blkr3_espelli
  <1>d. \A j \in Posti : j \notin {i} => g_dorme'[j] = g_dorme[j]
    BY <1>t DEF blkr3_espelli, TypeOK
  <1>2. ASSUME NEW t \in Serventi
        PROVE  sv'[t] = sv[t] \/ (sv[t].st = "dorme" /\ sv'[t].st = "libero")
    <2>1. PICK r \in Guide : r = sv[t]
      BY <1>t DEF TypeOK
    <2>2. [r EXCEPT !.st = "libero"].st = "libero"
      BY <2>1 DEF Guide
    <2>3. sv' = Svegliato(i)
      BY DEF blkr3_espelli
    <2> QED  BY <1>t, <2>1, <2>2, <2>3, SvegliatoCampi
  <1> QED  BY <1>1, <1>d, <1>2, ToltiPasso

-----------------------------------------------------------------------------
(* Every step.                                                             *)

\* What a step keeps, layer by layer.
Avanti ==
    /\ Inv1'
    /\ "riuso" \notin Eventi => (Inv2 => Inv2') /\ (Inv2 /\ Inv3 => Inv3')

\* A step of a caller.
LEMMA PassoCh ==
    ASSUME Inv1, NEW c \in Chiamanti,
           Chiama(c) \/ PassoChiamante(c) \/ Scade(c) \/ Scosso(c) \/ Ucciso(c)
    PROVE  Avanti
  <1>t. TypeOK /\ TypeOK'
    BY TipoChiamante DEF Inv1
  <1>1. CASE Casella(c) /\ ~Occupata(ch[c].posto)
    <2>1. Inv1'
      BY <1>t, <1>1, CasellaInv1
    <2>2. Inv2 => Inv2'
      BY <1>1, CasellaInv2
    <2>3. Inv2 /\ Inv3 => Inv3'
      BY <1>1, CasellaInv3
    <2> QED  BY <2>1, <2>2, <2>3 DEF Avanti
  <1>2. CASE Aspetta(c) /\ Finisce(c)
    <2>1. Inv1'
      BY <1>t, <1>2, AspettaInv1
    <2>2. Inv2 => Inv2'
      BY <1>2, AspettaInv2
    <2>3. Inv2 /\ Inv3 => Inv3'
      BY <1>2, AspettaInv3
    <2> QED  BY <2>1, <2>2, <2>3 DEF Avanti
  <1>3. CASE Quieto(c)
    <2>1. Inv1'
      BY <1>t, <1>3, QuietoInv1
    <2>2. Inv2 => Inv2'
      BY <1>3, QuietoInv2
    <2>3. Inv2 /\ Inv3 => Inv3'
      BY <1>3, QuietoInv3
    <2> QED  BY <2>1, <2>2, <2>3 DEF Avanti
  <1>4. \/ Casella(c) /\ ~Occupata(ch[c].posto)
        \/ Aspetta(c) /\ Finisce(c)
        \/ Quieto(c)
    BY <1>t, PassiQuieti, Zenon DEF PassoChiamante, Finisce
  <1> QED  BY <1>1, <1>2, <1>3, <1>4

\* A step of a driver.
LEMMA PassoSv ==
    ASSUME Inv1, NEW s \in Serventi,
           \/ blkr3_offri(s) \/ blkr3_attendi(s) \/ Destato(s) \/ PrendiDati(s)
           \/ Lavora(s) \/ DaiDati(s) \/ Copia(s) \/ blkr3_risposta(s)
           \/ Muore(s) \/ blkr3_processo_morto(s)
    PROVE  Avanti
  <1>t. TypeOK'
    BY TipoServente DEF Inv1
  <1>1. CASE blkr3_offri(s)
    BY <1>t, <1>1, OffriPasso, Zenon DEF Avanti
  <1>2. CASE blkr3_attendi(s)
    BY <1>t, <1>2, AttendiPasso, GuidaOziosa, Zenon DEF Avanti
  <1>3. CASE Destato(s)
    BY <1>t, <1>3, GuidaOziosa, Zenon DEF Avanti
  <1>4. CASE PrendiDati(s)
    BY <1>t, <1>4, GuidaPrendiDati, Zenon DEF Avanti
  <1>5. CASE Lavora(s)
    BY <1>t, <1>5, GuidaLavora, Zenon DEF Avanti
  <1>6. CASE DaiDati(s)
    BY <1>t, <1>6, GuidaDaiDati, Zenon DEF Avanti
  <1>7. CASE CopiaFuori(s)
    BY <1>t, <1>7, GuidaCopiaFuori, Zenon DEF Avanti
  <1>8. CASE CopiaDentro(s)
    BY <1>t, <1>8, CopiaDentroPasso, Zenon DEF Avanti
  <1>9. CASE blkr3_risposta(s)
    BY <1>t, <1>9, RispostaPasso, Zenon DEF Avanti
  <1>10. CASE Muore(s)
    BY <1>t, <1>10, GuidaOziosa, Zenon DEF Avanti
  <1>11. CASE blkr3_processo_morto(s)
    BY <1>t, <1>11, MortoPasso, Zenon DEF Avanti
  <1> QED  BY <1>1, <1>2, <1>3, <1>4, <1>5, <1>6, <1>7, <1>8, <1>9, <1>10, <1>11 DEF Copia

\* A step that changes nothing.
LEMMA PassoFermo == ASSUME Inv1, UNCHANGED vars PROVE Avanti
  <1>1. Inv1'
    BY DEF Inv1, vars, TypeOK, Puntati, DormeRegistrato, Dispositivi, InGiro, Suoi
  <1>2. Inv2 => Inv2'
    <2>1. Puntatori /\ CasellaDiUno => Puntatori' /\ CasellaDiUno'
      BY DEF vars, Puntatori, CasellaDiUno, InGiro
    <2>2. RichiestaDiUno /\ Spenti => RichiestaDiUno' /\ Spenti'
      BY DEF vars, RichiestaDiUno, Spenti
    <2>3. InCorso => InCorso'
      BY DEF vars, InCorso, InMano, Morto
    <2> QED  BY <2>1, <2>2, <2>3 DEF Inv2
  <1>3. Inv3 => Inv3'
    BY DEF Inv3, vars, Copie, FattoDavvero, Serviti, EsitoFuori, RispostaSua, Scritto
  <1> QED  BY <1>1, <1>2, <1>3 DEF Avanti

\* Every step.
LEMMA PassoTutti == Inv1 /\ [Next]_vars => Avanti
  <1> SUFFICES ASSUME Inv1, [Next]_vars PROVE Avanti
    OBVIOUS
  <1>1. CASE \E c \in Chiamanti : Chiama(c) \/ PassoChiamante(c) \/ Scade(c) \/ Scosso(c) \/ Ucciso(c)
    BY <1>1, PassoCh
  <1>2. CASE \E s \in Serventi : \/ blkr3_offri(s) \/ blkr3_attendi(s) \/ Destato(s) \/ PrendiDati(s)
                                 \/ Lavora(s) \/ DaiDati(s) \/ Copia(s) \/ blkr3_risposta(s)
                                 \/ Muore(s) \/ blkr3_processo_morto(s)
    BY <1>2, PassoSv
  <1>3. CASE \E i \in Posti : blkr3_espelli(i)
    <2>1. PICK i \in Posti : blkr3_espelli(i)
      BY <1>3
    <2>2. TypeOK'
      BY <2>1, TipoEspelli DEF Inv1
    <2> QED  BY <2>1, <2>2, EspelliPasso, Zenon DEF Avanti
  <1>4. CASE UNCHANGED vars
    BY <1>4, PassoFermo
  <1> QED  BY <1>1, <1>2, <1>3, <1>4 DEF Next

\* The table is empty, nobody calls and every driver is at rest.
LEMMA InizioTutti == Init => Inv1 /\ Inv2 /\ Inv3
  <1> SUFFICES ASSUME Init PROVE Inv1 /\ Inv2 /\ Inv3
    OBVIOUS
  <1>1. /\ \A i \in Posti : /\ ~g_r3[i].usato /\ g_r3[i].disp = 0 /\ g_r3[i].stato = "LIBERA"
                            /\ g_r3[i].esito = "EIO"
        /\ offerte = 0 /\ scritti = {}
    BY DEF Init
  <1>2. \A c \in Chiamanti : ch[c].st = "fuori" /\ ch[c].esito = "no"
    BY DEF Init, Riposo
  <1>3. \A s \in Serventi : sv[s].st = "libero"
    BY DEF Init, Ozio
  <1>4. Inv1
    <2>1. Puntati /\ DormeRegistrato
      BY <1>2, <1>3 DEF Puntati, DormeRegistrato, InGiro
    <2>2. Dispositivi
      BY <1>1 DEF Dispositivi
    <2> QED  BY <2>1, <2>2, InitTipo DEF Inv1
  <1>5. Inv2
    BY <1>1, <1>2 DEF Inv2, Puntatori, CasellaDiUno, RichiestaDiUno, Spenti, InCorso, InGiro
  <1>6. Inv3
    BY <1>1, <1>2, <1>3 DEF Inv3, Copie, FattoDavvero, Serviti, EsitoFuori, RispostaSua, Scritto
  <1> QED  BY <1>4, <1>5, <1>6

-----------------------------------------------------------------------------
(* The theorems.                                                           *)

\* Slots, callers and drivers keep their shape, and a pointer is to a slot of
\* the table, whatever happens.
THEOREM TipoCorretto == Spec => [](TypeOK /\ Puntati)
  <1>1. Init => Inv1
    BY InizioTutti
  <1>2. Inv1 /\ [Next]_vars => Inv1'
    BY PassoTutti DEF Avanti
  <1>3. Inv1 => TypeOK /\ Puntati
    BY DEF Inv1
  <1> QED  BY <1>1, <1>2, <1>3, PTL DEF Spec

\* A driver never sleeps on a request that is ready for it: blkr3_attendi looks
\* and registers in one stretch, un_giro puts the request in and wakes whoever
\* is registered, and every slot of the driver has it registered.  Whatever
\* happens, late answers and slots offered again included.
THEOREM RichiestaVista == Spec => []RichiestaNonDorme
  <1>1. Init => Inv1
    BY InizioTutti
  <1>2. Inv1 /\ [Next]_vars => Inv1'
    BY PassoTutti DEF Avanti
  <1>3. Inv1 => RichiestaNonDorme
    BY DEF Inv1, DormeRegistrato, RichiestaNonDorme
  <1> QED  BY <1>1, <1>2, <1>3, PTL DEF Spec

\* A slot has one caller, also when it gives up, when its driver dies and when
\* it dies itself; the slot is not offered again under a caller's feet.
THEOREM CasellaDelChiamante ==
    ASSUME "riuso" \notin Eventi
    PROVE  Spec => []CasellaDiUno
  <1>1. Init => Inv1 /\ Inv2
    BY InizioTutti
  <1>2. Inv1 /\ Inv2 /\ [Next]_vars => (Inv1 /\ Inv2)'
    BY PassoTutti DEF Avanti
  <1>3. Inv2 => CasellaDiUno
    BY DEF Inv2
  <1> QED  BY <1>1, <1>2, <1>3, PTL DEF Spec

\* A call that returns 0 got the answer to its own request: the sectors it
\* reads are its own, and what it asked to write the driver did write there.
\* Deadlines pass at any moment, also in the middle of a copy; drivers answer
\* late, die and are sent away; any number of callers goes without the lock.
THEOREM RispostaDelChiamante ==
    ASSUME "riuso" \notin Eventi
    PROVE  Spec => []RispostaSua
  <1>1. Init => Inv1 /\ Inv2 /\ Inv3
    BY InizioTutti
  <1>2. Inv1 /\ Inv2 /\ Inv3 /\ [Next]_vars => (Inv1 /\ Inv2 /\ Inv3)'
    BY PassoTutti DEF Avanti
  <1>3. Inv3 => RispostaSua
    BY DEF Inv3
  <1> QED  BY <1>1, <1>2, <1>3, PTL DEF Spec

-----------------------------------------------------------------------------
(* The lock of the VFS.                                                    *)

Dentro == {"spezza", "entra", "casella", "aspetta"}

\* The lock after a step of a caller that is not killed.
LEMMA LucchettoChiamante ==
    ASSUME TypeOK, LucchettoVivo, NEW c \in Chiamanti,
           Chiama(c) \/ PassoChiamante(c) \/ Scade(c) \/ Scosso(c)
    PROVE  LucchettoVivo'
  <1>n. Nessuno \in Contenuti /\ ch \in [Chiamanti -> Chiamate]
    BY DEF Contenuti, TypeOK
  <1>v. detentore # Nessuno => detentore \in Chiamanti /\ ch[detentore].st \in Dentro
    BY DEF LucchettoVivo, InGiro, Dentro, TypeOK
  <1>a. SUFFICES /\ detentore' \in {detentore, Nessuno, c}
                 /\ detentore' = c => ch'[c].st \in Dentro
                 /\ \A x \in Chiamanti : x # c => ch'[x].st = ch[x].st \/ ch[x].st = "in fila"
    BY <1>v, <1>a DEF LucchettoVivo, InGiro, Dentro
  <1>t. ASSUME NEW e, NEW b \in Contenuti, Torna(c, e, b)  PROVE <1>a!1
    <2>1. detentore' # c /\ detentore' \in {detentore, Nessuno}
      BY <1>t, TornaSolo
    <2>2. \A x \in Chiamanti : x # c => ch'[x] = ch[x] \/ ch[x].st = "in fila"
      BY <1>t, TornaSolo
    <2> QED  BY <2>1, <2>2
  <1>s. ASSUME NEW r \in Chiamate, ch' = [ch EXCEPT ![c] = r], detentore' = detentore,
               ch[c].st \in Dentro => r.st \in Dentro
        PROVE  <1>a!1
    <2>1. detentore' = c => ch[c].st \in Dentro
      BY <1>s, <1>v, ChiServe
    <2>2. ch'[c] = r /\ \A x \in Chiamanti : x # c => ch'[x] = ch[x]
      BY <1>s, <1>n
    <2> QED  BY <1>s, <2>1, <2>2
  <1>1. CASE Chiama(c)
    <2>1. ch[c].st = "fuori" /\ detentore' = detentore /\ \A x \in Chiamanti : x # c => ch'[x] = ch[x]
      BY <1>1, <1>n DEF Chiama
    <2>2. detentore # c
      BY <1>v, <2>1, ChiServe DEF Dentro
    <2> QED  BY <2>1, <2>2
  <1>2. CASE fs_prendi(c)
    <2>1. CASE detentore = Nessuno
      BY <1>2, <1>n, <2>1 DEF fs_prendi, Chiamate, Dentro
    <2>2. CASE detentore # Nessuno
      <3>1. detentore # c /\ detentore' = detentore
        BY <1>2, <1>v, <2>2 DEF fs_prendi, Dentro
      <3> QED  BY <1>2, <1>n, <2>2, <3>1 DEF fs_prendi
    <2> QED  BY <2>1, <2>2
  <1>3. CASE spezza(c)
    <2>1. CASE Torna(c, "ENODEV", Nessuno)
      BY <1>n, <1>t, <2>1
    <2>2. ASSUME NEW i, ch' = [ch EXCEPT ![c].st = "entra", ![c].posto = i], detentore' = detentore
          PROVE  <1>a!1
      BY <1>n, <2>2 DEF Chiamate, Dentro
    <2> QED  BY <1>3, <2>1, <2>2 DEF spezza
  <1>4. CASE Entra(c)
    <2>1. CASE Torna(c, "EIO", Nessuno)
      BY <1>n, <1>t, <2>1
    <2>2. CASE ch' = [ch EXCEPT ![c].st = "casella", ![c].scaduto = FALSE] /\ detentore' = detentore
      BY <1>n, <2>2 DEF Chiamate, Dentro
    <2> QED  BY <1>4, <2>1, <2>2 DEF Entra
  <1>5. CASE Casella(c)
    <2>1. CASE Torna(c, "EIO", Nessuno)
      BY <1>n, <1>t, <2>1
    <2>2. CASE ch' = [ch EXCEPT ![c].st = "aspetta", ![c].sonno = TRUE] /\ detentore' = detentore
      BY <1>n, <2>2 DEF Chiamate, Dentro
    <2> QED  BY <1>5, <2>1, <2>2 DEF Casella
  <1>6. CASE Aspetta(c)
    <2>1. ASSUME NEW e, NEW b, Torna(c, e, b)  PROVE <1>a!1
      <3>1. detentore' # c /\ detentore' \in {detentore, Nessuno}
        BY <2>1, <1>v, ChiServe DEF Torna
      <3>2. \A x \in Chiamanti : x # c => ch'[x] = ch[x] \/ ch[x].st = "in fila"
        BY <2>1, <1>n DEF Torna
      <3> QED  BY <3>1, <3>2
    <2>2. CASE ch' = [ch EXCEPT ![c].st = "entra", ![c].giri = @ + 1] /\ detentore' = detentore
      BY <1>n, <2>2 DEF Chiamate, Dentro
    <2>3. CASE ch' = [ch EXCEPT ![c].sonno = TRUE] /\ detentore' = detentore
      <3>1. ch[c].st = "aspetta"
        BY <1>6 DEF Aspetta
      <3>2. \A x \in Chiamanti : ch'[x].st = ch[x].st
        BY <1>n, <2>3 DEF Chiamate
      <3> QED  BY <2>3, <3>1, <3>2 DEF Dentro
    <2>4. \/ \E e, b : Torna(c, e, b)
          \/ ch' = [ch EXCEPT ![c].st = "entra", ![c].giri = @ + 1] /\ UNCHANGED <<detentore, fila>>
          \/ ch' = [ch EXCEPT ![c].sonno = TRUE] /\ UNCHANGED <<detentore, fila>>
      BY <1>6, Zenon DEF Aspetta
    <2> QED  BY <2>1, <2>2, <2>3, <2>4
  <1>7. CASE Scade(c)
    <2>1. [ch[c] EXCEPT !.scaduto = TRUE, !.sonno = FALSE] \in Chiamate
      BY <1>n DEF Chiamate
    <2>2. [ch[c] EXCEPT !.scaduto = TRUE, !.sonno = FALSE].st = ch[c].st
      BY <1>n DEF Chiamate
    <2>3. ch' = [ch EXCEPT ![c] = [ch[c] EXCEPT !.scaduto = TRUE, !.sonno = FALSE]]
      BY <1>7, <1>n DEF Scade
    <2>4. detentore' = detentore
      BY <1>7 DEF Scade
    <2> QED  BY <1>s, <2>1, <2>2, <2>3, <2>4
  <1>8. CASE Scosso(c)
    <2>1. detentore' = detentore
      BY <1>8 DEF Scosso
    <2>2. CASE ch[c].st = "in fila" /\ ch' = [ch EXCEPT ![c].st = "prendi"]
      <3>1. detentore # c
        BY <1>v, <2>2, ChiServe DEF Dentro
      <3> QED  BY <1>n, <2>1, <2>2, <3>1
    <2>3. CASE ch[c].st = "aspetta" /\ ch' = [ch EXCEPT ![c].sonno = FALSE]
      <3>1. \A x \in Chiamanti : ch'[x].st = ch[x].st
        BY <1>n, <2>3 DEF Chiamate
      <3> QED  BY <2>1, <2>3, <3>1 DEF Dentro
    <2> QED  BY <1>8, <2>2, <2>3 DEF Scosso
  <1> QED  BY <1>1, <1>2, <1>3, <1>4, <1>5, <1>6, <1>7, <1>8 DEF PassoChiamante

\* The lock after a step of a driver, or when a device goes.
LEMMA LucchettoServente ==
    ASSUME TypeOK, LucchettoVivo, detentore' = detentore, StesseChiamate
    PROVE  LucchettoVivo'
  BY DEF TypeOK, LucchettoVivo, InGiro, StesseChiamate

\* The lock of the VFS is held by a thread that lives and is inside its call,
\* and will release it, if no thread is killed in the middle of one: killing
\* (proc_gruppo_termina) is the only way to lose it.
THEOREM LucchettoTenuto ==
    ASSUME "ucciso" \notin Eventi
    PROVE  Spec => []LucchettoVivo
  <1>1. Init => Inv1 /\ LucchettoVivo
    BY InizioTutti DEF Init, LucchettoVivo
  <1>2. Inv1 /\ LucchettoVivo /\ [Next]_vars => (Inv1 /\ LucchettoVivo)'
    <2> SUFFICES ASSUME Inv1, LucchettoVivo, [Next]_vars PROVE LucchettoVivo'
      BY PassoTutti DEF Avanti
    <2>t. TypeOK
      BY DEF Inv1
    <2>u. ASSUME UNCHANGED ch PROVE StesseChiamate
      BY <2>u DEF StesseChiamate
    <2>1. CASE \E c \in Chiamanti : Chiama(c) \/ PassoChiamante(c) \/ Scade(c) \/ Scosso(c) \/ Ucciso(c)
      BY <2>t, <2>1, LucchettoChiamante DEF Ucciso
    <2>2. ASSUME NEW s \in Serventi,
                 \/ blkr3_offri(s) \/ blkr3_attendi(s) \/ Destato(s) \/ PrendiDati(s)
                 \/ Lavora(s) \/ DaiDati(s) \/ Copia(s) \/ blkr3_risposta(s)
                 \/ Muore(s) \/ blkr3_processo_morto(s)
          PROVE  LucchettoVivo'
      <3>1. CASE ch' = ch /\ detentore' = detentore
        BY <2>t, <2>u, <3>1, LucchettoServente
      <3>2. CASE blkr3_risposta(s)
        <4>1. detentore' = detentore
          BY <3>2 DEF blkr3_risposta
        <4>2. ch' = ch \/ \E x : ch' = [ch EXCEPT ![x].sonno = FALSE]
          BY <3>2 DEF blkr3_risposta
        <4>3. StesseChiamate
          <5>1. CASE ch' = ch
            BY <2>u, <5>1
          <5>2. ASSUME NEW x, ch' = [ch EXCEPT ![x].sonno = FALSE]  PROVE StesseChiamate
            BY <2>t, <5>2 DEF TypeOK, Chiamate, StesseChiamate
          <5> QED  BY <4>2, <5>1, <5>2
        <4> QED  BY <2>t, <4>1, <4>3, LucchettoServente
      <3>3. CASE blkr3_processo_morto(s)
        <4>1. Tolti(Suoi(s)) /\ Suoi(s) \in SUBSET Posti /\ detentore' = detentore
          BY <3>3 DEF blkr3_processo_morto, Suoi
        <4>2. StesseChiamate
          BY <2>t, <4>1, ToltiCampi
        <4> QED  BY <2>t, <4>1, <4>2, LucchettoServente
      <3> QED
        BY <2>2, <3>1, <3>2, <3>3 DEF blkr3_offri, blkr3_attendi, Destato, PrendiDati, Lavora,
           DaiDati, Copia, CopiaFuori, CopiaDentro, Muore
    <2>3. ASSUME NEW i \in Posti, blkr3_espelli(i)  PROVE LucchettoVivo'
      <3>1. Tolti({i}) /\ detentore' = detentore
        BY <2>3 DEF blkr3_espelli
      <3>2. StesseChiamate
        BY <2>t, <3>1, ToltiCampi
      <3> QED  BY <2>t, <3>1, <3>2, LucchettoServente
    <2>4. CASE UNCHANGED vars
      BY <2>t, <2>u, <2>4, LucchettoServente DEF vars
    <2> QED  BY <2>1, <2>2, <2>3, <2>4 DEF Next
  <1> QED  BY <1>1, <1>2, PTL DEF Spec

=============================================================================
