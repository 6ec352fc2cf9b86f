----------------------------- MODULE TubiProofs -----------------------------
(***************************************************************************)
(* Nobody sleeps in vain on a pipe, for every number of threads, programs, *)
(* pipes and descriptors, every size of the ring and of the arrays of      *)
(* waiters: what kernel/ipc/pipe.c, include/attese.h and sys_poll owe a    *)
(* thread they put to sleep.  And, in the second half, through the ring,   *)
(* the counts of its ends, the descriptors of all the programs and the     *)
(* calls under way, a pipe is the queue of bytes of module Tubo.           *)
(***************************************************************************)
EXTENDS Tubi, FiniteSetTheorems, WellFoundedInduction, TLAPS

-----------------------------------------------------------------------------
(* Types.                                                                  *)

Lati == {"L", "S"}
Byte == Seq(Nat)
Anelli == [usata : BOOLEAN, testa : Nat, quanti : 0 .. Dim, lettori : Nat, scrittori : Nat,
           buf : [0 .. Dim - 1 -> Byte]]
Descrittori == {Libero, UnFile} \cup [tipo : {"R", "W"}, h : Tubi]
Voci == {<<>>} \cup UNION {[S -> SUBSET {"IN", "OUT"}] : S \in SUBSET Numeri}
Esiti == {"no", "letto", "scritto", "fine", "rotto", "riprova", "altro", "pronto"}
Resi == [che : Esiti, dati : Seq(Byte)]
Luoghi == {"non nato", "fuori", "gira", "cresce", "alloca", "dorme", "desto", "pipe r", "pipe w",
           "dup", "chiude", "esce", "morto"}
Quadri == [st : Luoghi, op : {"no", "R", "W", "poll", "file"}, h : Tubi \cup {0},
           fd : Numeri \cup {0}, n : Nat, nb : BOOLEAN, c : Nat, voci : Voci,
           tempo : {"mai", "poi", "scaduto"}, vuole : Nat, reso : Resi]

\* The type of every variable.
TypeOK ==
    /\ pipe \in [Tubi -> Anelli]
    /\ att \in [Tubi -> [Lati -> SUBSET Fili]]
    /\ posti \in [Tubi -> [Lati -> Nat]]
    /\ fdt \in [Programmi -> [Numeri -> Descrittori]]
    /\ th \in [Fili -> Quadri]
    /\ interrotto \in SUBSET Fili
    /\ scritti \in Nat

\* What a thread in the middle of a call knows.
FormaDi(r) ==
    /\ r.st \in {"cresce", "alloca"} => r.op \in {"R", "W"}
    /\ r.st \in {"gira", "dorme", "desto"} => r.op \in {"R", "W", "poll"}
    /\ r.op \in {"R", "W"} => r.h \in Tubi
    /\ r.op = "poll" => /\ DOMAIN r.voci \subseteq Numeri
                        /\ \A n \in DOMAIN r.voci : r.voci[n] \in Desideri
    /\ r.st \in {"pipe r", "pipe w"} => r.h \in Tubi
    /\ r.st \in {"pipe w", "dup", "chiude"} => r.fd \in Numeri
    /\ r.st = "dup" => r.n \in Numeri

Forma == \A p \in Fili : FormaDi(th[p])

-----------------------------------------------------------------------------
(* Sleepers.                                                               *)

\* On a pipe that is like d a reader, a writer has to wait.
Vuoto(d) == d.usata /\ d.quanti = 0 /\ d.scrittori > 0
Pieno(d) == d.usata /\ d.quanti = Dim /\ d.lettori > 0

\* A pipe that is not in use has nobody in its lists.
Deserti == \A h \in Tubi : ~pipe[h].usata => att[h]["L"] = {} /\ att[h]["S"] = {}

\* Thread p has to wait at a side of pipe h, and is in the list that is woken
\* when it has not.
AttendeL(p, h) == Vuoto(pipe[h]) /\ p \in att[h]["L"]
AttendeS(p, h) == Pieno(pipe[h]) /\ p \in att[h]["S"]

\* A thread asleep in a read or a write waits for what it needs.
LettoScritto ==
    \A p \in Fili : th[p].st = "dorme" =>
        /\ th[p].op = "R" => AttendeL(p, th[p].h)
        /\ th[p].op = "W" => AttendeS(p, th[p].h)

Inv1 == TypeOK /\ Forma
Inv2 == Inv1 /\ Deserti /\ LettoScritto

-----------------------------------------------------------------------------
(* Pollers, where threads of one program do not race for a descriptor.     *)

\* One thread of a program at a time changes its table.
Soli ==
    \A p, q \in Fili :
        Programma[p] = Programma[q] /\ th[p].st \in Cambia /\ th[q].st \in Cambia => p = q

\* What a close is about to free is used by nobody else.
NonUsati ==
    \A p, q \in Fili : th[q].st = "chiude" /\ p # q /\ Programma[p] = Programma[q] =>
        ~Usa(p, th[q].fd)

\* The number a dup chose is still free, and the first descriptor of a pipe
\* being made is still that.
Posati ==
    \A p \in Fili :
        /\ th[p].st = "dup" => Tabella(p)[th[p].n].tipo = "no"
        /\ th[p].st = "pipe w" => Tabella(p)[th[p].fd] = [tipo |-> "R", h |-> th[p].h]

\* A poller asleep that the tick does not wake is in the list of every
\* descriptor it asked for, and has to wait for all of them.
Guardati ==
    \A p \in Fili : th[p].st = "dorme" /\ th[p].op = "poll" /\ ~th[p].nb =>
        \A n \in DOMAIN th[p].voci :
            LET d == Tabella(p)[n] IN
            \/ d.tipo = "R" /\ AttendeL(p, d.h)
            \/ d.tipo = "W" /\ AttendeS(p, d.h)

\* Descriptor n of poller p is an end of a pipe, and p asked for what that end
\* can give; every entry of every poll that names an end asks for that.
Chiesto(p, n) ==
    \/ Tabella(p)[n].tipo = "R" /\ "IN" \in th[p].voci[n]
    \/ Tabella(p)[n].tipo = "W" /\ "OUT" \in th[p].voci[n]

Sensati ==
    \A p \in Fili : th[p].op = "poll" =>
        \A n \in DOMAIN th[p].voci : Tabella(p)[n].tipo \in {"R", "W"} => Chiesto(p, n)

Tavole == Inv2 /\ Soli /\ NonUsati /\ Posati
Inv3 == Tavole /\ Guardati

-----------------------------------------------------------------------------
(* The parts a step is made of.                                            *)

\* The two lists of a pipe, written as a record.
LEMMA DueLati ==
    ASSUME NEW X, NEW a \in X, NEW b \in X
    PROVE  /\ [L |-> a, S |-> b] \in [Lati -> X]
           /\ [L |-> a, S |-> b]["L"] = a
           /\ [L |-> a, S |-> b]["S"] = b
  BY DEF Lati

\* A thread out of its call.
LEMMA FuoriTipo ==
    ASSUME NEW r \in Resi
    PROVE  /\ Fuori(r) \in Quadri
           /\ Fuori(r).st = "fuori" /\ Fuori(r).op = "no"
           /\ \A s \in Luoghi : [Fuori(r) EXCEPT !.st = s] \in Quadri
                             /\ [Fuori(r) EXCEPT !.st = s].st = s
                             /\ [Fuori(r) EXCEPT !.st = s].op = "no"
  BY DEF Fuori, Quadri, Luoghi, Voci

\* A call that gave nothing.
LEMMA ZittoTipo == Zitto \in Resi
  BY DEF Zitto, Resi, Esiti

\* A call returns: its thread is in ring 3, or on its way to the end.
LEMMA ResaTipo ==
    ASSUME NEW p, NEW che \in Esiti, NEW dati \in Seq(Byte)
    PROVE  /\ Resa(p, che, dati) \in Quadri
           /\ Resa(p, che, dati).st \in {"fuori", "esce"}
           /\ Resa(p, che, dati).op = "no"
  <1> DEFINE r == [che |-> che, dati |-> dati]
  <1>1. r \in Resi
    BY DEF Resi
  <1> HIDE DEF r
  <1>2. Resa(p, che, dati) = [Fuori(r) EXCEPT !.st = IF p \in interrotto THEN "esce" ELSE Fuori(r).st]
    BY DEF Resa, r
  <1>3. PICK s \in {"fuori", "esce"} : Resa(p, che, dati) = [Fuori(r) EXCEPT !.st = s]
    BY <1>1, <1>2, FuoriTipo
  <1>4. s \in Luoghi
    BY DEF Luoghi
  <1> QED  BY <1>1, <1>3, <1>4, FuoriTipo

\* What a thread out of its call was given.
LEMMA FuoriReso ==
    ASSUME NEW r
    PROVE  Fuori(r).reso = r /\ \A s : [Fuori(r) EXCEPT !.st = s].reso = r
  BY DEF Fuori

LEMMA ResaReso ==
    ASSUME NEW p, NEW che, NEW dati
    PROVE  Resa(p, che, dati).reso = [che |-> che, dati |-> dati]
  <1>1. PICK r : r = [che |-> che, dati |-> dati]
    OBVIOUS
  <1>2. Resa(p, che, dati) = [Fuori(r) EXCEPT !.st = IF p \in interrotto THEN "esce" ELSE Fuori(r).st]
    BY <1>1 DEF Resa
  <1>3. PICK s : Resa(p, che, dati) = [Fuori(r) EXCEPT !.st = s]
    BY <1>2
  <1> QED  BY <1>1, <1>3, FuoriReso

\* The threads after a call returned.
LEMMA FinisceTipo ==
    ASSUME TypeOK, NEW p \in Fili, NEW che \in Esiti
    PROVE  /\ Finisce(p, che) \in [Fili -> Quadri]
           /\ Finisce(p, che)[p].st \in {"fuori", "esce"} /\ Finisce(p, che)[p].op = "no"
           /\ \A q \in Fili \ {p} : Finisce(p, che)[q] = th[q]
  <1>0. <<>> \in Seq(Byte)
    OBVIOUS
  <1>1. PICK r : r = Resa(p, che, <<>>)
    OBVIOUS
  <1>2. r \in Quadri /\ r.st \in {"fuori", "esce"} /\ r.op = "no"
    BY <1>0, <1>1, ResaTipo
  <1>3. Finisce(p, che) = [th EXCEPT ![p] = r]
    BY <1>1 DEF Finisce
  <1> QED  BY <1>2, <1>3 DEF TypeOK

\* A thread goes on in its call.
LEMMA InTipo ==
    ASSUME TypeOK, NEW p \in Fili, NEW s \in Luoghi
    PROVE  /\ In(p, s) \in Quadri /\ In(p, s).st = s
           /\ In(p, s).op = th[p].op /\ In(p, s).h = th[p].h /\ In(p, s).fd = th[p].fd
           /\ In(p, s).n = th[p].n /\ In(p, s).nb = th[p].nb /\ In(p, s).voci = th[p].voci
           /\ In(p, s).reso = th[p].reso
  <1>1. th[p] \in Quadri
    BY DEF TypeOK
  <1> QED  BY <1>1 DEF In, Quadri

\* Those who are woken go on where they were.
LEMMA DestiTipo ==
    ASSUME NEW W, NEW TH \in [Fili -> Quadri]
    PROVE  /\ Desti(W, TH) \in [Fili -> Quadri]
           /\ \A q \in Fili :
                /\ Desti(W, TH)[q].st = IF q \in W /\ TH[q].st = "dorme" THEN "desto" ELSE TH[q].st
                /\ Desti(W, TH)[q].op = TH[q].op /\ Desti(W, TH)[q].h = TH[q].h
                /\ Desti(W, TH)[q].fd = TH[q].fd /\ Desti(W, TH)[q].n = TH[q].n
                /\ Desti(W, TH)[q].nb = TH[q].nb /\ Desti(W, TH)[q].voci = TH[q].voci
                /\ Desti(W, TH)[q].reso = TH[q].reso
                /\ q \notin W \/ TH[q].st # "dorme" => Desti(W, TH)[q] = TH[q]
  <1>1. \A q \in Fili : TH[q] \in Quadri
    OBVIOUS
  <1>2. ASSUME NEW r \in Quadri
        PROVE  /\ [r EXCEPT !.st = "desto"] \in Quadri /\ [r EXCEPT !.st = "desto"].st = "desto"
               /\ [r EXCEPT !.st = "desto"].op = r.op /\ [r EXCEPT !.st = "desto"].h = r.h
               /\ [r EXCEPT !.st = "desto"].fd = r.fd /\ [r EXCEPT !.st = "desto"].n = r.n
               /\ [r EXCEPT !.st = "desto"].nb = r.nb /\ [r EXCEPT !.st = "desto"].voci = r.voci
               /\ [r EXCEPT !.st = "desto"].reso = r.reso
    BY DEF Quadri, Luoghi
  <1> QED  BY <1>1, <1>2 DEF Desti

\* One thread p moves, the others stay where they are or are woken.
AltriPari(p) ==
    \A q \in Fili \ {p} :
        /\ th'[q].op = th[q].op /\ th'[q].h = th[q].h /\ th'[q].fd = th[q].fd
        /\ th'[q].n = th[q].n /\ th'[q].nb = th[q].nb /\ th'[q].voci = th[q].voci
        /\ th'[q].reso = th[q].reso
        /\ th'[q].st = th[q].st \/ (th[q].st = "dorme" /\ th'[q].st = "desto")
        /\ th'[q].st = "dorme" => th'[q] = th[q]

\* A step that moves p to r and wakes those in W.
LEMMA Muove ==
    ASSUME TypeOK, NEW p \in Fili, NEW r \in Quadri, NEW W,
           th' = Desti(W, [th EXCEPT ![p] = r])
    PROVE  /\ th' \in [Fili -> Quadri] /\ AltriPari(p)
           /\ r.st # "dorme" => th'[p] = r
           /\ \A q \in W \cap Fili : th'[q].st # "dorme"
  <1> DEFINE TH == [th EXCEPT ![p] = r]
  <1>1. TH \in [Fili -> Quadri] /\ TH[p] = r /\ \A q \in Fili \ {p} : TH[q] = th[q]
    BY DEF TypeOK
  <1>2. th' = Desti(W, TH)
    OBVIOUS
  <1> HIDE DEF TH
  <1>3. /\ th' \in [Fili -> Quadri]
        /\ \A q \in Fili :
                /\ th'[q].st = IF q \in W /\ TH[q].st = "dorme" THEN "desto" ELSE TH[q].st
                /\ th'[q].op = TH[q].op /\ th'[q].h = TH[q].h
                /\ th'[q].fd = TH[q].fd /\ th'[q].n = TH[q].n
                /\ th'[q].nb = TH[q].nb /\ th'[q].voci = TH[q].voci
                /\ th'[q].reso = TH[q].reso
                /\ q \notin W \/ TH[q].st # "dorme" => th'[q] = TH[q]
    <2>1. TH \in [Fili -> Quadri]
      BY <1>1
    <2> QED  BY ONLY <2>1, <1>2, DestiTipo
  <1>4. ASSUME NEW q \in Fili \ {p}
        PROVE  /\ th'[q].op = th[q].op /\ th'[q].h = th[q].h /\ th'[q].fd = th[q].fd
               /\ th'[q].n = th[q].n /\ th'[q].nb = th[q].nb /\ th'[q].voci = th[q].voci
               /\ th'[q].reso = th[q].reso
               /\ th'[q].st = th[q].st \/ (th[q].st = "dorme" /\ th'[q].st = "desto")
               /\ th'[q].st = "dorme" => th'[q] = th[q]
    <2>1. TH[q] = th[q]
      BY <1>1
    <2> QED  BY <1>3, <2>1
  <1>5. AltriPari(p)
    BY <1>4 DEF AltriPari
  <1> QED  BY <1>1, <1>3, <1>5

\* A step that moves p to r and wakes nobody.
LEMMA MuoveUno ==
    ASSUME TypeOK, NEW p \in Fili, NEW r \in Quadri, th' = [th EXCEPT ![p] = r]
    PROVE  th' \in [Fili -> Quadri] /\ AltriPari(p) /\ th'[p] = r
  BY DEF TypeOK, AltriPari

\* The threads' frames after such a step.
LEMMA FormaPasso ==
    ASSUME Forma, NEW p \in Fili, AltriPari(p), FormaDi(th'[p])
    PROVE  Forma'
  <1> SUFFICES ASSUME NEW q \in Fili PROVE FormaDi(th'[q])
    BY DEF Forma, FormaDi
  <1>1. CASE q = p
    BY <1>1
  <1>2. CASE q # p
    <2>1. FormaDi(th[q])
      BY DEF Forma
    <2>2. /\ th'[q].op = th[q].op /\ th'[q].h = th[q].h /\ th'[q].fd = th[q].fd
          /\ th'[q].n = th[q].n /\ th'[q].voci = th[q].voci
          /\ th'[q].st = th[q].st \/ (th[q].st = "dorme" /\ th'[q].st = "desto")
      BY <1>2 DEF AltriPari
    <2> QED  BY <2>1, <2>2 DEF FormaDi
  <1> QED  BY <1>1, <1>2

\* What a step owes the threads asleep at pipe h, p apart: they are woken, or
\* still have to wait and are still in the list.
Salvi(p) ==
    \A h \in Tubi : \A q \in Fili \ {p} : th'[q].st = "dorme" =>
        /\ AttendeL(q, h) => Vuoto(pipe'[h]) /\ q \in att'[h]["L"]
        /\ AttendeS(q, h) => Pieno(pipe'[h]) /\ q \in att'[h]["S"]

\* The sleepers in a read or a write, after a step that keeps that promise.
LEMMA LettoScrittoPasso ==
    ASSUME Inv2, NEW p \in Fili, Salvi(p),
           \A q \in Fili \ {p} : th'[q].st = "dorme" => th'[q] = th[q],
           th'[p].st = "dorme" => /\ th'[p].op = "R" => AttendeL(p, th[p].h)'
                                  /\ th'[p].op = "W" => AttendeS(p, th[p].h)'
    PROVE  LettoScritto'
  <1> SUFFICES ASSUME NEW q \in Fili, th'[q].st = "dorme"
               PROVE  /\ th'[q].op = "R" => AttendeL(q, th[q].h)'
                      /\ th'[q].op = "W" => AttendeS(q, th[q].h)'
    BY DEF LettoScritto
  <1>1. CASE q = p
    BY <1>1
  <1>2. CASE q # p
    <2>1. th'[q] = th[q]
      BY <1>2
    <2>2. th[q].op \in {"R", "W"} => th[q].h \in Tubi
      BY DEF Inv2, Inv1, Forma, FormaDi
    <2>3. /\ th[q].op = "R" => AttendeL(q, th[q].h)
          /\ th[q].op = "W" => AttendeS(q, th[q].h)
      BY <2>1 DEF Inv2, LettoScritto
    <2> QED  BY <1>2, <2>1, <2>2, <2>3 DEF Salvi, AttendeL, AttendeS
  <1> QED  BY <1>1, <1>2

\* Pipes and lists that do not change.
LEMMA Fermi ==
    ASSUME Inv2, NEW p \in Fili, UNCHANGED <<pipe, att>>
    PROVE  Salvi(p) /\ Deserti'
  BY DEF Salvi, AttendeL, AttendeS, Inv2, Deserti

-----------------------------------------------------------------------------
(* What becomes of a pipe.                                                 *)

\* A pipe given up.
LEMMA VergineTipo ==
    ASSUME NEW d \in Anelli
    PROVE  Vergine(d) \in Anelli /\ ~Vergine(d).usata
  <1>1. <<>> \in Byte /\ 0 \in 0 .. Dim
    BY MisureTubi DEF Byte
  <1>2. [i \in 0 .. Dim - 1 |-> <<>>] \in [0 .. Dim - 1 -> Byte]
    BY <1>1
  <1>3. PICK B \in [0 .. Dim - 1 -> Byte] : B = [i \in 0 .. Dim - 1 |-> <<>>]
    BY <1>2
  <1>4. Vergine(d) = [d EXCEPT !.usata = FALSE, !.testa = 0, !.quanti = 0,
                               !.lettori = 0, !.scrittori = 0, !.buf = B]
    BY <1>3 DEF Vergine
  <1>5. Vergine(d) = [usata |-> FALSE, testa |-> 0, quanti |-> 0, lettori |-> 0, scrittori |-> 0,
                      buf |-> B]
    BY <1>4 DEF Anelli
  <1> QED  BY <1>1, <1>5 DEF Anelli

\* One end fewer: whoever had to wait still has to, unless it was the last end
\* of the other side.
LEMMA ChiusoFatti ==
    ASSUME NEW P \in [Tubi -> Anelli], NEW h \in Tubi, NEW tipo \in {"R", "W"}
    PROVE  /\ Chiuso(P, h, tipo) \in [Tubi -> Anelli]
           /\ \A k \in Tubi :
                /\ Vuoto(P[k]) => \/ Vuoto(Chiuso(P, h, tipo)[k])
                                  \/ k = h /\ tipo = "W" /\ P[k].scrittori <= 1
                /\ Pieno(P[k]) => \/ Pieno(Chiuso(P, h, tipo)[k])
                                  \/ k = h /\ tipo = "R" /\ P[k].lettori <= 1
                /\ k # h => Chiuso(P, h, tipo)[k] = P[k]
  <1>0. PICK C : C = Chiuso(P, h, tipo)
    OBVIOUS
  <1>1. h # 0 /\ P[h] \in Anelli
    BY MisureTubi
  <1>2. CASE ~P[h].usata
    <2>1. C = P
      BY <1>0, <1>2 DEF Chiuso
    <2> QED  BY <1>0, <2>1
  <1>3. CASE P[h].usata
    <2> DEFINE d == IF tipo = "R" THEN [P[h] EXCEPT !.lettori = Meno(P[h].lettori)]
                    ELSE [P[h] EXCEPT !.scrittori = Meno(P[h].scrittori)]
    <2>1. Meno(P[h].lettori) \in Nat /\ Meno(P[h].scrittori) \in Nat
      BY <1>1 DEF Meno, Anelli
    <2>2. /\ d \in Anelli /\ d.usata /\ d.quanti = P[h].quanti
          /\ d.lettori = IF tipo = "R" THEN Meno(P[h].lettori) ELSE P[h].lettori
          /\ d.scrittori = IF tipo = "W" THEN Meno(P[h].scrittori) ELSE P[h].scrittori
      BY <1>1, <1>3, <2>1 DEF Anelli
    <2>3. C = [P EXCEPT ![h] = IF d.lettori = 0 /\ d.scrittori = 0 THEN Vergine(d) ELSE d]
      BY <1>0, <1>1, <1>3 DEF Chiuso
    <2> HIDE DEF d
    <2>4. /\ C \in [Tubi -> Anelli] /\ \A k \in Tubi \ {h} : C[k] = P[k]
          /\ ~(d.lettori = 0 /\ d.scrittori = 0) => C[h] = d
      BY <2>2, <2>3, VergineTipo
    <2>5. P[h].lettori \in Nat /\ P[h].scrittori \in Nat
      BY <1>1 DEF Anelli
    <2>6. /\ Vuoto(P[h]) => Vuoto(C[h]) \/ (tipo = "W" /\ P[h].scrittori <= 1)
          /\ Pieno(P[h]) => Pieno(C[h]) \/ (tipo = "R" /\ P[h].lettori <= 1)
      BY <2>2, <2>4, <2>5 DEF Vuoto, Pieno, Meno
    <2> QED  BY <1>0, <2>4, <2>6
  <1> QED  BY <1>2, <1>3

\* What is left of the lists: of a side nobody can be woken at, nothing.
LEMMA DimenticatiFatti ==
    ASSUME TypeOK, NEW P \in [Tubi -> Anelli]
    PROVE  /\ Dimenticati(P, att) \in [Tubi -> [Lati -> SUBSET Fili]]
           /\ \A h \in Tubi :
                /\ Vuoto(P[h]) => Dimenticati(P, att)[h]["L"] = att[h]["L"]
                /\ Pieno(P[h]) => Dimenticati(P, att)[h]["S"] = att[h]["S"]
                /\ ~P[h].usata => /\ Dimenticati(P, att)[h]["L"] = {}
                                  /\ Dimenticati(P, att)[h]["S"] = {}
  <1>1. ASSUME NEW h \in Tubi
        PROVE  \E a, b \in SUBSET Fili :
                 /\ Dimenticati(P, att)[h] = [L |-> a, S |-> b]
                 /\ Vuoto(P[h]) => a = att[h]["L"]
                 /\ Pieno(P[h]) => b = att[h]["S"]
                 /\ ~P[h].usata => a = {} /\ b = {}
    <2>1. att[h]["L"] \in SUBSET Fili /\ att[h]["S"] \in SUBSET Fili /\ P[h] \in Anelli
      BY DEF TypeOK, Lati
    <2>2. CASE ~P[h].usata
      <3>1. Dimenticati(P, att)[h] = [L |-> {}, S |-> {}]
        BY <2>2 DEF Dimenticati
      <3> QED  BY <2>2, <3>1 DEF Vuoto, Pieno
    <2>3. CASE P[h].usata
      <3> DEFINE a == IF P[h].scrittori = 0 THEN {} ELSE att[h]["L"]
                 b == IF P[h].lettori = 0 THEN {} ELSE att[h]["S"]
      <3>1. Dimenticati(P, att)[h] = [L |-> a, S |-> b]
        BY <2>3 DEF Dimenticati
      <3>2. /\ a \in SUBSET Fili /\ b \in SUBSET Fili
            /\ Vuoto(P[h]) => a = att[h]["L"]
            /\ Pieno(P[h]) => b = att[h]["S"]
        BY <2>1 DEF Vuoto, Pieno, Anelli
      <3> HIDE DEF a, b
      <3> QED  BY <2>3, <3>1, <3>2
    <2> QED  BY <2>2, <2>3
  <1>2. ASSUME NEW h \in Tubi
        PROVE  /\ Dimenticati(P, att)[h] \in [Lati -> SUBSET Fili]
               /\ Vuoto(P[h]) => Dimenticati(P, att)[h]["L"] = att[h]["L"]
               /\ Pieno(P[h]) => Dimenticati(P, att)[h]["S"] = att[h]["S"]
               /\ ~P[h].usata => /\ Dimenticati(P, att)[h]["L"] = {}
                                 /\ Dimenticati(P, att)[h]["S"] = {}
    <2>1. PICK a \in SUBSET Fili, b \in SUBSET Fili :
                 /\ Dimenticati(P, att)[h] = [L |-> a, S |-> b]
                 /\ Vuoto(P[h]) => a = att[h]["L"]
                 /\ Pieno(P[h]) => b = att[h]["S"]
                 /\ ~P[h].usata => a = {} /\ b = {}
      BY <1>1
    <2>2. /\ [L |-> a, S |-> b] \in [Lati -> SUBSET Fili]
          /\ [L |-> a, S |-> b]["L"] = a /\ [L |-> a, S |-> b]["S"] = b
      BY DueLati
    <2> QED  BY <2>1, <2>2
  <1>3. Dimenticati(P, att) = [h \in Tubi |-> Dimenticati(P, att)[h]]
    BY DEF Dimenticati
  <1> QED  BY <1>2, <1>3

\* The pipes become P and the lists what is left of them: the sleepers are safe
\* if those who do not have to wait any more are woken.
LEMMA ChiusiSalvi ==
    ASSUME TypeOK, NEW p \in Fili, NEW P \in [Tubi -> Anelli],
           pipe' = P, att' = Dimenticati(P, att),
           \A h \in Tubi : \A q \in Fili \ {p} : th'[q].st = "dorme" =>
              /\ AttendeL(q, h) => Vuoto(P[h])
              /\ AttendeS(q, h) => Pieno(P[h])
    PROVE  /\ Salvi(p) /\ Deserti'
           /\ pipe' \in [Tubi -> Anelli] /\ att' \in [Tubi -> [Lati -> SUBSET Fili]]
  <1>1. /\ att' \in [Tubi -> [Lati -> SUBSET Fili]]
        /\ \A h \in Tubi : /\ Vuoto(P[h]) => att'[h]["L"] = att[h]["L"]
                           /\ Pieno(P[h]) => att'[h]["S"] = att[h]["S"]
                           /\ ~P[h].usata => att'[h]["L"] = {} /\ att'[h]["S"] = {}
    BY DimenticatiFatti
  <1>2. Salvi(p)
    BY <1>1 DEF Salvi, AttendeL, AttendeS
  <1>3. Deserti'
    BY <1>1 DEF Deserti
  <1> QED  BY <1>1, <1>2, <1>3

\* An end is closed, and those at the other side are told if it was the last.
LEMMA ChiusoSalvi ==
    ASSUME TypeOK, NEW p \in Fili, NEW h \in Tubi, NEW tipo \in {"R", "W"},
           pipe' = Chiuso(pipe, h, tipo), att' = Dimenticati(pipe', att),
           \A q \in Svegliati(h, tipo) \cap Fili : th'[q].st # "dorme"
    PROVE  /\ Salvi(p) /\ Deserti'
           /\ pipe' \in [Tubi -> Anelli] /\ att' \in [Tubi -> [Lati -> SUBSET Fili]]
  <1>1. PICK P : P = pipe'
    OBVIOUS
  <1>2. /\ P \in [Tubi -> Anelli]
        /\ \A k \in Tubi :
                /\ Vuoto(pipe[k]) => Vuoto(P[k]) \/ (k = h /\ tipo = "W" /\ pipe[k].scrittori <= 1)
                /\ Pieno(pipe[k]) => Pieno(P[k]) \/ (k = h /\ tipo = "R" /\ pipe[k].lettori <= 1)
    BY <1>1, ChiusoFatti DEF TypeOK
  <1>3. /\ tipo = "W" /\ pipe[h].scrittori <= 1 => Svegliati(h, tipo) = att[h]["L"]
        /\ tipo = "R" /\ pipe[h].lettori <= 1 => Svegliati(h, tipo) = att[h]["S"]
    BY DEF Svegliati
  <1>4. ASSUME NEW k \in Tubi, NEW q \in Fili \ {p}, th'[q].st = "dorme"
        PROVE  /\ AttendeL(q, k) => Vuoto(P[k])
               /\ AttendeS(q, k) => Pieno(P[k])
    BY <1>2, <1>3, <1>4 DEF AttendeL, AttendeS
  <1> QED  BY <1>1, <1>2, <1>4, ChiusiSalvi

\* Both ends of a pipe that got no descriptors are given back.
LEMMA RidatiSalvi ==
    ASSUME TypeOK, NEW p \in Fili, NEW h \in Tubi,
           pipe' = Chiuso(Chiuso(pipe, h, "R"), h, "W"), att' = Dimenticati(pipe', att),
           \A q \in (att[h]["L"] \cup att[h]["S"]) \cap Fili : th'[q].st # "dorme"
    PROVE  /\ Salvi(p) /\ Deserti'
           /\ pipe' \in [Tubi -> Anelli] /\ att' \in [Tubi -> [Lati -> SUBSET Fili]]
  <1>1. PICK P1 : P1 = Chiuso(pipe, h, "R")
    OBVIOUS
  <1>2. P1 \in [Tubi -> Anelli] /\ \A k \in Tubi : k # h => P1[k] = pipe[k]
    BY <1>1, ChiusoFatti DEF TypeOK
  <1>3. PICK P : P = Chiuso(P1, h, "W")
    OBVIOUS
  <1>4. P \in [Tubi -> Anelli] /\ \A k \in Tubi : k # h => P[k] = P1[k]
    BY <1>2, <1>3, ChiusoFatti
  <1>5. ASSUME NEW k \in Tubi, NEW q \in Fili \ {p}, th'[q].st = "dorme"
        PROVE  /\ AttendeL(q, k) => Vuoto(P[k])
               /\ AttendeS(q, k) => Pieno(P[k])
    BY <1>2, <1>4, <1>5 DEF AttendeL, AttendeS
  <1>6. pipe' = P
    BY <1>1, <1>3
  <1> QED  BY <1>4, <1>5, <1>6, ChiusiSalvi

-----------------------------------------------------------------------------
(* Descriptors.                                                            *)

\* Every set of natural numbers with an element has a least one.
LEMMA MinimoEsiste ==
    ASSUME NEW S, S \subseteq Nat, S # {}
    PROVE  \E x \in S : \A y \in S : x <= y
  <1> DEFINE R == {ss \in Nat \X Nat : ss[1] < ss[2]}
  <1>1. OpToRel(<, Nat) = R
    BY DEF OpToRel
  <1>2. IsWellFoundedOn(R, Nat)
    BY <1>1, NatLessThanWellFounded
  <1>3. \E x \in S : \A y \in S : ~(<<y, x>> \in R)
    <2> HIDE DEF R
    <2> QED  BY <1>2, WFMin, Zenon
  <1>4. PICK x \in S : \A y \in S : ~(<<y, x>> \in R)
    BY <1>3
  <1>5. \A y \in S : x <= y
    <2> TAKE y \in S
    <2>1. x \in Nat /\ y \in Nat /\ ~(<<y, x>> \in R)
      BY <1>4
    <2>2. y < x => <<y, x>> \in R
      BY <2>1, <<y, x>> \in Nat \X Nat
    <2> QED  BY <2>1, <2>2
  <1> QED  BY <1>5

\* find_free_fd gives a number that is free.
LEMMA NumeroLibero ==
    ASSUME TypeOK, NEW p \in Fili, find_free_fd(p) # 0
    PROVE  find_free_fd(p) \in Numeri /\ Tabella(p)[find_free_fd(p)].tipo = "no"
  <1> DEFINE S == {n \in Numeri : Tabella(p)[n].tipo = "no"}
  <1>1. S \subseteq Nat
    BY MisureTubi
  <1>2. S # {} /\ find_free_fd(p) = CHOOSE n \in S : \A m \in S : n <= m
    BY DEF find_free_fd
  <1>3. \E n \in S : \A m \in S : n <= m
    <2> HIDE DEF S
    <2> QED  BY <1>1, <1>2, MinimoEsiste
  <1>4. find_free_fd(p) \in S
    <2> HIDE DEF S
    <2> QED  BY <1>2, <1>3
  <1> QED  BY <1>4

\* A descriptor: nothing, a file, or an end of a pipe.
LEMMA DescrittoreTipo ==
    ASSUME TypeOK, NEW p \in Fili, NEW n \in Numeri
    PROVE  /\ Programma[p] \in Programmi
           /\ Tabella(p)[n] \in Descrittori
           /\ Tabella(p)[n].tipo \in {"no", "file", "R", "W"}
           /\ Tabella(p)[n].tipo \in {"R", "W"} => Tabella(p)[n].h \in Tubi
           /\ Tabella(p)[n].h \in Tubi \cup {0}
           /\ Tabella(p)[n].tipo \in {"no", "file"} => Tabella(p)[n].h = 0
  <1>1. Programma[p] \in Programmi
    BY DEF Programmi
  <1>2. Tabella(p)[n] \in Descrittori
    BY <1>1 DEF Tabella, TypeOK
  <1> QED  BY <1>1, <1>2 DEF Descrittori, Libero, UnFile

\* The table after one number of it was written.
LEMMA TabellaScritta ==
    ASSUME TypeOK, NEW p \in Fili, NEW n \in Numeri, NEW x \in Descrittori,
           fdt' = [fdt EXCEPT ![Programma[p]][n] = x]
    PROVE  /\ fdt' \in [Programmi -> [Numeri -> Descrittori]]
           /\ \A g \in Programmi : \A m \in Numeri :
                fdt'[g][m] = IF g = Programma[p] /\ m = n THEN x ELSE fdt[g][m]
  BY DEF TypeOK, Programmi

-----------------------------------------------------------------------------
(* The steps of a thread.                                                  *)

\* What every step of a thread p does to the others, and to itself.
Effetto(p) ==
    /\ TypeOK' /\ AltriPari(p) /\ FormaDi(th'[p])
    /\ Salvi(p) /\ Deserti'
    /\ th'[p].st = "dorme" => /\ th'[p].op = "R" => AttendeL(p, th[p].h)'
                              /\ th'[p].op = "W" => AttendeS(p, th[p].h)'

\* Such a step keeps the invariant.
LEMMA EffettoInv2 ==
    ASSUME Inv2, NEW p \in Fili, Effetto(p)
    PROVE  Inv2'
  <1>1. Forma'
    BY FormaPasso DEF Effetto, Inv2, Inv1
  <1>2. LettoScritto'
    BY LettoScrittoPasso DEF Effetto, AltriPari
  <1> QED  BY <1>1, <1>2 DEF Effetto, Inv2, Inv1

\* A step that moves p alone, and nothing of the pipes.
LEMMA MuoveEffetto ==
    ASSUME Inv2, NEW p \in Fili, NEW r \in Quadri, FormaDi(r), r.st # "dorme",
           th' = [th EXCEPT ![p] = r], UNCHANGED <<pipe, att, interrotto>>,
           posti' \in [Tubi -> [Lati -> Nat]],
           fdt' \in [Programmi -> [Numeri -> Descrittori]], scritti' \in Nat
    PROVE  Effetto(p) /\ th'[p] = r
  <1>1. th' \in [Fili -> Quadri] /\ AltriPari(p) /\ th'[p] = r
    BY MuoveUno DEF Inv2, Inv1
  <1>2. TypeOK'
    BY <1>1 DEF TypeOK, Inv2, Inv1
  <1> QED  BY <1>1, <1>2, Fermi DEF Effetto

\* A call that returns, and nothing of the pipes.
LEMMA FinisceEffetto ==
    ASSUME Inv2, NEW p \in Fili, NEW che \in Esiti, th' = Finisce(p, che),
           UNCHANGED <<pipe, att, interrotto>>, posti' \in [Tubi -> [Lati -> Nat]],
           fdt' \in [Programmi -> [Numeri -> Descrittori]], scritti' \in Nat
    PROVE  Effetto(p) /\ th'[p].st \in {"fuori", "esce"} /\ th'[p].op = "no"
  <1>0. <<>> \in Seq(Byte)
    OBVIOUS
  <1>1. PICK r : r = Resa(p, che, <<>>)
    OBVIOUS
  <1>2. r \in Quadri /\ r.st \in {"fuori", "esce"} /\ r.op = "no"
    BY <1>0, <1>1, ResaTipo
  <1>3. th' = [th EXCEPT ![p] = r]
    BY <1>1 DEF Finisce
  <1>4. FormaDi(r) /\ r.st # "dorme"
    BY <1>2 DEF FormaDi
  <1> QED  BY <1>2, <1>3, <1>4, MuoveEffetto

\* attese_cresci, the first section.
LEMMA CresceGuardaEffetto ==
    ASSUME Inv2, NEW p \in Fili, CresceGuarda(p)
    PROVE  Effetto(p) /\ UNCHANGED fdt /\ th'[p].st = "alloca" /\ th'[p].op = th[p].op
           /\ th'[p].fd = th[p].fd
  <1>1. th[p] \in Quadri /\ th[p].st = "cresce" /\ TypeOK /\ FormaDi(th[p])
    BY DEF CresceGuarda, Inv2, Inv1, TypeOK, Forma
  <1>2. posti[th[p].h][Lato(th[p].op)] \in Nat
    BY <1>1 DEF FormaDi, Lato, Lati, TypeOK
  <1>3. PICK m \in Nat : m = posti[th[p].h][Lato(th[p].op)]
    BY <1>2
  <1> DEFINE v == IF m = 0 THEN Blocco ELSE 2 * m
  <1>8. v \in Nat
    BY MisureTubi
  <1>9. th' = [th EXCEPT ![p].st = "alloca", ![p].vuole = v]
    BY <1>3 DEF CresceGuarda
  <1> HIDE DEF v
  <1>4. PICK r : r = [th[p] EXCEPT !.st = "alloca", !.vuole = v]
    OBVIOUS
  <1>5. r \in Quadri /\ r.st = "alloca" /\ r.op = th[p].op /\ r.h = th[p].h /\ r.voci = th[p].voci
        /\ r.fd = th[p].fd
    BY <1>1, <1>4, <1>8 DEF Quadri, Luoghi
  <1>6. th' = [th EXCEPT ![p] = r]
    BY <1>1, <1>9, <1>4 DEF TypeOK
  <1>7. FormaDi(r) /\ r.st # "dorme"
    BY <1>1, <1>5 DEF FormaDi
  <1> QED  BY <1>1, <1>5, <1>6, <1>7, MuoveEffetto DEF CresceGuarda, TypeOK

\* attese_cresci, the second section, or no memory.
LEMMA CrescePosaEffetto ==
    ASSUME Inv2, NEW p \in Fili, CrescePosa(p)
    PROVE  Effetto(p) /\ UNCHANGED fdt /\ th'[p].st \in {"gira", "fuori", "esce"}
           /\ (th'[p].op = "no" \/ (th'[p].op = th[p].op /\ th'[p].fd = th[p].fd))
  <1>1. th[p] \in Quadri /\ th[p].st = "alloca" /\ TypeOK /\ FormaDi(th[p])
    BY DEF CrescePosa, Inv2, Inv1, TypeOK, Forma
  <1>2. th[p].h \in Tubi /\ Lato(th[p].op) \in Lati /\ th[p].vuole \in Nat
    BY <1>1 DEF FormaDi, Lato, Lati, Quadri
  <1>3. CASE /\ posti' = [posti EXCEPT ![th[p].h][Lato(th[p].op)] =
                            IF @ < th[p].vuole THEN th[p].vuole ELSE @]
             /\ th' = [th EXCEPT ![p] = [In(p, "gira") EXCEPT !.vuole = 0]]
    <2>1. posti' \in [Tubi -> [Lati -> Nat]]
      BY <1>1, <1>2, <1>3 DEF TypeOK
    <2>2. PICK i : i = In(p, "gira")
      OBVIOUS
    <2>3. /\ i \in Quadri /\ i.st = "gira" /\ i.op = th[p].op /\ i.h = th[p].h
          /\ i.voci = th[p].voci /\ i.fd = th[p].fd
      BY <1>1, <2>2, InTipo DEF Luoghi
    <2>4. PICK r : r = [i EXCEPT !.vuole = 0]
      OBVIOUS
    <2>5. /\ r \in Quadri /\ r.st = "gira" /\ r.op = th[p].op /\ r.h = th[p].h
          /\ r.voci = th[p].voci /\ r.fd = th[p].fd
      BY <2>3, <2>4 DEF Quadri
    <2>6. FormaDi(r) /\ r.st # "dorme"
      BY <1>1, <2>5 DEF FormaDi
    <2>7. th' = [th EXCEPT ![p] = r]
      BY <1>3, <2>2, <2>4
    <2> QED  BY <1>1, <2>1, <2>5, <2>6, <2>7, MuoveEffetto DEF CrescePosa, TypeOK
  <1>4. CASE th' = Finisce(p, "altro") /\ UNCHANGED posti
    <2>1. "altro" \in Esiti
      BY DEF Esiti
    <2> QED  BY <1>1, <1>4, <2>1, FinisceEffetto DEF CrescePosa, TypeOK
  <1> QED  BY <1>3, <1>4 DEF CrescePosa

\* sys_pipe begins: the pipe is nobody's yet, and nobody waits for it.
LEMMA PipeCreaEffetto ==
    ASSUME Inv2, NEW p \in Fili, PipeCrea(p)
    PROVE  Effetto(p) /\ UNCHANGED fdt /\ th'[p].st = "pipe r" /\ th'[p].op = "no"
  <1>0. TypeOK /\ Deserti
    BY DEF Inv2, Inv1
  <1>1. PICK h \in Tubi :
         /\ ~pipe[h].usata
         /\ pipe' = [pipe EXCEPT ![h] = [Vergine(pipe[h]) EXCEPT !.usata = TRUE, !.lettori = 1,
                                                                 !.scrittori = 1]]
         /\ att' = [att EXCEPT ![h] = [L |-> {}, S |-> {}]]
         /\ th' = [th EXCEPT ![p] = [Fuori(Zitto) EXCEPT !.st = "pipe r", !.h = h]]
    BY DEF PipeCrea
  <1>2. PICK d : d = [Vergine(pipe[h]) EXCEPT !.usata = TRUE, !.lettori = 1, !.scrittori = 1]
    OBVIOUS
  <1>3. d \in Anelli /\ d.usata
    <2>1. PICK v \in Anelli : v = Vergine(pipe[h])
      BY <1>0, VergineTipo DEF TypeOK
    <2>2. d = [v EXCEPT !.usata = TRUE, !.lettori = 1, !.scrittori = 1]
      BY <1>2, <2>1
    <2> QED  BY <2>2 DEF Anelli
  <1>4. pipe' \in [Tubi -> Anelli] /\ pipe'[h] = d /\ \A k \in Tubi \ {h} : pipe'[k] = pipe[k]
    BY <1>0, <1>1, <1>2, <1>3 DEF TypeOK
  <1>5. PICK a \in [Lati -> SUBSET Fili] : a = [L |-> {}, S |-> {}]
    BY DueLati
  <1>6. /\ att' \in [Tubi -> [Lati -> SUBSET Fili]]
        /\ \A k \in Tubi \ {h} : att'[k] = att[k]
    BY <1>0, <1>1, <1>5 DEF TypeOK
  <1>7. Salvi(p)
    <2> SUFFICES ASSUME NEW k \in Tubi, NEW q \in Fili \ {p}, AttendeL(q, k) \/ AttendeS(q, k)
                 PROVE  k # h
      BY <1>4, <1>6 DEF Salvi, AttendeL, AttendeS
    <2> QED  BY <1>1 DEF AttendeL, AttendeS, Vuoto, Pieno
  <1>8. Deserti'
    BY <1>0, <1>3, <1>4, <1>6 DEF Deserti
  <1>9. PICK r : r = [Fuori(Zitto) EXCEPT !.st = "pipe r", !.h = h]
    OBVIOUS
  <1>10. r \in Quadri /\ r.st = "pipe r" /\ r.op = "no" /\ r.h = h
    <2>1. PICK f \in Quadri : f = Fuori(Zitto) /\ f.op = "no"
      BY FuoriTipo, ZittoTipo
    <2>2. r = [f EXCEPT !.st = "pipe r", !.h = h]
      BY <1>9, <2>1
    <2> QED  BY <2>1, <2>2 DEF Quadri, Luoghi
  <1>11. th' \in [Fili -> Quadri] /\ AltriPari(p) /\ th'[p] = r
    BY <1>0, <1>1, <1>9, <1>10, MuoveUno
  <1>12. FormaDi(r)
    BY <1>10 DEF FormaDi
  <1>13. TypeOK' /\ UNCHANGED fdt
    BY <1>0, <1>4, <1>6, <1>11 DEF PipeCrea, TypeOK
  <1> QED  BY <1>7, <1>8, <1>10, <1>11, <1>12, <1>13 DEF Effetto

\* A call returns, and a step of it closed something: both the ends of a new
\* pipe, or one end.
LEMMA FinisceDesti ==
    ASSUME TypeOK, NEW p \in Fili, NEW che \in Esiti, NEW W, th' = Desti(W, Finisce(p, che))
    PROVE  /\ th' \in [Fili -> Quadri] /\ AltriPari(p) /\ FormaDi(th'[p])
           /\ th'[p].st \in {"fuori", "esce"} /\ th'[p].op = "no"
           /\ \A q \in W \cap Fili : th'[q].st # "dorme"
  <1>0. <<>> \in Seq(Byte)
    OBVIOUS
  <1>1. PICK r : r = Resa(p, che, <<>>)
    OBVIOUS
  <1>2. r \in Quadri /\ r.st \in {"fuori", "esce"} /\ r.op = "no"
    BY <1>0, <1>1, ResaTipo
  <1>3. th' = Desti(W, [th EXCEPT ![p] = r])
    BY <1>1 DEF Finisce
  <1>4. /\ th' \in [Fili -> Quadri] /\ AltriPari(p) /\ th'[p] = r
        /\ \A q \in W \cap Fili : th'[q].st # "dorme"
    BY <1>2, <1>3, Muove
  <1> QED  BY <1>2, <1>4 DEF FormaDi

\* sys_pipe, the first descriptor.
LEMMA PipeLetturaEffetto ==
    ASSUME Inv2, NEW p \in Fili, PipeLettura(p)
    PROVE  /\ Effetto(p) /\ th[p].st = "pipe r"
           /\ \/ /\ th'[p].st = "pipe w" /\ th'[p].op = th[p].op
                 /\ th'[p].fd \in Numeri /\ Tabella(p)[th'[p].fd].tipo = "no"
                 /\ fdt' = [fdt EXCEPT ![Programma[p]][th'[p].fd] = [tipo |-> "R", h |-> th'[p].h]]
              \/ UNCHANGED fdt /\ th'[p].st \in {"fuori", "esce"} /\ th'[p].op = "no"
  <1>1. th[p] \in Quadri /\ th[p].st = "pipe r" /\ TypeOK /\ th[p].h \in Tubi /\ FormaDi(th[p])
    BY DEF PipeLettura, Inv2, Inv1, TypeOK, Forma, FormaDi
  <1>2. CASE find_free_fd(p) # 0
    <2>1. PICK n \in Numeri : n = find_free_fd(p) /\ Tabella(p)[n].tipo = "no"
      BY <1>1, <1>2, NumeroLibero
    <2>2. PICK d : d = [tipo |-> "R", h |-> th[p].h]
      OBVIOUS
    <2>3. d \in Descrittori
      BY <1>1, <2>2 DEF Descrittori
    <2>4. /\ fdt' = [fdt EXCEPT ![Programma[p]][n] = d]
          /\ th' = [th EXCEPT ![p] = [In(p, "pipe w") EXCEPT !.fd = n]]
          /\ UNCHANGED <<pipe, att, posti, interrotto, scritti>>
      BY <1>2, <2>1, <2>2 DEF PipeLettura
    <2>5. fdt' \in [Programmi -> [Numeri -> Descrittori]]
      BY <1>1, <2>3, <2>4, TabellaScritta
    <2>6. PICK i \in Quadri : i = In(p, "pipe w") /\ i.st = "pipe w" /\ i.op = th[p].op
                              /\ i.h = th[p].h /\ i.voci = th[p].voci
      BY <1>1, InTipo DEF Luoghi
    <2>7. PICK r : r = [i EXCEPT !.fd = n]
      OBVIOUS
    <2>8. r \in Quadri /\ r.st = "pipe w" /\ r.op = th[p].op /\ r.h = th[p].h /\ r.fd = n
          /\ r.voci = th[p].voci
      BY <2>6, <2>7 DEF Quadri
    <2>9. FormaDi(r)
      BY <1>1, <2>8 DEF FormaDi
    <2>10. th' = [th EXCEPT ![p] = r]
      BY <2>4, <2>6, <2>7
    <2>11. Effetto(p) /\ th'[p] = r
      BY <1>1, <2>4, <2>5, <2>8, <2>9, <2>10, MuoveEffetto DEF TypeOK
    <2> QED  BY <1>1, <2>1, <2>2, <2>4, <2>8, <2>11
  <1>3. CASE find_free_fd(p) = 0
    <2>1. /\ pipe' = Chiuso(Chiuso(pipe, th[p].h, "R"), th[p].h, "W")
          /\ att' = Dimenticati(pipe', att)
          /\ th' = Desti(att[th[p].h]["L"] \cup att[th[p].h]["S"], Finisce(p, "no"))
          /\ UNCHANGED <<fdt, posti, interrotto, scritti>>
      BY <1>3 DEF PipeLettura
    <2>2. /\ th' \in [Fili -> Quadri] /\ AltriPari(p) /\ FormaDi(th'[p])
          /\ th'[p].st \in {"fuori", "esce"} /\ th'[p].op = "no"
          /\ \A q \in (att[th[p].h]["L"] \cup att[th[p].h]["S"]) \cap Fili : th'[q].st # "dorme"
      BY <1>1, <2>1, FinisceDesti DEF Esiti
    <2>3. /\ Salvi(p) /\ Deserti'
          /\ pipe' \in [Tubi -> Anelli] /\ att' \in [Tubi -> [Lati -> SUBSET Fili]]
      BY <1>1, <2>1, <2>2, RidatiSalvi
    <2>4. TypeOK'
      BY <1>1, <2>1, <2>2, <2>3 DEF TypeOK
    <2> QED  BY <1>1, <2>1, <2>2, <2>3, <2>4 DEF Effetto
  <1> QED  BY <1>2, <1>3

\* sys_pipe, the second one.
LEMMA PipeScritturaEffetto ==
    ASSUME Inv2, NEW p \in Fili, PipeScrittura(p)
    PROVE  /\ Effetto(p) /\ th[p].st = "pipe w"
           /\ th'[p].st \in {"fuori", "esce"} /\ th'[p].op = "no"
           /\ \/ \E n \in Numeri :
                   /\ Tabella(p)[n].tipo = "no"
                   /\ fdt' = [fdt EXCEPT ![Programma[p]][n] = [tipo |-> "W", h |-> th[p].h]]
              \/ /\ fdt' = [fdt EXCEPT ![Programma[p]][th[p].fd] = Libero]
                 /\ \A q \in att[th[p].h]["L"] \cap Fili : th'[q].st # "dorme"
  <1>1. /\ th[p] \in Quadri /\ th[p].st = "pipe w" /\ TypeOK /\ th[p].h \in Tubi
        /\ th[p].fd \in Numeri
    BY DEF PipeScrittura, Inv2, Inv1, TypeOK, Forma, FormaDi
  <1>2. CASE find_free_fd(p) # 0
    <2>1. PICK n \in Numeri : n = find_free_fd(p) /\ Tabella(p)[n].tipo = "no"
      BY <1>1, <1>2, NumeroLibero
    <2>2. PICK d : d = [tipo |-> "W", h |-> th[p].h]
      OBVIOUS
    <2>3. d \in Descrittori
      BY <1>1, <2>2 DEF Descrittori
    <2>4. /\ fdt' = [fdt EXCEPT ![Programma[p]][n] = d]
          /\ th' = Finisce(p, "no")
          /\ UNCHANGED <<pipe, att, posti, interrotto, scritti>>
      BY <1>2, <2>1, <2>2 DEF PipeScrittura
    <2>5. fdt' \in [Programmi -> [Numeri -> Descrittori]]
      BY <1>1, <2>3, <2>4, TabellaScritta
    <2>6. Effetto(p) /\ th'[p].st \in {"fuori", "esce"} /\ th'[p].op = "no"
      BY <1>1, <2>4, <2>5, FinisceEffetto DEF TypeOK, Esiti
    <2> QED  BY <1>1, <2>1, <2>2, <2>4, <2>6
  <1>3. CASE find_free_fd(p) = 0
    <2>1. /\ pipe' = Chiuso(Chiuso(pipe, th[p].h, "R"), th[p].h, "W")
          /\ att' = Dimenticati(pipe', att)
          /\ th' = Desti(att[th[p].h]["L"] \cup att[th[p].h]["S"], Finisce(p, "no"))
          /\ fdt' = [fdt EXCEPT ![Programma[p]][th[p].fd] = Libero]
          /\ UNCHANGED <<posti, interrotto, scritti>>
      BY <1>3 DEF PipeScrittura
    <2>2. /\ th' \in [Fili -> Quadri] /\ AltriPari(p) /\ FormaDi(th'[p])
          /\ th'[p].st \in {"fuori", "esce"} /\ th'[p].op = "no"
          /\ \A q \in (att[th[p].h]["L"] \cup att[th[p].h]["S"]) \cap Fili : th'[q].st # "dorme"
      BY <1>1, <2>1, FinisceDesti DEF Esiti
    <2>3. /\ Salvi(p) /\ Deserti'
          /\ pipe' \in [Tubi -> Anelli] /\ att' \in [Tubi -> [Lati -> SUBSET Fili]]
      BY <1>1, <2>1, <2>2, RidatiSalvi
    <2>4. fdt' \in [Programmi -> [Numeri -> Descrittori]]
      BY <1>1, <2>1, TabellaScritta DEF Descrittori
    <2>5. TypeOK'
      BY <1>1, <2>1, <2>2, <2>3, <2>4 DEF TypeOK
    <2> QED  BY <1>1, <2>1, <2>2, <2>3, <2>5 DEF Effetto
  <1> QED  BY <1>2, <1>3

\* One end more: whoever had to wait still has to.
LEMMA ApertoFatti ==
    ASSUME NEW P \in [Tubi -> Anelli], NEW h \in Tubi \cup {0}, NEW tipo
    PROVE  /\ Aperto(P, h, tipo) \in [Tubi -> Anelli]
           /\ \A k \in Tubi : /\ Vuoto(P[k]) => Vuoto(Aperto(P, h, tipo)[k])
                              /\ Pieno(P[k]) => Pieno(Aperto(P, h, tipo)[k])
                              /\ Aperto(P, h, tipo)[k].usata => P[k].usata
                              /\ P[k].usata => Aperto(P, h, tipo)[k].usata
  <1>1. CASE h = 0 \/ ~P[h].usata
    BY <1>1 DEF Aperto
  <1>2. CASE h # 0 /\ P[h].usata
    <2>1. h \in Tubi /\ P[h] \in Anelli
      BY <1>2
    <2>2. PICK e \in Anelli : e = P[h]
      BY <2>1
    <2>5. PICK x \in Nat, y \in Nat : x = e.lettori + 1 /\ y = e.scrittori + 1 /\ x > 0 /\ y > 0
      BY DEF Anelli
    <2>6. PICK d : d = IF tipo = "R" THEN [e EXCEPT !.lettori = x] ELSE [e EXCEPT !.scrittori = y]
      OBVIOUS
    <2>7. /\ d \in Anelli /\ d.usata = e.usata /\ d.quanti = e.quanti
          /\ d.lettori = IF tipo = "R" THEN x ELSE e.lettori
          /\ d.scrittori = IF tipo = "R" THEN e.scrittori ELSE y
      BY <2>6 DEF Anelli
    <2>3. d \in Anelli /\ d.usata /\ (Vuoto(P[h]) => Vuoto(d)) /\ (Pieno(P[h]) => Pieno(d))
      BY <1>2, <2>2, <2>5, <2>7 DEF Vuoto, Pieno
    <2>4. Aperto(P, h, tipo) = [P EXCEPT ![h] = d]
      BY <1>2, <2>1, <2>2, <2>5, <2>6 DEF Aperto
    <2> QED  BY <1>2, <2>1, <2>3, <2>4
  <1> QED  BY <1>1, <1>2

\* sys_dup, the end is counted.
LEMMA DupApreEffetto ==
    ASSUME Inv2, NEW p \in Fili, NEW n \in Numeri, DupApre(p, n)
    PROVE  /\ Effetto(p) /\ UNCHANGED fdt /\ Indisturbato(p)
           /\ th'[p].st = "dup" /\ th'[p].n \in Numeri /\ Tabella(p)[th'[p].n].tipo = "no"
           /\ th'[p].op # "poll"
  <1>0. TypeOK /\ Deserti
    BY DEF Inv2, Inv1
  <1>1. PICK d : d = Tabella(p)[n]
    OBVIOUS
  <1>2. d.tipo \in {"no", "file", "R", "W"} /\ d.h \in Tubi \cup {0} /\ (d.tipo \in {"R", "W"} => d.h \in Tubi)
    BY <1>0, <1>1, DescrittoreTipo
  <1>3. PICK m \in Numeri : m = find_free_fd(p) /\ Tabella(p)[m].tipo = "no"
    BY <1>0, NumeroLibero DEF DupApre
  <1>4. /\ pipe' = Aperto(pipe, d.h, d.tipo) /\ d.tipo # "no" /\ Indisturbato(p)
        /\ th' = [th EXCEPT ![p] = [Fuori(Zitto) EXCEPT !.st = "dup", !.op = d.tipo, !.h = d.h,
                                                        !.fd = n, !.n = m]]
        /\ UNCHANGED <<att, posti, fdt, interrotto, scritti>>
    BY <1>1, <1>3 DEF DupApre
  <1>5. /\ pipe' \in [Tubi -> Anelli]
        /\ \A k \in Tubi : /\ Vuoto(pipe[k]) => Vuoto(pipe'[k])
                           /\ Pieno(pipe[k]) => Pieno(pipe'[k])
                           /\ pipe[k].usata => pipe'[k].usata
    BY <1>0, <1>2, <1>4, ApertoFatti DEF TypeOK
  <1>6. Salvi(p) /\ Deserti'
    BY <1>0, <1>4, <1>5 DEF Salvi, Deserti, AttendeL, AttendeS
  <1>7. PICK r : r = [Fuori(Zitto) EXCEPT !.st = "dup", !.op = d.tipo, !.h = d.h, !.fd = n, !.n = m]
    OBVIOUS
  <1>8. r \in Quadri /\ r.st = "dup" /\ r.op = d.tipo /\ r.h = d.h /\ r.fd = n /\ r.n = m
    <2>1. r = [st |-> "dup", op |-> d.tipo, h |-> d.h, fd |-> n, n |-> m, nb |-> FALSE, c |-> 0,
               voci |-> <<>>, tempo |-> "mai", vuole |-> 0, reso |-> Zitto]
      BY <1>7 DEF Fuori
    <2>2. "dup" \in Luoghi /\ <<>> \in Voci /\ Zitto \in Resi /\ m \in Nat
      BY ZittoTipo, MisureTubi DEF Luoghi, Voci
    <2> QED  BY <1>2, <2>1, <2>2 DEF Quadri
  <1>9. th' \in [Fili -> Quadri] /\ AltriPari(p) /\ th'[p] = r
    BY <1>0, <1>4, <1>7, <1>8, MuoveUno
  <1>10. FormaDi(r)
    BY <1>2, <1>8 DEF FormaDi
  <1>11. TypeOK'
    BY <1>0, <1>4, <1>5, <1>9 DEF TypeOK
  <1> QED  BY <1>2, <1>3, <1>4, <1>6, <1>8, <1>9, <1>10, <1>11 DEF Effetto

\* The descriptor at a number is given up: an end of a pipe is closed, and
\* those it has to be told to are woken.
LEMMA LasciaSalvi ==
    ASSUME TypeOK, NEW p \in Fili, NEW v \in Descrittori,
           pipe' = Chiuso(pipe, v.h, v.tipo), att' = Dimenticati(pipe', att),
           \A q \in Svegliati(v.h, v.tipo) \cap Fili : th'[q].st # "dorme"
    PROVE  /\ Salvi(p) /\ Deserti'
           /\ pipe' \in [Tubi -> Anelli] /\ att' \in [Tubi -> [Lati -> SUBSET Fili]]
  <1>1. CASE v.tipo \in {"R", "W"}
    <2>1. v.h \in Tubi
      BY <1>1 DEF Descrittori, Libero, UnFile
    <2> QED  BY <1>1, <2>1, ChiusoSalvi
  <1>2. CASE v.tipo \notin {"R", "W"}
    <2>1. v.h = 0
      BY <1>2 DEF Descrittori, Libero, UnFile
    <2>2. pipe' = pipe
      BY <2>1 DEF Chiuso
    <2>3. pipe \in [Tubi -> Anelli]
      BY DEF TypeOK
    <2>4. \A h \in Tubi : \A q \in Fili \ {p} : th'[q].st = "dorme" =>
              /\ AttendeL(q, h) => Vuoto(pipe[h])
              /\ AttendeS(q, h) => Pieno(pipe[h])
      BY DEF AttendeL, AttendeS
    <2> QED  BY <2>2, <2>3, <2>4, ChiusiSalvi
  <1> QED  BY <1>1, <1>2

\* sys_dup, the copy takes its place.
LEMMA DupPosaEffetto ==
    ASSUME Inv2, NEW p \in Fili, DupPosa(p)
    PROVE  /\ Effetto(p) /\ th[p].st = "dup" /\ th[p].n \in Numeri
           /\ th'[p].st \in {"fuori", "esce"} /\ th'[p].op = "no"
           /\ fdt' = [fdt EXCEPT ![Programma[p]][th[p].n] = Tabella(p)[th[p].fd]]
           /\ fdt' \in [Programmi -> [Numeri -> Descrittori]]
  <1>1. TypeOK /\ th[p].st = "dup" /\ th[p].n \in Numeri /\ th[p].fd \in Numeri
    BY DEF DupPosa, Inv2, Inv1, Forma, FormaDi
  <1>2. PICK v \in Descrittori : v = Tabella(p)[th[p].n]
    BY <1>1, DescrittoreTipo
  <1>3. PICK x \in Descrittori : x = Tabella(p)[th[p].fd]
    BY <1>1, DescrittoreTipo
  <1>4. fdt' = [fdt EXCEPT ![Programma[p]][th[p].n] = x] /\ UNCHANGED <<posti, interrotto, scritti>>
    BY <1>3 DEF DupPosa
  <1>5. PICK W : th' = Desti(W, Finisce(p, "no")) /\ (v.tipo # "no" => W = Svegliati(v.h, v.tipo))
    BY <1>2 DEF DupPosa
  <1>6. /\ th' \in [Fili -> Quadri] /\ AltriPari(p) /\ FormaDi(th'[p])
        /\ th'[p].st \in {"fuori", "esce"} /\ th'[p].op = "no"
        /\ \A q \in W \cap Fili : th'[q].st # "dorme"
    BY <1>1, <1>5, FinisceDesti DEF Esiti
  <1>7. att' = Dimenticati(pipe', att)
    BY DEF DupPosa
  <1>8. /\ Salvi(p) /\ Deserti'
        /\ pipe' \in [Tubi -> Anelli] /\ att' \in [Tubi -> [Lati -> SUBSET Fili]]
    <2>1. CASE v.tipo # "no"
      <3>1. pipe' = Chiuso(pipe, v.h, v.tipo)
        BY <1>2, <2>1 DEF DupPosa
      <3> QED  BY <1>1, <1>5, <1>6, <1>7, <2>1, <3>1, LasciaSalvi
    <2>2. CASE v.tipo = "no"
      <3>1. pipe' = pipe
        BY <1>2, <2>2 DEF DupPosa
      <3>2. pipe \in [Tubi -> Anelli]
        BY <1>1 DEF TypeOK
      <3>3. \A h \in Tubi : \A q \in Fili \ {p} : th'[q].st = "dorme" =>
              /\ AttendeL(q, h) => Vuoto(pipe[h])
              /\ AttendeS(q, h) => Pieno(pipe[h])
        BY DEF AttendeL, AttendeS
      <3> QED  BY <1>1, <1>7, <3>1, <3>2, <3>3, ChiusiSalvi
    <2> QED  BY <2>1, <2>2
  <1>9. fdt' \in [Programmi -> [Numeri -> Descrittori]]
    BY <1>1, <1>4, TabellaScritta
  <1>10. TypeOK'
    BY <1>1, <1>4, <1>6, <1>8, <1>9 DEF TypeOK
  <1> QED  BY <1>1, <1>3, <1>4, <1>6, <1>8, <1>9, <1>10 DEF Effetto

\* sys_close, the end is closed.
LEMMA ChiudiEffetto ==
    ASSUME Inv2, NEW p \in Fili, NEW n \in Numeri, Chiudi(p, n)
    PROVE  /\ Effetto(p) /\ UNCHANGED fdt /\ Indisturbato(p) /\ Inutilizzato(p, n)
           /\ th'[p].st = "chiude" /\ th'[p].fd = n /\ th'[p].op # "poll"
  <1>0. TypeOK
    BY DEF Inv2, Inv1
  <1>1. PICK d \in Descrittori : d = Tabella(p)[n]
    BY <1>0, DescrittoreTipo
  <1>2. d.tipo \in {"no", "file", "R", "W"} /\ d.h \in Tubi \cup {0} /\ (d.tipo \in {"R", "W"} => d.h \in Tubi)
    BY <1>0, <1>1, DescrittoreTipo
  <1>3. PICK r : r = [Fuori(Zitto) EXCEPT !.st = "chiude", !.fd = n, !.h = d.h, !.op = d.tipo]
    OBVIOUS
  <1>4. /\ pipe' = Chiuso(pipe, d.h, d.tipo) /\ att' = Dimenticati(pipe', att)
        /\ th' = Desti(Svegliati(d.h, d.tipo), [th EXCEPT ![p] = r])
        /\ Indisturbato(p) /\ Inutilizzato(p, n)
        /\ UNCHANGED <<posti, fdt, interrotto, scritti>>
    BY <1>1, <1>3 DEF Chiudi
  <1>5. r \in Quadri /\ r.st = "chiude" /\ r.op = d.tipo /\ r.h = d.h /\ r.fd = n
    <2>1. r = [st |-> "chiude", op |-> d.tipo, h |-> d.h, fd |-> n, n |-> 0, nb |-> FALSE, c |-> 0,
               voci |-> <<>>, tempo |-> "mai", vuole |-> 0, reso |-> Zitto]
      BY <1>3 DEF Fuori
    <2>2. "chiude" \in Luoghi /\ <<>> \in Voci /\ Zitto \in Resi
      BY ZittoTipo DEF Luoghi, Voci
    <2> QED  BY <1>2, <2>1, <2>2 DEF Quadri
  <1>6. /\ th' \in [Fili -> Quadri] /\ AltriPari(p) /\ th'[p] = r
        /\ \A q \in Svegliati(d.h, d.tipo) \cap Fili : th'[q].st # "dorme"
    BY <1>0, <1>4, <1>5, Muove
  <1>7. /\ Salvi(p) /\ Deserti'
        /\ pipe' \in [Tubi -> Anelli] /\ att' \in [Tubi -> [Lati -> SUBSET Fili]]
    BY <1>0, <1>4, <1>6, LasciaSalvi
  <1>8. FormaDi(r)
    BY <1>2, <1>5 DEF FormaDi
  <1>9. TypeOK'
    BY <1>0, <1>4, <1>6, <1>7 DEF TypeOK
  <1> QED  BY <1>2, <1>4, <1>5, <1>6, <1>7, <1>8, <1>9 DEF Effetto

\* sys_close, the number is free.
LEMMA ChiudiPosaEffetto ==
    ASSUME Inv2, NEW p \in Fili, ChiudiPosa(p)
    PROVE  /\ Effetto(p) /\ th[p].st = "chiude" /\ th[p].fd \in Numeri
           /\ th'[p].st \in {"fuori", "esce"} /\ th'[p].op = "no"
           /\ fdt' = [fdt EXCEPT ![Programma[p]][th[p].fd] = Libero]
  <1>1. TypeOK /\ th[p].st = "chiude" /\ th[p].fd \in Numeri
    BY DEF ChiudiPosa, Inv2, Inv1, Forma, FormaDi
  <1>2. /\ fdt' = [fdt EXCEPT ![Programma[p]][th[p].fd] = Libero] /\ th' = Finisce(p, "no")
        /\ UNCHANGED <<pipe, att, posti, interrotto, scritti>>
    BY DEF ChiudiPosa
  <1>3. fdt' \in [Programmi -> [Numeri -> Descrittori]]
    BY <1>1, <1>2, TabellaScritta DEF Descrittori
  <1> QED  BY <1>1, <1>2, <1>3, FinisceEffetto DEF TypeOK, Esiti

-----------------------------------------------------------------------------
(* read and write.                                                         *)

\* A read or a write that goes on, or returns, and leaves the tables alone.
Prosegue(p) ==
    /\ UNCHANGED fdt /\ th'[p].st \notin Cambia
    /\ \/ th'[p].op = "no"
       \/ th[p].op \in {"R", "W"} /\ th'[p].op = th[p].op /\ th'[p].fd = th[p].fd

\* One list of one pipe is written.
LEMMA AttesaScritta ==
    ASSUME TypeOK, NEW h \in Tubi, NEW l \in Lati, NEW S \in SUBSET Fili,
           att' = [att EXCEPT ![h][l] = S]
    PROVE  /\ att' \in [Tubi -> [Lati -> SUBSET Fili]]
           /\ \A k \in Tubi : \A m \in Lati :
                att'[k][m] = IF k = h /\ m = l THEN S ELSE att[k][m]
  BY DEF TypeOK

\* A reader with no byte, a writer with no room: back to its caller, to sleep
\* in the list, or to make the list longer.
LEMMA AspettaEffetto ==
    ASSUME Inv2, NEW p \in Fili, Aspetta(p), th[p].st = "gira", th[p].op \in {"R", "W"},
           th[p].op = "R" => Vuoto(pipe[th[p].h]), th[p].op = "W" => Pieno(pipe[th[p].h]),
           UNCHANGED <<pipe, posti, fdt, interrotto, scritti>>
    PROVE  Effetto(p) /\ Prosegue(p)
  <1>0. TypeOK /\ Deserti /\ FormaDi(th[p]) /\ th[p].h \in Tubi /\ th[p] \in Quadri
    BY DEF Inv2, Inv1, Forma, FormaDi, TypeOK
  <1>1. CASE th' = Finisce(p, "riprova") /\ UNCHANGED att
    <2>1. Effetto(p) /\ th'[p].st \in {"fuori", "esce"} /\ th'[p].op = "no"
      BY <1>0, <1>1, FinisceEffetto DEF TypeOK, Esiti
    <2> QED  BY <2>1 DEF Prosegue, Cambia
  <1>2. CASE th' = [th EXCEPT ![p] = In(p, "cresce")] /\ UNCHANGED att
    <2>1. PICK r \in Quadri : r = In(p, "cresce") /\ r.st = "cresce" /\ r.op = th[p].op
                              /\ r.h = th[p].h /\ r.fd = th[p].fd /\ r.voci = th[p].voci
      BY <1>0, InTipo DEF Luoghi
    <2>2. FormaDi(r) /\ r.st # "dorme"
      BY <1>0, <2>1 DEF FormaDi
    <2>3. Effetto(p) /\ th'[p] = r
      BY <1>0, <1>2, <2>1, <2>2, MuoveEffetto DEF TypeOK
    <2> QED  BY <2>1, <2>3 DEF Prosegue, Cambia
  <1>3. CASE /\ th' = [th EXCEPT ![p] = In(p, "dorme")]
             /\ att' = [att EXCEPT ![th[p].h][Lato(th[p].op)] = @ \cup {p}]
    <2>1. PICK r \in Quadri : r = In(p, "dorme") /\ r.st = "dorme" /\ r.op = th[p].op
                              /\ r.h = th[p].h /\ r.fd = th[p].fd /\ r.voci = th[p].voci
      BY <1>0, InTipo DEF Luoghi
    <2>2. FormaDi(r)
      BY <1>0, <2>1 DEF FormaDi
    <2>3. th' \in [Fili -> Quadri] /\ AltriPari(p) /\ th'[p] = r
      BY <1>0, <1>3, <2>1, MuoveUno
    <2>4. PICK l \in Lati : l = Lato(th[p].op) /\ (th[p].op = "R" => l = "L") /\ (th[p].op = "W" => l = "S")
      BY DEF Lati, Lato
    <2>5. PICK S \in SUBSET Fili : S = att[th[p].h][l] \cup {p}
      <3>1. att[th[p].h] \in [Lati -> SUBSET Fili]
        BY <1>0 DEF TypeOK
      <3>2. att[th[p].h][l] \in SUBSET Fili
        BY <3>1
      <3> QED  BY <3>2
    <2>6. att' = [att EXCEPT ![th[p].h][l] = S]
      BY <1>3, <2>4, <2>5
    <2>7. /\ att' \in [Tubi -> [Lati -> SUBSET Fili]]
          /\ \A k \in Tubi : \A m \in Lati :
                att'[k][m] = IF k = th[p].h /\ m = l THEN S ELSE att[k][m]
      BY <1>0, <2>6, AttesaScritta
    <2>8. Salvi(p)
      <3>1. \A k \in Tubi : \A m \in {"L", "S"} : att[k][m] \subseteq att'[k][m]
        BY <2>5, <2>7 DEF Lati
      <3> QED  BY <3>1 DEF Salvi, AttendeL, AttendeS
    <2>9. Deserti'
      <3> SUFFICES ASSUME NEW k \in Tubi, ~pipe[k].usata PROVE att'[k]["L"] = {} /\ att'[k]["S"] = {}
        BY DEF Deserti
      <3>1. k # th[p].h
        BY DEF Vuoto, Pieno
      <3> QED  BY <1>0, <2>7, <3>1 DEF Deserti, Lati
    <2>10. p \in att'[th[p].h][l]
      BY <1>0, <2>5, <2>7
    <2>11. /\ th'[p].op = "R" => Vuoto(pipe'[th'[p].h]) /\ p \in att'[th'[p].h]["L"]
           /\ th'[p].op = "W" => Pieno(pipe'[th'[p].h]) /\ p \in att'[th'[p].h]["S"]
      BY <2>1, <2>3, <2>4, <2>10
    <2>12. TypeOK'
      BY <1>0, <2>3, <2>7 DEF TypeOK
    <2> QED  BY <2>1, <2>2, <2>3, <2>8, <2>9, <2>11, <2>12 DEF Effetto, Prosegue, Cambia, AttendeL, AttendeS
  <1> QED  BY <1>1, <1>2, <1>3 DEF Aspetta

\* The bytes pass: pipe h becomes d, still in use with the same ends, and those
\* who wait at the other side l are woken.
LEMMA PassanoEffetto ==
    ASSUME Inv2, NEW p \in Fili, NEW h \in Tubi, NEW d \in Anelli, NEW l \in Lati,
           NEW che \in Esiti, NEW dati \in Seq(Byte),
           d.usata, d.lettori = pipe[h].lettori, d.scrittori = pipe[h].scrittori,
           l = "S" => pipe[h].quanti > 0, l = "L" => pipe[h].quanti < Dim,
           pipe' = [pipe EXCEPT ![h] = d],
           th' = Desti(att[h][l], [th EXCEPT ![p] = Resa(p, che, dati)]),
           att' = [att EXCEPT ![h][l] = {}],
           UNCHANGED <<posti, fdt, interrotto, scritti>>
    PROVE  Effetto(p) /\ Prosegue(p)
  <1>0. TypeOK /\ Deserti
    BY DEF Inv2, Inv1
  <1>1. PICK r \in Quadri : r = Resa(p, che, dati) /\ r.st \in {"fuori", "esce"} /\ r.op = "no"
    BY ResaTipo
  <1>2. /\ th' \in [Fili -> Quadri] /\ AltriPari(p) /\ th'[p] = r
        /\ \A q \in att[h][l] \cap Fili : th'[q].st # "dorme"
    BY <1>0, <1>1, Muove
  <1>3. /\ att' \in [Tubi -> [Lati -> SUBSET Fili]]
        /\ \A k \in Tubi : \A m \in Lati : att'[k][m] = IF k = h /\ m = l THEN {} ELSE att[k][m]
    <2>1. PICK S \in SUBSET Fili : S = {}
      OBVIOUS
    <2>2. att' = [att EXCEPT ![h][l] = S]
      BY <2>1
    <2>3. /\ att' \in [Tubi -> [Lati -> SUBSET Fili]]
          /\ \A k \in Tubi : \A m \in Lati : att'[k][m] = IF k = h /\ m = l THEN S ELSE att[k][m]
      BY ONLY <1>0, <2>2, AttesaScritta
    <2> QED  BY <2>1, <2>3
  <1>4. pipe' \in [Tubi -> Anelli] /\ pipe'[h] = d /\ \A k \in Tubi \ {h} : pipe'[k] = pipe[k]
    BY <1>0 DEF TypeOK
  <1>5. Salvi(p)
    <2> SUFFICES ASSUME NEW k \in Tubi, NEW q \in Fili \ {p}, th'[q].st = "dorme"
                 PROVE  /\ AttendeL(q, k) => Vuoto(pipe'[k]) /\ q \in att'[k]["L"]
                        /\ AttendeS(q, k) => Pieno(pipe'[k]) /\ q \in att'[k]["S"]
      BY DEF Salvi
    <2>1. CASE k # h
      BY <1>3, <1>4, <2>1 DEF AttendeL, AttendeS, Lati
    <2>2. CASE k = h
      <3>1. q \notin att[h][l]
        BY <1>2
      <3>2. pipe[h].quanti \in 0 .. Dim /\ Dim \in Nat
        BY <1>0, MisureTubi DEF TypeOK, Anelli
      <3>3. ~AttendeL(q, h) /\ ~AttendeS(q, h)
        BY <3>1, <3>2 DEF AttendeL, AttendeS, Vuoto, Pieno, Lati
      <3> QED  BY <2>2, <3>3
    <2> QED  BY <2>1, <2>2
  <1>6. Deserti'
    BY <1>0, <1>3, <1>4 DEF Deserti, Lati
  <1>7. TypeOK' /\ FormaDi(r)
    BY <1>0, <1>1, <1>2, <1>3, <1>4 DEF TypeOK, FormaDi
  <1> QED  BY <1>1, <1>2, <1>5, <1>6, <1>7 DEF Effetto, Prosegue, Cambia

\* A place in the ring.
LEMMA Resto ==
    ASSUME NEW a \in Nat
    PROVE  a % Dim \in 0 .. Dim - 1 /\ a % Dim \in Nat
  BY MisureTubi

\* pipe_leggi.
LEMMA LeggiEffetto ==
    ASSUME Inv2, NEW p \in Fili, pipe_leggi(p)
    PROVE  Effetto(p) /\ Prosegue(p)
  <1> DEFINE h == th[p].h
             e == pipe[h]
  <1>0. /\ TypeOK /\ h \in Tubi /\ th[p] \in Quadri /\ th[p].st = "gira" /\ th[p].op = "R"
        /\ Dim \in Nat /\ Dim > 0
    <2>1. th[p].st = "gira" /\ th[p].op = "R"
      BY DEF pipe_leggi
    <2>2. TypeOK /\ FormaDi(th[p])
      BY DEF Inv2, Inv1, Forma
    <2>3. h \in Tubi
      BY <2>1, <2>2 DEF FormaDi
    <2>4. th[p] \in Quadri
      BY <2>2 DEF TypeOK
    <2>5. Dim \in Nat /\ Dim > 0
      BY MisureTubi
    <2> QED  BY <2>1, <2>2, <2>3, <2>4, <2>5
  <1>1. UNCHANGED <<posti, fdt, interrotto, scritti>>
    BY DEF pipe_leggi
  <1>2. e \in Anelli
    BY <1>0 DEF TypeOK
  <1>3. /\ e.usata \in BOOLEAN /\ e.testa \in Nat /\ e.quanti \in 0 .. Dim /\ e.lettori \in Nat
        /\ e.scrittori \in Nat /\ e.buf \in [0 .. Dim - 1 -> Byte] /\ th[p].n \in Nat
    <2> HIDE DEF e
    <2> QED  BY <1>0, <1>2 DEF Anelli, Quadri
  <1>4. CASE e.usata /\ e.quanti > 0
    <2> DEFINE k == Minimo(th[p].n, e.quanti)
               presi == [i \in 1 .. k |-> e.buf[(e.testa + i - 1) % Dim]]
               B == [i \in 0 .. Dim - 1 |->
                       IF \E j \in 1 .. k : i = (e.testa + j - 1) % Dim THEN <<>> ELSE e.buf[i]]
               d == [e EXCEPT !.testa = (e.testa + k) % Dim, !.quanti = e.quanti - k, !.buf = B]
    <2>1. k \in Nat /\ k <= e.quanti
      BY <1>3 DEF Minimo
    <2>2. /\ pipe' = [pipe EXCEPT ![h] = d]
          /\ th' = Desti(att[h]["S"], [th EXCEPT ![p] = Resa(p, "letto", presi)])
          /\ att' = [att EXCEPT ![h]["S"] = {}]
      BY <1>4 DEF pipe_leggi
    <2> HIDE DEF k, e, h
    <2>3. presi \in Seq(Byte)
      <3>1. ASSUME NEW i \in 1 .. k PROVE e.buf[(e.testa + i - 1) % Dim] \in Byte
        <4>1. e.testa + i - 1 \in Nat
          BY <1>3
        <4>2. (e.testa + i - 1) % Dim \in 0 .. Dim - 1
          BY <4>1, Resto
        <4> QED  BY <1>3, <4>2
      <3>2. presi \in [1 .. k -> Byte]
        BY <3>1
      <3> QED  BY <2>1, <3>2
    <2>5. B \in [0 .. Dim - 1 -> Byte]
      <3>1. <<>> \in Byte
        BY DEF Byte
      <3> QED  BY <1>3, <3>1
    <2>6. (e.testa + k) % Dim \in Nat
      <3>1. e.testa + k \in Nat
        BY <1>3, <2>1
      <3> QED  BY <3>1, Resto
    <2>7. e.quanti - k \in 0 .. Dim
      BY <1>0, <1>3, <2>1
    <2>9. d \in Anelli /\ d.usata = e.usata /\ d.lettori = e.lettori /\ d.scrittori = e.scrittori
      <3> HIDE DEF B
      <3>1. PICK t \in Nat, m \in 0 .. Dim : d = [e EXCEPT !.testa = t, !.quanti = m, !.buf = B]
        BY <2>6, <2>7
      <3> HIDE DEF d
      <3> QED  BY <1>2, <2>5, <3>1 DEF Anelli
    <2>12. "letto" \in Esiti /\ "S" \in Lati
      BY DEF Esiti, Lati
    <2> HIDE DEF d, presi
    <2> QED  BY <1>0, <1>1, <1>4, <2>2, <2>3, <2>9, <2>12, PassanoEffetto DEF e
  <1>5. CASE ~(e.usata /\ e.quanti > 0)
    <2>1. /\ UNCHANGED pipe
          /\ IF ~e.usata THEN th' = Finisce(p, "altro") /\ UNCHANGED att
             ELSE IF e.scrittori = 0 THEN th' = Finisce(p, "fine") /\ UNCHANGED att
             ELSE Aspetta(p)
      BY <1>5 DEF pipe_leggi
    <2>2. CASE Aspetta(p) /\ e.usata /\ e.scrittori # 0
      <3>1. Vuoto(pipe[th[p].h])
        BY <1>3, <1>5, <2>2 DEF Vuoto
      <3> QED  BY <1>0, <1>1, <2>1, <2>2, <3>1, AspettaEffetto
    <2>3. CASE UNCHANGED att /\ \E che \in Esiti : th' = Finisce(p, che)
      <3>1. Effetto(p) /\ th'[p].st \in {"fuori", "esce"} /\ th'[p].op = "no"
        BY <1>0, <1>1, <2>1, <2>3, FinisceEffetto DEF TypeOK
      <3> QED  BY <1>1, <3>1 DEF Prosegue, Cambia
    <2> QED  BY <1>3, <2>1, <2>2, <2>3 DEF Esiti
  <1> QED  BY <1>4, <1>5

\* pipe_scrivi.
LEMMA ScriviEffetto ==
    ASSUME Inv2, NEW p \in Fili, pipe_scrivi(p)
    PROVE  Effetto(p) /\ Prosegue(p)
  <1> DEFINE h == th[p].h
             e == pipe[h]
  <1>0. /\ TypeOK /\ h \in Tubi /\ th[p] \in Quadri /\ th[p].st = "gira" /\ th[p].op = "W"
        /\ Dim \in Nat /\ Dim > 0
    <2>1. th[p].st = "gira" /\ th[p].op = "W"
      BY DEF pipe_scrivi
    <2>2. TypeOK /\ FormaDi(th[p])
      BY DEF Inv2, Inv1, Forma
    <2>3. h \in Tubi
      BY <2>1, <2>2 DEF FormaDi
    <2>4. th[p] \in Quadri
      BY <2>2 DEF TypeOK
    <2>5. Dim \in Nat /\ Dim > 0
      BY MisureTubi
    <2> QED  BY <2>1, <2>2, <2>3, <2>4, <2>5
  <1>1. UNCHANGED <<posti, fdt, interrotto, scritti>>
    BY DEF pipe_scrivi
  <1>2. e \in Anelli
    BY <1>0 DEF TypeOK
  <1>3. /\ e.usata \in BOOLEAN /\ e.testa \in Nat /\ e.quanti \in 0 .. Dim /\ e.lettori \in Nat
        /\ e.scrittori \in Nat /\ e.buf \in [0 .. Dim - 1 -> Byte] /\ th[p].n \in Nat /\ th[p].c \in Nat
    <2> HIDE DEF e
    <2> QED  BY <1>0, <1>2 DEF Anelli, Quadri
  <1>4. CASE e.usata /\ e.lettori > 0 /\ e.quanti < Dim
    <2> DEFINE k == Minimo(th[p].n, Dim - e.quanti)
               s == [j \in 1 .. k |-> <<th[p].c, j>>]
               dove(j) == (e.testa + e.quanti + j - 1) % Dim
               B == [i \in 0 .. Dim - 1 |-> IF \E j \in 1 .. k : i = dove(j)
                                            THEN s[CHOOSE j \in 1 .. k : i = dove(j)] ELSE e.buf[i]]
               d == [e EXCEPT !.quanti = e.quanti + k, !.buf = B]
    <2>1. k \in Nat /\ k <= Dim - e.quanti
      BY <1>0, <1>3, <1>4 DEF Minimo
    <2>2. /\ pipe' = [pipe EXCEPT ![h] = d]
          /\ th' = Desti(att[h]["L"], [th EXCEPT ![p] = Resa(p, "scritto", s)])
          /\ att' = [att EXCEPT ![h]["L"] = {}]
      BY <1>4 DEF pipe_scrivi
    <2> HIDE DEF k, e, h, dove
    <2>3. s \in Seq(Byte) /\ \A j \in 1 .. k : s[j] \in Byte
      <3>1. ASSUME NEW j \in 1 .. k PROVE <<th[p].c, j>> \in Byte
        BY <1>3 DEF Byte
      <3>2. s \in [1 .. k -> Byte]
        BY <3>1
      <3> QED  BY <2>1, <3>2
    <2>5. B \in [0 .. Dim - 1 -> Byte]
      <3> SUFFICES ASSUME NEW i \in 0 .. Dim - 1 PROVE B[i] \in Byte
        OBVIOUS
      <3> HIDE DEF s
      <3>1. CASE \E j \in 1 .. k : i = dove(j)
        <4>1. PICK j \in 1 .. k : j = CHOOSE x \in 1 .. k : i = dove(x)
          BY <3>1
        <4> QED  BY <2>3, <3>1, <4>1
      <3>2. CASE ~\E j \in 1 .. k : i = dove(j)
        BY <1>3, <3>2
      <3> QED  BY <3>1, <3>2
    <2>7. e.quanti + k \in 0 .. Dim
      BY <1>0, <1>3, <2>1
    <2>9. d \in Anelli /\ d.usata = e.usata /\ d.lettori = e.lettori /\ d.scrittori = e.scrittori
      <3> HIDE DEF B
      <3>1. PICK m \in 0 .. Dim : d = [e EXCEPT !.quanti = m, !.buf = B]
        BY <2>7
      <3> HIDE DEF d
      <3> QED  BY <1>2, <2>5, <3>1 DEF Anelli
    <2>12. "scritto" \in Esiti /\ "L" \in Lati
      BY DEF Esiti, Lati
    <2> HIDE DEF d, s
    <2> QED  BY <1>0, <1>1, <1>4, <2>2, <2>3, <2>9, <2>12, PassanoEffetto DEF e
  <1>5. CASE ~(e.usata /\ e.lettori > 0 /\ e.quanti < Dim)
    <2>1. /\ UNCHANGED pipe
          /\ IF ~e.usata THEN th' = Finisce(p, "altro") /\ UNCHANGED att
             ELSE IF e.lettori = 0 THEN th' = Finisce(p, "rotto") /\ UNCHANGED att
             ELSE Aspetta(p)
      BY <1>5 DEF pipe_scrivi
    <2>2. CASE Aspetta(p) /\ e.usata /\ e.lettori # 0
      <3>1. Pieno(pipe[th[p].h])
        BY <1>0, <1>3, <1>5, <2>2 DEF Pieno
      <3> QED  BY <1>0, <1>1, <2>1, <2>2, <3>1, AspettaEffetto
    <2>3. CASE UNCHANGED att /\ \E che \in Esiti : th' = Finisce(p, che)
      <3>1. Effetto(p) /\ th'[p].st \in {"fuori", "esce"} /\ th'[p].op = "no"
        BY <1>0, <1>1, <2>1, <2>3, FinisceEffetto DEF TypeOK
      <3> QED  BY <1>1, <3>1 DEF Prosegue, Cambia
    <2> QED  BY <1>3, <2>1, <2>2, <2>3 DEF Esiti
  <1> QED  BY <1>4, <1>5

\* A thread awake in a read or a write.
LEMMA DestoEffetto ==
    ASSUME Inv2, NEW p \in Fili, Desto(p)
    PROVE  Effetto(p) /\ Prosegue(p)
  <1>0. TypeOK /\ FormaDi(th[p]) /\ th[p].st = "desto" /\ th[p].op \in {"R", "W"}
    BY DEF Inv2, Inv1, Forma, Desto
  <1>1. UNCHANGED <<pipe, att, posti, fdt, interrotto, scritti>>
    BY DEF Desto
  <1>2. PICK r \in Quadri : /\ th' = [th EXCEPT ![p] = r] /\ FormaDi(r) /\ r.st \in {"fuori", "esce", "gira"}
                            /\ r.op = "no" \/ (r.op = th[p].op /\ r.fd = th[p].fd)
    <2>1. CASE p \in interrotto
      <3>1. <<>> \in Seq(Byte) /\ "altro" \in Esiti
        BY DEF Esiti
      <3>2. PICK r \in Quadri : r = Resa(p, "altro", <<>>) /\ r.st \in {"fuori", "esce"} /\ r.op = "no"
        BY <3>1, ResaTipo
      <3>3. FormaDi(r)
        BY <3>2 DEF FormaDi
      <3>4. th' = [th EXCEPT ![p] = r]
        BY <2>1, <3>2 DEF Desto
      <3> QED  BY <3>2, <3>3, <3>4
    <2>2. CASE p \notin interrotto
      <3>1. PICK r \in Quadri : r = In(p, "gira") /\ r.st = "gira" /\ r.op = th[p].op
                                /\ r.h = th[p].h /\ r.fd = th[p].fd /\ r.voci = th[p].voci
        BY <1>0, InTipo DEF Luoghi
      <3>2. FormaDi(r)
        BY <1>0, <3>1 DEF FormaDi
      <3>3. th' = [th EXCEPT ![p] = r]
        BY <2>2, <3>1 DEF Desto
      <3> QED  BY <3>1, <3>2, <3>3
    <2> QED  BY <2>1, <2>2
  <1>3. Effetto(p) /\ th'[p] = r
    BY <1>0, <1>1, <1>2, MuoveEffetto DEF TypeOK
  <1> QED  BY <1>0, <1>1, <1>2, <1>3 DEF Prosegue, Cambia

\* sys_read, sys_write begin.
LEMMA IniziaEffetto ==
    ASSUME Inv2, NEW p \in Fili, NEW n \in Numeri, NEW nb \in BOOLEAN,
           NEW k \in Chiede["R"] \cup Chiede["W"], Inizia(p, n, nb, k)
    PROVE  /\ Effetto(p) /\ UNCHANGED fdt /\ Saldo(p, n)
           /\ th'[p].st = "gira" /\ th'[p].op \in {"R", "W"} /\ th'[p].fd = n
  <1>0. TypeOK
    BY DEF Inv2, Inv1
  <1>1. PICK d \in Descrittori : d = Tabella(p)[n]
    BY <1>0, DescrittoreTipo
  <1>2. d.tipo \in {"no", "file", "R", "W"} /\ (d.tipo \in {"R", "W"} => d.h \in Tubi)
    BY <1>0, <1>1, DescrittoreTipo
  <1>3. d.tipo \in {"R", "W"} /\ Saldo(p, n)
    <2>1. d.tipo \in Fa[p] /\ Saldo(p, n)
      BY <1>1 DEF Inizia, InizioChiamata
    <2> QED  BY <1>2, <2>1, MisureTubi
  <1>4. /\ scritti' = IF d.tipo = "W" THEN scritti + 1 ELSE scritti
        /\ UNCHANGED <<pipe, att, posti, fdt, interrotto>>
    BY <1>1 DEF Inizia
  <1>5. PICK c \in Nat : c = IF d.tipo = "W" THEN scritti' ELSE 0
    BY <1>0, <1>4 DEF TypeOK
  <1>6. PICK r : r = [Fuori(Zitto) EXCEPT !.st = "gira", !.op = d.tipo, !.h = d.h,
                                          !.fd = n, !.n = k, !.nb = nb, !.c = c]
    OBVIOUS
  <1>7. th' = [th EXCEPT ![p] = r]
    BY <1>1, <1>5, <1>6 DEF Inizia
  <1>8. r \in Quadri /\ r.st = "gira" /\ r.op = d.tipo /\ r.h = d.h /\ r.fd = n
    <2>1. r = [st |-> "gira", op |-> d.tipo, h |-> d.h, fd |-> n, n |-> k, nb |-> nb, c |-> c,
               voci |-> <<>>, tempo |-> "mai", vuole |-> 0, reso |-> Zitto]
      BY <1>6 DEF Fuori
    <2>2. "gira" \in Luoghi /\ <<>> \in Voci /\ Zitto \in Resi
      BY ZittoTipo DEF Luoghi, Voci
    <2>3. k \in Nat
      BY MisureTubi
    <2> QED  BY <1>2, <1>3, <2>1, <2>2, <2>3 DEF Quadri
  <1>9. FormaDi(r)
    BY <1>2, <1>3, <1>8 DEF FormaDi
  <1>10. scritti' \in Nat
    BY <1>0, <1>4 DEF TypeOK
  <1>11. Effetto(p) /\ th'[p] = r
    BY <1>0, <1>4, <1>7, <1>8, <1>9, <1>10, MuoveEffetto DEF TypeOK
  <1> QED  BY <1>3, <1>4, <1>8, <1>11

-----------------------------------------------------------------------------
(* poll.                                                                   *)

\* sys_poll begins.
LEMMA PollIniziaEffetto ==
    ASSUME Inv2, NEW p \in Fili, NEW S \in Elenchi, NEW tempo \in {"mai", "poi"},
           PollInizia(p, S, tempo)
    PROVE  /\ Effetto(p) /\ UNCHANGED fdt
           /\ th'[p].st = "gira" /\ th'[p].op = "poll"
           /\ \A n \in DOMAIN th'[p].voci : Saldo(p, n)
  <1>0. TypeOK
    BY DEF Inv2, Inv1
  <1>1. PICK v \in [S -> Desideri] :
          th' = [th EXCEPT ![p] = [Fuori(Zitto) EXCEPT !.st = "gira", !.op = "poll",
                                                       !.voci = v, !.tempo = tempo]]
    BY DEF PollInizia
  <1>2. UNCHANGED <<pipe, att, posti, fdt, interrotto, scritti>> /\ \A n \in S : Saldo(p, n)
    BY DEF PollInizia
  <1>3. S \subseteq Numeri /\ Desideri \subseteq SUBSET {"IN", "OUT"}
    BY MisureTubi
  <1>4. v \in Voci /\ DOMAIN v = S /\ \A n \in S : v[n] \in Desideri
    <2>1. v \in [S -> SUBSET {"IN", "OUT"}]
      BY <1>3
    <2> QED  BY <1>3, <2>1 DEF Voci
  <1>5. PICK r : r = [Fuori(Zitto) EXCEPT !.st = "gira", !.op = "poll", !.voci = v, !.tempo = tempo]
    OBVIOUS
  <1>6. r \in Quadri /\ r.st = "gira" /\ r.op = "poll" /\ r.voci = v
    <2>1. r = [st |-> "gira", op |-> "poll", h |-> 0, fd |-> 0, n |-> 0, nb |-> FALSE, c |-> 0,
               voci |-> v, tempo |-> tempo, vuole |-> 0, reso |-> Zitto]
      BY <1>5 DEF Fuori
    <2>2. "gira" \in Luoghi /\ Zitto \in Resi
      BY ZittoTipo DEF Luoghi
    <2> QED  BY <1>4, <2>1, <2>2 DEF Quadri
  <1>7. FormaDi(r)
    BY <1>3, <1>4, <1>6 DEF FormaDi
  <1>8. th' = [th EXCEPT ![p] = r]
    BY <1>1, <1>5
  <1>9. Effetto(p) /\ th'[p] = r
    BY <1>0, <1>2, <1>6, <1>7, <1>8, MuoveEffetto DEF TypeOK
  <1> QED  BY <1>2, <1>4, <1>6, <1>9

\* What a poller does in its call to the lists: at some places it puts itself
\* in, at others it takes itself out.
LEMMA ListeDiP ==
    ASSUME Inv2, NEW p \in Fili, UNCHANGED <<pipe, posti, fdt, interrotto, scritti>>,
           att' \in [Tubi -> [Lati -> SUBSET Fili]],
           \A h \in Tubi : \A l \in Lati : /\ att[h][l] \ {p} \subseteq att'[h][l]
                                           /\ ~pipe[h].usata => att'[h][l] \subseteq att[h][l],
           NEW r \in Quadri, FormaDi(r), r.op \notin {"R", "W"}, th' = [th EXCEPT ![p] = r]
    PROVE  Effetto(p) /\ th'[p] = r
  <1>0. TypeOK /\ Deserti
    BY DEF Inv2, Inv1
  <1>1. th' \in [Fili -> Quadri] /\ AltriPari(p) /\ th'[p] = r
    BY <1>0, MuoveUno
  <1>2. \A h \in Tubi : /\ att[h]["L"] \ {p} \subseteq att'[h]["L"]
                        /\ att[h]["S"] \ {p} \subseteq att'[h]["S"]
                        /\ ~pipe[h].usata => /\ att'[h]["L"] \subseteq att[h]["L"]
                                             /\ att'[h]["S"] \subseteq att[h]["S"]
    BY DEF Lati
  <1>3. Salvi(p)
    BY <1>2 DEF Salvi, AttendeL, AttendeS
  <1>4. Deserti'
    BY <1>0, <1>2 DEF Deserti
  <1>5. TypeOK'
    BY <1>0, <1>1 DEF TypeOK
  <1> QED  BY <1>1, <1>3, <1>4, <1>5 DEF Effetto

\* A poller that goes on in its call, or returns, and leaves the tables alone.
Scruta(p) ==
    /\ UNCHANGED fdt /\ th'[p].st \notin Cambia
    /\ \/ th'[p].op = "no"
       \/ th[p].op = "poll" /\ th'[p].op = "poll" /\ th'[p].voci = th[p].voci

\* Where a poller puts itself.
LEMMA RegistraTipo ==
    ASSUME Inv2, NEW p \in Fili, th[p].op = "poll", NEW x \in Registra(p)
    PROVE  \E n \in DOMAIN th[p].voci :
             /\ n \in Numeri /\ Tabella(p)[n].tipo \in {"R", "W"} /\ Tabella(p)[n].h \in Tubi
             /\ x = <<Tabella(p)[n].h, Lato(Tabella(p)[n].tipo)>>
  <1>1. PICK n \in DOMAIN th[p].voci : /\ Tabella(p)[n].tipo \in {"R", "W"}
                                       /\ x = <<Tabella(p)[n].h, Lato(Tabella(p)[n].tipo)>>
    BY DEF Registra
  <1>2. n \in Numeri
    BY DEF Inv2, Inv1, Forma, FormaDi
  <1> QED  BY <1>1, <1>2, DescrittoreTipo DEF Inv2, Inv1

\* A descriptor a poller found nothing at.
LEMMA NonPronta ==
    ASSUME TypeOK, NEW p \in Fili, NEW n \in Numeri, ~poll_guarda(p, n)
    PROVE  /\ Tabella(p)[n].tipo \in {"R", "W"} /\ pipe[Tabella(p)[n].h].usata
           /\ Chiesto(p, n) =>
                \/ Tabella(p)[n].tipo = "R" /\ Vuoto(pipe[Tabella(p)[n].h])
                \/ Tabella(p)[n].tipo = "W" /\ Pieno(pipe[Tabella(p)[n].h])
  <1>1. PICK d \in Descrittori : d = Tabella(p)[n]
    BY DescrittoreTipo
  <1>2. d.tipo \in {"no", "file", "R", "W"} /\ (d.tipo \in {"R", "W"} => d.h \in Tubi)
    BY <1>1, DescrittoreTipo
  <1>3. d.tipo \notin {"no", "file"}
    BY <1>1 DEF poll_guarda
  <1>4. PICK e \in Anelli : e = pipe[d.h]
    BY <1>2, <1>3 DEF TypeOK
  <1>5. e.quanti \in 0 .. Dim /\ e.lettori \in Nat /\ e.scrittori \in Nat /\ Dim \in Nat
    BY <1>4, MisureTubi DEF Anelli
  <1>6. CASE d.tipo = "R"
    <2>1. ~(~e.usata \/ e.scrittori = 0 \/ (e.quanti > 0 /\ "IN" \in th[p].voci[n]))
      BY <1>1, <1>4, <1>6 DEF poll_guarda
    <2> QED  BY <1>1, <1>4, <1>5, <1>6, <2>1 DEF Vuoto, Chiesto
  <1>7. CASE d.tipo = "W"
    <2>1. ~(~e.usata \/ e.lettori = 0 \/ (e.quanti < Dim /\ "OUT" \in th[p].voci[n]))
      BY <1>1, <1>4, <1>7 DEF poll_guarda
    <2> QED  BY <1>1, <1>4, <1>5, <1>7, <2>1 DEF Pieno, Chiesto
  <1> QED  BY <1>2, <1>3, <1>6, <1>7

\* sys_poll, a round.
LEMMA PollGiraEffetto ==
    ASSUME Inv2, NEW p \in Fili, PollGira(p)
    PROVE  /\ Effetto(p) /\ Scruta(p)
           /\ th'[p].st = "dorme" /\ ~th'[p].nb =>
                \A n \in DOMAIN th[p].voci :
                    /\ Tabella(p)[n].tipo \in {"R", "W"}
                    /\ Chiesto(p, n) =>
                         \/ Tabella(p)[n].tipo = "R" /\ AttendeL(p, Tabella(p)[n].h)'
                         \/ Tabella(p)[n].tipo = "W" /\ AttendeS(p, Tabella(p)[n].h)'
  <1>0. TypeOK /\ FormaDi(th[p]) /\ th[p].st = "gira" /\ th[p].op = "poll"
    BY DEF Inv2, Inv1, Forma, PollGira
  <1>1. UNCHANGED <<pipe, posti, fdt, interrotto, scritti>>
    BY DEF PollGira
  <1>2. CASE th' = Finisce(p, "pronto") /\ UNCHANGED att
    <2>1. Effetto(p) /\ th'[p].st \in {"fuori", "esce"} /\ th'[p].op = "no"
      BY <1>0, <1>1, <1>2, FinisceEffetto DEF TypeOK, Esiti
    <2> QED  BY <1>1, <2>1 DEF Scruta, Cambia
  <1>3. CASE ~(Pronta(p) \/ th[p].tempo = "scaduto")
    <2> DEFINE buoni == {x \in Registra(p) : attese_metti(x[1], x[2], p)}
    <2>1. /\ att' = [h \in Tubi |-> [l \in {"L", "S"} |->
                       IF <<h, l>> \in buoni THEN att[h][l] \cup {p} ELSE att[h][l]]]
          /\ th' = [th EXCEPT ![p] = [In(p, "dorme") EXCEPT !.nb = buoni # Registra(p)]]
      BY <1>3 DEF PollGira
    <2>2. buoni \subseteq Registra(p)
      OBVIOUS
    <2> HIDE DEF buoni
    <2>3. DOMAIN th[p].voci \subseteq Numeri
      BY <1>0 DEF FormaDi
    <2>4. \A n \in DOMAIN th[p].voci :
            /\ n \in Numeri /\ Tabella(p)[n].tipo \in {"R", "W"} /\ pipe[Tabella(p)[n].h].usata
            /\ Tabella(p)[n].h \in Tubi
            /\ Chiesto(p, n) =>
                 \/ Tabella(p)[n].tipo = "R" /\ Vuoto(pipe[Tabella(p)[n].h])
                 \/ Tabella(p)[n].tipo = "W" /\ Pieno(pipe[Tabella(p)[n].h])
      BY <1>0, <1>3, <2>3, NonPronta, DescrittoreTipo DEF Pronta
    <2>5. \A h \in Tubi : \A l \in Lati : <<h, l>> \in buoni => pipe[h].usata
      <3> SUFFICES ASSUME NEW h \in Tubi, NEW l \in Lati, <<h, l>> \in buoni PROVE pipe[h].usata
        OBVIOUS
      <3>1. PICK n \in DOMAIN th[p].voci : <<h, l>> = <<Tabella(p)[n].h, Lato(Tabella(p)[n].tipo)>>
        BY <1>0, <2>2, RegistraTipo
      <3> QED  BY <2>4, <3>1
    <2>6. ASSUME NEW h \in Tubi
          PROVE  att'[h] = [l \in Lati |-> IF <<h, l>> \in buoni THEN att[h][l] \cup {p} ELSE att[h][l]]
      BY <2>1 DEF Lati
    <2>7. ASSUME NEW h \in Tubi, NEW l \in Lati
          PROVE  att'[h][l] = IF <<h, l>> \in buoni THEN att[h][l] \cup {p} ELSE att[h][l]
      BY <2>6
    <2>8. att' \in [Tubi -> [Lati -> SUBSET Fili]]
      <3>1. att \in [Tubi -> [Lati -> SUBSET Fili]]
        BY <1>0 DEF TypeOK
      <3>2. ASSUME NEW h \in Tubi PROVE att'[h] \in [Lati -> SUBSET Fili]
        <4>1. \A l \in Lati : att[h][l] \in SUBSET Fili
          BY <3>1
        <4>2. \A l \in Lati : (IF <<h, l>> \in buoni THEN att[h][l] \cup {p} ELSE att[h][l]) \in SUBSET Fili
          BY <4>1
        <4> QED  BY <2>6, <4>2
      <3>3. att' = [h \in Tubi |-> att'[h]]
        BY <2>1
      <3> QED  BY <3>2, <3>3
    <2>9. PICK i \in Quadri : /\ i = In(p, "dorme") /\ i.st = "dorme" /\ i.op = th[p].op
                              /\ i.h = th[p].h /\ i.voci = th[p].voci
      BY <1>0, InTipo DEF Luoghi
    <2>10. PICK b \in BOOLEAN : b <=> buoni # Registra(p)
      OBVIOUS
    <2>11. PICK r : r = [i EXCEPT !.nb = b]
      OBVIOUS
    <2>12. /\ r \in Quadri /\ r.st = "dorme" /\ r.op = "poll" /\ r.h = th[p].h /\ r.voci = th[p].voci
           /\ r.nb = b
      BY <1>0, <2>9, <2>11 DEF Quadri
    <2>13. th' = [th EXCEPT ![p] = r]
      <3>1. b = (buoni # Registra(p))
        BY <2>10
      <3> QED  BY <2>1, <2>9, <2>11, <3>1
    <2>14. FormaDi(r)
      BY <1>0, <2>12 DEF FormaDi
    <2>15. \A h \in Tubi : \A l \in Lati : /\ att[h][l] \ {p} \subseteq att'[h][l]
                                           /\ ~pipe[h].usata => att'[h][l] \subseteq att[h][l]
      BY <2>5, <2>7
    <2>16. Effetto(p) /\ th'[p] = r
      BY <1>1, <2>8, <2>12, <2>13, <2>14, <2>15, ListeDiP
    <2>17. ASSUME buoni = Registra(p), NEW n \in DOMAIN th[p].voci, Chiesto(p, n)
           PROVE  \/ Tabella(p)[n].tipo = "R" /\ AttendeL(p, Tabella(p)[n].h)'
                  \/ Tabella(p)[n].tipo = "W" /\ AttendeS(p, Tabella(p)[n].h)'
      <3>1. <<Tabella(p)[n].h, Lato(Tabella(p)[n].tipo)>> \in buoni
        BY <2>4, <2>17 DEF Registra, Chiesto
      <3>2. Lato(Tabella(p)[n].tipo) \in Lati
        BY DEF Lato, Lati
      <3>3. p \in att'[Tabella(p)[n].h][Lato(Tabella(p)[n].tipo)]
        BY <2>4, <2>7, <3>1, <3>2
      <3>4. PICK d : d = Tabella(p)[n] /\ UNCHANGED Tabella(p)
        BY <1>1 DEF Tabella
      <3>5. /\ d.tipo = "R" => p \in att'[d.h]["L"]
            /\ d.tipo = "W" => p \in att'[d.h]["S"]
        BY <3>3, <3>4 DEF Lato
      <3>6. \/ d.tipo = "R" /\ Vuoto(pipe'[d.h])
            \/ d.tipo = "W" /\ Pieno(pipe'[d.h])
        BY <1>1, <2>4, <2>17, <3>4
      <3> QED  BY <3>4, <3>5, <3>6 DEF AttendeL, AttendeS
    <2>18. Scruta(p)
      BY <1>0, <1>1, <2>12, <2>16 DEF Scruta, Cambia
    <2> QED  BY <2>4, <2>10, <2>12, <2>16, <2>17, <2>18
  <1> QED  BY <1>2, <1>3 DEF PollGira

\* sys_poll, awake.
LEMMA PollDestoEffetto ==
    ASSUME Inv2, NEW p \in Fili, PollDesto(p)
    PROVE  Effetto(p) /\ Scruta(p) /\ th'[p].st # "dorme"
  <1> DEFINE posto == {<<Tabella(p)[n].h, Lato(Tabella(p)[n].tipo)>> :
                         n \in {m \in DOMAIN th[p].voci : Tabella(p)[m].tipo # "no"}}
  <1>0. TypeOK /\ FormaDi(th[p]) /\ th[p].st = "desto" /\ th[p].op = "poll"
    BY DEF Inv2, Inv1, Forma, PollDesto
  <1>1. /\ UNCHANGED <<pipe, posti, fdt, interrotto, scritti>>
        /\ att' = [h \in Tubi |-> [l \in {"L", "S"} |->
                     IF <<h, l>> \in posto THEN att[h][l] \ {p} ELSE att[h][l]]]
        /\ th' = [th EXCEPT ![p] = IF p \in interrotto THEN Resa(p, "altro", <<>>)
                                   ELSE [In(p, "gira") EXCEPT !.nb = FALSE]]
    BY DEF PollDesto
  <1> HIDE DEF posto
  <1>2. ASSUME NEW h \in Tubi
        PROVE  att'[h] = [l \in Lati |-> IF <<h, l>> \in posto THEN att[h][l] \ {p} ELSE att[h][l]]
    BY <1>1 DEF Lati
  <1>3. att' \in [Tubi -> [Lati -> SUBSET Fili]]
    <2>1. att \in [Tubi -> [Lati -> SUBSET Fili]]
      BY <1>0 DEF TypeOK
    <2>2. ASSUME NEW h \in Tubi PROVE att'[h] \in [Lati -> SUBSET Fili]
      <3>1. \A l \in Lati : att[h][l] \in SUBSET Fili
        BY <2>1
      <3>2. \A l \in Lati : (IF <<h, l>> \in posto THEN att[h][l] \ {p} ELSE att[h][l]) \in SUBSET Fili
        BY <3>1
      <3> QED  BY <1>2, <3>2
    <2>3. att' = [h \in Tubi |-> att'[h]]
      BY <1>1
    <2> QED  BY <2>2, <2>3
  <1>4. \A h \in Tubi : \A l \in Lati : /\ att[h][l] \ {p} \subseteq att'[h][l]
                                        /\ ~pipe[h].usata => att'[h][l] \subseteq att[h][l]
    <2>1. ASSUME NEW h \in Tubi, NEW l \in Lati
          PROVE  att'[h][l] = IF <<h, l>> \in posto THEN att[h][l] \ {p} ELSE att[h][l]
      BY <1>2
    <2> QED  BY <2>1
  <1>5. PICK r \in Quadri :
          /\ th' = [th EXCEPT ![p] = r] /\ FormaDi(r) /\ r.st \in {"fuori", "esce", "gira"}
          /\ r.op = "no" \/ (r.op = "poll" /\ r.voci = th[p].voci)
    <2>1. CASE p \in interrotto
      <3>1. <<>> \in Seq(Byte) /\ "altro" \in Esiti
        BY DEF Esiti
      <3>2. PICK r \in Quadri : r = Resa(p, "altro", <<>>) /\ r.st \in {"fuori", "esce"} /\ r.op = "no"
        BY <3>1, ResaTipo
      <3>3. FormaDi(r) /\ th' = [th EXCEPT ![p] = r]
        BY <1>1, <2>1, <3>2 DEF FormaDi
      <3> QED  BY <3>2, <3>3
    <2>2. CASE p \notin interrotto
      <3>1. PICK i \in Quadri : i = In(p, "gira") /\ i.st = "gira" /\ i.op = th[p].op
                                /\ i.h = th[p].h /\ i.voci = th[p].voci
        BY <1>0, InTipo DEF Luoghi
      <3>2. PICK r : r = [i EXCEPT !.nb = FALSE]
        OBVIOUS
      <3>3. r \in Quadri /\ r.st = "gira" /\ r.op = "poll" /\ r.h = th[p].h /\ r.voci = th[p].voci
        BY <1>0, <3>1, <3>2 DEF Quadri
      <3>4. FormaDi(r) /\ th' = [th EXCEPT ![p] = r]
        BY <1>0, <1>1, <2>2, <3>1, <3>2, <3>3 DEF FormaDi
      <3> QED  BY <3>3, <3>4
    <2> QED  BY <2>1, <2>2
  <1>6. Effetto(p) /\ th'[p] = r
    BY <1>1, <1>3, <1>4, <1>5, ListeDiP
  <1> QED  BY <1>0, <1>1, <1>5, <1>6 DEF Scruta, Cambia

\* The tick wakes a poller.
LEMMA BattitoEffetto ==
    ASSUME Inv2, NEW p \in Fili, Battito(p)
    PROVE  Effetto(p) /\ Scruta(p) /\ th'[p].st # "dorme"
  <1>0. TypeOK /\ FormaDi(th[p]) /\ th[p].st = "dorme" /\ th[p].op = "poll"
    BY DEF Inv2, Inv1, Forma, Battito
  <1>1. UNCHANGED <<pipe, att, posti, fdt, interrotto, scritti>>
    BY DEF Battito
  <1>2. PICK i \in Quadri : i = In(p, "desto") /\ i.st = "desto" /\ i.op = th[p].op
                            /\ i.h = th[p].h /\ i.voci = th[p].voci
    BY <1>0, InTipo DEF Luoghi
  <1>3. PICK r : r \in {i, [i EXCEPT !.tempo = "scaduto"]} /\ th' = [th EXCEPT ![p] = r]
    BY <1>2 DEF Battito
  <1>4. r \in Quadri /\ r.st = "desto" /\ r.op = "poll" /\ r.h = th[p].h /\ r.voci = th[p].voci
    BY <1>0, <1>2, <1>3 DEF Quadri
  <1>5. FormaDi(r)
    BY <1>0, <1>4 DEF FormaDi
  <1>6. Effetto(p) /\ th'[p] = r
    BY <1>0, <1>1, <1>3, <1>4, <1>5, MuoveEffetto DEF TypeOK
  <1> QED  BY <1>0, <1>1, <1>4, <1>6 DEF Scruta, Cambia

\* proc_interrompi.
LEMMA InterrompiEffetto ==
    ASSUME Inv2, NEW p \in Fili, proc_interrompi(p)
    PROVE  /\ Effetto(p) /\ UNCHANGED fdt /\ th'[p].st # "dorme"
           /\ th'[p].op = th[p].op /\ th'[p].fd = th[p].fd /\ th'[p].voci = th[p].voci
           /\ th'[p].n = th[p].n /\ th'[p].h = th[p].h
           /\ th'[p].st = th[p].st \/ th'[p].st = "desto"
  <1>0. TypeOK /\ FormaDi(th[p]) /\ th \in [Fili -> Quadri]
    BY DEF Inv2, Inv1, Forma, TypeOK
  <1>1. /\ UNCHANGED <<pipe, att, posti, fdt, scritti>>
        /\ th' = Desti({p}, th) /\ interrotto' = interrotto \cup {p}
    BY DEF proc_interrompi
  <1>2. /\ th' \in [Fili -> Quadri]
        /\ \A q \in Fili :
             /\ th'[q].st = IF q \in {p} /\ th[q].st = "dorme" THEN "desto" ELSE th[q].st
             /\ th'[q].op = th[q].op /\ th'[q].h = th[q].h
             /\ th'[q].fd = th[q].fd /\ th'[q].n = th[q].n
             /\ th'[q].nb = th[q].nb /\ th'[q].voci = th[q].voci
             /\ q \notin {p} \/ th[q].st # "dorme" => th'[q] = th[q]
    BY <1>0, <1>1, DestiTipo
  <1>3. AltriPari(p)
    BY <1>2 DEF AltriPari
  <1>4. FormaDi(th'[p]) /\ th'[p].st # "dorme"
    BY <1>0, <1>2 DEF FormaDi
  <1>5. TypeOK'
    BY <1>0, <1>1, <1>2 DEF TypeOK
  <1>6. Salvi(p) /\ Deserti'
    BY <1>1, Fermi
  <1> QED  BY <1>1, <1>2, <1>3, <1>4, <1>5, <1>6 DEF Effetto

-----------------------------------------------------------------------------
(* fork and exit.                                                          *)

\* The descriptors of a program that are one end of one pipe can be counted.
LEMMA QuantiCapi ==
    ASSUME NEW f, NEW h, NEW tipo
    PROVE  Cardinality({n \in {m \in Numeri : f[m].tipo # "no"} : f[n] = [tipo |-> tipo, h |-> h]}) \in Nat
  <1>1. IsFiniteSet(Numeri)
    BY MisureTubi
  <1>2. {n \in {m \in Numeri : f[m].tipo # "no"} : f[n] = [tipo |-> tipo, h |-> h]} \subseteq Numeri
    OBVIOUS
  <1> QED  BY <1>1, <1>2, FS_Subset, FS_CardinalityType

\* sys_fork: every pipe has at least the ends it had; a thread of the child is
\* out of every call.
LEMMA ForkEffetto ==
    ASSUME Inv2, NEW p \in Fili, NEW g \in Programmi, Fork(p, g)
    PROVE  /\ Inv2' /\ Salvi(p) /\ g # Programma[p]
           /\ \A q \in Fili : Programma[q] = g => th[q].st = "non nato"
           /\ fdt' = [fdt EXCEPT ![g] = Tabella(p)]
           /\ \A q \in Fili : \/ th'[q] = th[q] /\ Programma[q] # g /\ q # p
                              \/ /\ th'[q].st \in {"fuori", "esce"} /\ th'[q].op = "no"
                                 /\ th'[q].reso = Zitto
  <1>0. TypeOK /\ Forma /\ Deserti
    BY DEF Inv2, Inv1
  <1> DEFINE usati == {n \in Numeri : Tabella(p)[n].tipo # "no"}
             quanti(h, tipo) == Cardinality({n \in usati : Tabella(p)[n] = [tipo |-> tipo, h |-> h]})
  <1>1. /\ pipe' = [h \in Tubi |-> IF ~pipe[h].usata THEN pipe[h]
                      ELSE [pipe[h] EXCEPT !.lettori = @ + quanti(h, "R"),
                                           !.scrittori = @ + quanti(h, "W")]]
        /\ fdt' = [fdt EXCEPT ![g] = Tabella(p)]
        /\ th' = [q \in Fili |-> CASE q = p -> Resa(p, "no", <<>>)
                                   [] Programma[q] = g -> Fuori(Zitto)
                                   [] OTHER -> th[q]]
        /\ UNCHANGED <<att, posti, interrotto, scritti>>
        /\ th[p].st = "fuori"
        /\ \A q \in Fili : Programma[q] = g => th[q].st = "non nato"
    BY DEF Fork, InizioChiamata
  <1>2. \A h, tipo : quanti(h, tipo) \in Nat
    BY QuantiCapi
  <1> HIDE DEF quanti
  <1>3. g # Programma[p]
    BY <1>1
  <1>4. ASSUME NEW h \in Tubi
        PROVE  /\ pipe'[h] \in Anelli /\ (pipe[h].usata => pipe'[h].usata)
               /\ Vuoto(pipe[h]) => Vuoto(pipe'[h])
               /\ Pieno(pipe[h]) => Pieno(pipe'[h])
    <2>1. PICK e \in Anelli : e = pipe[h]
      BY <1>0 DEF TypeOK
    <2>2. CASE ~e.usata
      BY <1>1, <2>1, <2>2
    <2>3. CASE e.usata
      <3>1. e.lettori \in Nat /\ e.scrittori \in Nat
        BY DEF Anelli
      <3>2. PICK x \in Nat, y \in Nat : /\ x = e.lettori + quanti(h, "R") /\ x >= e.lettori
                                        /\ y = e.scrittori + quanti(h, "W") /\ y >= e.scrittori
        <4>1. quanti(h, "R") \in Nat /\ quanti(h, "W") \in Nat
          BY <1>2
        <4> QED  BY <3>1, <4>1
      <3>3. pipe'[h] = [e EXCEPT !.lettori = x, !.scrittori = y]
        BY <1>1, <2>1, <2>3, <3>2
      <3>4. PICK d : d = pipe'[h]
        OBVIOUS
      <3>5. d \in Anelli /\ d.usata = e.usata /\ d.quanti = e.quanti /\ d.lettori = x /\ d.scrittori = y
        BY <3>3, <3>4 DEF Anelli
      <3> QED  BY <2>1, <2>3, <3>1, <3>2, <3>4, <3>5 DEF Vuoto, Pieno
    <2> QED  BY <2>2, <2>3
  <1>5. pipe' \in [Tubi -> Anelli]
    <2>1. pipe' = [h \in Tubi |-> pipe'[h]]
      BY <1>1
    <2> QED  BY <1>4, <2>1
  <1>6. Salvi(p) /\ Deserti'
    BY <1>0, <1>1, <1>4 DEF Salvi, Deserti, AttendeL, AttendeS
  <1>7. ASSUME NEW q \in Fili
        PROVE  /\ th'[q] \in Quadri
               /\ \/ th'[q] = th[q] /\ Programma[q] # g /\ q # p
                  \/ th'[q].st \in {"fuori", "esce"} /\ th'[q].op = "no" /\ th'[q].reso = Zitto
    <2>1. CASE q = p
      <3>1. <<>> \in Seq(Byte) /\ "no" \in Esiti
        BY DEF Esiti
      <3>2. th'[q] = Resa(p, "no", <<>>)
        BY <1>1, <2>1
      <3>3. th'[q].reso = Zitto
        BY <3>2, ResaReso DEF Zitto
      <3> QED  BY <3>1, <3>2, <3>3, ResaTipo
    <2>2. CASE q # p /\ Programma[q] = g
      <3>1. th'[q] = Fuori(Zitto)
        BY <1>1, <2>2
      <3>2. th'[q].reso = Zitto
        BY <3>1, FuoriReso
      <3> QED  BY <3>1, <3>2, FuoriTipo, ZittoTipo
    <2>3. CASE q # p /\ Programma[q] # g
      <3>1. th'[q] = th[q]
        BY <1>1, <2>3
      <3> QED  BY <1>0, <2>3, <3>1 DEF TypeOK
    <2> QED  BY <2>1, <2>2, <2>3
  <1>8. th' \in [Fili -> Quadri]
    <2>1. th' = [q \in Fili |-> th'[q]]
      BY <1>1
    <2> QED  BY <1>7, <2>1
  <1>9. fdt' \in [Programmi -> [Numeri -> Descrittori]]
    BY <1>0, <1>1 DEF TypeOK, Tabella, Programmi
  <1>10. TypeOK'
    BY <1>0, <1>1, <1>5, <1>8, <1>9 DEF TypeOK
  <1>11. Forma'
    <2> SUFFICES ASSUME NEW q \in Fili PROVE FormaDi(th'[q])
      BY DEF Forma, FormaDi
    <2>1. CASE th'[q] = th[q]
      BY <1>0, <2>1 DEF Forma
    <2>2. CASE th'[q].st \in {"fuori", "esce"} /\ th'[q].op = "no"
      BY <2>2 DEF FormaDi
    <2> QED  BY <1>7, <2>1, <2>2
  <1>12. LettoScritto'
    BY <1>6, <1>7, LettoScrittoPasso
  <1> QED  BY <1>1, <1>3, <1>6, <1>7, <1>10, <1>11, <1>12 DEF Inv2, Inv1

\* proc_exit: a pipe that lost the last end of a side told those at the other;
\* every thread of the program is dead.
LEMMA EsceEffetto ==
    ASSUME Inv2, NEW p \in Fili, Esce(p)
    PROVE  /\ Inv2' /\ Salvi(p) /\ Programma[p] \in Programmi
           /\ fdt' = [fdt EXCEPT ![Programma[p]] = [n \in Numeri |-> Libero]]
           /\ \A q \in Fili : Programma[q] = Programma[p] =>
                th'[q].st = "morto" /\ th'[q].op = "no" /\ th'[q].reso = Zitto
           /\ \A q \in Fili : Programma[q] # Programma[p] =>
                /\ th'[q].op = th[q].op /\ th'[q].h = th[q].h /\ th'[q].fd = th[q].fd
                /\ th'[q].n = th[q].n /\ th'[q].nb = th[q].nb /\ th'[q].voci = th[q].voci
                /\ th'[q].reso = th[q].reso
                /\ th'[q].st = th[q].st \/ (th[q].st = "dorme" /\ th'[q].st = "desto")
                /\ th'[q].st = "dorme" => th'[q] = th[q]
  <1>0. TypeOK /\ Forma /\ Deserti
    BY DEF Inv2, Inv1
  <1> DEFINE usati == {n \in Numeri : Tabella(p)[n].tipo # "no"}
             capi(h, tipo) == Cardinality({n \in usati : Tabella(p)[n] = [tipo |-> tipo, h |-> h]})
             resta(k, m) == IF k > m THEN k - m ELSE 0
             P1 == [h \in Tubi |-> [pipe[h] EXCEPT !.lettori = resta(@, capi(h, "R")),
                                                   !.scrittori = resta(@, capi(h, "W"))]]
             P2 == [h \in Tubi |-> IF P1[h].lettori = 0 /\ P1[h].scrittori = 0
                                   THEN Vergine(P1[h]) ELSE P1[h]]
             desta == UNION {(IF P1[h].lettori = 0 THEN att[h]["S"] ELSE {}) \cup
                             (IF P1[h].scrittori = 0 THEN att[h]["L"] ELSE {}) : h \in Tubi}
             TH == [q \in Fili |-> IF q \in {x \in Fili : Programma[x] = Programma[p]}
                                   THEN [Fuori(Zitto) EXCEPT !.st = "morto"] ELSE th[q]]
  <1>1. /\ pipe' = P2 /\ att' = Dimenticati(P2, att)
        /\ fdt' = [fdt EXCEPT ![Programma[p]] = [n \in Numeri |-> Libero]]
        /\ th' = Desti(desta, TH)
        /\ UNCHANGED <<posti, interrotto, scritti>>
    BY DEF Esce
  <1>2. \A h, tipo : capi(h, tipo) \in Nat
    BY QuantiCapi
  <1> HIDE DEF capi
  <1>3. ASSUME NEW h \in Tubi
        PROVE  \E x, y \in Nat : /\ P1[h] = [pipe[h] EXCEPT !.lettori = x, !.scrittori = y]
                                 /\ P1[h] \in Anelli /\ P1[h].lettori = x /\ P1[h].scrittori = y
                                 /\ P1[h].usata = pipe[h].usata /\ P1[h].quanti = pipe[h].quanti
    <2>1. PICK e \in Anelli : e = pipe[h]
      BY <1>0 DEF TypeOK
    <2>2. e.lettori \in Nat /\ e.scrittori \in Nat /\ capi(h, "R") \in Nat /\ capi(h, "W") \in Nat
      BY <1>2 DEF Anelli
    <2>3. PICK x \in Nat, y \in Nat : x = resta(e.lettori, capi(h, "R")) /\ y = resta(e.scrittori, capi(h, "W"))
      BY <2>2
    <2>4. P1[h] = [e EXCEPT !.lettori = x, !.scrittori = y]
      BY <2>1, <2>3
    <2>5. PICK d : d = P1[h]
      OBVIOUS
    <2>6. /\ d \in Anelli /\ d.lettori = x /\ d.scrittori = y
          /\ d.usata = e.usata /\ d.quanti = e.quanti
      <3> HIDE DEF P1
      <3> QED  BY <2>4, <2>5 DEF Anelli
    <2> HIDE DEF P1
    <2> QED  BY <2>1, <2>4, <2>5, <2>6
  <1>4. ASSUME NEW h \in Tubi
        PROVE  /\ att[h]["S"] \subseteq desta \/ P1[h].lettori # 0
               /\ att[h]["L"] \subseteq desta \/ P1[h].scrittori # 0
    <2> HIDE DEF P1
    <2> QED  OBVIOUS
  <1> HIDE DEF P1
  <1>5. ASSUME NEW h \in Tubi
        PROVE  /\ P2[h] \in Anelli
               /\ P1[h].lettori # 0 \/ P1[h].scrittori # 0 => P2[h] = P1[h]
    <2>1. P1[h] \in Anelli
      BY <1>3
    <2> QED  BY <2>1, VergineTipo
  <1> HIDE DEF desta
  <1>6. P2 \in [Tubi -> Anelli]
    BY <1>5
  <1>7. ASSUME NEW q \in Fili
        PROVE  /\ TH[q] \in Quadri
               /\ Programma[q] = Programma[p] => TH[q].st = "morto" /\ TH[q].op = "no"
                                                 /\ TH[q].reso = Zitto
               /\ Programma[q] # Programma[p] => TH[q] = th[q]
    <2>1. "morto" \in Luoghi
      BY DEF Luoghi
    <2>2. PICK m \in Quadri : /\ m = [Fuori(Zitto) EXCEPT !.st = "morto"]
                              /\ m.st = "morto" /\ m.op = "no"
      BY <2>1, FuoriTipo, ZittoTipo
    <2>3. m.reso = Zitto
      BY <2>2, FuoriReso
    <2>4. TH[q] = IF Programma[q] = Programma[p] THEN m ELSE th[q]
      BY <2>2
    <2> QED  BY <1>0, <2>2, <2>3, <2>4 DEF TypeOK
  <1>8. TH \in [Fili -> Quadri]
    BY <1>7
  <1> HIDE DEF P2, TH
  <1>9. /\ th' \in [Fili -> Quadri]
        /\ \A q \in Fili :
             /\ th'[q].st = IF q \in desta /\ TH[q].st = "dorme" THEN "desto" ELSE TH[q].st
             /\ th'[q].op = TH[q].op /\ th'[q].h = TH[q].h
             /\ th'[q].fd = TH[q].fd /\ th'[q].n = TH[q].n
             /\ th'[q].nb = TH[q].nb /\ th'[q].voci = TH[q].voci
             /\ th'[q].reso = TH[q].reso
             /\ q \notin desta \/ TH[q].st # "dorme" => th'[q] = TH[q]
    BY <1>1, <1>8, DestiTipo
  <1>10. ASSUME NEW q \in Fili, Programma[q] = Programma[p]
         PROVE  th'[q].st = "morto" /\ th'[q].op = "no" /\ th'[q].reso = Zitto
    BY <1>7, <1>9, <1>10
  <1>11. ASSUME NEW q \in Fili, Programma[q] # Programma[p]
         PROVE  /\ th'[q].op = th[q].op /\ th'[q].h = th[q].h /\ th'[q].fd = th[q].fd
                /\ th'[q].n = th[q].n /\ th'[q].nb = th[q].nb /\ th'[q].voci = th[q].voci
                /\ th'[q].reso = th[q].reso
                /\ th'[q].st = th[q].st \/ (th[q].st = "dorme" /\ th'[q].st = "desto")
                /\ th'[q].st = "dorme" => th'[q] = th[q] /\ q \notin desta
    <2>1. TH[q] = th[q]
      BY <1>7, <1>11
    <2> QED  BY <1>9, <2>1
  <1>12. ASSUME NEW h \in Tubi, NEW q \in Fili \ {p}, th'[q].st = "dorme"
         PROVE  /\ AttendeL(q, h) => Vuoto(P2[h])
                /\ AttendeS(q, h) => Pieno(P2[h])
    <2>1. q \notin desta
      BY <1>10, <1>11, <1>12
    <2>2. PICK x \in Nat, y \in Nat : /\ P1[h].lettori = x /\ P1[h].scrittori = y
                                      /\ P1[h].usata = pipe[h].usata /\ P1[h].quanti = pipe[h].quanti
      BY <1>3
    <2>3. AttendeL(q, h) => P1[h].scrittori # 0 /\ P2[h] = P1[h]
      BY <1>4, <1>5, <2>1 DEF AttendeL
    <2>4. AttendeS(q, h) => P1[h].lettori # 0 /\ P2[h] = P1[h]
      BY <1>4, <1>5, <2>1 DEF AttendeS
    <2> QED  BY <2>2, <2>3, <2>4 DEF AttendeL, AttendeS, Vuoto, Pieno
  <1>13. /\ Salvi(p) /\ Deserti'
         /\ pipe' \in [Tubi -> Anelli] /\ att' \in [Tubi -> [Lati -> SUBSET Fili]]
    BY <1>0, <1>1, <1>6, <1>12, ChiusiSalvi
  <1>14. Programma[p] \in Programmi
    BY DEF Programmi
  <1>15. fdt' \in [Programmi -> [Numeri -> Descrittori]]
    <2>1. [n \in Numeri |-> Libero] \in [Numeri -> Descrittori]
      BY DEF Descrittori
    <2> QED  BY <1>0, <1>1, <2>1 DEF TypeOK
  <1>16. TypeOK'
    BY <1>0, <1>1, <1>9, <1>13, <1>15 DEF TypeOK
  <1>17. Forma'
    <2> SUFFICES ASSUME NEW q \in Fili PROVE FormaDi(th'[q])
      BY DEF Forma, FormaDi
    <2>1. CASE Programma[q] = Programma[p]
      BY <1>10, <2>1 DEF FormaDi
    <2>2. CASE Programma[q] # Programma[p]
      <3>1. FormaDi(th[q])
        BY <1>0 DEF Forma
      <3> QED  BY <1>11, <2>2, <3>1 DEF FormaDi
    <2> QED  BY <2>1, <2>2
  <1>18. \A q \in Fili : th'[q].st = "dorme" => th'[q] = th[q]
    BY <1>10, <1>11
  <1>19. LettoScritto'
    <2>1. th'[p].st # "dorme"
      BY <1>10
    <2> QED  BY <1>13, <1>18, <2>1, LettoScrittoPasso
  <1> QED  BY <1>1, <1>10, <1>11, <1>13, <1>14, <1>16, <1>17, <1>19 DEF Inv2, Inv1

-----------------------------------------------------------------------------
(* Every step; what holds with no hypotheses on the threads.               *)

\* A step is a step of a thread that leaves the others where they are or wakes
\* them, a fork or an exit.
LEMMA OgniPasso ==
    ASSUME Inv2, Next
    PROVE  \/ \E p \in Fili : Effetto(p)
           \/ \E p \in Fili, g \in Programmi : Fork(p, g)
           \/ \E p \in Fili : Esce(p)
  <1>1. PICK p \in Fili : Passo(p) \/ Chiamata(p) \/ Battito(p) \/ proc_interrompi(p)
    BY DEF Next
  <1>2. CASE Passo(p)
    BY <1>2, CresceGuardaEffetto, CrescePosaEffetto, PipeLetturaEffetto, PipeScritturaEffetto,
       DupPosaEffetto, ChiudiPosaEffetto, LeggiEffetto, ScriviEffetto, DestoEffetto,
       PollGiraEffetto, PollDestoEffetto DEF Passo
  <1>3. CASE Chiamata(p)
    BY <1>3, PipeCreaEffetto, DupApreEffetto, ChiudiEffetto, IniziaEffetto, PollIniziaEffetto
       DEF Chiamata
  <1>4. CASE Battito(p)
    BY <1>4, BattitoEffetto
  <1>5. CASE proc_interrompi(p)
    BY <1>5, InterrompiEffetto
  <1> QED  BY <1>1, <1>2, <1>3, <1>4, <1>5

\* The state the kernel starts in.
LEMMA Inv2Init == Init => Inv2
  <1> SUFFICES ASSUME Init PROVE Inv2
    OBVIOUS
  <1>1. ASSUME NEW p \in Fili
        PROVE  th[p] \in Quadri /\ th[p].st \in {"fuori", "non nato"} /\ th[p].op = "no"
    <2>1. "non nato" \in Luoghi
      BY DEF Luoghi
    <2>2. th[p] = IF Programma[p] = Primo THEN Fuori(Zitto) ELSE [Fuori(Zitto) EXCEPT !.st = "non nato"]
      BY DEF Init
    <2>3. PICK a \in Quadri : a = Fuori(Zitto) /\ a.st = "fuori" /\ a.op = "no"
      BY FuoriTipo, ZittoTipo
    <2>4. PICK b \in Quadri : /\ b = [Fuori(Zitto) EXCEPT !.st = "non nato"]
                              /\ b.st = "non nato" /\ b.op = "no"
      BY <2>1, FuoriTipo, ZittoTipo
    <2> QED  BY <2>2, <2>3, <2>4
  <1>2. th \in [Fili -> Quadri]
    <2>1. th = [p \in Fili |-> th[p]]
      BY DEF Init
    <2> QED  BY <1>1, <2>1
  <1>3. pipe \in [Tubi -> Anelli]
    <2>1. <<>> \in Byte /\ 0 \in 0 .. Dim
      BY MisureTubi DEF Byte
    <2>2. PICK B \in [0 .. Dim - 1 -> Byte] : B = [i \in 0 .. Dim - 1 |-> <<>>]
      BY <2>1
    <2>3. pipe = [h \in Tubi |-> [usata |-> FALSE, testa |-> 0, quanti |-> 0, lettori |-> 0,
                                  scrittori |-> 0, buf |-> B]]
      BY <2>2 DEF Init
    <2> QED  BY <2>1, <2>3 DEF Anelli
  <1>4. att \in [Tubi -> [Lati -> SUBSET Fili]] /\ \A h \in Tubi : att[h]["L"] = {} /\ att[h]["S"] = {}
    <2>1. PICK a \in [Lati -> SUBSET Fili] : a = [L |-> {}, S |-> {}] /\ a["L"] = {} /\ a["S"] = {}
      <3>1. {} \in SUBSET Fili
        OBVIOUS
      <3> QED  BY <3>1, DueLati
    <2>2. att = [h \in Tubi |-> a]
      BY <2>1 DEF Init
    <2> QED  BY <2>1, <2>2
  <1>5. posti \in [Tubi -> [Lati -> Nat]]
    <2>1. PICK a \in [Lati -> Nat] : a = [L |-> 0, S |-> 0]
      BY DueLati
    <2>2. posti = [h \in Tubi |-> a]
      BY <2>1 DEF Init
    <2> QED  BY <2>2
  <1>6. fdt \in [Programmi -> [Numeri -> Descrittori]]
    BY DEF Init, Descrittori
  <1>7. TypeOK
    BY <1>2, <1>3, <1>4, <1>5, <1>6 DEF TypeOK, Init
  <1>8. Forma
    BY <1>1 DEF Forma, FormaDi
  <1>9. Deserti /\ LettoScritto
    BY <1>1, <1>4 DEF Deserti, LettoScritto
  <1> QED  BY <1>7, <1>8, <1>9 DEF Inv2, Inv1

\* Every step keeps it.
LEMMA Inv2Passo == Inv2 /\ [Next]_vars => Inv2'
  <1> SUFFICES ASSUME Inv2, [Next]_vars PROVE Inv2'
    OBVIOUS
  <1>1. CASE Next
    BY <1>1, OgniPasso, EffettoInv2, ForkEffetto, EsceEffetto
  <1>2. CASE UNCHANGED vars
    BY <1>2 DEF vars, Inv2, Inv1, TypeOK, Forma, FormaDi, Deserti, LettoScritto, AttendeL, AttendeS,
       Vuoto, Pieno
  <1> QED  BY <1>1, <1>2

\* Every variable keeps its type: counts of ends and bytes within the ring,
\* lists of threads that exist, descriptors of pipes that exist (pipe.c,
\* attese.h, the descriptor table of syscall_impl.c).
THEOREM TipoCorretto == Spec => []TypeOK
  <1>1. Inv2 => TypeOK
    BY DEF Inv2, Inv1
  <1> QED  BY <1>1, Inv2Init, Inv2Passo, PTL DEF Spec

\* A thread asleep in pipe_leggi has no byte and somebody who may write, one
\* asleep in pipe_scrivi no room and somebody who may read, and both are in the
\* list that the next change wakes: whatever the threads do to descriptors they
\* share, with or without memory for the lists.
THEOREM ChiLeggeNonDorme == Spec => []LettoScritto
  <1>1. Inv2 => LettoScritto
    BY DEF Inv2
  <1> QED  BY <1>1, Inv2Init, Inv2Passo, PTL DEF Spec

-----------------------------------------------------------------------------
(* Pollers.                                                                *)

\* The rules a step of thread p follows among the threads of its program.
Regole(p) ==
    /\ th'[p].st \in Cambia => th[p].st \in Cambia \/ Indisturbato(p)
    /\ th'[p].st = "chiude" => \/ Inutilizzato(p, th'[p].fd)
                               \/ th[p].st = "chiude" /\ th'[p].fd = th[p].fd
    /\ th'[p].op \in {"R", "W"} =>
         \/ th[p].op = th'[p].op /\ th[p].fd = th'[p].fd
         \/ Saldo(p, th'[p].fd) \/ Indisturbato(p) \/ th[p].st \in Cambia
    /\ th'[p].op = "poll" => \/ th[p].op = "poll" /\ th'[p].voci = th[p].voci
                             \/ th[p].st \in Cambia
                             \/ \A n \in DOMAIN th'[p].voci : Saldo(p, n)
    /\ th'[p].st = "dup" => fdt'[Programma[p]][th'[p].n].tipo = "no"
    /\ th'[p].st = "pipe w" => fdt'[Programma[p]][th'[p].fd] = [tipo |-> "R", h |-> th'[p].h]
    /\ Sensati /\ th'[p].st = "dorme" /\ th'[p].op = "poll" /\ ~th'[p].nb =>
         \A n \in DOMAIN th'[p].voci :
             \/ fdt'[Programma[p]][n].tipo = "R" /\ AttendeL(p, fdt[Programma[p]][n].h)'
             \/ fdt'[Programma[p]][n].tipo = "W" /\ AttendeS(p, fdt[Programma[p]][n].h)'

\* What a step of thread p may write in the table: a number that was free, the
\* one it closes, or the one it gives back with a pipe.
Scrive(p) ==
    \/ UNCHANGED fdt
    \/ /\ th[p].st \in Cambia
       /\ \E n \in Numeri, x \in Descrittori :
            /\ fdt' = [fdt EXCEPT ![Programma[p]][n] = x]
            /\ \/ Tabella(p)[n].tipo = "no"
               \/ th[p].st = "chiude" /\ n = th[p].fd
               \/ /\ th[p].st = "pipe w" /\ n = th[p].fd
                  /\ \A q \in att[th[p].h]["L"] \cap Fili : th'[q].st # "dorme"

\* A read or a write that goes on follows them ...
LEMMA ProsegueRegole ==
    ASSUME NEW p \in Fili, Prosegue(p)
    PROVE  Regole(p) /\ Scrive(p)
  BY DEF Prosegue, Regole, Scrive, Cambia

\* ... and so does a poller.
LEMMA ScrutaRegole ==
    ASSUME NEW p \in Fili, Scruta(p), th'[p].st # "dorme"
    PROVE  Regole(p) /\ Scrive(p)
  BY DEF Scruta, Regole, Scrive, Cambia

\* A call that returns follows them.
LEMMA FinitoRegole ==
    ASSUME NEW p \in Fili, th'[p].st \in {"fuori", "esce"}, th'[p].op = "no"
    PROVE  Regole(p)
  BY DEF Regole, Cambia

\* Every step but a fork and an exit follows them.
LEMMA PassoRegole ==
    ASSUME Inv2, Posati, NEW p \in Fili, Passo(p) \/ Battito(p) \/ proc_interrompi(p)
    PROVE  Effetto(p) /\ Regole(p) /\ Scrive(p)
  <1>0. Inv2 /\ Posati /\ Forma /\ TypeOK
    BY DEF Inv2, Inv1
  <1>1. CASE CresceGuarda(p)
    <2>1. th[p].op \in {"R", "W"}
      BY <1>0, <1>1 DEF Forma, FormaDi, CresceGuarda
    <2> QED  BY <1>0, <1>1, <2>1, CresceGuardaEffetto, ProsegueRegole DEF Prosegue, Cambia
  <1>2. CASE CrescePosa(p)
    <2>1. th[p].op \in {"R", "W"}
      BY <1>0, <1>2 DEF Forma, FormaDi, CrescePosa
    <2> QED  BY <1>0, <1>2, <2>1, CrescePosaEffetto, ProsegueRegole DEF Prosegue, Cambia
  <1>3. CASE PipeLettura(p)
    <2>1. /\ Effetto(p) /\ th[p].st = "pipe r"
          /\ \/ /\ th'[p].st = "pipe w" /\ th'[p].op = th[p].op
                /\ th'[p].fd \in Numeri /\ Tabella(p)[th'[p].fd].tipo = "no"
                /\ fdt' = [fdt EXCEPT ![Programma[p]][th'[p].fd] = [tipo |-> "R", h |-> th'[p].h]]
             \/ UNCHANGED fdt /\ th'[p].st \in {"fuori", "esce"} /\ th'[p].op = "no"
      BY <1>0, <1>3, PipeLetturaEffetto
    <2>2. CASE UNCHANGED fdt /\ th'[p].st \in {"fuori", "esce"} /\ th'[p].op = "no"
      BY <2>1, <2>2, FinitoRegole DEF Scrive
    <2>3. CASE /\ th'[p].st = "pipe w" /\ th'[p].op = th[p].op
               /\ th'[p].fd \in Numeri /\ Tabella(p)[th'[p].fd].tipo = "no"
               /\ fdt' = [fdt EXCEPT ![Programma[p]][th'[p].fd] = [tipo |-> "R", h |-> th'[p].h]]
      <3>1. th'[p].h \in Tubi
        BY <2>1, <2>3 DEF Effetto, FormaDi
      <3>2. PICK x \in Descrittori : x = [tipo |-> "R", h |-> th'[p].h]
        BY <3>1 DEF Descrittori
      <3>3. fdt' = [fdt EXCEPT ![Programma[p]][th'[p].fd] = x]
        BY <2>3, <3>2
      <3>4. fdt'[Programma[p]][th'[p].fd] = x
        <4>1. PICK m \in Numeri : m = th'[p].fd
          BY <2>3
        <4>2. Programma[p] \in Programmi
          BY DEF Programmi
        <4>3. fdt' = [fdt EXCEPT ![Programma[p]][m] = x]
          BY <3>3, <4>1
        <4>4. \A k \in Programmi : \A j \in Numeri :
                fdt'[k][j] = IF k = Programma[p] /\ j = m THEN x ELSE fdt[k][j]
          BY <1>0, <4>3, TabellaScritta
        <4> QED  BY <4>1, <4>2, <4>4
      <3>5. th[p].st \in Cambia
        BY <2>1 DEF Cambia
      <3>6. Regole(p)
        BY <2>3, <3>2, <3>4, <3>5 DEF Regole
      <3>7. Scrive(p)
        BY <2>3, <3>3, <3>5 DEF Scrive
      <3> QED  BY <2>1, <3>6, <3>7
    <2> QED  BY <2>1, <2>2, <2>3
  <1>4. CASE PipeScrittura(p)
    <2>1. /\ Effetto(p) /\ th[p].st = "pipe w"
          /\ th'[p].st \in {"fuori", "esce"} /\ th'[p].op = "no"
          /\ \/ \E n \in Numeri :
                   /\ Tabella(p)[n].tipo = "no"
                   /\ fdt' = [fdt EXCEPT ![Programma[p]][n] = [tipo |-> "W", h |-> th[p].h]]
             \/ /\ fdt' = [fdt EXCEPT ![Programma[p]][th[p].fd] = Libero]
                /\ \A q \in att[th[p].h]["L"] \cap Fili : th'[q].st # "dorme"
      BY <1>0, <1>4, PipeScritturaEffetto
    <2>2. th[p].h \in Tubi /\ th[p].fd \in Numeri /\ th[p].st \in Cambia
      BY <1>0, <2>1 DEF Forma, FormaDi, Cambia
    <2>3. [tipo |-> "W", h |-> th[p].h] \in Descrittori /\ Libero \in Descrittori
      BY <2>2 DEF Descrittori
    <2>4. Scrive(p)
      BY <2>1, <2>2, <2>3 DEF Scrive
    <2> QED  BY <2>1, <2>4, FinitoRegole
  <1>5. CASE DupPosa(p)
    <2>1. /\ Effetto(p) /\ th[p].st = "dup" /\ th[p].n \in Numeri
          /\ th'[p].st \in {"fuori", "esce"} /\ th'[p].op = "no"
          /\ fdt' = [fdt EXCEPT ![Programma[p]][th[p].n] = Tabella(p)[th[p].fd]]
      BY <1>0, <1>5, DupPosaEffetto
    <2>2. th[p].fd \in Numeri /\ th[p].st \in Cambia /\ Tabella(p)[th[p].n].tipo = "no"
      BY <1>0, <2>1 DEF Forma, FormaDi, Cambia, Posati
    <2>3. Tabella(p)[th[p].fd] \in Descrittori
      BY <1>0, <2>2, DescrittoreTipo
    <2>4. Scrive(p)
      BY <2>1, <2>2, <2>3 DEF Scrive
    <2> QED  BY <2>1, <2>4, FinitoRegole
  <1>6. CASE ChiudiPosa(p)
    <2>1. /\ Effetto(p) /\ th[p].st = "chiude" /\ th[p].fd \in Numeri
          /\ th'[p].st \in {"fuori", "esce"} /\ th'[p].op = "no"
          /\ fdt' = [fdt EXCEPT ![Programma[p]][th[p].fd] = Libero]
      BY <1>0, <1>6, ChiudiPosaEffetto
    <2>2. Scrive(p)
      BY <2>1 DEF Scrive, Cambia, Descrittori
    <2> QED  BY <2>1, <2>2, FinitoRegole
  <1>7. CASE pipe_leggi(p) \/ pipe_scrivi(p) \/ Desto(p)
    BY <1>0, <1>7, LeggiEffetto, ScriviEffetto, DestoEffetto, ProsegueRegole
  <1>8. CASE PollGira(p)
    <2>1. /\ Effetto(p) /\ Scruta(p)
          /\ th'[p].st = "dorme" /\ ~th'[p].nb =>
                \A n \in DOMAIN th[p].voci :
                    /\ Tabella(p)[n].tipo \in {"R", "W"}
                    /\ Chiesto(p, n) =>
                         \/ Tabella(p)[n].tipo = "R" /\ AttendeL(p, Tabella(p)[n].h)'
                         \/ Tabella(p)[n].tipo = "W" /\ AttendeS(p, Tabella(p)[n].h)'
      BY <1>0, <1>8, PollGiraEffetto
    <2>2. Sensati => \A n \in DOMAIN th[p].voci : Tabella(p)[n].tipo \in {"R", "W"} => Chiesto(p, n)
      BY <1>8 DEF Sensati, PollGira
    <2>3. UNCHANGED fdt
      BY <2>1 DEF Scruta
    <2>4. Sensati /\ th'[p].st = "dorme" /\ th'[p].op = "poll" /\ ~th'[p].nb =>
            \A n \in DOMAIN th'[p].voci :
             \/ fdt'[Programma[p]][n].tipo = "R" /\ AttendeL(p, fdt[Programma[p]][n].h)'
             \/ fdt'[Programma[p]][n].tipo = "W" /\ AttendeS(p, fdt[Programma[p]][n].h)'
      BY <2>1, <2>2, <2>3 DEF Tabella, Scruta
    <2>5. Regole(p)
      BY <2>1, <2>4 DEF Regole, Scruta, Cambia
    <2> QED  BY <2>1, <2>3, <2>5 DEF Scrive
  <1>9. CASE PollDesto(p) \/ Battito(p)
    BY <1>0, <1>9, PollDestoEffetto, BattitoEffetto, ScrutaRegole
  <1>10. CASE proc_interrompi(p)
    <2>1. /\ Effetto(p) /\ UNCHANGED fdt /\ th'[p].st # "dorme"
          /\ th'[p].op = th[p].op /\ th'[p].fd = th[p].fd /\ th'[p].voci = th[p].voci
          /\ th'[p].n = th[p].n /\ th'[p].h = th[p].h
          /\ th'[p].st = th[p].st \/ th'[p].st = "desto"
      BY <1>0, <1>10, InterrompiEffetto
    <2>2. Regole(p)
      BY <1>0, <2>1 DEF Regole, Cambia, Posati, Tabella
    <2> QED  BY <2>1, <2>2 DEF Scrive
  <1> QED  BY <1>1, <1>2, <1>3, <1>4, <1>5, <1>6, <1>7, <1>8, <1>9, <1>10 DEF Passo

\* A call that begins, a fork and an exit apart, follows them.
LEMMA ChiamataRegole ==
    ASSUME Inv2, NEW p \in Fili, Chiamata(p), ~Esce(p), ~\E g \in Programmi : Fork(p, g)
    PROVE  Effetto(p) /\ Regole(p) /\ Scrive(p)
  <1>0. Inv2
    OBVIOUS
  <1>1. CASE PipeCrea(p)
    <2>1. Effetto(p) /\ UNCHANGED fdt /\ th'[p].st = "pipe r" /\ th'[p].op = "no"
      BY <1>0, <1>1, PipeCreaEffetto
    <2>2. Indisturbato(p)
      BY <1>1 DEF PipeCrea
    <2> QED  BY <2>1, <2>2 DEF Regole, Scrive, Cambia
  <1>2. CASE \E n \in Numeri : DupApre(p, n)
    <2>1. /\ Effetto(p) /\ UNCHANGED fdt /\ Indisturbato(p)
          /\ th'[p].st = "dup" /\ th'[p].n \in Numeri /\ Tabella(p)[th'[p].n].tipo = "no"
          /\ th'[p].op # "poll"
      BY <1>0, <1>2, DupApreEffetto
    <2> QED  BY <2>1 DEF Regole, Scrive, Cambia, Tabella
  <1>3. CASE \E n \in Numeri : Chiudi(p, n)
    <2>1. PICK n \in Numeri :
           /\ Effetto(p) /\ UNCHANGED fdt /\ Indisturbato(p) /\ Inutilizzato(p, n)
           /\ th'[p].st = "chiude" /\ th'[p].fd = n /\ th'[p].op # "poll"
      BY <1>0, <1>3, ChiudiEffetto
    <2> QED  BY <2>1 DEF Regole, Scrive, Cambia
  <1>4. CASE \E n \in Numeri, nb \in BOOLEAN, k \in Chiede["R"] \cup Chiede["W"] : Inizia(p, n, nb, k)
    <2>1. PICK n \in Numeri :
           /\ Effetto(p) /\ UNCHANGED fdt /\ Saldo(p, n)
           /\ th'[p].st = "gira" /\ th'[p].op \in {"R", "W"} /\ th'[p].fd = n
      BY <1>0, <1>4, IniziaEffetto
    <2> QED  BY <2>1 DEF Regole, Scrive, Cambia
  <1>5. CASE \E S \in Elenchi, tempo \in {"mai", "poi"} : PollInizia(p, S, tempo)
    <2>1. /\ Effetto(p) /\ UNCHANGED fdt
          /\ th'[p].st = "gira" /\ th'[p].op = "poll"
          /\ \A n \in DOMAIN th'[p].voci : Saldo(p, n)
      BY <1>0, <1>5, PollIniziaEffetto
    <2> QED  BY <2>1 DEF Regole, Scrive, Cambia
  <1> QED  BY <1>1, <1>2, <1>3, <1>4, <1>5 DEF Chiamata

\* What such a step leaves of the invariant.
LEMMA SoliPasso ==
    ASSUME Tavole, "gara" \notin Eventi, NEW p \in Fili, Effetto(p), Regole(p)
    PROVE  Soli'
  <1>1. \A q \in Fili \ {p} : th'[q].st \in Cambia => th[q].st \in Cambia
    BY DEF Effetto, AltriPari, Cambia
  <1>2. \A q \in Fili \ {p} : th'[p].st \in Cambia /\ Programma[q] = Programma[p] => th'[q].st \notin Cambia
    <2>1. th[p].st \in Cambia => \A q \in Fili \ {p} : Programma[q] = Programma[p] => th[q].st \notin Cambia
      BY DEF Tavole, Soli
    <2>2. Indisturbato(p) => \A q \in Fili \ {p} : Programma[q] = Programma[p] => th[q].st \notin Cambia
      BY DEF Indisturbato
    <2> QED  BY <1>1, <2>1, <2>2 DEF Regole
  <1>3. Soli
    BY DEF Tavole
  <1> SUFFICES ASSUME NEW x \in Fili, NEW y \in Fili, Programma[x] = Programma[y],
                      th'[x].st \in Cambia, th'[y].st \in Cambia
               PROVE  x = y
    BY DEF Soli
  <1>4. CASE x = p \/ y = p
    BY <1>2, <1>4
  <1>5. CASE x # p /\ y # p
    BY <1>1, <1>3, <1>5 DEF Soli
  <1> QED  BY <1>4, <1>5

\* A descriptor being closed stays unused,
LEMMA NonUsatiPasso ==
    ASSUME Tavole, "gara" \notin Eventi, NEW p \in Fili, Effetto(p), Regole(p)
    PROVE  NonUsati'
  <1>0. Soli /\ NonUsati
    BY DEF Tavole
  <1>1. \A q \in Fili \ {p} : /\ th'[q].st = "chiude" => th[q].st = "chiude"
                              /\ th'[q].fd = th[q].fd /\ th'[q].op = th[q].op /\ th'[q].voci = th[q].voci
    BY DEF Effetto, AltriPari
  <1> SUFFICES ASSUME NEW x \in Fili, NEW y \in Fili, th'[y].st = "chiude", x # y,
                      Programma[x] = Programma[y], NEW n, n = th'[y].fd,
                      \/ th'[x].op \in {"R", "W"} /\ th'[x].fd = n
                      \/ th'[x].op = "poll" /\ n \in DOMAIN th'[x].voci
               PROVE  FALSE
    BY DEF NonUsati, Usa
  <1>2. CASE y = p
    <2>1. Usa(x, n) /\ x # p
      BY <1>1, <1>2 DEF Usa
    <2>2. CASE Inutilizzato(p, n)
      BY <1>2, <2>1, <2>2 DEF Inutilizzato
    <2>3. CASE th[p].st = "chiude" /\ n = th[p].fd
      BY <1>0, <1>2, <2>1, <2>3 DEF NonUsati
    <2> QED  BY <1>2, <2>2, <2>3 DEF Regole
  <1>3. CASE y # p /\ x # p
    <2>1. Usa(x, th[y].fd) /\ th[y].st = "chiude"
      BY <1>1, <1>3 DEF Usa
    <2> QED  BY <1>0, <2>1 DEF NonUsati
  <1>4. CASE y # p /\ x = p
    <2>1. th[y].st = "chiude" /\ n = th[y].fd
      BY <1>1, <1>4
    <2>2. ~Usa(p, n) /\ ~Saldo(p, n) /\ ~Indisturbato(p) /\ th[p].st \notin Cambia
      BY <1>0, <1>4, <2>1 DEF NonUsati, Saldo, Indisturbato, Soli, Cambia
    <2>3. CASE th'[p].op \in {"R", "W"} /\ th'[p].fd = n
      BY <2>2, <2>3 DEF Regole, Usa
    <2>4. CASE th'[p].op = "poll" /\ n \in DOMAIN th'[p].voci
      BY <2>2, <2>4 DEF Regole, Usa
    <2> QED  BY <1>4, <2>3, <2>4
  <1> QED  BY <1>2, <1>3, <1>4

\* and what a dup or a pipe counts on stays in the table.
LEMMA PosatiPasso ==
    ASSUME Tavole, NEW p \in Fili, Effetto(p), Regole(p), Scrive(p)
    PROVE  Posati'
  <1>0. Soli /\ Posati /\ TypeOK /\ Forma
    BY DEF Tavole, Inv2, Inv1
  <1> SUFFICES ASSUME NEW q \in Fili
               PROVE  /\ th'[q].st = "dup" => fdt'[Programma[q]][th'[q].n].tipo = "no"
                      /\ th'[q].st = "pipe w" =>
                           fdt'[Programma[q]][th'[q].fd] = [tipo |-> "R", h |-> th'[q].h]
    BY DEF Posati, Tabella
  <1>1. CASE q = p
    BY <1>1 DEF Regole
  <1>2. CASE q # p /\ th'[q].st \in {"dup", "pipe w"}
    <2>1. /\ th[q].st = th'[q].st /\ th'[q].n = th[q].n /\ th'[q].fd = th[q].fd /\ th'[q].h = th[q].h
      BY <1>2 DEF Effetto, AltriPari
    <2>2. fdt'[Programma[q]] = fdt[Programma[q]]
      <3>1. CASE UNCHANGED fdt
        BY <3>1
      <3>2. CASE ~UNCHANGED fdt
        <4>0. th[p].st \in Cambia
          BY <3>2 DEF Scrive
        <4>1. Programma[q] # Programma[p]
          BY <1>0, <1>2, <2>1, <4>0 DEF Soli, Cambia
        <4>2. PICK n \in Numeri, x \in Descrittori : fdt' = [fdt EXCEPT ![Programma[p]][n] = x]
          BY <3>2 DEF Scrive
        <4> QED  BY <1>0, <4>1, <4>2 DEF TypeOK, Programmi
      <3> QED  BY <3>1, <3>2
    <2> QED  BY <1>0, <1>2, <2>1, <2>2 DEF Posati, Tabella
  <1> QED  BY <1>1, <1>2

\* A descriptor that a poller asleep looks at is not written by others.
LEMMA GuardatiPasso ==
    ASSUME Inv3, Sensati, NEW p \in Fili, Effetto(p), Regole(p), Scrive(p)
    PROVE  Guardati'
  <1>0. Soli /\ NonUsati /\ Posati /\ Guardati /\ TypeOK /\ Forma
    BY DEF Inv3, Tavole, Inv2, Inv1
  <1> SUFFICES ASSUME NEW q \in Fili, th'[q].st = "dorme", th'[q].op = "poll", ~th'[q].nb,
                      NEW n \in DOMAIN th'[q].voci
               PROVE  \/ fdt'[Programma[q]][n].tipo = "R" /\ AttendeL(q, fdt[Programma[q]][n].h)'
                      \/ fdt'[Programma[q]][n].tipo = "W" /\ AttendeS(q, fdt[Programma[q]][n].h)'
    BY DEF Guardati, Tabella
  <1>1. CASE q = p
    BY <1>1 DEF Regole
  <1>2. CASE q # p
    <2>1. th'[q] = th[q]
      BY <1>2 DEF Effetto, AltriPari
    <2>2. PICK d : d = Tabella(q)[n]
      OBVIOUS
    <2>3. \/ d.tipo = "R" /\ AttendeL(q, d.h)
          \/ d.tipo = "W" /\ AttendeS(q, d.h)
      BY <1>0, <2>1, <2>2 DEF Guardati
    <2>4. n \in Numeri /\ Usa(q, n)
      BY <1>0, <2>1 DEF Forma, FormaDi, Usa
    <2>5. d.h \in Tubi
      BY <1>0, <2>2, <2>3, <2>4, DescrittoreTipo
    <2>6. fdt'[Programma[q]][n] = d
      <3>1. CASE UNCHANGED fdt
        BY <2>2, <3>1 DEF Tabella
      <3>2. CASE ~UNCHANGED fdt
        <4>1. PICK m \in Numeri, x \in Descrittori :
                /\ fdt' = [fdt EXCEPT ![Programma[p]][m] = x]
                /\ \/ Tabella(p)[m].tipo = "no"
                   \/ th[p].st = "chiude" /\ m = th[p].fd
                   \/ /\ th[p].st = "pipe w" /\ m = th[p].fd
                      /\ \A z \in att[th[p].h]["L"] \cap Fili : th'[z].st # "dorme"
          BY <3>2 DEF Scrive
        <4>2. ~(Programma[q] = Programma[p] /\ m = n)
          <5> SUFFICES ASSUME Programma[q] = Programma[p], m = n PROVE FALSE
            OBVIOUS
          <5>1. Tabella(p)[m] = d
            BY <2>2 DEF Tabella
          <5>2. CASE Tabella(p)[m].tipo = "no"
            BY <2>3, <5>1, <5>2
          <5>3. CASE th[p].st = "chiude" /\ m = th[p].fd
            BY <1>0, <1>2, <2>4, <5>3 DEF NonUsati
          <5>4. CASE /\ th[p].st = "pipe w" /\ m = th[p].fd
                     /\ \A z \in att[th[p].h]["L"] \cap Fili : th'[z].st # "dorme"
            <6>1. d = [tipo |-> "R", h |-> th[p].h]
              BY <1>0, <5>1, <5>4 DEF Posati
            <6>2. q \in att[th[p].h]["L"]
              BY <2>3, <6>1 DEF AttendeL
            <6> QED  BY <5>4, <6>2
          <5> QED  BY <4>1, <5>2, <5>3, <5>4
        <4>3. Programma[q] \in Programmi
          BY DEF Programmi
        <4>4. fdt'[Programma[q]][n] = fdt[Programma[q]][n]
          BY <1>0, <2>4, <4>1, <4>2, <4>3, TabellaScritta
        <4> QED  BY <2>2, <4>4 DEF Tabella
      <3> QED  BY <3>1, <3>2
    <2>7. /\ AttendeL(q, d.h) => Vuoto(pipe'[d.h]) /\ q \in att'[d.h]["L"]
          /\ AttendeS(q, d.h) => Pieno(pipe'[d.h]) /\ q \in att'[d.h]["S"]
      BY <1>2, <2>5 DEF Effetto, Salvi
    <2> QED  BY <2>3, <2>6, <2>7 DEF AttendeL, AttendeS
  <1> QED  BY <1>1, <1>2

\* sys_fork among the pollers: the table that is written belongs to threads that
\* were not there.
LEMMA ForkInv3 ==
    ASSUME Tavole, NEW p \in Fili, NEW g \in Programmi, Fork(p, g)
    PROVE  Tavole' /\ (Guardati => Guardati')
  <1>0. Inv2 /\ Soli /\ NonUsati /\ Posati /\ TypeOK /\ Forma
    BY DEF Tavole, Inv2, Inv1
  <1>1. /\ Inv2' /\ Salvi(p) /\ g # Programma[p]
        /\ \A q \in Fili : Programma[q] = g => th[q].st = "non nato"
        /\ fdt' = [fdt EXCEPT ![g] = Tabella(p)]
        /\ \A q \in Fili : \/ th'[q] = th[q] /\ Programma[q] # g /\ q # p
                           \/ /\ th'[q].st \in {"fuori", "esce"} /\ th'[q].op = "no"
                              /\ th'[q].reso = Zitto
    BY <1>0, ForkEffetto
  <1>2. \A q \in Fili : Programma[q] # g => fdt'[Programma[q]] = fdt[Programma[q]]
    BY <1>0, <1>1 DEF TypeOK, Programmi
  <1>3. Soli'
    <2>1. \A q \in Fili : th'[q].st \in Cambia => th[q].st \in Cambia
      BY <1>1 DEF Cambia
    <2> QED  BY <1>0, <2>1 DEF Soli
  <1>4. NonUsati'
    <2> SUFFICES ASSUME NEW x \in Fili, NEW y \in Fili, th'[y].st = "chiude", x # y,
                        Programma[x] = Programma[y], Usa(x, th[y].fd)'
                 PROVE  FALSE
      BY DEF NonUsati
    <2>1. th'[y] = th[y] /\ th'[x] = th[x]
      BY <1>1 DEF Usa
    <2> QED  BY <1>0, <2>1 DEF NonUsati, Usa
  <1>5. Posati'
    <2> SUFFICES ASSUME NEW q \in Fili, th'[q].st \in {"dup", "pipe w"}
                 PROVE  /\ th'[q].st = "dup" => fdt'[Programma[q]][th'[q].n].tipo = "no"
                        /\ th'[q].st = "pipe w" =>
                             fdt'[Programma[q]][th'[q].fd] = [tipo |-> "R", h |-> th'[q].h]
      BY DEF Posati, Tabella
    <2>1. th'[q] = th[q] /\ Programma[q] # g
      BY <1>1
    <2> QED  BY <1>0, <1>2, <2>1 DEF Posati, Tabella
  <1>6. Guardati => Guardati'
    <2> SUFFICES ASSUME Guardati, NEW q \in Fili, th'[q].st = "dorme", th'[q].op = "poll", ~th'[q].nb,
                        NEW n \in DOMAIN th'[q].voci
                 PROVE  \/ fdt'[Programma[q]][n].tipo = "R" /\ AttendeL(q, fdt[Programma[q]][n].h)'
                        \/ fdt'[Programma[q]][n].tipo = "W" /\ AttendeS(q, fdt[Programma[q]][n].h)'
      BY DEF Guardati, Tabella
    <2>1. th'[q] = th[q] /\ Programma[q] # g /\ q # p
      BY <1>1
    <2>2. PICK d : d = Tabella(q)[n] /\ d = fdt'[Programma[q]][n]
      BY <1>2, <2>1 DEF Tabella
    <2>3. \/ d.tipo = "R" /\ AttendeL(q, d.h)
          \/ d.tipo = "W" /\ AttendeS(q, d.h)
      BY <1>0, <2>1, <2>2 DEF Guardati
    <2>4. n \in Numeri
      BY <1>0, <2>1 DEF Forma, FormaDi
    <2>5. d.h \in Tubi
      BY <1>0, <2>2, <2>3, <2>4, DescrittoreTipo
    <2> QED  BY <1>1, <2>1, <2>2, <2>3, <2>5 DEF AttendeL, AttendeS, Salvi
  <1> QED  BY <1>1, <1>3, <1>4, <1>5, <1>6 DEF Tavole

\* proc_exit among the pollers: the table belongs to threads that are dead.
LEMMA EsceInv3 ==
    ASSUME Tavole, NEW p \in Fili, Esce(p)
    PROVE  Tavole' /\ (Guardati => Guardati')
  <1>0. Inv2 /\ Soli /\ NonUsati /\ Posati /\ TypeOK /\ Forma
    BY DEF Tavole, Inv2, Inv1
  <1>1. /\ Inv2' /\ Salvi(p) /\ Programma[p] \in Programmi
        /\ fdt' = [fdt EXCEPT ![Programma[p]] = [n \in Numeri |-> Libero]]
        /\ \A q \in Fili : Programma[q] = Programma[p] => th'[q].st = "morto" /\ th'[q].op = "no"
        /\ \A q \in Fili : Programma[q] # Programma[p] =>
             /\ th'[q].op = th[q].op /\ th'[q].h = th[q].h /\ th'[q].fd = th[q].fd
             /\ th'[q].n = th[q].n /\ th'[q].nb = th[q].nb /\ th'[q].voci = th[q].voci
             /\ th'[q].st = th[q].st \/ (th[q].st = "dorme" /\ th'[q].st = "desto")
             /\ th'[q].st = "dorme" => th'[q] = th[q]
    BY <1>0, EsceEffetto
  <1>2. \A q \in Fili : Programma[q] # Programma[p] => fdt'[Programma[q]] = fdt[Programma[q]]
    BY <1>0, <1>1 DEF TypeOK, Programmi
  <1>3. Soli'
    <2>1. \A q \in Fili : th'[q].st \in Cambia => th[q].st \in Cambia
      BY <1>1 DEF Cambia
    <2> QED  BY <1>0, <2>1 DEF Soli
  <1>4. NonUsati'
    <2> SUFFICES ASSUME NEW x \in Fili, NEW y \in Fili, th'[y].st = "chiude", x # y,
                        Programma[x] = Programma[y], Usa(x, th[y].fd)'
                 PROVE  FALSE
      BY DEF NonUsati
    <2>1. Programma[y] # Programma[p] /\ th[y].st = "chiude" /\ th[y].fd = th'[y].fd
      BY <1>1
    <2>2. Usa(x, th[y].fd)
      BY <1>1, <2>1 DEF Usa
    <2> QED  BY <1>0, <2>1, <2>2 DEF NonUsati
  <1>5. Posati'
    <2> SUFFICES ASSUME NEW q \in Fili, th'[q].st \in {"dup", "pipe w"}
                 PROVE  /\ th'[q].st = "dup" => fdt'[Programma[q]][th'[q].n].tipo = "no"
                        /\ th'[q].st = "pipe w" =>
                             fdt'[Programma[q]][th'[q].fd] = [tipo |-> "R", h |-> th'[q].h]
      BY DEF Posati, Tabella
    <2>1. /\ Programma[q] # Programma[p] /\ th[q].st = th'[q].st /\ th'[q].n = th[q].n
          /\ th'[q].fd = th[q].fd /\ th'[q].h = th[q].h
      BY <1>1
    <2> QED  BY <1>0, <1>2, <2>1 DEF Posati, Tabella
  <1>6. Guardati => Guardati'
    <2> SUFFICES ASSUME Guardati, NEW q \in Fili, th'[q].st = "dorme", th'[q].op = "poll", ~th'[q].nb,
                        NEW n \in DOMAIN th'[q].voci
                 PROVE  \/ fdt'[Programma[q]][n].tipo = "R" /\ AttendeL(q, fdt[Programma[q]][n].h)'
                        \/ fdt'[Programma[q]][n].tipo = "W" /\ AttendeS(q, fdt[Programma[q]][n].h)'
      BY DEF Guardati, Tabella
    <2>1. th'[q] = th[q] /\ Programma[q] # Programma[p] /\ q # p
      BY <1>1
    <2>2. PICK d : d = Tabella(q)[n] /\ d = fdt'[Programma[q]][n]
      BY <1>2, <2>1 DEF Tabella
    <2>3. \/ d.tipo = "R" /\ AttendeL(q, d.h)
          \/ d.tipo = "W" /\ AttendeS(q, d.h)
      BY <1>0, <2>1, <2>2 DEF Guardati
    <2>4. n \in Numeri
      BY <1>0, <2>1 DEF Forma, FormaDi
    <2>5. d.h \in Tubi
      BY <1>0, <2>2, <2>3, <2>4, DescrittoreTipo
    <2> QED  BY <1>1, <2>1, <2>2, <2>3, <2>5 DEF AttendeL, AttendeS, Salvi
  <1> QED  BY <1>1, <1>3, <1>4, <1>5, <1>6 DEF Tavole

\* A step that follows the rules keeps what is known of the tables.
LEMMA TavoleEffetto ==
    ASSUME "gara" \notin Eventi, Tavole, NEW p \in Fili, Effetto(p), Regole(p), Scrive(p)
    PROVE  Tavole'
  <1>1. Inv2'
    BY EffettoInv2 DEF Tavole
  <1>2. Soli' /\ NonUsati' /\ Posati'
    BY SoliPasso, NonUsatiPasso, PosatiPasso
  <1> QED  BY <1>1, <1>2 DEF Tavole

\* A step is one that follows the rules, a fork or an exit.
LEMMA QualePasso ==
    ASSUME Tavole, Next
    PROVE  \/ \E p \in Fili : Effetto(p) /\ Regole(p) /\ Scrive(p)
           \/ \E p \in Fili, g \in Programmi : Fork(p, g)
           \/ \E p \in Fili : Esce(p)
  <1>1. PICK p \in Fili : Passo(p) \/ Chiamata(p) \/ Battito(p) \/ proc_interrompi(p)
    BY DEF Next
  <1>2. CASE Chiamata(p) /\ ~Esce(p) /\ ~\E g \in Programmi : Fork(p, g)
    BY <1>2, ChiamataRegole DEF Tavole
  <1>3. CASE Passo(p) \/ Battito(p) \/ proc_interrompi(p)
    BY <1>3, PassoRegole DEF Tavole
  <1> QED  BY <1>1, <1>2, <1>3

\* Every step keeps it,
LEMMA TavolePasso ==
    ASSUME "gara" \notin Eventi
    PROVE  Tavole /\ [Next]_vars => Tavole'
  <1> SUFFICES ASSUME Tavole, [Next]_vars PROVE Tavole'
    OBVIOUS
  <1>1. CASE Next
    BY <1>1, QualePasso, TavoleEffetto, ForkInv3, EsceInv3
  <1>2. CASE UNCHANGED vars
    <2>0. th' = th /\ fdt' = fdt /\ pipe' = pipe /\ att' = att
      BY <1>2 DEF vars
    <2>1. Inv2'
      BY <1>2, Inv2Passo DEF Tavole
    <2>2. Soli'
      BY <2>0 DEF Tavole, Soli
    <2>3. NonUsati'
      BY <2>0 DEF Tavole, NonUsati, Usa
    <2>4. Posati'
      BY <2>0 DEF Tavole, Posati, Tabella
    <2> QED  BY <2>1, <2>2, <2>3, <2>4 DEF Tavole
  <1> QED  BY <1>1, <1>2

\* and what is known of the pollers.
LEMMA Inv3Passo ==
    ASSUME "gara" \notin Eventi
    PROVE  Inv3 /\ Sensati /\ [Next]_vars => Inv3'
  <1> SUFFICES ASSUME Inv3, Sensati, [Next]_vars PROVE Inv3'
    OBVIOUS
  <1>1. Tavole'
    BY TavolePasso DEF Inv3
  <1>2. CASE Next
    BY <1>1, <1>2, QualePasso, GuardatiPasso, ForkInv3, EsceInv3 DEF Inv3
  <1>3. CASE UNCHANGED vars
    <2>0. th' = th /\ fdt' = fdt /\ pipe' = pipe /\ att' = att
      BY <1>3 DEF vars
    <2>1. Guardati'
      BY <2>0 DEF Inv3, Guardati, Tabella, AttendeL, AttendeS
    <2> QED  BY <1>1, <2>1 DEF Inv3
  <1> QED  BY <1>2, <1>3

\* What the invariant says of the threads asleep.
LEMMA Inv3Basta == Inv3 => NessunoDormeInvano
  <1> SUFFICES ASSUME Inv3, NEW p \in Fili, th[p].st = "dorme"
               PROVE  LET d == pipe[th[p].h] IN
                      CASE th[p].op = "R" -> /\ d.usata => d.quanti = 0 /\ d.scrittori > 0
                                             /\ p \in att[th[p].h]["L"]
                        [] th[p].op = "W" -> /\ d.usata => d.quanti = Dim /\ d.lettori > 0
                                             /\ p \in att[th[p].h]["S"]
                        [] OTHER -> th[p].nb \/ ~Pronta(p)
    BY DEF NessunoDormeInvano
  <1>0. TypeOK /\ Forma /\ LettoScritto /\ Guardati
    BY DEF Inv3, Tavole, Inv2, Inv1
  <1>1. CASE th[p].op = "R"
    BY <1>0, <1>1 DEF LettoScritto, AttendeL, Vuoto
  <1>2. CASE th[p].op = "W"
    BY <1>0, <1>2 DEF LettoScritto, AttendeS, Pieno
  <1>3. CASE th[p].op = "poll" /\ ~th[p].nb
    <2>1. ASSUME NEW n \in DOMAIN th[p].voci PROVE ~poll_guarda(p, n)
      <3>1. n \in Numeri
        BY <1>0, <1>3 DEF Forma, FormaDi
      <3>2. PICK d : d = Tabella(p)[n]
        OBVIOUS
      <3>3. \/ d.tipo = "R" /\ AttendeL(p, d.h)
            \/ d.tipo = "W" /\ AttendeS(p, d.h)
        BY <1>0, <1>3, <3>2 DEF Guardati
      <3>4. d.h \in Tubi
        BY <1>0, <3>1, <3>2, <3>3, DescrittoreTipo
      <3>5. pipe[d.h] \in Anelli
        BY <1>0, <3>4 DEF TypeOK
      <3>6. Dim \in Nat
        BY MisureTubi
      <3>7. CASE d.tipo = "R"
        <4>1. Vuoto(pipe[d.h])
          BY <3>3, <3>7 DEF AttendeL
        <4> QED  BY <3>2, <3>7, <4>1 DEF poll_guarda, Vuoto
      <3>8. CASE d.tipo = "W"
        <4>1. Pieno(pipe[d.h])
          BY <3>3, <3>8 DEF AttendeS
        <4> QED  BY <3>2, <3>6, <3>8, <4>1 DEF poll_guarda, Pieno
      <3> QED  BY <3>3, <3>7, <3>8
    <2> QED  BY <1>3, <2>1 DEF Pronta
  <1>4. th[p].op \in {"R", "W", "poll"}
    BY <1>0 DEF Forma, FormaDi
  <1>5. CASE th[p].op = "poll" /\ th[p].nb
    BY <1>5
  <1> QED  BY <1>1, <1>2, <1>3, <1>4, <1>5

\* The whole invariant holds at the start,
LEMMA Inv3Init == Init => Inv3
  <1> SUFFICES ASSUME Init PROVE Inv3
    OBVIOUS
  <1>1. ASSUME NEW p \in Fili PROVE th[p].st \in {"fuori", "non nato"}
    <2>1. th[p] = IF Programma[p] = Primo THEN Fuori(Zitto) ELSE [Fuori(Zitto) EXCEPT !.st = "non nato"]
      BY DEF Init
    <2>2. Fuori(Zitto).st = "fuori" /\ [Fuori(Zitto) EXCEPT !.st = "non nato"].st = "non nato"
      BY DEF Fuori
    <2> QED  BY <2>1, <2>2
  <1>2. Soli /\ NonUsati /\ Posati /\ Guardati
    BY <1>1 DEF Soli, NonUsati, Posati, Guardati, Cambia
  <1> QED  BY <1>2, Inv2Init DEF Inv3, Tavole

\* Nobody sleeps in vain on a pipe, pollers included: where the threads of one
\* program do not race for a descriptor ("gara") and a poll that names an end of
\* a pipe asks for what that end can give.  sys_poll needs both: poll_registra
\* puts a poller only in the lists of the events it asked for, though
\* poll_guarda reports to everybody that the other side is gone.
THEOREM NessunoDorme ==
    ASSUME "gara" \notin Eventi
    PROVE  Spec /\ []Sensati => []NessunoDormeInvano
  <1>1. Inv3 /\ Sensati /\ [Next]_vars => Inv3'
    BY Inv3Passo
  <1> QED  BY <1>1, Inv3Init, Inv3Basta, PTL DEF Spec

\* The same without the hypothesis on the polls, where every entry asks for both
\* the events.
THEOREM NessunoDormeTutto ==
    ASSUME "gara" \notin Eventi, \A v \in Desideri : v = {"IN", "OUT"}
    PROVE  Spec => []NessunoDormeInvano
  <1>1. Inv2 => Sensati
    BY DEF Inv2, Inv1, Forma, FormaDi, Sensati, Chiesto
  <1> QED  BY <1>1, Inv2Init, Inv2Passo, NessunoDorme, PTL DEF Spec

-----------------------------------------------------------------------------
(* The ring as a queue.                                                    *)

\* The n bytes of ring b that begin at t.
Coda(b, t, n) == [i \in 1 .. n |-> b[(t + i - 1) % Dim]]

Contenuti == [0 .. Dim - 1 -> Byte]

\* The modulus of the ring, for what is at most one turn too far.
LEMMA GiroAnello ==
    ASSUME NEW n \in Nat, n < Dim + Dim
    PROVE  n % Dim = (IF n < Dim THEN n ELSE n - Dim)
  <1>1. Dim \in Nat \ {0}
    BY MisureTubi
  <1>2. CASE n < Dim
    BY <1>1, <1>2
  <1>3. CASE ~(n < Dim)
    <2>1. PICK k \in Nat : k = n - Dim
      BY <1>1, <1>3
    <2>2. k % Dim = k
      BY <1>1, <2>1
    <2>3. (k + Dim) % Dim = k
      BY <1>1, <2>1, <2>2
    <2> QED  BY <1>1, <1>3, <2>1, <2>3
  <1> QED  BY <1>2, <1>3

\* Two places of the ring less than one turn apart are two places.
LEMMA PostiDiversi ==
    ASSUME NEW a \in Nat, NEW b \in Nat, a < Dim + Dim, b < a + Dim, a < b + Dim, b < Dim + Dim,
           a % Dim = b % Dim
    PROVE  a = b
  <1>1. /\ a % Dim = IF a < Dim THEN a ELSE a - Dim
        /\ b % Dim = IF b < Dim THEN b ELSE b - Dim
    BY GiroAnello
  <1> QED  BY <1>1, MisureTubi

\* The bytes are a sequence.
LEMMA CodaSeq ==
    ASSUME NEW b \in Contenuti, NEW t \in Nat, NEW n \in Nat
    PROVE  /\ Coda(b, t, n) \in Seq(Byte) /\ Len(Coda(b, t, n)) = n
           /\ \A i \in 1 .. n : Coda(b, t, n)[i] = b[(t + i - 1) % Dim]
  <1>2. \A i \in 1 .. n : (t + i - 1) % Dim \in 0 .. Dim - 1
    BY MisureTubi
  <1>3. \A i \in 1 .. n : b[(t + i - 1) % Dim] \in Byte
    BY <1>2 DEF Contenuti
  <1>4. Coda(b, t, n) \in [1 .. n -> Byte]
    BY <1>3 DEF Coda
  <1>5. Coda(b, t, n) \in Seq(Byte) /\ Len(Coda(b, t, n)) = n
    BY <1>4
  <1>6. \A i \in 1 .. n : Coda(b, t, n)[i] = b[(t + i - 1) % Dim]
    BY DEF Coda
  <1> QED  BY <1>5, <1>6

\* An empty ring.
LEMMA CodaVuota ==
    ASSUME NEW b, NEW t
    PROVE  Coda(b, t, 0) = <<>>
  BY DEF Coda

\* Two sequences as long, and equal place by place.
LEMMA SeqUguali ==
    ASSUME NEW s \in Seq(Byte), NEW t \in Seq(Byte), Len(s) = Len(t),
           \A i \in 1 .. Len(s) : s[i] = t[i]
    PROVE  s = t
  OBVIOUS

\* What pipe_leggi takes out is the beginning of the queue,
LEMMA CodaPresa ==
    ASSUME NEW b \in Contenuti, NEW t \in Nat, NEW n \in Nat, NEW k \in 0 .. n
    PROVE  Coda(b, t, k) = SubSeq(Coda(b, t, n), 1, k)
  <1>1. /\ Coda(b, t, n) \in Seq(Byte) /\ Len(Coda(b, t, n)) = n
        /\ \A i \in 1 .. n : Coda(b, t, n)[i] = b[(t + i - 1) % Dim]
    BY CodaSeq
  <1>2. /\ Coda(b, t, k) \in Seq(Byte) /\ Len(Coda(b, t, k)) = k
        /\ \A i \in 1 .. k : Coda(b, t, k)[i] = b[(t + i - 1) % Dim]
    BY CodaSeq
  <1>3. PICK s : s = SubSeq(Coda(b, t, n), 1, k)
    OBVIOUS
  <1>4. /\ s \in Seq(Byte) /\ Len(s) = k
        /\ \A i \in 1 .. k : s[i] = Coda(b, t, n)[i]
    BY <1>1, <1>3
  <1>5. \A i \in 1 .. k : Coda(b, t, k)[i] = s[i]
    BY <1>1, <1>2, <1>4
  <1> QED  BY <1>2, <1>3, <1>4, <1>5, SeqUguali

\* and what it leaves is the rest of it, though the places taken are cleared.
LEMMA CodaResta ==
    ASSUME NEW b \in Contenuti, NEW t \in 0 .. Dim - 1, NEW n \in 0 .. Dim, NEW k \in 0 .. n,
           NEW c \in Contenuti,
           \A i \in 0 .. Dim - 1 : (~\E j \in 1 .. k : i = (t + j - 1) % Dim) => c[i] = b[i]
    PROVE  Coda(c, (t + k) % Dim, n - k) = SubSeq(Coda(b, t, n), k + 1, n)
  <1>0. Dim \in Nat \ {0} /\ n \in Nat /\ k \in Nat /\ n - k \in Nat /\ t \in Nat
    BY MisureTubi
  <1>1. PICK u \in 0 .. Dim - 1 : u = (t + k) % Dim
    BY <1>0
  <1>2. /\ Coda(b, t, n) \in Seq(Byte) /\ Len(Coda(b, t, n)) = n
        /\ \A i \in 1 .. n : Coda(b, t, n)[i] = b[(t + i - 1) % Dim]
    BY <1>0, CodaSeq
  <1>3. /\ Coda(c, u, n - k) \in Seq(Byte) /\ Len(Coda(c, u, n - k)) = n - k
        /\ \A i \in 1 .. n - k : Coda(c, u, n - k)[i] = c[(u + i - 1) % Dim]
    <2>1. u \in Nat
      BY <1>0
    <2> QED  BY <1>0, <2>1, CodaSeq, Zenon
  <1>4. PICK s : s = SubSeq(Coda(b, t, n), k + 1, n)
    OBVIOUS
  <1>5. /\ s \in Seq(Byte) /\ Len(s) = n - k
        /\ \A i \in 1 .. n - k : s[i] = Coda(b, t, n)[k + i]
    BY <1>0, <1>2, <1>4
  <1>6. ASSUME NEW i \in 1 .. n - k
        PROVE  Coda(c, u, n - k)[i] = s[i]
    <2>1. PICK x \in Nat, y \in Nat, z \in Nat : x = t + k /\ y = u + i - 1 /\ z = t + (k + i) - 1
      BY <1>0
    <2>2. x < Dim + Dim /\ y < Dim + Dim /\ z < Dim + Dim
      BY <1>0, <2>1
    <2>3. y % Dim = z % Dim /\ z % Dim \in 0 .. Dim - 1
      <3>1. /\ x % Dim = IF x < Dim THEN x ELSE x - Dim
            /\ y % Dim = IF y < Dim THEN y ELSE y - Dim
            /\ z % Dim = IF z < Dim THEN z ELSE z - Dim
        BY <2>2, GiroAnello
      <3>2. u = x % Dim
        BY <1>1, <2>1
      <3> QED  BY <1>0, <2>1, <2>2, <3>1, <3>2
    <2>4. ~\E j \in 1 .. k : z % Dim = (t + j - 1) % Dim
      <3> SUFFICES ASSUME NEW j \in 1 .. k, z % Dim = (t + j - 1) % Dim PROVE FALSE
        OBVIOUS
      <3>1. PICK w \in Nat : w = t + j - 1
        BY <1>0
      <3>2. w < Dim + Dim /\ z < w + Dim /\ w < z + Dim /\ w < z
        BY <1>0, <2>1, <3>1
      <3>3. z = w
        BY <2>2, <3>1, <3>2, PostiDiversi
      <3> QED  BY <3>2, <3>3
    <2>5. c[z % Dim] = b[z % Dim]
      BY <2>3, <2>4
    <2>6. Coda(c, u, n - k)[i] = c[y % Dim]
      BY <1>3, <2>1
    <2>7. s[i] = b[z % Dim]
      <3>1. k + i \in 1 .. n
        BY <1>0
      <3> QED  BY <1>2, <1>5, <2>1, <3>1
    <2> QED  BY <2>3, <2>5, <2>6, <2>7
  <1>7. Coda(c, u, n - k) = s
    BY <1>3, <1>5, <1>6, SeqUguali
  <1> QED  BY <1>1, <1>4, <1>7

\* The n bytes that begin at t in ring b, and then s, are in ring c.
Accodati(b, t, n, k, s, c) == Coda(c, t, n + k) = Coda(b, t, n) \o s

\* Ring c is b with the k bytes of s put after the n that begin at t.
Messi(b, t, n, k, s, c) ==
    \A i \in 0 .. Dim - 1 :
        c[i] = IF \E j \in 1 .. k : i = (t + n + j - 1) % Dim
               THEN s[CHOOSE j \in 1 .. k : i = (t + n + j - 1) % Dim] ELSE b[i]

\* What pipe_scrivi puts in is the end of the queue.
LEMMA CodaCresce ==
    ASSUME NEW b \in Contenuti, NEW t \in 0 .. Dim - 1, NEW n \in 0 .. Dim, NEW k \in 0 .. Dim - n,
           NEW s \in Seq(Byte), Len(s) = k, NEW c \in Contenuti,
           Messi(b, t, n, k, s, c)
    PROVE  Accodati(b, t, n, k, s, c)
  <1>0. Dim \in Nat \ {0} /\ n \in Nat /\ k \in Nat /\ n + k \in Nat /\ t \in Nat
    BY MisureTubi
  <1>1. /\ Coda(b, t, n) \in Seq(Byte) /\ Len(Coda(b, t, n)) = n
        /\ \A i \in 1 .. n : Coda(b, t, n)[i] = b[(t + i - 1) % Dim]
    <2>1. PICK m \in Nat, u \in Nat : m = n /\ u = t
      BY <1>0
    <2>2. /\ Coda(b, u, m) \in Seq(Byte) /\ Len(Coda(b, u, m)) = m
          /\ \A i \in 1 .. m : Coda(b, u, m)[i] = b[(u + i - 1) % Dim]
      BY CodaSeq, Zenon
    <2> QED  BY <2>1, <2>2
  <1>2. /\ Coda(c, t, n + k) \in Seq(Byte) /\ Len(Coda(c, t, n + k)) = n + k
        /\ \A i \in 1 .. n + k : Coda(c, t, n + k)[i] = c[(t + i - 1) % Dim]
    BY <1>0, CodaSeq, Zenon
  <1>3. PICK u : u = Coda(b, t, n) \o s
    OBVIOUS
  <1>4. /\ u \in Seq(Byte) /\ Len(u) = n + k
        /\ \A i \in 1 .. n : u[i] = Coda(b, t, n)[i]
        /\ \A i \in 1 .. k : u[n + i] = s[i]
    <2>1. PICK v \in Seq(Byte) : v = Coda(b, t, n) /\ Len(v) = n /\ u = v \o s
      BY <1>1, <1>3
    <2>2. u \in Seq(Byte) /\ Len(u) = n + k
      <3>1. u \in Seq(Byte)
        BY <2>1
      <3>2. Len(u) = Len(v) + Len(s)
        BY <2>1
      <3> QED  BY <2>1, <3>1, <3>2
    <2>3. \A i \in 1 .. n : u[i] = v[i]
      BY <1>0, <2>1
    <2>4. ASSUME NEW i \in 1 .. k PROVE u[n + i] = s[i]
      <3>1. PICK x \in Nat : x = n + i
        BY <1>0
      <3>2. x \in 1 .. Len(v) + Len(s) /\ ~(x <= Len(v)) /\ x - Len(v) = i
        BY <1>0, <2>1, <3>1
      <3>3. u[x] = s[x - Len(v)]
        BY <2>1, <3>2
      <3> QED  BY <3>1, <3>2, <3>3
    <2> QED  BY <2>1, <2>2, <2>3, <2>4
  <1>5. ASSUME NEW i \in 1 .. n
        PROVE  Coda(c, t, n + k)[i] = u[i]
    <2>1. PICK x \in Nat : x = t + i - 1
      BY <1>0
    <2>2. x < Dim + Dim /\ x % Dim \in 0 .. Dim - 1
      BY <1>0, <2>1
    <2>3. ~\E j \in 1 .. k : x % Dim = (t + n + j - 1) % Dim
      <3> SUFFICES ASSUME NEW j \in 1 .. k, x % Dim = (t + n + j - 1) % Dim PROVE FALSE
        OBVIOUS
      <3>1. PICK w \in Nat : w = t + n + j - 1
        BY <1>0
      <3>2. w < Dim + Dim /\ x < w + Dim /\ w < x + Dim /\ x < w
        BY <1>0, <2>1, <3>1
      <3>3. x = w
        BY <2>2, <3>1, <3>2, PostiDiversi
      <3> QED  BY <3>2, <3>3
    <2>4. c[x % Dim] = b[x % Dim]
      BY <2>2, <2>3 DEF Messi
    <2>5. i \in 1 .. n + k
      BY <1>0
    <2> QED  BY <1>1, <1>2, <1>4, <2>1, <2>4, <2>5
  <1>6. ASSUME NEW i \in 1 .. k
        PROVE  Coda(c, t, n + k)[n + i] = u[n + i]
    <2>1. PICK x \in Nat : x = t + n + i - 1
      BY <1>0
    <2>2. x < Dim + Dim /\ x % Dim \in 0 .. Dim - 1
      BY <1>0, <2>1
    <2>3. \A j \in 1 .. k : x % Dim = (t + n + j - 1) % Dim => j = i
      <3> SUFFICES ASSUME NEW j \in 1 .. k, x % Dim = (t + n + j - 1) % Dim PROVE j = i
        OBVIOUS
      <3>1. PICK w \in Nat : w = t + n + j - 1
        BY <1>0
      <3>2. w < Dim + Dim /\ x < w + Dim /\ w < x + Dim
        BY <1>0, <2>1, <3>1
      <3>3. x = w
        BY <2>2, <3>1, <3>2, PostiDiversi
      <3> QED  BY <1>0, <2>1, <3>1, <3>3
    <2>4. \E j \in 1 .. k : x % Dim = (t + n + j - 1) % Dim
      BY <2>1
    <2>5. (CHOOSE j \in 1 .. k : x % Dim = (t + n + j - 1) % Dim) = i
      BY <2>3, <2>4
    <2>6. c[x % Dim] = s[i]
      BY <2>2, <2>4, <2>5 DEF Messi
    <2>7. n + i \in 1 .. n + k /\ t + (n + i) - 1 = x
      BY <1>0, <2>1
    <2> QED  BY <1>2, <1>4, <2>6, <2>7
  <1>7. ASSUME NEW i \in 1 .. n + k
        PROVE  Coda(c, t, n + k)[i] = u[i]
    <2>1. CASE i \in 1 .. n
      BY <1>5, <2>1
    <2>2. CASE i \notin 1 .. n
      <3>1. PICK j \in 1 .. k : i = n + j
        <4>1. i - n \in 1 .. k /\ i = n + (i - n)
          BY <1>0, <2>2
        <4> QED  BY <4>1
      <3> QED  BY <1>6, <3>1
    <2> QED  BY <2>1, <2>2
  <1> QED  BY <1>2, <1>3, <1>4, <1>7, SeqUguali DEF Accodati

-----------------------------------------------------------------------------
(* The ends of a pipe, one by one.                                         *)

Uno(b) == IF b THEN 1 ELSE 0

\* Descriptor n of program g is an end of pipe h, and nobody is closing it.
Vivo(g, n, h, tipo) ==
    /\ fdt[g][n] = [tipo |-> tipo, h |-> h]
    /\ \A p \in Fili : th[p].st = "chiude" /\ Programma[p] = g => th[p].fd # n

\* A thread like r has counted an end of pipe h that is not in a table yet.
Tiene(r, h, tipo) ==
    /\ r.h = h
    /\ \/ r.st = "dup" /\ r.op = tipo
       \/ r.st = "pipe r"
       \/ r.st = "pipe w" /\ tipo = "W"

Vivi(h, tipo) == {d \in Programmi \X Numeri : Vivo(d[1], d[2], h, tipo)}
Presi(h, tipo) == {p \in Fili : Tiene(th[p], h, tipo)}
Capi(h, tipo) == Cardinality(Vivi(h, tipo)) + Cardinality(Presi(h, tipo))

\* A dup and a close under way hold the descriptor they began with.
Tenuti ==
    \A p \in Fili : th[p].st \in {"dup", "chiude"} =>
        Tabella(p)[th[p].fd] = [tipo |-> th[p].op, h |-> th[p].h]

\* There are finitely many programs, and the ends can be counted.
LEMMA Finiti ==
    ASSUME NEW h, NEW tipo
    PROVE  /\ IsFiniteSet(Programmi \X Numeri) /\ IsFiniteSet(Fili)
           /\ IsFiniteSet(Vivi(h, tipo)) /\ Cardinality(Vivi(h, tipo)) \in Nat
           /\ IsFiniteSet(Presi(h, tipo)) /\ Cardinality(Presi(h, tipo)) \in Nat
           /\ Capi(h, tipo) \in Nat
  <1>1. IsFiniteSet(Fili) /\ IsFiniteSet(Numeri)
    BY MisureTubi
  <1>2. IsFiniteSet(Programmi)
    <2>1. PICK f : f = [p \in Fili |-> Programma[p]]
      OBVIOUS
    <2>2. f \in Surjection(Fili, Programmi)
      BY <2>1 DEF Surjection, Programmi
    <2> QED  BY <1>1, <2>2, FS_Surjection
  <1>3. IsFiniteSet(Programmi \X Numeri)
    BY <1>1, <1>2, FS_Product
  <1>4. Vivi(h, tipo) \in SUBSET (Programmi \X Numeri) /\ Presi(h, tipo) \in SUBSET Fili
    BY DEF Vivi, Presi
  <1>5. /\ IsFiniteSet(Vivi(h, tipo)) /\ Cardinality(Vivi(h, tipo)) \in Nat
        /\ IsFiniteSet(Presi(h, tipo)) /\ Cardinality(Presi(h, tipo)) \in Nat
    BY <1>1, <1>3, <1>4, FS_Subset, FS_CardinalityType
  <1>6. Capi(h, tipo) \in Nat
    BY <1>5 DEF Capi
  <1> QED  BY <1>1, <1>3, <1>5, <1>6

\* Two finite sets that differ in one element at most.
LEMMA ContaUno ==
    ASSUME NEW S, NEW T, NEW a, IsFiniteSet(S), IsFiniteSet(T),
           \A x : x # a => (x \in S <=> x \in T)
    PROVE  /\ Cardinality(S) \in Nat /\ Cardinality(T) \in Nat
           /\ Cardinality(T) = Cardinality(S) + Uno(a \in T) - Uno(a \in S)
  <1>1. S \ {a} = T \ {a}
    OBVIOUS
  <1>2. Cardinality(S) \in Nat /\ Cardinality(T) \in Nat
    BY FS_CardinalityType
  <1>3. Cardinality(S \ {a}) = IF a \in S THEN Cardinality(S) - 1 ELSE Cardinality(S)
    BY FS_RemoveElement
  <1>4. Cardinality(T \ {a}) = IF a \in T THEN Cardinality(T) - 1 ELSE Cardinality(T)
    BY FS_RemoveElement
  <1> QED  BY <1>1, <1>2, <1>3, <1>4 DEF Uno

\* As many pairs with g as there are numbers.
LEMMA ContaCoppie ==
    ASSUME NEW g, NEW Q, IsFiniteSet(Q)
    PROVE  /\ IsFiniteSet({<<g, n>> : n \in Q})
           /\ Cardinality({<<g, n>> : n \in Q}) = Cardinality(Q)
  <1>1. PICK T : T = {<<g, n>> : n \in Q}
    OBVIOUS
  <1>2. PICK f : f = [n \in Q |-> <<g, n>>]
    OBVIOUS
  <1>3. f \in [Q -> T] /\ (\A x \in T : \E n \in Q : f[n] = x) /\ (\A m, n \in Q : f[m] = f[n] => m = n)
    BY <1>1, <1>2
  <1>4. f \in Surjection(Q, T) /\ f \in Injection(Q, T)
    BY <1>3 DEF Surjection, Injection, IsInjective
  <1>5. IsFiniteSet(T) /\ Cardinality(T) = Cardinality(Q)
    BY <1>4, FS_Surjection
  <1> QED  BY <1>1, <1>5

\* The thread that moves may take or give up one end that is in no table,
LEMMA PresiConto ==
    ASSUME NEW p \in Fili, AltriPari(p), NEW h, NEW tipo
    PROVE  Cardinality(Presi(h, tipo))' = Cardinality(Presi(h, tipo))
             + Uno(Tiene(th'[p], h, tipo)) - Uno(Tiene(th[p], h, tipo))
  <1>1. PICK S : S = Presi(h, tipo)
    OBVIOUS
  <1>2. PICK T : T = Presi(h, tipo)'
    OBVIOUS
  <1>3. IsFiniteSet(S)
    BY <1>1, Finiti
  <1>4. IsFiniteSet(T)
    <2>1. IsFiniteSet(Fili) /\ T \in SUBSET Fili
      BY <1>2, Finiti DEF Presi
    <2> QED  BY <2>1, FS_Subset
  <1>5. \A q : q # p => (q \in S <=> q \in T)
    <2> SUFFICES ASSUME NEW q \in Fili, q # p
                 PROVE  Tiene(th[q], h, tipo) <=> Tiene(th'[q], h, tipo)
      BY <1>1, <1>2 DEF Presi
    <2>1. /\ th'[q].op = th[q].op /\ th'[q].h = th[q].h
          /\ th'[q].st = th[q].st \/ (th[q].st = "dorme" /\ th'[q].st = "desto")
      BY DEF AltriPari
    <2> QED  BY <2>1 DEF Tiene
  <1>6. Cardinality(T) = Cardinality(S) + Uno(p \in T) - Uno(p \in S)
    BY <1>3, <1>4, <1>5, ContaUno
  <1>7. (p \in S <=> Tiene(th[p], h, tipo)) /\ (p \in T <=> Tiene(th'[p], h, tipo))
    BY <1>1, <1>2 DEF Presi
  <1>8. Uno(p \in T) = Uno(Tiene(th'[p], h, tipo)) /\ Uno(p \in S) = Uno(Tiene(th[p], h, tipo))
    BY <1>7 DEF Uno
  <1> QED  BY <1>1, <1>2, <1>6, <1>8

\* and one that is.
LEMMA ViviConto ==
    ASSUME NEW g \in Programmi, NEW n \in Numeri, NEW h, NEW tipo,
           \A k \in Programmi, m \in Numeri : k # g \/ m # n =>
               (Vivo(k, m, h, tipo)' <=> Vivo(k, m, h, tipo))
    PROVE  Cardinality(Vivi(h, tipo))' = Cardinality(Vivi(h, tipo))
             + Uno(Vivo(g, n, h, tipo)') - Uno(Vivo(g, n, h, tipo))
  <1>1. PICK S : S = Vivi(h, tipo)
    OBVIOUS
  <1>2. PICK T : T = Vivi(h, tipo)'
    OBVIOUS
  <1>0. PICK a \in Programmi \X Numeri : a = <<g, n>> /\ a[1] = g /\ a[2] = n
    <2>1. <<g, n>> \in Programmi \X Numeri /\ <<g, n>>[1] = g /\ <<g, n>>[2] = n
      OBVIOUS
    <2> QED  BY <2>1, Zenon
  <1>3. IsFiniteSet(S)
    BY <1>1, Finiti
  <1>4. IsFiniteSet(T)
    <2>1. IsFiniteSet(Programmi \X Numeri) /\ T \in SUBSET (Programmi \X Numeri)
      BY <1>2, Finiti DEF Vivi
    <2> QED  BY <2>1, FS_Subset
  <1>5. \A d : d # a => (d \in S <=> d \in T)
    <2> SUFFICES ASSUME NEW d \in Programmi \X Numeri, d # a
                 PROVE  Vivo(d[1], d[2], h, tipo) <=> Vivo(d[1], d[2], h, tipo)'
      BY <1>1, <1>2 DEF Vivi
    <2>1. PICK k \in Programmi, m \in Numeri : d = <<k, m>> /\ d[1] = k /\ d[2] = m
      OBVIOUS
    <2>2. k # g \/ m # n
      BY <1>0, <2>1
    <2>3. Vivo(k, m, h, tipo)' <=> Vivo(k, m, h, tipo)
      BY <2>2
    <2> QED  BY <2>1, <2>3
  <1>6. Cardinality(T) = Cardinality(S) + Uno(a \in T) - Uno(a \in S)
    BY <1>3, <1>4, <1>5, ContaUno
  <1>7. (a \in S <=> Vivo(g, n, h, tipo)) /\ (a \in T <=> Vivo(g, n, h, tipo)')
    BY <1>0, <1>1, <1>2 DEF Vivi
  <1>8. Uno(a \in T) = Uno(Vivo(g, n, h, tipo)') /\ Uno(a \in S) = Uno(Vivo(g, n, h, tipo))
    BY <1>7 DEF Uno
  <1> QED  BY <1>1, <1>2, <1>6, <1>8

\* The ends that are really open, counted one by one.
LEMMA ApertiCapi ==
    ASSUME Soli, Tenuti, Forma, NEW h, NEW tipo
    PROVE  Aperti(h, tipo) = Capi(h, tipo)
  <1> DEFINE e == [tipo |-> tipo, h |-> h]
             F == {d \in Programmi \X Numeri : fdt[d[1]][d[2]] = e}
             C == {p \in Fili : th[p].st = "chiude" /\ th[p].h = h /\ th[p].op = tipo}
             K == {<<Programma[p], th[p].fd>> : p \in C}
  <1>1. Aperti(h, tipo) = Cardinality(F) - Cardinality(C) + Cardinality(Presi(h, tipo))
    BY DEF Aperti, Presi, Tiene
  <1>2. IsFiniteSet(F) /\ IsFiniteSet(C)
    <2>1. F \in SUBSET (Programmi \X Numeri) /\ C \in SUBSET Fili
      OBVIOUS
    <2>2. IsFiniteSet(Programmi \X Numeri) /\ IsFiniteSet(Fili)
      BY Finiti
    <2> HIDE DEF F, C
    <2> QED  BY <2>1, <2>2, FS_Subset
  <1>3. \A p, q \in C : Programma[p] = Programma[q] => p = q
    BY DEF Soli, Cambia
  <1>4. Cardinality(K) = Cardinality(C)
    <2>1. PICK f : f = [p \in C |-> <<Programma[p], th[p].fd>>]
      OBVIOUS
    <2>2. f \in [C -> K] /\ (\A x \in K : \E p \in C : f[p] = x)
      <3> HIDE DEF C
      <3> QED  BY <2>1
    <2>3. \A p, q \in C : f[p] = f[q] => p = q
      <3> HIDE DEF C
      <3> QED  BY <1>3, <2>1
    <2>4. f \in Surjection(C, K) /\ f \in Injection(C, K)
      <3> HIDE DEF C, K
      <3> QED  BY <2>2, <2>3 DEF Surjection, Injection, IsInjective
    <2> HIDE DEF C, K
    <2> QED  BY <1>2, <2>4, FS_Surjection
  <1>5. ASSUME NEW p \in C
        PROVE  Programma[p] \in Programmi /\ th[p].fd \in Numeri /\ fdt[Programma[p]][th[p].fd] = e
    BY <1>5 DEF Tenuti, Tabella, Forma, FormaDi, Programmi
  <1>6. K \subseteq F
    <2> SUFFICES ASSUME NEW p \in C PROVE <<Programma[p], th[p].fd>> \in F
      OBVIOUS
    <2>1. PICK g \in Programmi, n \in Numeri : g = Programma[p] /\ n = th[p].fd /\ fdt[g][n] = e
      BY <1>5
    <2> HIDE DEF e
    <2> QED  BY <2>1
  <1>7. ASSUME NEW d \in Programmi \X Numeri
        PROVE  d \in Vivi(h, tipo) <=> d \in F /\ d \notin K
    <2>1. PICK g \in Programmi, n \in Numeri : d = <<g, n>> /\ d[1] = g /\ d[2] = n
      OBVIOUS
    <2>2. d \in F <=> fdt[g][n] = e
      BY <2>1
    <2>3. d \in Vivi(h, tipo) <=> Vivo(g, n, h, tipo)
      BY <2>1 DEF Vivi
    <2>4. d \in K <=> \E p \in C : Programma[p] = g /\ th[p].fd = n
      <3> HIDE DEF C
      <3> QED  BY <2>1
    <2>5. ASSUME NEW p \in Fili, th[p].st = "chiude", Programma[p] = g, th[p].fd = n, fdt[g][n] = e
          PROVE  p \in C
      <3>1. [tipo |-> th[p].op, h |-> th[p].h] = e
        BY <2>5 DEF Tenuti, Tabella
      <3>2. th[p].op = tipo /\ th[p].h = h
        BY <3>1
      <3> QED  BY <2>5, <3>2
    <2>6. (\E p \in C : Programma[p] = g /\ th[p].fd = n) =>
            \E p \in Fili : th[p].st = "chiude" /\ Programma[p] = g /\ th[p].fd = n
      OBVIOUS
    <2>7. Vivo(g, n, h, tipo) <=> fdt[g][n] = e /\ ~\E p \in Fili : th[p].st = "chiude" /\ Programma[p] = g
                                                                  /\ th[p].fd = n
      BY DEF Vivo
    <2> HIDE DEF C, e, F, K
    <2> QED  BY <2>2, <2>3, <2>4, <2>5, <2>6, <2>7
  <1>8. Vivi(h, tipo) = F \ K
    <2>1. Vivi(h, tipo) \subseteq Programmi \X Numeri /\ F \subseteq Programmi \X Numeri
      BY DEF Vivi
    <2> HIDE DEF F, K
    <2> QED  BY <1>7, <2>1
  <1> HIDE DEF F, K, C
  <1>9. F \cap K = K
    BY <1>6
  <1>10. Cardinality(Vivi(h, tipo)) = Cardinality(F) - Cardinality(C)
    BY <1>2, <1>4, <1>8, <1>9, FS_Difference
  <1>11. Cardinality(F) \in Nat /\ Cardinality(C) \in Nat /\ Cardinality(Presi(h, tipo)) \in Nat
    BY <1>2, FS_CardinalityType, Finiti
  <1> QED  BY <1>1, <1>10, <1>11 DEF Capi

\* Nobody else of its program is in the middle of a change of the table.
Solo(p) == \A q \in Fili \ {p} : Programma[q] = Programma[p] => th[q].st \notin Cambia

\* Who changes the table of its program is alone at it.
LEMMA SoloFatti ==
    ASSUME NEW p \in Fili, Soli, "gara" \notin Eventi, th[p].st \in Cambia \/ Indisturbato(p)
    PROVE  Solo(p)
  BY DEF Solo, Soli, Indisturbato

\* The descriptors other than number n of program g do not change.
AltrovePari(g, n) ==
    \A k \in Programmi, m \in Numeri : k # g \/ m # n => fdt'[k][m] = fdt[k][m]

\* Thread p puts x at number n, and the ends of pipe h are counted again.
Contato(p, n, x, h, tipo) ==
    Capi(h, tipo)' = Capi(h, tipo)
      + Uno(x = [tipo |-> tipo, h |-> h] /\ th'[p].st # "chiude")
      - Uno(Tabella(p)[n] = [tipo |-> tipo, h |-> h] /\ th[p].st # "chiude")
      + Uno(Tiene(th'[p], h, tipo)) - Uno(Tiene(th[p], h, tipo))

\* The ends of a pipe that are open after a step of p which is alone with
\* number n of its table.
LEMMA ContoUno ==
    ASSUME TypeOK, NEW p \in Fili, AltriPari(p), Solo(p), NEW n \in Numeri, NEW x,
           fdt'[Programma[p]][n] = x,
           AltrovePari(Programma[p], n),
           th[p].st = "chiude" => th[p].fd = n, th'[p].st = "chiude" => th'[p].fd = n,
           NEW h, NEW tipo
    PROVE  Contato(p, n, x, h, tipo)
  <1>0. PICK g \in Programmi : g = Programma[p]
    BY DEF Programmi
  <1>1. \A q \in Fili \ {p} : /\ th'[q].fd = th[q].fd
                              /\ th'[q].st = "chiude" <=> th[q].st = "chiude"
    BY DEF AltriPari
  <1>2. ASSUME NEW k \in Programmi, NEW m \in Numeri, k # g \/ m # n
        PROVE  Vivo(k, m, h, tipo)' <=> Vivo(k, m, h, tipo)
    <2>1. fdt'[k][m] = fdt[k][m]
      BY <1>0, <1>2 DEF AltrovePari
    <2>2. (\A q \in Fili : th'[q].st = "chiude" /\ Programma[q] = k => th'[q].fd # m)
            <=> (\A q \in Fili : th[q].st = "chiude" /\ Programma[q] = k => th[q].fd # m)
      BY <1>0, <1>1, <1>2
    <2> QED  BY <2>1, <2>2 DEF Vivo
  <1>3. \A q \in Fili \ {p} : Programma[q] = g => th[q].st # "chiude" /\ th'[q].st # "chiude"
    BY <1>0, <1>1 DEF Solo, Cambia
  <1>4. Vivo(g, n, h, tipo) <=> Tabella(p)[n] = [tipo |-> tipo, h |-> h] /\ th[p].st # "chiude"
    <2>1. (\A q \in Fili : th[q].st = "chiude" /\ Programma[q] = g => th[q].fd # n)
            <=> th[p].st # "chiude"
      BY <1>0, <1>3
    <2> QED  BY <1>0, <2>1 DEF Vivo, Tabella
  <1>5. Vivo(g, n, h, tipo)' <=> x = [tipo |-> tipo, h |-> h] /\ th'[p].st # "chiude"
    <2>1. (\A q \in Fili : th'[q].st = "chiude" /\ Programma[q] = g => th'[q].fd # n)
            <=> th'[p].st # "chiude"
      BY <1>0, <1>3
    <2> QED  BY <1>0, <2>1 DEF Vivo
  <1>6. Cardinality(Vivi(h, tipo))' = Cardinality(Vivi(h, tipo))
             + Uno(Vivo(g, n, h, tipo)') - Uno(Vivo(g, n, h, tipo))
    BY <1>2, ViviConto
  <1>7. Cardinality(Presi(h, tipo))' = Cardinality(Presi(h, tipo))
             + Uno(Tiene(th'[p], h, tipo)) - Uno(Tiene(th[p], h, tipo))
    BY PresiConto
  <1>8. Cardinality(Vivi(h, tipo)) \in Nat /\ Cardinality(Presi(h, tipo)) \in Nat
    BY Finiti
  <1>9. \A b : Uno(b) \in {0, 1}
    BY DEF Uno
  <1>10. /\ Uno(Vivo(g, n, h, tipo)') = Uno(x = [tipo |-> tipo, h |-> h] /\ th'[p].st # "chiude")
         /\ Uno(Vivo(g, n, h, tipo)) = Uno(Tabella(p)[n] = [tipo |-> tipo, h |-> h] /\ th[p].st # "chiude")
    BY <1>4, <1>5 DEF Uno
  <1>11. Capi(h, tipo)' = Cardinality(Vivi(h, tipo))' + Cardinality(Presi(h, tipo))'
    BY DEF Capi
  <1> QED  BY <1>6, <1>7, <1>8, <1>9, <1>10, <1>11 DEF Capi, Contato

\* The same after a step that leaves the tables alone and neither begins nor
\* ends a close.
LEMMA ContoFermo ==
    ASSUME NEW p \in Fili, AltriPari(p), UNCHANGED fdt,
           th'[p].st = "chiude" <=> th[p].st = "chiude",
           th[p].st = "chiude" => th'[p].fd = th[p].fd,
           NEW h, NEW tipo
    PROVE  Capi(h, tipo)' = Capi(h, tipo)
             + Uno(Tiene(th'[p], h, tipo)) - Uno(Tiene(th[p], h, tipo))
  <1>1. \A q \in Fili : /\ th'[q].st = "chiude" <=> th[q].st = "chiude"
                        /\ th[q].st = "chiude" => th'[q].fd = th[q].fd
    BY DEF AltriPari
  <1>2. ASSUME NEW k, NEW m
        PROVE  Vivo(k, m, h, tipo)' <=> Vivo(k, m, h, tipo)
    BY <1>1 DEF Vivo
  <1>3. Vivi(h, tipo)' = Vivi(h, tipo)
    BY <1>2 DEF Vivi
  <1>7. Cardinality(Presi(h, tipo))' = Cardinality(Presi(h, tipo))
             + Uno(Tiene(th'[p], h, tipo)) - Uno(Tiene(th[p], h, tipo))
    BY PresiConto
  <1>8. Cardinality(Vivi(h, tipo)) \in Nat /\ Cardinality(Presi(h, tipo)) \in Nat
    BY Finiti
  <1>9. \A b : Uno(b) \in {0, 1}
    BY DEF Uno
  <1>11. Capi(h, tipo)' = Cardinality(Vivi(h, tipo)) + Cardinality(Presi(h, tipo))'
    BY <1>3 DEF Capi
  <1> QED  BY <1>7, <1>8, <1>9, <1>11 DEF Capi

-----------------------------------------------------------------------------
(* One pipe.                                                               *)

CodaDi(d) == Coda(d.buf, d.testa, d.quanti)

\* A pipe like d has r ends to read and w to write.
Giusto(d, r, w) ==
    /\ d.testa < Dim
    /\ d.usata => d.lettori = r /\ d.scrittori = w /\ r + w > 0
    /\ ~d.usata => r = 0 /\ w = 0 /\ d.lettori = 0 /\ d.scrittori = 0 /\ d.quanti = 0

\* What becomes of a pipe when ends of it are opened or closed: both at once if
\* there was none, and the bytes stay as long as there is one.
Passa(d, r, w, d2, r2, w2) ==
    /\ Giusto(d2, r2, w2)
    /\ r = 0 /\ r2 > 0 => w = 0 /\ r2 = 1 /\ w2 = 1
    /\ w = 0 /\ w2 > 0 => r = 0 /\ r2 = 1 /\ w2 = 1
    /\ CodaDi(d2) = IF r2 = 0 /\ w2 = 0 THEN <<>> ELSE CodaDi(d)

\* A pipe given up is empty.
LEMMA VergineCampi ==
    ASSUME NEW d \in Anelli
    PROVE  \E B \in [0 .. Dim - 1 -> Byte] :
             Vergine(d) = [usata |-> FALSE, testa |-> 0, quanti |-> 0, lettori |-> 0,
                           scrittori |-> 0, buf |-> B]
  <1>1. <<>> \in Byte
    BY DEF Byte
  <1>2. [i \in 0 .. Dim - 1 |-> <<>>] \in [0 .. Dim - 1 -> Byte]
    BY <1>1
  <1>3. PICK B \in [0 .. Dim - 1 -> Byte] : B = [i \in 0 .. Dim - 1 |-> <<>>]
    BY <1>2
  <1>4. Vergine(d) = [d EXCEPT !.usata = FALSE, !.testa = 0, !.quanti = 0,
                               !.lettori = 0, !.scrittori = 0, !.buf = B]
    BY <1>3 DEF Vergine
  <1> QED  BY <1>4 DEF Anelli

\* A pipe that does not change.
LEMMA PassaFermo ==
    ASSUME NEW d \in Anelli, NEW r \in Nat, NEW w \in Nat, Giusto(d, r, w)
    PROVE  Passa(d, r, w, d, r, w)
  <1>1. r = 0 /\ w = 0 => d.quanti = 0
    BY DEF Giusto
  <1>2. r = 0 /\ w = 0 => CodaDi(d) = <<>>
    BY <1>1, CodaVuota DEF CodaDi
  <1> QED  BY <1>2 DEF Passa

\* Only the counts change, or the pipe is given up with its last end.
LEMMA PassaConti ==
    ASSUME NEW d \in Anelli, NEW r \in Nat, NEW w \in Nat, Giusto(d, r, w), d.usata,
           NEW x \in Nat, NEW y \in Nat, x > 0 => r > 0, y > 0 => w > 0,
           NEW e, e = [d EXCEPT !.lettori = x, !.scrittori = y],
           NEW d2, d2 = IF x = 0 /\ y = 0 THEN Vergine(e) ELSE e
    PROVE  Passa(d, r, w, d2, x, y)
  <1>0. Dim \in Nat \ {0}
    BY MisureTubi
  <1>1. /\ e \in Anelli /\ e.usata /\ e.testa = d.testa /\ e.quanti = d.quanti /\ e.buf = d.buf
        /\ e.lettori = x /\ e.scrittori = y
    BY DEF Anelli
  <1>2. CASE x = 0 /\ y = 0
    <2>1. ~d2.usata /\ d2.testa = 0 /\ d2.quanti = 0 /\ d2.lettori = 0 /\ d2.scrittori = 0
      BY <1>1, <1>2, VergineCampi
    <2>2. CodaDi(d2) = <<>>
      BY <2>1, CodaVuota DEF CodaDi
    <2> QED  BY <1>0, <1>2, <2>1, <2>2 DEF Passa, Giusto
  <1>3. CASE ~(x = 0 /\ y = 0)
    <2>1. d2 = e /\ CodaDi(d2) = CodaDi(d)
      BY <1>1, <1>3 DEF CodaDi
    <2> QED  BY <1>1, <1>3, <2>1 DEF Passa, Giusto
  <1> QED  BY <1>2, <1>3

\* pipe_chiudi_lettore_locked, pipe_chiudi_scrittore_locked.
LEMMA PassaChiuso ==
    ASSUME NEW P \in [Tubi -> Anelli], NEW h \in Tubi, NEW tipo \in {"R", "W"},
           NEW r \in Nat, NEW w \in Nat, Giusto(P[h], r, w),
           tipo = "R" => r > 0, tipo = "W" => w > 0,
           NEW x \in Nat, NEW y \in Nat,
           x = IF tipo = "R" THEN r - 1 ELSE r, y = IF tipo = "W" THEN w - 1 ELSE w
    PROVE  /\ Chiuso(P, h, tipo) \in [Tubi -> Anelli]
           /\ Passa(P[h], r, w, Chiuso(P, h, tipo)[h], x, y)
           /\ \A k \in Tubi \ {h} : Chiuso(P, h, tipo)[k] = P[k]
  <1>0. PICK d \in Anelli : d = P[h]
    OBVIOUS
  <1>1. d.usata /\ d.lettori = r /\ d.scrittori = w /\ h # 0
    BY <1>0, MisureTubi DEF Giusto
  <1>2. PICK e : e = [d EXCEPT !.lettori = x, !.scrittori = y]
    OBVIOUS
  <1>3. /\ e \in Anelli /\ e.lettori = x /\ e.scrittori = y
        /\ e = IF tipo = "R" THEN [d EXCEPT !.lettori = x] ELSE [d EXCEPT !.scrittori = y]
    BY <1>1, <1>2 DEF Anelli
  <1>4. PICK d2 : d2 = IF x = 0 /\ y = 0 THEN Vergine(e) ELSE e
    OBVIOUS
  <1>5. Meno(d.lettori) = r - 1 \/ tipo = "W"
    BY <1>1 DEF Meno
  <1>6. Meno(d.scrittori) = w - 1 \/ tipo = "R"
    BY <1>1 DEF Meno
  <1>7. Chiuso(P, h, tipo) = [P EXCEPT ![h] = d2]
    <2>1. CASE tipo = "R"
      <3>1. e = [d EXCEPT !.lettori = Meno(d.lettori)]
        BY <1>3, <1>5, <2>1
      <3> QED  BY <1>0, <1>1, <1>3, <1>4, <2>1, <3>1 DEF Chiuso
    <2>2. CASE tipo = "W"
      <3>1. e = [d EXCEPT !.scrittori = Meno(d.scrittori)]
        BY <1>3, <1>6, <2>2
      <3> QED  BY <1>0, <1>1, <1>3, <1>4, <2>2, <3>1 DEF Chiuso
    <2> QED  BY <2>1, <2>2
  <1>8. Passa(d, r, w, d2, x, y)
    BY <1>0, <1>1, <1>2, <1>4, PassaConti
  <1>9. d2 \in Anelli
    BY <1>3, <1>4, VergineTipo
  <1> QED  BY <1>0, <1>7, <1>8, <1>9

\* Ends closed one after the other.
LEMMA PassaDue ==
    ASSUME NEW d, NEW r \in Nat, NEW w \in Nat, NEW d1, NEW r1 \in Nat, NEW w1 \in Nat,
           NEW d2, NEW r2 \in Nat, NEW w2 \in Nat,
           Passa(d, r, w, d1, r1, w1), Passa(d1, r1, w1, d2, r2, w2),
           r1 <= r, r2 <= r1, w1 <= w, w2 <= w1
    PROVE  Passa(d, r, w, d2, r2, w2)
  BY DEF Passa

\* pipe_apri_lettore, pipe_apri_scrittore, on a pipe that has such an end.
LEMMA PassaAperto ==
    ASSUME NEW P \in [Tubi -> Anelli], NEW h \in Tubi, NEW tipo \in {"R", "W"},
           NEW r \in Nat, NEW w \in Nat, Giusto(P[h], r, w),
           tipo = "R" => r > 0, tipo = "W" => w > 0,
           NEW x \in Nat, NEW y \in Nat,
           x = IF tipo = "R" THEN r + 1 ELSE r, y = IF tipo = "W" THEN w + 1 ELSE w
    PROVE  /\ Passa(P[h], r, w, Aperto(P, h, tipo)[h], x, y)
           /\ \A k \in Tubi \ {h} : Aperto(P, h, tipo)[k] = P[k]
  <1>0. PICK d \in Anelli : d = P[h]
    OBVIOUS
  <1>1. d.usata /\ d.lettori = r /\ d.scrittori = w /\ h # 0
    BY <1>0, MisureTubi DEF Giusto
  <1>2. PICK e : e = [d EXCEPT !.lettori = x, !.scrittori = y]
    OBVIOUS
  <1>3. e = IF tipo = "R" THEN [d EXCEPT !.lettori = x] ELSE [d EXCEPT !.scrittori = y]
    BY <1>1, <1>2 DEF Anelli
  <1>4. Aperto(P, h, tipo) = [P EXCEPT ![h] = e]
    <2>1. CASE tipo = "R"
      <3>1. e = [d EXCEPT !.lettori = d.lettori + 1]
        BY <1>1, <1>3, <2>1
      <3> QED  BY <1>0, <1>1, <2>1, <3>1 DEF Aperto
    <2>2. CASE tipo = "W"
      <3>1. e = [d EXCEPT !.scrittori = d.scrittori + 1]
        BY <1>1, <1>3, <2>2
      <3> QED  BY <1>0, <1>1, <2>2, <3>1 DEF Aperto
    <2> QED  BY <2>1, <2>2
  <1>5. x > 0 \/ y > 0
    OBVIOUS
  <1>6. PICK d2 : d2 = IF x = 0 /\ y = 0 THEN Vergine(e) ELSE e
    OBVIOUS
  <1>7. Passa(d, r, w, d2, x, y)
    BY <1>0, <1>1, <1>2, <1>6, PassaConti
  <1> QED  BY <1>0, <1>4, <1>5, <1>6, <1>7

\* pipe_crea.
LEMMA PassaCrea ==
    ASSUME NEW d \in Anelli, NEW r \in Nat, NEW w \in Nat, Giusto(d, r, w), ~d.usata,
           NEW d2, d2 = [Vergine(d) EXCEPT !.usata = TRUE, !.lettori = 1, !.scrittori = 1]
    PROVE  r = 0 /\ w = 0 /\ Passa(d, r, w, d2, 1, 1)
  <1>1. r = 0 /\ w = 0 /\ d.quanti = 0
    BY DEF Giusto
  <1>2. PICK B : Vergine(d) = [usata |-> FALSE, testa |-> 0, quanti |-> 0, lettori |-> 0,
                               scrittori |-> 0, buf |-> B]
    BY VergineCampi
  <1>3. d2.usata /\ d2.testa = 0 /\ d2.quanti = 0 /\ d2.lettori = 1 /\ d2.scrittori = 1
    BY <1>2
  <1>4. CodaDi(d2) = <<>> /\ CodaDi(d) = <<>>
    BY <1>1, <1>3, CodaVuota DEF CodaDi
  <1>5. 0 < Dim
    BY MisureTubi
  <1> QED  BY <1>1, <1>3, <1>4, <1>5 DEF Passa, Giusto

-----------------------------------------------------------------------------
(* The invariant: the counts in the pipes are the ends that are open.      *)

Conti == \A h \in Tubi : Giusto(pipe[h], Capi(h, "R"), Capi(h, "W"))

\* A program that is not there yet has no thread that is, and an empty table.
NonNati ==
    \A p \in Fili : th[p].st = "non nato" =>
        /\ \A n \in Numeri : Tabella(p)[n] = Libero
        /\ \A q \in Fili : Programma[q] = Programma[p] => th[q].st = "non nato"

\* A read or a write under way asks for something.
Domanda(r) == r.op \in {"R", "W"} /\ r.st # "chiude" => r.n > 0
Domande == \A p \in Fili : Domanda(th[p])

Inv4 == Tavole /\ Tenuti /\ NonNati /\ Domande /\ Conti

\* What a step does to the ends of every pipe, and to the answers.
Passano ==
    \A h \in Tubi : Passa(pipe[h], Capi(h, "R"), Capi(h, "W"),
                          pipe'[h], Capi(h, "R")', Capi(h, "W")')

Tacciono == \A q \in Fili : th'[q].reso \in {th[q].reso, Zitto}

\* A dup or a close that p is in the middle of holds its descriptor.
Tiene2(p) == th'[p].st \in {"dup", "chiude"} =>
                fdt'[Programma[p]][th'[p].fd] = [tipo |-> th'[p].op, h |-> th'[p].h]

\* What the invariant says of one pipe.
LEMMA ContiDi ==
    ASSUME Inv4, NEW h \in Tubi
    PROVE  /\ pipe[h] \in Anelli /\ Capi(h, "R") \in Nat /\ Capi(h, "W") \in Nat
           /\ Giusto(pipe[h], Capi(h, "R"), Capi(h, "W"))
  <1>1. pipe[h] \in Anelli
    BY DEF Inv4, Tavole, Inv2, Inv1, TypeOK
  <1> QED  BY <1>1, Finiti DEF Inv4, Conti

\* Pipes and counts that do not change.
LEMMA PassaUguale ==
    ASSUME Inv4, NEW h \in Tubi, pipe'[h] = pipe[h],
           Capi(h, "R")' = Capi(h, "R"), Capi(h, "W")' = Capi(h, "W")
    PROVE  Passa(pipe[h], Capi(h, "R"), Capi(h, "W"), pipe'[h], Capi(h, "R")', Capi(h, "W")')
  <1>1. /\ pipe[h] \in Anelli /\ Capi(h, "R") \in Nat /\ Capi(h, "W") \in Nat
        /\ Giusto(pipe[h], Capi(h, "R"), Capi(h, "W"))
    BY ContiDi
  <1>2. Passa(pipe[h], Capi(h, "R"), Capi(h, "W"), pipe[h], Capi(h, "R"), Capi(h, "W"))
    BY <1>1, PassaFermo, Zenon
  <1> QED  BY <1>2, Zenon

\* A step of a thread that is in no change of its table, before and after, and
\* leaves the pipes and the tables alone.
LEMMA PassanoFermi ==
    ASSUME Inv4, NEW p \in Fili, AltriPari(p), UNCHANGED fdt,
           \/ th[p].st \notin Cambia /\ th'[p].st \notin Cambia
           \/ /\ th'[p].st = th[p].st /\ th'[p].fd = th[p].fd /\ th'[p].h = th[p].h
              /\ th'[p].op = th[p].op
    PROVE  /\ \A h \in Tubi : Capi(h, "R")' = Capi(h, "R") /\ Capi(h, "W")' = Capi(h, "W")
           /\ UNCHANGED pipe => Passano
           /\ Tiene2(p)
  <1>1. ASSUME NEW h, NEW tipo PROVE Capi(h, tipo)' = Capi(h, tipo)
    <2>1. Capi(h, tipo)' = Capi(h, tipo) + Uno(Tiene(th'[p], h, tipo)) - Uno(Tiene(th[p], h, tipo))
      BY ContoFermo DEF Cambia
    <2>2. Tiene(th'[p], h, tipo) <=> Tiene(th[p], h, tipo)
      BY DEF Tiene, Cambia
    <2>3. Uno(Tiene(th'[p], h, tipo)) = Uno(Tiene(th[p], h, tipo)) /\ Uno(Tiene(th[p], h, tipo)) \in {0, 1}
      BY <2>2 DEF Uno
    <2>4. Capi(h, tipo) \in Nat
      BY Finiti
    <2> QED  BY <2>1, <2>3, <2>4
  <1>2. UNCHANGED pipe => Passano
    BY <1>1, PassaUguale DEF Passano
  <1>3. Tiene2(p)
    BY DEF Tiene2, Cambia, Inv4, Tenuti, Tabella
  <1> QED  BY <1>1, <1>2, <1>3

\* pipe_crea.
LEMMA PipeCreaPassa ==
    ASSUME Inv4, NEW p \in Fili, PipeCrea(p)
    PROVE  Passano /\ th'[p].reso = Zitto /\ Tiene2(p)
  <1>0. TypeOK /\ Inv2
    BY DEF Inv4, Tavole, Inv2, Inv1
  <1>1. PICK h \in Tubi :
         /\ ~pipe[h].usata
         /\ pipe' = [pipe EXCEPT ![h] = [Vergine(pipe[h]) EXCEPT !.usata = TRUE, !.lettori = 1,
                                                                 !.scrittori = 1]]
         /\ th' = [th EXCEPT ![p] = [Fuori(Zitto) EXCEPT !.st = "pipe r", !.h = h]]
    BY DEF PipeCrea
  <1>2. PICK d2 : d2 = [Vergine(pipe[h]) EXCEPT !.usata = TRUE, !.lettori = 1, !.scrittori = 1]
    OBVIOUS
  <1>3. pipe'[h] = d2 /\ \A k \in Tubi \ {h} : pipe'[k] = pipe[k]
    BY <1>0, <1>1, <1>2 DEF TypeOK
  <1>4. th'[p].st = "pipe r" /\ th'[p].h = h /\ th'[p].reso = Zitto /\ th[p].st = "fuori"
    <2>1. PICK r : r = [Fuori(Zitto) EXCEPT !.st = "pipe r", !.h = h]
      OBVIOUS
    <2>2. r.st = "pipe r" /\ r.h = h /\ r.reso = Zitto
      BY <2>1 DEF Fuori
    <2>3. th'[p] = r
      BY <1>0, <1>1, <2>1 DEF TypeOK
    <2>4. th[p].st = "fuori"
      BY DEF PipeCrea, InizioChiamata
    <2> QED  BY <2>2, <2>3, <2>4
  <1>5. Effetto(p) /\ UNCHANGED fdt
    BY <1>0, PipeCreaEffetto
  <1>6. ASSUME NEW k \in Tubi, NEW tipo \in {"R", "W"}
        PROVE  Capi(k, tipo)' = IF k = h THEN Capi(k, tipo) + 1 ELSE Capi(k, tipo)
    <2>1. Capi(k, tipo)' = Capi(k, tipo) + Uno(Tiene(th'[p], k, tipo)) - Uno(Tiene(th[p], k, tipo))
      BY <1>4, <1>5, ContoFermo DEF Effetto
    <2>2. Uno(Tiene(th[p], k, tipo)) = 0 /\ Uno(Tiene(th'[p], k, tipo)) = IF k = h THEN 1 ELSE 0
      BY <1>4 DEF Tiene, Uno
    <2>3. Capi(k, tipo) \in Nat
      BY Finiti
    <2> QED  BY <2>1, <2>2, <2>3
  <1>7. ASSUME NEW k \in Tubi
        PROVE  Passa(pipe[k], Capi(k, "R"), Capi(k, "W"), pipe'[k], Capi(k, "R")', Capi(k, "W")')
    <2>1. CASE k = h
      <3>1. /\ pipe[h] \in Anelli /\ Capi(h, "R") \in Nat /\ Capi(h, "W") \in Nat
            /\ Giusto(pipe[h], Capi(h, "R"), Capi(h, "W"))
        BY ContiDi
      <3>2. /\ Capi(h, "R") = 0 /\ Capi(h, "W") = 0
            /\ Passa(pipe[h], Capi(h, "R"), Capi(h, "W"), d2, 1, 1)
        <4>1. PICK d \in Anelli, r \in Nat, w \in Nat :
                 d = pipe[h] /\ r = Capi(h, "R") /\ w = Capi(h, "W")
          BY <3>1
        <4>2. Giusto(d, r, w) /\ ~d.usata
          BY <1>1, <3>1, <4>1
        <4>3. d2 = [Vergine(d) EXCEPT !.usata = TRUE, !.lettori = 1, !.scrittori = 1]
          BY <1>2, <4>1
        <4>4. r = 0 /\ w = 0 /\ Passa(d, r, w, d2, 1, 1)
          BY <4>2, <4>3, PassaCrea, Zenon
        <4> QED  BY <4>1, <4>4, Zenon
      <3>3. Capi(h, "R")' = 1 /\ Capi(h, "W")' = 1
        BY <1>6, <3>2
      <3> QED  BY <1>3, <2>1, <3>2, <3>3
    <2>2. CASE k # h
      <3>1. Capi(k, "R")' = Capi(k, "R") /\ Capi(k, "W")' = Capi(k, "W") /\ pipe'[k] = pipe[k]
        BY <1>3, <1>6, <2>2
      <3> QED  BY <3>1, PassaUguale
    <2> QED  BY <2>1, <2>2
  <1> QED  BY <1>4, <1>7 DEF Passano, Tiene2

\* The count of the ends after a step is a number too.
LEMMA CapiPoi ==
    ASSUME NEW h, NEW tipo
    PROVE  Capi(h, tipo) \in Nat /\ Capi(h, tipo)' \in Nat
  <1>1. Capi(h, tipo) \in Nat
    BY Finiti
  <1>2. (Capi(h, tipo) \in Nat)'
    BY Finiti, PTL
  <1> QED  BY <1>1, <1>2

\* Descriptors that are the end of a pipe.
LEMMA CapoUguale ==
    ASSUME NEW a, NEW b, NEW c, NEW d
    PROVE  ([tipo |-> a, h |-> b] = [tipo |-> c, h |-> d]) <=> (a = c /\ b = d)
  OBVIOUS

\* A descriptor is an end of a pipe, or it is not.
LEMMA NonCapo ==
    ASSUME NEW x \in Descrittori, NEW h, NEW tipo \in {"R", "W"}
    PROVE  /\ (x = [tipo |-> tipo, h |-> h]) <=> (x.tipo = tipo /\ x.h = h)
           /\ x.tipo = "no" => x = Libero
  BY DEF Descrittori, Libero, UnFile

\* A step that closes one end of pipe h.
LEMMA PassanoChiuso ==
    ASSUME Inv4, NEW h \in Tubi, NEW tipo \in {"R", "W"}, pipe' = Chiuso(pipe, h, tipo),
           \A k \in Tubi, t \in {"R", "W"} : Capi(k, t)' = Capi(k, t) - Uno(k = h /\ t = tipo)
    PROVE  Passano
  <1> SUFFICES ASSUME NEW k \in Tubi
               PROVE  Passa(pipe[k], Capi(k, "R"), Capi(k, "W"), pipe'[k], Capi(k, "R")', Capi(k, "W")')
    BY DEF Passano
  <1>1. /\ pipe[k] \in Anelli /\ Capi(k, "R") \in Nat /\ Capi(k, "W") \in Nat
        /\ Giusto(pipe[k], Capi(k, "R"), Capi(k, "W"))
    BY ContiDi
  <1>2. PICK r \in Nat, w \in Nat, x \in Nat, y \in Nat :
           /\ r = Capi(k, "R") /\ w = Capi(k, "W") /\ x = Capi(k, "R")' /\ y = Capi(k, "W")'
    BY <1>1, CapiPoi
  <1>3. x = r - Uno(k = h /\ tipo = "R") /\ y = w - Uno(k = h /\ tipo = "W")
    BY <1>2
  <1>4. PICK P \in [Tubi -> Anelli] : P = pipe
    BY DEF Inv4, Tavole, Inv2, Inv1, TypeOK
  <1>5. Giusto(P[k], r, w)
    BY <1>1, <1>2, <1>4
  <1>6. CASE k = h
    <2>1. /\ tipo = "R" => r > 0
          /\ tipo = "W" => w > 0
          /\ x = IF tipo = "R" THEN r - 1 ELSE r
          /\ y = IF tipo = "W" THEN w - 1 ELSE w
      BY <1>3, <1>6 DEF Uno
    <2>2. Passa(P[h], r, w, Chiuso(P, h, tipo)[h], x, y)
      BY <1>5, <1>6, <2>1, PassaChiuso, Zenon
    <2> QED  BY <1>2, <1>4, <1>6, <2>2, Zenon
  <1>7. CASE k # h
    <2>1. pipe'[k] = pipe[k]
      BY <1>4, <1>7, ChiusoFatti
    <2>2. x = r /\ y = w
      BY <1>3, <1>7 DEF Uno
    <2> QED  BY <1>2, <2>1, <2>2, PassaUguale
  <1> QED  BY <1>6, <1>7

\* A step that closes both ends of pipe h.
LEMMA PassanoRidati ==
    ASSUME Inv4, NEW h \in Tubi, pipe' = Chiuso(Chiuso(pipe, h, "R"), h, "W"),
           \A k \in Tubi, t \in {"R", "W"} : Capi(k, t)' = Capi(k, t) - Uno(k = h)
    PROVE  Passano
  <1> SUFFICES ASSUME NEW k \in Tubi
               PROVE  Passa(pipe[k], Capi(k, "R"), Capi(k, "W"), pipe'[k], Capi(k, "R")', Capi(k, "W")')
    BY DEF Passano
  <1>1. /\ pipe[k] \in Anelli /\ Capi(k, "R") \in Nat /\ Capi(k, "W") \in Nat
        /\ Giusto(pipe[k], Capi(k, "R"), Capi(k, "W"))
    BY ContiDi
  <1>2. PICK r \in Nat, w \in Nat, x \in Nat, y \in Nat :
           /\ r = Capi(k, "R") /\ w = Capi(k, "W") /\ x = Capi(k, "R")' /\ y = Capi(k, "W")'
    BY <1>1, CapiPoi
  <1>3. x = r - Uno(k = h) /\ y = w - Uno(k = h)
    BY <1>2
  <1>4. PICK P \in [Tubi -> Anelli] : P = pipe
    BY DEF Inv4, Tavole, Inv2, Inv1, TypeOK
  <1>5. Giusto(P[k], r, w)
    BY <1>1, <1>2, <1>4
  <1>6. PICK Q \in [Tubi -> Anelli] : Q = Chiuso(P, h, "R")
    BY ChiusoFatti
  <1>7. pipe' = Chiuso(Q, h, "W")
    BY <1>4, <1>6
  <1>8. CASE k = h
    <2>1. r > 0 /\ w > 0 /\ x = r - 1 /\ y = w - 1
      BY <1>3, <1>8 DEF Uno
    <2>2. Passa(P[h], r, w, Q[h], x, w)
      <3>1. /\ "R" \in {"R", "W"} /\ ("R" = "R" => r > 0) /\ ("R" = "W" => w > 0)
            /\ x = (IF "R" = "R" THEN r - 1 ELSE r) /\ w = (IF "R" = "W" THEN w - 1 ELSE w)
        BY <2>1
      <3> QED  BY <1>5, <1>6, <1>8, <3>1, PassaChiuso, Zenon
    <2>3. Giusto(Q[h], x, w)
      BY <2>2 DEF Passa
    <2>4. Passa(Q[h], x, w, pipe'[h], x, y)
      <3>1. /\ "W" \in {"R", "W"} /\ ("W" = "R" => x > 0) /\ ("W" = "W" => w > 0)
            /\ x = (IF "W" = "R" THEN x - 1 ELSE x) /\ y = (IF "W" = "W" THEN w - 1 ELSE w)
        BY <2>1
      <3> QED  BY <1>7, <2>3, <3>1, PassaChiuso, Zenon
    <2>5. x <= r /\ x <= x /\ w <= w /\ y <= w
      BY <2>1
    <2>6. Passa(P[h], r, w, pipe'[h], x, y)
      BY <2>2, <2>4, <2>5, PassaDue, Zenon
    <2> QED  BY <1>2, <1>4, <1>8, <2>6, Zenon
  <1>9. CASE k # h
    <2>1. pipe'[k] = pipe[k]
      BY <1>4, <1>6, <1>7, <1>9, ChiusoFatti
    <2>2. x = r /\ y = w
      BY <1>3, <1>9 DEF Uno
    <2> QED  BY <1>2, <2>1, <2>2, PassaUguale
  <1> QED  BY <1>8, <1>9

\* What a call that ended gave.
LEMMA FinitoReso ==
    ASSUME TypeOK, NEW p \in Fili, NEW che \in Esiti, NEW W,
           th' = Desti(W, Finisce(p, che)) \/ th' = Finisce(p, che)
    PROVE  th'[p].reso = [che |-> che, dati |-> <<>>] /\ (che = "no" => th'[p].reso = Zitto)
  <1>1. Finisce(p, che) \in [Fili -> Quadri]
    BY FinisceTipo
  <1>2. Finisce(p, che)[p] = Resa(p, che, <<>>)
    BY DEF TypeOK, Finisce
  <1>3. Finisce(p, che)[p].reso = [che |-> che, dati |-> <<>>]
    BY <1>2, ResaReso
  <1>4. th'[p].reso = Finisce(p, che)[p].reso
    BY <1>1, DestiTipo
  <1> QED  BY <1>3, <1>4 DEF Zitto

\* A step of a thread alone with its table that writes number n of it.
LEMMA ContoScritto ==
    ASSUME TypeOK, NEW p \in Fili, AltriPari(p), Solo(p), NEW n \in Numeri, NEW x \in Descrittori,
           fdt' = [fdt EXCEPT ![Programma[p]][n] = x],
           th[p].st = "chiude" => th[p].fd = n, th'[p].st # "chiude",
           NEW h, NEW tipo
    PROVE  Contato(p, n, x, h, tipo)
  <1>1. \A g \in Programmi : \A m \in Numeri :
           fdt'[g][m] = IF g = Programma[p] /\ m = n THEN x ELSE fdt[g][m]
    BY TabellaScritta
  <1>2. fdt'[Programma[p]][n] = x /\ AltrovePari(Programma[p], n)
    BY <1>1 DEF Programmi, AltrovePari
  <1>3. th'[p].st = "chiude" => th'[p].fd = n
    OBVIOUS
  <1> QED  BY <1>2, <1>3, ContoUno, Zenon

\* sys_pipe, the first descriptor.
LEMMA PipeLetturaPassa ==
    ASSUME Inv4, "gara" \notin Eventi, NEW p \in Fili, PipeLettura(p)
    PROVE  Passano /\ th'[p].reso \in {th[p].reso, Zitto} /\ Tiene2(p)
  <1>0. TypeOK /\ Inv2 /\ Soli /\ Forma
    BY DEF Inv4, Tavole, Inv2, Inv1
  <1>1. Effetto(p) /\ AltriPari(p) /\ th[p].st = "pipe r"
    BY <1>0, PipeLetturaEffetto DEF Effetto
  <1>2. Solo(p)
    BY <1>0, <1>1, SoloFatti DEF Cambia
  <1>3. PICK h \in Tubi : h = th[p].h
    BY <1>0, <1>1 DEF Forma, FormaDi
  <1>4. CASE find_free_fd(p) # 0
    <2>1. PICK n \in Numeri : n = find_free_fd(p) /\ Tabella(p)[n].tipo = "no"
      BY <1>0, <1>4, NumeroLibero
    <2>2. /\ fdt' = [fdt EXCEPT ![Programma[p]][n] = [tipo |-> "R", h |-> h]]
          /\ th' = [th EXCEPT ![p] = [In(p, "pipe w") EXCEPT !.fd = n]]
          /\ UNCHANGED pipe
      BY <1>3, <1>4, <2>1 DEF PipeLettura
    <2>3. th'[p].st = "pipe w" /\ th'[p].h = h /\ th'[p].reso = th[p].reso
      <3>1. PICK r \in Quadri : r = In(p, "pipe w") /\ r.st = "pipe w" /\ r.h = h /\ r.reso = th[p].reso
        BY <1>0, <1>3, InTipo DEF Luoghi
      <3>2. th'[p] = [r EXCEPT !.fd = n]
        BY <1>0, <2>2, <3>1 DEF TypeOK
      <3> QED  BY <3>1, <3>2 DEF Quadri
    <2>6. ASSUME NEW k \in Tubi, NEW t \in {"R", "W"}
          PROVE  Capi(k, t)' = Capi(k, t)
      <3>1. PICK x \in Descrittori : x = [tipo |-> "R", h |-> h]
        BY DEF Descrittori
      <3>3. Contato(p, n, x, k, t)
        <4>1. /\ th[p].st = "chiude" => th[p].fd = n
              /\ th'[p].st # "chiude"
              /\ fdt' = [fdt EXCEPT ![Programma[p]][n] = x]
          BY <1>1, <2>2, <2>3, <3>1
        <4> QED  BY <1>0, <1>1, <1>2, <4>1, ContoScritto, Zenon
      <3>4. Uno(x = [tipo |-> t, h |-> k] /\ th'[p].st # "chiude") = IF t = "R" /\ k = h THEN 1 ELSE 0
        BY <2>3, <3>1 DEF Uno
      <3>5. Uno(Tabella(p)[n] = [tipo |-> t, h |-> k] /\ th[p].st # "chiude") = 0
        BY <2>1 DEF Uno
      <3>6. Uno(Tiene(th'[p], k, t)) = IF t = "W" /\ k = h THEN 1 ELSE 0
        BY <2>3 DEF Uno, Tiene
      <3>7. Uno(Tiene(th[p], k, t)) = IF k = h THEN 1 ELSE 0
        BY <1>1, <1>3 DEF Uno, Tiene
      <3>8. Capi(k, t) \in Nat
        BY CapiPoi
      <3>9. PICK a \in Nat : a = Capi(k, t)
        BY <3>8
      <3> QED  BY <3>3, <3>4, <3>5, <3>6, <3>7, <3>9 DEF Contato
    <2>7. Passano
      BY <2>2, <2>6, PassaUguale DEF Passano
    <2> QED  BY <2>3, <2>7 DEF Tiene2
  <1>5. CASE ~(find_free_fd(p) # 0)
    <2>1. /\ pipe' = Chiuso(Chiuso(pipe, h, "R"), h, "W") /\ UNCHANGED fdt
          /\ th' = Desti(att[h]["L"] \cup att[h]["S"], Finisce(p, "no"))
      BY <1>3, <1>5 DEF PipeLettura
    <2>2. th'[p].reso = Zitto /\ th'[p].st \in {"fuori", "esce"}
      BY <1>0, <2>1, FinitoReso, FinisceDesti DEF Esiti
    <2>3. ASSUME NEW k \in Tubi, NEW t \in {"R", "W"}
          PROVE  Capi(k, t)' = Capi(k, t) - Uno(k = h)
      <3>1. Capi(k, t)' = Capi(k, t) + Uno(Tiene(th'[p], k, t)) - Uno(Tiene(th[p], k, t))
        BY <1>1, <2>1, <2>2, ContoFermo
      <3>2. Uno(Tiene(th'[p], k, t)) = 0
        BY <2>2 DEF Uno, Tiene
      <3>3. Uno(Tiene(th[p], k, t)) = Uno(k = h) /\ Uno(k = h) \in {0, 1}
        BY <1>1, <1>3 DEF Uno, Tiene
      <3>4. PICK a \in Nat : a = Capi(k, t)
        BY CapiPoi
      <3> QED  BY <3>1, <3>2, <3>3, <3>4
    <2>4. Passano
      BY <2>1, <2>3, PassanoRidati
    <2> QED  BY <2>2, <2>4 DEF Tiene2
  <1> QED  BY <1>4, <1>5

\* sys_pipe, the second descriptor.
LEMMA PipeScritturaPassa ==
    ASSUME Inv4, "gara" \notin Eventi, NEW p \in Fili, PipeScrittura(p)
    PROVE  Passano /\ th'[p].reso = Zitto /\ Tiene2(p)
  <1>0. TypeOK /\ Inv2 /\ Soli /\ Forma /\ Posati
    BY DEF Inv4, Tavole, Inv2, Inv1
  <1>1. Effetto(p) /\ AltriPari(p) /\ th[p].st = "pipe w" /\ th'[p].st \in {"fuori", "esce"}
    BY <1>0, PipeScritturaEffetto DEF Effetto
  <1>2. Solo(p)
    BY <1>0, <1>1, SoloFatti DEF Cambia
  <1>3. PICK h \in Tubi, f \in Numeri : h = th[p].h /\ f = th[p].fd
    BY <1>0, <1>1 DEF Forma, FormaDi
  <1>4. th'[p].reso = Zitto
    BY <1>0, FinitoReso DEF PipeScrittura, Esiti
  <1>5. ASSUME NEW k \in Tubi, NEW t \in {"R", "W"}
        PROVE  /\ Uno(Tiene(th'[p], k, t)) = 0
               /\ Uno(Tiene(th[p], k, t)) = IF t = "W" /\ k = h THEN 1 ELSE 0
               /\ th[p].st # "chiude" /\ th'[p].st # "chiude"
    BY <1>1, <1>3 DEF Uno, Tiene
  <1>6. CASE find_free_fd(p) # 0
    <2>1. PICK n \in Numeri : n = find_free_fd(p) /\ Tabella(p)[n].tipo = "no"
      BY <1>0, <1>6, NumeroLibero
    <2>2. /\ fdt' = [fdt EXCEPT ![Programma[p]][n] = [tipo |-> "W", h |-> h]]
          /\ UNCHANGED pipe
      BY <1>3, <1>6, <2>1 DEF PipeScrittura
    <2>6. ASSUME NEW k \in Tubi, NEW t \in {"R", "W"}
          PROVE  Capi(k, t)' = Capi(k, t)
      <3>1. PICK x \in Descrittori : x = [tipo |-> "W", h |-> h]
        BY DEF Descrittori
      <3>3. Contato(p, n, x, k, t)
        <4>1. /\ th[p].st = "chiude" => th[p].fd = n
              /\ th'[p].st # "chiude"
              /\ fdt' = [fdt EXCEPT ![Programma[p]][n] = x]
          BY <1>5, <2>2, <3>1
        <4> QED  BY <1>0, <1>1, <1>2, <4>1, ContoScritto, Zenon
      <3>4. Uno(x = [tipo |-> t, h |-> k] /\ th'[p].st # "chiude") = IF t = "W" /\ k = h THEN 1 ELSE 0
        BY <1>5, <3>1 DEF Uno
      <3>5. Uno(Tabella(p)[n] = [tipo |-> t, h |-> k] /\ th[p].st # "chiude") = 0
        BY <2>1 DEF Uno
      <3>9. PICK a \in Nat : a = Capi(k, t)
        BY CapiPoi
      <3> QED  BY <3>3, <3>4, <3>5, <1>5, <3>9 DEF Contato
    <2>7. Passano
      BY <2>2, <2>6, PassaUguale DEF Passano
    <2> QED  BY <1>1, <1>4, <2>7 DEF Tiene2
  <1>7. CASE ~(find_free_fd(p) # 0)
    <2>1. /\ pipe' = Chiuso(Chiuso(pipe, h, "R"), h, "W")
          /\ fdt' = [fdt EXCEPT ![Programma[p]][f] = Libero]
      BY <1>3, <1>7 DEF PipeScrittura
    <2>2. Tabella(p)[f] = [tipo |-> "R", h |-> h]
      BY <1>0, <1>1, <1>3 DEF Posati
    <2>6. ASSUME NEW k \in Tubi, NEW t \in {"R", "W"}
          PROVE  Capi(k, t)' = Capi(k, t) - Uno(k = h)
      <3>1. PICK x \in Descrittori : x = Libero
        BY DEF Descrittori
      <3>3. Contato(p, f, x, k, t)
        <4>1. /\ th[p].st = "chiude" => th[p].fd = f
              /\ th'[p].st # "chiude"
              /\ fdt' = [fdt EXCEPT ![Programma[p]][f] = x]
          BY <1>5, <2>1, <3>1
        <4> QED  BY <1>0, <1>1, <1>2, <4>1, ContoScritto, Zenon
      <3>4. Uno(x = [tipo |-> t, h |-> k] /\ th'[p].st # "chiude") = 0
        BY <3>1 DEF Uno, Libero
      <3>5. Uno(Tabella(p)[f] = [tipo |-> t, h |-> k] /\ th[p].st # "chiude")
              = IF t = "R" /\ k = h THEN 1 ELSE 0
        BY <1>5, <2>2 DEF Uno
      <3>6. Uno(k = h) = IF k = h THEN 1 ELSE 0
        BY DEF Uno
      <3>9. PICK a \in Nat : a = Capi(k, t)
        BY CapiPoi
      <3> QED  BY <3>3, <3>4, <3>5, <3>6, <1>5, <3>9 DEF Contato
    <2>7. Passano
      BY <2>1, <2>6, PassanoRidati
    <2> QED  BY <1>1, <1>4, <2>7 DEF Tiene2
  <1> QED  BY <1>6, <1>7

\* A descriptor nobody is closing is one of the ends that are counted.
LEMMA VivoConta ==
    ASSUME NEW g \in Programmi, NEW n \in Numeri, NEW h, NEW tipo, Vivo(g, n, h, tipo)
    PROVE  Capi(h, tipo) > 0
  <1>1. <<g, n>> \in Vivi(h, tipo)
    BY DEF Vivi
  <1>2. IsFiniteSet(Vivi(h, tipo)) /\ Cardinality(Vivi(h, tipo)) \in Nat
        /\ Cardinality(Presi(h, tipo)) \in Nat
    BY Finiti
  <1>3. Cardinality(Vivi(h, tipo)) # 0
    BY <1>1, <1>2, FS_EmptySet
  <1> QED  BY <1>2, <1>3 DEF Capi

\* sys_dup, the count.
LEMMA DupAprePassa ==
    ASSUME Inv4, "gara" \notin Eventi, NEW p \in Fili, NEW n \in Numeri, DupApre(p, n)
    PROVE  Passano /\ th'[p].reso = Zitto /\ Tiene2(p)
  <1>0. TypeOK /\ Inv2 /\ Soli
    BY DEF Inv4, Tavole, Inv2, Inv1
  <1>1. Effetto(p) /\ AltriPari(p) /\ Indisturbato(p) /\ UNCHANGED fdt /\ th'[p].st = "dup"
    BY <1>0, DupApreEffetto DEF Effetto
  <1>2. Solo(p) /\ th[p].st = "fuori"
    BY <1>0, <1>1, SoloFatti DEF DupApre, InizioChiamata
  <1>3. PICK d \in Descrittori :
           /\ d = Tabella(p)[n] /\ d.tipo \in {"file", "R", "W"}
           /\ d.tipo \in {"R", "W"} => d.h \in Tubi
           /\ d.tipo = "file" => d.h = 0
    BY <1>0, DescrittoreTipo DEF DupApre
  <1>4. th'[p].h = d.h /\ th'[p].op = d.tipo /\ th'[p].fd = n /\ th'[p].reso = Zitto
    <2>1. PICK r : r = [Fuori(Zitto) EXCEPT !.st = "dup", !.op = d.tipo, !.h = d.h,
                                            !.fd = n, !.n = find_free_fd(p)]
      OBVIOUS
    <2>2. r.h = d.h /\ r.op = d.tipo /\ r.fd = n /\ r.reso = Zitto
      BY <2>1 DEF Fuori
    <2>3. th' = [th EXCEPT ![p] = r]
      BY <1>3, <2>1 DEF DupApre
    <2>4. th'[p] = r
      BY <1>0, <2>3 DEF TypeOK
    <2> QED  BY <2>2, <2>4
  <1>5. Tiene2(p)
    <2>1. fdt'[Programma[p]][n] = d
      BY <1>1, <1>3 DEF Tabella
    <2>2. d = [tipo |-> d.tipo, h |-> d.h]
      BY DEF Descrittori, Libero, UnFile
    <2> QED  BY <1>4, <2>1, <2>2 DEF Tiene2
  <1>6. ASSUME NEW k \in Tubi, NEW t \in {"R", "W"}
        PROVE  Capi(k, t)' = Capi(k, t) + Uno(k = d.h /\ t = d.tipo)
    <2>1. Capi(k, t)' = Capi(k, t) + Uno(Tiene(th'[p], k, t)) - Uno(Tiene(th[p], k, t))
      BY <1>1, <1>2, ContoFermo
    <2>2. Uno(Tiene(th[p], k, t)) = 0
      BY <1>2 DEF Tiene, Uno
    <2>3. Uno(Tiene(th'[p], k, t)) = Uno(k = d.h /\ t = d.tipo) /\ Uno(k = d.h /\ t = d.tipo) \in {0, 1}
      BY <1>1, <1>4 DEF Tiene, Uno
    <2>4. PICK a \in Nat : a = Capi(k, t)
      BY CapiPoi
    <2> QED  BY <2>1, <2>2, <2>3, <2>4
  <1>7. pipe' = Aperto(pipe, d.h, d.tipo)
    BY <1>3 DEF DupApre
  <1>8. CASE d.tipo = "file"
    <2>1. UNCHANGED pipe
      BY <1>3, <1>7, <1>8 DEF Aperto
    <2>2. ASSUME NEW k \in Tubi, NEW t \in {"R", "W"} PROVE Capi(k, t)' = Capi(k, t)
      <3>1. Uno(k = d.h /\ t = d.tipo) = 0
        BY <1>8 DEF Uno
      <3>2. PICK a \in Nat : a = Capi(k, t)
        BY CapiPoi
      <3> QED  BY <1>6, <3>1, <3>2
    <2>3. Passano
      BY <2>1, <2>2, PassaUguale DEF Passano
    <2> QED  BY <1>4, <1>5, <2>3
  <1>9. CASE d.tipo \in {"R", "W"}
    <2>1. PICK h \in Tubi, tipo \in {"R", "W"} : h = d.h /\ tipo = d.tipo /\ d = [tipo |-> tipo, h |-> h]
      BY <1>3, <1>9, NonCapo
    <2>2. Capi(h, tipo) > 0
      <3>1. Vivo(Programma[p], n, h, tipo)
        BY <1>2, <1>3, <2>1 DEF Vivo, Solo, Cambia, Tabella
      <3> QED  BY <3>1, VivoConta DEF Programmi
    <2>3. ASSUME NEW k \in Tubi
          PROVE  Passa(pipe[k], Capi(k, "R"), Capi(k, "W"), pipe'[k], Capi(k, "R")', Capi(k, "W")')
      <3>1. /\ pipe[k] \in Anelli /\ Giusto(pipe[k], Capi(k, "R"), Capi(k, "W"))
        BY ContiDi
      <3>2. PICK r \in Nat, w \in Nat, x \in Nat, y \in Nat :
               /\ r = Capi(k, "R") /\ w = Capi(k, "W") /\ x = Capi(k, "R")' /\ y = Capi(k, "W")'
        BY CapiPoi
      <3>3. x = r + Uno(k = h /\ tipo = "R") /\ y = w + Uno(k = h /\ tipo = "W")
        BY <1>6, <2>1, <3>2
      <3>4. PICK P \in [Tubi -> Anelli] : P = pipe
        BY <1>0 DEF TypeOK
      <3>5. Giusto(P[k], r, w)
        BY <3>1, <3>2, <3>4
      <3>6. /\ k = h => pipe'[k] = Aperto(P, h, tipo)[h]
            /\ k # h => pipe'[k] = pipe[k]
        BY <1>7, <2>1, <3>4 DEF Aperto
      <3>7. CASE k = h
        <4>1. /\ tipo = "R" => r > 0
              /\ tipo = "W" => w > 0
              /\ x = IF tipo = "R" THEN r + 1 ELSE r
              /\ y = IF tipo = "W" THEN w + 1 ELSE w
          BY <2>2, <3>2, <3>3, <3>7 DEF Uno
        <4>2. Passa(P[h], r, w, Aperto(P, h, tipo)[h], x, y)
          BY <3>5, <3>7, <4>1, PassaAperto, Zenon
        <4> QED  BY <3>2, <3>4, <3>6, <3>7, <4>2, Zenon
      <3>8. CASE k # h
        <4>1. x = r /\ y = w
          BY <3>3, <3>8 DEF Uno
        <4> QED  BY <3>2, <3>6, <3>8, <4>1, PassaUguale
      <3> QED  BY <3>7, <3>8
    <2> QED  BY <1>4, <1>5, <2>3 DEF Passano
  <1> QED  BY <1>3, <1>8, <1>9

\* sys_dup, the copy.
LEMMA DupPosaPassa ==
    ASSUME Inv4, "gara" \notin Eventi, NEW p \in Fili, DupPosa(p)
    PROVE  Passano /\ th'[p].reso = Zitto /\ Tiene2(p)
  <1>0. TypeOK /\ Inv2 /\ Soli /\ Forma /\ Posati /\ Tenuti
    BY DEF Inv4, Tavole, Inv2, Inv1
  <1>1. Effetto(p) /\ AltriPari(p) /\ th[p].st = "dup" /\ th'[p].st \in {"fuori", "esce"}
    BY <1>0, DupPosaEffetto DEF Effetto
  <1>2. Solo(p)
    BY <1>0, <1>1, SoloFatti DEF Cambia
  <1>3. PICK m \in Numeri, x \in Descrittori :
           /\ m = th[p].n /\ x = Tabella(p)[th[p].fd]
           /\ Tabella(p)[m].tipo = "no" /\ x = [tipo |-> th[p].op, h |-> th[p].h]
    <2>1. th[p].n \in Numeri /\ th[p].fd \in Numeri
      BY <1>0, <1>1 DEF Forma, FormaDi
    <2>2. Tabella(p)[th[p].fd] \in Descrittori
      BY <1>0, <2>1, DescrittoreTipo
    <2> QED  BY <1>0, <1>1, <2>1, <2>2 DEF Posati, Tenuti
  <1>4. fdt' = [fdt EXCEPT ![Programma[p]][m] = x] /\ UNCHANGED pipe
    BY <1>3 DEF DupPosa
  <1>5. th'[p].reso = Zitto
    BY <1>0, FinitoReso DEF DupPosa, Esiti
  <1>6. ASSUME NEW k \in Tubi, NEW t \in {"R", "W"} PROVE Capi(k, t)' = Capi(k, t)
    <2>1. (th[p].st = "chiude" => th[p].fd = m) /\ th'[p].st # "chiude"
      BY <1>1
    <2>2. Contato(p, m, x, k, t)
      BY <1>0, <1>1, <1>2, <1>4, <2>1, ContoScritto, Zenon
    <2>3. Uno(x = [tipo |-> t, h |-> k] /\ th'[p].st # "chiude") = Uno(th[p].op = t /\ th[p].h = k)
      BY <1>3, <2>1 DEF Uno
    <2>4. Uno(Tabella(p)[m] = [tipo |-> t, h |-> k] /\ th[p].st # "chiude") = 0
      BY <1>3 DEF Uno
    <2>5. /\ Uno(Tiene(th[p], k, t)) = Uno(th[p].op = t /\ th[p].h = k)
          /\ Uno(th[p].op = t /\ th[p].h = k) \in {0, 1}
      BY <1>1 DEF Tiene, Uno
    <2>6. Uno(Tiene(th'[p], k, t)) = 0
      BY <1>1 DEF Tiene, Uno
    <2>7. PICK a \in Nat : a = Capi(k, t)
      BY CapiPoi
    <2> QED  BY <2>2, <2>3, <2>4, <2>5, <2>6, <2>7 DEF Contato
  <1>7. Passano
    BY <1>4, <1>6, PassaUguale DEF Passano
  <1> QED  BY <1>1, <1>5, <1>7 DEF Tiene2

\* sys_close, the end.
LEMMA ChiudiPassa ==
    ASSUME Inv4, "gara" \notin Eventi, NEW p \in Fili, NEW n \in Numeri, Chiudi(p, n)
    PROVE  Passano /\ th'[p].reso = Zitto /\ Tiene2(p)
  <1>0. TypeOK /\ Inv2 /\ Soli
    BY DEF Inv4, Tavole, Inv2, Inv1
  <1>1. Effetto(p) /\ AltriPari(p) /\ Indisturbato(p) /\ UNCHANGED fdt /\ th'[p].st = "chiude"
        /\ th'[p].fd = n
    BY <1>0, ChiudiEffetto DEF Effetto
  <1>2. Solo(p) /\ th[p].st = "fuori"
    BY <1>0, <1>1, SoloFatti DEF Chiudi, InizioChiamata
  <1>3. PICK d \in Descrittori :
           /\ d = Tabella(p)[n] /\ d.tipo \in {"file", "R", "W"}
           /\ d.tipo \in {"R", "W"} => d.h \in Tubi
           /\ d.tipo = "file" => d.h = 0
    BY <1>0, DescrittoreTipo DEF Chiudi
  <1>4. th'[p].h = d.h /\ th'[p].op = d.tipo /\ th'[p].reso = Zitto
    <2>1. PICK r : r = [Fuori(Zitto) EXCEPT !.st = "chiude", !.fd = n, !.h = d.h, !.op = d.tipo]
      OBVIOUS
    <2>2. r.h = d.h /\ r.op = d.tipo /\ r.reso = Zitto /\ r.st = "chiude" /\ r \in Quadri
      <3>1. d.h \in Tubi \cup {0}
        BY <1>3
      <3>2. r.h = d.h /\ r.op = d.tipo /\ r.reso = Zitto /\ r.st = "chiude"
        BY <2>1 DEF Fuori
      <3>3. r = [st |-> "chiude", op |-> d.tipo, h |-> d.h, fd |-> n, n |-> 0, nb |-> FALSE, c |-> 0,
                 voci |-> <<>>, tempo |-> "mai", vuole |-> 0, reso |-> Zitto]
        BY <2>1 DEF Fuori
      <3>4. "chiude" \in Luoghi /\ <<>> \in Voci /\ Zitto \in Resi
        BY ZittoTipo DEF Luoghi, Voci
      <3>5. r \in Quadri
        BY <1>3, <3>1, <3>3, <3>4 DEF Quadri
      <3> QED  BY <3>2, <3>5
    <2>3. th' = Desti(Svegliati(d.h, d.tipo), [th EXCEPT ![p] = r])
      BY <1>3, <2>1 DEF Chiudi
    <2>4. th'[p] = r
      BY <1>0, <2>2, <2>3, Muove
    <2> QED  BY <2>2, <2>4
  <1>5. Tiene2(p)
    <2>1. fdt'[Programma[p]][n] = d
      BY <1>1, <1>3 DEF Tabella
    <2>2. d = [tipo |-> d.tipo, h |-> d.h]
      BY DEF Descrittori, Libero, UnFile
    <2> QED  BY <1>1, <1>4, <2>1, <2>2 DEF Tiene2
  <1>6. ASSUME NEW k \in Tubi, NEW t \in {"R", "W"}
        PROVE  Capi(k, t)' = Capi(k, t) - Uno(k = d.h /\ t = d.tipo)
    <2>1. /\ fdt'[Programma[p]][n] = d /\ AltrovePari(Programma[p], n)
          /\ th[p].st = "chiude" => th[p].fd = n
          /\ th'[p].st = "chiude" => th'[p].fd = n
      BY <1>1, <1>2, <1>3 DEF AltrovePari, Tabella
    <2>2. Contato(p, n, d, k, t)
      BY <1>0, <1>1, <1>2, <2>1, ContoUno, Zenon
    <2>3. Uno(d = [tipo |-> t, h |-> k] /\ th'[p].st # "chiude") = 0
      BY <1>1 DEF Uno
    <2>4. /\ Uno(Tabella(p)[n] = [tipo |-> t, h |-> k] /\ th[p].st # "chiude") = Uno(k = d.h /\ t = d.tipo)
          /\ Uno(k = d.h /\ t = d.tipo) \in {0, 1}
      BY <1>2, <1>3, NonCapo DEF Uno
    <2>5. Uno(Tiene(th'[p], k, t)) = 0 /\ Uno(Tiene(th[p], k, t)) = 0
      BY <1>1, <1>2 DEF Tiene, Uno
    <2>6. PICK a \in Nat : a = Capi(k, t)
      BY CapiPoi
    <2> QED  BY <2>2, <2>3, <2>4, <2>5, <2>6 DEF Contato
  <1>7. pipe' = Chiuso(pipe, d.h, d.tipo)
    BY <1>3 DEF Chiudi
  <1>8. CASE d.tipo = "file"
    <2>1. UNCHANGED pipe
      BY <1>3, <1>7, <1>8 DEF Chiuso
    <2>2. ASSUME NEW k \in Tubi, NEW t \in {"R", "W"} PROVE Capi(k, t)' = Capi(k, t)
      <3>1. Uno(k = d.h /\ t = d.tipo) = 0
        BY <1>8 DEF Uno
      <3>2. PICK a \in Nat : a = Capi(k, t)
        BY CapiPoi
      <3> QED  BY <1>6, <3>1, <3>2
    <2>3. Passano
      BY <2>1, <2>2, PassaUguale DEF Passano
    <2> QED  BY <1>4, <1>5, <2>3
  <1>9. CASE d.tipo \in {"R", "W"}
    <2>1. PICK h \in Tubi, tipo \in {"R", "W"} : h = d.h /\ tipo = d.tipo
      BY <1>3, <1>9
    <2>2. \A k \in Tubi, t \in {"R", "W"} : Capi(k, t)' = Capi(k, t) - Uno(k = h /\ t = tipo)
      BY <1>6, <2>1
    <2>3. Passano
      BY <1>7, <2>1, <2>2, PassanoChiuso
    <2> QED  BY <1>4, <1>5, <2>3
  <1> QED  BY <1>3, <1>8, <1>9

\* sys_close, the number.
LEMMA ChiudiPosaPassa ==
    ASSUME Inv4, "gara" \notin Eventi, NEW p \in Fili, ChiudiPosa(p)
    PROVE  Passano /\ th'[p].reso = Zitto /\ Tiene2(p)
  <1>0. TypeOK /\ Inv2 /\ Soli /\ Forma
    BY DEF Inv4, Tavole, Inv2, Inv1
  <1>1. Effetto(p) /\ AltriPari(p) /\ th[p].st = "chiude" /\ th'[p].st \in {"fuori", "esce"}
    BY <1>0, ChiudiPosaEffetto DEF Effetto
  <1>2. Solo(p)
    BY <1>0, <1>1, SoloFatti DEF Cambia
  <1>3. PICK m \in Numeri, x \in Descrittori : m = th[p].fd /\ x = Libero
    BY <1>0, <1>1 DEF Forma, FormaDi, Descrittori
  <1>4. fdt' = [fdt EXCEPT ![Programma[p]][m] = x] /\ UNCHANGED pipe
    BY <1>3 DEF ChiudiPosa
  <1>5. th'[p].reso = Zitto
    BY <1>0, FinitoReso DEF ChiudiPosa, Esiti
  <1>6. ASSUME NEW k \in Tubi, NEW t \in {"R", "W"} PROVE Capi(k, t)' = Capi(k, t)
    <2>1. (th[p].st = "chiude" => th[p].fd = m) /\ th'[p].st # "chiude"
      BY <1>1, <1>3
    <2>2. Contato(p, m, x, k, t)
      BY <1>0, <1>1, <1>2, <1>4, <2>1, ContoScritto, Zenon
    <2>3. Uno(x = [tipo |-> t, h |-> k] /\ th'[p].st # "chiude") = 0
      BY <1>3 DEF Uno, Libero
    <2>4. Uno(Tabella(p)[m] = [tipo |-> t, h |-> k] /\ th[p].st # "chiude") = 0
      BY <1>1 DEF Uno
    <2>5. Uno(Tiene(th[p], k, t)) = 0 /\ Uno(Tiene(th'[p], k, t)) = 0
      BY <1>1 DEF Tiene, Uno
    <2>7. PICK a \in Nat : a = Capi(k, t)
      BY CapiPoi
    <2> QED  BY <2>2, <2>3, <2>4, <2>5, <2>7 DEF Contato
  <1>7. Passano
    BY <1>4, <1>6, PassaUguale DEF Passano
  <1> QED  BY <1>1, <1>5, <1>7 DEF Tiene2

\* A set of descriptors with those of one more program.
LEMMA ContaGruppo ==
    ASSUME NEW V, NEW W, NEW g, NEW Q, IsFiniteSet(V), IsFiniteSet(Q),
           \A n \in Q : <<g, n>> \notin V, W = V \cup {<<g, n>> : n \in Q}
    PROVE  /\ Cardinality(W) = Cardinality(V) + Cardinality(Q)
           /\ Cardinality(V) \in Nat /\ Cardinality(Q) \in Nat
  <1>1. PICK G : G = {<<g, n>> : n \in Q}
    OBVIOUS
  <1>2. IsFiniteSet(G) /\ Cardinality(G) = Cardinality(Q)
    BY <1>1, ContaCoppie
  <1>3. V \cap G = {} /\ W = V \cup G
    BY <1>1
  <1>4. Cardinality(V \cup G) = Cardinality(V) + Cardinality(G) - Cardinality(V \cap G)
    BY <1>2, FS_Union
  <1>5. Cardinality(V \cap G) = 0
    BY <1>3, FS_EmptySet
  <1>6. Cardinality(V) \in Nat /\ Cardinality(Q) \in Nat
    BY FS_CardinalityType
  <1> QED  BY <1>2, <1>3, <1>4, <1>5, <1>6

\* The numbers that are an end of pipe h in a table like f.
SuoiCapi(f, h, tipo) == {n \in Numeri : f[n] = [tipo |-> tipo, h |-> h]}

\* The ends in one table can be counted.
LEMMA SuoiCapiFatti ==
    ASSUME NEW f, NEW h, NEW tipo \in {"R", "W"}
    PROVE  /\ IsFiniteSet(SuoiCapi(f, h, tipo)) /\ Cardinality(SuoiCapi(f, h, tipo)) \in Nat
           /\ {n \in {m \in Numeri : f[m].tipo # "no"} : f[n] = [tipo |-> tipo, h |-> h]}
                = SuoiCapi(f, h, tipo)
  <1>1. SuoiCapi(f, h, tipo) \in SUBSET Numeri
    BY DEF SuoiCapi
  <1>2. IsFiniteSet(SuoiCapi(f, h, tipo))
    BY <1>1, MisureTubi, FS_Subset
  <1>3. {n \in {m \in Numeri : f[m].tipo # "no"} : f[n] = [tipo |-> tipo, h |-> h]}
          = SuoiCapi(f, h, tipo)
    BY DEF SuoiCapi
  <1> QED  BY <1>2, <1>3, FS_CardinalityType

\* Threads that are in no change of their tables before and after, and others
\* that hold what they held, hold the same ends.
LEMMA PresiPari ==
    ASSUME NEW h, NEW tipo,
           \A q \in Fili : \/ th'[q].st = th[q].st /\ th'[q].h = th[q].h /\ th'[q].op = th[q].op
                           \/ th[q].st \notin Cambia /\ th'[q].st \notin Cambia
    PROVE  Presi(h, tipo)' = Presi(h, tipo)
  <1>1. ASSUME NEW q \in Fili PROVE Tiene(th'[q], h, tipo) <=> Tiene(th[q], h, tipo)
    BY DEF Tiene, Cambia
  <1>2. Presi(h, tipo)' = {q \in Fili : Tiene(th'[q], h, tipo)}
    BY DEF Presi
  <1> QED  BY <1>1, <1>2 DEF Presi

\* A descriptor of a program, before and after.
LEMMA ViviPoi ==
    ASSUME NEW h, NEW tipo, NEW d
    PROVE  /\ d \in Vivi(h, tipo) <=> d \in Programmi \X Numeri /\ Vivo(d[1], d[2], h, tipo)
           /\ d \in Vivi(h, tipo)' <=> d \in Programmi \X Numeri /\ Vivo(d[1], d[2], h, tipo)'
  <1>1. d \in Vivi(h, tipo) <=> d \in Programmi \X Numeri /\ Vivo(d[1], d[2], h, tipo)
    BY DEF Vivi
  <1>2. d \in Vivi(h, tipo)' <=> d \in Programmi \X Numeri /\ Vivo(d[1], d[2], h, tipo)'
    BY DEF Vivi
  <1> QED  BY <1>1, <1>2

\* sys_fork counts every descriptor of the child.
LEMMA ForkConto ==
    ASSUME Inv4, "gara" \notin Eventi, NEW p \in Fili, NEW g \in Programmi, Fork(p, g),
           NEW h, NEW tipo \in {"R", "W"}
    PROVE  /\ Capi(h, tipo)' = Capi(h, tipo) + Cardinality(SuoiCapi(Tabella(p), h, tipo))
           /\ Cardinality(SuoiCapi(Tabella(p), h, tipo)) > 0 => Capi(h, tipo) > 0
  <1>0. TypeOK /\ Inv2 /\ Soli /\ NonNati
    BY DEF Inv4, Tavole, Inv2, Inv1
  <1>1. /\ g # Programma[p] /\ fdt' = [fdt EXCEPT ![g] = Tabella(p)]
        /\ \A q \in Fili : Programma[q] = g => th[q].st = "non nato"
        /\ \A q \in Fili : \/ th'[q] = th[q] /\ Programma[q] # g /\ q # p
                           \/ th'[q].st \in {"fuori", "esce"}
    BY <1>0, ForkEffetto
  <1>2. th[p].st = "fuori" /\ Solo(p)
    BY <1>0, SoloFatti DEF Fork, InizioChiamata
  <1>3. \A q \in Fili : th'[q] = th[q] \/ q = p \/ Programma[q] = g
    BY DEF Fork
  <1>4. \A q \in Fili : \/ th'[q] = th[q]
                        \/ th[q].st \notin Cambia /\ th'[q].st \notin Cambia
    BY <1>1, <1>2, <1>3 DEF Cambia
  <1>5. Presi(h, tipo)' = Presi(h, tipo)
    BY <1>4, PresiPari
  <1>6. PICK Q : Q = SuoiCapi(Tabella(p), h, tipo)
    OBVIOUS
  <1>7. \A n \in Numeri : fdt[g][n] = Libero
    <2>1. PICK q \in Fili : Programma[q] = g
      BY DEF Programmi
    <2> QED  BY <1>0, <1>1, <2>1 DEF NonNati, Tabella
  <1>8. \A k \in Programmi, n \in Numeri : fdt'[k][n] = IF k = g THEN Tabella(p)[n] ELSE fdt[k][n]
    BY <1>0, <1>1 DEF TypeOK
  <1>9. ASSUME NEW k \in Programmi, NEW n \in Numeri
        PROVE  /\ Vivo(k, n, h, tipo)' <=> Vivo(k, n, h, tipo) \/ (k = g /\ n \in Q)
               /\ k = g => ~Vivo(k, n, h, tipo)
    <2>1. (\A q \in Fili : th'[q].st = "chiude" /\ Programma[q] = k => th'[q].fd # n)
            <=> (\A q \in Fili : th[q].st = "chiude" /\ Programma[q] = k => th[q].fd # n)
      BY <1>4 DEF Cambia
    <2>2. k = g => ~Vivo(k, n, h, tipo)
      BY <1>7 DEF Vivo, Libero
    <2>3. k # g => (Vivo(k, n, h, tipo)' <=> Vivo(k, n, h, tipo))
      BY <1>8, <2>1 DEF Vivo
    <2>4. k = g => \A q \in Fili : th[q].st = "chiude" /\ Programma[q] = k => th[q].fd # n
      BY <1>1
    <2>5. k = g => (Vivo(k, n, h, tipo)' <=> n \in Q)
      BY <1>6, <1>8, <2>1, <2>4 DEF Vivo, SuoiCapi
    <2> QED  BY <2>2, <2>3, <2>5
  <1>10. Vivi(h, tipo)' = Vivi(h, tipo) \cup {<<g, n>> : n \in Q}
    <2>1. Q \subseteq Numeri
      BY <1>6 DEF SuoiCapi
    <2>2. ASSUME NEW k \in Programmi, NEW n \in Numeri
          PROVE  <<k, n>> \in Vivi(h, tipo)' <=> <<k, n>> \in Vivi(h, tipo) \cup {<<g, m>> : m \in Q}
      <3>1. /\ <<k, n>> \in Vivi(h, tipo) <=> Vivo(k, n, h, tipo)
            /\ <<k, n>> \in Vivi(h, tipo)' <=> Vivo(k, n, h, tipo)'
        BY ViviPoi
      <3>2. <<k, n>> \in {<<g, m>> : m \in Q} <=> k = g /\ n \in Q
        OBVIOUS
      <3> QED  BY <1>9, <3>1, <3>2
    <2>3. /\ Vivi(h, tipo)' \subseteq Programmi \X Numeri
          /\ Vivi(h, tipo) \subseteq Programmi \X Numeri
          /\ {<<g, m>> : m \in Q} \subseteq Programmi \X Numeri
      BY <2>1 DEF Vivi
    <2> QED  BY <2>2, <2>3
  <1>11. \A n \in Q : <<g, n>> \notin Vivi(h, tipo)
    BY <1>6, <1>9, ViviPoi DEF SuoiCapi
  <1>12. IsFiniteSet(Vivi(h, tipo)) /\ Cardinality(Presi(h, tipo)) \in Nat /\ IsFiniteSet(Q)
    BY <1>6, Finiti, SuoiCapiFatti
  <1>13. /\ Cardinality(Vivi(h, tipo)') = Cardinality(Vivi(h, tipo)) + Cardinality(Q)
         /\ Cardinality(Vivi(h, tipo)) \in Nat /\ Cardinality(Q) \in Nat
    <2>1. PICK V, W : V = Vivi(h, tipo) /\ W = Vivi(h, tipo)'
      OBVIOUS
    <2> QED  BY <1>10, <1>11, <1>12, <2>1, ContaGruppo
  <1>14. Capi(h, tipo)' = Cardinality(Vivi(h, tipo)') + Cardinality(Presi(h, tipo)')
    BY DEF Capi
  <1>15. Capi(h, tipo)' = Capi(h, tipo) + Cardinality(Q)
    BY <1>5, <1>12, <1>13, <1>14 DEF Capi
  <1>16. ASSUME Cardinality(Q) > 0 PROVE Capi(h, tipo) > 0
    <2>1. PICK n \in Q : TRUE
      BY <1>16, FS_EmptySet
    <2>2. n \in Numeri /\ Tabella(p)[n] = [tipo |-> tipo, h |-> h] /\ Programma[p] \in Programmi
      BY <1>6 DEF SuoiCapi, Programmi
    <2>3. Vivo(Programma[p], n, h, tipo)
      BY <1>2, <2>2 DEF Vivo, Tabella, Solo, Cambia
    <2> QED  BY <2>2, <2>3, VivoConta
  <1> QED  BY <1>6, <1>15, <1>16

\* proc_exit takes away every descriptor of the program.
LEMMA EsceConto ==
    ASSUME Inv4, "gara" \notin Eventi, NEW p \in Fili, Esce(p), NEW h, NEW tipo \in {"R", "W"}
    PROVE  Capi(h, tipo) = Capi(h, tipo)' + Cardinality(SuoiCapi(Tabella(p), h, tipo))
  <1>0. TypeOK /\ Inv2 /\ Soli
    BY DEF Inv4, Tavole, Inv2, Inv1
  <1>1. PICK g \in Programmi : g = Programma[p]
    BY DEF Programmi
  <1>2. /\ fdt' = [fdt EXCEPT ![g] = [n \in Numeri |-> Libero]]
        /\ \A q \in Fili : Programma[q] = g => th'[q].st = "morto"
        /\ \A q \in Fili : Programma[q] # g =>
             /\ th'[q].op = th[q].op /\ th'[q].h = th[q].h /\ th'[q].fd = th[q].fd
             /\ th'[q].st = th[q].st \/ (th[q].st = "dorme" /\ th'[q].st = "desto")
    BY <1>0, <1>1, EsceEffetto
  <1>3. th[p].st \in {"esce", "fuori"} /\ Solo(p)
    BY <1>0, SoloFatti DEF Esce, InizioChiamata
  <1>4. \A q \in Fili : Programma[q] = g => th[q].st \notin Cambia
    BY <1>1, <1>3 DEF Solo, Cambia
  <1>5. \A q \in Fili : \/ th'[q].st = th[q].st /\ th'[q].h = th[q].h /\ th'[q].op = th[q].op
                           /\ th'[q].fd = th[q].fd
                        \/ th[q].st \notin Cambia /\ th'[q].st \notin Cambia
    BY <1>2, <1>4 DEF Cambia
  <1>6. Presi(h, tipo)' = Presi(h, tipo)
    BY <1>5, PresiPari
  <1>7. PICK Q : Q = SuoiCapi(Tabella(p), h, tipo)
    OBVIOUS
  <1>8. \A k \in Programmi, n \in Numeri : fdt'[k][n] = IF k = g THEN Libero ELSE fdt[k][n]
    BY <1>0, <1>2 DEF TypeOK
  <1>9. ASSUME NEW k \in Programmi, NEW n \in Numeri
        PROVE  /\ Vivo(k, n, h, tipo) <=> Vivo(k, n, h, tipo)' \/ (k = g /\ n \in Q)
               /\ k = g => ~Vivo(k, n, h, tipo)'
    <2>1. (\A q \in Fili : th'[q].st = "chiude" /\ Programma[q] = k => th'[q].fd # n)
            <=> (\A q \in Fili : th[q].st = "chiude" /\ Programma[q] = k => th[q].fd # n)
      BY <1>5 DEF Cambia
    <2>2. k = g => ~Vivo(k, n, h, tipo)'
      BY <1>8 DEF Vivo, Libero
    <2>3. k # g => (Vivo(k, n, h, tipo)' <=> Vivo(k, n, h, tipo))
      BY <1>8, <2>1 DEF Vivo
    <2>4. k = g => \A q \in Fili : th[q].st = "chiude" /\ Programma[q] = k => th[q].fd # n
      BY <1>4 DEF Cambia
    <2>5. k = g => (Vivo(k, n, h, tipo) <=> n \in Q)
      BY <1>1, <1>7, <2>4 DEF Vivo, SuoiCapi, Tabella
    <2> QED  BY <2>2, <2>3, <2>5
  <1>10. Vivi(h, tipo) = Vivi(h, tipo)' \cup {<<g, n>> : n \in Q}
    <2>1. Q \subseteq Numeri
      BY <1>7 DEF SuoiCapi
    <2>2. ASSUME NEW k \in Programmi, NEW n \in Numeri
          PROVE  <<k, n>> \in Vivi(h, tipo) <=> <<k, n>> \in Vivi(h, tipo)' \cup {<<g, m>> : m \in Q}
      <3>1. /\ <<k, n>> \in Vivi(h, tipo) <=> Vivo(k, n, h, tipo)
            /\ <<k, n>> \in Vivi(h, tipo)' <=> Vivo(k, n, h, tipo)'
        BY ViviPoi
      <3>2. <<k, n>> \in {<<g, m>> : m \in Q} <=> k = g /\ n \in Q
        OBVIOUS
      <3> QED  BY <1>9, <3>1, <3>2
    <2>3. /\ Vivi(h, tipo)' \subseteq Programmi \X Numeri
          /\ Vivi(h, tipo) \subseteq Programmi \X Numeri
          /\ {<<g, m>> : m \in Q} \subseteq Programmi \X Numeri
      BY <2>1 DEF Vivi
    <2> QED  BY <2>2, <2>3
  <1>11. \A n \in Q : <<g, n>> \notin Vivi(h, tipo)'
    BY <1>7, <1>9, ViviPoi DEF SuoiCapi
  <1>12. IsFiniteSet(Vivi(h, tipo)) /\ Cardinality(Presi(h, tipo)) \in Nat /\ IsFiniteSet(Q)
    BY <1>7, Finiti, SuoiCapiFatti
  <1>13. IsFiniteSet(Vivi(h, tipo)')
    BY <1>10, <1>12, FS_Subset
  <1>14. /\ Cardinality(Vivi(h, tipo)) = Cardinality(Vivi(h, tipo)') + Cardinality(Q)
         /\ Cardinality(Vivi(h, tipo)') \in Nat /\ Cardinality(Q) \in Nat
    <2>1. PICK V, W : V = Vivi(h, tipo)' /\ W = Vivi(h, tipo)
      OBVIOUS
    <2> QED  BY <1>10, <1>11, <1>12, <1>13, <2>1, ContaGruppo
  <1>15. Capi(h, tipo)' = Cardinality(Vivi(h, tipo)') + Cardinality(Presi(h, tipo)')
    BY DEF Capi
  <1> QED  BY <1>6, <1>7, <1>12, <1>14, <1>15 DEF Capi

\* A pipe given up.
LEMMA PassaVergine ==
    ASSUME NEW d, NEW r, NEW w, NEW e \in Anelli
    PROVE  Passa(d, r, w, Vergine(e), 0, 0)
  <1>1. PICK B \in [0 .. Dim - 1 -> Byte] :
           Vergine(e) = [usata |-> FALSE, testa |-> 0, quanti |-> 0, lettori |-> 0,
                         scrittori |-> 0, buf |-> B]
    BY VergineCampi
  <1>2. Giusto(Vergine(e), 0, 0)
    BY <1>1, MisureTubi DEF Giusto
  <1>3. CodaDi(Vergine(e)) = <<>>
    BY <1>1, CodaVuota DEF CodaDi
  <1> QED  BY <1>2, <1>3 DEF Passa

\* sys_fork.
LEMMA ForkPassa ==
    ASSUME Inv4, "gara" \notin Eventi, NEW p \in Fili, NEW g \in Programmi, Fork(p, g)
    PROVE  Passano /\ Tacciono /\ Tenuti' /\ NonNati' /\ Domande'
  <1>0. TypeOK /\ Inv2 /\ Soli /\ NonNati /\ Tenuti /\ Domande
    BY DEF Inv4, Tavole, Inv2, Inv1
  <1>1. /\ g # Programma[p] /\ fdt' = [fdt EXCEPT ![g] = Tabella(p)]
        /\ \A q \in Fili : \/ th'[q] = th[q] /\ Programma[q] # g /\ q # p
                           \/ th'[q].st \in {"fuori", "esce"} /\ th'[q].reso = Zitto
    <2>1. /\ g # Programma[p] /\ fdt' = [fdt EXCEPT ![g] = Tabella(p)]
          /\ \A q \in Fili : \/ th'[q] = th[q] /\ Programma[q] # g /\ q # p
                             \/ /\ th'[q].st \in {"fuori", "esce"} /\ th'[q].op = "no"
                                /\ th'[q].reso = Zitto
      BY <1>0, ForkEffetto, Zenon
    <2> QED  BY <2>1
  <1>2. Tacciono
    BY <1>1 DEF Tacciono
  <1>3. \A q \in Fili : Programma[q] # g => fdt'[Programma[q]] = fdt[Programma[q]]
    BY <1>0, <1>1 DEF TypeOK, Programmi
  <1>4. Tenuti'
    BY <1>0, <1>1, <1>3 DEF Tenuti, Tabella
  <1>5. NonNati'
    <2>1. \A q \in Fili : th'[q].st = "non nato" => th[q].st = "non nato" /\ Programma[q] # g
      BY <1>1
    <2>2. \A q \in Fili : th[q].st = "non nato" /\ Programma[q] # g => th'[q].st = "non nato"
      <3>1. th[p].st = "fuori"
        BY DEF Fork, InizioChiamata
      <3> QED  BY <3>1 DEF Fork
    <2> QED  BY <1>0, <1>3, <2>1, <2>2 DEF NonNati, Tabella
  <1>6. ASSUME NEW k \in Tubi
        PROVE  Passa(pipe[k], Capi(k, "R"), Capi(k, "W"), pipe'[k], Capi(k, "R")', Capi(k, "W")')
    <2>1. pipe[k] \in Anelli /\ Giusto(pipe[k], Capi(k, "R"), Capi(k, "W"))
      BY ContiDi
    <2>2. PICK d \in Anelli, r \in Nat, w \in Nat, a \in Nat, b \in Nat :
             /\ d = pipe[k] /\ r = Capi(k, "R") /\ w = Capi(k, "W")
             /\ a = Cardinality(SuoiCapi(Tabella(p), k, "R"))
             /\ b = Cardinality(SuoiCapi(Tabella(p), k, "W"))
      BY <2>1, CapiPoi, SuoiCapiFatti
    <2>3. /\ Capi(k, "R")' = r + a /\ (a > 0 => r > 0)
          /\ Capi(k, "W")' = w + b /\ (b > 0 => w > 0)
      BY <2>2, ForkConto
    <2>4. pipe'[k] = IF ~d.usata THEN d
                     ELSE [d EXCEPT !.lettori = d.lettori + a, !.scrittori = d.scrittori + b]
      <3>1. /\ {n \in {m \in Numeri : Tabella(p)[m].tipo # "no"} : Tabella(p)[n] = [tipo |-> "R", h |-> k]}
                 = SuoiCapi(Tabella(p), k, "R")
            /\ {n \in {m \in Numeri : Tabella(p)[m].tipo # "no"} : Tabella(p)[n] = [tipo |-> "W", h |-> k]}
                 = SuoiCapi(Tabella(p), k, "W")
        BY SuoiCapiFatti
      <3>2. pipe'[k] = IF ~pipe[k].usata THEN pipe[k]
                       ELSE [pipe[k] EXCEPT
                  !.lettori = @ + Cardinality({n \in {m \in Numeri : Tabella(p)[m].tipo # "no"} :
                                                 Tabella(p)[n] = [tipo |-> "R", h |-> k]}),
                  !.scrittori = @ + Cardinality({n \in {m \in Numeri : Tabella(p)[m].tipo # "no"} :
                                                 Tabella(p)[n] = [tipo |-> "W", h |-> k]})]
        BY DEF Fork
      <3> QED  BY <2>2, <3>1, <3>2
    <2>5. Giusto(d, r, w)
      BY <2>1, <2>2
    <2>6. CASE d.usata
      <3>1. PICK x \in Nat, y \in Nat : x = r + a /\ y = w + b
        BY <2>2
      <3>2. d.lettori = r /\ d.scrittori = w /\ r + w > 0
        BY <2>5, <2>6 DEF Giusto
      <3>3. (x > 0 => r > 0) /\ (y > 0 => w > 0) /\ ~(x = 0 /\ y = 0)
        BY <2>3, <3>1, <3>2
      <3>4. PICK e : e = [d EXCEPT !.lettori = x, !.scrittori = y]
        OBVIOUS
      <3>5. e = IF x = 0 /\ y = 0 THEN Vergine(e) ELSE e
        BY <3>3
      <3>6. Passa(d, r, w, e, x, y)
        BY <2>5, <2>6, <3>3, <3>4, <3>5, PassaConti, Zenon
      <3>7. pipe'[k] = e
        BY <2>4, <2>6, <3>1, <3>2, <3>4
      <3> QED  BY <2>2, <2>3, <3>1, <3>6, <3>7
    <2>7. CASE ~d.usata
      <3>1. r = 0 /\ w = 0
        BY <2>5, <2>7 DEF Giusto
      <3>2. a = 0 /\ b = 0
        BY <2>2, <2>3, <3>1
      <3>3. Capi(k, "R")' = Capi(k, "R") /\ Capi(k, "W")' = Capi(k, "W") /\ pipe'[k] = pipe[k]
        BY <2>2, <2>3, <2>4, <2>7, <3>2
      <3> QED  BY <3>3, PassaUguale
    <2> QED  BY <2>6, <2>7
  <1>7. Domande'
    <2>1. \A q \in Fili : th'[q] = th[q] \/ th'[q].op = "no"
      BY <1>0, ForkEffetto
    <2> QED  BY <1>0, <2>1 DEF Domande, Domanda
  <1> QED  BY <1>2, <1>4, <1>5, <1>6, <1>7 DEF Passano

\* proc_exit.
LEMMA EscePassa ==
    ASSUME Inv4, "gara" \notin Eventi, NEW p \in Fili, Esce(p)
    PROVE  Passano /\ Tacciono /\ Tenuti' /\ NonNati' /\ Domande'
  <1>0. TypeOK /\ Inv2 /\ Soli /\ NonNati /\ Tenuti /\ Domande
    BY DEF Inv4, Tavole, Inv2, Inv1
  <1>1. PICK g \in Programmi : g = Programma[p]
    BY DEF Programmi
  <1>2. /\ fdt' = [fdt EXCEPT ![g] = [n \in Numeri |-> Libero]]
        /\ \A q \in Fili : Programma[q] = g => th'[q].st = "morto" /\ th'[q].reso = Zitto
        /\ \A q \in Fili : Programma[q] # g =>
             /\ th'[q].op = th[q].op /\ th'[q].h = th[q].h /\ th'[q].fd = th[q].fd
             /\ th'[q].reso = th[q].reso
             /\ th'[q].st = th[q].st \/ (th[q].st = "dorme" /\ th'[q].st = "desto")
    BY <1>0, <1>1, EsceEffetto
  <1>3. Tacciono
    BY <1>2 DEF Tacciono
  <1>4. \A q \in Fili : Programma[q] # g => fdt'[Programma[q]] = fdt[Programma[q]]
    BY <1>0, <1>2 DEF TypeOK, Programmi
  <1>5. Tenuti'
    BY <1>0, <1>2, <1>4 DEF Tenuti, Tabella
  <1>6. NonNati'
    <2>1. \A q \in Fili : th'[q].st = "non nato" => th[q].st = "non nato" /\ Programma[q] # g
      BY <1>2
    <2>2. \A q \in Fili : th[q].st = "non nato" /\ Programma[q] # g => th'[q].st = "non nato"
      BY <1>2
    <2> QED  BY <1>0, <1>4, <2>1, <2>2 DEF NonNati, Tabella
  <1>7. ASSUME NEW k \in Tubi
        PROVE  Passa(pipe[k], Capi(k, "R"), Capi(k, "W"), pipe'[k], Capi(k, "R")', Capi(k, "W")')
    <2>1. pipe[k] \in Anelli /\ Giusto(pipe[k], Capi(k, "R"), Capi(k, "W"))
      BY ContiDi
    <2>2. PICK d \in Anelli, r \in Nat, w \in Nat, x \in Nat, y \in Nat, a \in Nat, b \in Nat :
             /\ d = pipe[k] /\ r = Capi(k, "R") /\ w = Capi(k, "W")
             /\ x = Capi(k, "R")' /\ y = Capi(k, "W")'
             /\ a = Cardinality(SuoiCapi(Tabella(p), k, "R"))
             /\ b = Cardinality(SuoiCapi(Tabella(p), k, "W"))
      BY <2>1, CapiPoi, SuoiCapiFatti
    <2>3. r = x + a /\ w = y + b
      BY <2>2, EsceConto
    <2>4. PICK e : e = [d EXCEPT !.lettori = IF d.lettori > a THEN d.lettori - a ELSE 0,
                                 !.scrittori = IF d.scrittori > b THEN d.scrittori - b ELSE 0]
      OBVIOUS
    <2>5. pipe'[k] = IF e.lettori = 0 /\ e.scrittori = 0 THEN Vergine(e) ELSE e
      <3>1. /\ {n \in {m \in Numeri : Tabella(p)[m].tipo # "no"} : Tabella(p)[n] = [tipo |-> "R", h |-> k]}
                 = SuoiCapi(Tabella(p), k, "R")
            /\ {n \in {m \in Numeri : Tabella(p)[m].tipo # "no"} : Tabella(p)[n] = [tipo |-> "W", h |-> k]}
                 = SuoiCapi(Tabella(p), k, "W")
        BY SuoiCapiFatti
      <3> DEFINE A == Cardinality({n \in {m \in Numeri : Tabella(p)[m].tipo # "no"} :
                                     Tabella(p)[n] = [tipo |-> "R", h |-> k]})
                 B == Cardinality({n \in {m \in Numeri : Tabella(p)[m].tipo # "no"} :
                                     Tabella(p)[n] = [tipo |-> "W", h |-> k]})
                 E == [pipe[k] EXCEPT !.lettori = IF @ > A THEN @ - A ELSE 0,
                                      !.scrittori = IF @ > B THEN @ - B ELSE 0]
      <3>2. pipe'[k] = IF E.lettori = 0 /\ E.scrittori = 0 THEN Vergine(E) ELSE E
        BY DEF Esce
      <3>3. A = a /\ B = b
        BY <2>2, <3>1
      <3>4. E = e
        BY <2>2, <2>4, <3>3
      <3> QED  BY <3>2, <3>4
    <2>6. Giusto(d, r, w)
      BY <2>1, <2>2
    <2>7. d.lettori = r /\ d.scrittori = w
      BY <2>6 DEF Giusto
    <2>8. e = [d EXCEPT !.lettori = x, !.scrittori = y] /\ e.lettori = x /\ e.scrittori = y
      <3>1. /\ x = (IF d.lettori > a THEN d.lettori - a ELSE 0)
            /\ y = (IF d.scrittori > b THEN d.scrittori - b ELSE 0)
        BY <2>3, <2>7
      <3>2. e = [d EXCEPT !.lettori = x, !.scrittori = y]
        BY <2>4, <3>1
      <3> QED  BY <3>2 DEF Anelli
    <2>9. CASE d.usata
      <3>1. (x > 0 => r > 0) /\ (y > 0 => w > 0)
        BY <2>3
      <3>2. PICK d2 : d2 = IF x = 0 /\ y = 0 THEN Vergine(e) ELSE e
        OBVIOUS
      <3>3. Passa(d, r, w, d2, x, y)
        BY <2>6, <2>8, <2>9, <3>1, <3>2, PassaConti, Zenon
      <3>4. pipe'[k] = d2
        BY <2>5, <2>8, <3>2
      <3> QED  BY <2>2, <3>3, <3>4
    <2>10. CASE ~d.usata
      <3>1. r = 0 /\ w = 0
        BY <2>6, <2>10 DEF Giusto
      <3>2. x = 0 /\ y = 0
        BY <2>3, <3>1
      <3>3. e \in Anelli /\ pipe'[k] = Vergine(e)
        <4>1. e \in Anelli
          BY <2>8 DEF Anelli
        <4> QED  BY <2>5, <2>8, <3>2, <4>1
      <3>4. Passa(d, r, w, Vergine(e), 0, 0)
        BY <3>3, PassaVergine
      <3> QED  BY <2>2, <3>2, <3>3, <3>4
    <2> QED  BY <2>9, <2>10
  <1>8. Domande'
    <2>1. \A q \in Fili : \/ th'[q].op = "no"
                          \/ /\ th'[q].op = th[q].op /\ th'[q].n = th[q].n
                             /\ th'[q].st = th[q].st \/ (th[q].st = "dorme" /\ th'[q].st = "desto")
      BY <1>0, EsceEffetto
    <2> QED  BY <1>0, <2>1 DEF Domande, Domanda
  <1> QED  BY <1>3, <1>5, <1>6, <1>7, <1>8 DEF Passano

-----------------------------------------------------------------------------
(* The steps that touch neither a pipe nor a table.                        *)

\* Thread p goes on with its call, begins one, or is told that it cannot go on.
Quieto(p) ==
    /\ UNCHANGED <<pipe, fdt>>
    /\ th[p].st \notin Cambia \cup {"non nato"} /\ th'[p].st \notin Cambia \cup {"non nato"}
    /\ Domanda(th'[p])
    /\ \/ th'[p].reso \in {th[p].reso, Zitto}
       \/ \E che \in {"altro", "pronto"} : th'[p].reso = [che |-> che, dati |-> <<>>]

\* A call that ends.
LEMMA FinisceQuieto ==
    ASSUME Inv4, NEW p \in Fili, th[p].st \notin Cambia \cup {"non nato"}, UNCHANGED <<pipe, fdt>>,
           NEW che \in {"altro", "pronto"}, th' = Finisce(p, che)
    PROVE  Quieto(p)
  <1>0. TypeOK /\ che \in Esiti
    BY DEF Inv4, Tavole, Inv2, Inv1, Esiti
  <1>1. th'[p].st \in {"fuori", "esce"} /\ th'[p].op = "no"
    BY <1>0, FinisceTipo
  <1>2. th'[p].reso = [che |-> che, dati |-> <<>>]
    BY <1>0, FinitoReso
  <1> QED  BY <1>1, <1>2 DEF Quieto, Domanda, Cambia

\* A call that goes on, from what th[p] was.
LEMMA VaQuieto ==
    ASSUME Inv4, NEW p \in Fili, th[p].st \notin Cambia \cup {"non nato"}, UNCHANGED <<pipe, fdt>>,
           th'[p].st \in Luoghi \ (Cambia \cup {"non nato"}), th'[p].op = th[p].op, th'[p].n = th[p].n,
           th'[p].reso = th[p].reso
    PROVE  Quieto(p)
  BY DEF Quieto, Domanda, Cambia, Inv4, Domande

\* The steps that touch neither a pipe nor a table: a list that grows,
LEMMA CresceGuardaQuieto ==
    ASSUME Inv4, NEW p \in Fili, CresceGuarda(p)
    PROVE  Quieto(p)
  <1>0. TypeOK
    BY DEF Inv4, Tavole, Inv2, Inv1
  <1>1. PICK v : th' = [th EXCEPT ![p].st = "alloca", ![p].vuole = v]
    BY DEF CresceGuarda
  <1>2. th'[p].st = "alloca" /\ th'[p].op = th[p].op /\ th'[p].n = th[p].n /\ th'[p].reso = th[p].reso
    BY <1>0, <1>1 DEF TypeOK, Quadri
  <1>3. UNCHANGED <<pipe, fdt>> /\ th[p].st = "cresce"
    BY DEF CresceGuarda
  <1> QED  BY <1>2, <1>3, VaQuieto DEF Luoghi, Cambia

\* the new list put in its place,
LEMMA CrescePosaQuieto ==
    ASSUME Inv4, NEW p \in Fili, CrescePosa(p)
    PROVE  Quieto(p)
  <1>0. TypeOK
    BY DEF Inv4, Tavole, Inv2, Inv1
  <1>1. UNCHANGED <<pipe, fdt>> /\ th[p].st = "alloca" /\ th[p].st \notin Cambia \cup {"non nato"}
    BY DEF CrescePosa, Cambia
  <1>2. CASE th' = [th EXCEPT ![p] = [In(p, "gira") EXCEPT !.vuole = 0]]
    <2>1. PICK r \in Quadri : r = In(p, "gira") /\ r.st = "gira" /\ r.op = th[p].op
                              /\ r.n = th[p].n /\ r.reso = th[p].reso
      BY <1>0, InTipo DEF Luoghi
    <2>2. th'[p] = [r EXCEPT !.vuole = 0]
      BY <1>0, <1>2, <2>1 DEF TypeOK
    <2>3. th'[p].st = "gira" /\ th'[p].op = th[p].op /\ th'[p].n = th[p].n /\ th'[p].reso = th[p].reso
      BY <2>1, <2>2 DEF Quadri
    <2> QED  BY <1>1, <2>3, VaQuieto DEF Luoghi, Cambia
  <1>3. CASE th' = Finisce(p, "altro")
    BY <1>1, <1>3, FinisceQuieto
  <1> QED  BY <1>2, <1>3 DEF CrescePosa

\* a thread that wakes in a read or a write,
LEMMA DestoQuieto ==
    ASSUME Inv4, NEW p \in Fili, Desto(p)
    PROVE  Quieto(p)
  <1>0. TypeOK
    BY DEF Inv4, Tavole, Inv2, Inv1
  <1>1. UNCHANGED <<pipe, fdt>> /\ th[p].st = "desto" /\ th[p].st \notin Cambia \cup {"non nato"}
    BY DEF Desto, Cambia
  <1>2. CASE p \in interrotto
    <2>1. th' = Finisce(p, "altro")
      BY <1>2 DEF Desto, Finisce
    <2> QED  BY <1>1, <2>1, FinisceQuieto
  <1>3. CASE p \notin interrotto
    <2>1. PICK r \in Quadri : r = In(p, "gira") /\ r.st = "gira" /\ r.op = th[p].op
                              /\ r.n = th[p].n /\ r.reso = th[p].reso
      BY <1>0, InTipo DEF Luoghi
    <2>2. th'[p] = r
      BY <1>0, <1>3, <2>1 DEF TypeOK, Desto
    <2> QED  BY <1>1, <2>1, <2>2, VaQuieto DEF Luoghi, Cambia
  <1> QED  BY <1>2, <1>3

\* a round of poll,
LEMMA PollGiraQuieto ==
    ASSUME Inv4, NEW p \in Fili, PollGira(p)
    PROVE  Quieto(p)
  <1>0. TypeOK
    BY DEF Inv4, Tavole, Inv2, Inv1
  <1>1. UNCHANGED <<pipe, fdt>> /\ th[p].st = "gira" /\ th[p].st \notin Cambia \cup {"non nato"}
    BY DEF PollGira, Cambia
  <1>2. CASE th' = Finisce(p, "pronto")
    BY <1>1, <1>2, FinisceQuieto
  <1>3. CASE \E b : th' = [th EXCEPT ![p] = [In(p, "dorme") EXCEPT !.nb = b]]
    <2>1. PICK r \in Quadri : r = In(p, "dorme") /\ r.st = "dorme" /\ r.op = th[p].op
                              /\ r.n = th[p].n /\ r.reso = th[p].reso
      BY <1>0, InTipo DEF Luoghi
    <2>2. PICK b : th'[p] = [r EXCEPT !.nb = b]
      BY <1>0, <1>3, <2>1 DEF TypeOK
    <2>3. th'[p].st = "dorme" /\ th'[p].op = th[p].op /\ th'[p].n = th[p].n /\ th'[p].reso = th[p].reso
      BY <2>1, <2>2 DEF Quadri
    <2> QED  BY <1>1, <2>3, VaQuieto DEF Luoghi, Cambia
  <1> QED  BY <1>2, <1>3 DEF PollGira

\* a thread that wakes in poll,
LEMMA PollDestoQuieto ==
    ASSUME Inv4, NEW p \in Fili, PollDesto(p)
    PROVE  Quieto(p)
  <1>0. TypeOK
    BY DEF Inv4, Tavole, Inv2, Inv1
  <1>1. UNCHANGED <<pipe, fdt>> /\ th[p].st = "desto" /\ th[p].st \notin Cambia \cup {"non nato"}
    BY DEF PollDesto, Cambia
  <1>2. CASE p \in interrotto
    <2>1. th' = Finisce(p, "altro")
      BY <1>2 DEF PollDesto, Finisce
    <2> QED  BY <1>1, <2>1, FinisceQuieto
  <1>3. CASE p \notin interrotto
    <2>1. PICK r \in Quadri : r = In(p, "gira") /\ r.st = "gira" /\ r.op = th[p].op
                              /\ r.n = th[p].n /\ r.reso = th[p].reso
      BY <1>0, InTipo DEF Luoghi
    <2>2. th'[p] = [r EXCEPT !.nb = FALSE]
      BY <1>0, <1>3, <2>1 DEF TypeOK, PollDesto
    <2>3. th'[p].st = "gira" /\ th'[p].op = th[p].op /\ th'[p].n = th[p].n /\ th'[p].reso = th[p].reso
      BY <2>1, <2>2 DEF Quadri
    <2> QED  BY <1>1, <2>3, VaQuieto DEF Luoghi, Cambia
  <1> QED  BY <1>2, <1>3

\* the tick,
LEMMA BattitoQuieto ==
    ASSUME Inv4, NEW p \in Fili, Battito(p)
    PROVE  Quieto(p)
  <1>0. TypeOK
    BY DEF Inv4, Tavole, Inv2, Inv1
  <1>1. UNCHANGED <<pipe, fdt>> /\ th[p].st = "dorme" /\ th[p].st \notin Cambia \cup {"non nato"}
    BY DEF Battito, Cambia
  <1>2. PICK r \in Quadri : r = In(p, "desto") /\ r.st = "desto" /\ r.op = th[p].op
                            /\ r.n = th[p].n /\ r.reso = th[p].reso
    BY <1>0, InTipo DEF Luoghi
  <1>3. th'[p] = r \/ th'[p] = [r EXCEPT !.tempo = "scaduto"]
    BY <1>0, <1>2 DEF TypeOK, Battito
  <1>4. th'[p].st = "desto" /\ th'[p].op = th[p].op /\ th'[p].n = th[p].n /\ th'[p].reso = th[p].reso
    BY <1>2, <1>3 DEF Quadri
  <1> QED  BY <1>1, <1>4, VaQuieto DEF Luoghi, Cambia

\* A read, a write or a poll begins.
LEMMA IniziaQuieto ==
    ASSUME Inv4, NEW p \in Fili, NEW n \in Numeri, NEW nb \in BOOLEAN,
           NEW k \in Chiede["R"] \cup Chiede["W"], Inizia(p, n, nb, k)
    PROVE  Quieto(p)
  <1>0. TypeOK
    BY DEF Inv4, Tavole, Inv2, Inv1
  <1>1. UNCHANGED <<pipe, fdt>> /\ th[p].st = "fuori"
    BY DEF Inizia, InizioChiamata
  <1>2. PICK a, b, c : th' = [th EXCEPT ![p] = [Fuori(Zitto) EXCEPT !.st = "gira", !.op = a, !.h = b,
                                                    !.fd = n, !.n = k, !.nb = nb, !.c = c]]
    BY DEF Inizia
  <1>3. PICK r : r = [Fuori(Zitto) EXCEPT !.st = "gira", !.op = a, !.h = b,
                                          !.fd = n, !.n = k, !.nb = nb, !.c = c]
    OBVIOUS
  <1>4. r.st = "gira" /\ r.n = k /\ r.reso = Zitto
    BY <1>3 DEF Fuori
  <1>5. th'[p] = r
    BY <1>0, <1>2, <1>3 DEF TypeOK
  <1>6. k > 0
    BY MisureTubi
  <1> QED  BY <1>1, <1>4, <1>5, <1>6 DEF Quieto, Domanda, Cambia

\* and a poll that begins.
LEMMA PollIniziaQuieto ==
    ASSUME Inv4, NEW p \in Fili, NEW S \in Elenchi, NEW tempo \in {"mai", "poi"},
           PollInizia(p, S, tempo)
    PROVE  Quieto(p)
  <1>0. TypeOK
    BY DEF Inv4, Tavole, Inv2, Inv1
  <1>1. UNCHANGED <<pipe, fdt>> /\ th[p].st = "fuori"
    BY DEF PollInizia, InizioChiamata
  <1>2. PICK v : th' = [th EXCEPT ![p] = [Fuori(Zitto) EXCEPT !.st = "gira", !.op = "poll",
                                                      !.voci = v, !.tempo = tempo]]
    BY DEF PollInizia
  <1>3. PICK r : r = [Fuori(Zitto) EXCEPT !.st = "gira", !.op = "poll", !.voci = v, !.tempo = tempo]
    OBVIOUS
  <1>4. r.st = "gira" /\ r.op = "poll" /\ r.reso = Zitto
    BY <1>3 DEF Fuori
  <1>5. th'[p] = r
    BY <1>0, <1>2, <1>3 DEF TypeOK
  <1> QED  BY <1>1, <1>4, <1>5 DEF Quieto, Domanda, Cambia

-----------------------------------------------------------------------------
(* What a step is for the queue of bytes.                                  *)

ContiPari == \A k \in Tubi : Capi(k, "R")' = Capi(k, "R") /\ Capi(k, "W")' = Capi(k, "W")

\* A call of p that moved nothing.
Risposta(p, h, che) ==
    /\ th'[p].reso = [che |-> che, dati |-> <<>>]
    /\ UNCHANGED pipe /\ ContiPari
    /\ che = "fine" => CodaDi(pipe[h]) = <<>> /\ Capi(h, "W") = 0
    /\ che = "rotto" => Capi(h, "R") = 0
    /\ che = "riprova" => Len(CodaDi(pipe[h])) \in {0, Dim}

\* p took the first k bytes of pipe h.
Letto(p, h, k) ==
    /\ k \in 1 .. Len(CodaDi(pipe[h]))
    /\ th'[p].reso = [che |-> "letto", dati |-> SubSeq(CodaDi(pipe[h]), 1, k)]
    /\ CodaDi(pipe'[h]) = SubSeq(CodaDi(pipe[h]), k + 1, Len(CodaDi(pipe[h])))
    /\ \A j \in Tubi \ {h} : pipe'[j] = pipe[j]
    /\ ContiPari

\* p put the bytes s in pipe h.
Scritto(p, h, s) ==
    /\ th'[p].reso = [che |-> "scritto", dati |-> s]
    /\ Capi(h, "R") > 0 /\ s # <<>> /\ Len(CodaDi(pipe[h])) + Len(s) <= Dim
    /\ CodaDi(pipe'[h]) = CodaDi(pipe[h]) \o s
    /\ \A j \in Tubi \ {h} : pipe'[j] = pipe[j]
    /\ ContiPari

Esito(p) ==
    \/ Passano /\ th'[p].reso \in {th[p].reso, Zitto}
    \/ \E h \in Tubi :
         \/ \E che \in {"fine", "rotto", "riprova", "altro", "pronto"} : Risposta(p, h, che)
         \/ \E k \in 1 .. Dim : Letto(p, h, k)
         \/ \E s : Scritto(p, h, s)

Nato(p) == th[p].st # "non nato" /\ th'[p].st # "non nato"

Fatto(p) == Esito(p) /\ Conti' /\ Tiene2(p) /\ Domanda(th'[p]) /\ Nato(p)

\* Passa says of the counts what the invariant does.
LEMMA PassanoConti ==
    ASSUME Passano
    PROVE  Conti'
  BY DEF Passano, Passa, Conti

\* The bytes of a pipe are as many as it says.
LEMMA CodaDiFatti ==
    ASSUME NEW d \in Anelli
    PROVE  CodaDi(d) \in Seq(Byte) /\ Len(CodaDi(d)) = d.quanti /\ (d.quanti = 0 => CodaDi(d) = <<>>)
  <1>1. d.buf \in Contenuti /\ d.testa \in Nat /\ d.quanti \in Nat
    BY DEF Anelli, Contenuti
  <1>2. CodaDi(d) \in Seq(Byte) /\ Len(CodaDi(d)) = d.quanti
    BY <1>1, CodaSeq DEF CodaDi
  <1>3. d.quanti = 0 => CodaDi(d) = <<>>
    BY CodaVuota DEF CodaDi
  <1> QED  BY <1>2, <1>3

\* A step that touches neither the pipes nor the tables.
LEMMA QuietoFatto ==
    ASSUME Inv4, NEW p \in Fili, Effetto(p), Quieto(p)
    PROVE  Fatto(p)
  <1>1. AltriPari(p) /\ UNCHANGED fdt /\ UNCHANGED pipe
        /\ th[p].st \notin Cambia /\ th'[p].st \notin Cambia /\ Nato(p) /\ Domanda(th'[p])
    BY DEF Effetto, Quieto, Nato
  <1>2. ContiPari /\ Passano /\ Tiene2(p)
    <2>1. /\ \A h \in Tubi : Capi(h, "R")' = Capi(h, "R") /\ Capi(h, "W")' = Capi(h, "W")
          /\ UNCHANGED pipe => Passano
          /\ Tiene2(p)
      BY <1>1, PassanoFermi
    <2> QED  BY <1>1, <2>1 DEF ContiPari
  <1>3. Conti'
    BY <1>2, PassanoConti
  <1>4. Esito(p)
    <2>1. CASE th'[p].reso \in {th[p].reso, Zitto}
      BY <1>2, <2>1 DEF Esito
    <2>2. CASE \E che \in {"altro", "pronto"} : th'[p].reso = [che |-> che, dati |-> <<>>]
      <3>1. PICK che \in {"altro", "pronto"} : th'[p].reso = [che |-> che, dati |-> <<>>]
        BY <2>2
      <3>2. PICK h \in Tubi : TRUE
        BY MisureTubi
      <3>3. Risposta(p, h, che)
        BY <1>1, <1>2, <3>1 DEF Risposta
      <3> QED  BY <3>3 DEF Esito
    <2> QED  BY <2>1, <2>2 DEF Quieto
  <1> QED  BY <1>1, <1>2, <1>3, <1>4 DEF Fatto

\* A call on pipe h that ends without moving anything.
LEMMA RispostaFatto ==
    ASSUME Inv4, NEW p \in Fili, Effetto(p), UNCHANGED <<pipe, fdt>>, th[p].st = "gira",
           NEW che \in {"fine", "rotto", "riprova", "altro"}, th' = Finisce(p, che), NEW h \in Tubi,
           che = "fine" => CodaDi(pipe[h]) = <<>> /\ Capi(h, "W") = 0,
           che = "rotto" => Capi(h, "R") = 0,
           che = "riprova" => Len(CodaDi(pipe[h])) \in {0, Dim}
    PROVE  Fatto(p)
  <1>0. TypeOK /\ che \in Esiti
    BY DEF Inv4, Tavole, Inv2, Inv1, Esiti
  <1>1. th'[p].st \in {"fuori", "esce"} /\ th'[p].op = "no"
    BY <1>0, FinisceTipo
  <1>2. th'[p].reso = [che |-> che, dati |-> <<>>]
    BY <1>0, FinitoReso
  <1>3. AltriPari(p) /\ th[p].st \notin Cambia /\ th'[p].st \notin Cambia
    BY <1>1 DEF Effetto, Cambia
  <1>4. ContiPari /\ Passano /\ Tiene2(p)
    <2>1. /\ \A k \in Tubi : Capi(k, "R")' = Capi(k, "R") /\ Capi(k, "W")' = Capi(k, "W")
          /\ UNCHANGED pipe => Passano
          /\ Tiene2(p)
      BY <1>3, PassanoFermi
    <2> QED  BY <2>1 DEF ContiPari
  <1>5. Risposta(p, h, che)
    BY <1>2, <1>4 DEF Risposta
  <1>6. Esito(p)
    BY <1>5 DEF Esito
  <1> QED  BY <1>1, <1>4, <1>6, PassanoConti DEF Fatto, Nato, Domanda

\* A call on pipe h that has to wait.
LEMMA AspettaFatto ==
    ASSUME Inv4, NEW p \in Fili, Effetto(p), UNCHANGED <<pipe, fdt>>, th[p].st = "gira", Aspetta(p),
           NEW h \in Tubi, Len(CodaDi(pipe[h])) \in {0, Dim}
    PROVE  Fatto(p)
  <1>0. TypeOK
    BY DEF Inv4, Tavole, Inv2, Inv1
  <1>1. CASE th' = Finisce(p, "riprova")
    BY <1>1, RispostaFatto
  <1>2. CASE \E st \in {"dorme", "cresce"} : th' = [th EXCEPT ![p] = In(p, st)]
    <2>1. PICK st \in {"dorme", "cresce"} : th' = [th EXCEPT ![p] = In(p, st)]
      BY <1>2
    <2>2. PICK r \in Quadri : r = In(p, st) /\ r.st = st /\ r.op = th[p].op
                              /\ r.n = th[p].n /\ r.reso = th[p].reso
      <3>1. PICK s \in Luoghi : s = st
        BY DEF Luoghi
      <3>2. /\ In(p, s) \in Quadri /\ In(p, s).st = s /\ In(p, s).op = th[p].op
            /\ In(p, s).n = th[p].n /\ In(p, s).reso = th[p].reso
        BY <1>0, InTipo
      <3> QED  BY <3>1, <3>2
    <2>3. th'[p] = r
      BY <1>0, <2>1, <2>2 DEF TypeOK
    <2>4. Quieto(p)
      BY <2>2, <2>3, VaQuieto DEF Luoghi, Cambia
    <2> QED  BY <2>4, QuietoFatto
  <1> QED  BY <1>1, <1>2 DEF Aspetta

\* Ring c is b, but for the k bytes that begin at t.
Tolti(b, t, k, c) ==
    \A i \in 0 .. Dim - 1 : (~\E j \in 1 .. k : i = (t + j - 1) % Dim) => c[i] = b[i]

\* A pipe like d2 is d after its first k bytes were taken, or after s was put.
StessiCapi(d, d2) ==
    /\ d2 \in Anelli /\ d2.testa < Dim /\ d2.usata = d.usata
    /\ d2.lettori = d.lettori /\ d2.scrittori = d.scrittori

Preso(d, k, d2) ==
    /\ StessiCapi(d, d2)
    /\ Coda(d.buf, d.testa, k) = SubSeq(CodaDi(d), 1, k)
    /\ CodaDi(d2) = SubSeq(CodaDi(d), k + 1, Len(CodaDi(d)))

Messo(d, s, d2) ==
    /\ StessiCapi(d, d2)
    /\ s # <<>> /\ Len(CodaDi(d)) + Len(s) <= Dim
    /\ CodaDi(d2) = CodaDi(d) \o s

\* The ring after k bytes were taken.
LEMMA AnelloLetto ==
    ASSUME NEW d \in Anelli, d.testa < Dim, NEW k \in 1 .. d.quanti, NEW c \in Contenuti,
           Tolti(d.buf, d.testa, k, c),
           NEW d2, d2 = [d EXCEPT !.testa = (d.testa + k) % Dim, !.quanti = d.quanti - k, !.buf = c]
    PROVE  Preso(d, k, d2)
  <1>1. PICK b \in Contenuti, t \in 0 .. Dim - 1, n \in 0 .. Dim :
           b = d.buf /\ t = d.testa /\ n = d.quanti
    <2>1. d.testa \in 0 .. Dim - 1
      BY MisureTubi DEF Anelli
    <2> QED  BY <2>1 DEF Anelli, Contenuti
  <1>2. PICK u \in 0 .. Dim - 1, m \in 0 .. Dim : u = (t + k) % Dim /\ m = n - k
    <2>1. t + k \in Nat
      BY <1>1
    <2>2. (t + k) % Dim \in 0 .. Dim - 1
      BY <2>1, Resto
    <2>3. n - k \in 0 .. Dim
      BY <1>1, MisureTubi
    <2> QED  BY <2>2, <2>3
  <1>3. d2 = [d EXCEPT !.testa = u, !.quanti = m, !.buf = c]
    BY <1>1, <1>2
  <1>4. /\ d2 \in Anelli /\ d2.testa = u /\ d2.quanti = m /\ d2.buf = c /\ d2.usata = d.usata
        /\ d2.lettori = d.lettori /\ d2.scrittori = d.scrittori
    <2>1. u \in Nat /\ c \in [0 .. Dim - 1 -> Byte]
      BY DEF Contenuti
    <2> QED  BY <1>3, <2>1 DEF Anelli
  <1>5. d2.testa < Dim
    BY <1>4, MisureTubi
  <1>6. t \in Nat /\ n \in Nat /\ k \in 0 .. n /\ k \in Nat
    BY <1>1
  <1>7. Coda(b, t, k) = SubSeq(Coda(b, t, n), 1, k)
    BY <1>6, CodaPresa, Zenon
  <1>8. \A i \in 0 .. Dim - 1 : (~\E j \in 1 .. k : i = (t + j - 1) % Dim) => c[i] = b[i]
    BY <1>1 DEF Tolti
  <1>9. Coda(c, (t + k) % Dim, n - k) = SubSeq(Coda(b, t, n), k + 1, n)
    BY <1>6, <1>8, CodaResta, Zenon
  <1>10. CodaDi(d2) = Coda(c, u, m)
    BY <1>4 DEF CodaDi
  <1>11. CodaDi(d) = Coda(b, t, n) /\ Len(CodaDi(d)) = n
    BY <1>1, CodaDiFatti DEF CodaDi
  <1>12. CodaDi(d2) = SubSeq(CodaDi(d), k + 1, Len(CodaDi(d)))
    BY <1>2, <1>9, <1>10, <1>11
  <1>13. Coda(d.buf, d.testa, k) = SubSeq(CodaDi(d), 1, k)
    BY <1>1, <1>7, <1>11
  <1> QED  BY <1>4, <1>5, <1>12, <1>13 DEF Preso, StessiCapi

\* The ring after the bytes s were put.
LEMMA AnelloScritto ==
    ASSUME NEW d \in Anelli, d.testa < Dim, NEW k \in 1 .. Dim - d.quanti, NEW c \in Contenuti,
           NEW s \in Seq(Byte), Len(s) = k,
           Messi(d.buf, d.testa, d.quanti, k, s, c),
           NEW d2, d2 = [d EXCEPT !.quanti = d.quanti + k, !.buf = c]
    PROVE  Messo(d, s, d2)
  <1>1. PICK b \in Contenuti, t \in 0 .. Dim - 1, n \in 0 .. Dim :
           b = d.buf /\ t = d.testa /\ n = d.quanti
    <2>1. d.testa \in 0 .. Dim - 1
      BY MisureTubi DEF Anelli
    <2> QED  BY <2>1 DEF Anelli, Contenuti
  <1>2. PICK m \in 0 .. Dim : m = n + k
    BY <1>1, MisureTubi
  <1>3. d2 = [d EXCEPT !.quanti = m, !.buf = c]
    BY <1>1, <1>2
  <1>4. /\ d2 \in Anelli /\ d2.testa = t /\ d2.quanti = m /\ d2.buf = c /\ d2.usata = d.usata
        /\ d2.lettori = d.lettori /\ d2.scrittori = d.scrittori
    <2>1. c \in [0 .. Dim - 1 -> Byte]
      BY DEF Contenuti
    <2> QED  BY <1>1, <1>3, <2>1 DEF Anelli
  <1>5. d2.testa < Dim
    BY <1>1, <1>4
  <1>6. k \in 0 .. Dim - n
    BY <1>1, MisureTubi
  <1>7. Messi(b, t, n, k, s, c)
    BY <1>1, Zenon
  <1>8. Coda(c, t, n + k) = Coda(b, t, n) \o s
    <2>1. Accodati(b, t, n, k, s, c)
      BY <1>6, <1>7, CodaCresce, Zenon
    <2> QED  BY <2>1 DEF Accodati
  <1>9. CodaDi(d2) = Coda(c, t, m)
    BY <1>4 DEF CodaDi
  <1>10. CodaDi(d) = Coda(b, t, n) /\ Len(CodaDi(d)) = n
    BY <1>1, CodaDiFatti DEF CodaDi
  <1>11. CodaDi(d2) = CodaDi(d) \o s
    BY <1>2, <1>8, <1>9, <1>10
  <1>12. s # <<>> /\ n + Len(s) <= Dim
    BY <1>1, MisureTubi
  <1> QED  BY <1>1, <1>4, <1>5, <1>10, <1>11, <1>12 DEF Messo, StessiCapi

\* The pipe that bytes were moved in keeps its ends.
LEMMA MossoConti ==
    ASSUME Inv4, NEW h \in Tubi, ContiPari, NEW d2, pipe'[h] = d2,
           d2.testa < Dim, d2.usata, d2.lettori = pipe[h].lettori, d2.scrittori = pipe[h].scrittori,
           pipe[h].usata, \A j \in Tubi \ {h} : pipe'[j] = pipe[j]
    PROVE  Conti'
  <1>1. ASSUME NEW k \in Tubi PROVE Giusto(pipe'[k], Capi(k, "R")', Capi(k, "W")')
    <2>1. Capi(k, "R")' = Capi(k, "R") /\ Capi(k, "W")' = Capi(k, "W")
      BY DEF ContiPari
    <2>2. Giusto(pipe[k], Capi(k, "R"), Capi(k, "W"))
      BY ContiDi
    <2>3. Giusto(pipe'[k], Capi(k, "R"), Capi(k, "W"))
      <3>1. CASE k = h
        BY <2>2, <3>1 DEF Giusto
      <3>2. CASE k # h
        BY <2>2, <3>2
      <3> QED  BY <3>1, <3>2
    <2> QED  BY <2>1, <2>3
  <1> QED  BY <1>1 DEF Conti

\* pipe_leggi and pipe_scrivi, when bytes move: the thread and the counts.
LEMMA MossoFatto ==
    ASSUME Inv4, NEW p \in Fili, Effetto(p), th[p].st = "gira", UNCHANGED fdt,
           NEW che \in Esiti, NEW dati \in Seq(Byte), NEW W,
           th' = Desti(W, [th EXCEPT ![p] = Resa(p, che, dati)])
    PROVE  /\ th'[p].reso = [che |-> che, dati |-> dati]
           /\ ContiPari /\ Tiene2(p) /\ Domanda(th'[p]) /\ Nato(p)
  <1>0. TypeOK
    BY DEF Inv4, Tavole, Inv2, Inv1
  <1>1. PICK r \in Quadri : r = Resa(p, che, dati)
    BY ResaTipo
  <1>2. r.st \in {"fuori", "esce"} /\ r.op = "no" /\ r.reso = [che |-> che, dati |-> dati]
    BY <1>1, ResaTipo, ResaReso
  <1>3. AltriPari(p) /\ th'[p] = r
    BY <1>0, <1>1, <1>2, Muove
  <1>4. th[p].st \notin Cambia /\ th'[p].st \notin Cambia
    BY <1>2, <1>3 DEF Cambia
  <1>5. /\ \A k \in Tubi : Capi(k, "R")' = Capi(k, "R") /\ Capi(k, "W")' = Capi(k, "W")
        /\ Tiene2(p)
    BY <1>3, <1>4, PassanoFermi
  <1> QED  BY <1>2, <1>3, <1>5 DEF ContiPari, Domanda, Nato

\* pipe_leggi.
LEMMA LeggiFatto ==
    ASSUME Inv4, NEW p \in Fili, pipe_leggi(p)
    PROVE  Fatto(p)
  <1>0. TypeOK /\ Inv2 /\ Forma /\ Domande
    BY DEF Inv4, Tavole, Inv2, Inv1
  <1>1. Effetto(p) /\ UNCHANGED fdt /\ th[p].st = "gira" /\ th[p].op = "R"
    BY <1>0, LeggiEffetto DEF pipe_leggi
  <1>2. PICK h \in Tubi : h = th[p].h
    BY <1>0, <1>1 DEF Forma, FormaDi
  <1>3. PICK d \in Anelli, r \in Nat, w \in Nat :
           d = pipe[h] /\ r = Capi(h, "R") /\ w = Capi(h, "W") /\ Giusto(d, r, w)
    BY ContiDi
  <1>4. PICK n \in Nat : n = th[p].n /\ n > 0
    BY <1>0, <1>1 DEF TypeOK, Quadri, Domande, Domanda
  <1>5. /\ CodaDi(d) \in Seq(Byte) /\ Len(CodaDi(d)) = d.quanti /\ (d.quanti = 0 => CodaDi(d) = <<>>)
        /\ d.quanti \in 0 .. Dim
    BY CodaDiFatti DEF Anelli
  <1>6. CASE d.usata /\ d.quanti > 0
    <2> DEFINE hh == th[p].h
               e == pipe[hh]
               kk == Minimo(th[p].n, e.quanti)
               pp == [i \in 1 .. kk |-> e.buf[(e.testa + i - 1) % Dim]]
               BB == [i \in 0 .. Dim - 1 |->
                        IF \E j \in 1 .. kk : i = (e.testa + j - 1) % Dim THEN <<>> ELSE e.buf[i]]
               dd == [e EXCEPT !.testa = (e.testa + kk) % Dim, !.quanti = e.quanti - kk, !.buf = BB]
    <2>1. hh = h /\ e = d /\ kk = Minimo(n, d.quanti) /\ e.usata /\ e.quanti > 0
      BY <1>2, <1>3, <1>4, <1>6
    <2>2. /\ pipe' = [pipe EXCEPT ![hh] = dd]
          /\ th' = Desti(att[hh]["S"], [th EXCEPT ![p] = Resa(p, "letto", pp)])
      BY <2>1 DEF pipe_leggi
    <2>3. pp = Coda(e.buf, e.testa, kk) /\ Tolti(e.buf, e.testa, kk, BB)
      BY DEF Coda, Tolti
    <2>4. BB \in Contenuti
      <3>1. <<>> \in Byte /\ e.buf \in [0 .. Dim - 1 -> Byte]
        BY <2>1 DEF Byte, Anelli
      <3> QED  BY <3>1 DEF Contenuti
    <2>5. PICK k, dati, c, d2 : k = kk /\ dati = pp /\ c = BB /\ d2 = dd /\ c \in Contenuti
      BY <2>4
    <2>6. d2 = [d EXCEPT !.testa = (d.testa + k) % Dim, !.quanti = d.quanti - k, !.buf = c]
      BY <2>1, <2>5
    <2> HIDE DEF hh, e, kk, pp, BB, dd
    <2>7. Preso(d, k, d2) /\ dati = Coda(d.buf, d.testa, k) /\ k \in 1 .. d.quanti
      <3>1. k \in 1 .. d.quanti
        BY <1>4, <1>5, <1>6, <2>1, <2>5 DEF Minimo
      <3>2. d.testa < Dim
        BY <1>3 DEF Giusto
      <3>3. Tolti(d.buf, d.testa, k, c) /\ dati = Coda(d.buf, d.testa, k)
        BY <2>1, <2>3, <2>5
      <3>4. Preso(d, k, d2)
        BY <2>5, <2>6, <3>1, <3>2, <3>3, AnelloLetto, Zenon
      <3> QED  BY <3>1, <3>3, <3>4
    <2>8. /\ pipe' = [pipe EXCEPT ![h] = d2]
          /\ th' = Desti(att[h]["S"], [th EXCEPT ![p] = Resa(p, "letto", dati)])
      BY <2>1, <2>2, <2>5
    <2>9. dati \in Seq(Byte)
      <3>1. d.buf \in Contenuti /\ d.testa \in Nat /\ k \in Nat
        BY <2>7 DEF Anelli, Contenuti
      <3> QED  BY <2>7, <3>1, CodaSeq
    <2>10. /\ th'[p].reso = [che |-> "letto", dati |-> dati]
           /\ ContiPari /\ Tiene2(p) /\ Domanda(th'[p]) /\ Nato(p)
      <3>1. "letto" \in Esiti
        BY DEF Esiti
      <3> QED  BY <1>1, <2>8, <2>9, <3>1, MossoFatto, Zenon
    <2>11. pipe'[h] = d2 /\ \A j \in Tubi \ {h} : pipe'[j] = pipe[j]
      BY <1>0, <2>8 DEF TypeOK
    <2>12. Conti'
      BY <1>3, <1>6, <2>7, <2>10, <2>11, MossoConti DEF Preso, StessiCapi
    <2>13. Letto(p, h, k)
      <3>1. k \in 1 .. Len(CodaDi(pipe[h]))
        BY <1>3, <1>5, <2>7
      <3>2. th'[p].reso = [che |-> "letto", dati |-> SubSeq(CodaDi(pipe[h]), 1, k)]
        BY <1>3, <2>7, <2>10 DEF Preso
      <3>3. CodaDi(pipe'[h]) = SubSeq(CodaDi(pipe[h]), k + 1, Len(CodaDi(pipe[h])))
        BY <1>3, <2>7, <2>11 DEF Preso
      <3> QED  BY <2>10, <2>11, <3>1, <3>2, <3>3 DEF Letto
    <2>14. k \in 1 .. Dim
      BY <1>5, <2>7, MisureTubi
    <2>15. Esito(p)
      BY <2>13, <2>14, Zenon DEF Esito
    <2> QED  BY <2>10, <2>12, <2>15 DEF Fatto
  <1>7. CASE ~(d.usata /\ d.quanti > 0)
    <2>1. /\ UNCHANGED pipe
          /\ IF ~d.usata THEN th' = Finisce(p, "altro") /\ UNCHANGED att
             ELSE IF d.scrittori = 0 THEN th' = Finisce(p, "fine") /\ UNCHANGED att
             ELSE Aspetta(p)
      BY <1>2, <1>3, <1>7 DEF pipe_leggi
    <2>2. CASE ~d.usata
      <3>1. th' = Finisce(p, "altro")
        BY <2>1, <2>2
      <3> QED  BY <1>1, <2>1, <3>1, RispostaFatto
    <2>3. CASE d.usata /\ d.scrittori = 0
      <3>1. th' = Finisce(p, "fine")
        BY <2>1, <2>3
      <3>2. CodaDi(pipe[h]) = <<>> /\ Capi(h, "W") = 0
        BY <1>3, <1>5, <1>7, <2>3 DEF Giusto
      <3> QED  BY <1>1, <2>1, <3>1, <3>2, RispostaFatto
    <2>4. CASE d.usata /\ d.scrittori # 0
      <3>1. Aspetta(p)
        BY <2>1, <2>4
      <3>2. Len(CodaDi(pipe[h])) \in {0, Dim}
        BY <1>3, <1>5, <1>7, <2>4
      <3> QED  BY <1>1, <2>1, <3>1, <3>2, AspettaFatto
    <2> QED  BY <2>2, <2>3, <2>4
  <1> QED  BY <1>6, <1>7

\* pipe_scrivi.
LEMMA ScriviFatto ==
    ASSUME Inv4, NEW p \in Fili, pipe_scrivi(p)
    PROVE  Fatto(p)
  <1>0. TypeOK /\ Inv2 /\ Forma /\ Domande
    BY DEF Inv4, Tavole, Inv2, Inv1
  <1>1. Effetto(p) /\ UNCHANGED fdt /\ th[p].st = "gira" /\ th[p].op = "W"
    BY <1>0, ScriviEffetto DEF pipe_scrivi
  <1>2. PICK h \in Tubi : h = th[p].h
    BY <1>0, <1>1 DEF Forma, FormaDi
  <1>3. PICK d \in Anelli, r \in Nat, w \in Nat :
           d = pipe[h] /\ r = Capi(h, "R") /\ w = Capi(h, "W") /\ Giusto(d, r, w)
    BY ContiDi
  <1>4. PICK n \in Nat, cc \in Nat : n = th[p].n /\ n > 0 /\ cc = th[p].c
    BY <1>0, <1>1 DEF TypeOK, Quadri, Domande, Domanda
  <1>5. /\ CodaDi(d) \in Seq(Byte) /\ Len(CodaDi(d)) = d.quanti
        /\ d.quanti \in 0 .. Dim /\ d.lettori \in Nat
    BY CodaDiFatti DEF Anelli
  <1>6. CASE d.usata /\ d.lettori > 0 /\ d.quanti < Dim
    <2> DEFINE hh == th[p].h
               e == pipe[hh]
               kk == Minimo(th[p].n, Dim - e.quanti)
               ss == [j \in 1 .. kk |-> <<th[p].c, j>>]
               BB == [i \in 0 .. Dim - 1 |->
                        IF \E j \in 1 .. kk : i = (e.testa + e.quanti + j - 1) % Dim
                        THEN ss[CHOOSE j \in 1 .. kk : i = (e.testa + e.quanti + j - 1) % Dim]
                        ELSE e.buf[i]]
               dd == [e EXCEPT !.quanti = e.quanti + kk, !.buf = BB]
    <2>1. hh = h /\ e = d /\ kk = Minimo(n, Dim - d.quanti) /\ e.usata /\ e.lettori > 0 /\ e.quanti < Dim
      BY <1>2, <1>3, <1>4, <1>6
    <2>2. /\ pipe' = [pipe EXCEPT ![hh] = dd]
          /\ th' = Desti(att[hh]["L"], [th EXCEPT ![p] = Resa(p, "scritto", ss)])
      BY <2>1 DEF pipe_scrivi
    <2>3. Messi(e.buf, e.testa, e.quanti, kk, ss, BB)
      BY DEF Messi
    <2>4. kk \in 1 .. Dim - d.quanti
      BY <1>4, <1>5, <1>6, <2>1, MisureTubi DEF Minimo
    <2>5. ss \in Seq(Byte) /\ Len(ss) = kk /\ \A j \in 1 .. kk : ss[j] \in Byte
      <3> HIDE DEF kk
      <3>1. ASSUME NEW j \in 1 .. kk PROVE <<th[p].c, j>> \in Byte
        BY <1>4 DEF Byte
      <3>2. ss \in [1 .. kk -> Byte]
        BY <3>1
      <3>3. kk \in Nat
        BY <1>5, <2>4, MisureTubi
      <3> QED  BY <3>2, <3>3
    <2>6. BB \in Contenuti
      <3>1. e.buf \in [0 .. Dim - 1 -> Byte]
        BY <2>1 DEF Anelli
      <3> HIDE DEF e, kk, ss
      <3>2. ASSUME NEW i \in 0 .. Dim - 1 PROVE BB[i] \in Byte
        <4>1. CASE \E j \in 1 .. kk : i = (e.testa + e.quanti + j - 1) % Dim
          <5>1. PICK x \in 1 .. kk :
                   x = CHOOSE j \in 1 .. kk : i = (e.testa + e.quanti + j - 1) % Dim
            BY <4>1
          <5> QED  BY <2>5, <4>1, <5>1
        <4>2. CASE ~\E j \in 1 .. kk : i = (e.testa + e.quanti + j - 1) % Dim
          BY <3>1, <4>2
        <4> QED  BY <4>1, <4>2
      <3> QED  BY <3>2 DEF Contenuti
    <2>7. PICK k \in 1 .. Dim - d.quanti, s \in Seq(Byte), c \in Contenuti :
             k = kk /\ s = ss /\ c = BB
      BY <2>4, <2>5, <2>6
    <2>8. PICK d2 : d2 = dd /\ d2 = [d EXCEPT !.quanti = d.quanti + k, !.buf = c]
      BY <2>1, <2>7
    <2> HIDE DEF hh, e, kk, ss, BB, dd
    <2>9. Messo(d, s, d2) /\ r = d.lettori
      <3>1. d.testa < Dim /\ r = d.lettori
        BY <1>3, <1>6 DEF Giusto
      <3>2. Messi(d.buf, d.testa, d.quanti, k, s, c) /\ Len(s) = k
        BY <2>1, <2>3, <2>5, <2>7
      <3>3. Messo(d, s, d2)
        BY <2>8, <3>1, <3>2, AnelloScritto, Zenon
      <3> QED  BY <3>1, <3>3
    <2>10. /\ pipe' = [pipe EXCEPT ![h] = d2]
           /\ th' = Desti(att[h]["L"], [th EXCEPT ![p] = Resa(p, "scritto", s)])
      BY <2>1, <2>2, <2>7, <2>8
    <2>11. /\ th'[p].reso = [che |-> "scritto", dati |-> s]
           /\ ContiPari /\ Tiene2(p) /\ Domanda(th'[p]) /\ Nato(p)
      <3>1. "scritto" \in Esiti
        BY DEF Esiti
      <3> QED  BY <1>1, <2>10, <3>1, MossoFatto, Zenon
    <2>12. pipe'[h] = d2 /\ \A j \in Tubi \ {h} : pipe'[j] = pipe[j]
      BY <1>0, <2>10 DEF TypeOK
    <2>13. Conti'
      BY <1>3, <1>6, <2>9, <2>11, <2>12, MossoConti DEF Messo, StessiCapi
    <2>14. Scritto(p, h, s)
      <3>1. Capi(h, "R") > 0
        BY <1>3, <1>6, <2>9
      <3> QED  BY <1>3, <2>9, <2>11, <2>12, <3>1 DEF Scritto, Messo
    <2>15. Esito(p)
      BY <2>14, Zenon DEF Esito
    <2> QED  BY <2>11, <2>13, <2>15 DEF Fatto
  <1>7. CASE ~(d.usata /\ d.lettori > 0 /\ d.quanti < Dim)
    <2>1. /\ UNCHANGED pipe
          /\ IF ~d.usata THEN th' = Finisce(p, "altro") /\ UNCHANGED att
             ELSE IF d.lettori = 0 THEN th' = Finisce(p, "rotto") /\ UNCHANGED att
             ELSE Aspetta(p)
      BY <1>2, <1>3, <1>7 DEF pipe_scrivi
    <2>2. CASE ~d.usata
      <3>1. th' = Finisce(p, "altro")
        BY <2>1, <2>2
      <3> QED  BY <1>1, <2>1, <3>1, RispostaFatto
    <2>3. CASE d.usata /\ d.lettori = 0
      <3>1. th' = Finisce(p, "rotto")
        BY <2>1, <2>3
      <3>2. Capi(h, "R") = 0
        BY <1>3, <2>3 DEF Giusto
      <3> QED  BY <1>1, <2>1, <3>1, <3>2, RispostaFatto
    <2>4. CASE d.usata /\ d.lettori # 0
      <3>1. Aspetta(p)
        BY <2>1, <2>4
      <3>2. Len(CodaDi(pipe[h])) \in {0, Dim}
        BY <1>3, <1>5, <1>7, <2>4, MisureTubi
      <3> QED  BY <1>1, <2>1, <3>1, <3>2, AspettaFatto
    <2> QED  BY <2>2, <2>3, <2>4
  <1> QED  BY <1>6, <1>7

-----------------------------------------------------------------------------
(* Every step is one of those, and keeps the invariant.                    *)

\* A change of the table.
LEMMA CambiaFatto ==
    ASSUME NEW p \in Fili, Passano, th'[p].reso \in {th[p].reso, Zitto}, Tiene2(p),
           Domanda(th'[p]), Nato(p)
    PROVE  Fatto(p)
  BY PassanoConti DEF Fatto, Esito

\* A pipe call that puts its first descriptor asks for nothing.
LEMMA PipeLetturaDomanda ==
    ASSUME Inv4, NEW p \in Fili, PipeLettura(p)
    PROVE  Domanda(th'[p]) /\ Nato(p)
  <1>0. TypeOK /\ Inv2 /\ Domande
    BY DEF Inv4, Tavole, Inv2, Inv1
  <1>1. th[p].st = "pipe r"
    BY DEF PipeLettura
  <1>2. CASE find_free_fd(p) # 0
    <2>1. PICK r \in Quadri : r = In(p, "pipe w") /\ r.st = "pipe w" /\ r.op = th[p].op /\ r.n = th[p].n
      BY <1>0, InTipo DEF Luoghi
    <2>2. th'[p] = [r EXCEPT !.fd = find_free_fd(p)]
      BY <1>0, <1>2, <2>1 DEF TypeOK, PipeLettura
    <2>3. th'[p].st = "pipe w" /\ th'[p].op = th[p].op /\ th'[p].n = th[p].n
      BY <2>1, <2>2 DEF Quadri
    <2> QED  BY <1>0, <1>1, <2>3 DEF Domande, Domanda, Nato
  <1>3. CASE ~(find_free_fd(p) # 0)
    <2>1. th' = Desti(att[th[p].h]["L"] \cup att[th[p].h]["S"], Finisce(p, "no"))
      BY <1>3 DEF PipeLettura
    <2>2. th'[p].st \in {"fuori", "esce"} /\ th'[p].op = "no"
      BY <1>0, <2>1, FinisceDesti DEF Esiti
    <2> QED  BY <1>1, <2>2 DEF Domanda, Nato
  <1> QED  BY <1>2, <1>3

\* proc_interrompi.
LEMMA InterrompiFatto ==
    ASSUME Inv4, NEW p \in Fili, proc_interrompi(p)
    PROVE  Fatto(p)
  <1>0. TypeOK /\ Inv2 /\ Domande
    BY DEF Inv4, Tavole, Inv2, Inv1
  <1>1. Effetto(p) /\ AltriPari(p) /\ UNCHANGED fdt /\ UNCHANGED pipe
    BY <1>0, InterrompiEffetto DEF Effetto, proc_interrompi
  <1>2. /\ th'[p].op = th[p].op /\ th'[p].h = th[p].h /\ th'[p].fd = th[p].fd /\ th'[p].n = th[p].n
        /\ th'[p].reso = th[p].reso
        /\ th'[p].st = IF th[p].st = "dorme" THEN "desto" ELSE th[p].st
    <2>1. th \in [Fili -> Quadri] /\ th' = Desti({p}, th)
      BY <1>0 DEF TypeOK, proc_interrompi
    <2>2. \A q \in Fili :
             /\ th'[q].st = IF q \in {p} /\ th[q].st = "dorme" THEN "desto" ELSE th[q].st
             /\ th'[q].op = th[q].op /\ th'[q].h = th[q].h
             /\ th'[q].fd = th[q].fd /\ th'[q].n = th[q].n
             /\ th'[q].reso = th[q].reso
      BY <2>1, DestiTipo
    <2> QED  BY <2>2
  <1>3. Nato(p)
    BY <1>2 DEF Nato, proc_interrompi
  <1>4. Domanda(th'[p])
    BY <1>0, <1>2 DEF Domande, Domanda
  <1>5. (UNCHANGED pipe => Passano) /\ Tiene2(p)
    <2>1. CASE th[p].st = "dorme"
      BY <1>1, <1>2, <2>1, PassanoFermi DEF Cambia
    <2>2. CASE th[p].st # "dorme"
      BY <1>1, <1>2, <2>2, PassanoFermi
    <2> QED  BY <2>1, <2>2
  <1> QED  BY <1>1, <1>2, <1>3, <1>4, <1>5, CambiaFatto

\* A thread inside a call, the tick, and an interruption.
LEMMA PassoFatto ==
    ASSUME Inv4, "gara" \notin Eventi, NEW p \in Fili, Passo(p) \/ Battito(p) \/ proc_interrompi(p)
    PROVE  Fatto(p)
  <1>0. Inv2 /\ Posati
    BY DEF Inv4, Tavole
  <1>1. Effetto(p)
    BY <1>0, PassoRegole
  <1>2. CASE CresceGuarda(p)
    BY <1>1, <1>2, CresceGuardaQuieto, QuietoFatto
  <1>3. CASE CrescePosa(p)
    BY <1>1, <1>3, CrescePosaQuieto, QuietoFatto
  <1>4. CASE PipeLettura(p)
    BY <1>4, PipeLetturaPassa, PipeLetturaDomanda, CambiaFatto
  <1>5. CASE PipeScrittura(p)
    <2>1. Domanda(th'[p]) /\ Nato(p)
      BY <1>0, <1>5, PipeScritturaEffetto DEF Domanda, Nato
    <2> QED  BY <1>5, <2>1, PipeScritturaPassa, CambiaFatto
  <1>6. CASE DupPosa(p)
    <2>1. Domanda(th'[p]) /\ Nato(p)
      BY <1>0, <1>6, DupPosaEffetto DEF Domanda, Nato
    <2> QED  BY <1>6, <2>1, DupPosaPassa, CambiaFatto
  <1>7. CASE ChiudiPosa(p)
    <2>1. Domanda(th'[p]) /\ Nato(p)
      BY <1>0, <1>7, ChiudiPosaEffetto DEF Domanda, Nato
    <2> QED  BY <1>7, <2>1, ChiudiPosaPassa, CambiaFatto
  <1>8. CASE pipe_leggi(p)
    BY <1>8, LeggiFatto
  <1>9. CASE pipe_scrivi(p)
    BY <1>9, ScriviFatto
  <1>10. CASE Desto(p)
    BY <1>1, <1>10, DestoQuieto, QuietoFatto
  <1>11. CASE PollGira(p)
    BY <1>1, <1>11, PollGiraQuieto, QuietoFatto
  <1>12. CASE PollDesto(p)
    BY <1>1, <1>12, PollDestoQuieto, QuietoFatto
  <1>13. CASE Battito(p)
    BY <1>1, <1>13, BattitoQuieto, QuietoFatto
  <1>14. CASE proc_interrompi(p)
    BY <1>14, InterrompiFatto
  <1> QED  BY <1>2, <1>3, <1>4, <1>5, <1>6, <1>7, <1>8, <1>9, <1>10, <1>11, <1>12, <1>13, <1>14
           DEF Passo

\* A call that begins, but for fork and exit.
LEMMA ChiamataFatto ==
    ASSUME Inv4, "gara" \notin Eventi, NEW p \in Fili, Chiamata(p), ~Esce(p),
           ~\E g \in Programmi : Fork(p, g)
    PROVE  Fatto(p)
  <1>0. Inv2 /\ Posati
    BY DEF Inv4, Tavole
  <1>1. Effetto(p)
    BY <1>0, ChiamataRegole
  <1>2. CASE PipeCrea(p)
    <2>1. Domanda(th'[p]) /\ Nato(p)
      BY <1>0, <1>2, PipeCreaEffetto DEF Domanda, Nato, PipeCrea, InizioChiamata
    <2> QED  BY <1>2, <2>1, PipeCreaPassa, CambiaFatto
  <1>3. CASE \E n \in Numeri : DupApre(p, n)
    <2>1. PICK n \in Numeri : DupApre(p, n)
      BY <1>3
    <2>2. th'[p].st = "dup" /\ th'[p].n \in Numeri /\ th[p].st = "fuori"
      BY <1>0, <2>1, DupApreEffetto DEF DupApre, InizioChiamata
    <2>3. Domanda(th'[p]) /\ Nato(p)
      <3>1. PICK m \in Numeri : m = th'[p].n
        BY <2>2
      <3>2. m > 0
        BY MisureTubi
      <3> QED  BY <2>2, <3>1, <3>2 DEF Domanda, Nato
    <2> QED  BY <2>1, <2>3, DupAprePassa, CambiaFatto
  <1>4. CASE \E n \in Numeri : Chiudi(p, n)
    <2>1. PICK n \in Numeri : Chiudi(p, n)
      BY <1>4
    <2>2. th'[p].st = "chiude" /\ th[p].st = "fuori"
      BY <1>0, <2>1, ChiudiEffetto DEF Chiudi, InizioChiamata
    <2>3. Domanda(th'[p]) /\ Nato(p)
      BY <2>2 DEF Domanda, Nato
    <2> QED  BY <2>1, <2>3, ChiudiPassa, CambiaFatto
  <1>5. CASE \E n \in Numeri, nb \in BOOLEAN, k \in Chiede["R"] \cup Chiede["W"] : Inizia(p, n, nb, k)
    BY <1>1, <1>5, IniziaQuieto, QuietoFatto
  <1>6. CASE \E S \in Elenchi, tempo \in {"mai", "poi"} : PollInizia(p, S, tempo)
    BY <1>1, <1>6, PollIniziaQuieto, QuietoFatto
  <1> QED  BY <1>2, <1>3, <1>4, <1>5, <1>6 DEF Chiamata

\* A table that p does not write: one of another program, or p alone writes.
LEMMA TenutiPasso ==
    ASSUME Inv4, NEW p \in Fili, Effetto(p), Scrive(p), Tiene2(p)
    PROVE  Tenuti'
  <1>0. Soli /\ Tenuti /\ TypeOK
    BY DEF Inv4, Tavole, Inv2, Inv1
  <1> SUFFICES ASSUME NEW q \in Fili, th'[q].st \in {"dup", "chiude"}
               PROVE  fdt'[Programma[q]][th'[q].fd] = [tipo |-> th'[q].op, h |-> th'[q].h]
    BY DEF Tenuti, Tabella
  <1>1. CASE q = p
    BY <1>1 DEF Tiene2
  <1>2. CASE q # p
    <2>1. /\ th[q].st = th'[q].st /\ th'[q].op = th[q].op /\ th'[q].fd = th[q].fd
          /\ th'[q].h = th[q].h
      BY <1>2 DEF Effetto, AltriPari
    <2>2. fdt'[Programma[q]] = fdt[Programma[q]]
      <3>1. CASE UNCHANGED fdt
        BY <3>1
      <3>2. CASE ~UNCHANGED fdt
        <4>0. th[p].st \in Cambia
          BY <3>2 DEF Scrive
        <4>1. Programma[q] # Programma[p]
          BY <1>0, <1>2, <2>1, <4>0 DEF Soli, Cambia
        <4>2. PICK n \in Numeri, x \in Descrittori : fdt' = [fdt EXCEPT ![Programma[p]][n] = x]
          BY <3>2 DEF Scrive
        <4> QED  BY <1>0, <4>1, <4>2 DEF TypeOK, Programmi
      <3> QED  BY <3>1, <3>2
    <2> QED  BY <1>0, <2>1, <2>2 DEF Tenuti, Tabella
  <1> QED  BY <1>1, <1>2

\* Nor does p touch the program of a thread not born.
LEMMA NonNatiPasso ==
    ASSUME Inv4, NEW p \in Fili, Effetto(p), Scrive(p), Nato(p)
    PROVE  NonNati'
  <1>0. NonNati /\ TypeOK
    BY DEF Inv4, Tavole, Inv2, Inv1
  <1>1. \A q \in Fili : th'[q].st = "non nato" <=> th[q].st = "non nato"
    BY DEF Effetto, AltriPari, Nato
  <1> SUFFICES ASSUME NEW q \in Fili, th'[q].st = "non nato"
               PROVE  /\ \A n \in Numeri : fdt'[Programma[q]][n] = Libero
                      /\ \A x \in Fili : Programma[x] = Programma[q] => th'[x].st = "non nato"
    BY DEF NonNati, Tabella
  <1>2. /\ \A n \in Numeri : fdt[Programma[q]][n] = Libero
        /\ \A x \in Fili : Programma[x] = Programma[q] => th[x].st = "non nato"
    BY <1>0, <1>1 DEF NonNati, Tabella
  <1>3. Programma[p] # Programma[q]
    BY <1>2 DEF Nato
  <1>4. fdt'[Programma[q]] = fdt[Programma[q]]
    <2>1. CASE UNCHANGED fdt
      BY <2>1
    <2>2. CASE ~UNCHANGED fdt
      <3>1. PICK n \in Numeri, x \in Descrittori : fdt' = [fdt EXCEPT ![Programma[p]][n] = x]
        BY <2>2 DEF Scrive
      <3> QED  BY <1>0, <1>3, <3>1 DEF TypeOK, Programmi
    <2> QED  BY <2>1, <2>2
  <1> QED  BY <1>1, <1>2, <1>4

\* What the others ask for is what they asked for.
LEMMA DomandePasso ==
    ASSUME Inv4, NEW p \in Fili, AltriPari(p), Domanda(th'[p])
    PROVE  Domande'
  <1>0. Domande
    BY DEF Inv4
  <1> SUFFICES ASSUME NEW q \in Fili PROVE Domanda(th'[q])
    BY DEF Domande
  <1>1. CASE q # p
    BY <1>0, <1>1 DEF AltriPari, Domande, Domanda
  <1> QED  BY <1>1

\* The step of one thread, or a fork, or an exit.
LEMMA QualeEsito ==
    ASSUME Inv4, "gara" \notin Eventi, Next
    PROVE  \/ \E p \in Fili : AltriPari(p) /\ Esito(p)
           \/ Passano /\ Tacciono
  <1>1. PICK p \in Fili : Passo(p) \/ Chiamata(p) \/ Battito(p) \/ proc_interrompi(p)
    BY DEF Next
  <1>0. Inv2 /\ Posati
    BY DEF Inv4, Tavole
  <1>2. CASE Passo(p) \/ Battito(p) \/ proc_interrompi(p)
    BY <1>0, <1>2, PassoRegole, PassoFatto DEF Effetto, Fatto
  <1>3. CASE Chiamata(p) /\ ~Esce(p) /\ ~\E g \in Programmi : Fork(p, g)
    BY <1>0, <1>3, ChiamataRegole, ChiamataFatto DEF Effetto, Fatto
  <1>4. CASE \E g \in Programmi : Fork(p, g)
    BY <1>4, ForkPassa
  <1>5. CASE Esce(p)
    BY <1>5, EscePassa
  <1> QED  BY <1>1, <1>2, <1>3, <1>4, <1>5

\* The invariant is inductive.
LEMMA Inv4Passo ==
    ASSUME "gara" \notin Eventi
    PROVE  Inv4 /\ [Next]_vars => Inv4'
  <1> SUFFICES ASSUME Inv4, [Next]_vars PROVE Inv4'
    OBVIOUS
  <1>0. Inv2 /\ Posati /\ Tavole
    BY DEF Inv4, Tavole
  <1>1. Tavole'
    BY <1>0, TavolePasso
  <1>2. ASSUME NEW p \in Fili, Effetto(p), Scrive(p), Fatto(p)
        PROVE  Tenuti' /\ NonNati' /\ Domande' /\ Conti'
    <2>1. Conti' /\ Tiene2(p) /\ Domanda(th'[p]) /\ Nato(p) /\ AltriPari(p)
      BY <1>2 DEF Fatto, Effetto
    <2> QED  BY <1>2, <2>1, TenutiPasso, NonNatiPasso, DomandePasso
  <1>3. CASE UNCHANGED vars
    <2>1. UNCHANGED <<pipe, fdt, th>>
      BY <1>3 DEF vars
    <2>2. Tenuti' /\ NonNati' /\ Domande'
      BY <2>1 DEF Inv4, Tenuti, NonNati, Domande, Tabella
    <2>3. \A h, tipo : Capi(h, tipo)' = Capi(h, tipo)
      BY <2>1 DEF Capi, Vivi, Presi, Vivo
    <2>4. Conti'
      BY <2>1, <2>3 DEF Inv4, Conti
    <2> QED  BY <1>1, <2>2, <2>4 DEF Inv4
  <1>4. CASE Next
    <2>1. PICK p \in Fili : Passo(p) \/ Chiamata(p) \/ Battito(p) \/ proc_interrompi(p)
      BY <1>4 DEF Next
    <2>2. CASE Passo(p) \/ Battito(p) \/ proc_interrompi(p)
      <3>1. Effetto(p) /\ Scrive(p) /\ Fatto(p)
        BY <1>0, <2>2, PassoRegole, PassoFatto
      <3> QED  BY <1>1, <1>2, <3>1 DEF Inv4
    <2>3. CASE Chiamata(p) /\ ~Esce(p) /\ ~\E g \in Programmi : Fork(p, g)
      <3>1. Effetto(p) /\ Scrive(p) /\ Fatto(p)
        BY <1>0, <2>3, ChiamataRegole, ChiamataFatto
      <3> QED  BY <1>1, <1>2, <3>1 DEF Inv4
    <2>4. CASE \E g \in Programmi : Fork(p, g)
      <3>1. Passano /\ Tenuti' /\ NonNati' /\ Domande'
        BY <2>4, ForkPassa
      <3> QED  BY <1>1, <3>1, PassanoConti DEF Inv4
    <2>5. CASE Esce(p)
      <3>1. Passano /\ Tenuti' /\ NonNati' /\ Domande'
        BY <2>5, EscePassa
      <3> QED  BY <1>1, <3>1, PassanoConti DEF Inv4
    <2> QED  BY <2>1, <2>2, <2>3, <2>4, <2>5
  <1> QED  BY <1>3, <1>4

-----------------------------------------------------------------------------
(* The refinement.                                                         *)

\* Nothing is open at the beginning.
LEMMA Inv4Init == Init => Inv4
  <1> SUFFICES ASSUME Init PROVE Inv4
    OBVIOUS
  <1>1. ASSUME NEW p \in Fili
        PROVE  /\ th[p].op = "no"
               /\ th[p].st = IF Programma[p] = Primo THEN "fuori" ELSE "non nato"
    <2>1. th[p] = IF Programma[p] = Primo THEN Fuori(Zitto) ELSE [Fuori(Zitto) EXCEPT !.st = "non nato"]
      BY DEF Init
    <2>2. /\ Fuori(Zitto).st = "fuori" /\ Fuori(Zitto).op = "no"
          /\ [Fuori(Zitto) EXCEPT !.st = "non nato"].st = "non nato"
          /\ [Fuori(Zitto) EXCEPT !.st = "non nato"].op = "no"
      BY DEF Fuori
    <2> QED  BY <2>1, <2>2
  <1>2. ASSUME NEW g \in Programmi, NEW n \in Numeri
        PROVE  /\ fdt[g][n] \in {Libero, UnFile}
               /\ g # Primo => fdt[g][n] = Libero
    BY DEF Init
  <1>3. Tenuti /\ Domande
    BY <1>1 DEF Tenuti, Domande, Domanda
  <1>4. NonNati
    BY <1>1, <1>2 DEF NonNati, Tabella, Programmi
  <1>5. ASSUME NEW h \in Tubi, NEW tipo \in {"R", "W"}
        PROVE  Capi(h, tipo) = 0
    <2>1. Vivi(h, tipo) = {}
      <3>1. ASSUME NEW d \in Programmi \X Numeri PROVE ~Vivo(d[1], d[2], h, tipo)
        <4>1. fdt[d[1]][d[2]] \in {Libero, UnFile}
          BY <1>2
        <4>2. fdt[d[1]][d[2]].tipo \in {"no", "file"}
          BY <4>1 DEF Libero, UnFile
        <4> QED  BY <4>2 DEF Vivo
      <3> QED  BY <3>1 DEF Vivi
    <2>2. Presi(h, tipo) = {}
      BY <1>1 DEF Presi, Tiene
    <2> QED  BY <2>1, <2>2, FS_EmptySet DEF Capi
  <1>6. Conti
    <2> SUFFICES ASSUME NEW h \in Tubi PROVE Giusto(pipe[h], Capi(h, "R"), Capi(h, "W"))
      BY DEF Conti
    <2>1. Capi(h, "R") = 0 /\ Capi(h, "W") = 0
      BY <1>5
    <2>2. /\ pipe[h].usata = FALSE /\ pipe[h].testa = 0 /\ pipe[h].quanti = 0
          /\ pipe[h].lettori = 0 /\ pipe[h].scrittori = 0
      BY DEF Init
    <2> QED  BY <2>1, <2>2, MisureTubi DEF Giusto
  <1> QED  BY <1>3, <1>4, <1>6, Inv3Init DEF Inv4, Inv3

\* What the abstract pipes are, in terms of the concrete ones.
Bytes == [h \in Tubi |-> CodaDi(pipe[h])]
Letti == [h \in Tubi |-> Capi(h, "R")]
Scritti == [h \in Tubi |-> Capi(h, "W")]
Risposte == [p \in Fili |-> th[p].reso]

\* The ends that are open are the ones that are counted.
LEMMA CapiAperti ==
    Inv4 => /\ [h \in Tubi |-> Aperti(h, "R")] = Letti
            /\ [h \in Tubi |-> Aperti(h, "W")] = Scritti
  <1> SUFFICES ASSUME Inv4
               PROVE  /\ [h \in Tubi |-> Aperti(h, "R")] = Letti
                      /\ [h \in Tubi |-> Aperti(h, "W")] = Scritti
    OBVIOUS
  <1>1. Soli /\ Tenuti /\ Forma
    BY DEF Inv4, Tavole, Inv2, Inv1
  <1>2. ASSUME NEW h \in Tubi PROVE Aperti(h, "R") = Capi(h, "R") /\ Aperti(h, "W") = Capi(h, "W")
    BY <1>1, ApertiCapi
  <1> QED  BY <1>2 DEF Letti, Scritti

\* The contents of the abstract pipes, as the mapping writes them.
LEMMA BytesDi ==
    [h \in Tubi |-> [i \in 1 .. pipe[h].quanti |-> pipe[h].buf[(pipe[h].testa + i - 1) % Dim]]]
        = Bytes
  BY DEF Bytes, CodaDi, Coda

\* The beginning is the beginning.
LEMMA TuboInit == Init => Tubo_!Init
  <1> SUFFICES ASSUME Init PROVE Tubo_!Init
    OBVIOUS
  <1>1. Inv4
    BY Inv4Init
  <1>2. ASSUME NEW h \in Tubi
        PROVE  /\ CodaDi(pipe[h]) = <<>> /\ Capi(h, "R") = 0 /\ Capi(h, "W") = 0
    <2>1. pipe[h].quanti = 0 /\ pipe[h].usata = FALSE
      BY DEF Init
    <2> QED  BY <1>1, <2>1, ContiDi, CodaVuota DEF CodaDi, Giusto
  <1>3. ASSUME NEW p \in Fili PROVE th[p].reso = Zitto
    <2>1. th[p] = IF Programma[p] = Primo THEN Fuori(Zitto) ELSE [Fuori(Zitto) EXCEPT !.st = "non nato"]
      BY DEF Init
    <2>2. Fuori(Zitto).reso = Zitto /\ [Fuori(Zitto) EXCEPT !.st = "non nato"].reso = Zitto
      BY DEF Fuori
    <2> QED  BY <2>1, <2>2
  <1>4. /\ Bytes = [h \in Tubi |-> <<>>] /\ Letti = [h \in Tubi |-> 0]
        /\ Scritti = [h \in Tubi |-> 0]
    BY <1>2 DEF Bytes, Letti, Scritti
  <1>5. [p \in Fili |-> th[p].reso] = [p \in Fili |-> Zitto]
    BY <1>3
  <1> QED  BY <1>1, <1>4, <1>5, CapiAperti, BytesDi DEF Tubo_!Init

\* The abstract state before and after a step.
LEMMA Ritratti ==
    ASSUME Inv4, Inv4'
    PROVE  /\ [h \in Tubi |-> Aperti(h, "R")] = Letti /\ [h \in Tubi |-> Aperti(h, "R")]' = Letti'
           /\ [h \in Tubi |-> Aperti(h, "W")] = Scritti /\ [h \in Tubi |-> Aperti(h, "W")]' = Scritti'
           /\ [h \in Tubi |-> [i \in 1 .. pipe[h].quanti |->
                                 pipe[h].buf[(pipe[h].testa + i - 1) % Dim]]] = Bytes
           /\ [h \in Tubi |-> [i \in 1 .. pipe[h].quanti |->
                                 pipe[h].buf[(pipe[h].testa + i - 1) % Dim]]]' = Bytes'
           /\ [p \in Fili |-> th[p].reso] = Risposte /\ [p \in Fili |-> th[p].reso]' = Risposte'
  <1>1. (Inv4 => /\ [h \in Tubi |-> Aperti(h, "R")] = Letti
                 /\ [h \in Tubi |-> Aperti(h, "W")] = Scritti)'
    BY CapiAperti, PTL
  <1>2. ([h \in Tubi |-> [i \in 1 .. pipe[h].quanti |->
                            pipe[h].buf[(pipe[h].testa + i - 1) % Dim]]] = Bytes)'
    BY BytesDi, PTL
  <1> QED  BY <1>1, <1>2, CapiAperti, BytesDi DEF Risposte

\* Ends opened and closed.
LEMMA TuboCapi ==
    ASSUME Inv4, Inv4', Passano, Tacciono
    PROVE  Tubo_!Capi
  <1>1. /\ \E S \in SUBSET Fili : Risposte' = [p \in Fili |-> IF p \in S THEN Zitto ELSE Risposte[p]]
        /\ \A h \in Tubi :
             /\ Letti[h] = 0 /\ Letti'[h] > 0 =>
                   Scritti[h] = 0 /\ Letti'[h] = 1 /\ Scritti'[h] = 1
             /\ Scritti[h] = 0 /\ Scritti'[h] > 0 =>
                   Letti[h] = 0 /\ Letti'[h] = 1 /\ Scritti'[h] = 1
             /\ Bytes'[h] = IF Letti'[h] = 0 /\ Scritti'[h] = 0 THEN <<>> ELSE Bytes[h]
    <2>1. \E S \in SUBSET Fili : Risposte' = [p \in Fili |-> IF p \in S THEN Zitto ELSE Risposte[p]]
      <3>1. PICK S \in SUBSET Fili : S = {q \in Fili : th'[q].reso = Zitto}
        OBVIOUS
      <3>2. \A q \in Fili : th'[q].reso = IF q \in S THEN Zitto ELSE th[q].reso
        BY <3>1 DEF Tacciono
      <3>3. Risposte' = [p \in Fili |-> IF p \in S THEN Zitto ELSE Risposte[p]]
        BY <3>2 DEF Risposte
      <3> QED  BY <3>3
    <2>2. ASSUME NEW h \in Tubi
          PROVE  /\ Letti[h] = 0 /\ Letti'[h] > 0 =>
                       Scritti[h] = 0 /\ Letti'[h] = 1 /\ Scritti'[h] = 1
                 /\ Scritti[h] = 0 /\ Scritti'[h] > 0 =>
                       Letti[h] = 0 /\ Letti'[h] = 1 /\ Scritti'[h] = 1
                 /\ Bytes'[h] = IF Letti'[h] = 0 /\ Scritti'[h] = 0 THEN <<>> ELSE Bytes[h]
      BY DEF Passano, Passa, Letti, Scritti, Bytes
    <2> QED  BY <2>1, <2>2
  <1>2. ASSUME NEW h \in Tubi
        PROVE  /\ Aperti(h, "R") = Letti[h] /\ Aperti(h, "R")' = Letti'[h]
               /\ Aperti(h, "W") = Scritti[h] /\ Aperti(h, "W")' = Scritti'[h]
    BY Ritratti
  <1>3. ASSUME NEW h \in Tubi
        PROVE  /\ [i \in 1 .. pipe[h].quanti |-> pipe[h].buf[(pipe[h].testa + i - 1) % Dim]]
                    = Bytes[h]
               /\ [i \in 1 .. pipe[h].quanti |-> pipe[h].buf[(pipe[h].testa + i - 1) % Dim]]'
                    = Bytes'[h]
    BY DEF Bytes, CodaDi, Coda
  <1>4. \E S \in SUBSET Fili :
           [p \in Fili |-> th[p].reso]' = [p \in Fili |-> IF p \in S THEN Zitto
                                                         ELSE [q \in Fili |-> th[q].reso][p]]
    BY <1>1 DEF Risposte
  <1>5. ASSUME NEW h \in Tubi
        PROVE  /\ Aperti(h, "R") = 0 /\ Aperti(h, "R")' > 0 =>
                     Aperti(h, "W") = 0 /\ Aperti(h, "R")' = 1 /\ Aperti(h, "W")' = 1
               /\ Aperti(h, "W") = 0 /\ Aperti(h, "W")' > 0 =>
                     Aperti(h, "R") = 0 /\ Aperti(h, "R")' = 1 /\ Aperti(h, "W")' = 1
    BY <1>1, <1>2
  <1>6. ASSUME NEW h \in Tubi
        PROVE  [i \in 1 .. pipe[h].quanti |-> pipe[h].buf[(pipe[h].testa + i - 1) % Dim]]'
                 = IF Aperti(h, "R")' = 0 /\ Aperti(h, "W")' = 0 THEN <<>>
                   ELSE [i \in 1 .. pipe[h].quanti |-> pipe[h].buf[(pipe[h].testa + i - 1) % Dim]]
    <2>1. Bytes'[h] = IF Aperti(h, "R")' = 0 /\ Aperti(h, "W")' = 0 THEN <<>> ELSE Bytes[h]
      BY <1>1, <1>2
    <2> QED  BY <1>3, <2>1
  <1>7. ASSUME NEW h \in Tubi
        PROVE  /\ [j \in Tubi |-> Aperti(j, "R")][h] = 0 /\ ([j \in Tubi |-> Aperti(j, "R")]')[h] > 0
                  => /\ [j \in Tubi |-> Aperti(j, "W")][h] = 0
                     /\ ([j \in Tubi |-> Aperti(j, "R")]')[h] = 1
                     /\ ([j \in Tubi |-> Aperti(j, "W")]')[h] = 1
               /\ [j \in Tubi |-> Aperti(j, "W")][h] = 0 /\ ([j \in Tubi |-> Aperti(j, "W")]')[h] > 0
                  => /\ [j \in Tubi |-> Aperti(j, "R")][h] = 0
                     /\ ([j \in Tubi |-> Aperti(j, "R")]')[h] = 1
                     /\ ([j \in Tubi |-> Aperti(j, "W")]')[h] = 1
    BY <1>5
  <1>8. ASSUME NEW h \in Tubi
        PROVE  ([j \in Tubi |-> [i \in 1 .. pipe[j].quanti |->
                                   pipe[j].buf[(pipe[j].testa + i - 1) % Dim]]]')[h]
                 = IF /\ ([j \in Tubi |-> Aperti(j, "R")]')[h] = 0
                      /\ ([j \in Tubi |-> Aperti(j, "W")]')[h] = 0
                   THEN <<>>
                   ELSE [j \in Tubi |-> [i \in 1 .. pipe[j].quanti |->
                                           pipe[j].buf[(pipe[j].testa + i - 1) % Dim]]][h]
    BY <1>6
  <1> QED  BY <1>4, <1>7, <1>8, Zenon DEF Tubo_!Capi

\* The answers after a step of p are those before, but for p's.
LEMMA RisposteDi ==
    ASSUME NEW p \in Fili, AltriPari(p)
    PROVE  Risposte' = [Risposte EXCEPT ![p] = th'[p].reso]
  BY DEF Risposte, AltriPari

\* Counts that do not change.
LEMMA PariDi ==
    ASSUME ContiPari
    PROVE  Letti' = Letti /\ Scritti' = Scritti
  BY DEF ContiPari, Letti, Scritti

\* A call that moved nothing.
LEMMA TuboRisponde ==
    ASSUME Inv4, Inv4', NEW p \in Fili, AltriPari(p), NEW h \in Tubi, NEW che, Risposta(p, h, che)
    PROVE  Tubo_!Risponde(p, h, che)
  <1>1. Risposte' = [Risposte EXCEPT ![p] = [che |-> che, dati |-> <<>>]]
    BY RisposteDi DEF Risposta
  <1>2. Letti' = Letti /\ Scritti' = Scritti /\ Bytes' = Bytes
    BY PariDi DEF Risposta, Bytes
  <1>3. /\ che = "fine" => Bytes[h] = <<>> /\ Scritti[h] = 0
        /\ che = "rotto" => Letti[h] = 0
        /\ che = "riprova" => Len(Bytes[h]) \in {0, Dim}
    BY DEF Risposta, Bytes, Letti, Scritti
  <1> QED  BY <1>1, <1>2, <1>3, Ritratti DEF Tubo_!Risponde, Tubo_!Reso

\* A step on the bytes of h.
LEMMA BytesUno ==
    ASSUME NEW h \in Tubi, \A j \in Tubi \ {h} : pipe'[j] = pipe[j]
    PROVE  Bytes' = [Bytes EXCEPT ![h] = CodaDi(pipe'[h])]
  BY DEF Bytes

\* A read.
LEMMA TuboLegge ==
    ASSUME Inv4, Inv4', NEW p \in Fili, AltriPari(p), NEW h \in Tubi, NEW k, Letto(p, h, k)
    PROVE  Tubo_!Legge(p, h, k)
  <1>1. Risposte' = [Risposte EXCEPT ![p] = [che |-> "letto", dati |-> SubSeq(Bytes[h], 1, k)]]
    BY RisposteDi DEF Letto, Bytes
  <1>2. Letti' = Letti /\ Scritti' = Scritti
    BY PariDi DEF Letto
  <1>3. Bytes' = [Bytes EXCEPT ![h] = SubSeq(Bytes[h], k + 1, Len(Bytes[h]))]
    BY BytesUno DEF Letto, Bytes
  <1>4. k \in 1 .. Len(Bytes[h])
    BY DEF Letto, Bytes
  <1> QED  BY <1>1, <1>2, <1>3, <1>4, Ritratti DEF Tubo_!Legge, Tubo_!Reso

\* A write.
LEMMA TuboScrive ==
    ASSUME Inv4, Inv4', NEW p \in Fili, AltriPari(p), NEW h \in Tubi, NEW s, Scritto(p, h, s)
    PROVE  Tubo_!Scrive(p, h, s) /\ Risposte'[p].dati = s
  <1>1. Risposte' = [Risposte EXCEPT ![p] = [che |-> "scritto", dati |-> s]]
    BY RisposteDi DEF Scritto
  <1>2. Letti' = Letti /\ Scritti' = Scritti
    BY PariDi DEF Scritto
  <1>3. Bytes' = [Bytes EXCEPT ![h] = Bytes[h] \o s]
    BY BytesUno DEF Scritto, Bytes
  <1>4. Letti[h] > 0 /\ s # <<>> /\ Len(Bytes[h]) + Len(s) <= Dim
    BY DEF Scritto, Bytes, Letti
  <1>5. Risposte'[p].dati = s
    BY DEF Risposte, Scritto
  <1> QED  BY <1>1, <1>2, <1>3, <1>4, <1>5, Ritratti DEF Tubo_!Scrive, Tubo_!Reso

\* Every step is a step of the abstract pipes.
LEMMA TuboPasso ==
    ASSUME "gara" \notin Eventi
    PROVE  Inv4 /\ Inv4' /\ [Next]_vars => [Tubo_!Next]_Tubo_!vars
  <1> SUFFICES ASSUME Inv4, Inv4', [Next]_vars
               PROVE  Tubo_!Next \/ UNCHANGED Tubo_!vars
    OBVIOUS
  <1>1. CASE UNCHANGED vars
    <2>1. UNCHANGED <<pipe, fdt, th>>
      BY <1>1 DEF vars
    <2>2. /\ [h \in Tubi |-> Aperti(h, "R")]' = [h \in Tubi |-> Aperti(h, "R")]
          /\ [h \in Tubi |-> Aperti(h, "W")]' = [h \in Tubi |-> Aperti(h, "W")]
      BY <2>1 DEF Aperti
    <2> QED  BY <2>1, <2>2 DEF Tubo_!vars
  <1>2. CASE Next
    <2>1. CASE Passano /\ Tacciono
      BY <2>1, TuboCapi DEF Tubo_!Next
    <2>2. CASE \E p \in Fili : AltriPari(p) /\ Esito(p)
      <3>1. PICK p \in Fili : AltriPari(p) /\ Esito(p)
        BY <2>2
      <3>2. CASE Passano /\ th'[p].reso \in {th[p].reso, Zitto}
        <4>1. Tacciono
          BY <3>1, <3>2 DEF Tacciono, AltriPari
        <4> QED  BY <3>2, <4>1, TuboCapi DEF Tubo_!Next
      <3>3. ASSUME NEW h \in Tubi, NEW che \in {"fine", "rotto", "riprova", "altro", "pronto"},
                   Risposta(p, h, che)
            PROVE  Tubo_!Next
        <4>1. Tubo_!Risponde(p, h, che)
          BY <3>1, <3>3, TuboRisponde
        <4> QED  BY <4>1 DEF Tubo_!Next
      <3>4. ASSUME NEW h \in Tubi, NEW k \in 1 .. Dim, Letto(p, h, k)
            PROVE  Tubo_!Next
        <4>1. Tubo_!Legge(p, h, k)
          BY <3>1, <3>4, TuboLegge
        <4> QED  BY <4>1 DEF Tubo_!Next
      <3>5. ASSUME NEW h \in Tubi, NEW s, Scritto(p, h, s)
            PROVE  Tubo_!Next
        <4>1. Tubo_!Scrive(p, h, s) /\ Risposte'[p].dati = s
          BY <3>1, <3>5, TuboScrive
        <4>2. s \in {[q \in Fili |-> th'[q].reso][p].dati}
          BY <4>1 DEF Risposte
        <4> QED  BY <4>1, <4>2 DEF Tubo_!Next
      <3> QED  BY <3>1, <3>2, <3>3, <3>4, <3>5 DEF Esito
    <2> QED  BY <1>2, <2>1, <2>2, QualeEsito
  <1> QED  BY <1>1, <1>2

\* Where the threads of one program do not race for a descriptor ("gara"), a
\* pipe is the queue of module Tubo: what pipe_leggi gives is what pipe_scrivi
\* put in, in order and once; the end of the data is announced only when they are
\* over and no descriptor, of any program and in any call under way, is left to
\* write with; a pipe is broken only when none is left to read.
THEOREM TuboImplementato ==
    ASSUME "gara" \notin Eventi
    PROVE  Spec => ImplementaTubo
  <1>1. Inv4 /\ [Next]_vars => Inv4'
    BY Inv4Passo
  <1>2. Inv4 /\ Inv4' /\ [Next]_vars => [Tubo_!Next]_Tubo_!vars
    BY TuboPasso
  <1> QED  BY <1>1, <1>2, Inv4Init, TuboInit, PTL DEF Spec, ImplementaTubo, Tubo_!Spec

\* The counts of every pipe in use are right, whatever calls are half-way.
ContiVeri ==
    \A h \in Tubi : pipe[h].usata => /\ pipe[h].lettori = Aperti(h, "R")
                                     /\ pipe[h].scrittori = Aperti(h, "W")
                                     /\ pipe[h].lettori + pipe[h].scrittori > 0

\* pipe_apri and pipe_chiudi are called as often as descriptors appear and go,
\* across dup2, close, fork and exit: the counts of a pipe are the ends that are
\* open, and a pipe in use has one at least.
THEOREM CapiContati ==
    ASSUME "gara" \notin Eventi
    PROVE  Spec => []ContiVeri
  <1>1. Inv4 => ContiVeri
    <2> SUFFICES ASSUME Inv4, NEW h \in Tubi, pipe[h].usata
                 PROVE  /\ pipe[h].lettori = Aperti(h, "R")
                        /\ pipe[h].scrittori = Aperti(h, "W")
                        /\ pipe[h].lettori + pipe[h].scrittori > 0
      BY DEF ContiVeri
    <2>1. Soli /\ Tenuti /\ Forma
      BY DEF Inv4, Tavole, Inv2, Inv1
    <2>2. Aperti(h, "R") = Capi(h, "R") /\ Aperti(h, "W") = Capi(h, "W")
      BY <2>1, ApertiCapi
    <2> QED  BY <2>2, ContiDi DEF Giusto
  <1> QED  BY <1>1, Inv4Init, Inv4Passo, PTL DEF Spec
=============================================================================
