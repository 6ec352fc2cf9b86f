--------------------------- MODULE ProcessiProofs ---------------------------
(***************************************************************************)
(* Proofs about Processi: the life of a process and the collection of its  *)
(* zombie, for every size of the process table, every bound on the pids    *)
(* and every set of events but "riuso" (pcb_alloc takes a slot whose       *)
(* collector has declared it free and still clears its fields), which      *)
(* breaks the ownership of a slot.                                         *)
(*                                                                         *)
(* The inductive invariant has two layers.  Inv1 is the shape: the types,  *)
(* where a frame points and how far a scan has come.  Inv2 is ownership:   *)
(* one collector per PCB (Raccolte), one creator per newborn (Nascenti),   *)
(* pids given out once (Freschi), a process that runs has all its fields   *)
(* (Interi), a directory is named after its group (Radici), it lives as    *)
(* long as a member does (Spazi), and whoever is about to destroy it found *)
(* the group empty, which it stays (Deserti).                              *)
(***************************************************************************)
EXTENDS Processi, WellFoundedInduction, TLAPS

-----------------------------------------------------------------------------
(* The first layer.                                                        *)

Telai == [pc : Pc, i : 1..N + 1, p : 0..N, letto : Pid, mira : Pid,
          vivi : BOOLEAN, per : {"no", "spawn", "fork", "filo"}]

\* Who is creating a process; whose frame points to a PCB; who is between
\* the claim of a PCB and its release, or between pcb_alloc and the end of a
\* creation.
Crea == {"c_campi", "c_filo", "c_pronto"}
Puntano == Raccoglie \cup Crea \cup {"r_entra", "r_cas", "i_decide", "a_padre"}
Stretti == Raccoglie \cup Crea

\* The frame of init: it only scans and collects, and a slot it has found is
\* in the table.
DiInit(r) ==
    /\ r.pc \in {"i_cerca", "i_decide", "r_entra", "r_cas"} \cup Raccoglie
    /\ r.pc # "i_cerca" => r.i <= N

\* A frame r that actor a can have.
Adatto(a, r) ==
    /\ r \in Telai
    /\ r.pc \in Puntano => r.p \in Posti
    /\ a = Init0 => DiInit(r)
    /\ a \in Posti => r.pc \notin {"i_cerca", "i_decide"}

Telaio == \A a \in Attori : Adatto(a, k[a])

Inv1 == TypeOK /\ Telaio

-----------------------------------------------------------------------------
(* Facts about the operators.                                              *)

\* Every set of natural numbers with an element has a least one, and Min is
\* it: the first free slot of pcb_alloc, the first PCB of a lookup.
LEMMA Minimo ==
    ASSUME NEW S, S \subseteq Nat, S # {}
    PROVE  Min(S) \in S /\ \A y \in S : Min(S) <= y
<1> DEFINE R == {ss \in Nat \X Nat : ss[1] < ss[2]}
<1>1. OpToRel(<, Nat) = R
  BY DEF OpToRel
<1>2. IsWellFoundedOn(R, Nat)
  BY <1>1, NatLessThanWellFounded
<1>3. \E x \in S : \A y \in S : ~(<<y, x>> \in R)
  <2> HIDE DEF R
  <2> QED
    BY <1>2, WFMin, Zenon
<1>4. PICK x \in S : \A y \in S : ~(<<y, x>> \in R)
  BY <1>3
<1>5. \A y \in S : x <= y
  <2> TAKE y \in S
  <2>1. x \in Nat /\ y \in Nat /\ ~(<<y, x>> \in R)
    BY <1>4
  <2>2. y < x => <<y, x>> \in R
    BY <2>1, <<y, x>> \in Nat \X Nat
  <2> QED
    BY <2>1, <2>2
<1> QED
  BY <1>5 DEF Min

\* The slots and the actors.
LEMMA Luoghi ==
    /\ N \in Nat /\ 1 <= N /\ Posti \subseteq Nat /\ Posti \subseteq 0..N
    /\ Init0 \in Attori /\ Init0 \notin Posti /\ Posti \subseteq Attori
    /\ \A a \in Attori : a \in Posti \/ a = Init0
    /\ 0 \in Pid /\ 1 \in Pid /\ 2 \in Pid /\ 1 \in 1..N + 1 /\ 1 \in Posti
    /\ 0 \in 0..N /\ N + 1 \in 1..N + 1
BY NAssumption, MaxPidAssumption DEF Posti, Init0, Attori, Pid

\* The names of the steps, and which of them hold a PCB.
LEMMA Nomi ==
    /\ Raccoglie \subseteq Pc /\ Crea \subseteq Pc
    /\ Raccoglie \subseteq Stretti /\ Crea \subseteq Stretti /\ Stretti \subseteq Puntano
    /\ \A c \in Crea : c \notin Raccoglie
    /\ \A c \in {"usr", "esce", "i_cerca", "w_cerca", "w_sveglio", "a_cerca",
                 "a_dorme", "a_sveglio"} : c \in Pc /\ c \notin Stretti /\ c \notin Puntano
    /\ \A c \in {"r_entra", "r_cas", "i_decide", "a_padre"} :
         c \in Pc /\ c \notin Stretti /\ c \in Puntano
    /\ \A c \in {"r_ricontrolla", "r_spazio", "r_distrugge", "r_libera", "r_azzera"} :
         c \in Raccoglie
    /\ \A c \in {"c_campi", "c_filo", "c_pronto"} : c \in Crea
BY DEF Pc, Raccoglie, Crea, Stretti, Puntano

\* A frame is a frame of its type whatever step it stands at.
LEMMA FermoTelaio ==
    ASSUME NEW c \in Pc
    PROVE  /\ [Fermo EXCEPT !.pc = c] \in Telai
           /\ [Fermo EXCEPT !.pc = c].pc = c
           /\ [Fermo EXCEPT !.pc = c].p = 0
           /\ [Fermo EXCEPT !.pc = c].i = 1
           /\ [Fermo EXCEPT !.pc = c].per = "no"
BY Luoghi DEF Fermo, Telai

\* Back to ring 3.
LEMMA RientroAdatto ==
    ASSUME Inv1, NEW s \in Posti
    PROVE  /\ Rientro(s) \in Telai /\ Adatto(s, Rientro(s))
           /\ Rientro(s).pc \in {"usr", "esce"} /\ Rientro(s).per = "no"
<1> DEFINE c == IF s \in interrotto THEN "esce" ELSE "usr"
<1>1. c \in {"usr", "esce"} /\ c \in Pc /\ c \notin Puntano /\ c \notin {"i_cerca", "i_decide"}
  BY Nomi
<1>2. Rientro(s) = [Fermo EXCEPT !.pc = c]
  BY DEF Rientro
<1>3. s # Init0
  BY Luoghi
<1> HIDE DEF c
<1> QED
  BY <1>1, <1>2, <1>3, FermoTelaio DEF Adatto

\* After proc_reap_zombie, for init and for a system call.
LEMMA DopoAdatto ==
    ASSUME Inv1, NEW a \in Attori, a = Init0 => k[a].i <= N
    PROVE  /\ Dopo(a) \in Telai /\ Adatto(a, Dopo(a))
           /\ Dopo(a).pc \in {"usr", "esce", "i_cerca"}
<1>1. CASE a = Init0
  <2>1. k[a].i \in Nat /\ k[a].i + 1 \in 1..N + 1
    BY <1>1, Luoghi DEF Inv1, Telaio, Adatto, Telai
  <2>2. PICK j \in 1..N + 1 : j = k[a].i + 1
    BY <2>1
  <2>3. Dopo(a) = [Fermo EXCEPT !.pc = "i_cerca", !.i = j]
    BY <1>1, <2>2 DEF Dopo
  <2>4. "i_cerca" \in Pc /\ "i_cerca" \notin Puntano
    BY Nomi
  <2>5. Dopo(a) \in Telai /\ Dopo(a).pc = "i_cerca"
    BY <2>3, <2>4, Luoghi DEF Fermo, Telai
  <2> QED
    BY <1>1, <2>5, <2>4, Luoghi DEF Adatto, DiInit
<1>2. CASE a \in Posti
  BY <1>2, RientroAdatto, Luoghi DEF Dopo
<1> QED
  BY <1>1, <1>2, Luoghi

-----------------------------------------------------------------------------
(* What each step does, actor by actor: a goes from its frame to r.        *)

Passa(a, r) == Corre(a) /\ Adatto(a, r) /\ k' = [k EXCEPT ![a] = r]

\* Steps that touch no PCB: scans, lookups, returns, and the claim that fails.
Gira(a, r) ==
    /\ Passa(a, r) /\ k[a].pc \notin Stretti /\ r.pc \notin Stretti
    /\ aspetta' \subseteq Posti
    /\ UNCHANGED <<pcb, st, pd, raccolta, staccato, interrotto, nextPid, distrutta>>

\* The claim that succeeds, and the one given back.
Prende(a, r) ==
    /\ Passa(a, r) /\ k[a].pc = "r_cas" /\ r.pc = "r_ricontrolla" /\ r.p = k[a].p
    /\ k[a].p \notin raccolta /\ raccolta' = raccolta \cup {k[a].p}
    /\ UNCHANGED <<pcb, st, pd, staccato, aspetta, interrotto, nextPid, distrutta>>

Rinuncia(a, r) ==
    /\ Passa(a, r) /\ k[a].pc = "r_ricontrolla" /\ r.pc \notin Stretti
    /\ raccolta' = raccolta \ {k[a].p}
    /\ UNCHANGED <<pcb, st, pd, staccato, aspetta, interrotto, nextPid, distrutta>>

Conferma(a, r) ==
    /\ Passa(a, r) /\ k[a].pc = "r_ricontrolla" /\ r.pc = "r_spazio"
    /\ r.p = k[a].p /\ r.letto = k[a].letto /\ Ancora(a)
    /\ UNCHANGED <<pcb, st, pd, segni, nextPid, distrutta>>

\* The directory goes, or stays.
Domanda(a, r) ==
    /\ Passa(a, r) /\ k[a].pc = "r_spazio" /\ r.pc = "r_distrugge"
    /\ r.p = k[a].p /\ r.letto = k[a].letto
    /\ SpazioDaFare(k[a].p) /\ r.mira = pd[k[a].p]
    /\ UNCHANGED <<pcb, st, pd, segni, nextPid, distrutta>>

Lascia(a, r) ==
    /\ Passa(a, r) /\ k[a].pc = "r_spazio" /\ r.pc = "r_libera"
    /\ r.p = k[a].p /\ r.letto = k[a].letto
    /\ pd' = [pd EXCEPT ![k[a].p] = 0]
    /\ UNCHANGED <<pcb, st, segni, nextPid, distrutta>>

Distrugge(a, r) ==
    /\ Passa(a, r) /\ k[a].pc = "r_distrugge" /\ r.pc = "r_libera"
    /\ r.p = k[a].p /\ r.letto = k[a].letto
    /\ pd' = [x \in Posti |-> IF pd[x] = k[a].mira \/ x = k[a].p THEN 0 ELSE pd[x]]
    /\ distrutta' = [distrutta EXCEPT ![k[a].mira] = @ + 1]
    /\ UNCHANGED <<pcb, st, segni, nextPid>>

\* The slot is free, then cleared.
Libera(a, r) ==
    /\ Passa(a, r) /\ k[a].pc = "r_libera" /\ r.pc = "r_azzera" /\ r.p = k[a].p
    /\ st' = [st EXCEPT ![k[a].p] = "UNUSED"]
    /\ UNCHANGED <<pcb, pd, segni, nextPid, distrutta>>

Azzera(a, r) ==
    /\ Passa(a, r) /\ k[a].pc = "r_azzera" /\ r.pc \notin Stretti
    /\ pid' = [pid EXCEPT ![k[a].p] = 0]
    /\ ppid' = [ppid EXCEPT ![k[a].p] = 0]
    /\ pd' = [pd EXCEPT ![k[a].p] = 0]
    /\ raccolta' = raccolta \ {k[a].p}
    /\ UNCHANGED <<tgid, codice, st, staccato, aspetta, interrotto, nextPid, distrutta>>

\* pcb_alloc: two frames change, the creator's and the (still) one of slot x.
Alloca(s, x, r) ==
    /\ s \in Posti /\ st[s] = "READY" /\ Adatto(s, r) /\ k[s].pc = "usr"
    /\ x \in Posti /\ st[x] = "UNUSED" /\ ("riuso" \in Eventi \/ x \notin raccolta)
    /\ r.pc = "c_campi" /\ r.p = x
    /\ k' = [k EXCEPT ![x] = Fermo, ![s] = r]
    /\ st' = [st EXCEPT ![x] = "NASCENTE"]
    /\ pid' = [pid EXCEPT ![x] = 0]
    /\ ppid' = [ppid EXCEPT ![x] = 0]
    /\ tgid' = [tgid EXCEPT ![x] = 0]
    /\ codice' = [codice EXCEPT ![x] = 0]
    /\ pd' = [pd EXCEPT ![x] = 0]
    /\ raccolta' = raccolta \ {x}
    /\ staccato' \subseteq Posti /\ aspetta' \subseteq Posti /\ interrotto' \subseteq Posti
    /\ UNCHANGED <<nextPid, distrutta>>

Nasce(s, r, q) ==
    /\ s \in Posti /\ Passa(s, r) /\ k[s].pc = "c_campi" /\ r.pc \in {"c_filo", "c_pronto"}
    /\ r.p = k[s].p /\ q \in {pid[s], tgid[s]}
    /\ nextPid <= MaxPid /\ nextPid' = nextPid + 1
    /\ pid'  = [pid EXCEPT ![k[s].p] = nextPid]
    /\ tgid' = [tgid EXCEPT ![k[s].p] = nextPid]
    /\ ppid' = [ppid EXCEPT ![k[s].p] = q]
    /\ pd'   = [pd EXCEPT ![k[s].p] = nextPid]
    /\ UNCHANGED <<codice, st, segni, distrutta>>

DiventaFilo(s, r) ==
    /\ s \in Posti /\ Passa(s, r) /\ k[s].pc = "c_filo" /\ r.pc = "c_pronto"
    /\ r.p = k[s].p
    /\ distrutta' = [distrutta EXCEPT ![pd[k[s].p]] = @ + 1]
    /\ pd'   = [pd EXCEPT ![k[s].p] = pd[s]]
    /\ tgid' = [tgid EXCEPT ![k[s].p] = tgid[s]]
    /\ ppid' = [ppid EXCEPT ![k[s].p] = tgid[s]]
    /\ UNCHANGED <<pid, codice, st, segni, nextPid>>

\* The newborn runs, or its program did not load.
Parte(s, r, v) ==
    /\ s \in Posti /\ Passa(s, r) /\ k[s].pc = "c_pronto" /\ r.pc \notin Stretti
    /\ v \in {"READY", "ZOMBIE"}
    /\ st' = [st EXCEPT ![k[s].p] = v]
    /\ UNCHANGED <<pcb, pd, segni, nextPid, distrutta>>

\* The end of s, with M.
Muore(s, M) ==
    /\ s \in Posti /\ st[s] = "READY" /\ k[s].pc \in {"usr", "esce"}
    /\ M = {s} \/ M = Gruppo(tgid[s])
    /\ "dentro" \in Eventi \/ \A t \in M \ {s} : k[t].pc \notin Raccoglie
    /\ st' \in [Posti -> {"UNUSED", "NASCENTE", "READY", "BLOCKED", "ZOMBIE"}]
    /\ \A t \in Posti : /\ t \in M => st'[t] = "ZOMBIE"
                        /\ t \notin M => \/ st'[t] = st[t]
                                         \/ st[t] = "BLOCKED" /\ st'[t] = "READY"
    /\ ppid' \in [Posti -> Pid]
    /\ \A t \in Posti : ppid'[t] = ppid[t] \/ ppid'[t] = PidInit
    /\ codice' \in [Posti -> 0..2]
    /\ k' = [a \in Attori |-> IF a \in M THEN Fermo ELSE k[a]]
    /\ aspetta' \subseteq Posti /\ interrotto' \subseteq Posti
    /\ UNCHANGED <<pid, tgid, pd, raccolta, staccato, nextPid, distrutta>>

\* The wake of who is interrupted.
Scuote(s) ==
    /\ s \in Posti
    /\ st' = [st EXCEPT ![s] = IF @ = "BLOCKED" THEN "READY" ELSE @]
    /\ interrotto' \subseteq Posti
    /\ UNCHANGED <<pcb, pd, raccolta, staccato, aspetta, nextPid, distrutta, k>>

Dorme(s, r) ==
    /\ s \in Posti /\ Passa(s, r) /\ k[s].pc \notin Stretti /\ r.pc \notin Stretti
    /\ st' = [st EXCEPT ![s] = "BLOCKED"]
    /\ aspetta' \subseteq Posti
    /\ UNCHANGED <<pcb, pd, raccolta, staccato, interrotto, nextPid, distrutta>>

\* A thread changes parent: who joins it, or init.
CambiaPadre(s, r, x, q) ==
    /\ s \in Posti /\ Passa(s, r) /\ k[s].pc \notin Stretti /\ r.pc \notin Stretti
    /\ x \in Posti /\ q \in {pid[s], PidInit, ppid[x]}
    /\ ppid' = [ppid EXCEPT ![x] = q]
    /\ staccato' \subseteq Posti
    /\ UNCHANGED <<pid, tgid, codice, st, pd, raccolta, aspetta, interrotto,
                   nextPid, distrutta>>

\* Every step but the end of a process.
Placido ==
    \/ \E a \in Attori, r \in Telai :
         \/ Gira(a, r) \/ Prende(a, r) \/ Rinuncia(a, r) \/ Conferma(a, r)
         \/ Domanda(a, r) \/ Lascia(a, r) \/ Distrugge(a, r) \/ Libera(a, r)
         \/ Azzera(a, r)
    \/ \E s \in Posti, r \in Telai :
         \/ \E x \in Posti : Alloca(s, x, r)
         \/ \E q \in Pid : Nasce(s, r, q)
         \/ DiventaFilo(s, r)
         \/ \E v \in {"READY", "ZOMBIE"} : Parte(s, r, v)
         \/ Dorme(s, r)
         \/ \E x \in Posti, q \in Pid : CambiaPadre(s, r, x, q)
    \/ \E s \in Posti : Scuote(s)

Effetto == Placido \/ \E s \in Posti, M \in SUBSET Posti : Muore(s, M)


-----------------------------------------------------------------------------
(* Each action has one of these effects.                                   *)

\* A frame that only moves to step c.
LEMMA SoloPc ==
    ASSUME Inv1, NEW a \in Attori, NEW c \in Pc,
           c \in Puntano => k[a].p \in Posti,
           a = Init0 => /\ c \in {"i_cerca", "i_decide", "r_entra", "r_cas"} \cup Raccoglie
                        /\ c # "i_cerca" => k[a].i <= N,
           a \in Posti => c \notin {"i_cerca", "i_decide"}
    PROVE  /\ [k[a] EXCEPT !.pc = c] \in Telai
           /\ Adatto(a, [k[a] EXCEPT !.pc = c])
           /\ [k[a] EXCEPT !.pc = c].pc = c
           /\ [k[a] EXCEPT !.pc = c].p = k[a].p
           /\ [k[a] EXCEPT !.pc = c].letto = k[a].letto
           /\ [k EXCEPT ![a].pc = c] = [k EXCEPT ![a] = [k[a] EXCEPT !.pc = c]]
<1>1. PICK q \in Telai : q = k[a]
  BY DEF Inv1, Telaio, Adatto
<1>2. /\ [q EXCEPT !.pc = c] \in Telai
      /\ [q EXCEPT !.pc = c].pc = c
      /\ [q EXCEPT !.pc = c].p = q.p
      /\ [q EXCEPT !.pc = c].i = q.i
      /\ [q EXCEPT !.pc = c].letto = q.letto
  BY DEF Telai
<1>3. Adatto(a, [q EXCEPT !.pc = c])
  BY <1>1, <1>2 DEF Adatto, DiInit
<1> QED
  BY <1>1, <1>2, <1>3, Zenon

\* What is known of the frame of an actor.
LEMMA Frame ==
    ASSUME Inv1, NEW a \in Attori
    PROVE  /\ k[a] \in Telai /\ Adatto(a, k[a])
           /\ k[a].pc \in Pc /\ k[a].i \in 1..N + 1 /\ k[a].p \in 0..N
           /\ k[a].letto \in Pid /\ k[a].mira \in Pid
           /\ k[a].pc \in Puntano => k[a].p \in Posti
           /\ a = Init0 => DiInit(k[a])
           /\ a \in Posti => k[a].pc \notin {"i_cerca", "i_decide"}
           /\ Corre(a) /\ a \in Posti => st[a] = "READY"
BY Luoghi DEF Inv1, Telaio, Adatto, Telai, Corre

\* proc_reap_zombie, the first look at the process ...
LEMMA FaREntra ==
    ASSUME Inv1, NEW a \in Attori, r_entra(a)
    PROVE  \E r \in Telai : Gira(a, r)
<1>1. /\ Corre(a) /\ k[a].pc = "r_entra" /\ k[a].p \in Posti
      /\ UNCHANGED <<pcb, st, pd, segni, nextPid, distrutta>>
  BY Frame, Nomi DEF r_entra
<1>2. k[a].pc \notin Stretti /\ "r_cas" \in Pc /\ "r_cas" \notin Stretti
  BY <1>1, Nomi
<1>3. a = Init0 => k[a].i <= N
  BY <1>1, Frame DEF DiInit
<1>4. aspetta' \subseteq Posti /\ UNCHANGED <<raccolta, staccato, interrotto>>
  BY <1>1 DEF segni, Inv1, TypeOK
<1>5. CASE st[k[a].p] = "ZOMBIE"
  <2>1. PICK q \in Telai : q = k[a]
    BY Frame
  <2>2. PICK l \in Pid : l = pid[k[a].p]
    BY <1>1 DEF Inv1, TypeOK
  <2> DEFINE r == [q EXCEPT !.pc = "r_cas", !.letto = l]
  <2>3. r \in Telai /\ r.pc = "r_cas" /\ r.p = q.p /\ r.i = q.i
    BY <1>2 DEF Telai
  <2>4. k' = [k EXCEPT ![a] = r]
    BY <1>5, <2>1, <2>2 DEF r_entra
  <2> HIDE DEF r
  <2>5. Adatto(a, r)
    BY <1>1, <1>3, <2>1, <2>3, Luoghi DEF Adatto, DiInit
  <2> QED
    BY <1>1, <1>2, <1>4, <2>3, <2>4, <2>5 DEF Gira, Passa
<1>6. CASE st[k[a].p] # "ZOMBIE"
  <2>1. k' = [k EXCEPT ![a] = Dopo(a)]
    BY <1>6 DEF r_entra
  <2>2. Dopo(a) \in Telai /\ Adatto(a, Dopo(a)) /\ Dopo(a).pc \notin Stretti
    BY <1>3, DopoAdatto, Nomi
  <2> QED
    BY <1>1, <1>2, <1>4, <2>1, <2>2 DEF Gira, Passa
<1> QED
  BY <1>5, <1>6

\* ... the compare-and-swap that makes one collector its owner ...
LEMMA FaRCas ==
    ASSUME Inv1, NEW a \in Attori, r_cas(a)
    PROVE  \E r \in Telai : Gira(a, r) \/ Prende(a, r)
<1>1. /\ Corre(a) /\ k[a].pc = "r_cas" /\ k[a].p \in Posti
      /\ UNCHANGED <<pcb, st, pd, staccato, aspetta, interrotto, nextPid, distrutta>>
  BY Frame, Nomi DEF r_cas
<1>2. /\ k[a].pc \notin Stretti /\ "r_ricontrolla" \in Pc /\ "r_ricontrolla" \in Raccoglie
  BY <1>1, Nomi
<1>3. a = Init0 => k[a].i <= N
  BY <1>1, Frame DEF DiInit
<1>4. aspetta' \subseteq Posti
  BY <1>1 DEF Inv1, TypeOK
<1>5. CASE k[a].p \in raccolta
  <2>1. k' = [k EXCEPT ![a] = Dopo(a)] /\ UNCHANGED raccolta
    BY <1>5 DEF r_cas
  <2>2. Dopo(a) \in Telai /\ Adatto(a, Dopo(a)) /\ Dopo(a).pc \notin Stretti
    BY <1>3, DopoAdatto, Nomi
  <2>3. Gira(a, Dopo(a))
    BY <1>1, <1>2, <1>4, <2>1, <2>2 DEF Gira, Passa
  <2> QED
    BY <2>2, <2>3
<1>6. CASE k[a].p \notin raccolta
  <2> DEFINE r == [k[a] EXCEPT !.pc = "r_ricontrolla"]
  <2>1. k' = [k EXCEPT ![a].pc = "r_ricontrolla"] /\ raccolta' = raccolta \cup {k[a].p}
    BY <1>6 DEF r_cas
  <2>2. /\ r \in Telai /\ Adatto(a, r) /\ r.pc = "r_ricontrolla" /\ r.p = k[a].p
        /\ [k EXCEPT ![a].pc = "r_ricontrolla"] = [k EXCEPT ![a] = r]
    BY <1>1, <1>2, <1>3, SoloPc
  <2> HIDE DEF r
  <2>3. Prende(a, r)
    BY <1>1, <1>6, <2>1, <2>2 DEF Prende, Passa
  <2> QED
    BY <2>2, <2>3
<1> QED
  BY <1>5, <1>6

\* ... the second look, under that ownership ...
LEMMA FaRRicontrolla ==
    ASSUME Inv1, NEW a \in Attori, r_ricontrolla(a)
    PROVE  \E r \in Telai : Rinuncia(a, r) \/ Conferma(a, r)
<1>1. /\ Corre(a) /\ k[a].pc = "r_ricontrolla" /\ k[a].p \in Posti
      /\ UNCHANGED <<pcb, st, pd, staccato, aspetta, interrotto, nextPid, distrutta>>
  BY Frame, Nomi DEF r_ricontrolla
<1>2. "r_spazio" \in Pc /\ "r_spazio" \in Raccoglie
  BY Nomi
<1>3. a = Init0 => k[a].i <= N
  BY <1>1, Frame DEF DiInit
<1>5. CASE ~Ancora(a)
  <2>1. k' = [k EXCEPT ![a] = Dopo(a)] /\ raccolta' = raccolta \ {k[a].p}
    BY <1>5 DEF r_ricontrolla
  <2>2. Dopo(a) \in Telai /\ Adatto(a, Dopo(a)) /\ Dopo(a).pc \notin Stretti
    BY <1>3, DopoAdatto, Nomi
  <2>3. Rinuncia(a, Dopo(a))
    BY <1>1, <2>1, <2>2 DEF Rinuncia, Passa
  <2> QED
    BY <2>2, <2>3
<1>6. CASE Ancora(a)
  <2> DEFINE r == [k[a] EXCEPT !.pc = "r_spazio"]
  <2>1. k' = [k EXCEPT ![a].pc = "r_spazio"] /\ UNCHANGED raccolta
    BY <1>6 DEF r_ricontrolla
  <2>2. /\ r \in Telai /\ Adatto(a, r) /\ r.pc = "r_spazio" /\ r.p = k[a].p
        /\ r.letto = k[a].letto
        /\ [k EXCEPT ![a].pc = "r_spazio"] = [k EXCEPT ![a] = r]
    BY <1>1, <1>2, <1>3, SoloPc
  <2> HIDE DEF r
  <2>3. Conferma(a, r)
    BY <1>1, <1>6, <2>1, <2>2 DEF Conferma, Passa, segni
  <2> QED
    BY <2>2, <2>3
<1> QED
  BY <1>5, <1>6

\* ... the question whether others still use the address space ...
LEMMA FaRSpazio ==
    ASSUME Inv1, NEW a \in Attori, r_spazio(a)
    PROVE  \E r \in Telai : Domanda(a, r) \/ Lascia(a, r)
<1>1. /\ Corre(a) /\ k[a].pc = "r_spazio" /\ k[a].p \in Posti
      /\ UNCHANGED <<pcb, st, segni, nextPid, distrutta>>
  BY Frame, Nomi DEF r_spazio
<1>2. "r_libera" \in Pc /\ "r_libera" \in Raccoglie
  BY Nomi
<1>3. a = Init0 => k[a].i <= N
  BY <1>1, Frame DEF DiInit
<1>5. CASE SpazioDaFare(k[a].p)
  <2>1. PICK q \in Telai : q = k[a]
    BY Frame
  <2>2. PICK d \in Pid : d = pd[k[a].p]
    BY <1>1 DEF Inv1, TypeOK
  <2> DEFINE r == [q EXCEPT !.pc = "r_distrugge", !.mira = d]
  <2>0. "r_distrugge" \in Pc /\ "r_distrugge" \in Raccoglie
    BY Nomi
  <2>3. /\ r \in Telai /\ r.pc = "r_distrugge" /\ r.p = q.p /\ r.i = q.i
        /\ r.letto = q.letto /\ r.mira = d
    BY <2>0 DEF Telai
  <2>6. UNCHANGED pd /\ k' = [k EXCEPT ![a].pc = "r_distrugge", ![a].mira = d]
    BY <1>5, <2>2 DEF r_spazio
  <2>7. k \in [Attori -> Telai]
    BY DEF Inv1, TypeOK, Telai
  <2>8. [k EXCEPT ![a].pc = "r_distrugge", ![a].mira = d] = [k EXCEPT ![a] = r]
    BY <2>1, <2>7
  <2>4. k' = [k EXCEPT ![a] = r]
    BY <2>6, <2>8
  <2> HIDE DEF r
  <2>5. Adatto(a, r)
    BY <1>1, <1>3, <2>0, <2>1, <2>3, Luoghi DEF Adatto, DiInit
  <2> QED
    BY <1>1, <1>5, <2>1, <2>2, <2>3, <2>4, <2>5, <2>6 DEF Domanda, Passa
<1>6. CASE ~SpazioDaFare(k[a].p)
  <2> DEFINE r == [k[a] EXCEPT !.pc = "r_libera"]
  <2>1. k' = [k EXCEPT ![a].pc = "r_libera"] /\ pd' = [pd EXCEPT ![k[a].p] = 0]
    BY <1>6 DEF r_spazio
  <2>2. /\ r \in Telai /\ Adatto(a, r) /\ r.pc = "r_libera" /\ r.p = k[a].p
        /\ r.letto = k[a].letto
        /\ [k EXCEPT ![a].pc = "r_libera"] = [k EXCEPT ![a] = r]
    BY <1>1, <1>2, <1>3, SoloPc
  <2> HIDE DEF r
  <2>3. Lascia(a, r)
    BY <1>1, <2>1, <2>2 DEF Lascia, Passa
  <2> QED
    BY <2>2, <2>3
<1> QED
  BY <1>5, <1>6


\* ... its destruction ...
LEMMA FaRDistrugge ==
    ASSUME Inv1, NEW a \in Attori, r_distrugge(a)
    PROVE  \E r \in Telai : Distrugge(a, r)
<1>1. /\ Corre(a) /\ k[a].pc = "r_distrugge" /\ k[a].p \in Posti
      /\ UNCHANGED <<pcb, st, segni, nextPid>>
      /\ pd' = [x \in Posti |-> IF pd[x] = k[a].mira \/ x = k[a].p THEN 0 ELSE pd[x]]
      /\ distrutta' = [distrutta EXCEPT ![k[a].mira] = @ + 1]
  BY Frame, Nomi DEF r_distrugge
<1>2. "r_libera" \in Pc /\ "r_libera" \in Raccoglie
  BY Nomi
<1>3. a = Init0 => k[a].i <= N
  BY <1>1, Frame DEF DiInit
<1>4. PICK q \in Telai : q = k[a]
  BY Frame
<1> DEFINE r == [q EXCEPT !.pc = "r_libera", !.mira = 0]
<1>5. /\ r \in Telai /\ r.pc = "r_libera" /\ r.p = q.p /\ r.i = q.i /\ r.letto = q.letto
  BY <1>2, Luoghi DEF Telai
<1>6. k \in [Attori -> Telai]
  BY DEF Inv1, TypeOK, Telai
<1>7. [k EXCEPT ![a].pc = "r_libera", ![a].mira = 0] = [k EXCEPT ![a] = r]
  BY <1>4, <1>6
<1>8. k' = [k EXCEPT ![a] = r]
  BY <1>7 DEF r_distrugge
<1> HIDE DEF r
<1>9. Adatto(a, r)
  BY <1>1, <1>2, <1>3, <1>4, <1>5, Luoghi DEF Adatto, DiInit
<1> QED
  BY <1>1, <1>4, <1>5, <1>8, <1>9 DEF Distrugge, Passa

\* ... the slot is free ...
LEMMA FaRLibera ==
    ASSUME Inv1, NEW a \in Attori, r_libera(a)
    PROVE  \E r \in Telai : Libera(a, r)
<1>1. /\ Corre(a) /\ k[a].pc = "r_libera" /\ k[a].p \in Posti
      /\ k' = [k EXCEPT ![a].pc = "r_azzera"]
      /\ st' = [st EXCEPT ![k[a].p] = "UNUSED"]
      /\ UNCHANGED <<pcb, pd, segni, nextPid, distrutta>>
  BY Frame, Nomi DEF r_libera
<1>2. "r_azzera" \in Pc /\ "r_azzera" \in Raccoglie
  BY Nomi
<1>3. a = Init0 => k[a].i <= N
  BY <1>1, Frame DEF DiInit
<1> DEFINE r == [k[a] EXCEPT !.pc = "r_azzera"]
<1>4. /\ r \in Telai /\ Adatto(a, r) /\ r.pc = "r_azzera" /\ r.p = k[a].p
      /\ [k EXCEPT ![a].pc = "r_azzera"] = [k EXCEPT ![a] = r]
  BY <1>1, <1>2, <1>3, SoloPc
<1> HIDE DEF r
<1> QED
  BY <1>1, <1>4 DEF Libera, Passa

\* ... and its fields are cleared.
LEMMA FaRAzzera ==
    ASSUME Inv1, NEW a \in Attori, r_azzera(a)
    PROVE  \E r \in Telai : Azzera(a, r)
<1>1. Corre(a) /\ k[a].pc = "r_azzera" /\ k' = [k EXCEPT ![a] = Dopo(a)]
  BY DEF r_azzera
<1>2. a = Init0 => k[a].i <= N
  BY <1>1, Frame DEF DiInit
<1>3. Dopo(a) \in Telai /\ Adatto(a, Dopo(a)) /\ Dopo(a).pc \notin Stretti
  BY <1>2, DopoAdatto, Nomi
<1>4. Azzera(a, Dopo(a))
  BY <1>1, <1>3 DEF Azzera, Passa, r_azzera
<1> QED
  BY <1>3, <1>4

\* Collection, whoever collects.
LEMMA FaRaccolta ==
    ASSUME Inv1, NEW a \in Attori, PassoRaccolta(a)
    PROVE  Placido
BY FaREntra, FaRCas, FaRRicontrolla, FaRSpazio, FaRDistrugge, FaRLibera, FaRAzzera
   DEF PassoRaccolta, Placido

\* The scan of init.
LEMMA FaInit ==
    ASSUME Inv1, PassoInit
    PROVE  Placido
<1>0. Corre(Init0) /\ Init0 \in Attori /\ DiInit(k[Init0]) /\ Init0 \notin Posti
  BY Frame, Luoghi DEF Corre
<1>1. PICK q \in Telai : q = k[Init0]
  BY <1>0, Frame
<1>2. q.i \in 1..N + 1 /\ q.p \in 0..N /\ k[Init0].i = q.i /\ k[Init0].p = q.p
  BY <1>1 DEF Telai
<1>3. ASSUME UNCHANGED <<pcb, st, pd, segni, nextPid, distrutta>>,
             k[Init0].pc \notin Stretti,
             NEW r \in Telai, Adatto(Init0, r), r.pc \notin Stretti,
             k' = [k EXCEPT ![Init0] = r]
      PROVE  Placido
  <2>1. aspetta' \subseteq Posti /\ UNCHANGED <<raccolta, staccato, interrotto>>
    BY <1>3 DEF segni, Inv1, TypeOK
  <2>2. Gira(Init0, r)
    BY <1>0, <1>3, <2>1 DEF Gira, Passa
  <2> QED
    BY <1>0, <2>2 DEF Placido
<1>4. CASE i_cerca
  <2>1. /\ q.pc = "i_cerca" /\ q.i <= N
        /\ UNCHANGED <<pcb, st, pd, segni, nextPid, distrutta>>
    BY <1>1, <1>4 DEF i_cerca
  <2>2. "i_cerca" \notin Stretti /\ "i_decide" \notin Stretti /\ "i_decide" \in Pc
        /\ "i_cerca" \notin Puntano
    BY Nomi
  <2>3. q.i \in Posti /\ q.i \in 0..N /\ q.i + 1 \in 1..N + 1
    BY <1>2, <2>1, Luoghi DEF Posti
  <2>4. CASE st[q.i] = "ZOMBIE"
    <3> DEFINE r == [q EXCEPT !.pc = "i_decide", !.p = q.i]
    <3>1. r \in Telai /\ r.pc = "i_decide" /\ r.p = q.i /\ r.i = q.i
      BY <2>2, <2>3 DEF Telai
    <3>2. k' = [k EXCEPT ![Init0] = r]
      BY <1>1, <1>4, <2>4 DEF i_cerca
    <3> HIDE DEF r
    <3>3. Adatto(Init0, r)
      BY <1>0, <3>1, <2>1, <2>3 DEF Adatto, DiInit
    <3> QED
      BY <1>1, <1>3, <2>1, <2>2, <3>1, <3>2, <3>3
  <2>5. CASE st[q.i] # "ZOMBIE"
    <3> DEFINE r == [q EXCEPT !.i = q.i + 1]
    <3>1. r \in Telai /\ r.pc = "i_cerca"
      BY <2>1, <2>3 DEF Telai
    <3>4. k' = [k EXCEPT ![Init0] = [k[Init0] EXCEPT !.i = k[Init0].i + 1]]
      <4>1. st[k[Init0].i] # "ZOMBIE"
        BY <1>1, <2>5
      <4> QED
        BY <1>4, <4>1, Zenon DEF i_cerca
    <3>2. k' = [k EXCEPT ![Init0] = r]
      BY <1>1, <3>4
    <3> HIDE DEF r
    <3>3. Adatto(Init0, r)
      BY <1>0, <3>1, <2>1, <2>2 DEF Adatto, DiInit
    <3> QED
      BY <1>1, <1>3, <2>1, <2>2, <3>1, <3>2, <3>3
  <2> QED
    BY <2>4, <2>5
<1>5. CASE i_decide
  <2>1. /\ k[Init0].pc = "i_decide" /\ k[Init0].i <= N /\ k[Init0].p \in Posti
        /\ UNCHANGED <<pcb, st, pd, segni, nextPid, distrutta>>
    BY <1>0, <1>5, Frame, Nomi DEF i_decide, DiInit
  <2>2. "i_decide" \notin Stretti /\ "r_entra" \notin Stretti /\ "r_entra" \in Pc
    BY Nomi
  <2>3. CASE Riassorbe(k[Init0].p)
    <3> DEFINE r == [k[Init0] EXCEPT !.pc = "r_entra"]
    <3>1. r \in Telai /\ Adatto(Init0, r) /\ r.pc = "r_entra"
      BY <1>0, <2>1, <2>2, SoloPc
    <3>2. k' = [k EXCEPT ![Init0] = r]
      BY <1>5, <2>3 DEF i_decide
    <3> HIDE DEF r
    <3> QED
      BY <1>3, <2>1, <2>2, <3>1, <3>2
  <2>4. CASE ~Riassorbe(k[Init0].p)
    <3>1. Dopo(Init0) \in Telai /\ Adatto(Init0, Dopo(Init0)) /\ Dopo(Init0).pc \notin Stretti
      BY <1>0, <2>1, DopoAdatto, Nomi
    <3>2. k' = [k EXCEPT ![Init0] = Dopo(Init0)]
      BY <1>5, <2>4 DEF i_decide
    <3> QED
      BY <1>3, <2>1, <2>2, <3>1, <3>2
  <2> QED
    BY <2>3, <2>4
<1>6. CASE i_dorme
  <2>1. q.pc = "i_cerca" /\ UNCHANGED <<pcb, st, pd, segni, nextPid, distrutta>>
    BY <1>1, <1>6 DEF i_dorme
  <2>2. "i_cerca" \notin Stretti /\ "i_cerca" \notin Puntano /\ 1 \in 1..N + 1
    BY Nomi, Luoghi
  <2> DEFINE r == [q EXCEPT !.i = 1]
  <2>3. r \in Telai /\ r.pc = "i_cerca"
    BY <2>1, <2>2 DEF Telai
  <2>4. k' = [k EXCEPT ![Init0] = r]
    BY <1>1, <1>6 DEF i_dorme
  <2> HIDE DEF r
  <2>5. Adatto(Init0, r)
    BY <1>0, <2>3, <2>2 DEF Adatto, DiInit
  <2> QED
    BY <1>1, <1>3, <2>1, <2>2, <2>3, <2>4, <2>5
<1> QED
  BY <1>0, <1>4, <1>5, <1>6, FaRaccolta DEF PassoInit


\* A step of a process that changes its frame and nothing else but, at most,
\* its mark in aspetta.
LEMMA FaGira ==
    ASSUME Inv1, NEW s \in Posti, Corre(s), k[s].pc \notin Stretti,
           NEW r \in Telai, Adatto(s, r), r.pc \notin Stretti,
           k' = [k EXCEPT ![s] = r], aspetta' \subseteq aspetta,
           UNCHANGED <<pcb, st, pd, raccolta, staccato, interrotto, nextPid, distrutta>>
    PROVE  Placido
<1>1. s \in Attori /\ aspetta' \subseteq Posti
  BY Luoghi DEF Inv1, TypeOK
<1>2. Gira(s, r)
  BY <1>1 DEF Gira, Passa
<1> QED
  BY <1>1, <1>2 DEF Placido

\* A frame of a process that points nowhere.
LEMMA TelaioNuovo ==
    ASSUME NEW s \in Posti, NEW c \in {"usr", "esce", "w_cerca", "a_cerca"}, NEW m \in Pid
    PROVE  LET r == [Fermo EXCEPT !.pc = c, !.mira = m] IN
           r \in Telai /\ Adatto(s, r) /\ r.pc = c /\ r.pc \notin Stretti
<1> DEFINE r == [Fermo EXCEPT !.pc = c, !.mira = m]
<1>1. c \in Pc /\ c \notin Stretti /\ c \notin Puntano /\ c \notin {"i_cerca", "i_decide"}
  BY Nomi
<1>2. r \in Telai /\ r.pc = c
  BY <1>1, Luoghi DEF Fermo, Telai
<1>3. s # Init0
  BY Luoghi
<1> HIDE DEF r
<1>4. Adatto(s, r)
  BY <1>1, <1>2, <1>3 DEF Adatto
<1> QED
  BY <1>1, <1>2, <1>4 DEF r

\* waitpid.
LEMMA FaWaitpid ==
    ASSUME Inv1, NEW s \in Posti,
           w_inizia(s) \/ w_cerca(s) \/ w_ritorna(s) \/ w_dorme(s) \/ w_sveglio(s)
    PROVE  Placido
<1>0. s \in Attori /\ s # Init0
  BY Luoghi
<1>1. PICK q \in Telai : q = k[s]
  BY <1>0, Frame
<1>2. q.i \in 1..N + 1 /\ q.p \in 0..N /\ q.mira \in Pid /\ q.vivi \in BOOLEAN
  BY DEF Telai
<1>3. Rientro(s) \in Telai /\ Adatto(s, Rientro(s)) /\ Rientro(s).pc \notin Stretti
  BY RientroAdatto, Nomi
<1>4. /\ "usr" \notin Stretti /\ "w_cerca" \notin Stretti /\ "w_sveglio" \notin Stretti
      /\ "w_cerca" \notin Puntano /\ "w_sveglio" \notin Puntano /\ "w_sveglio" \in Pc
      /\ "r_entra" \in Pc /\ "r_entra" \notin Stretti
  BY Nomi
<1>5. CASE w_inizia(s)
  <2>1. \A x \in Posti : pid[x] \in Pid
    BY DEF Inv1, TypeOK
  <2>2. PICK m \in {0} \cup {pid[x] : x \in Posti} :
          k' = [k EXCEPT ![s] = [Fermo EXCEPT !.pc = "w_cerca", !.mira = m]]
    BY <1>5 DEF w_inizia
  <2>3. m \in Pid
    BY <2>1, <2>2, Luoghi
  <2>4. /\ Corre(s) /\ k[s].pc = "usr" /\ aspetta' = aspetta
        /\ UNCHANGED <<pcb, st, pd, raccolta, staccato, interrotto, nextPid, distrutta>>
    BY <1>5 DEF w_inizia, segni
  <2> DEFINE r == [Fermo EXCEPT !.pc = "w_cerca", !.mira = m]
  <2>5. r \in Telai /\ Adatto(s, r) /\ r.pc \notin Stretti
    BY <2>3, TelaioNuovo
  <2>6. k' = [k EXCEPT ![s] = r]
    BY <2>2
  <2> HIDE DEF r
  <2> QED
    BY <1>4, <2>4, <2>5, <2>6, FaGira
<1>6. CASE w_cerca(s)
  <2>1. /\ Corre(s) /\ q.pc = "w_cerca" /\ q.i <= N /\ aspetta' = aspetta
        /\ UNCHANGED <<pcb, st, pd, raccolta, staccato, interrotto, nextPid, distrutta>>
    BY <1>1, <1>6 DEF w_cerca, segni
  <2>2. q.i \in Posti /\ q.i \in 0..N /\ q.i + 1 \in 1..N + 1
    BY <1>2, <2>1, Luoghi DEF Posti
  <2>3. CASE Figlio(s, q.i) /\ st[q.i] = "ZOMBIE"
    <3> DEFINE r == [q EXCEPT !.pc = "r_entra", !.p = q.i]
    <3>1. r \in Telai /\ r.pc = "r_entra" /\ r.p = q.i
      BY <1>4, <2>2 DEF Telai
    <3>2. k' = [k EXCEPT ![s] = r]
      BY <1>1, <1>6, <2>3 DEF w_cerca
    <3> HIDE DEF r
    <3>3. Adatto(s, r)
      BY <1>0, <3>1, <2>2 DEF Adatto
    <3> QED
      BY <1>1, <1>4, <2>1, <3>1, <3>2, <3>3, FaGira
  <2>4. CASE ~(Figlio(s, q.i) /\ st[q.i] = "ZOMBIE")
    <3>1. PICK v \in BOOLEAN : v = (k[s].vivi \/ Figlio(s, q.i))
      <4>1. \E v \in BOOLEAN : v = (k[s].vivi \/ Figlio(s, q.i))
        BY Zenon
      <4> QED BY <4>1
    <3> DEFINE r == [q EXCEPT !.i = q.i + 1, !.vivi = v]
    <3>2. r \in Telai /\ r.pc = "w_cerca"
      BY <2>1, <2>2 DEF Telai
    <3>3. k' = [k EXCEPT ![s] = [k[s] EXCEPT !.i = k[s].i + 1, !.vivi = @ \/ Figlio(s, k[s].i)]]
      <4>1. ~(Figlio(s, k[s].i) /\ st[k[s].i] = "ZOMBIE")
        BY <1>1, <2>4
      <4> QED
        BY <1>6, <4>1, Zenon DEF w_cerca
    <3>4. k' = [k EXCEPT ![s] = r]
      BY <1>1, <3>3, <3>1
    <3> HIDE DEF r
    <3>5. Adatto(s, r)
      BY <1>0, <1>4, <3>2 DEF Adatto
    <3> QED
      BY <1>1, <1>4, <2>1, <3>2, <3>4, <3>5, FaGira
  <2> QED
    BY <2>3, <2>4
<1>7. CASE w_ritorna(s)
  <2>1. /\ Corre(s) /\ k[s].pc = "w_cerca" /\ aspetta' = aspetta
        /\ k' = [k EXCEPT ![s] = Rientro(s)]
        /\ UNCHANGED <<pcb, st, pd, raccolta, staccato, interrotto, nextPid, distrutta>>
    BY <1>7 DEF w_ritorna, segni
  <2> QED
    BY <1>3, <1>4, <2>1, FaGira
<1>8. CASE w_dorme(s)
  <2>1. /\ Corre(s) /\ k[s].pc = "w_cerca" /\ aspetta' = aspetta \cup {s}
        /\ k' = [k EXCEPT ![s].pc = "w_sveglio"] /\ st' = [st EXCEPT ![s] = "BLOCKED"]
        /\ UNCHANGED <<pcb, pd, raccolta, staccato, interrotto, nextPid, distrutta>>
    BY <1>8 DEF w_dorme
  <2> DEFINE r == [k[s] EXCEPT !.pc = "w_sveglio"]
  <2>2. /\ r \in Telai /\ Adatto(s, r) /\ r.pc = "w_sveglio"
        /\ [k EXCEPT ![s].pc = "w_sveglio"] = [k EXCEPT ![s] = r]
    BY <1>0, <1>4, SoloPc
  <2> HIDE DEF r
  <2>3. aspetta' \subseteq Posti
    BY <2>1 DEF Inv1, TypeOK
  <2>4. Dorme(s, r)
    BY <1>4, <2>1, <2>2, <2>3 DEF Dorme, Passa
  <2> QED
    BY <2>2, <2>4 DEF Placido
<1>9. CASE w_sveglio(s)
  <2>1. /\ Corre(s) /\ k[s].pc = "w_sveglio" /\ aspetta' \subseteq aspetta
        /\ UNCHANGED <<pcb, st, pd, raccolta, staccato, interrotto, nextPid, distrutta>>
    BY <1>9 DEF w_sveglio
  <2>2. CASE s \in interrotto
    <3>1. k' = [k EXCEPT ![s] = Rientro(s)]
      BY <1>9, <2>2 DEF w_sveglio
    <3> QED
      BY <1>3, <1>4, <2>1, <3>1, FaGira
  <2>3. CASE s \notin interrotto
    <3> DEFINE r == [Fermo EXCEPT !.pc = "w_cerca", !.mira = k[s].mira]
    <3>1. k' = [k EXCEPT ![s] = r]
      BY <1>9, <2>3 DEF w_sveglio
    <3>2. r \in Telai /\ Adatto(s, r) /\ r.pc \notin Stretti
      BY <1>1, <1>2, TelaioNuovo
    <3> HIDE DEF r
    <3> QED
      BY <1>4, <2>1, <3>1, <3>2, FaGira
  <2> QED
    BY <2>2, <2>3
<1> QED
  BY <1>5, <1>6, <1>7, <1>8, <1>9

\* thread_attendi and thread_stacca.
LEMMA FaAttendi ==
    ASSUME Inv1, NEW s \in Posti,
           \/ a_inizia(s) \/ a_cerca(s) \/ a_padre(s) \/ a_dorme(s) \/ a_sveglio(s)
           \/ \E x \in Posti : proc_filo_stacca(s, x)
    PROVE  Placido
<1>0. s \in Attori /\ s # Init0
  BY Luoghi
<1>1. PICK q \in Telai : q = k[s]
  BY <1>0, Frame
<1>2. q.mira \in Pid
  BY DEF Telai
<1>3. Rientro(s) \in Telai /\ Adatto(s, Rientro(s)) /\ Rientro(s).pc \notin Stretti
  BY RientroAdatto, Nomi
<1>4. /\ \A c \in {"usr", "a_cerca", "a_dorme", "a_sveglio"} : c \notin Stretti /\ c \notin Puntano /\ c \in Pc
      /\ "r_entra" \in Pc /\ "r_entra" \notin Stretti
      /\ "a_padre" \in Pc /\ "a_padre" \notin Stretti /\ "a_padre" \in Puntano
  BY Nomi
<1>5. CASE a_inizia(s)
  <2>1. PICK x \in Posti : k' = [k EXCEPT ![s] = [Fermo EXCEPT !.pc = "a_cerca", !.mira = pid[x]]]
    BY <1>5 DEF a_inizia
  <2>2. pid[x] \in Pid
    BY DEF Inv1, TypeOK
  <2>3. /\ Corre(s) /\ k[s].pc = "usr" /\ aspetta' = aspetta
        /\ UNCHANGED <<pcb, st, pd, raccolta, staccato, interrotto, nextPid, distrutta>>
    BY <1>5 DEF a_inizia, segni
  <2> DEFINE r == [Fermo EXCEPT !.pc = "a_cerca", !.mira = pid[x]]
  <2>4. r \in Telai /\ Adatto(s, r) /\ r.pc \notin Stretti
    BY <2>2, TelaioNuovo
  <2>5. k' = [k EXCEPT ![s] = r]
    BY <2>1
  <2> HIDE DEF r
  <2> QED
    BY <1>4, <2>3, <2>4, <2>5, FaGira
<1>6. CASE a_cerca(s)
  <2> DEFINE X == {x \in Trovati(k[s].mira) : tgid[x] = tgid[s] /\ x \notin staccato}
  <2>1. /\ Corre(s) /\ k[s].pc = "a_cerca" /\ aspetta' = aspetta
        /\ UNCHANGED <<pcb, st, pd, raccolta, staccato, interrotto, nextPid, distrutta>>
    BY <1>6 DEF a_cerca, segni
  <2>2. CASE X = {}
    <3>1. k' = [k EXCEPT ![s] = Rientro(s)]
      BY <1>6, <2>2 DEF a_cerca
    <3> QED
      BY <1>3, <1>4, <2>1, <3>1, FaGira
  <2>3. CASE X # {}
    <3>1. X \subseteq Posti
      BY DEF Trovati
    <3>2. Min(X) \in X
      <4>1. X \subseteq Nat
        BY <3>1, Luoghi
      <4> HIDE DEF X
      <4> QED BY <2>3, <4>1, Minimo
    <3>3. PICK x \in Posti : x = Min(X)
      BY <3>1, <3>2
    <3>4. PICK c \in {"r_entra", "a_padre"} : c = IF st[x] = "ZOMBIE" THEN "r_entra" ELSE "a_padre"
      OBVIOUS
    <3>5. k' = [k EXCEPT ![s] = [k[s] EXCEPT !.p = Min(X),
                 !.pc = IF st[Min(X)] = "ZOMBIE" THEN "r_entra" ELSE "a_padre"]]
      BY <1>6, <2>3 DEF a_cerca
    <3> DEFINE r == [q EXCEPT !.p = x, !.pc = c]
    <3>6. k' = [k EXCEPT ![s] = r]
      BY <1>1, <3>3, <3>4, <3>5
    <3>7. x \in 0..N /\ c \in Pc /\ c \notin Stretti /\ c \notin {"i_cerca", "i_decide"}
      BY <1>4, <3>4, Luoghi
    <3>8. r \in Telai /\ r.pc = c /\ r.p = x
      BY <3>7 DEF Telai
    <3> HIDE DEF r
    <3>9. Adatto(s, r)
      BY <1>0, <3>7, <3>8 DEF Adatto
    <3> QED
      BY <1>4, <2>1, <3>6, <3>7, <3>8, <3>9, FaGira
  <2> QED
    BY <2>2, <2>3
<1>7. CASE a_padre(s)
  <2>1. /\ Corre(s) /\ k[s].pc = "a_padre" /\ k[s].p \in Posti
        /\ ppid' = [ppid EXCEPT ![k[s].p] = pid[s]]
        /\ k' = [k EXCEPT ![s].pc = "a_dorme"]
        /\ UNCHANGED <<pid, tgid, codice, st, pd, raccolta, staccato, aspetta, interrotto,
                       nextPid, distrutta>>
    BY <1>0, <1>4, <1>7, Frame DEF a_padre, segni
  <2> DEFINE r == [k[s] EXCEPT !.pc = "a_dorme"]
  <2>2. /\ r \in Telai /\ Adatto(s, r) /\ r.pc = "a_dorme"
        /\ [k EXCEPT ![s].pc = "a_dorme"] = [k EXCEPT ![s] = r]
    BY <1>0, <1>4, SoloPc
  <2> HIDE DEF r
  <2>3. staccato' \subseteq Posti /\ pid[s] \in Pid
    BY <2>1 DEF Inv1, TypeOK
  <2>4. CambiaPadre(s, r, k[s].p, pid[s])
    BY <1>4, <2>1, <2>2, <2>3 DEF CambiaPadre, Passa
  <2> QED
    BY <2>1, <2>2, <2>3, <2>4 DEF Placido
<1>8. CASE a_dorme(s)
  <2>1. /\ Corre(s) /\ k[s].pc = "a_dorme"
        /\ k' = [k EXCEPT ![s].pc = "a_sveglio", ![s].p = 0]
        /\ st' = [st EXCEPT ![s] = "BLOCKED"]
        /\ UNCHANGED <<pcb, pd, raccolta, staccato, aspetta, interrotto, nextPid, distrutta>>
    BY <1>8 DEF a_dorme, segni
  <2> DEFINE r == [q EXCEPT !.pc = "a_sveglio", !.p = 0]
  <2>2. r \in Telai /\ r.pc = "a_sveglio"
    BY <1>4, Luoghi DEF Telai
  <2>3. k \in [Attori -> Telai]
    BY DEF Inv1, TypeOK, Telai
  <2>4. [k EXCEPT ![s].pc = "a_sveglio", ![s].p = 0] = [k EXCEPT ![s] = r]
    BY <1>0, <1>1, <2>3
  <2>5. k' = [k EXCEPT ![s] = r]
    BY <2>1, <2>4
  <2> HIDE DEF r
  <2>6. Adatto(s, r) /\ aspetta' \subseteq Posti
    BY <1>0, <1>4, <2>1, <2>2 DEF Adatto, Inv1, TypeOK
  <2>7. Dorme(s, r)
    BY <1>4, <2>1, <2>2, <2>5, <2>6 DEF Dorme, Passa
  <2> QED
    BY <2>2, <2>7 DEF Placido
<1>9. CASE a_sveglio(s)
  <2>1. /\ Corre(s) /\ k[s].pc = "a_sveglio" /\ aspetta' = aspetta
        /\ UNCHANGED <<pcb, st, pd, raccolta, staccato, interrotto, nextPid, distrutta>>
    BY <1>9 DEF a_sveglio, segni
  <2>2. CASE s \in interrotto
    <3>1. k' = [k EXCEPT ![s] = Rientro(s)]
      BY <1>9, <2>2 DEF a_sveglio
    <3> QED
      BY <1>3, <1>4, <2>1, <3>1, FaGira
  <2>3. CASE s \notin interrotto
    <3> DEFINE r == [k[s] EXCEPT !.pc = "a_cerca"]
    <3>1. k' = [k EXCEPT ![s] = r]
      BY <1>9, <2>3 DEF a_sveglio
    <3>2. r \in Telai /\ Adatto(s, r) /\ r.pc = "a_cerca"
      BY <1>0, <1>4, SoloPc
    <3> HIDE DEF r
    <3> QED
      BY <1>4, <2>1, <3>1, <3>2, FaGira
  <2> QED
    BY <2>2, <2>3
<1>10. ASSUME NEW x \in Posti, proc_filo_stacca(s, x)
       PROVE  Placido
  <2>1. /\ Corre(s) /\ k[s].pc = "usr" /\ staccato' = staccato \cup {x}
        /\ ppid' = IF st[x] = "ZOMBIE" THEN [ppid EXCEPT ![x] = PidInit] ELSE ppid
        /\ k' = k
        /\ UNCHANGED <<pid, tgid, codice, st, pd, raccolta, aspetta, interrotto,
                       nextPid, distrutta>>
    BY <1>10 DEF proc_filo_stacca
  <2>2. /\ k \in [Attori -> Telai] /\ ppid \in [Posti -> Pid] /\ staccato' \subseteq Posti
        /\ PidInit \in Pid
    BY <2>1, Luoghi DEF Inv1, TypeOK, Telai, PidInit
  <2>3. k' = [k EXCEPT ![s] = q]
    BY <1>0, <1>1, <2>1, <2>2
  <2>4. PICK z \in Pid : z \in {pid[s], PidInit, ppid[x]} /\ ppid' = [ppid EXCEPT ![x] = z]
    <3>1. CASE st[x] = "ZOMBIE"
      BY <3>1, <2>1, <2>2
    <3>2. CASE st[x] # "ZOMBIE"
      BY <3>2, <2>1, <2>2
    <3> QED
      BY <3>1, <3>2
  <2>5. Adatto(s, q)
    BY <1>0, <1>1, Frame
  <2>6. CambiaPadre(s, q, x, z)
    BY <1>1, <1>4, <2>1, <2>2, <2>3, <2>4, <2>5 DEF CambiaPadre, Passa
  <2> QED
    BY <2>6 DEF Placido
<1> QED
  BY <1>5, <1>6, <1>7, <1>8, <1>9, <1>10


\* pcb_alloc.
LEMMA FaAlloca ==
    ASSUME Inv1, NEW s \in Posti, NEW cosa \in {"spawn", "fork", "filo"}, pcb_alloc(s, cosa)
    PROVE  Placido
<1> DEFINE liberi == {x \in Posti : st[x] = "UNUSED"}
<1>0. s \in Attori /\ s # Init0
  BY Luoghi
<1>1. PICK q \in Telai : q = k[s]
  BY <1>0, Frame
<1>2. liberi # {} /\ liberi \subseteq Nat
  BY Luoghi DEF pcb_alloc
<1>3. Min(liberi) \in liberi
  <2> HIDE DEF liberi
  <2> QED
    BY <1>2, Minimo
<1>4. PICK x \in Posti : x = Min(liberi)
  BY <1>3
<1>5. st[x] = "UNUSED" /\ x \in 0..N /\ x \in Attori
  BY <1>3, <1>4, Luoghi
<1>6. /\ st[s] = "READY" /\ k[s].pc = "usr"
      /\ "riuso" \in Eventi \/ x \notin raccolta
      /\ st' = [st EXCEPT ![x] = "NASCENTE"]
      /\ pid' = [pid EXCEPT ![x] = 0]
      /\ ppid' = [ppid EXCEPT ![x] = 0]
      /\ tgid' = [tgid EXCEPT ![x] = 0]
      /\ codice' = [codice EXCEPT ![x] = 0]
      /\ pd' = [pd EXCEPT ![x] = 0]
      /\ raccolta' = raccolta \ {x}
      /\ staccato' = staccato \ {x}
      /\ aspetta' = aspetta \ {x}
      /\ interrotto' = interrotto \ {x}
      /\ k' = [k EXCEPT ![x] = Fermo, ![s].pc = "c_campi", ![s].p = x, ![s].per = cosa]
      /\ UNCHANGED <<nextPid, distrutta>>
  BY <1>0, <1>4, Frame DEF pcb_alloc
<1>7. s # x
  BY <1>5, <1>6
<1> DEFINE r == [q EXCEPT !.pc = "c_campi", !.p = x, !.per = cosa]
<1>8. "c_campi" \in Pc
  BY Nomi
<1>9. r \in Telai /\ r.pc = "c_campi" /\ r.p = x
  BY <1>5, <1>8 DEF Telai
<1>10. k \in [Attori -> Telai]
  BY DEF Inv1, TypeOK, Telai
<1>11. [k EXCEPT ![x] = Fermo, ![s].pc = "c_campi", ![s].p = x, ![s].per = cosa]
         = [k EXCEPT ![x] = Fermo, ![s] = r]
  BY <1>0, <1>1, <1>5, <1>7, <1>10
<1>12. k' = [k EXCEPT ![x] = Fermo, ![s] = r]
  BY <1>6, <1>11
<1> HIDE DEF r
<1>13. Adatto(s, r)
  BY <1>0, <1>9 DEF Adatto
<1>14. staccato' \subseteq Posti /\ aspetta' \subseteq Posti /\ interrotto' \subseteq Posti
  BY <1>6 DEF Inv1, TypeOK
<1>15. Alloca(s, x, r)
  BY <1>5, <1>6, <1>9, <1>12, <1>13, <1>14 DEF Alloca
<1> QED
  BY <1>9, <1>15 DEF Placido

\* The rest of a creation.
LEMMA FaCrea ==
    ASSUME Inv1, NEW s \in Posti,
           proc_create(s) \/ proc_thread_crea(s) \/ proc_set_ready(s) \/ proc_kill(s)
    PROVE  Placido
<1>0. s \in Attori /\ s # Init0
  BY Luoghi
<1>1. \A c \in Crea : c \in Pc /\ c \in Puntano /\ c \notin {"i_cerca", "i_decide"}
  BY Nomi DEF Crea
<1>2. k[s].pc \in Crea => k[s].p \in Posti
  BY <1>0, <1>1, Frame
<1>3. Rientro(s) \in Telai /\ Adatto(s, Rientro(s)) /\ Rientro(s).pc \notin Stretti
  BY RientroAdatto, Nomi
<1>4. CASE proc_create(s)
  <2>1. k[s].pc = "c_campi" /\ k[s].p \in Posti
    BY <1>2, <1>4 DEF proc_create, Crea
  <2>2. PICK c \in {"c_filo", "c_pronto"} : c = IF k[s].per = "filo" THEN "c_filo" ELSE "c_pronto"
    OBVIOUS
  <2>3. PICK z \in {pid[s], tgid[s]} : z = IF k[s].per = "fork" THEN tgid[s] ELSE pid[s]
    OBVIOUS
  <2>4. z \in Pid
    BY DEF Inv1, TypeOK
  <2>5. k' = [k EXCEPT ![s].pc = c] /\ ppid' = [ppid EXCEPT ![k[s].p] = z]
    BY <1>4, <2>2, <2>3 DEF proc_create
  <2> DEFINE r == [k[s] EXCEPT !.pc = c]
  <2>6. c \in Crea
    BY DEF Crea
  <2>7. /\ r \in Telai /\ Adatto(s, r) /\ r.pc = c /\ r.p = k[s].p
        /\ [k EXCEPT ![s].pc = c] = [k EXCEPT ![s] = r]
    BY <1>0, <1>1, <2>1, <2>6, SoloPc
  <2> HIDE DEF r
  <2>8. Nasce(s, r, z)
    BY <1>4, <2>1, <2>5, <2>7 DEF Nasce, Passa, proc_create
  <2> QED
    BY <2>4, <2>7, <2>8 DEF Placido
<1>5. CASE proc_thread_crea(s)
  <2>1. k[s].pc = "c_filo" /\ k[s].p \in Posti /\ "c_pronto" \in Crea
    BY <1>2, <1>5 DEF proc_thread_crea, Crea
  <2> DEFINE r == [k[s] EXCEPT !.pc = "c_pronto"]
  <2>2. /\ r \in Telai /\ Adatto(s, r) /\ r.pc = "c_pronto" /\ r.p = k[s].p
        /\ [k EXCEPT ![s].pc = "c_pronto"] = [k EXCEPT ![s] = r]
    BY <1>0, <1>1, <2>1, SoloPc
  <2> HIDE DEF r
  <2>3. DiventaFilo(s, r)
    BY <1>5, <2>1, <2>2 DEF DiventaFilo, Passa, proc_thread_crea
  <2> QED
    BY <2>2, <2>3 DEF Placido
<1>6. CASE proc_set_ready(s)
  <2>1. Parte(s, Rientro(s), "READY")
    BY <1>3, <1>6 DEF Parte, Passa, proc_set_ready
  <2> QED
    BY <1>3, <2>1 DEF Placido
<1>7. CASE proc_kill(s)
  <2>1. k[s].pc = "c_pronto" /\ k[s].p \in Posti /\ "r_entra" \in Pc /\ "r_entra" \notin Stretti
    BY <1>2, <1>7, Nomi DEF proc_kill, Crea
  <2>2. CASE k[s].per = "filo"
    <3>1. Parte(s, Rientro(s), "ZOMBIE")
      BY <1>3, <1>7, <2>2 DEF Parte, Passa, proc_kill
    <3> QED
      BY <1>3, <3>1 DEF Placido
  <2>3. CASE k[s].per # "filo"
    <3> DEFINE r == [k[s] EXCEPT !.pc = "r_entra"]
    <3>1. r \in Telai /\ Adatto(s, r) /\ r.pc = "r_entra"
      BY <1>0, <2>1, SoloPc
    <3>2. k' = [k EXCEPT ![s] = r]
      BY <1>7, <2>3 DEF proc_kill
    <3> HIDE DEF r
    <3>3. Parte(s, r, "ZOMBIE")
      BY <1>7, <2>1, <3>1, <3>2 DEF Parte, Passa, proc_kill
    <3> QED
      BY <3>1, <3>3 DEF Placido
  <2> QED
    BY <2>2, <2>3
<1> QED
  BY <1>4, <1>5, <1>6, <1>7

\* Whoever ends takes along itself or its group.
LEMMA FaEsci ==
    ASSUME Inv1, NEW s \in Posti, NEW c \in {1, 2}, NEW fatale \in BOOLEAN,
           st[s] = "READY", k[s].pc \in {"usr", "esce"},
           Esce(s, fatale), proc_esci(s, c, fatale)
    PROVE  Muore(s, Finiti(s, fatale)) /\ Finiti(s, fatale) \in SUBSET Posti
<1> DEFINE M == Finiti(s, fatale)
           solo == pid[s] # tgid[s] /\ ~fatale
           padre == IF Erede(s, fatale) # 0 THEN Erede(s, fatale) ELSE ppid[s]
           adotta == IF solo THEN s \in staccato
                     ELSE padre # 0 /\ ~PadreVivo(padre, M) /\ Erede(s, fatale) = 0
           W == IF adotta \/ padre = 0 THEN {}
                ELSE IF solo THEN {t \in Posti : pid[t] = padre} ELSE ChiAspetta(padre)
<1>1. (M = {s} \/ M = Gruppo(tgid[s])) /\ M \subseteq Posti
  BY DEF Finiti, Gruppo
<1>2. /\ st' = [t \in Posti |-> IF t \in M THEN "ZOMBIE"
                              ELSE IF t \in W /\ st[t] = "BLOCKED" THEN "READY" ELSE st[t]]
      /\ ppid' = IF adotta THEN [ppid EXCEPT ![s] = PidInit] ELSE ppid
      /\ codice' = Codici(s, M, c, fatale)
      /\ k' = [a \in Attori |-> IF a \in M THEN Fermo ELSE k[a]]
      /\ aspetta' = aspetta \ M
      /\ interrotto' = interrotto \ M
      /\ UNCHANGED <<pid, tgid, pd, raccolta, staccato, nextPid, distrutta>>
  BY DEF proc_esci
<1>3. "dentro" \in Eventi \/ \A t \in M \ {s} : k[t].pc \notin Raccoglie
  BY DEF Esce
<1> HIDE DEF M, W, adotta
<1>4. /\ st' \in [Posti -> {"UNUSED", "NASCENTE", "READY", "BLOCKED", "ZOMBIE"}]
      /\ \A t \in Posti : /\ t \in M => st'[t] = "ZOMBIE"
                          /\ t \notin M => \/ st'[t] = st[t]
                                           \/ st[t] = "BLOCKED" /\ st'[t] = "READY"
  BY <1>2 DEF Inv1, TypeOK
<1>5. /\ ppid' \in [Posti -> Pid]
      /\ \A t \in Posti : ppid'[t] = ppid[t] \/ ppid'[t] = PidInit
  <2>1. PidInit \in Pid /\ ppid \in [Posti -> Pid]
    BY Luoghi DEF PidInit, Inv1, TypeOK
  <2>2. ppid' = ppid \/ ppid' = [ppid EXCEPT ![s] = PidInit]
    BY <1>2
  <2> QED
    BY <2>1, <2>2
<1>6. codice' \in [Posti -> 0..2]
  BY <1>2 DEF Codici, Inv1, TypeOK
<1>7. aspetta' \subseteq Posti /\ interrotto' \subseteq Posti
  BY <1>2 DEF Inv1, TypeOK
<1>8. Muore(s, M)
  BY <1>1, <1>2, <1>3, <1>4, <1>5, <1>6, <1>7 DEF Muore
<1> QED
  BY <1>1, <1>8 DEF M

\* exit, a fault, and the end of who was interrupted, as an end of s with a
\* code and a kind.
LEMMA Fine ==
    ASSUME Inv1, NEW s \in Posti, proc_exit(s) \/ syscall_handler(s)
    PROVE  /\ st[s] = "READY" /\ k[s].pc \in {"usr", "esce"}
           /\ \E c \in {1, 2}, fatale \in BOOLEAN : Esce(s, fatale) /\ proc_esci(s, c, fatale)
<1>1. Corre(s) => st[s] = "READY"
  BY Luoghi, Frame
<1>2. CASE proc_exit(s)
  <2>1. PICK fatale \in BOOLEAN : Esce(s, fatale) /\ proc_esci(s, IF fatale THEN 2 ELSE 1, fatale)
    BY <1>2 DEF proc_exit
  <2>2. Corre(s) /\ k[s].pc = "usr"
    BY <1>2 DEF proc_exit
  <2>3. CASE fatale
    <3>1. proc_esci(s, 2, fatale)
      BY <2>1, <2>3
    <3> QED
      BY <1>1, <2>1, <2>2, <3>1
  <2>4. CASE ~fatale
    <3>1. proc_esci(s, 1, fatale)
      BY <2>1, <2>4
    <3> QED
      BY <1>1, <2>1, <2>2, <3>1
  <2> QED
    BY <2>3, <2>4
<1>3. CASE syscall_handler(s)
  BY <1>1, <1>3 DEF syscall_handler
<1> QED
  BY <1>2, <1>3

\* Each step of the system is one of the steps above, and only an end is not
\* one of the quiet ones.
LEMMA PassoOFine ==
    ASSUME Inv1, Next
    PROVE  Placido \/ \E s \in Posti : proc_exit(s) \/ syscall_handler(s)
<1>1. ASSUME NEW s \in Posti, PassoKernel(s), ~syscall_handler(s)
      PROVE  Placido
  <2>1. CASE PassoRaccolta(s)
    BY <2>1, FaRaccolta, Luoghi
  <2> QED
    BY <1>1, <2>1, FaCrea, FaWaitpid, FaAttendi DEF PassoKernel
<1>2. ASSUME NEW s \in Posti, proc_interrompi(s)
      PROVE  Placido
  <2>1. Scuote(s)
    BY <1>2 DEF Scuote, proc_interrompi, Inv1, TypeOK
  <2> QED
    BY <2>1 DEF Placido
<1> QED
  BY <1>1, <1>2, FaAlloca, FaWaitpid, FaAttendi, FaInit DEF Next

\* Every step is one of the kinds above.
LEMMA OgniPasso ==
    ASSUME Inv1, Next
    PROVE  Effetto
<1>1. ASSUME NEW s \in Posti, proc_exit(s) \/ syscall_handler(s)
      PROVE  Effetto
  BY <1>1, Fine, FaEsci DEF Effetto
<1> QED
  BY <1>1, PassoOFine DEF Effetto

-----------------------------------------------------------------------------
(* The first layer is inductive.                                           *)

\* Those kinds keep the frames what they should be.
LEMMA PassaTelaio ==
    ASSUME Inv1, NEW a \in Attori, NEW r, Passa(a, r)
    PROVE  /\ Telaio' /\ k' \in [Attori -> Telai] /\ k'[a] = r
           /\ \A b \in Attori : b # a => k'[b] = k[b]
<1>1. k \in [Attori -> Telai] /\ r \in Telai /\ k' = [k EXCEPT ![a] = r]
  BY DEF Inv1, TypeOK, Telai, Passa, Adatto
<1>2. k' \in [Attori -> Telai] /\ k'[a] = r /\ \A b \in Attori : b # a => k'[b] = k[b]
  BY <1>1
<1>3. \A b \in Attori : Adatto(b, k'[b])
  BY <1>2 DEF Passa, Inv1, Telaio
<1> QED
  BY <1>2, <1>3 DEF Telaio

\* The fields and the marks keep their types.
LEMMA TipoPasso ==
    ASSUME Inv1, Effetto
    PROVE  Inv1'
<1>0. /\ pid \in [Posti -> Pid] /\ tgid \in [Posti -> Pid] /\ ppid \in [Posti -> Pid]
      /\ st \in [Posti -> {"UNUSED", "NASCENTE", "READY", "BLOCKED", "ZOMBIE"}]
      /\ codice \in [Posti -> 0..2] /\ pd \in [Posti -> Pid]
      /\ raccolta \subseteq Posti /\ staccato \subseteq Posti
      /\ aspetta \subseteq Posti /\ interrotto \subseteq Posti
      /\ nextPid \in 3..MaxPid + 1
      /\ distrutta \in [Pid -> Nat]
      /\ k \in [Attori -> Telai]
  BY DEF Inv1, TypeOK, Telai
<1>1. 0 \in Pid /\ 1 \in Pid /\ MaxPid \in Nat
  BY Luoghi, MaxPidAssumption
<1>2. ASSUME NEW a \in Attori, NEW r \in Telai,
             \/ Gira(a, r) \/ Prende(a, r) \/ Rinuncia(a, r) \/ Conferma(a, r)
             \/ Domanda(a, r) \/ Lascia(a, r) \/ Distrugge(a, r) \/ Libera(a, r)
             \/ Azzera(a, r)
      PROVE  Inv1'
  <2>1. Passa(a, r)
    BY <1>2 DEF Gira, Prende, Rinuncia, Conferma, Domanda, Lascia, Distrugge, Libera, Azzera
  <2>2. Telaio' /\ k' \in [Attori -> Telai]
    BY <2>1, PassaTelaio
  <2>3. k[a].mira \in Pid /\ (k[a].pc \in Puntano => k[a].p \in Posti)
    BY Frame
  <2>4. /\ pid' \in [Posti -> Pid] /\ tgid' \in [Posti -> Pid] /\ ppid' \in [Posti -> Pid]
        /\ pd' \in [Posti -> Pid] /\ codice' \in [Posti -> 0..2]
    BY <1>0, <1>1, <1>2
       DEF Gira, Prende, Rinuncia, Conferma, Domanda, Lascia, Distrugge, Libera, Azzera, pcb
  <2>5. st' \in [Posti -> {"UNUSED", "NASCENTE", "READY", "BLOCKED", "ZOMBIE"}]
    BY <1>0, <1>2
       DEF Gira, Prende, Rinuncia, Conferma, Domanda, Lascia, Distrugge, Libera, Azzera
  <2>6. /\ staccato' \subseteq Posti /\ aspetta' \subseteq Posti /\ interrotto' \subseteq Posti
        /\ nextPid' \in 3..MaxPid + 1
    BY <1>0, <1>2
       DEF Gira, Prende, Rinuncia, Conferma, Domanda, Lascia, Distrugge, Libera, Azzera, segni
  <2>7. raccolta' \subseteq Posti
    <3>1. CASE Prende(a, r)
      <4>1. k[a].p \in Posti
        BY <3>1, <2>3, Nomi DEF Prende
      <4> QED
        BY <3>1, <4>1, <1>0 DEF Prende
    <3> QED
      BY <1>0, <1>2, <3>1
         DEF Gira, Rinuncia, Conferma, Domanda, Lascia, Distrugge, Libera, Azzera, segni
  <2>8. distrutta' \in [Pid -> Nat]
    BY <1>0, <1>2, <2>3
       DEF Gira, Prende, Rinuncia, Conferma, Domanda, Lascia, Distrugge, Libera, Azzera
  <2> QED
    BY <2>2, <2>4, <2>5, <2>6, <2>7, <2>8 DEF Inv1, TypeOK, Telai
<1>3. ASSUME NEW s \in Posti, NEW r \in Telai,
             \/ \E q \in Pid : Nasce(s, r, q)
             \/ DiventaFilo(s, r)
             \/ \E v \in {"READY", "ZOMBIE"} : Parte(s, r, v)
             \/ Dorme(s, r)
             \/ \E x \in Posti, q \in Pid : CambiaPadre(s, r, x, q)
      PROVE  Inv1'
  <2>0. s \in Attori
    BY Luoghi
  <2>1. Passa(s, r)
    BY <1>3 DEF Nasce, DiventaFilo, Parte, Dorme, CambiaPadre
  <2>2. Telaio' /\ k' \in [Attori -> Telai]
    BY <2>0, <2>1, PassaTelaio
  <2>3. nextPid <= MaxPid => nextPid \in Pid /\ nextPid + 1 \in 3..MaxPid + 1
    BY <1>0, <1>1 DEF Pid
  <2>10. k[s].pc \in Crea => k[s].p \in Posti
    BY <2>0, Frame, Nomi
  <2>11. pd[s] \in Pid /\ tgid[s] \in Pid
    BY <1>0
  <2>4. /\ pid' \in [Posti -> Pid] /\ tgid' \in [Posti -> Pid] /\ ppid' \in [Posti -> Pid]
        /\ pd' \in [Posti -> Pid] /\ codice' \in [Posti -> 0..2]
    BY <1>0, <1>1, <1>3, <2>3, <2>11
       DEF Nasce, DiventaFilo, Parte, Dorme, CambiaPadre, pcb
  <2>5. st' \in [Posti -> {"UNUSED", "NASCENTE", "READY", "BLOCKED", "ZOMBIE"}]
    BY <1>0, <1>3 DEF Nasce, DiventaFilo, Parte, Dorme, CambiaPadre
  <2>6. /\ staccato' \subseteq Posti /\ aspetta' \subseteq Posti /\ interrotto' \subseteq Posti
        /\ raccolta' \subseteq Posti
    BY <1>0, <1>3 DEF Nasce, DiventaFilo, Parte, Dorme, CambiaPadre, segni
  <2>7. nextPid' \in 3..MaxPid + 1
    BY <1>0, <1>3, <2>3 DEF Nasce, DiventaFilo, Parte, Dorme, CambiaPadre
  <2>8. distrutta' \in [Pid -> Nat]
    <3>1. CASE DiventaFilo(s, r)
      <4>1. pd[k[s].p] \in Pid
        BY <1>0, <2>10, <3>1 DEF DiventaFilo, Crea
      <4> QED
        BY <1>0, <3>1, <4>1 DEF DiventaFilo
    <3> QED
      BY <1>0, <1>3, <3>1 DEF Nasce, Parte, Dorme, CambiaPadre
  <2> QED
    BY <2>2, <2>4, <2>5, <2>6, <2>7, <2>8 DEF Inv1, TypeOK, Telai
<1>4. ASSUME NEW s \in Posti, NEW r \in Telai, NEW x \in Posti, Alloca(s, x, r)
      PROVE  Inv1'
  <2>1. s \in Attori /\ x \in Attori /\ Init0 # x /\ s # x
    BY <1>4, Luoghi DEF Alloca
  <2>2. Fermo \in Telai /\ Fermo.pc = "usr" /\ "usr" \notin Puntano
    BY Luoghi, Nomi DEF Fermo, Telai
  <2>3. Adatto(x, Fermo)
    BY <2>1, <2>2 DEF Adatto
  <2>4. /\ k' \in [Attori -> Telai] /\ k'[s] = r /\ k'[x] = Fermo
        /\ \A b \in Attori : b # s /\ b # x => k'[b] = k[b]
    BY <1>0, <1>4, <2>1, <2>2 DEF Alloca
  <2>5. \A b \in Attori : Adatto(b, k'[b])
    BY <1>4, <2>3, <2>4 DEF Alloca, Inv1, Telaio
  <2>6. /\ pid' \in [Posti -> Pid] /\ tgid' \in [Posti -> Pid] /\ ppid' \in [Posti -> Pid]
        /\ pd' \in [Posti -> Pid] /\ codice' \in [Posti -> 0..2]
        /\ distrutta' \in [Pid -> Nat] /\ nextPid' \in 3..MaxPid + 1
    BY <1>0, <1>1, <1>4 DEF Alloca
  <2>7. st' \in [Posti -> {"UNUSED", "NASCENTE", "READY", "BLOCKED", "ZOMBIE"}]
    BY <1>0, <1>4 DEF Alloca
  <2>8. /\ staccato' \subseteq Posti /\ aspetta' \subseteq Posti /\ interrotto' \subseteq Posti
        /\ raccolta' \subseteq Posti
    BY <1>0, <1>4 DEF Alloca
  <2> QED
    BY <2>4, <2>5, <2>6, <2>7, <2>8 DEF Inv1, TypeOK, Telai, Telaio
<1>5. ASSUME NEW s \in Posti, NEW M \in SUBSET Posti, Muore(s, M)
      PROVE  Inv1'
  <2>1. Init0 \notin M
    BY Luoghi
  <2>2. Fermo \in Telai /\ Fermo.pc = "usr" /\ "usr" \notin Puntano
    BY Luoghi, Nomi DEF Fermo, Telai
  <2>3. k' = [a \in Attori |-> IF a \in M THEN Fermo ELSE k[a]]
    BY <1>5 DEF Muore
  <2>4. \A b \in M : Adatto(b, Fermo)
    BY <2>1, <2>2 DEF Adatto
  <2>5. k' \in [Attori -> Telai]
    BY <1>0, <2>2, <2>3
  <2>6. \A b \in Attori : Adatto(b, k'[b])
    BY <2>3, <2>4 DEF Inv1, Telaio
  <2>7. /\ pid' = pid /\ tgid' = tgid /\ pd' = pd /\ raccolta' = raccolta
        /\ staccato' = staccato /\ nextPid' = nextPid /\ distrutta' = distrutta
        /\ st' \in [Posti -> {"UNUSED", "NASCENTE", "READY", "BLOCKED", "ZOMBIE"}]
        /\ ppid' \in [Posti -> Pid] /\ codice' \in [Posti -> 0..2]
        /\ aspetta' \subseteq Posti /\ interrotto' \subseteq Posti
    BY <1>5 DEF Muore
  <2> QED
    BY <1>0, <2>5, <2>6, <2>7 DEF Inv1, TypeOK, Telai, Telaio
<1>6. ASSUME NEW s \in Posti, Scuote(s)
      PROVE  Inv1'
  <2>1. st' \in [Posti -> {"UNUSED", "NASCENTE", "READY", "BLOCKED", "ZOMBIE"}]
    BY <1>0, <1>6 DEF Scuote
  <2>2. UNCHANGED <<pid, tgid, ppid, codice, pd, raccolta, staccato, aspetta, nextPid,
                    distrutta, k>> /\ interrotto' \subseteq Posti
    BY <1>6 DEF Scuote, pcb
  <2>3. \A b \in Attori : Adatto(b, k'[b])
    BY <2>2 DEF Inv1, Telaio
  <2> QED
    BY <1>0, <2>1, <2>2, <2>3 DEF Inv1, TypeOK, Telai, Telaio
<1> QED
  BY <1>2, <1>3, <1>4, <1>5, <1>6 DEF Effetto, Placido

\* Types and frames at the start.
LEMMA TipoInit ==
    ASSUME Init
    PROVE  Inv1
<1>1. 0 \in Pid /\ 1 \in Pid /\ 2 \in Pid /\ 3 \in 3..MaxPid + 1
  BY Luoghi, MaxPidAssumption DEF Pid
<1>2. Init0 \in Attori /\ Init0 \notin Posti
  BY Luoghi
<1>3. /\ Fermo \in Telai /\ Fermo.pc = "usr" /\ "usr" \notin Puntano
      /\ [Fermo EXCEPT !.pc = "i_cerca"] \in Telai
      /\ [Fermo EXCEPT !.pc = "i_cerca"].pc = "i_cerca" /\ "i_cerca" \notin Puntano
  BY Luoghi, Nomi DEF Fermo, Telai
<1>4. k = [a \in Attori |-> IF a = Init0 THEN [Fermo EXCEPT !.pc = "i_cerca"] ELSE Fermo]
  BY DEF Init
<1>5. k \in [Attori -> Telai]
  BY <1>3, <1>4
<1>6. \A a \in Attori : Adatto(a, k[a])
  BY <1>2, <1>3, <1>4, Luoghi DEF Adatto, DiInit
<1>7. /\ pid \in [Posti -> Pid] /\ tgid \in [Posti -> Pid] /\ ppid \in [Posti -> Pid]
      /\ pd \in [Posti -> Pid] /\ codice \in [Posti -> 0..2] /\ distrutta \in [Pid -> Nat]
      /\ nextPid \in 3..MaxPid + 1
  BY <1>1 DEF Init, PidInit
<1>8. /\ st \in [Posti -> {"UNUSED", "NASCENTE", "READY", "BLOCKED", "ZOMBIE"}]
      /\ raccolta \subseteq Posti /\ staccato \subseteq Posti
      /\ aspetta \subseteq Posti /\ interrotto \subseteq Posti
  BY DEF Init
<1> QED
  BY <1>5, <1>6, <1>7, <1>8 DEF Inv1, TypeOK, Telai, Telaio

\* Types and frames when nothing moves.
LEMMA TipoFermo ==
    ASSUME Inv1, UNCHANGED vars
    PROVE  Inv1'
BY DEF Inv1, TypeOK, Telaio, vars, pcb, segni

\* The type invariant of Processi, for every table and every event: in
\* particular no scan of init, of waitpid or of thread_attendi runs past the
\* end of the table, and no frame points outside it when it is used.
THEOREM TipoCorretto == Spec => [](TypeOK /\ Telaio)
<1>1. Init => Inv1
  BY TipoInit
<1>2. Inv1 /\ [Next]_vars => Inv1'
  BY OgniPasso, TipoPasso, TipoFermo
<1> QED
  BY <1>1, <1>2, PTL DEF Spec, Inv1


-----------------------------------------------------------------------------
(* The second layer.                                                       *)

\* Whoever is inside the kernel is alive.
Attivi == \A s \in Posti : k[s].pc # "usr" => st[s] \in {"READY", "BLOCKED"}

\* Collection: whoever took a PCB has its claim, alone; past the second look
\* it is the zombie it came for; between r_libera and r_azzera it is free and
\* nobody has taken it.
Raccolte ==
    /\ \A a \in Attori : k[a].pc \in Raccoglie => k[a].p \in raccolta
    /\ \A a, b \in Attori :
         k[a].pc \in Raccoglie /\ k[b].pc \in Raccoglie /\ k[a].p = k[b].p => a = b
    /\ \A a \in Attori : k[a].pc \in {"r_spazio", "r_distrugge", "r_libera"} =>
         st[k[a].p] = "ZOMBIE" /\ pid[k[a].p] = k[a].letto
    /\ \A a \in Attori : k[a].pc = "r_azzera" => st[k[a].p] = "UNUSED"

\* Pids are given out once, and a directory is destroyed only after it was
\* given out.
Freschi ==
    /\ \A x \in Posti : pid[x] < nextPid /\ tgid[x] < nextPid
    /\ \A x, y \in Posti : pid[x] = pid[y] /\ pid[x] # 0 => x = y
    /\ \A d \in Pid : distrutta[d] # 0 => d < nextPid

Solo(x) == \A y \in Posti : y # x => tgid[y] # tgid[x]
Completo(x) == pid[x] # 0 /\ tgid[x] # 0 /\ ppid[x] # 0 /\ pd[x] # 0

\* Creation: a newborn has one creator; before proc_create it is in no group,
\* then alone in its own or, a thread, in the group of its creator.
Nascenti ==
    /\ \A s \in Posti : k[s].pc \in Crea => st[k[s].p] = "NASCENTE"
    /\ \A s, t \in Posti : k[s].pc \in Crea /\ k[t].pc \in Crea /\ k[s].p = k[t].p => s = t
    /\ \A s \in Posti : k[s].pc = "c_campi" => tgid[k[s].p] = 0
    /\ \A s \in Posti : k[s].pc \in {"c_filo", "c_pronto"} => Completo(k[s].p)
    /\ \A s \in Posti : k[s].pc = "c_filo" => Solo(k[s].p)
    /\ \A s \in Posti : k[s].pc = "c_pronto" => Solo(k[s].p) \/ tgid[k[s].p] = tgid[s]

\* Whoever can run has a pid, a group, a parent and a directory; a directory
\* has the name of its group; while a member is alive it stands.
Interi == \A x \in Posti : st[x] \in {"READY", "BLOCKED"} => Completo(x)
Radici == \A x \in Posti : pd[x] # 0 => pd[x] = tgid[x]
Spazi == \A x \in Posti : Vivo(x) /\ pd[x] # 0 => distrutta[pd[x]] = 0

\* Whoever is about to destroy a directory found its group empty.
Deserti ==
    \A a \in Attori : k[a].pc = "r_distrugge" =>
        /\ k[a].mira # 0 /\ k[a].mira < nextPid
        /\ \A x \in Posti : Vivo(x) => tgid[x] # k[a].mira

Inv2 ==
    /\ Attivi /\ Raccolte /\ Freschi /\ Nascenti
    /\ Interi /\ Radici /\ Spazi /\ Deserti


\* What the types say of the fields, as the steps below use it.
LEMMA Tipi ==
    ASSUME Inv1
    PROVE  /\ pid \in [Posti -> Nat] /\ tgid \in [Posti -> Nat] /\ ppid \in [Posti -> Nat]
           /\ pd \in [Posti -> Pid] /\ nextPid \in Nat /\ nextPid > 0
           /\ st \in [Posti -> {"UNUSED", "NASCENTE", "READY", "BLOCKED", "ZOMBIE"}]
           /\ distrutta \in [Pid -> Nat] /\ Posti \subseteq Attori
           /\ Pid \subseteq Nat /\ 0 \in Pid
           /\ \A b \in Attori : (k[b].pc \in Stretti => k[b].p \in Posti) /\ k[b].mira \in Pid
<1>1. Pid \subseteq Nat /\ MaxPid \in Nat /\ 0 \in Pid
  BY MaxPidAssumption DEF Pid
<1>2. /\ pid \in [Posti -> Nat] /\ tgid \in [Posti -> Nat] /\ ppid \in [Posti -> Nat]
      /\ pd \in [Posti -> Pid] /\ nextPid \in Nat /\ nextPid > 0
      /\ st \in [Posti -> {"UNUSED", "NASCENTE", "READY", "BLOCKED", "ZOMBIE"}]
      /\ distrutta \in [Pid -> Nat]
  <2>1. nextPid \in 3..MaxPid + 1
    BY DEF Inv1, TypeOK
  <2>2. nextPid \in Nat /\ nextPid > 0
    BY <1>1, <2>1
  <2> QED
    BY <1>1, <2>2 DEF Inv1, TypeOK
<1> QED
  BY <1>1, <1>2, Frame, Luoghi, Nomi

\* A step that leaves every group as it is, and the newborns of the creators
\* that go on, keeps what is said of the newborns.
LEMMA NascentiAltrove ==
    ASSUME Inv1, Nascenti, tgid' = tgid,
           \A s \in Posti : k'[s].pc \in Crea =>
              /\ k'[s] = k[s]
              /\ k[s].p \in Posti /\ st[k[s].p] = "NASCENTE" => st'[k[s].p] = "NASCENTE"
              /\ Completo(k[s].p) => Completo(k[s].p)'
    PROVE  Nascenti'
<1>0. \A s \in Posti : k[s].pc \in Crea => k[s].p \in Posti
  BY Tipi DEF Stretti
<1>1. \A x : Solo(x)' <=> Solo(x)
  BY DEF Solo
<1>2. (\A s \in Posti : k[s].pc \in Crea => st[k[s].p] = "NASCENTE")'
  BY <1>0 DEF Nascenti
<1>3. (\A s, t \in Posti : k[s].pc \in Crea /\ k[t].pc \in Crea /\ k[s].p = k[t].p => s = t)'
  BY DEF Nascenti
<1>4. (\A s \in Posti : k[s].pc = "c_campi" => tgid[k[s].p] = 0)'
  BY DEF Nascenti, Crea
<1>5. (\A s \in Posti : k[s].pc \in {"c_filo", "c_pronto"} => Completo(k[s].p))'
  <2>1. SUFFICES ASSUME NEW s \in Posti, k'[s].pc \in {"c_filo", "c_pronto"}
                 PROVE  Completo(k[s].p)'
    OBVIOUS
  <2>2. k'[s] = k[s] /\ (Completo(k[s].p) => Completo(k[s].p)')
    BY <2>1 DEF Crea
  <2>3. Completo(k[s].p)
    BY <2>1, <2>2 DEF Nascenti
  <2> QED
    BY <2>2, <2>3
<1>6. (\A s \in Posti : k[s].pc = "c_filo" => Solo(k[s].p))'
  BY DEF Nascenti, Crea, Solo
<1>7. (\A s \in Posti : k[s].pc = "c_pronto" => Solo(k[s].p) \/ tgid[k[s].p] = tgid[s])'
  BY DEF Nascenti, Crea, Solo
<1> QED
  BY <1>2, <1>3, <1>4, <1>5, <1>6, <1>7 DEF Nascenti

\* Scans, lookups and returns touch no PCB.
LEMMA TieneGira ==
    ASSUME "riuso" \notin Eventi, Inv1, Inv2, NEW a \in Attori, NEW r \in Telai,
           Gira(a, r)
    PROVE  Inv2'
<1>0. a \in Attori /\ Passa(a, r) /\ (a \in Posti => st[a] = "READY")
  BY Luoghi DEF Gira, Passa, Corre
<1>1. /\ k'[a] = r /\ \A b \in Attori : b # a => k'[b] = k[b]
  BY <1>0, PassaTelaio
<1>2. Gira(a, r)
  OBVIOUS
<1>3. /\ Attivi /\ Raccolte /\ Freschi /\ Nascenti /\ Interi /\ Radici /\ Spazi /\ Deserti
  BY DEF Inv2
<1>5. Attivi'
  BY <1>0, <1>1, <1>2, <1>3, Tipi, Luoghi DEF Gira, Attivi, pcb, segni, Raccoglie, Crea, Stretti
<1>6. Raccolte'
  BY <1>0, <1>1, <1>2, <1>3, Tipi, Luoghi DEF Gira, Raccolte, pcb, segni, Raccoglie, Crea, Stretti
<1>7. Freschi'
  BY <1>0, <1>1, <1>2, <1>3, Tipi, Luoghi DEF Gira, Freschi, pcb, segni, Raccoglie, Crea, Stretti
<1>8. Nascenti'
  <2>1. tgid' = tgid
    BY <1>2 DEF Gira, pcb
  <2>2. ASSUME NEW s \in Posti, k'[s].pc \in Crea
        PROVE  /\ k'[s] = k[s]
               /\ k[s].p \in Posti /\ st[k[s].p] = "NASCENTE" => st'[k[s].p] = "NASCENTE"
               /\ Completo(k[s].p) => Completo(k[s].p)'
    <3>1. s # a /\ k'[s] = k[s] /\ k[s].p \in Posti /\ st[k[s].p] = "NASCENTE"
      BY <1>0, <1>1, <1>2, <1>3, <2>2, Tipi DEF Gira, Raccoglie, Crea, Stretti, Nascenti
    <3>2. st'[k[s].p] = "NASCENTE"
      BY <1>0, <1>1, <1>2, <1>3, Tipi, Luoghi, <3>1 DEF Gira
    <3>3. Completo(k[s].p) => Completo(k[s].p)'
      BY <1>0, <1>1, <1>2, <1>3, Tipi, Luoghi, <3>1 DEF Gira, Completo, pcb
    <3> QED
      BY <3>1, <3>2, <3>3
  <2> QED
    BY <1>3, <2>1, <2>2, NascentiAltrove
<1>9. Interi'
  BY <1>0, <1>1, <1>2, <1>3, Tipi, Luoghi DEF Gira, Interi, Completo, pcb, segni, Raccoglie, Crea, Stretti
<1>10. Radici'
  BY <1>0, <1>1, <1>2, <1>3, Tipi, Luoghi DEF Gira, Radici, pcb, segni, Raccoglie, Crea, Stretti
<1>11. Spazi'
  BY <1>0, <1>1, <1>2, <1>3, Tipi, Luoghi DEF Gira, Spazi, Vivo, pcb, segni, Raccoglie, Crea, Stretti
<1>12. Deserti'
  BY <1>0, <1>1, <1>2, <1>3, Tipi, Luoghi DEF Gira, Deserti, Vivo, pcb, segni, Raccoglie, Crea, Stretti
<1> QED
  BY <1>5, <1>6, <1>7, <1>8, <1>9, <1>10, <1>11, <1>12 DEF Inv2

\* The compare-and-swap: nobody else has the PCB.
LEMMA TienePrende ==
    ASSUME "riuso" \notin Eventi, Inv1, Inv2, NEW a \in Attori, NEW r \in Telai,
           Prende(a, r)
    PROVE  Inv2'
<1>0. a \in Attori /\ Passa(a, r) /\ (a \in Posti => st[a] = "READY")
  BY Luoghi DEF Prende, Passa, Corre
<1>1. /\ k'[a] = r /\ \A b \in Attori : b # a => k'[b] = k[b]
  BY <1>0, PassaTelaio
<1>2. Prende(a, r)
  OBVIOUS
<1>3. /\ Attivi /\ Raccolte /\ Freschi /\ Nascenti /\ Interi /\ Radici /\ Spazi /\ Deserti
  BY DEF Inv2
<1>5. Attivi'
  BY <1>0, <1>1, <1>2, <1>3, Tipi, Luoghi DEF Prende, Attivi, pcb, segni, Raccoglie, Crea, Stretti
<1>6. Raccolte'
  BY <1>0, <1>1, <1>2, <1>3, Tipi, Luoghi DEF Prende, Raccolte, pcb, segni, Raccoglie, Crea, Stretti
<1>7. Freschi'
  BY <1>0, <1>1, <1>2, <1>3, Tipi, Luoghi DEF Prende, Freschi, pcb, segni, Raccoglie, Crea, Stretti
<1>8. Nascenti'
  <2>1. tgid' = tgid
    BY <1>2 DEF Prende, pcb
  <2>2. ASSUME NEW s \in Posti, k'[s].pc \in Crea
        PROVE  /\ k'[s] = k[s]
               /\ k[s].p \in Posti /\ st[k[s].p] = "NASCENTE" => st'[k[s].p] = "NASCENTE"
               /\ Completo(k[s].p) => Completo(k[s].p)'
    <3>1. s # a /\ k'[s] = k[s] /\ k[s].p \in Posti /\ st[k[s].p] = "NASCENTE"
      BY <1>0, <1>1, <1>2, <1>3, <2>2, Tipi DEF Prende, Raccoglie, Crea, Stretti, Nascenti
    <3>2. st'[k[s].p] = "NASCENTE"
      BY <1>0, <1>1, <1>2, <1>3, Tipi, Luoghi, <3>1 DEF Prende
    <3>3. Completo(k[s].p) => Completo(k[s].p)'
      BY <1>0, <1>1, <1>2, <1>3, Tipi, Luoghi, <3>1 DEF Prende, Completo, pcb
    <3> QED
      BY <3>1, <3>2, <3>3
  <2> QED
    BY <1>3, <2>1, <2>2, NascentiAltrove
<1>9. Interi'
  BY <1>0, <1>1, <1>2, <1>3, Tipi, Luoghi DEF Prende, Interi, Completo, pcb, segni, Raccoglie, Crea, Stretti
<1>10. Radici'
  BY <1>0, <1>1, <1>2, <1>3, Tipi, Luoghi DEF Prende, Radici, pcb, segni, Raccoglie, Crea, Stretti
<1>11. Spazi'
  BY <1>0, <1>1, <1>2, <1>3, Tipi, Luoghi DEF Prende, Spazi, Vivo, pcb, segni, Raccoglie, Crea, Stretti
<1>12. Deserti'
  BY <1>0, <1>1, <1>2, <1>3, Tipi, Luoghi DEF Prende, Deserti, Vivo, pcb, segni, Raccoglie, Crea, Stretti
<1> QED
  BY <1>5, <1>6, <1>7, <1>8, <1>9, <1>10, <1>11, <1>12 DEF Inv2

\* The claim is given back by the only one that has it.
LEMMA TieneRinuncia ==
    ASSUME "riuso" \notin Eventi, Inv1, Inv2, NEW a \in Attori, NEW r \in Telai,
           Rinuncia(a, r)
    PROVE  Inv2'
<1>0. a \in Attori /\ Passa(a, r) /\ (a \in Posti => st[a] = "READY")
  BY Luoghi DEF Rinuncia, Passa, Corre
<1>1. /\ k'[a] = r /\ \A b \in Attori : b # a => k'[b] = k[b]
  BY <1>0, PassaTelaio
<1>2. Rinuncia(a, r)
  OBVIOUS
<1>3. /\ Attivi /\ Raccolte /\ Freschi /\ Nascenti /\ Interi /\ Radici /\ Spazi /\ Deserti
  BY DEF Inv2
<1>5. Attivi'
  BY <1>0, <1>1, <1>2, <1>3, Tipi, Luoghi DEF Rinuncia, Attivi, pcb, segni, Raccoglie, Crea, Stretti
<1>6. Raccolte'
  BY <1>0, <1>1, <1>2, <1>3, Tipi, Luoghi DEF Rinuncia, Raccolte, pcb, segni, Raccoglie, Crea, Stretti
<1>7. Freschi'
  BY <1>0, <1>1, <1>2, <1>3, Tipi, Luoghi DEF Rinuncia, Freschi, pcb, segni, Raccoglie, Crea, Stretti
<1>8. Nascenti'
  <2>1. tgid' = tgid
    BY <1>2 DEF Rinuncia, pcb
  <2>2. ASSUME NEW s \in Posti, k'[s].pc \in Crea
        PROVE  /\ k'[s] = k[s]
               /\ k[s].p \in Posti /\ st[k[s].p] = "NASCENTE" => st'[k[s].p] = "NASCENTE"
               /\ Completo(k[s].p) => Completo(k[s].p)'
    <3>1. s # a /\ k'[s] = k[s] /\ k[s].p \in Posti /\ st[k[s].p] = "NASCENTE"
      BY <1>0, <1>1, <1>2, <1>3, <2>2, Tipi DEF Rinuncia, Raccoglie, Crea, Stretti, Nascenti
    <3>2. st'[k[s].p] = "NASCENTE"
      BY <1>0, <1>1, <1>2, <1>3, Tipi, Luoghi, <3>1 DEF Rinuncia
    <3>3. Completo(k[s].p) => Completo(k[s].p)'
      BY <1>0, <1>1, <1>2, <1>3, Tipi, Luoghi, <3>1 DEF Rinuncia, Completo, pcb
    <3> QED
      BY <3>1, <3>2, <3>3
  <2> QED
    BY <1>3, <2>1, <2>2, NascentiAltrove
<1>9. Interi'
  BY <1>0, <1>1, <1>2, <1>3, Tipi, Luoghi DEF Rinuncia, Interi, Completo, pcb, segni, Raccoglie, Crea, Stretti
<1>10. Radici'
  BY <1>0, <1>1, <1>2, <1>3, Tipi, Luoghi DEF Rinuncia, Radici, pcb, segni, Raccoglie, Crea, Stretti
<1>11. Spazi'
  BY <1>0, <1>1, <1>2, <1>3, Tipi, Luoghi DEF Rinuncia, Spazi, Vivo, pcb, segni, Raccoglie, Crea, Stretti
<1>12. Deserti'
  BY <1>0, <1>1, <1>2, <1>3, Tipi, Luoghi DEF Rinuncia, Deserti, Vivo, pcb, segni, Raccoglie, Crea, Stretti
<1> QED
  BY <1>5, <1>6, <1>7, <1>8, <1>9, <1>10, <1>11, <1>12 DEF Inv2

\* The second look: from here on the PCB is the zombie it came for.
LEMMA TieneConferma ==
    ASSUME "riuso" \notin Eventi, Inv1, Inv2, NEW a \in Attori, NEW r \in Telai,
           Conferma(a, r)
    PROVE  Inv2'
<1>0. a \in Attori /\ Passa(a, r) /\ (a \in Posti => st[a] = "READY")
  BY Luoghi DEF Conferma, Passa, Corre
<1>1. /\ k'[a] = r /\ \A b \in Attori : b # a => k'[b] = k[b]
  BY <1>0, PassaTelaio
<1>2. Conferma(a, r)
  OBVIOUS
<1>3. /\ Attivi /\ Raccolte /\ Freschi /\ Nascenti /\ Interi /\ Radici /\ Spazi /\ Deserti
  BY DEF Inv2
<1>4. k[a].p \in Posti /\ st[k[a].p] = "ZOMBIE"
  BY <1>0, <1>2, <1>3, Tipi DEF Conferma, Raccolte, Nascenti, Raccoglie, Crea, Stretti, Ancora
<1>5. Attivi'
  BY <1>0, <1>1, <1>2, <1>3, <1>4, Tipi, Luoghi DEF Conferma, Attivi, pcb, segni, Raccoglie, Crea, Stretti
<1>6. Raccolte'
  BY <1>0, <1>1, <1>2, <1>3, Tipi DEF Conferma, Ancora, Raccolte, pcb, segni, Raccoglie
<1>7. Freschi'
  BY <1>0, <1>1, <1>2, <1>3, <1>4, Tipi, Luoghi DEF Conferma, Freschi, pcb, segni, Raccoglie, Crea, Stretti
<1>8. Nascenti'
  <2>1. tgid' = tgid
    BY <1>2 DEF Conferma, pcb
  <2>2. ASSUME NEW s \in Posti, k'[s].pc \in Crea
        PROVE  /\ k'[s] = k[s]
               /\ k[s].p \in Posti /\ st[k[s].p] = "NASCENTE" => st'[k[s].p] = "NASCENTE"
               /\ Completo(k[s].p) => Completo(k[s].p)'
    <3>1. s # a /\ k'[s] = k[s] /\ k[s].p \in Posti /\ st[k[s].p] = "NASCENTE"
      BY <1>0, <1>1, <1>2, <1>3, <2>2, Tipi DEF Conferma, Raccoglie, Crea, Stretti, Nascenti
    <3>2. st'[k[s].p] = "NASCENTE"
      BY <1>0, <1>1, <1>2, <1>3, <1>4, Tipi, Luoghi, <3>1 DEF Conferma
    <3>3. Completo(k[s].p) => Completo(k[s].p)'
      BY <1>0, <1>1, <1>2, <1>3, <1>4, Tipi, Luoghi, <3>1 DEF Conferma, Completo, pcb
    <3> QED
      BY <3>1, <3>2, <3>3
  <2> QED
    BY <1>3, <2>1, <2>2, NascentiAltrove
<1>9. Interi'
  BY <1>0, <1>1, <1>2, <1>3, <1>4, Tipi, Luoghi DEF Conferma, Interi, Completo, pcb, segni, Raccoglie, Crea, Stretti
<1>10. Radici'
  BY <1>0, <1>1, <1>2, <1>3, <1>4, Tipi, Luoghi DEF Conferma, Radici, pcb, segni, Raccoglie, Crea, Stretti
<1>11. Spazi'
  BY <1>0, <1>1, <1>2, <1>3, <1>4, Tipi, Luoghi DEF Conferma, Spazi, Vivo, pcb, segni, Raccoglie, Crea, Stretti
<1>12. Deserti'
  BY <1>0, <1>1, <1>2, <1>3, <1>4, Tipi, Luoghi DEF Conferma, Deserti, Vivo, pcb, segni, Raccoglie, Crea, Stretti
<1> QED
  BY <1>5, <1>6, <1>7, <1>8, <1>9, <1>10, <1>11, <1>12 DEF Inv2

\* The group is empty: the directory will be destroyed.
LEMMA TieneDomanda ==
    ASSUME "riuso" \notin Eventi, Inv1, Inv2, NEW a \in Attori, NEW r \in Telai,
           Domanda(a, r)
    PROVE  Inv2'
<1>0. a \in Attori /\ Passa(a, r) /\ (a \in Posti => st[a] = "READY")
  BY Luoghi DEF Domanda, Passa, Corre
<1>1. /\ k'[a] = r /\ \A b \in Attori : b # a => k'[b] = k[b]
  BY <1>0, PassaTelaio
<1>2. Domanda(a, r)
  OBVIOUS
<1>3. /\ Attivi /\ Raccolte /\ Freschi /\ Nascenti /\ Interi /\ Radici /\ Spazi /\ Deserti
  BY DEF Inv2
<1>4. k[a].p \in Posti /\ st[k[a].p] = "ZOMBIE"
  BY <1>0, <1>2, <1>3, Tipi DEF Domanda, Raccolte, Nascenti, Raccoglie, Crea, Stretti, Ancora
<1>5. Attivi'
  BY <1>0, <1>1, <1>2, <1>3, <1>4, Tipi, Luoghi DEF Domanda, Attivi, pcb, segni, Raccoglie, Crea, Stretti
<1>6. Raccolte'
  BY <1>0, <1>1, <1>2, <1>3, <1>4, Tipi, Luoghi DEF Domanda, Raccolte, pcb, segni, Raccoglie, Crea, Stretti
<1>7. Freschi'
  BY <1>0, <1>1, <1>2, <1>3, <1>4, Tipi, Luoghi DEF Domanda, Freschi, pcb, segni, Raccoglie, Crea, Stretti
<1>8. Nascenti'
  <2>1. tgid' = tgid
    BY <1>2 DEF Domanda, pcb
  <2>2. ASSUME NEW s \in Posti, k'[s].pc \in Crea
        PROVE  /\ k'[s] = k[s]
               /\ k[s].p \in Posti /\ st[k[s].p] = "NASCENTE" => st'[k[s].p] = "NASCENTE"
               /\ Completo(k[s].p) => Completo(k[s].p)'
    <3>1. s # a /\ k'[s] = k[s] /\ k[s].p \in Posti /\ st[k[s].p] = "NASCENTE"
      BY <1>0, <1>1, <1>2, <1>3, <2>2, Tipi DEF Domanda, Raccoglie, Crea, Stretti, Nascenti
    <3>2. st'[k[s].p] = "NASCENTE"
      BY <1>0, <1>1, <1>2, <1>3, <1>4, Tipi, Luoghi, <3>1 DEF Domanda
    <3>3. Completo(k[s].p) => Completo(k[s].p)'
      BY <1>0, <1>1, <1>2, <1>3, <1>4, Tipi, Luoghi, <3>1 DEF Domanda, Completo, pcb
    <3> QED
      BY <3>1, <3>2, <3>3
  <2> QED
    BY <1>3, <2>1, <2>2, NascentiAltrove
<1>9. Interi'
  BY <1>0, <1>1, <1>2, <1>3, <1>4, Tipi, Luoghi DEF Domanda, Interi, Completo, pcb, segni, Raccoglie, Crea, Stretti
<1>10. Radici'
  BY <1>0, <1>1, <1>2, <1>3, <1>4, Tipi, Luoghi DEF Domanda, Radici, pcb, segni, Raccoglie, Crea, Stretti
<1>11. Spazi'
  BY <1>0, <1>1, <1>2, <1>3, <1>4, Tipi, Luoghi DEF Domanda, Spazi, Vivo, pcb, segni, Raccoglie, Crea, Stretti
<1>12. Deserti'
  <2>1. /\ r.mira = pd[k[a].p] /\ pd[k[a].p] # 0 /\ pd[k[a].p] = tgid[k[a].p]
        /\ pd[k[a].p] < nextPid
    BY <1>2, <1>3, <1>4 DEF Domanda, SpazioDaFare, Radici, Freschi
  <2>2. \A y \in Posti : Vivo(y) => tgid[y] # r.mira
    BY <1>2, <2>1 DEF Domanda, SpazioDaFare, Gruppo
  <2>3. UNCHANGED <<st, tgid, nextPid>>
    BY <1>2 DEF Domanda, pcb
  <2> QED
    BY <1>1, <1>3, <2>1, <2>2, <2>3 DEF Deserti, Vivo
<1> QED
  BY <1>5, <1>6, <1>7, <1>8, <1>9, <1>10, <1>11, <1>12 DEF Inv2

\* The directory stays; the zombie forgets it.
LEMMA TieneLascia ==
    ASSUME "riuso" \notin Eventi, Inv1, Inv2, NEW a \in Attori, NEW r \in Telai,
           Lascia(a, r)
    PROVE  Inv2'
<1>0. a \in Attori /\ Passa(a, r) /\ (a \in Posti => st[a] = "READY")
  BY Luoghi DEF Lascia, Passa, Corre
<1>1. /\ k'[a] = r /\ \A b \in Attori : b # a => k'[b] = k[b]
  BY <1>0, PassaTelaio
<1>2. Lascia(a, r)
  OBVIOUS
<1>3. /\ Attivi /\ Raccolte /\ Freschi /\ Nascenti /\ Interi /\ Radici /\ Spazi /\ Deserti
  BY DEF Inv2
<1>4. k[a].p \in Posti /\ st[k[a].p] = "ZOMBIE"
  BY <1>0, <1>2, <1>3, Tipi DEF Lascia, Raccolte, Nascenti, Raccoglie, Crea, Stretti, Ancora
<1>5. Attivi'
  BY <1>0, <1>1, <1>2, <1>3, <1>4, Tipi, Luoghi DEF Lascia, Attivi, pcb, segni, Raccoglie, Crea, Stretti
<1>6. Raccolte'
  BY <1>0, <1>1, <1>2, <1>3, <1>4, Tipi, Luoghi DEF Lascia, Raccolte, pcb, segni, Raccoglie, Crea, Stretti
<1>7. Freschi'
  BY <1>0, <1>1, <1>2, <1>3, <1>4, Tipi, Luoghi DEF Lascia, Freschi, pcb, segni, Raccoglie, Crea, Stretti
<1>8. Nascenti'
  <2>1. tgid' = tgid
    BY <1>2 DEF Lascia, pcb
  <2>2. ASSUME NEW s \in Posti, k'[s].pc \in Crea
        PROVE  /\ k'[s] = k[s]
               /\ k[s].p \in Posti /\ st[k[s].p] = "NASCENTE" => st'[k[s].p] = "NASCENTE"
               /\ Completo(k[s].p) => Completo(k[s].p)'
    <3>1. s # a /\ k'[s] = k[s] /\ k[s].p \in Posti /\ st[k[s].p] = "NASCENTE"
      BY <1>0, <1>1, <1>2, <1>3, <2>2, Tipi DEF Lascia, Raccoglie, Crea, Stretti, Nascenti
    <3>2. st'[k[s].p] = "NASCENTE"
      BY <1>0, <1>1, <1>2, <1>3, <1>4, Tipi, Luoghi, <3>1 DEF Lascia
    <3>3. Completo(k[s].p) => Completo(k[s].p)'
      BY <1>0, <1>1, <1>2, <1>3, <1>4, Tipi, Luoghi, <3>1 DEF Lascia, Completo, pcb
    <3> QED
      BY <3>1, <3>2, <3>3
  <2> QED
    BY <1>3, <2>1, <2>2, NascentiAltrove
<1>9. Interi'
  BY <1>0, <1>1, <1>2, <1>3, <1>4, Tipi, Luoghi DEF Lascia, Interi, Completo, pcb, segni, Raccoglie, Crea, Stretti
<1>10. Radici'
  BY <1>0, <1>1, <1>2, <1>3, <1>4, Tipi, Luoghi DEF Lascia, Radici, pcb, segni, Raccoglie, Crea, Stretti
<1>11. Spazi'
  BY <1>0, <1>1, <1>2, <1>3, <1>4, Tipi, Luoghi DEF Lascia, Spazi, Vivo, pcb, segni, Raccoglie, Crea, Stretti
<1>12. Deserti'
  BY <1>0, <1>1, <1>2, <1>3, <1>4, Tipi, Luoghi DEF Lascia, Deserti, Vivo, pcb, segni, Raccoglie, Crea, Stretti
<1> QED
  BY <1>5, <1>6, <1>7, <1>8, <1>9, <1>10, <1>11, <1>12 DEF Inv2

\* The directory is destroyed: nobody that is alive, and no newborn, has it.
LEMMA TieneDistrugge ==
    ASSUME "riuso" \notin Eventi, Inv1, Inv2, NEW a \in Attori, NEW r \in Telai,
           Distrugge(a, r)
    PROVE  Inv2'
<1>0. a \in Attori /\ Passa(a, r) /\ (a \in Posti => st[a] = "READY")
  BY Luoghi DEF Distrugge, Passa, Corre
<1>1. /\ k'[a] = r /\ \A b \in Attori : b # a => k'[b] = k[b]
  BY <1>0, PassaTelaio
<1>2. Distrugge(a, r)
  OBVIOUS
<1>3. /\ Attivi /\ Raccolte /\ Freschi /\ Nascenti /\ Interi /\ Radici /\ Spazi /\ Deserti
  BY DEF Inv2
<1>4. k[a].p \in Posti /\ st[k[a].p] = "ZOMBIE"
  BY <1>0, <1>2, <1>3, Tipi DEF Distrugge, Raccolte, Nascenti, Raccoglie, Crea, Stretti, Ancora
<1>13. \A y \in Posti : Vivo(y) => pd'[y] = pd[y]
  <2>1. \A y \in Posti : Vivo(y) => y # k[a].p /\ (pd[y] = k[a].mira => pd[y] # 0 /\ pd[y] = tgid[y] /\ tgid[y] # k[a].mira)
    BY <1>0, <1>2, <1>3, <1>4 DEF Distrugge, Deserti, Radici, Vivo
  <2> QED
    BY <1>2, <2>1 DEF Distrugge
<1>5. Attivi'
  BY <1>0, <1>1, <1>2, <1>3, <1>4, Tipi, Luoghi DEF Distrugge, Attivi, pcb, segni, Raccoglie, Crea, Stretti
<1>6. Raccolte'
  BY <1>0, <1>1, <1>2, <1>3, <1>4, Tipi, Luoghi DEF Distrugge, Raccolte, pcb, segni, Raccoglie, Crea, Stretti
<1>7. Freschi'
  <2>1. UNCHANGED <<pid, tgid, nextPid>> /\ distrutta' = [distrutta EXCEPT ![k[a].mira] = @ + 1]
    BY <1>2 DEF Distrugge, pcb
  <2>2. k[a].mira < nextPid /\ k[a].mira \in Pid
    BY <1>0, <1>2, <1>3, Tipi DEF Distrugge, Deserti
  <2> QED
    BY <1>3, <2>1, <2>2, Tipi DEF Freschi
<1>8. Nascenti'
  <2>1. tgid' = tgid
    BY <1>2 DEF Distrugge, pcb
  <2>2. ASSUME NEW s \in Posti, k'[s].pc \in Crea
        PROVE  /\ k'[s] = k[s]
               /\ k[s].p \in Posti /\ st[k[s].p] = "NASCENTE" => st'[k[s].p] = "NASCENTE"
               /\ Completo(k[s].p) => Completo(k[s].p)'
    <3>1. s # a /\ k'[s] = k[s] /\ k[s].p \in Posti /\ st[k[s].p] = "NASCENTE"
      BY <1>0, <1>1, <1>2, <1>3, <2>2, Tipi DEF Distrugge, Raccoglie, Crea, Stretti, Nascenti
    <3>2. st'[k[s].p] = "NASCENTE"
      BY <1>0, <1>1, <1>2, <1>3, <1>4, Tipi, Luoghi, <3>1 DEF Distrugge
    <3>3. Completo(k[s].p) => Completo(k[s].p)'
      <4>1. pd'[k[s].p] = pd[k[s].p]
        BY <1>13, <3>1 DEF Vivo
      <4>2. UNCHANGED <<pid, tgid, ppid>>
        BY <1>2 DEF Distrugge, pcb
      <4> QED
        BY <3>1, <4>1, <4>2 DEF Completo
    <3> QED
      BY <3>1, <3>2, <3>3
  <2> QED
    BY <1>3, <2>1, <2>2, NascentiAltrove
<1>9. Interi'
  <2>1. UNCHANGED <<pid, tgid, ppid, st>>
    BY <1>2 DEF Distrugge, pcb
  <2> QED
    BY <1>3, <1>13, <2>1 DEF Interi, Completo, Vivo
<1>10. Radici'
  BY <1>0, <1>1, <1>2, <1>3, <1>4, Tipi, Luoghi DEF Distrugge, Radici, pcb, segni, Raccoglie, Crea, Stretti
<1>11. Spazi'
  BY <1>0, <1>1, <1>2, <1>3, <1>4, Tipi, Luoghi DEF Distrugge, Spazi, Vivo, pcb, segni, Raccoglie, Crea, Stretti
<1>12. Deserti'
  BY <1>0, <1>1, <1>2, <1>3, <1>4, Tipi, Luoghi DEF Distrugge, Deserti, Vivo, pcb, segni, Raccoglie, Crea, Stretti
<1> QED
  BY <1>5, <1>6, <1>7, <1>8, <1>9, <1>10, <1>11, <1>12 DEF Inv2

\* The slot is free, and still claimed.
LEMMA TieneLibera ==
    ASSUME "riuso" \notin Eventi, Inv1, Inv2, NEW a \in Attori, NEW r \in Telai,
           Libera(a, r)
    PROVE  Inv2'
<1>0. a \in Attori /\ Passa(a, r) /\ (a \in Posti => st[a] = "READY")
  BY Luoghi DEF Libera, Passa, Corre
<1>1. /\ k'[a] = r /\ \A b \in Attori : b # a => k'[b] = k[b]
  BY <1>0, PassaTelaio
<1>2. Libera(a, r)
  OBVIOUS
<1>3. /\ Attivi /\ Raccolte /\ Freschi /\ Nascenti /\ Interi /\ Radici /\ Spazi /\ Deserti
  BY DEF Inv2
<1>4. k[a].p \in Posti /\ st[k[a].p] = "ZOMBIE"
  BY <1>0, <1>2, <1>3, Tipi DEF Libera, Raccolte, Nascenti, Raccoglie, Crea, Stretti, Ancora
<1>5. Attivi'
  BY <1>0, <1>1, <1>2, <1>3, <1>4, Tipi, Luoghi DEF Libera, Attivi, pcb, segni, Raccoglie, Crea, Stretti
<1>6. Raccolte'
  BY <1>0, <1>1, <1>2, <1>3, <1>4, Tipi, Luoghi DEF Libera, Raccolte, pcb, segni, Raccoglie, Crea, Stretti
<1>7. Freschi'
  BY <1>0, <1>1, <1>2, <1>3, <1>4, Tipi, Luoghi DEF Libera, Freschi, pcb, segni, Raccoglie, Crea, Stretti
<1>8. Nascenti'
  <2>1. tgid' = tgid
    BY <1>2 DEF Libera, pcb
  <2>2. ASSUME NEW s \in Posti, k'[s].pc \in Crea
        PROVE  /\ k'[s] = k[s]
               /\ k[s].p \in Posti /\ st[k[s].p] = "NASCENTE" => st'[k[s].p] = "NASCENTE"
               /\ Completo(k[s].p) => Completo(k[s].p)'
    <3>1. s # a /\ k'[s] = k[s] /\ k[s].p \in Posti /\ st[k[s].p] = "NASCENTE"
      BY <1>0, <1>1, <1>2, <1>3, <2>2, Tipi DEF Libera, Raccoglie, Crea, Stretti, Nascenti
    <3>2. st'[k[s].p] = "NASCENTE"
      BY <1>0, <1>1, <1>2, <1>3, <1>4, Tipi, Luoghi, <3>1 DEF Libera
    <3>3. Completo(k[s].p) => Completo(k[s].p)'
      BY <1>0, <1>1, <1>2, <1>3, <1>4, Tipi, Luoghi, <3>1 DEF Libera, Completo, pcb
    <3> QED
      BY <3>1, <3>2, <3>3
  <2> QED
    BY <1>3, <2>1, <2>2, NascentiAltrove
<1>9. Interi'
  BY <1>0, <1>1, <1>2, <1>3, <1>4, Tipi, Luoghi DEF Libera, Interi, Completo, pcb, segni, Raccoglie, Crea, Stretti
<1>10. Radici'
  BY <1>0, <1>1, <1>2, <1>3, <1>4, Tipi, Luoghi DEF Libera, Radici, pcb, segni, Raccoglie, Crea, Stretti
<1>11. Spazi'
  BY <1>0, <1>1, <1>2, <1>3, <1>4, Tipi, Luoghi DEF Libera, Spazi, Vivo, pcb, segni, Raccoglie, Crea, Stretti
<1>12. Deserti'
  BY <1>0, <1>1, <1>2, <1>3, <1>4, Tipi, Luoghi DEF Libera, Deserti, Vivo, pcb, segni, Raccoglie, Crea, Stretti
<1> QED
  BY <1>5, <1>6, <1>7, <1>8, <1>9, <1>10, <1>11, <1>12 DEF Inv2

\* The fields of the free slot are cleared and the claim is given back.
LEMMA TieneAzzera ==
    ASSUME "riuso" \notin Eventi, Inv1, Inv2, NEW a \in Attori, NEW r \in Telai,
           Azzera(a, r)
    PROVE  Inv2'
<1>0. a \in Attori /\ Passa(a, r) /\ (a \in Posti => st[a] = "READY")
  BY Luoghi DEF Azzera, Passa, Corre
<1>1. /\ k'[a] = r /\ \A b \in Attori : b # a => k'[b] = k[b]
  BY <1>0, PassaTelaio
<1>2. Azzera(a, r)
  OBVIOUS
<1>3. /\ Attivi /\ Raccolte /\ Freschi /\ Nascenti /\ Interi /\ Radici /\ Spazi /\ Deserti
  BY DEF Inv2
<1>4. k[a].p \in Posti /\ st[k[a].p] = "UNUSED"
  BY <1>0, <1>2, <1>3, Tipi DEF Azzera, Raccolte, Nascenti, Raccoglie, Crea, Stretti, Ancora
<1>5. Attivi'
  BY <1>0, <1>1, <1>2, <1>3, <1>4, Tipi, Luoghi DEF Azzera, Attivi, pcb, segni, Raccoglie, Crea, Stretti
<1>6. Raccolte'
  BY <1>0, <1>1, <1>2, <1>3, <1>4, Tipi, Luoghi DEF Azzera, Raccolte, pcb, segni, Raccoglie, Crea, Stretti
<1>7. Freschi'
  BY <1>0, <1>1, <1>2, <1>3, <1>4, Tipi, Luoghi DEF Azzera, Freschi, pcb, segni, Raccoglie, Crea, Stretti
<1>8. Nascenti'
  <2>1. tgid' = tgid
    BY <1>2 DEF Azzera, pcb
  <2>2. ASSUME NEW s \in Posti, k'[s].pc \in Crea
        PROVE  /\ k'[s] = k[s]
               /\ k[s].p \in Posti /\ st[k[s].p] = "NASCENTE" => st'[k[s].p] = "NASCENTE"
               /\ Completo(k[s].p) => Completo(k[s].p)'
    <3>1. s # a /\ k'[s] = k[s] /\ k[s].p \in Posti /\ st[k[s].p] = "NASCENTE"
      BY <1>0, <1>1, <1>2, <1>3, <2>2, Tipi DEF Azzera, Raccoglie, Crea, Stretti, Nascenti
    <3>2. st'[k[s].p] = "NASCENTE"
      BY <1>0, <1>1, <1>2, <1>3, <1>4, Tipi, Luoghi, <3>1 DEF Azzera
    <3>3. Completo(k[s].p) => Completo(k[s].p)'
      BY <1>0, <1>1, <1>2, <1>3, <1>4, Tipi, Luoghi, <3>1 DEF Azzera, Completo, pcb
    <3> QED
      BY <3>1, <3>2, <3>3
  <2> QED
    BY <1>3, <2>1, <2>2, NascentiAltrove
<1>9. Interi'
  BY <1>0, <1>1, <1>2, <1>3, <1>4, Tipi, Luoghi DEF Azzera, Interi, Completo, pcb, segni, Raccoglie, Crea, Stretti
<1>10. Radici'
  BY <1>0, <1>1, <1>2, <1>3, <1>4, Tipi, Luoghi DEF Azzera, Radici, pcb, segni, Raccoglie, Crea, Stretti
<1>11. Spazi'
  BY <1>0, <1>1, <1>2, <1>3, <1>4, Tipi, Luoghi DEF Azzera, Spazi, Vivo, pcb, segni, Raccoglie, Crea, Stretti
<1>12. Deserti'
  BY <1>0, <1>1, <1>2, <1>3, <1>4, Tipi, Luoghi DEF Azzera, Deserti, Vivo, pcb, segni, Raccoglie, Crea, Stretti
<1> QED
  BY <1>5, <1>6, <1>7, <1>8, <1>9, <1>10, <1>11, <1>12 DEF Inv2

\* proc_create: a pid, a group and a directory nobody has.
LEMMA TieneNasce ==
    ASSUME "riuso" \notin Eventi, Inv1, Inv2, NEW a \in Posti, NEW r \in Telai, NEW q \in Pid,
           Nasce(a, r, q)
    PROVE  Inv2'
<1>0. a \in Attori /\ Passa(a, r) /\ (a \in Posti => st[a] = "READY")
  BY Luoghi DEF Nasce, Passa, Corre
<1>1. /\ k'[a] = r /\ \A b \in Attori : b # a => k'[b] = k[b]
  BY <1>0, PassaTelaio
<1>2. Nasce(a, r, q)
  OBVIOUS
<1>3. /\ Attivi /\ Raccolte /\ Freschi /\ Nascenti /\ Interi /\ Radici /\ Spazi /\ Deserti
  BY DEF Inv2
<1>4. k[a].p \in Posti /\ st[k[a].p] = "NASCENTE"
  BY <1>0, <1>2, <1>3, Tipi DEF Nasce, Raccolte, Nascenti, Raccoglie, Crea, Stretti, Ancora
<1>13. /\ pid' = [pid EXCEPT ![k[a].p] = nextPid] /\ tgid' = [tgid EXCEPT ![k[a].p] = nextPid]
       /\ ppid' = [ppid EXCEPT ![k[a].p] = q] /\ pd' = [pd EXCEPT ![k[a].p] = nextPid]
       /\ st' = st /\ distrutta' = distrutta /\ q # 0 /\ a # k[a].p
       /\ r.pc \in {"c_filo", "c_pronto"} /\ r.p = k[a].p /\ k[a].pc \in Crea
  BY <1>0, <1>2, <1>3, <1>4 DEF Nasce, Interi, Completo, Crea
<1>14. \A s \in Posti : s # a /\ k[s].pc \in Crea => k[s].p # k[a].p /\ k[s].p \in Posti
  BY <1>3, <1>13, Tipi DEF Nascenti, Stretti
<1>15. \A y \in Posti : tgid[y] # nextPid /\ pid[y] # nextPid
  BY <1>3, Tipi DEF Freschi
<1>5. Attivi'
  BY <1>0, <1>1, <1>2, <1>3, <1>4, Tipi, Luoghi DEF Nasce, Attivi, pcb, segni, Raccoglie, Crea, Stretti
<1>6. Raccolte'
  BY <1>0, <1>1, <1>2, <1>3, <1>4, Tipi, Luoghi DEF Nasce, Raccolte, pcb, segni, Raccoglie, Crea, Stretti
<1>7. Freschi'
  BY <1>0, <1>1, <1>2, <1>3, <1>4, Tipi, Luoghi DEF Nasce, Freschi, pcb, segni, Raccoglie, Crea, Stretti
<1>8. Nascenti'
  <2>1. (\A s \in Posti : k[s].pc \in Crea => st[k[s].p] = "NASCENTE")'
    BY <1>0, <1>1, <1>3, <1>4, <1>13, Tipi DEF Nascenti
  <2>2. (\A s, t \in Posti : k[s].pc \in Crea /\ k[t].pc \in Crea /\ k[s].p = k[t].p => s = t)'
    BY <1>0, <1>1, <1>3, <1>13, <1>14, Tipi DEF Nascenti
  <2>3. (\A s \in Posti : k[s].pc = "c_campi" => tgid[k[s].p] = 0)'
    BY <1>0, <1>1, <1>3, <1>13, <1>14, Tipi DEF Nascenti, Crea
  <2>4. (\A s \in Posti : k[s].pc \in {"c_filo", "c_pronto"} => Completo(k[s].p))'
    BY <1>0, <1>1, <1>3, <1>4, <1>13, <1>14, Tipi DEF Nascenti, Crea, Completo
  <2>7. Solo(k[a].p)'
    BY <1>1, <1>4, <1>13, <1>15, Tipi DEF Solo
  <2>8. \A s \in Posti : s # a /\ k[s].pc \in Crea /\ Solo(k[s].p) => Solo(k[s].p)'
    <3> SUFFICES ASSUME NEW s \in Posti, s # a, k[s].pc \in Crea, Solo(k[s].p)
                 PROVE  Solo(k[s].p)'
      OBVIOUS
    <3>1. k'[s] = k[s] /\ k[s].p \in Posti /\ tgid'[k[s].p] = tgid[k[s].p] /\ tgid[k[s].p] # nextPid
      BY <1>1, <1>4, <1>13, <1>14, <1>15, Tipi
    <3> QED
      BY <3>1, <1>4, <1>13, Tipi DEF Solo
  <2>5. (\A s \in Posti : k[s].pc = "c_filo" => Solo(k[s].p))'
    BY <1>0, <1>1, <1>3, <1>13, <2>7, <2>8, Tipi DEF Nascenti, Crea
  <2>6. (\A s \in Posti : k[s].pc = "c_pronto" => Solo(k[s].p) \/ tgid[k[s].p] = tgid[s])'
    <3> SUFFICES ASSUME NEW s \in Posti, k'[s].pc = "c_pronto", s # a
                 PROVE  Solo(k[s].p)' \/ tgid'[k'[s].p] = tgid'[s]
      BY <2>7
    <3>1. k'[s] = k[s] /\ k[s].pc \in Crea
      BY <1>1, Tipi DEF Crea
    <3>2. s # k[a].p
      BY <1>3, <1>4, <3>1 DEF Attivi, Crea
    <3>3. tgid'[k[s].p] = tgid[k[s].p] /\ tgid'[s] = tgid[s]
      BY <1>4, <1>13, <1>14, <3>1, <3>2, Tipi
    <3> QED
      BY <1>3, <2>8, <3>1, <3>3 DEF Nascenti
  <2> QED
    BY <2>1, <2>2, <2>3, <2>4, <2>5, <2>6 DEF Nascenti
<1>9. Interi'
  BY <1>0, <1>1, <1>2, <1>3, <1>4, Tipi, Luoghi DEF Nasce, Interi, Completo, pcb, segni, Raccoglie, Crea, Stretti
<1>10. Radici'
  BY <1>0, <1>1, <1>2, <1>3, <1>4, Tipi, Luoghi DEF Nasce, Radici, pcb, segni, Raccoglie, Crea, Stretti
<1>11. Spazi'
  <2>1. nextPid \in Pid /\ distrutta[nextPid] = 0
    BY <1>2, <1>3, Tipi, MaxPidAssumption DEF Nasce, Freschi, Pid
  <2> QED
    BY <1>3, <1>4, <1>13, <2>1, Tipi DEF Spazi, Vivo
<1>12. Deserti'
  BY <1>0, <1>1, <1>2, <1>3, <1>4, Tipi, Luoghi DEF Nasce, Deserti, Vivo, pcb, segni, Raccoglie, Crea, Stretti
<1> QED
  BY <1>5, <1>6, <1>7, <1>8, <1>9, <1>10, <1>11, <1>12 DEF Inv2

\* proc_thread_crea: the newborn leaves its own group, of which it was the
\* only member, for the one of its creator.
LEMMA TieneDiventaFilo ==
    ASSUME "riuso" \notin Eventi, Inv1, Inv2, NEW a \in Posti, NEW r \in Telai,
           DiventaFilo(a, r)
    PROVE  Inv2'
<1>0. a \in Attori /\ Passa(a, r) /\ (a \in Posti => st[a] = "READY")
  BY Luoghi DEF DiventaFilo, Passa, Corre
<1>1. /\ k'[a] = r /\ \A b \in Attori : b # a => k'[b] = k[b]
  BY <1>0, PassaTelaio
<1>2. DiventaFilo(a, r)
  OBVIOUS
<1>3. /\ Attivi /\ Raccolte /\ Freschi /\ Nascenti /\ Interi /\ Radici /\ Spazi /\ Deserti
  BY DEF Inv2
<1>4. k[a].p \in Posti /\ st[k[a].p] = "NASCENTE"
  BY <1>0, <1>2, <1>3, Tipi DEF DiventaFilo, Raccolte, Nascenti, Raccoglie, Crea, Stretti, Ancora
<1>13. /\ distrutta' = [distrutta EXCEPT ![pd[k[a].p]] = @ + 1]
       /\ pd' = [pd EXCEPT ![k[a].p] = pd[a]] /\ tgid' = [tgid EXCEPT ![k[a].p] = tgid[a]]
       /\ ppid' = [ppid EXCEPT ![k[a].p] = tgid[a]]
       /\ pid' = pid /\ st' = st /\ nextPid' = nextPid
       /\ r.pc = "c_pronto" /\ r.p = k[a].p /\ k[a].pc = "c_filo" /\ k[a].pc \in Crea
       /\ a # k[a].p
  BY <1>0, <1>2, <1>4 DEF DiventaFilo, Crea
<1>14. \A s \in Posti : s # a /\ k[s].pc \in Crea => k[s].p # k[a].p /\ k[s].p \in Posti
  BY <1>3, <1>13, Tipi DEF Nascenti, Stretti
<1>15. Completo(k[a].p) /\ Solo(k[a].p) /\ Completo(a) /\ pd[k[a].p] = tgid[k[a].p]
  BY <1>0, <1>3, <1>4, <1>13 DEF Nascenti, Interi, Radici, Completo
<1>5. Attivi'
  BY <1>0, <1>1, <1>2, <1>3, <1>4, Tipi, Luoghi DEF DiventaFilo, Attivi, pcb, segni, Raccoglie, Crea, Stretti
<1>6. Raccolte'
  BY <1>0, <1>1, <1>2, <1>3, <1>4, Tipi, Luoghi DEF DiventaFilo, Raccolte, pcb, segni, Raccoglie, Crea, Stretti
<1>7. Freschi'
  <2>1. pd[k[a].p] \in Pid /\ pd[k[a].p] < nextPid /\ tgid[a] < nextPid
    BY <1>3, <1>4, <1>15, Tipi DEF Freschi
  <2> QED
    BY <1>3, <1>4, <1>13, <2>1, Tipi DEF Freschi
<1>8. Nascenti'
  <2>1. (\A s \in Posti : k[s].pc \in Crea => st[k[s].p] = "NASCENTE")'
    BY <1>0, <1>1, <1>3, <1>4, <1>13, Tipi DEF Nascenti
  <2>2. (\A s, t \in Posti : k[s].pc \in Crea /\ k[t].pc \in Crea /\ k[s].p = k[t].p => s = t)'
    BY <1>0, <1>1, <1>3, <1>13, <1>14, Tipi DEF Nascenti
  <2>3. (\A s \in Posti : k[s].pc = "c_campi" => tgid[k[s].p] = 0)'
    BY <1>0, <1>1, <1>3, <1>13, <1>14, Tipi DEF Nascenti, Crea
  <2>4. (\A s \in Posti : k[s].pc \in {"c_filo", "c_pronto"} => Completo(k[s].p))'
    BY <1>0, <1>1, <1>3, <1>4, <1>13, <1>14, <1>15, Tipi DEF Nascenti, Crea, Completo
  <2>8. \A s \in Posti : s # a /\ k[s].pc \in Crea /\ Solo(k[s].p) => Solo(k[s].p)'
    <3> SUFFICES ASSUME NEW s \in Posti, s # a, k[s].pc \in Crea, Solo(k[s].p)
                 PROVE  Solo(k[s].p)'
      OBVIOUS
    <3>1. k'[s] = k[s] /\ k[s].p \in Posti /\ tgid'[k[s].p] = tgid[k[s].p] /\ a # k[s].p
      BY <1>0, <1>1, <1>3, <1>4, <1>13, <1>14, Tipi DEF Nascenti
    <3>2. tgid[a] # tgid[k[s].p]
      BY <3>1 DEF Solo
    <3> QED
      BY <3>1, <3>2, <1>4, <1>13, Tipi DEF Solo
  <2>5. (\A s \in Posti : k[s].pc = "c_filo" => Solo(k[s].p))'
    BY <1>0, <1>1, <1>3, <1>13, <2>8, Tipi DEF Nascenti, Crea
  <2>6. (\A s \in Posti : k[s].pc = "c_pronto" => Solo(k[s].p) \/ tgid[k[s].p] = tgid[s])'
    <3> SUFFICES ASSUME NEW s \in Posti, k'[s].pc = "c_pronto"
                 PROVE  Solo(k[s].p)' \/ tgid'[k'[s].p] = tgid'[s]
      OBVIOUS
    <3>1. CASE s = a
      BY <1>1, <1>4, <1>13, <3>1, Tipi
    <3>2. CASE s # a
      <4>1. k'[s] = k[s] /\ k[s].pc \in Crea
        BY <1>1, <3>2, Tipi DEF Crea
      <4>2. s # k[a].p
        BY <1>3, <1>4, <4>1 DEF Attivi, Crea
      <4>3. tgid'[k[s].p] = tgid[k[s].p] /\ tgid'[s] = tgid[s]
        BY <1>4, <1>13, <1>14, <3>2, <4>1, <4>2, Tipi
      <4> QED
        BY <1>3, <2>8, <3>2, <4>1, <4>3 DEF Nascenti
    <3> QED
      BY <3>1, <3>2
  <2> QED
    BY <2>1, <2>2, <2>3, <2>4, <2>5, <2>6 DEF Nascenti
<1>9. Interi'
  BY <1>0, <1>1, <1>2, <1>3, <1>4, Tipi, Luoghi DEF DiventaFilo, Interi, Completo, pcb, segni, Raccoglie, Crea, Stretti
<1>10. Radici'
  BY <1>0, <1>1, <1>2, <1>3, <1>4, Tipi, Luoghi DEF DiventaFilo, Radici, pcb, segni, Raccoglie, Crea, Stretti
<1>11. Spazi'
  <2>1. pd[k[a].p] \in Pid /\ pd[a] \in Pid /\ pd[a] = tgid[a] /\ tgid[a] # tgid[k[a].p] /\ distrutta[pd[a]] = 0
    BY <1>0, <1>3, <1>4, <1>13, <1>15, Tipi DEF Radici, Solo, Spazi, Vivo, Completo
  <2> SUFFICES ASSUME NEW y \in Posti, st[y] \notin {"UNUSED", "ZOMBIE"}, pd'[y] # 0
               PROVE  distrutta'[pd'[y]] = 0
    BY <1>13 DEF Spazi, Vivo
  <2>2. CASE y = k[a].p
    BY <1>4, <1>13, <1>15, <2>1, <2>2, Tipi
  <2>3. CASE y # k[a].p
    <3>1. pd'[y] = pd[y] /\ pd[y] \in Pid /\ pd[y] = tgid[y] /\ distrutta[pd[y]] = 0
      BY <1>3, <1>13, <2>3, Tipi DEF Radici, Spazi, Vivo
    <3>2. pd[y] # pd[k[a].p]
      BY <1>15, <2>3, <3>1 DEF Solo
    <3> QED
      BY <1>13, <2>1, <3>1, <3>2, Tipi
  <2> QED
    BY <2>2, <2>3
<1>12. Deserti'
  BY <1>0, <1>1, <1>2, <1>3, <1>4, Tipi, Luoghi DEF DiventaFilo, Deserti, Vivo, pcb, segni, Raccoglie, Crea, Stretti
<1> QED
  BY <1>5, <1>6, <1>7, <1>8, <1>9, <1>10, <1>11, <1>12 DEF Inv2

\* The newborn runs, or is a zombie at once.
LEMMA TieneParte ==
    ASSUME "riuso" \notin Eventi, Inv1, Inv2, NEW a \in Posti, NEW r \in Telai, NEW v \in {"READY", "ZOMBIE"},
           Parte(a, r, v)
    PROVE  Inv2'
<1>0. a \in Attori /\ Passa(a, r) /\ (a \in Posti => st[a] = "READY")
  BY Luoghi DEF Parte, Passa, Corre
<1>1. /\ k'[a] = r /\ \A b \in Attori : b # a => k'[b] = k[b]
  BY <1>0, PassaTelaio
<1>2. Parte(a, r, v)
  OBVIOUS
<1>3. /\ Attivi /\ Raccolte /\ Freschi /\ Nascenti /\ Interi /\ Radici /\ Spazi /\ Deserti
  BY DEF Inv2
<1>4. k[a].p \in Posti /\ st[k[a].p] = "NASCENTE"
  BY <1>0, <1>2, <1>3, Tipi DEF Parte, Raccolte, Nascenti, Raccoglie, Crea, Stretti, Ancora
<1>5. Attivi'
  BY <1>0, <1>1, <1>2, <1>3, <1>4, Tipi, Luoghi DEF Parte, Attivi, pcb, segni, Raccoglie, Crea, Stretti
<1>6. Raccolte'
  BY <1>0, <1>1, <1>2, <1>3, <1>4, Tipi, Luoghi DEF Parte, Raccolte, pcb, segni, Raccoglie, Crea, Stretti
<1>7. Freschi'
  BY <1>0, <1>1, <1>2, <1>3, <1>4, Tipi, Luoghi DEF Parte, Freschi, pcb, segni, Raccoglie, Crea, Stretti
<1>8. Nascenti'
  BY <1>0, <1>1, <1>2, <1>3, <1>4, Tipi, Luoghi DEF Parte, Nascenti, Solo, Completo, pcb, segni, Raccoglie, Crea, Stretti
<1>9. Interi'
  <2>1. Completo(k[a].p) /\ st' = [st EXCEPT ![k[a].p] = v] /\ UNCHANGED <<pid, tgid, ppid, pd>>
    BY <1>2, <1>3 DEF Parte, Nascenti, pcb
  <2> QED
    BY <1>3, <1>4, <2>1, Tipi DEF Interi, Completo
<1>10. Radici'
  BY <1>0, <1>1, <1>2, <1>3, <1>4, Tipi, Luoghi DEF Parte, Radici, pcb, segni, Raccoglie, Crea, Stretti
<1>11. Spazi'
  BY <1>0, <1>1, <1>2, <1>3, <1>4, Tipi, Luoghi DEF Parte, Spazi, Vivo, pcb, segni, Raccoglie, Crea, Stretti
<1>12. Deserti'
  BY <1>0, <1>1, <1>2, <1>3, <1>4, Tipi, Luoghi DEF Parte, Deserti, Vivo, pcb, segni, Raccoglie, Crea, Stretti
<1> QED
  BY <1>5, <1>6, <1>7, <1>8, <1>9, <1>10, <1>11, <1>12 DEF Inv2

\* Sleeping.
LEMMA TieneDorme ==
    ASSUME "riuso" \notin Eventi, Inv1, Inv2, NEW a \in Posti, NEW r \in Telai,
           Dorme(a, r)
    PROVE  Inv2'
<1>0. a \in Attori /\ Passa(a, r) /\ (a \in Posti => st[a] = "READY")
  BY Luoghi DEF Dorme, Passa, Corre
<1>1. /\ k'[a] = r /\ \A b \in Attori : b # a => k'[b] = k[b]
  BY <1>0, PassaTelaio
<1>2. Dorme(a, r)
  OBVIOUS
<1>3. /\ Attivi /\ Raccolte /\ Freschi /\ Nascenti /\ Interi /\ Radici /\ Spazi /\ Deserti
  BY DEF Inv2
<1>5. Attivi'
  BY <1>0, <1>1, <1>2, <1>3, Tipi, Luoghi DEF Dorme, Attivi, pcb, segni, Raccoglie, Crea, Stretti
<1>6. Raccolte'
  BY <1>0, <1>1, <1>2, <1>3, Tipi, Luoghi DEF Dorme, Raccolte, pcb, segni, Raccoglie, Crea, Stretti
<1>7. Freschi'
  BY <1>0, <1>1, <1>2, <1>3, Tipi, Luoghi DEF Dorme, Freschi, pcb, segni, Raccoglie, Crea, Stretti
<1>8. Nascenti'
  <2>1. tgid' = tgid
    BY <1>2 DEF Dorme, pcb
  <2>2. ASSUME NEW s \in Posti, k'[s].pc \in Crea
        PROVE  /\ k'[s] = k[s]
               /\ k[s].p \in Posti /\ st[k[s].p] = "NASCENTE" => st'[k[s].p] = "NASCENTE"
               /\ Completo(k[s].p) => Completo(k[s].p)'
    <3>1. s # a /\ k'[s] = k[s] /\ k[s].p \in Posti /\ st[k[s].p] = "NASCENTE"
      BY <1>0, <1>1, <1>2, <1>3, <2>2, Tipi DEF Dorme, Raccoglie, Crea, Stretti, Nascenti
    <3>2. st'[k[s].p] = "NASCENTE"
      BY <1>0, <1>1, <1>2, <1>3, Tipi, Luoghi, <3>1 DEF Dorme
    <3>3. Completo(k[s].p) => Completo(k[s].p)'
      BY <1>0, <1>1, <1>2, <1>3, Tipi, Luoghi, <3>1 DEF Dorme, Completo, pcb
    <3> QED
      BY <3>1, <3>2, <3>3
  <2> QED
    BY <1>3, <2>1, <2>2, NascentiAltrove
<1>9. Interi'
  BY <1>0, <1>1, <1>2, <1>3, Tipi, Luoghi DEF Dorme, Interi, Completo, pcb, segni, Raccoglie, Crea, Stretti
<1>10. Radici'
  BY <1>0, <1>1, <1>2, <1>3, Tipi, Luoghi DEF Dorme, Radici, pcb, segni, Raccoglie, Crea, Stretti
<1>11. Spazi'
  BY <1>0, <1>1, <1>2, <1>3, Tipi, Luoghi DEF Dorme, Spazi, Vivo, pcb, segni, Raccoglie, Crea, Stretti
<1>12. Deserti'
  BY <1>0, <1>1, <1>2, <1>3, Tipi, Luoghi DEF Dorme, Deserti, Vivo, pcb, segni, Raccoglie, Crea, Stretti
<1> QED
  BY <1>5, <1>6, <1>7, <1>8, <1>9, <1>10, <1>11, <1>12 DEF Inv2

\* A thread gets another parent, and always has one.
LEMMA TieneCambiaPadre ==
    ASSUME "riuso" \notin Eventi, Inv1, Inv2, NEW a \in Posti, NEW r \in Telai, NEW q \in Pid, NEW x \in Posti,
           CambiaPadre(a, r, x, q)
    PROVE  Inv2'
<1>0. a \in Attori /\ Passa(a, r) /\ (a \in Posti => st[a] = "READY")
  BY Luoghi DEF CambiaPadre, Passa, Corre
<1>1. /\ k'[a] = r /\ \A b \in Attori : b # a => k'[b] = k[b]
  BY <1>0, PassaTelaio
<1>2. CambiaPadre(a, r, x, q)
  OBVIOUS
<1>3. /\ Attivi /\ Raccolte /\ Freschi /\ Nascenti /\ Interi /\ Radici /\ Spazi /\ Deserti
  BY DEF Inv2
<1>5. Attivi'
  BY <1>0, <1>1, <1>2, <1>3, Tipi, Luoghi DEF CambiaPadre, Attivi, pcb, segni, Raccoglie, Crea, Stretti
<1>6. Raccolte'
  BY <1>0, <1>1, <1>2, <1>3, Tipi, Luoghi DEF CambiaPadre, Raccolte, pcb, segni, Raccoglie, Crea, Stretti
<1>7. Freschi'
  BY <1>0, <1>1, <1>2, <1>3, Tipi, Luoghi DEF CambiaPadre, Freschi, pcb, segni, Raccoglie, Crea, Stretti
<1>8. Nascenti'
  <2>1. tgid' = tgid
    BY <1>2 DEF CambiaPadre, pcb
  <2>2. ASSUME NEW s \in Posti, k'[s].pc \in Crea
        PROVE  /\ k'[s] = k[s]
               /\ k[s].p \in Posti /\ st[k[s].p] = "NASCENTE" => st'[k[s].p] = "NASCENTE"
               /\ Completo(k[s].p) => Completo(k[s].p)'
    <3>1. s # a /\ k'[s] = k[s] /\ k[s].p \in Posti /\ st[k[s].p] = "NASCENTE"
      BY <1>0, <1>1, <1>2, <1>3, <2>2, Tipi DEF CambiaPadre, Raccoglie, Crea, Stretti, Nascenti
    <3>2. st'[k[s].p] = "NASCENTE"
      BY <1>0, <1>1, <1>2, <1>3, Tipi, Luoghi, <3>1 DEF CambiaPadre
    <3>3. Completo(k[s].p) => Completo(k[s].p)'
      BY <1>0, <1>1, <1>2, <1>3, Tipi, Luoghi, <3>1 DEF CambiaPadre, Completo, pcb, PidInit, Interi
    <3> QED
      BY <3>1, <3>2, <3>3
  <2> QED
    BY <1>3, <2>1, <2>2, NascentiAltrove
<1>9. Interi'
  <2>1. /\ q \in {pid[a], PidInit, ppid[x]} /\ ppid' = [ppid EXCEPT ![x] = q] /\ pid[a] # 0
        /\ UNCHANGED <<pid, tgid, pd, st>>
    BY <1>0, <1>2, <1>3 DEF CambiaPadre, Interi, Completo
  <2>2. st[x] \in {"READY", "BLOCKED"} => q # 0
    BY <1>3, <2>1 DEF Interi, Completo, PidInit
  <2> QED
    BY <1>3, <2>1, <2>2, Tipi DEF Interi, Completo
<1>10. Radici'
  BY <1>0, <1>1, <1>2, <1>3, Tipi, Luoghi DEF CambiaPadre, Radici, pcb, segni, Raccoglie, Crea, Stretti
<1>11. Spazi'
  BY <1>0, <1>1, <1>2, <1>3, Tipi, Luoghi DEF CambiaPadre, Spazi, Vivo, pcb, segni, Raccoglie, Crea, Stretti
<1>12. Deserti'
  BY <1>0, <1>1, <1>2, <1>3, Tipi, Luoghi DEF CambiaPadre, Deserti, Vivo, pcb, segni, Raccoglie, Crea, Stretti
<1> QED
  BY <1>5, <1>6, <1>7, <1>8, <1>9, <1>10, <1>11, <1>12 DEF Inv2


\* pcb_alloc: the slot it takes is claimed by no collector, and by no creator.
LEMMA TieneAlloca ==
    ASSUME "riuso" \notin Eventi, Inv1, Inv2, NEW s \in Posti, NEW x \in Posti, NEW r \in Telai,
           Alloca(s, x, r)
    PROVE  Inv2'
<1>1. /\ st[s] = "READY" /\ st[x] = "UNUSED" /\ s # x /\ s \in Attori /\ x \in Attori
      /\ x \notin raccolta /\ r.pc = "c_campi" /\ r.p = x
  BY Luoghi DEF Alloca
<1>2. /\ k'[s] = r /\ k'[x] = Fermo /\ Fermo.pc = "usr"
      /\ \A b \in Attori : b # s /\ b # x => k'[b] = k[b]
  <2>1. k \in [Attori -> Telai]
    BY DEF Inv1, TypeOK, Telai
  <2>2. k' = [k EXCEPT ![x] = Fermo, ![s] = r]
    BY DEF Alloca
  <2>3. Fermo.pc = "usr"
    BY DEF Fermo
  <2> HIDE DEF Fermo
  <2> QED
    BY <1>1, <2>1, <2>2, <2>3
<1>3. /\ Attivi /\ Raccolte /\ Freschi /\ Nascenti /\ Interi /\ Radici /\ Spazi /\ Deserti
  BY DEF Inv2
<1>4. /\ st' = [st EXCEPT ![x] = "NASCENTE"] /\ pid' = [pid EXCEPT ![x] = 0]
      /\ ppid' = [ppid EXCEPT ![x] = 0] /\ tgid' = [tgid EXCEPT ![x] = 0]
      /\ pd' = [pd EXCEPT ![x] = 0] /\ raccolta' = raccolta \ {x}
      /\ nextPid' = nextPid /\ distrutta' = distrutta
  BY DEF Alloca
<1>5. \A b \in Attori : k'[b].pc \in Raccoglie =>
        k'[b] = k[b] /\ k[b].p \in raccolta /\ k[b].p # x /\ k[b].p \in Posti
  BY <1>1, <1>2, <1>3, Tipi DEF Raccolte, Raccoglie, Stretti
<1>6. \A t \in Posti : t # s /\ k'[t].pc \in Crea =>
        k'[t] = k[t] /\ st[k[t].p] = "NASCENTE" /\ k[t].p # x /\ k[t].p \in Posti /\ t # x
  BY <1>1, <1>2, <1>3, Tipi DEF Nascenti, Crea, Stretti
<1>7. Attivi'
  BY <1>1, <1>2, <1>3, <1>4, Tipi DEF Attivi
<1>8. Raccolte'
  <2>1. \A y \in Posti : y # x => st'[y] = st[y] /\ pid'[y] = pid[y]
    BY <1>4, Tipi
  <2>2. (\A a \in Attori : k[a].pc \in Raccoglie => k[a].p \in raccolta)'
    BY <1>4, <1>5
  <2>3. (\A a, b \in Attori :
           k[a].pc \in Raccoglie /\ k[b].pc \in Raccoglie /\ k[a].p = k[b].p => a = b)'
    BY <1>3, <1>5 DEF Raccolte
  <2>4. (\A a \in Attori : k[a].pc \in {"r_spazio", "r_distrugge", "r_libera"} =>
           st[k[a].p] = "ZOMBIE" /\ pid[k[a].p] = k[a].letto)'
    BY <1>3, <1>5, <2>1 DEF Raccolte, Raccoglie
  <2>5. (\A a \in Attori : k[a].pc = "r_azzera" => st[k[a].p] = "UNUSED")'
    BY <1>3, <1>5, <2>1 DEF Raccolte, Raccoglie
  <2> QED
    BY <2>2, <2>3, <2>4, <2>5 DEF Raccolte
<1>9. Freschi'
  BY <1>3, <1>4, Tipi DEF Freschi
<1>10. Nascenti'
  <2>1. (\A t \in Posti : k[t].pc \in Crea => st[k[t].p] = "NASCENTE")'
    BY <1>1, <1>2, <1>4, <1>6, Tipi
  <2>2. (\A t, u \in Posti : k[t].pc \in Crea /\ k[u].pc \in Crea /\ k[t].p = k[u].p => t = u)'
    BY <1>1, <1>2, <1>3, <1>6, Tipi DEF Nascenti
  <2>3. (\A t \in Posti : k[t].pc = "c_campi" => tgid[k[t].p] = 0)'
    BY <1>1, <1>2, <1>3, <1>4, <1>6, Tipi DEF Nascenti, Crea
  <2>4. (\A t \in Posti : k[t].pc \in {"c_filo", "c_pronto"} => Completo(k[t].p))'
    BY <1>1, <1>2, <1>3, <1>4, <1>6, Tipi DEF Nascenti, Crea, Completo
  <2>5. \A t \in Posti : /\ t # s /\ k'[t].pc \in {"c_filo", "c_pronto"} /\ Solo(k[t].p)
                         => Solo(k[t].p)'
    <3> SUFFICES ASSUME NEW t \in Posti, t # s, k'[t].pc \in {"c_filo", "c_pronto"}, Solo(k[t].p)
                 PROVE  Solo(k[t].p)'
      OBVIOUS
    <3>1. /\ k'[t] = k[t] /\ k[t].p \in Posti /\ k[t].p # x /\ tgid[k[t].p] # 0
      BY <1>3, <1>6 DEF Nascenti, Crea, Completo
    <3> QED
      BY <1>4, <3>1, Tipi DEF Solo
  <2>6. (\A t \in Posti : k[t].pc = "c_filo" => Solo(k[t].p))'
    BY <1>1, <1>2, <1>3, <1>6, <2>5 DEF Nascenti, Crea
  <2>7. (\A t \in Posti : k[t].pc = "c_pronto" => Solo(k[t].p) \/ tgid[k[t].p] = tgid[t])'
    <3> SUFFICES ASSUME NEW t \in Posti, k'[t].pc = "c_pronto"
                 PROVE  Solo(k[t].p)' \/ tgid'[k'[t].p] = tgid'[t]
      OBVIOUS
    <3>1. t # s
      BY <1>1, <1>2
    <3>2. k'[t] = k[t] /\ k[t].p \in Posti /\ k[t].p # x /\ t # x
      BY <1>6, <3>1 DEF Crea
    <3>3. tgid'[k[t].p] = tgid[k[t].p] /\ tgid'[t] = tgid[t]
      BY <1>4, <3>2, Tipi
    <3> QED
      BY <1>3, <2>5, <3>1, <3>2, <3>3 DEF Nascenti
  <2> QED
    BY <2>1, <2>2, <2>3, <2>4, <2>6, <2>7 DEF Nascenti
<1>11. Interi'
  BY <1>3, <1>4, Tipi DEF Interi, Completo
<1>12. Radici' /\ Spazi'
  BY <1>3, <1>4, Tipi DEF Radici, Spazi, Vivo
<1>13. Deserti'
  BY <1>3, <1>4, <1>5, Tipi DEF Deserti, Vivo, Raccoglie
<1> QED
  BY <1>7, <1>8, <1>9, <1>10, <1>11, <1>12, <1>13 DEF Inv2

\* The end of s: whoever goes with it was alive, and a newborn goes only with
\* its creator.
LEMMA TieneMuore ==
    ASSUME Inv1, Inv2, NEW s \in Posti, NEW M \in SUBSET Posti, Muore(s, M)
    PROVE  Inv2'
<1>1. /\ Attivi /\ Raccolte /\ Freschi /\ Nascenti /\ Interi /\ Radici /\ Spazi /\ Deserti
  BY DEF Inv2
<1>2. /\ st[s] = "READY" /\ UNCHANGED <<pid, tgid, pd, raccolta, nextPid, distrutta>>
      /\ \A t \in Posti : /\ t \in M => st'[t] = "ZOMBIE"
                          /\ t \notin M => \/ st'[t] = st[t]
                                           \/ st[t] = "BLOCKED" /\ st'[t] = "READY"
      /\ \A t \in Posti : ppid'[t] = ppid[t] \/ ppid'[t] = 1
  BY DEF Muore, PidInit
<1>3. /\ \A a \in Attori : a \in M => k'[a].pc = "usr"
      /\ \A a \in Attori : a \notin M => k'[a] = k[a]
  <2>1. k' = [a \in Attori |-> IF a \in M THEN Fermo ELSE k[a]] /\ Fermo.pc = "usr"
    BY DEF Muore, Fermo
  <2> HIDE DEF Fermo
  <2> QED
    BY <2>1
<1>4. \A t \in M : st[t] \notin {"UNUSED", "ZOMBIE"}
  BY <1>2 DEF Muore, Gruppo, Vivo
<1>5. ASSUME NEW t \in Posti, t \notin M, k[t].pc \in Crea
      PROVE  k[t].p \in Posti /\ k[t].p \notin M
  <2>1. k[t].p \in Posti /\ st[k[t].p] = "NASCENTE" /\ k[t].p # s
    BY <1>1, <1>2, <1>5, Tipi DEF Nascenti, Stretti
  <2>2. st[t] \in {"READY", "BLOCKED"}
    BY <1>1, <1>5 DEF Attivi, Crea
  <2>3. ASSUME k[t].p \in M
        PROVE  FALSE
    <3>1. M = Gruppo(tgid[s]) /\ tgid[k[t].p] = tgid[s]
      BY <2>1, <2>3 DEF Muore, Gruppo
    <3>2. tgid[s] # 0
      BY <1>1, <1>2 DEF Interi, Completo
    <3>3. tgid[t] # tgid[s]
      BY <1>5, <2>2, <3>1 DEF Gruppo, Vivo
    <3>4. ~Solo(k[t].p)
      BY <2>1, <3>1 DEF Solo
    <3>5. k[t].pc \in {"c_filo", "c_pronto"}
      BY <1>1, <1>5, <3>1, <3>2 DEF Nascenti, Crea
    <3> QED
      BY <1>1, <3>1, <3>3, <3>4, <3>5 DEF Nascenti
  <2> QED
    BY <2>1, <2>3
<1>6. Attivi'
  BY <1>1, <1>2, <1>3, Tipi DEF Attivi
<1>7. Raccolte'
  <2>1. \A a \in Attori : k'[a].pc \in Raccoglie => k'[a] = k[a] /\ k[a].p \in Posti
    BY <1>3, Tipi DEF Raccoglie, Stretti
  <2>2. \A a \in Attori : k'[a].pc \in {"r_spazio", "r_distrugge", "r_libera"} =>
          st[k[a].p] = "ZOMBIE" /\ pid[k[a].p] = k[a].letto
    BY <1>1, <2>1 DEF Raccolte, Raccoglie
  <2>3. \A a \in Attori : k'[a].pc = "r_azzera" => st[k[a].p] = "UNUSED"
    BY <1>1, <2>1 DEF Raccolte, Raccoglie
  <2>4. \A y \in Posti : st[y] \in {"UNUSED", "ZOMBIE"} => st'[y] = st[y]
    BY <1>2, <1>4
  <2> QED
    BY <1>1, <1>2, <2>1, <2>2, <2>3, <2>4 DEF Raccolte, Raccoglie
<1>8. Freschi' /\ Radici'
  BY <1>1, <1>2 DEF Freschi, Radici
<1>9. Nascenti'
  <2>1. ASSUME NEW t \in Posti, k'[t].pc \in Crea
        PROVE  /\ k'[t] = k[t]
               /\ k[t].p \in Posti /\ st[k[t].p] = "NASCENTE" => st'[k[t].p] = "NASCENTE"
               /\ Completo(k[t].p) => Completo(k[t].p)'
    <3>1. t \notin M /\ k'[t] = k[t] /\ k[t].p \in Posti /\ k[t].p \notin M
      BY <1>3, <1>5, <2>1, Tipi DEF Crea
    <3> QED
      BY <1>2, <3>1 DEF Completo
  <2> QED
    BY <1>1, <1>2, <2>1, NascentiAltrove
<1>10. Interi'
  BY <1>1, <1>2 DEF Interi, Completo
<1>11. \A y \in Posti : st'[y] \notin {"UNUSED", "ZOMBIE"} => st[y] \notin {"UNUSED", "ZOMBIE"}
  BY <1>2
<1>12. Spazi'
  BY <1>1, <1>2, <1>11 DEF Spazi, Vivo
<1>13. Deserti'
  BY <1>1, <1>2, <1>3, <1>11 DEF Deserti, Vivo
<1> QED
  BY <1>6, <1>7, <1>8, <1>9, <1>10, <1>12, <1>13 DEF Inv2

\* A wake.
LEMMA TieneScuote ==
    ASSUME Inv1, Inv2, NEW s \in Posti, Scuote(s)
    PROVE  Inv2'
<1>1. /\ Attivi /\ Raccolte /\ Freschi /\ Nascenti /\ Interi /\ Radici /\ Spazi /\ Deserti
  BY DEF Inv2
<1>2. /\ UNCHANGED <<pid, tgid, ppid, pd, raccolta, nextPid, distrutta, k>>
      /\ \A y \in Posti : \/ st'[y] = st[y]
                          \/ st[y] = "BLOCKED" /\ st'[y] = "READY"
  BY Tipi DEF Scuote, pcb
<1>3. Attivi' /\ Interi'
  BY <1>1, <1>2 DEF Attivi, Interi, Completo
<1>4. Raccolte'
  BY <1>1, <1>2, Tipi DEF Raccolte, Raccoglie, Stretti
<1>5. Freschi' /\ Radici' /\ Spazi'
  BY <1>1, <1>2 DEF Freschi, Radici, Spazi, Vivo
<1>6. Nascenti'
  BY <1>1, <1>2, NascentiAltrove DEF Completo
<1>7. Deserti'
  BY <1>1, <1>2 DEF Deserti, Vivo
<1> QED
  BY <1>3, <1>4, <1>5, <1>6, <1>7 DEF Inv2

\* The second layer holds at the start,
LEMMA Inv2Init ==
    ASSUME Init
    PROVE  Inv2
<1>1. /\ pid  = [s \in Posti |-> IF s = 1 THEN 2 ELSE 0]
      /\ tgid = [s \in Posti |-> IF s = 1 THEN 2 ELSE 0]
      /\ ppid = [s \in Posti |-> IF s = 1 THEN 1 ELSE 0]
      /\ st   = [s \in Posti |-> IF s = 1 THEN "READY" ELSE "UNUSED"]
      /\ pd   = [s \in Posti |-> IF s = 1 THEN 2 ELSE 0]
      /\ nextPid = 3 /\ distrutta = [d \in Pid |-> 0]
  BY DEF Init, PidInit
<1>2. \A a \in Attori : k[a].pc \in {"usr", "i_cerca"} /\ (a \in Posti => k[a].pc = "usr")
  BY Luoghi DEF Init, Fermo
<1>3. Attivi /\ Raccolte /\ Nascenti /\ Deserti
  BY <1>2, Luoghi DEF Attivi, Raccolte, Nascenti, Deserti, Raccoglie, Crea
<1>4. Freschi /\ Interi /\ Radici
  BY <1>1 DEF Freschi, Interi, Radici, Completo
<1>5. Spazi
  BY <1>1, Luoghi DEF Spazi
<1> QED
  BY <1>3, <1>4, <1>5 DEF Inv2

\* and every step keeps it, where no slot is taken again under its collector.
LEMMA Inv2Passo ==
    ASSUME "riuso" \notin Eventi, Inv1, Inv2, [Next]_vars
    PROVE  Inv2'
<1>1. CASE Next
  <2>1. Effetto
    BY <1>1, OgniPasso
  <2> QED
    BY <2>1, TieneGira, TienePrende, TieneRinuncia, TieneConferma, TieneDomanda, TieneLascia,
       TieneDistrugge, TieneLibera, TieneAzzera, TieneAlloca, TieneNasce, TieneDiventaFilo,
       TieneParte, TieneDorme, TieneCambiaPadre, TieneMuore, TieneScuote
       DEF Effetto, Placido
<1>2. CASE UNCHANGED vars
  BY <1>2 DEF vars, pcb, segni, Inv2, Attivi, Raccolte, Freschi, Nascenti, Interi, Radici,
              Spazi, Deserti, Completo, Solo, Vivo
<1> QED
  BY <1>1, <1>2

\* The two layers together.
THEOREM Invariante ==
    ASSUME "riuso" \notin Eventi
    PROVE  Spec => [](Inv1 /\ Inv2)
<1>1. Init => Inv1 /\ Inv2
  BY TipoInit, Inv2Init
<1>2. Inv1 /\ Inv2 /\ [Next]_vars => Inv1' /\ Inv2'
  BY OgniPasso, TipoPasso, TipoFermo, Inv2Passo
<1> QED
  BY <1>1, <1>2, PTL DEF Spec


-----------------------------------------------------------------------------
(* What follows from the invariant.                                        *)

\* As long as no slot is taken while its collector clears it, a zombie has one
\* collector: past its second look proc_reap_zombie works alone, on a zombie,
\* and on the one it came for, whoever else collects at the same time.
THEOREM UnoRaccoglie ==
    ASSUME "riuso" \notin Eventi
    PROVE  Spec => []RaccoltaEsclusiva
<1>1. Inv1 /\ Inv2 => RaccoltaEsclusiva
  <2> SUFFICES ASSUME Inv2, NEW a \in Attori, k[a].pc \in Raccoglie \ {"r_ricontrolla", "r_azzera"}
               PROVE  /\ st[k[a].p] = "ZOMBIE" /\ pid[k[a].p] = k[a].letto /\ k[a].p \in raccolta
                      /\ \A b \in Attori \ {a} : k[b].pc \in Raccoglie => k[b].p # k[a].p
    BY DEF RaccoltaEsclusiva
  <2>1. k[a].pc \in {"r_spazio", "r_distrugge", "r_libera"} /\ k[a].pc \in Raccoglie
    BY DEF Raccoglie
  <2> QED
    BY <2>1 DEF Inv2, Raccolte
<1> QED
  BY <1>1, Invariante, PTL

\* The address space of a group is never destroyed under a member that can
\* still run, and whoever can run knows its pid and its directory.
THEOREM SpazioDiChiVive ==
    ASSUME "riuso" \notin Eventi
    PROVE  Spec => []SpazioVivo
<1>1. Inv1 /\ Inv2 => SpazioVivo
  BY DEF Inv2, Interi, Spazi, Completo, SpazioVivo, Vivo
<1> QED
  BY <1>1, Invariante, PTL

-----------------------------------------------------------------------------
(* What a step may never do.                                               *)

\* A step that leaves every collector where it is, and the claims as they are,
\* says nothing of them.
LEMMA PresaFerma ==
    ASSUME raccolta' = raccolta,
           \A b \in Attori : k[b].pc \in Raccoglie =>
                k'[b].pc \in Raccoglie /\ k'[b].p = k[b].p
    PROVE  /\ \A x \in raccolta' \ raccolta : \E a \in Attori : Tiene(a, x)'
           /\ \A x \in raccolta \ raccolta' : \E a \in Attori : Tiene(a, x)
           /\ \A a \in Attori, x \in raccolta' :
                Tiene(a, x) /\ ~Tiene(a, x)' => a # Init0 /\ st'[a] = "ZOMBIE"
BY DEF Tiene

\* The step of PresaResa, effect by effect.
LEMMA PresaPasso ==
    ASSUME "riuso" \notin Eventi, Inv1, Inv2, Effetto
    PROVE  /\ \A x \in raccolta' \ raccolta : \E a \in Attori : Tiene(a, x)'
           /\ \A x \in raccolta \ raccolta' : \E a \in Attori : Tiene(a, x)
           /\ \A a \in Attori, x \in raccolta' :
                Tiene(a, x) /\ ~Tiene(a, x)' => a # Init0 /\ st'[a] = "ZOMBIE"
<1> DEFINE Presa == /\ \A x \in raccolta' \ raccolta : \E a \in Attori : Tiene(a, x)'
                    /\ \A x \in raccolta \ raccolta' : \E a \in Attori : Tiene(a, x)
                    /\ \A a \in Attori, x \in raccolta' :
                         Tiene(a, x) /\ ~Tiene(a, x)' => a # Init0 /\ st'[a] = "ZOMBIE"
<1>0. Attivi /\ Raccolte
  BY DEF Inv2
<1>1. ASSUME NEW a \in Attori, NEW r \in Telai, Gira(a, r)
      PROVE  Presa
  <2>1. \A b \in Attori : b # a => k'[b] = k[b]
    BY <1>1, PassaTelaio DEF Gira
  <2>2. k[a].pc \notin Raccoglie /\ raccolta' = raccolta
    BY <1>1, Nomi DEF Gira
  <2> QED
    BY <2>1, <2>2, PresaFerma
<1>2. ASSUME NEW a \in Attori, NEW r \in Telai, Prende(a, r)
      PROVE  Presa
  <2>1. k'[a] = r /\ \A b \in Attori : b # a => k'[b] = k[b]
    BY <1>2, PassaTelaio DEF Prende
  <2>2. /\ k[a].pc \notin Raccoglie /\ r.pc \in Raccoglie /\ r.p = k[a].p
        /\ raccolta' = raccolta \cup {k[a].p}
    BY <1>2, Nomi DEF Prende, Raccoglie
  <2>3. \A b \in Attori : k[b].pc \in Raccoglie => k'[b] = k[b]
    BY <2>1, <2>2
  <2> QED
    BY <2>1, <2>2, <2>3 DEF Tiene
<1>3. ASSUME NEW a \in Attori, NEW r \in Telai, Rinuncia(a, r) \/ Azzera(a, r)
      PROVE  Presa
  <2>1. \A b \in Attori : b # a => k'[b] = k[b]
    BY <1>3, PassaTelaio DEF Rinuncia, Azzera
  <2>2. k[a].pc \in Raccoglie /\ raccolta' = raccolta \ {k[a].p}
    BY <1>3 DEF Rinuncia, Azzera, Raccoglie
  <2> QED
    BY <2>1, <2>2 DEF Tiene
<1>4. ASSUME NEW a \in Attori, NEW r \in Telai,
             \/ Conferma(a, r) \/ Domanda(a, r) \/ Lascia(a, r) \/ Distrugge(a, r)
             \/ Libera(a, r)
      PROVE  Presa
  <2>1. k'[a] = r /\ \A b \in Attori : b # a => k'[b] = k[b]
    BY <1>4, PassaTelaio DEF Conferma, Domanda, Lascia, Distrugge, Libera
  <2>2. raccolta' = raccolta /\ r.p = k[a].p /\ r.pc \in Raccoglie
    BY <1>4, Nomi DEF Conferma, Domanda, Lascia, Distrugge, Libera, segni
  <2> QED
    BY <2>1, <2>2, PresaFerma
<1>5. ASSUME NEW s \in Posti, NEW r \in Telai,
             \/ \E q \in Pid : Nasce(s, r, q)
             \/ DiventaFilo(s, r)
             \/ \E v \in {"READY", "ZOMBIE"} : Parte(s, r, v)
             \/ Dorme(s, r)
             \/ \E x \in Posti, q \in Pid : CambiaPadre(s, r, x, q)
      PROVE  Presa
  <2>1. /\ Passa(s, r) /\ raccolta' = raccolta
        /\ k[s].pc \in Crea \/ k[s].pc \notin Stretti
    BY <1>5, Nomi DEF Nasce, DiventaFilo, Parte, Dorme, CambiaPadre, segni
  <2>2. \A b \in Attori : b # s => k'[b] = k[b]
    BY <2>1, PassaTelaio, Luoghi
  <2>3. k[s].pc \notin Raccoglie
    BY <2>1, Nomi
  <2> QED
    BY <2>1, <2>2, <2>3, PresaFerma
<1>6. ASSUME NEW s \in Posti, NEW x \in Posti, NEW r \in Telai, Alloca(s, x, r)
      PROVE  Presa
  <2>1. k[s].pc = "usr" /\ k[x].pc = "usr" /\ raccolta' = raccolta
    BY <1>0, <1>6 DEF Alloca, Attivi
  <2>2. \A b \in Attori : k[b].pc \in Raccoglie => b # s /\ b # x
    BY <2>1 DEF Raccoglie
  <2>3. k' = [k EXCEPT ![x] = Fermo, ![s] = r] /\ k \in [Attori -> Telai]
    BY <1>6 DEF Alloca, Inv1, TypeOK, Telai
  <2>4. \A b \in Attori : k[b].pc \in Raccoglie => k'[b] = k[b]
    <3> HIDE DEF Fermo
    <3> QED BY <2>2, <2>3
  <2> QED
    BY <2>1, <2>4, PresaFerma
<1>7. ASSUME NEW s \in Posti, NEW M \in SUBSET Posti, Muore(s, M)
      PROVE  Presa
  <2>1. /\ raccolta' = raccolta /\ k' = [a \in Attori |-> IF a \in M THEN Fermo ELSE k[a]]
        /\ \A t \in M : st'[t] = "ZOMBIE"
    BY <1>7 DEF Muore
  <2>2. \A b \in Attori : b \notin M => k'[b] = k[b]
    BY <2>1
  <2>3. Init0 \notin M
    BY DEF Posti, Init0
  <2> QED
    BY <2>1, <2>2, <2>3 DEF Tiene
<1>8. ASSUME NEW s \in Posti, Scuote(s)
      PROVE  Presa
  BY <1>8, PresaFerma DEF Scuote
<1> QED
  BY <1>1, <1>2, <1>3, <1>4, <1>5, <1>6, <1>7, <1>8 DEF Effetto, Placido

\* The claim of proc_reap_zombie is raised by who takes the PCB apart, lowered by
\* its owner, and given back by whoever goes away; the end of a group that kills
\* the owner half-way, which may happen here, is the only way it is left up.
THEOREM PresaSempreResa ==
    ASSUME "riuso" \notin Eventi
    PROVE  Spec => PresaResa
<1>1. Inv1 /\ Inv2 /\ [Next]_vars =>
        [/\ \A x \in raccolta' \ raccolta : \E a \in Attori : Tiene(a, x)'
         /\ \A x \in raccolta \ raccolta' : \E a \in Attori : Tiene(a, x)
         /\ \A a \in Attori, x \in raccolta' :
              Tiene(a, x) /\ ~Tiene(a, x)' => a # Init0 /\ st'[a] = "ZOMBIE"]_vars
  BY OgniPasso, PresaPasso
<1>2. Spec => [](Inv1 /\ Inv2)
  BY Invariante
<1> QED
  BY <1>1, <1>2, PTL DEF Spec, PresaResa

\* But for the end of a process nobody that can run becomes a zombie, and a
\* zombie keeps its code.
LEMMA CodicePlacido ==
    ASSUME "riuso" \notin Eventi, Inv1, Inv2, Placido, NEW s \in Posti, st'[s] = "ZOMBIE"
    PROVE  /\ st[s] \notin {"READY", "BLOCKED"}
           /\ st[s] = "ZOMBIE" => codice'[s] = codice[s]
<1>0. st \in [Posti -> {"UNUSED", "NASCENTE", "READY", "BLOCKED", "ZOMBIE"}] /\ codice \in [Posti -> 0..2]
  BY DEF Inv1, TypeOK
<1>1. ASSUME NEW a \in Attori, NEW r \in Telai,
             \/ Gira(a, r) \/ Prende(a, r) \/ Rinuncia(a, r) \/ Conferma(a, r)
             \/ Domanda(a, r) \/ Lascia(a, r) \/ Distrugge(a, r) \/ Azzera(a, r) \/ Libera(a, r)
      PROVE  codice' = codice /\ \A t \in Posti : st'[t] = st[t] \/ st'[t] = "UNUSED"
  BY <1>0, <1>1 DEF Gira, Prende, Rinuncia, Conferma, Domanda, Lascia, Distrugge, Azzera, Libera, pcb
<1>2. ASSUME NEW a \in Posti, NEW r \in Telai,
             \/ \E q \in Pid : Nasce(a, r, q)
             \/ DiventaFilo(a, r) \/ Dorme(a, r)
             \/ \E x \in Posti, q \in Pid : CambiaPadre(a, r, x, q)
      PROVE  codice' = codice /\ \A t \in Posti : st'[t] = st[t] \/ st'[t] = "BLOCKED"
  BY <1>0, <1>2 DEF Nasce, DiventaFilo, Dorme, CambiaPadre, pcb
<1>3. ASSUME NEW a \in Posti, NEW r \in Telai, NEW v \in {"READY", "ZOMBIE"}, Parte(a, r, v)
      PROVE  codice' = codice /\ \A t \in Posti : st'[t] = st[t] \/ st[t] = "NASCENTE"
  <2>1. st[k[a].p] = "NASCENTE"
    BY <1>3 DEF Parte, Inv2, Nascenti, Crea
  <2> QED
    BY <1>0, <1>3, <2>1 DEF Parte, pcb
<1>4. ASSUME NEW a \in Posti, NEW x \in Posti, NEW r \in Telai, Alloca(a, x, r)
      PROVE  s # x /\ codice'[s] = codice[s] /\ st'[s] = st[s]
  BY <1>0, <1>4 DEF Alloca
<1>5. ASSUME NEW a \in Posti, Scuote(a)
      PROVE  codice' = codice /\ \A t \in Posti : st'[t] = st[t] \/ st'[t] = "READY"
  BY <1>0, <1>5 DEF Scuote, pcb
<1> QED
  BY <1>1, <1>2, <1>3, <1>4, <1>5 DEF Placido

\* The leader of a program that ran carries, from its end until it is
\* collected, the code of whoever ended the program, also when another thread
\* died of a fault.
THEOREM CodiceConsegnato ==
    ASSUME "riuso" \notin Eventi
    PROVE  Spec => CodiceDelCapo
<1> DEFINE Passo == \A s \in Posti : tgid[s] = pid[s] /\ st'[s] = "ZOMBIE" =>
                      /\ st[s] \in {"READY", "BLOCKED"} => codice'[s] # 0
                      /\ st[s] = "ZOMBIE" => codice'[s] = codice[s]
<1>1. Inv1 /\ Inv2 /\ [Next]_vars => [Passo]_vars
  <2> SUFFICES ASSUME Inv1, Inv2, Next, NEW s \in Posti, tgid[s] = pid[s], st'[s] = "ZOMBIE"
               PROVE  /\ st[s] \in {"READY", "BLOCKED"} => codice'[s] # 0
                      /\ st[s] = "ZOMBIE" => codice'[s] = codice[s]
    OBVIOUS
  <2>1. CASE Placido
    BY <2>1, CodicePlacido
  <2>2. ASSUME NEW a \in Posti, proc_exit(a) \/ syscall_handler(a)
        PROVE  /\ st[s] \in {"READY", "BLOCKED"} => codice'[s] # 0
               /\ st[s] = "ZOMBIE" => codice'[s] = codice[s]
    <3>1. PICK c \in {1, 2}, fatale \in BOOLEAN : Esce(a, fatale) /\ proc_esci(a, c, fatale)
      BY <2>2, Fine
    <3>2. st[a] = "READY" /\ k[a].pc \in {"usr", "esce"}
      BY <2>2, Fine
    <3>3. Muore(a, Finiti(a, fatale))
      BY <3>1, <3>2, FaEsci
    <3>4. codice' = Codici(a, Finiti(a, fatale), c, fatale)
      BY <3>1 DEF proc_esci
    <3>5. codice'[s] = IF s = a \/ (fatale /\ pid[s] = tgid[a] /\ s \in Finiti(a, fatale)) THEN c
                       ELSE IF s \in Finiti(a, fatale) THEN 0 ELSE codice[s]
      BY <3>4 DEF Codici
    <3>6. CASE st[s] = "ZOMBIE"
      <4>1. s \notin Finiti(a, fatale) /\ s # a
        BY <3>2, <3>6 DEF Finiti, Gruppo, Vivo
      <4> QED
        BY <3>5, <3>6, <4>1
    <3>7. CASE st[s] \in {"READY", "BLOCKED"}
      <4>1. s \in Finiti(a, fatale)
        BY <3>3, <3>7 DEF Muore
      <4>2. CASE s = a
        BY <3>5, <3>7, <4>2
      <4>3. CASE s # a
        <5>1. s \in Gruppo(tgid[a]) /\ tgid[s] = tgid[a]
          BY <4>1, <4>3 DEF Finiti, Gruppo
        <5>2. CASE fatale
          BY <3>5, <3>7, <4>1, <5>1, <5>2
        <5>3. CASE ~fatale
          <6>1. pid[a] = tgid[a]
            BY <4>1, <4>3, <5>3 DEF Finiti
          <6>2. pid[s] = pid[a] /\ pid[s] # 0
            BY <3>7, <5>1, <6>1 DEF Inv2, Interi, Completo
          <6> QED
            BY <4>3, <6>2 DEF Inv2, Freschi
        <5> QED
          BY <5>2, <5>3
      <4> QED
        BY <4>2, <4>3
    <3> QED
      BY <3>6, <3>7
  <2> QED
    BY <2>1, <2>2, PassoOFine
<1> QED
  BY <1>1, Invariante, PTL DEF Spec, CodiceDelCapo

\* Whoever sleeps in waitpid when a child of its process ends is woken in the
\* same section, whichever thread sleeps and whichever thread's fault ended the
\* child, as long as the parent the child names is alive.
THEOREM ChiAspettaSiSveglia ==
    ASSUME "riuso" \notin Eventi
    PROVE  Spec => FineAnnunciata
<1> DEFINE Passo == \A s, t \in Posti :
         /\ st[s] \in {"READY", "BLOCKED"} /\ st'[s] = "ZOMBIE" /\ tgid[s] = pid[s]
         /\ st[t] = "BLOCKED" /\ t \in aspetta
         /\ \E u \in Posti : Vivo(u) /\ Vivo(u)' /\ pid[u] = ppid[s] /\ tgid[u] = tgid[t]
         => st'[t] # "BLOCKED"
<1>1. Inv1 /\ Inv2 /\ [Next]_vars => [Passo]_vars
  <2> SUFFICES ASSUME Inv1, Inv2, Next, NEW s \in Posti, NEW t \in Posti,
                      st[s] \in {"READY", "BLOCKED"}, st'[s] = "ZOMBIE", tgid[s] = pid[s],
                      st[t] = "BLOCKED", t \in aspetta,
                      NEW u \in Posti, Vivo(u), Vivo(u)', pid[u] = ppid[s], tgid[u] = tgid[t]
               PROVE  st'[t] # "BLOCKED"
    OBVIOUS
  <2>1. ~Placido
    BY CodicePlacido
  <2>2. PICK a \in Posti : proc_exit(a) \/ syscall_handler(a)
    BY <2>1, PassoOFine
  <2>3. PICK c \in {1, 2}, fatale \in BOOLEAN : Esce(a, fatale) /\ proc_esci(a, c, fatale)
    BY <2>2, Fine
  <2>4. st[a] = "READY" /\ k[a].pc \in {"usr", "esce"}
    BY <2>2, Fine
  <2> DEFINE M == Finiti(a, fatale)
             solo == pid[a] # tgid[a] /\ ~fatale
             padre == IF Erede(a, fatale) # 0 THEN Erede(a, fatale) ELSE ppid[a]
             adotta == IF solo THEN a \in staccato
                       ELSE padre # 0 /\ ~PadreVivo(padre, M) /\ Erede(a, fatale) = 0
             W == IF adotta \/ padre = 0 THEN {}
                  ELSE IF solo THEN {y \in Posti : pid[y] = padre} ELSE ChiAspetta(padre)
  <2>5. st' = [y \in Posti |-> IF y \in M THEN "ZOMBIE"
                               ELSE IF y \in W /\ st[y] = "BLOCKED" THEN "READY" ELSE st[y]]
    BY <2>3 DEF proc_esci
  <2>6. Muore(a, M)
    BY <2>3, <2>4, FaEsci
  <2>7. s \in M /\ u \notin M
    BY <2>6 DEF Muore, Vivo
  <2>8. /\ pid[s] # 0 /\ ppid[s] # 0 /\ pid \in [Posti -> Nat] /\ Posti \subseteq Nat
        /\ \A x, y \in Posti : pid[x] = pid[y] /\ pid[x] # 0 => x = y
    BY Tipi, Luoghi DEF Inv2, Interi, Completo, Freschi
  <2>9. ~solo /\ padre = ppid[s] /\ ~adotta
    <3>1. CASE s = a
      <4>1. Erede(a, fatale) = 0 /\ ~solo
        BY <3>1 DEF Erede
      <4>2. padre = ppid[s]
        BY <3>1, <4>1
      <4>3. PadreVivo(padre, M)
        BY <2>7, <4>2 DEF PadreVivo
      <4> QED
        BY <4>1, <4>2, <4>3
    <3>2. CASE s # a
      <4>1. tgid[s] = tgid[a] /\ (pid[a] = tgid[a] \/ fatale)
        BY <2>7, <3>2 DEF Finiti, Gruppo
      <4>2. pid[a] # tgid[a]
        BY <2>8, <3>2, <4>1
      <4>3. Trovati(tgid[a]) = {s}
        BY <2>8, <4>1 DEF Trovati
      <4>4. Min({s}) = s
        BY <2>8, Minimo, {s} \subseteq Nat, {s} # {}
      <4>5. Erede(a, fatale) = ppid[s]
        BY <4>1, <4>2, <4>3, <4>4 DEF Erede
      <4> QED
        BY <2>8, <4>1, <4>2, <4>5
    <3> QED
      BY <3>1, <3>2
  <2>10. t \in W
    <3>1. u \in Trovati(ppid[s])
      BY DEF Trovati, Vivo
    <3>2. t \in ChiAspetta(ppid[s])
      BY <3>1 DEF ChiAspetta
    <3>3. W = ChiAspetta(ppid[s])
      BY <2>8, <2>9
    <3> QED
      BY <3>2, <3>3
  <2> HIDE DEF M, W
  <2> QED
    BY <2>5, <2>10
<1> QED
  BY <1>1, Invariante, PTL DEF Spec, FineAnnunciata


=============================================================================
