-------------------------------- MODULE Tubi --------------------------------
(***************************************************************************)
(* Pipes (src/kernel/ipc/pipe.c, include/attese.h), the descriptors that   *)
(* name them and poll (syscall_impl.c).  The threads of a program share    *)
(* one table of descriptors.  A critical section with interrupts off is    *)
(* one step; between two of them a thread may be preempted for as long as  *)
(* the scheduler likes.                                                    *)
(*                                                                         *)
(* Waiters are a set of pids for each side of a pipe: all of them are      *)
(* woken at every change.  A pid stays in the set of a pipe it does not    *)
(* wait for any more when its call was interrupted.                        *)
(***************************************************************************)
EXTENDS Naturals, Sequences, FiniteSets

CONSTANTS
    Fili,        \* threads
    Programma,   \* thread -> the program it belongs to
    Primo,       \* the program there is at the start; the others come from fork
    Fa,          \* thread -> the calls it makes; "nb": also with O_NONBLOCK;
                 \* "interrotto": it may be told to stop
    Numeri,      \* numbers of descriptors (3 and up: 0, 1, 2 are not closed)
    Tubi,        \* pipes, in the order pipe_crea looks at them
    Dim,         \* PIPE_DIM
    Chiede,      \* "R", "W" -> bytes a call may ask for, PIPE_TRANCHE at most
    Blocco,      \* the first size of the array of waiters
    Elenchi,     \* poll: lists of descriptors
    Desideri,    \* poll: what an entry may ask for
    MaxScritti,  \* bound: calls of write
    Eventi       \* which of "gara", "memoria" happen

Programmi == {Programma[p] : p \in Fili}

ASSUME MisureTubi ==
    /\ Tubi \subseteq Nat \ {0} /\ Tubi # {}
    /\ Numeri \subseteq Nat \ {0} /\ IsFiniteSet(Numeri) /\ IsFiniteSet(Fili)
    /\ \A p \in Fili : Fa[p] \subseteq {"pipe", "dup", "chiudi", "fork", "esce", "R", "W", "poll",
                                      "nb", "interrotto"}
    /\ Dim \in Nat \ {0} /\ Chiede \in [{"R", "W"} -> SUBSET (Nat \ {0})] /\ Blocco \in Nat \ {0}
    /\ Primo \in Programmi /\ MaxScritti \in Nat
    /\ Elenchi \subseteq SUBSET Numeri /\ Desideri \subseteq SUBSET {"IN", "OUT"}
    /\ Eventi \subseteq {"gara", "memoria"}

VARIABLES
    pipe,        \* pipe -> usata, testa, quanti, lettori, scrittori, buf
    att,         \* pipe -> side -> pids that wait there
    posti,       \* pipe -> side -> room for waiters after the first
    fdt,         \* program -> number -> descriptor
    th,          \* thread -> where it is in its call
    interrotto,  \* threads told to stop (Process.interrotto)
    scritti      \* calls of write made so far

vars == <<pipe, att, posti, fdt, th, interrotto, scritti>>

Zitto  == [che |-> "no", dati |-> <<>>]
Libero == [tipo |-> "no", h |-> 0]     \* FD_UNUSED
UnFile == [tipo |-> "file", h |-> 0]   \* FD_FILE: takes up a number, and is always ready

(* A thread in ring 3, with what its last call gave it.                    *)
Fuori(reso) == [st |-> "fuori", op |-> "no", h |-> 0, fd |-> 0, n |-> 0, nb |-> FALSE, c |-> 0,
                voci |-> <<>>, tempo |-> "mai", vuole |-> 0, reso |-> reso]

In(p, st) == [th[p] EXCEPT !.st = st]

Lato(tipo) == IF tipo = "R" THEN "L" ELSE "S"

-----------------------------------------------------------------------------
(* attese.h                                                                *)

attese_metti(h, lato, p) == p \in att[h][lato] \/ Cardinality(att[h][lato]) <= posti[h][lato]

\* Mutant: only one of those who wait is woken.
Desti_uno(S, TH) ==
    LET dormono == {q \in S : TH[q].st = "dorme"}
    IN  [q \in Fili |-> IF dormono # {} /\ q = CHOOSE x \in dormono : TRUE
                        THEN [TH[q] EXCEPT !.st = "desto"] ELSE TH[q]]

(* attese_sveglia_locked: everybody in S is woken, whatever it sleeps on.  *)
Desti(S, TH) ==
    [q \in Fili |-> IF q \in S /\ TH[q].st = "dorme" THEN [TH[q] EXCEPT !.st = "desto"]
                    ELSE TH[q]]

(* attese_cresci, its two critical sections; the array is allocated in     *)
(* between.                                                                *)
CresceGuarda(p) ==
    LET m == posti[th[p].h][Lato(th[p].op)] IN
    /\ th[p].st = "cresce"
    /\ th' = [th EXCEPT ![p].st = "alloca", ![p].vuole = IF m = 0 THEN Blocco ELSE 2 * m]
    /\ UNCHANGED <<pipe, att, posti, fdt, interrotto, scritti>>

-----------------------------------------------------------------------------
(* The end of a call: syscall_handler ends the program of a thread that    *)
(* was told to stop.                                                       *)

Resa(p, che, dati) ==
    [Fuori([che |-> che, dati |-> dati]) EXCEPT !.st = IF p \in interrotto THEN "esce" ELSE @]

Finisce(p, che) == [th EXCEPT ![p] = Resa(p, che, <<>>)]

(* ... its second one, or no memory.                                       *)
CrescePosa(p) ==
    LET h == th[p].h
        l == Lato(th[p].op)
    IN
    /\ th[p].st = "alloca"
    /\ \/ /\ posti' = [posti EXCEPT ![h][l] = IF @ < th[p].vuole THEN th[p].vuole ELSE @]
          /\ th' = [th EXCEPT ![p] = [In(p, "gira") EXCEPT !.vuole = 0]]
       \/ /\ "memoria" \in Eventi
          /\ th' = Finisce(p, "altro")
          /\ UNCHANGED posti
    /\ UNCHANGED <<pipe, att, fdt, interrotto, scritti>>

-----------------------------------------------------------------------------
(* The ends of a pipe.                                                     *)

Vergine(d) == [d EXCEPT !.usata = FALSE, !.testa = 0, !.quanti = 0,
                        !.lettori = 0, !.scrittori = 0, !.buf = [i \in 0 .. Dim - 1 |-> <<>>]]

Meno(k) == IF k > 0 THEN k - 1 ELSE 0

(* Who is told that an end is closed: with the last one, who waits at the  *)
(* other side.                                                             *)
Svegliati(h, tipo) ==
    CASE tipo = "R" /\ pipe[h].lettori <= 1 -> att[h]["S"]
      [] tipo = "W" /\ pipe[h].scrittori <= 1 -> att[h]["L"]
      [] OTHER -> {}

(* pipe_chiudi_lettore_locked, pipe_chiudi_scrittore_locked on the pipes   *)
(* in PP and the waiters in AA; a pipe that has no ends left is free, and  *)
(* forgets who waited.                                                     *)
Chiuso(PP, h, tipo) ==
    LET d == IF tipo = "R" THEN [PP[h] EXCEPT !.lettori = Meno(@)]
             ELSE [PP[h] EXCEPT !.scrittori = Meno(@)]
    IN  IF h = 0 \/ ~PP[h].usata THEN PP
        ELSE [PP EXCEPT ![h] = IF d.lettori = 0 /\ d.scrittori = 0 THEN Vergine(d) ELSE d]

Dimenticati(PP, AA) ==
    [h \in Tubi |->
        IF PP[h].usata
        THEN [L |-> IF PP[h].scrittori = 0 THEN {} ELSE AA[h]["L"],
              S |-> IF PP[h].lettori = 0 THEN {} ELSE AA[h]["S"]]
        ELSE [L |-> {}, S |-> {}]]

(* pipe_apri_lettore, pipe_apri_scrittore.                                 *)
Aperto(PP, h, tipo) ==
    IF h = 0 \/ ~PP[h].usata THEN PP
    ELSE IF tipo = "R" THEN [PP EXCEPT ![h].lettori = @ + 1]
    ELSE [PP EXCEPT ![h].scrittori = @ + 1]

(* Threads of one program do not race for a descriptor, unless "gara":     *)
(* nobody else is in the middle of a call that changes the table ...       *)
Cambia == {"pipe r", "pipe w", "dup", "chiude"}

Indisturbato(p) ==
    "gara" \in Eventi \/ \A q \in Fili \ {p} : Programma[q] = Programma[p] => th[q].st \notin Cambia

(* ... nor of one that closes descriptor n, which p wants to use ...       *)
Saldo(p, n) ==
    "gara" \in Eventi \/ \A q \in Fili : Programma[q] = Programma[p] /\ th[q].st = "chiude" =>
                                         th[q].fd # n

(* ... and nobody uses descriptor n.                                       *)
Usa(q, n) ==
    \/ th[q].op \in {"R", "W"} /\ th[q].fd = n
    \/ th[q].op = "poll" /\ n \in DOMAIN th[q].voci

Inutilizzato(p, n) ==
    "gara" \in Eventi \/ \A q \in Fili \ {p} : Programma[q] = Programma[p] => ~Usa(q, n)

-----------------------------------------------------------------------------
(* Descriptors.                                                            *)

Tabella(p) == fdt[Programma[p]]

InizioChiamata(p, op) == th[p].st = "fuori" /\ op \in Fa[p]

(* find_free_fd: the lowest free number, 0 if there is none.               *)
find_free_fd(p) ==
    LET liberi == {n \in Numeri : Tabella(p)[n].tipo = "no"}
    IN  IF liberi = {} THEN 0 ELSE CHOOSE n \in liberi : \A m \in liberi : n <= m

(* sys_pipe: pipe_crea counts both ends before there is a descriptor ...   *)
PipeCrea(p) ==
    /\ InizioChiamata(p, "pipe") /\ Indisturbato(p)
    /\ \E h \in Tubi :
         /\ ~pipe[h].usata /\ \A k \in Tubi : k < h => pipe[k].usata
         /\ pipe' = [pipe EXCEPT ![h] = [Vergine(@) EXCEPT !.usata = TRUE, !.lettori = 1,
                                                           !.scrittori = 1]]
         /\ att' = [att EXCEPT ![h] = [L |-> {}, S |-> {}]]
         /\ th' = [th EXCEPT ![p] = [Fuori(Zitto) EXCEPT !.st = "pipe r", !.h = h]]
    /\ UNCHANGED <<posti, fdt, interrotto, scritti>>

(* ... the first descriptor, or both ends back ...                         *)
PipeLettura(p) ==
    LET n == find_free_fd(p)
        h == th[p].h
        P2 == Chiuso(Chiuso(pipe, h, "R"), h, "W")
    IN
    /\ th[p].st = "pipe r"
    /\ IF n # 0
       THEN /\ fdt' = [fdt EXCEPT ![Programma[p]][n] = [tipo |-> "R", h |-> h]]
            /\ th' = [th EXCEPT ![p] = [In(p, "pipe w") EXCEPT !.fd = n]]
            /\ UNCHANGED <<pipe, att>>
       ELSE /\ pipe' = P2 /\ att' = Dimenticati(P2, att)
            /\ th' = Desti(att[h]["L"] \cup att[h]["S"], Finisce(p, "no"))
            /\ UNCHANGED fdt
    /\ UNCHANGED <<posti, interrotto, scritti>>

(* ... and the second, or both ends and the first descriptor back.         *)
PipeScrittura(p) ==
    LET n == find_free_fd(p)
        h == th[p].h
        P2 == Chiuso(Chiuso(pipe, h, "R"), h, "W")
    IN
    /\ th[p].st = "pipe w"
    /\ IF n # 0
       THEN /\ fdt' = [fdt EXCEPT ![Programma[p]][n] = [tipo |-> "W", h |-> h]]
            /\ th' = Finisce(p, "no")
            /\ UNCHANGED <<pipe, att>>
       ELSE /\ fdt' = [fdt EXCEPT ![Programma[p]][th[p].fd] = Libero]
            /\ pipe' = P2 /\ att' = Dimenticati(P2, att)
            /\ th' = Desti(att[h]["L"] \cup att[h]["S"], Finisce(p, "no"))
    /\ UNCHANGED <<posti, interrotto, scritti>>

\* Mutant: a copied descriptor is not counted.
DupApre_muto(p, n) ==
    LET d == Tabella(p)[n] IN
    /\ InizioChiamata(p, "dup") /\ Indisturbato(p)
    /\ d.tipo # "no" /\ find_free_fd(p) # 0
    /\ th' = [th EXCEPT ![p] = [Fuori(Zitto) EXCEPT !.st = "dup", !.op = d.tipo, !.h = d.h,
                                                    !.fd = n, !.n = find_free_fd(p)]]
    /\ UNCHANGED <<pipe, att, posti, fdt, interrotto, scritti>>

(* sys_dup: the end is counted first ...                                   *)
DupApre(p, n) ==
    LET d == Tabella(p)[n] IN
    /\ InizioChiamata(p, "dup") /\ Indisturbato(p)
    /\ d.tipo # "no" /\ find_free_fd(p) # 0
    /\ pipe' = Aperto(pipe, d.h, d.tipo)
    /\ th' = [th EXCEPT ![p] = [Fuori(Zitto) EXCEPT !.st = "dup", !.op = d.tipo, !.h = d.h,
                                                    !.fd = n, !.n = find_free_fd(p)]]
    /\ UNCHANGED <<att, posti, fdt, interrotto, scritti>>

(* ... then what was at the new number goes, and the copy takes its place. *)
DupPosa(p) ==
    LET m == th[p].n
        v == Tabella(p)[m]
        P2 == IF v.tipo = "no" THEN pipe ELSE Chiuso(pipe, v.h, v.tipo)
    IN
    /\ th[p].st = "dup"
    /\ pipe' = P2 /\ att' = Dimenticati(P2, att)
    /\ fdt' = [fdt EXCEPT ![Programma[p]][m] = Tabella(p)[th[p].fd]]
    /\ th' = Desti(IF v.tipo = "no" THEN {} ELSE Svegliati(v.h, v.tipo), Finisce(p, "no"))
    /\ UNCHANGED <<posti, interrotto, scritti>>

(* sys_close: the end is closed (fd_lascia) ...                            *)
Chiudi(p, n) ==
    LET d == Tabella(p)[n]
        P2 == Chiuso(pipe, d.h, d.tipo)
    IN
    /\ InizioChiamata(p, "chiudi") /\ Indisturbato(p) /\ Inutilizzato(p, n)
    /\ d.tipo # "no"
    /\ pipe' = P2 /\ att' = Dimenticati(P2, att)
    /\ th' = Desti(Svegliati(d.h, d.tipo),
                   [th EXCEPT ![p] = [Fuori(Zitto) EXCEPT !.st = "chiude", !.fd = n,
                                                          !.h = d.h, !.op = d.tipo]])
    /\ UNCHANGED <<posti, fdt, interrotto, scritti>>

(* ... then the number is free.                                            *)
ChiudiPosa(p) ==
    /\ th[p].st = "chiude"
    /\ fdt' = [fdt EXCEPT ![Programma[p]][th[p].fd] = Libero]
    /\ th' = Finisce(p, "no")
    /\ UNCHANGED <<pipe, att, posti, interrotto, scritti>>

(* sys_fork: the child has the descriptors of its parent, each counted.    *)
Fork(p, g) ==
    LET usati == {n \in Numeri : Tabella(p)[n].tipo # "no"}
        quanti(h, tipo) == Cardinality({n \in usati : Tabella(p)[n] = [tipo |-> tipo, h |-> h]})
    IN
    /\ InizioChiamata(p, "fork") /\ Indisturbato(p)
    /\ \A q \in Fili : Programma[q] = g => th[q].st = "non nato"
    /\ pipe' = [h \in Tubi |-> IF ~pipe[h].usata THEN pipe[h]
                  ELSE [pipe[h] EXCEPT !.lettori = @ + quanti(h, "R"),
                                       !.scrittori = @ + quanti(h, "W")]]
    /\ fdt' = [fdt EXCEPT ![g] = Tabella(p)]
    /\ th' = [q \in Fili |-> CASE q = p -> Resa(p, "no", <<>>)
                               [] Programma[q] = g -> Fuori(Zitto)
                               [] OTHER -> th[q]]
    /\ UNCHANGED <<att, posti, interrotto, scritti>>

(* proc_exit: the other threads end where they are, and every descriptor   *)
(* of the program is closed (proc_chiudi_fd) in one critical section.      *)
Esce(p) ==
    LET usati == {n \in Numeri : Tabella(p)[n].tipo # "no"}
        capi(h, tipo) == Cardinality({n \in usati : Tabella(p)[n] = [tipo |-> tipo, h |-> h]})
        resta(k, m) == IF k > m THEN k - m ELSE 0
        P1 == [h \in Tubi |-> [pipe[h] EXCEPT !.lettori = resta(@, capi(h, "R")),
                                              !.scrittori = resta(@, capi(h, "W"))]]
        P2 == [h \in Tubi |-> IF P1[h].lettori = 0 /\ P1[h].scrittori = 0
                              THEN Vergine(P1[h]) ELSE P1[h]]
        suoi == {q \in Fili : Programma[q] = Programma[p]}
        desta == UNION {(IF P1[h].lettori = 0 THEN att[h]["S"] ELSE {}) \cup
                        (IF P1[h].scrittori = 0 THEN att[h]["L"] ELSE {}) : h \in Tubi}
    IN
    /\ th[p].st = "esce" \/ InizioChiamata(p, "esce")
    /\ Indisturbato(p)
    /\ pipe' = P2 /\ att' = Dimenticati(P2, att)
    /\ fdt' = [fdt EXCEPT ![Programma[p]] = [n \in Numeri |-> Libero]]
    /\ th' = Desti(desta, [q \in Fili |-> IF q \in suoi THEN [Fuori(Zitto) EXCEPT !.st = "morto"]
                                          ELSE th[q]])
    /\ UNCHANGED <<posti, interrotto, scritti>>

-----------------------------------------------------------------------------
(* read and write.                                                         *)

(* sys_read, sys_write: the descriptor gives the pipe once and for all.    *)
Inizia(p, n, nb, k) ==
    LET d == Tabella(p)[n] IN
    /\ InizioChiamata(p, d.tipo) /\ Saldo(p, n)
    /\ d.tipo = "W" => scritti < MaxScritti
    /\ nb => "nb" \in Fa[p]
    /\ k \in Chiede[d.tipo]
    /\ scritti' = IF d.tipo = "W" THEN scritti + 1 ELSE scritti
    /\ th' = [th EXCEPT ![p] = [Fuori(Zitto) EXCEPT !.st = "gira", !.op = d.tipo, !.h = d.h,
                                                    !.fd = n, !.n = k, !.nb = nb,
                                                    !.c = IF d.tipo = "W" THEN scritti' ELSE 0]]
    /\ UNCHANGED <<pipe, att, posti, fdt, interrotto>>

(* Nothing to do yet: try again, or to sleep among those who wait; with no *)
(* room for one more it makes some, with interrupts on, and looks again.   *)
Aspetta(p) ==
    LET h == th[p].h
        l == Lato(th[p].op)
    IN  IF th[p].nb
        THEN th' = Finisce(p, "riprova") /\ UNCHANGED att
        ELSE IF attese_metti(h, l, p)
        THEN /\ th' = [th EXCEPT ![p] = In(p, "dorme")]
             /\ att' = [att EXCEPT ![h][l] = @ \cup {p}]
        ELSE th' = [th EXCEPT ![p] = In(p, "cresce")] /\ UNCHANGED att

Minimo(a, b) == IF a < b THEN a ELSE b

(* pipe_leggi: bytes if there are any, the end if nobody can write.  What  *)
(* was taken out of the ring is not looked at again.                       *)
pipe_leggi(p) ==
    LET h == th[p].h
        d == pipe[h]
        k == Minimo(th[p].n, d.quanti)
        presi == [i \in 1 .. k |-> d.buf[(d.testa + i - 1) % Dim]]
    IN
    /\ th[p].st = "gira" /\ th[p].op = "R"
    /\ IF d.usata /\ d.quanti > 0
       THEN /\ pipe' = [pipe EXCEPT ![h] =
                  [d EXCEPT !.testa = (d.testa + k) % Dim, !.quanti = d.quanti - k,
                            !.buf = [i \in 0 .. Dim - 1 |->
                                       IF \E j \in 1 .. k : i = (d.testa + j - 1) % Dim
                                       THEN <<>> ELSE d.buf[i]]]]
            /\ th' = Desti(att[h]["S"], [th EXCEPT ![p] = Resa(p, "letto", presi)])
            /\ att' = [att EXCEPT ![h]["S"] = {}]
       ELSE /\ UNCHANGED pipe
            /\ IF ~d.usata THEN th' = Finisce(p, "altro") /\ UNCHANGED att
               ELSE IF d.scrittori = 0 THEN th' = Finisce(p, "fine") /\ UNCHANGED att
               ELSE Aspetta(p)
    /\ UNCHANGED <<posti, fdt, interrotto, scritti>>

(* pipe_scrivi: broken if nobody can read, what fits if there is room.     *)
pipe_scrivi(p) ==
    LET h == th[p].h
        d == pipe[h]
        k == Minimo(th[p].n, Dim - d.quanti)
        s == [j \in 1 .. k |-> <<th[p].c, j>>]
        dove(j) == (d.testa + d.quanti + j - 1) % Dim
    IN
    /\ th[p].st = "gira" /\ th[p].op = "W"
    /\ IF d.usata /\ d.lettori > 0 /\ d.quanti < Dim
       THEN /\ pipe' = [pipe EXCEPT ![h] =
                  [d EXCEPT !.quanti = d.quanti + k,
                            !.buf = [i \in 0 .. Dim - 1 |->
                                       IF \E j \in 1 .. k : i = dove(j)
                                       THEN s[CHOOSE j \in 1 .. k : i = dove(j)] ELSE d.buf[i]]]]
            /\ th' = Desti(att[h]["L"], [th EXCEPT ![p] = Resa(p, "scritto", s)])
            /\ att' = [att EXCEPT ![h]["L"] = {}]
       ELSE /\ UNCHANGED pipe
            /\ IF ~d.usata THEN th' = Finisce(p, "altro") /\ UNCHANGED att
               ELSE IF d.lettori = 0 THEN th' = Finisce(p, "rotto") /\ UNCHANGED att
               ELSE Aspetta(p)
    /\ UNCHANGED <<posti, fdt, interrotto, scritti>>

(* Awake: whoever was told to stop does not go back to wait.               *)
Desto(p) ==
    /\ th[p].st = "desto" /\ th[p].op \in {"R", "W"}
    /\ th' = [th EXCEPT ![p] = IF p \in interrotto THEN Resa(p, "altro", <<>>)
                               ELSE In(p, "gira")]
    /\ UNCHANGED <<pipe, att, posti, fdt, interrotto, scritti>>

-----------------------------------------------------------------------------
(* poll.                                                                   *)

PollInizia(p, S, tempo) ==
    /\ InizioChiamata(p, "poll") /\ \A n \in S : Saldo(p, n)
    /\ \E v \in [S -> Desideri] :
         th' = [th EXCEPT ![p] = [Fuori(Zitto) EXCEPT !.st = "gira", !.op = "poll",
                                                      !.voci = v, !.tempo = tempo]]
    /\ UNCHANGED <<pipe, att, posti, fdt, interrotto, scritti>>

(* poll_guarda: an end that is gone at the other side is ready whatever    *)
(* was asked for.                                                          *)
poll_guarda(p, n) ==
    LET d == Tabella(p)[n]
        chiede == th[p].voci[n]
    IN  CASE d.tipo \in {"no", "file"} -> TRUE
          [] d.tipo = "R" -> \/ ~pipe[d.h].usata \/ pipe[d.h].scrittori = 0
                             \/ pipe[d.h].quanti > 0 /\ "IN" \in chiede
          [] d.tipo = "W" -> \/ ~pipe[d.h].usata \/ pipe[d.h].lettori = 0
                             \/ pipe[d.h].quanti < Dim /\ "OUT" \in chiede

Pronta(p) == \E n \in DOMAIN th[p].voci : poll_guarda(p, n)

(* poll_registra: where a poller puts itself in the queue: the sides of    *)
(* the descriptors whose data or room it asked for.                        *)
Registra(p) ==
    {<<Tabella(p)[n].h, Lato(Tabella(p)[n].tipo)>> :
        n \in {m \in DOMAIN th[p].voci :
                 \/ Tabella(p)[m].tipo = "R" /\ "IN" \in th[p].voci[m]
                 \/ Tabella(p)[m].tipo = "W" /\ "OUT" \in th[p].voci[m]}}

(* sys_poll, one round with interrupts off: something is ready, the time   *)
(* is over, or it registers everywhere and sleeps; if it found no room at  *)
(* one place it looks again at the next tick.                              *)
PollGira(p) ==
    LET buoni == {r \in Registra(p) : attese_metti(r[1], r[2], p)} IN
    /\ th[p].st = "gira" /\ th[p].op = "poll"
    /\ IF Pronta(p) \/ th[p].tempo = "scaduto"
       THEN th' = Finisce(p, "pronto") /\ UNCHANGED att
       ELSE /\ att' = [h \in Tubi |-> [l \in {"L", "S"} |->
                         IF <<h, l>> \in buoni THEN att[h][l] \cup {p} ELSE att[h][l]]]
            /\ th' = [th EXCEPT ![p] = [In(p, "dorme") EXCEPT !.nb = buoni # Registra(p)]]
    /\ UNCHANGED <<pipe, posti, fdt, interrotto, scritti>>

(* The tick wakes a poller that has a time, or that found no room.         *)
Battito(p) ==
    /\ th[p].st = "dorme" /\ th[p].op = "poll"
    /\ \/ th[p].tempo = "poi" /\ th' = [th EXCEPT ![p] = [In(p, "desto") EXCEPT !.tempo = "scaduto"]]
       \/ th[p].nb /\ th' = [th EXCEPT ![p] = In(p, "desto")]
    /\ UNCHANGED <<pipe, att, posti, fdt, interrotto, scritti>>

(* Awake: out of every queue, then out of the call if told to stop.        *)
PollDesto(p) ==
    LET posto == {<<Tabella(p)[n].h, Lato(Tabella(p)[n].tipo)>> :
                    n \in {m \in DOMAIN th[p].voci : Tabella(p)[m].tipo # "no"}}
    IN
    /\ th[p].st = "desto" /\ th[p].op = "poll"
    /\ att' = [h \in Tubi |-> [l \in {"L", "S"} |->
                IF <<h, l>> \in posto THEN att[h][l] \ {p} ELSE att[h][l]]]
    /\ th' = [th EXCEPT ![p] = IF p \in interrotto THEN Resa(p, "altro", <<>>)
                               ELSE [In(p, "gira") EXCEPT !.nb = FALSE]]
    /\ UNCHANGED <<pipe, posti, fdt, interrotto, scritti>>

-----------------------------------------------------------------------------
(* proc_interrompi: the flag, and the sleeper is woken.                    *)
proc_interrompi(p) ==
    /\ "interrotto" \in Fa[p]
    /\ p \notin interrotto /\ th[p].st \notin {"non nato", "morto"}
    /\ interrotto' = interrotto \cup {p}
    /\ th' = Desti({p}, th)
    /\ UNCHANGED <<pipe, att, posti, fdt, scritti>>

-----------------------------------------------------------------------------
Init ==
    /\ pipe = [h \in Tubi |-> [usata |-> FALSE, testa |-> 0, quanti |-> 0, lettori |-> 0,
                               scrittori |-> 0, buf |-> [i \in 0 .. Dim - 1 |-> <<>>]]]
    /\ att = [h \in Tubi |-> [L |-> {}, S |-> {}]]
    /\ posti = [h \in Tubi |-> [L |-> 0, S |-> 0]]
    /\ fdt \in [Programmi -> [Numeri -> {Libero, UnFile}]]
    /\ \A g \in Programmi \ {Primo} : fdt[g] = [n \in Numeri |-> Libero]
    /\ th = [p \in Fili |-> IF Programma[p] = Primo THEN Fuori(Zitto)
                            ELSE [Fuori(Zitto) EXCEPT !.st = "non nato"]]
    /\ interrotto = {} /\ scritti = 0

(* A thread inside a call.                                                 *)
Passo(p) ==
    \/ CresceGuarda(p) \/ CrescePosa(p) \/ PipeLettura(p) \/ PipeScrittura(p)
    \/ DupPosa(p) \/ ChiudiPosa(p) \/ pipe_leggi(p) \/ pipe_scrivi(p) \/ Desto(p)
    \/ PollGira(p) \/ PollDesto(p)

Chiamata(p) ==
    \/ PipeCrea(p) \/ Esce(p)
    \/ \E n \in Numeri : \/ DupApre(p, n) \/ Chiudi(p, n)
                         \/ \E nb \in BOOLEAN, k \in Chiede["R"] \cup Chiede["W"] : Inizia(p, n, nb, k)
    \/ \E g \in Programmi : Fork(p, g)
    \/ \E S \in Elenchi, tempo \in {"mai", "poi"} : PollInizia(p, S, tempo)

Next == \E p \in Fili : Passo(p) \/ Chiamata(p) \/ Battito(p) \/ proc_interrompi(p)

Spec == Init /\ [][Next]_vars

-----------------------------------------------------------------------------
(* Properties.                                                             *)

(* The ends of a pipe that are really open: the descriptors of all the     *)
(* programs, without those already given up by a close under way, with     *)
(* those a call under way has counted and not yet put in a table.          *)
Aperti(h, tipo) ==
    Cardinality({d \in Programmi \X Numeri : fdt[d[1]][d[2]] = [tipo |-> tipo, h |-> h]})
    - Cardinality({p \in Fili : th[p].st = "chiude" /\ th[p].h = h /\ th[p].op = tipo})
    + Cardinality({p \in Fili : /\ th[p].h = h
                                /\ \/ th[p].st = "dup" /\ th[p].op = tipo
                                   \/ th[p].st = "pipe r"
                                   \/ th[p].st = "pipe w" /\ tipo = "W"})

Tubo_ == INSTANCE Tubo WITH
    coda <- [h \in Tubi |-> [i \in 1 .. pipe[h].quanti |->
                               pipe[h].buf[(pipe[h].testa + i - 1) % Dim]]],
    lettori <- [h \in Tubi |-> Aperti(h, "R")],
    scrittori <- [h \in Tubi |-> Aperti(h, "W")],
    reso <- [p \in Fili |-> th[p].reso]

(* Through the ring, the counts and the descriptors, every pipe is a queue *)
(* of bytes whose end is announced only when no descriptor is left to      *)
(* write it with, and that is broken only when none is left to read it     *)
(* (the three rules of pipe.h).                                            *)
ImplementaTubo == Tubo_!Spec

(* Nobody sleeps on what it waits for: a reader asleep has no byte and     *)
(* somebody who may write, a writer no room and somebody who may read, a   *)
(* poller nothing to report; all but a poller that the tick wakes will be  *)
(* told of the next change.                                                *)
NessunoDormeInvano ==
    \A p \in Fili : th[p].st = "dorme" =>
        LET d == pipe[th[p].h] IN
        CASE th[p].op = "R" -> /\ d.usata => d.quanti = 0 /\ d.scrittori > 0
                               /\ p \in att[th[p].h]["L"]
          [] th[p].op = "W" -> /\ d.usata => d.quanti = Dim /\ d.lettori > 0
                               /\ p \in att[th[p].h]["S"]
          [] OTHER -> th[p].nb \/ ~Pronta(p)

(* A thread told to stop is not left asleep: "Ctrl+C would work only by    *)
(* pressing something else after it" (sys_interrompi).                     *)
InterrottoNonDorme == \A p \in interrotto : th[p].st # "dorme"
=============================================================================
