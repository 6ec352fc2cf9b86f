-------------------------------- MODULE Ipc --------------------------------
(***************************************************************************)
(* Kernel-mediated message passing of EX-OS: the mailbox every process     *)
(* owns, the line of senders in front of a full mailbox, the interrupt     *)
(* notifications that enter it, deadlines, signals, and the death of any   *)
(* party at any point.  Translated from kernel/ipc/ipc.c and from the      *)
(* parts of kernel/sched/sched.c and kernel/syscall/syscall.c it calls.    *)
(*                                                                         *)
(* One step is one section of code that runs with interrupts disabled (or  *)
(* a read that runs with them enabled): a process can lose the CPU only    *)
(* between two steps.  A system call enters with interrupts on, so a       *)
(* process may be preempted between any two of its sections.               *)
(***************************************************************************)
EXTENDS Naturals, FiniteSets

CONSTANTS
    Posti,          \* slots of the process table (PROC_POSTO)
    Nessuno,        \* the NULL pointer
    Depth,          \* IPC_MAILBOX_DEPTH
    MaxPid,         \* bound: how many processes are created in a behaviour
    DriverPid,      \* pids bound to a hardware interrupt
    Bersagli,       \* bound: the pids messages are sent to
    Eventi          \* bound: which of TuttiEventi a behaviour contains

ASSUME PostiAssumption  == IsFiniteSet(Posti) /\ Nessuno \notin Posti
ASSUME DepthAssumption  == Depth \in Nat \ {0}
ASSUME MaxPidAssumption == /\ MaxPid \in Nat
                           /\ DriverPid \subseteq 1..MaxPid
                           /\ Bersagli \subseteq 1..MaxPid

\* Threads, exits, collection of zombies (and so the reuse of process slots),
\* programs that fail to load, interruption from the keyboard, caught signals.
TuttiEventi == {"filo", "esce", "raccolta", "nonparte", "interrompi", "segnale"}
ASSUME EventiAssumption == Eventi \subseteq TuttiEventi

VARIABLES
    pid, tgid, st, nextPid,                     \* the PCB and g_next_pid
    pc, destPid, dest, senza, scad, interrotto, \* where each process stands
    buf, head, tail, count,                     \* the mailbox ring
    su, prima, concesso, riservati,             \* the line
    morenti                                     \* who the running exit still has to end

procVars == <<pid, tgid, nextPid>>
callVars == <<pc, destPid, dest, senza, scad>>
boxVars  == <<buf, head, tail, count>>
lineVars == <<su, prima, concesso, riservati>>
vars == <<procVars, st, callVars, interrotto, boxVars, lineVars, morenti>>

Kernel == 0                                     \* IPC_SENDER_KERNEL; also "no pid"
Messaggi == [da : 0..MaxPid, a : 0..MaxPid]
Vuoto == [da |-> Kernel, a |-> 0]               \* a slot of the ring not in use

-----------------------------------------------------------------------------
(* The process table.                                                      *)

\* The tests every operation makes: neither UNUSED nor ZOMBIE.
Vivo(s) == st[s] \notin {"UNUSED", "ZOMBIE"}

\* A process whose next section may run: not asleep, and nobody holds cli.
Gira(s) == st[s] = "READY" /\ morenti = {}

\* proc_get_by_pid: a zombie is still found, an unused slot is not.
proc_get_by_pid(p) ==
    IF \E s \in Posti : pid[s] = p /\ st[s] # "UNUSED"
    THEN CHOOSE s \in Posti : pid[s] = p /\ st[s] # "UNUSED"
    ELSE Nessuno

\* sched_unblock_locked applied to every member of W: only a BLOCKED process
\* is woken, a NASCENTE is not.
Svegliati(W) ==
    [s \in Posti |-> IF s \in W /\ st[s] = "BLOCKED" THEN "READY" ELSE st[s]]

\* The members of s's thread group that are alive.
Gruppo(s) == {t \in Posti : Vivo(t) /\ tgid[t] = tgid[s]}

-----------------------------------------------------------------------------
(* The line in front of a mailbox.  The doubly linked list is kept as the  *)
(* pointer su[w] (whose line w stands in) and the set prima[w] of those    *)
(* that stand before w in it.                                              *)

Fila(d) == {w \in Posti : su[w] = d}
Promessi(d) == Fila(d) \cap concesso

\* Mutant: the promise of whoever leaves is never given back.
RiservatiSenza_tenuti(d, w) == riservati[d]

\* The slots promised on d's mailbox once w is out of the line (fila_togli).
RiservatiSenza(d, w) ==
    IF su[w] = d /\ w \in concesso /\ riservati[d] > 0
    THEN riservati[d] - 1 ELSE riservati[d]

\* Mutant: any k of them, whatever their age.
PiuVecchi_a_caso(U, k) == {G \in SUBSET U : Cardinality(G) = k}

\* The k oldest of the waiting senders U.
PiuVecchi(U, k) ==
    {G \in SUBSET U : /\ Cardinality(G) = k
                      /\ \A w \in G : prima[w] \cap U \subseteq G}

\* Mutant: the last free slot is never promised.
Promosse_tranne_ultimo(F, n, r) ==
    LET U == F \ concesso
        liberi == IF n + r + 1 < Depth THEN Depth - (n + r + 1) ELSE 0
    IN  PiuVecchi(U, IF liberi < Cardinality(U) THEN liberi ELSE Cardinality(U))

\* fila_avanza: whom of the line F it promises a slot to, when the mailbox
\* holds n messages and r slots are promised already.
Promosse(F, n, r) ==
    LET U == F \ concesso
        liberi == IF n + r < Depth THEN Depth - (n + r) ELSE 0
    IN  PiuVecchi(U, IF liberi < Cardinality(U) THEN liberi ELSE Cardinality(U))

\* Mutant: only the newly promised are woken, not one that lost its slot.
Raggiunti_solo_nuovi(F, G) == G

\* fila_avanza: whom its walk over F reaches, and so wakes: those just
\* promised a slot, and the earlier ones it meets before it stops.
Raggiunti(F, G) ==
    G \cup {w \in F \cap concesso : prima[w] \cap F \subseteq concesso \cup G}

\* fila_togli(w) followed by fila_avanza of the line w stood in.
LasciaFila(w) ==
    \/ /\ su[w] = Nessuno
       /\ UNCHANGED <<lineVars, st>>
    \/ /\ su[w] # Nessuno
       /\ LET d == su[w]
              F == Fila(d) \ {w}
              r == RiservatiSenza(d, w)
          IN  \E G \in Promosse(F, count[d], r) :
                /\ su' = [su EXCEPT ![w] = Nessuno]
                /\ prima' = [x \in Posti |-> IF x = w THEN {} ELSE prima[x] \ {w}]
                /\ concesso' = (concesso \ {w}) \cup G
                /\ riservati' = [riservati EXCEPT ![d] = r + Cardinality(G)]
                /\ st' = Svegliati(Raggiunti(F, G))

-----------------------------------------------------------------------------
(* The mailbox ring.                                                       *)

\* The copy into the slot at ipc_tail.
Deposita(d, m) ==
    /\ buf'   = [buf EXCEPT ![d][tail[d]] = m]
    /\ tail'  = [tail EXCEPT ![d] = (tail[d] + 1) % Depth]
    /\ count' = [count EXCEPT ![d] = count[d] + 1]
    /\ UNCHANGED head

\* Mutant: the head stays where it is.
Preleva_testa_ferma(d) ==
    /\ buf' = [buf EXCEPT ![d][head[d]] = Vuoto]
    /\ count' = [count EXCEPT ![d] = count[d] - 1]
    /\ UNCHANGED <<head, tail>>

\* The copy out of the slot at ipc_head; the slot, never read again before it
\* is written, is shown as empty.
Preleva(d) ==
    /\ buf' = [buf EXCEPT ![d][head[d]] = Vuoto]
    /\ head' = [head EXCEPT ![d] = (head[d] + 1) % Depth]
    /\ count' = [count EXCEPT ![d] = count[d] - 1]
    /\ UNCHANGED tail

-----------------------------------------------------------------------------
(* Birth and death.                                                        *)

\* proc_create of a program (its own group), or proc_thread_crea of a thread
\* of g's group: pcb_alloc clears a free PCB and takes it as NASCENTE.
Nasce(s, g) ==
    /\ st[s] = "UNUSED"
    /\ nextPid <= MaxPid
    /\ nextPid' = nextPid + 1
    /\ pid'  = [pid EXCEPT ![s] = nextPid]
    /\ tgid' = [tgid EXCEPT ![s] = g]
    /\ st'   = [st EXCEPT ![s] = "NASCENTE"]
    /\ buf'  = [buf EXCEPT ![s] = [i \in 0..Depth - 1 |-> Vuoto]]
    /\ UNCHANGED <<callVars, interrotto, head, tail, count, lineVars, morenti>>

Crea(s) == morenti = {} /\ Nasce(s, nextPid)

CreaFilo(s, t) == "filo" \in Eventi /\ Gira(t) /\ pc[t] = "usr" /\ Nasce(s, tgid[t])

\* proc_set_ready: only here a process being born starts to run.
proc_set_ready(s) ==
    /\ morenti = {}
    /\ st[s] = "NASCENTE"
    /\ st' = [st EXCEPT ![s] = "READY"]
    /\ UNCHANGED <<procVars, callVars, interrotto, boxVars, lineVars, morenti>>

\* The end of a process in one section with interrupts off.  An exit takes
\* the group along; the members are ended one after the other, and nobody
\* else runs in between (morenti).  No member can be running on another
\* processor meanwhile: sched_puo_qui never runs two threads of one address
\* space at once, so proc_gruppo_termina never defers one (da_finire).
Termina(chi) ==
    /\ morenti' = chi
    /\ UNCHANGED <<procVars, st, callVars, interrotto, boxVars, lineVars>>

\* proc_exit of the leader, or a fatal exit of any thread.
EsciGruppo(s) ==
    /\ "esce" \in Eventi /\ Gira(s) /\ pc[s] = "usr"
    /\ Termina(Gruppo(s))

\* proc_exit of a thread: it goes alone.
EsciFilo(s) ==
    /\ "esce" \in Eventi /\ Gira(s) /\ pc[s] = "usr"
    /\ tgid[s] # pid[s]
    /\ Termina({s})

\* proc_kill of a program that could not be loaded.
UccidiNascente(s) ==
    /\ "nonparte" \in Eventi /\ morenti = {} /\ st[s] = "NASCENTE"
    /\ Termina({s})

\* Mutant: the line in front of the dead process is left standing.
Usciti_solo_lui(s) == {s}

\* Who leaves a line when s ends: s, and all who stood in its own.
Usciti(s) == {s} \cup Fila(s)

\* ipc_processo_finito, then PROC_ZOMBIE.  Its own line is emptied and woken
\* whether or not a slot was promised.
Finisce(s) ==
    LET d == su[s]
        F == Fila(d) \ {s}
        r == RiservatiSenza(d, s)
        altrove == d # Nessuno /\ d # s
    IN
    /\ s \in morenti
    /\ morenti' = morenti \ {s}
    /\ \E G \in IF altrove THEN Promosse(F, count[d], r) ELSE {{}} :
         /\ su' = [w \in Posti |-> IF w \in Usciti(s) THEN Nessuno ELSE su[w]]
         /\ prima' = [w \in Posti |-> IF w \in Usciti(s) THEN {} ELSE prima[w] \ {s}]
         /\ concesso' = (concesso \ Usciti(s)) \cup G
         /\ riservati' = [x \in Posti |->
               CASE x = s -> 0
                 [] altrove /\ x = d -> r + Cardinality(G)
                 [] OTHER -> riservati[x]]
         /\ st' = [Svegliati(Fila(s) \cup (IF altrove THEN Raggiunti(F, G) ELSE {}))
                      EXCEPT ![s] = "ZOMBIE"]
    /\ pc' = [pc EXCEPT ![s] = "usr"]
    /\ destPid' = [destPid EXCEPT ![s] = 0]
    /\ dest' = [dest EXCEPT ![s] = Nessuno]
    /\ senza' = senza \ {s}
    /\ scad' = [scad EXCEPT ![s] = "no"]
    /\ interrotto' = interrotto \ {s}
    /\ UNCHANGED <<procVars, boxVars>>

\* proc_reap_zombie with ipc_cleanup_process: the mailbox is emptied and the
\* slot is free again.
proc_reap_zombie(s) ==
    /\ "raccolta" \in Eventi /\ morenti = {}
    /\ st[s] = "ZOMBIE"
    /\ st' = [st EXCEPT ![s] = "UNUSED"]
    /\ pid' = [pid EXCEPT ![s] = 0]
    /\ tgid' = [tgid EXCEPT ![s] = 0]
    /\ buf' = [buf EXCEPT ![s] = [i \in 0..Depth - 1 |-> Vuoto]]
    /\ head' = [head EXCEPT ![s] = 0]
    /\ tail' = [tail EXCEPT ![s] = 0]
    /\ count' = [count EXCEPT ![s] = 0]
    /\ UNCHANGED <<nextPid, callVars, interrotto, lineVars, morenti>>

-----------------------------------------------------------------------------
(* ipc_send.                                                               *)

\* The call begins: any pid given out so far, waiting or IPC_SENZA_ATTESA.
SendInizia(s) ==
    /\ Gira(s) /\ pc[s] = "usr"
    /\ \E p \in Bersagli \cap 1..nextPid - 1 : destPid' = [destPid EXCEPT ![s] = p]
    /\ senza' \in {senza, senza \cup {s}}
    /\ scad' = [scad EXCEPT ![s] = "armata"]
    /\ pc' = [pc EXCEPT ![s] = "trova"]
    /\ UNCHANGED <<procVars, st, dest, interrotto, boxVars, lineVars, morenti>>

\* Top of the loop: the destination is looked up before interrupts go off.
SendTrova(s) ==
    /\ Gira(s) /\ pc[s] = "trova"
    /\ dest' = [dest EXCEPT ![s] = proc_get_by_pid(destPid[s])]
    /\ pc' = [pc EXCEPT ![s] = "send"]
    /\ UNCHANGED <<procVars, st, destPid, senza, scad, interrotto, boxVars, lineVars, morenti>>

\* dest is NULL, UNUSED or ZOMBIE.
DestMorto(s) == dest[s] \notin {d \in Posti : Vivo(d)}

\* Mutant: a newcomer overtakes the line when a slot is free.
Posto_sorpassa(s) ==
    LET d == dest[s] IN
    IF su[s] = d THEN s \in concesso /\ count[d] < Depth ELSE count[d] < Depth

\* Mutant: a promise is enough, although an interrupt may have taken the slot.
Posto_promesso(s) ==
    LET d == dest[s] IN
    IF s \in senza THEN count[d] < Depth
    ELSE IF su[s] = d THEN s \in concesso
    ELSE Fila(d) = {} /\ count[d] + riservati[d] < Depth

\* Who may take a slot of the mailbox now.
Posto(s) ==
    LET d == dest[s] IN
    IF s \in senza THEN count[d] < Depth
    ELSE IF su[s] = d THEN s \in concesso /\ count[d] < Depth
    ELSE Fila(d) = {} /\ count[d] + riservati[d] < Depth

\* The call is over: only syscall_handler's tail is left.
Torna(s) ==
    /\ pc' = [pc EXCEPT ![s] = "ret"]
    /\ dest' = [dest EXCEPT ![s] = Nessuno]
    /\ destPid' = [destPid EXCEPT ![s] = 0]
    /\ senza' = senza \ {s}
    /\ scad' = [scad EXCEPT ![s] = "no"]

\* The destination is gone: the sender leaves whatever line it stands in.
SendEsrch(s) ==
    /\ Gira(s) /\ pc[s] = "send"
    /\ DestMorto(s)
    /\ LasciaFila(s)
    /\ Torna(s)
    /\ UNCHANGED <<procVars, interrotto, boxVars, morenti>>

\* A slot is taken: the message is copied, the sender leaves the line (and
\* nobody is promised anything here), need_wake is read.  The wake itself
\* comes after interrupts are back on.
SendConsegna(s) ==
    LET d == dest[s] IN
    /\ Gira(s) /\ pc[s] = "send"
    /\ ~DestMorto(s) /\ Posto(s)
    /\ Deposita(d, [da |-> pid[s], a |-> destPid[s]])
    /\ IF su[s] = d
       THEN /\ su' = [su EXCEPT ![s] = Nessuno]
            /\ prima' = [x \in Posti |-> IF x = s THEN {} ELSE prima[x] \ {s}]
            /\ concesso' = concesso \ {s}
            /\ riservati' = [riservati EXCEPT ![d] = RiservatiSenza(d, s)]
       ELSE UNCHANGED lineVars
    /\ IF st[d] = "BLOCKED"
       THEN /\ pc' = [pc EXCEPT ![s] = "sveglia"]
            /\ dest' = [dest EXCEPT ![s] = Nessuno]
            /\ UNCHANGED <<destPid, senza, scad>>
       ELSE Torna(s)
    /\ UNCHANGED <<procVars, st, interrotto, morenti>>

\* Mutant: the receiver is not woken.
SendSveglia_muta(s) ==
    /\ Gira(s) /\ pc[s] = "sveglia"
    /\ Torna(s)
    /\ UNCHANGED <<procVars, st, interrotto, boxVars, lineVars, morenti>>

\* sched_unblock(dest_pid), with interrupts off again.
SendSveglia(s) ==
    /\ Gira(s) /\ pc[s] = "sveglia"
    /\ st' = Svegliati({t \in Posti : pid[t] = destPid[s]})
    /\ Torna(s)
    /\ UNCHANGED <<procVars, interrotto, boxVars, lineVars, morenti>>

\* No slot, and IPC_SENZA_ATTESA.
SendEbusySenza(s) ==
    /\ Gira(s) /\ pc[s] = "send"
    /\ ~DestMorto(s) /\ ~Posto(s) /\ s \in senza
    /\ Torna(s)
    /\ UNCHANGED <<procVars, st, interrotto, boxVars, lineVars, morenti>>

\* The deadline has passed: the sender leaves, its promise goes on.
SendEbusyScaduta(s) ==
    /\ Gira(s) /\ pc[s] = "send"
    /\ ~DestMorto(s) /\ ~Posto(s) /\ s \notin senza /\ scad[s] = "scaduta"
    /\ LasciaFila(s)
    /\ Torna(s)
    /\ UNCHANGED <<procVars, interrotto, boxVars, morenti>>

\* The last one in the line, or where it already stands; asleep either way.
\* A line for another destination is left first (FilaGiusta: there is none).
SendAspetta(s) ==
    LET d == dest[s] IN
    /\ Gira(s) /\ pc[s] = "send"
    /\ ~DestMorto(s) /\ ~Posto(s) /\ s \notin senza /\ scad[s] # "scaduta"
    /\ IF su[s] = d
       THEN /\ st' = [st EXCEPT ![s] = "BLOCKED"]
            /\ UNCHANGED lineVars
       ELSE LET v == su[s]
                F == Fila(v) \ {s}
                r == RiservatiSenza(v, s)
            IN  \E G \in IF v = Nessuno THEN {{}} ELSE Promosse(F, count[v], r) :
                  /\ su' = [su EXCEPT ![s] = d]
                  /\ prima' = [x \in Posti |-> IF x = s THEN Fila(d) ELSE prima[x] \ {s}]
                  /\ concesso' = (concesso \ {s}) \cup G
                  /\ riservati' = [x \in Posti |->
                        IF x = v THEN r + Cardinality(G) ELSE riservati[x]]
                  /\ st' = [Svegliati(IF v = Nessuno THEN {} ELSE Raggiunti(F, G))
                              EXCEPT ![s] = "BLOCKED"]
    /\ pc' = [pc EXCEPT ![s] = "trova"]
    /\ dest' = [dest EXCEPT ![s] = Nessuno]
    /\ UNCHANGED <<procVars, destPid, senza, scad, interrotto, boxVars, morenti>>

-----------------------------------------------------------------------------
(* ipc_recv_timeout; ipc_recv is the call without a deadline.              *)

\* The call begins, with a deadline or without.
RecvInizia(s) ==
    /\ Gira(s) /\ pc[s] = "usr"
    /\ pc' = [pc EXCEPT ![s] = "recv"]
    /\ \E c \in {"no", "armata"} : scad' = [scad EXCEPT ![s] = c]
    /\ UNCHANGED <<procVars, st, destPid, dest, senza, interrotto, boxVars, lineVars, morenti>>

\* The oldest message is copied out, and the freed slot is promised to the line.
RecvPrende(s) ==
    LET F == Fila(s) IN
    /\ Gira(s) /\ pc[s] = "recv"
    /\ count[s] > 0
    /\ Preleva(s)
    /\ \E G \in Promosse(F, count[s] - 1, riservati[s]) :
         /\ concesso' = concesso \cup G
         /\ riservati' = [riservati EXCEPT ![s] = riservati[s] + Cardinality(G)]
         /\ st' = Svegliati(Raggiunti(F, G))
    /\ Torna(s)
    /\ UNCHANGED <<procVars, interrotto, su, prima, morenti>>

\* Empty, and the deadline has passed: ETIMEDOUT.
RecvScaduta(s) ==
    /\ Gira(s) /\ pc[s] = "recv"
    /\ count[s] = 0 /\ scad[s] = "scaduta"
    /\ Torna(s)
    /\ UNCHANGED <<procVars, st, interrotto, boxVars, lineVars, morenti>>

\* Empty: asleep.  No interrupt can come between the look and the sleep.
RecvAspetta(s) ==
    /\ Gira(s) /\ pc[s] = "recv"
    /\ count[s] = 0 /\ scad[s] # "scaduta"
    /\ st' = [st EXCEPT ![s] = "BLOCKED"]
    /\ pc' = [pc EXCEPT ![s] = "risveglio"]
    /\ UNCHANGED <<procVars, destPid, dest, senza, scad, interrotto, boxVars, lineVars, morenti>>

\* Back from sched_block: whoever was interrupted gives up, the others look
\* at the mailbox again.
RecvRisveglio(s) ==
    /\ Gira(s) /\ pc[s] = "risveglio"
    /\ IF s \in interrotto THEN Torna(s)
       ELSE /\ pc' = [pc EXCEPT ![s] = "recv"]
            /\ UNCHANGED <<destPid, dest, senza, scad>>
    /\ UNCHANGED <<procVars, st, interrotto, boxVars, lineVars, morenti>>

-----------------------------------------------------------------------------
(* The tail of syscall_handler: an interrupted process never returns to    *)
(* ring 3, it ends with its group.                                         *)

RitornoUtente(s) ==
    /\ Gira(s) /\ pc[s] = "ret" /\ s \notin interrotto
    /\ pc' = [pc EXCEPT ![s] = "usr"]
    /\ UNCHANGED <<procVars, st, destPid, dest, senza, scad, interrotto, boxVars, lineVars, morenti>>

RitornoInterrotto(s) ==
    /\ Gira(s) /\ pc[s] = "ret" /\ s \in interrotto
    /\ Termina(Gruppo(s))

-----------------------------------------------------------------------------
(* What happens to a process from outside.                                 *)

\* proc_interrompi: the flag, and the wake if it sleeps.
proc_interrompi(s) ==
    /\ "interrompi" \in Eventi /\ morenti = {}
    /\ Vivo(s) /\ s \notin interrotto
    /\ interrotto' = interrotto \cup {s}
    /\ st' = Svegliati({s})
    /\ UNCHANGED <<procVars, callVars, boxVars, lineVars, morenti>>

\* sveglia_per: a caught signal wakes its target whatever it waits for.
sveglia_per(s) ==
    /\ "segnale" \in Eventi /\ morenti = {}
    /\ st[s] = "BLOCKED"
    /\ st' = Svegliati({s})
    /\ UNCHANGED <<procVars, callVars, interrotto, boxVars, lineVars, morenti>>

\* Mutant: the deadline passes and nobody wakes the sleeper.
Scade_senza_sveglia(s) ==
    /\ morenti = {}
    /\ scad[s] = "armata"
    /\ scad' = [scad EXCEPT ![s] = "scaduta"]
    /\ UNCHANGED <<procVars, st, pc, destPid, dest, senza, interrotto, boxVars, lineVars, morenti>>

\* IRQ0: g_ticks reaches the deadline of s, which is woken if it sleeps.
Scade(s) ==
    /\ morenti = {}
    /\ scad[s] = "armata"
    /\ scad' = [scad EXCEPT ![s] = "scaduta"]
    /\ st' = Svegliati({s})
    /\ UNCHANGED <<procVars, pc, destPid, dest, senza, interrotto, boxVars, lineVars, morenti>>

\* ipc_notify_irq: any free slot, promised or not; a full mailbox drops it.
ipc_notify_irq(d) ==
    /\ morenti = {}
    /\ Vivo(d) /\ pid[d] \in DriverPid
    /\ count[d] < Depth
    /\ Deposita(d, [da |-> Kernel, a |-> pid[d]])
    /\ st' = Svegliati({d})
    /\ UNCHANGED <<procVars, callVars, interrotto, lineVars, morenti>>

-----------------------------------------------------------------------------
Init ==
    /\ pid = [s \in Posti |-> 0]
    /\ tgid = [s \in Posti |-> 0]
    /\ nextPid = 1
    /\ st = [s \in Posti |-> "UNUSED"]
    /\ pc = [s \in Posti |-> "usr"]
    /\ destPid = [s \in Posti |-> 0]
    /\ dest = [s \in Posti |-> Nessuno]
    /\ senza = {}
    /\ scad = [s \in Posti |-> "no"]
    /\ interrotto = {}
    /\ buf = [s \in Posti |-> [i \in 0..Depth - 1 |-> Vuoto]]
    /\ head = [s \in Posti |-> 0]
    /\ tail = [s \in Posti |-> 0]
    /\ count = [s \in Posti |-> 0]
    /\ su = [s \in Posti |-> Nessuno]
    /\ prima = [s \in Posti |-> {}]
    /\ concesso = {}
    /\ riservati = [s \in Posti |-> 0]
    /\ morenti = {}

\* The steps a process takes inside ipc_send and ipc_recv_timeout.
Chiamata(s) ==
    \/ SendTrova(s) \/ SendEsrch(s) \/ SendConsegna(s) \/ SendSveglia(s)
    \/ SendEbusySenza(s) \/ SendEbusyScaduta(s) \/ SendAspetta(s)
    \/ RecvPrende(s) \/ RecvScaduta(s) \/ RecvAspetta(s) \/ RecvRisveglio(s)
    \/ RitornoUtente(s) \/ RitornoInterrotto(s)

\* What programs choose to do.
Programma(s) ==
    \/ Crea(s) \/ (\E t \in Posti : CreaFilo(s, t)) \/ proc_set_ready(s)
    \/ EsciGruppo(s) \/ EsciFilo(s) \/ UccidiNascente(s) \/ proc_reap_zombie(s)
    \/ SendInizia(s) \/ RecvInizia(s)

Ambiente(s) ==
    \/ proc_interrompi(s) \/ sveglia_per(s) \/ Scade(s) \/ ipc_notify_irq(s)

Next == \E s \in Posti : Chiamata(s) \/ Programma(s) \/ Ambiente(s) \/ Finisce(s)

Spec == Init /\ [][Next]_vars

\* Every process of one priority that is READY gets the CPU (sched_pick_next is
\* a round robin), the clock moves, and an exit runs to its end.
Equita ==
    \A s \in Posti : WF_vars(Chiamata(s)) /\ WF_vars(Scade(s)) /\ WF_vars(Finisce(s))

SpecEqua == Spec /\ Equita

-----------------------------------------------------------------------------
(* Properties.                                                             *)

Stati == {"UNUSED", "NASCENTE", "READY", "BLOCKED", "ZOMBIE"}
Punti == {"usr", "trova", "send", "sveglia", "recv", "risveglio", "ret"}

\* The type of every variable.
TypeOK ==
    /\ pid \in [Posti -> 0..MaxPid] /\ tgid \in [Posti -> 0..MaxPid]
    /\ nextPid \in 1..MaxPid + 1
    /\ st \in [Posti -> Stati]
    /\ pc \in [Posti -> Punti]
    /\ destPid \in [Posti -> 0..MaxPid]
    /\ dest \in [Posti -> Posti \cup {Nessuno}]
    /\ senza \in SUBSET Posti
    /\ scad \in [Posti -> {"no", "armata", "scaduta"}]
    /\ interrotto \in SUBSET Posti
    /\ buf \in [Posti -> [0..Depth - 1 -> Messaggi]]
    /\ head \in [Posti -> 0..Depth - 1] /\ tail \in [Posti -> 0..Depth - 1]
    /\ count \in [Posti -> 0..Depth]
    /\ su \in [Posti -> Posti \cup {Nessuno}]
    /\ prima \in [Posti -> SUBSET Posti]
    /\ concesso \in SUBSET Posti
    /\ riservati \in [Posti -> Nat]
    /\ morenti \in SUBSET Posti

\* No live process has this pid (pids are given out once).
Sparito(p) == \A t \in Posti : pid[t] # p

\* Whoever stands in a line is a live process inside a waiting ipc_send, the
\* line is that of a live process, and it is the line of the process the
\* message is for, unless that one is gone for good; ipc_send looks again at
\* no other destination ("a line for another destination cannot be left
\* over"), across deadlines, signals, deaths and the reuse of process slots.
FilaGiusta ==
    \A s \in Posti : su[s] # Nessuno =>
        /\ Vivo(s) /\ Vivo(su[s])
        /\ pc[s] \in {"trova", "send"} /\ s \notin senza
        /\ pid[su[s]] = destPid[s] \/ Sparito(destPid[s])
        /\ pc[s] = "send" => dest[s] \in {su[s], Nessuno}

\* The counter ipc_riservati is exactly the number of waiting senders that
\* hold a promise (every path that leaves the line gives it back once).
RiservatiEsatti == \A d \in Posti : riservati[d] = Cardinality(Promessi(d))

\* fila_avanza's comment: "the promised ones are always at the front, at most
\* IPC_MAILBOX_DEPTH of them" - although interrupts and IPC_SENZA_ATTESA
\* senders take promised slots, and members leave from the middle.
PromessiInTesta ==
    /\ \A d \in Posti : riservati[d] <= Depth
    /\ \A s \in Posti : su[s] # Nessuno /\ s \in concesso =>
          \A x \in prima[s] : su[x] = su[s] /\ x \in concesso

\* Nobody waits without a promise in front of a mailbox that is empty and
\* promised to nobody: then no receive and no departure would ever run
\* fila_avanza, and the sender could only time out.
NessunoDimenticato ==
    \A d \in Posti : (\E w \in Fila(d) : w \notin concesso) => count[d] + riservati[d] > 0

\* A sender that holds a promise sleeps only while the mailbox is full (its
\* slot was taken by an interrupt or an IPC_SENZA_ATTESA sender): as soon as
\* there is room it has been woken.
PromessaNonDorme ==
    \A s \in Posti : su[s] # Nessuno /\ s \in concesso /\ st[s] = "BLOCKED" =>
        count[su[s]] = Depth

\* ipc_recv "blocks until ipc_send delivers something": a process asleep in a
\* receive with a message in its mailbox is about to be woken by the sender
\* that delivered it.
MessaggioNonDorme ==
    \A s \in Posti : st[s] = "BLOCKED" /\ pc[s] = "risveglio" /\ count[s] > 0 =>
        \E t \in Posti : Vivo(t) /\ pc[t] = "sveglia" /\ destPid[t] = pid[s]

\* ipc_send delivers to dest_pid: every message in a mailbox was sent to the
\* process that owns it.
MessaggioAlDestinatario ==
    \A s \in Posti : \A i \in 0..Depth - 1 :
        i < count[s] => buf[s][(head[s] + i) % Depth].a = pid[s]

\* A waiting sender is served in the order of arrival, up to the depth of the
\* mailbox: one that delivers had fewer than Depth senders before it in the
\* line, and one that never stood in line delivers only if nobody waits
\* (kernel 0.280 replaced "whoever retried first won").
SorpassoLimitato ==
    [][\A s \in Posti :
          /\ pc[s] = "send" /\ pc'[s] \in {"ret", "sveglia"} /\ s \notin senza
          /\ dest[s] # Nessuno /\ count'[dest[s]] = count[dest[s]] + 1
          => IF su[s] = dest[s] THEN Cardinality(prima[s]) < Depth
                                ELSE Fila(dest[s]) = {}]_vars

\* Every ipc_send returns or its caller ends: the line, lost promises and
\* signals that keep waking the sender never hold it past its deadline.
InvioTorna ==
    \A s \in Posti : pc[s] \in {"trova", "send", "sveglia"} ~> pc[s] \in {"ret", "usr"}

\* A process asleep in a receive whose mailbox got a message is woken, even
\* when the sender is preempted between the delivery and the wake.
RicevutaSvegliata ==
    \A s \in Posti : (pc[s] = "risveglio" /\ count[s] > 0) ~> pc[s] # "risveglio"
=============================================================================
