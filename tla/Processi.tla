------------------------------ MODULE Processi ------------------------------
(***************************************************************************)
(* The life of a process of EX-OS: creation (spawn, fork, threads), the    *)
(* end of a thread and of a whole group, waitpid, thread_attendi, detached *)
(* threads, and the collection of zombies by parents and by init.          *)
(* Translated from kernel/sched/sched.c and kernel/syscall/syscall_impl.c. *)
(*                                                                         *)
(* The end of a process runs with interrupts off and is one step.  Scans   *)
(* of the process table, creation and collection run with interrupts on:   *)
(* another process, or init, may run between any two of their steps.       *)
(***************************************************************************)
EXTENDS Naturals, FiniteSets, FiniteSetsExt

CONSTANTS
    N,              \* slots of the process table (g_proc_posti)
    MaxPid,         \* bound: the last pid a behaviour gives out
    Eventi          \* bound: which of TuttiEventi a behaviour contains

ASSUME NAssumption == N \in Nat \ {0}
ASSUME MaxPidAssumption == MaxPid \in Nat /\ MaxPid >= 2

\* Threads; fork; detached threads; programs that fail to load; interruption
\* from outside; the end of a group while a sibling is inside a creation or a
\* collection ("dentro"); a slot taken while its collector still clears it
\* ("riuso").
TuttiEventi == {"filo", "fork", "stacca", "nonparte", "interrompi", "dentro", "riuso"}
ASSUME EventiAssumption == Eventi \subseteq TuttiEventi

Posti == 1..N
Init0 == 0                              \* g_init_task, outside the table
Attori == Posti \cup {Init0}
PidInit == 1
Pid == 0..MaxPid                        \* 0: no pid, and the NULL directory

VARIABLES
    pid, tgid, ppid, st, codice, pd,    \* the PCB
    raccolta, staccato, aspetta, interrotto,    \* in_raccolta, ..., aspetta_figli
    nextPid,                            \* g_next_pid
    distrutta,                          \* how often each directory was destroyed
    k                                   \* where each process, and init, stands

pcb  == <<pid, tgid, ppid, codice>>
segni == <<raccolta, staccato, aspetta, interrotto>>
vars == <<pcb, st, pd, segni, nextPid, distrutta, k>>

-----------------------------------------------------------------------------
(* The kernel frame of an actor: pc; i, the slot a scan has reached; p, the *)
(* PCB it points to; letto, the child_pid of proc_reap_zombie; mira, the    *)
(* pid asked for (0: any); vivi, figli_vivi # 0; per, what is being         *)
(* created.                                                                 *)

Fermo == [pc |-> "usr", i |-> 1, p |-> 0, letto |-> 0, mira |-> 0,
          vivi |-> FALSE, per |-> "no"]

Raccoglie == {"r_ricontrolla", "r_spazio", "r_distrugge", "r_libera", "r_azzera"}
Pc == {"usr", "esce", "i_cerca", "i_decide", "w_cerca", "w_sveglio",
       "a_cerca", "a_padre", "a_dorme", "a_sveglio", "r_entra", "r_cas",
       "c_campi", "c_filo", "c_pronto"} \cup Raccoglie

Vivo(s) == st[s] \notin {"UNUSED", "ZOMBIE"}
Corre(a) == a = Init0 \/ (a \in Posti /\ st[a] = "READY")

\* proc_get_by_pid: a zombie is found, an unused slot is not.
Trovati(p) == {s \in Posti : pid[s] = p /\ st[s] # "UNUSED"}

\* proc_gruppo_vivi and proc_gruppo_termina: the live members of a group.
Gruppo(g) == {s \in Posti : Vivo(s) /\ tgid[s] = g}

\* padre_vivo: the scan for a live process with this pid, M having just ended.
PadreVivo(p, M) == p = PidInit \/ \E s \in Posti \ M : pid[s] = p /\ Vivo(s)

\* Back to ring 3: whoever was interrupted ends there (syscall_handler).
Rientro(s) == [Fermo EXCEPT !.pc = IF s \in interrotto THEN "esce" ELSE "usr"]

\* After proc_reap_zombie: init goes on with its scan, a system call returns.
Dopo(a) ==
    IF a = Init0
    THEN [Fermo EXCEPT !.pc = "i_cerca", !.i = k[a].i + 1]
    ELSE Rientro(a)

Init ==
    /\ pid  = [s \in Posti |-> IF s = 1 THEN 2 ELSE 0]
    /\ tgid = [s \in Posti |-> IF s = 1 THEN 2 ELSE 0]
    /\ ppid = [s \in Posti |-> IF s = 1 THEN PidInit ELSE 0]
    /\ st   = [s \in Posti |-> IF s = 1 THEN "READY" ELSE "UNUSED"]
    /\ pd   = [s \in Posti |-> IF s = 1 THEN 2 ELSE 0]
    /\ codice = [s \in Posti |-> 0]
    /\ raccolta = {} /\ staccato = {} /\ aspetta = {} /\ interrotto = {}
    /\ nextPid = 3
    /\ distrutta = [d \in Pid |-> 0]
    /\ k = [a \in Attori |-> IF a = Init0 THEN [Fermo EXCEPT !.pc = "i_cerca"] ELSE Fermo]

-----------------------------------------------------------------------------
(* Creation.                                                               *)

\* pcb_alloc: the first free slot is cleared and taken, interrupts off.
pcb_alloc(s, cosa) ==
    LET liberi == {x \in Posti : st[x] = "UNUSED"}
        x == Min(liberi)
    IN
    /\ Corre(s) /\ s \in Posti /\ k[s].pc = "usr"
    /\ cosa \in {"spawn"} \cup ({"fork", "filo"} \cap Eventi)
    /\ nextPid <= MaxPid
    /\ liberi # {}
    /\ "riuso" \in Eventi \/ x \notin raccolta
    /\ st' = [st EXCEPT ![x] = "NASCENTE"]
    /\ pid' = [pid EXCEPT ![x] = 0]
    /\ ppid' = [ppid EXCEPT ![x] = 0]
    /\ tgid' = [tgid EXCEPT ![x] = 0]
    /\ codice' = [codice EXCEPT ![x] = 0]
    /\ pd' = [pd EXCEPT ![x] = 0]
    /\ raccolta' = raccolta \ {x}
    /\ staccato' = staccato \ {x}
    /\ aspetta' = aspetta \ {x}
    /\ interrotto' = interrotto \ {x}
    /\ k' = [k EXCEPT ![x] = Fermo, ![s].pc = "c_campi", ![s].p = x, ![s].per = cosa]
    /\ UNCHANGED <<nextPid, distrutta>>

\* proc_create: the pid, the parent, its own group and its own directory.
\* fork then names the process as the parent, not the calling thread.
proc_create(s) ==
    LET x == k[s].p IN
    /\ Corre(s) /\ k[s].pc = "c_campi" /\ nextPid <= MaxPid
    /\ nextPid' = nextPid + 1
    /\ pid'  = [pid EXCEPT ![x] = nextPid]
    /\ tgid' = [tgid EXCEPT ![x] = nextPid]
    /\ ppid' = [ppid EXCEPT ![x] = IF k[s].per = "fork" THEN tgid[s] ELSE pid[s]]
    /\ pd'   = [pd EXCEPT ![x] = nextPid]
    /\ k' = [k EXCEPT ![s].pc = IF k[s].per = "filo" THEN "c_filo" ELSE "c_pronto"]
    /\ UNCHANGED <<codice, st, segni, distrutta>>

\* proc_thread_crea: the fresh directory is thrown away for the group's, and
\* the thread enters the group of its leader, its parent.
proc_thread_crea(s) ==
    LET x == k[s].p IN
    /\ Corre(s) /\ k[s].pc = "c_filo"
    /\ distrutta' = [distrutta EXCEPT ![pd[x]] = @ + 1]
    /\ pd'   = [pd EXCEPT ![x] = pd[s]]
    /\ tgid' = [tgid EXCEPT ![x] = tgid[s]]
    /\ ppid' = [ppid EXCEPT ![x] = tgid[s]]
    /\ k' = [k EXCEPT ![s].pc = "c_pronto"]
    /\ UNCHANGED <<pid, codice, st, segni, nextPid>>

\* proc_set_ready: from here on the new process runs.
proc_set_ready(s) ==
    /\ Corre(s) /\ k[s].pc = "c_pronto"
    /\ st' = [st EXCEPT ![k[s].p] = "READY"]
    /\ k' = [k EXCEPT ![s] = Rientro(s)]
    /\ UNCHANGED <<pcb, pd, segni, nextPid, distrutta>>

\* The program could not be loaded: proc_kill, then for a process the creator
\* collects it at once; a thread is left to thread_attendi or to init.
proc_kill(s) ==
    /\ "nonparte" \in Eventi
    /\ Corre(s) /\ k[s].pc = "c_pronto"
    /\ st' = [st EXCEPT ![k[s].p] = "ZOMBIE"]
    /\ k' = [k EXCEPT ![s] = IF k[s].per = "filo" THEN Rientro(s)
                             ELSE [k[s] EXCEPT !.pc = "r_entra"]]
    /\ UNCHANGED <<pcb, pd, segni, nextPid, distrutta>>

-----------------------------------------------------------------------------
(* The end.                                                                *)

\* Who ends with s: an exit of the leader or a fatal one takes the group.
Finiti(s, fatale) == IF pid[s] = tgid[s] \/ fatale THEN Gruppo(tgid[s]) ELSE {s}

\* ppid_erede: when a thread takes the group along, who waits is the parent
\* of the leader.
Erede(s, fatale) ==
    LET capi == Trovati(tgid[s]) IN
    IF fatale /\ pid[s] # tgid[s] /\ capi # {} THEN ppid[Min(capi)] ELSE 0

\* Mutant: only the parent named by the child is woken.
ChiAspetta_solo_padre(p) == {t \in Posti : pid[t] = p}

\* sched_unblock_locked(ppid) and sveglia_chi_aspetta_figli(ppid).
ChiAspetta(p) ==
    {t \in Posti : pid[t] = p} \cup
    {t \in aspetta : \E u \in Trovati(p) : tgid[t] = tgid[u]}

\* Mutant: the code is written before the group is ended, which clears it.
Codici_prima(s, M, c, fatale) ==
    [t \in Posti |-> IF t = s THEN c ELSE IF t \in M THEN 0 ELSE codice[t]]

\* The exit codes: zero for whom the group takes along, but the leader speaks
\* for a thread that died of a fault.
Codici(s, M, c, fatale) ==
    [t \in Posti |-> IF t = s \/ (fatale /\ pid[t] = tgid[s] /\ t \in M) THEN c
                     ELSE IF t \in M THEN 0 ELSE codice[t]]

\* proc_esci: with interrupts off from the first line to the switch.
proc_esci(s, c, fatale) ==
    LET M == Finiti(s, fatale)
        solo == pid[s] # tgid[s] /\ ~fatale
        padre == IF Erede(s, fatale) # 0 THEN Erede(s, fatale) ELSE ppid[s]
        adotta == IF solo THEN s \in staccato
                  ELSE padre # 0 /\ ~PadreVivo(padre, M) /\ Erede(s, fatale) = 0
        W == IF adotta \/ padre = 0 THEN {}
             ELSE IF solo THEN {t \in Posti : pid[t] = padre} ELSE ChiAspetta(padre)
    IN
    /\ st' = [t \in Posti |-> IF t \in M THEN "ZOMBIE"
                              ELSE IF t \in W /\ st[t] = "BLOCKED" THEN "READY" ELSE st[t]]
    /\ ppid' = IF adotta THEN [ppid EXCEPT ![s] = PidInit] ELSE ppid
    /\ codice' = Codici(s, M, c, fatale)
    /\ k' = [a \in Attori |-> IF a \in M THEN Fermo ELSE k[a]]
    /\ aspetta' = aspetta \ M
    /\ interrotto' = interrotto \ M
    /\ UNCHANGED <<pid, tgid, pd, raccolta, staccato, nextPid, distrutta>>

\* Bound: whether an exit may catch a sibling in a creation or a collection.
Esce(s, fatale) ==
    "dentro" \in Eventi \/
    \A t \in Finiti(s, fatale) \ {s} : k[t].pc \notin Raccoglie /\ k[t].per = "no"

\* exit, a fault, the end of a thread; 1 and 2 are an exit code and a fault.
proc_exit(s) ==
    /\ s \in Posti /\ Corre(s) /\ k[s].pc = "usr"
    /\ \E fatale \in BOOLEAN : Esce(s, fatale) /\ proc_esci(s, IF fatale THEN 2 ELSE 1, fatale)

\* proc_interrompi: a flag, and the wake of who sleeps.
proc_interrompi(s) ==
    /\ "interrompi" \in Eventi /\ s \notin interrotto
    /\ Vivo(s) /\ pid[s] # 0
    /\ interrotto' = interrotto \cup {s}
    /\ st' = [st EXCEPT ![s] = IF @ = "BLOCKED" THEN "READY" ELSE @]
    /\ UNCHANGED <<pcb, pd, raccolta, staccato, aspetta, nextPid, distrutta, k>>

\* syscall_handler: the interrupted process ends on its way to ring 3.
syscall_handler(s) ==
    /\ Corre(s) /\ k[s].pc = "esce" /\ Esce(s, TRUE)
    /\ proc_esci(s, 2, TRUE)

-----------------------------------------------------------------------------
(* proc_reap_zombie, run by a parent, by who joins a thread, by init, and  *)
(* by the creator of a program that did not load.                          *)

\* The pid it works for, and the first look at the state.
r_entra(a) ==
    /\ Corre(a) /\ k[a].pc = "r_entra"
    /\ k' = [k EXCEPT ![a] = IF st[k[a].p] = "ZOMBIE"
                             THEN [k[a] EXCEPT !.pc = "r_cas", !.letto = pid[k[a].p]]
                             ELSE Dopo(a)]
    /\ UNCHANGED <<pcb, st, pd, segni, nextPid, distrutta>>

\* Mutant: the PCB is taken without looking whether somebody has it.
r_cas_cieca(a) ==
    /\ Corre(a) /\ k[a].pc = "r_cas"
    /\ raccolta' = raccolta \cup {k[a].p}
    /\ k' = [k EXCEPT ![a].pc = "r_ricontrolla"]
    /\ UNCHANGED <<pcb, st, pd, staccato, aspetta, interrotto, nextPid, distrutta>>

\* The compare-and-swap on in_raccolta.
r_cas(a) ==
    /\ Corre(a) /\ k[a].pc = "r_cas"
    /\ IF k[a].p \in raccolta
       THEN k' = [k EXCEPT ![a] = Dopo(a)] /\ UNCHANGED raccolta
       ELSE /\ raccolta' = raccolta \cup {k[a].p}
            /\ k' = [k EXCEPT ![a].pc = "r_ricontrolla"]
    /\ UNCHANGED <<pcb, st, pd, staccato, aspetta, interrotto, nextPid, distrutta>>

\* The second look: still a zombie, and still the same process.
Ancora(a) == st[k[a].p] = "ZOMBIE" /\ pid[k[a].p] = k[a].letto

\* Mutant: whoever finds the PCB changed does not give it back.
r_ricontrolla_tiene(a) ==
    /\ Corre(a) /\ k[a].pc = "r_ricontrolla"
    /\ k' = [k EXCEPT ![a] = IF Ancora(a) THEN [@ EXCEPT !.pc = "r_spazio"] ELSE Dopo(a)]
    /\ UNCHANGED <<pcb, st, pd, segni, nextPid, distrutta>>

\* With the claim in hand: go on, or give it back and go away.
r_ricontrolla(a) ==
    /\ Corre(a) /\ k[a].pc = "r_ricontrolla"
    /\ IF Ancora(a)
       THEN k' = [k EXCEPT ![a].pc = "r_spazio"] /\ UNCHANGED raccolta
       ELSE /\ raccolta' = raccolta \ {k[a].p}
            /\ k' = [k EXCEPT ![a] = Dopo(a)]
    /\ UNCHANGED <<pcb, st, pd, staccato, aspetta, interrotto, nextPid, distrutta>>

\* Mutant: whoever is collected takes the directory of its group along.
SpazioDaFare_sempre(x) == pd[x] # 0

\* The directory goes when nobody of the group is left alive.
SpazioDaFare(x) == pd[x] # 0 /\ Gruppo(tgid[x]) = {}

\* The question whether the directory is still in use.
r_spazio(a) ==
    /\ Corre(a) /\ k[a].pc = "r_spazio"
    /\ LET x == k[a].p IN
       IF SpazioDaFare(x)
       THEN k' = [k EXCEPT ![a].pc = "r_distrugge", ![a].mira = pd[x]] /\ UNCHANGED pd
       ELSE k' = [k EXCEPT ![a].pc = "r_libera"] /\ pd' = [pd EXCEPT ![x] = 0]
    /\ UNCHANGED <<pcb, st, segni, nextPid, distrutta>>

\* The other PCBs forget the directory, then it is destroyed.
r_distrugge(a) ==
    /\ Corre(a) /\ k[a].pc = "r_distrugge"
    /\ LET d == k[a].mira IN
       /\ pd' = [x \in Posti |-> IF pd[x] = d \/ x = k[a].p THEN 0 ELSE pd[x]]
       /\ distrutta' = [distrutta EXCEPT ![d] = @ + 1]
    /\ k' = [k EXCEPT ![a].pc = "r_libera", ![a].mira = 0]
    /\ UNCHANGED <<pcb, st, segni, nextPid>>

\* After the clean-ups the slot is declared free ...
r_libera(a) ==
    /\ Corre(a) /\ k[a].pc = "r_libera"
    /\ st' = [st EXCEPT ![k[a].p] = "UNUSED"]
    /\ k' = [k EXCEPT ![a].pc = "r_azzera"]
    /\ UNCHANGED <<pcb, pd, segni, nextPid, distrutta>>

\* ... and only then its fields are cleared and in_raccolta given back.
r_azzera(a) ==
    LET x == k[a].p IN
    /\ Corre(a) /\ k[a].pc = "r_azzera"
    /\ pid' = [pid EXCEPT ![x] = 0]
    /\ ppid' = [ppid EXCEPT ![x] = 0]
    /\ pd' = [pd EXCEPT ![x] = 0]
    /\ raccolta' = raccolta \ {x}
    /\ k' = [k EXCEPT ![a] = Dopo(a)]
    /\ UNCHANGED <<tgid, codice, st, staccato, aspetta, interrotto, nextPid, distrutta>>

-----------------------------------------------------------------------------
(* init_reaper_task.                                                       *)

\* One turn of the scan: the state first ...
i_cerca ==
    /\ k[Init0].pc = "i_cerca" /\ k[Init0].i <= N
    /\ k' = [k EXCEPT ![Init0] = IF st[k[Init0].i] = "ZOMBIE"
                                 THEN [@ EXCEPT !.pc = "i_decide", !.p = k[Init0].i]
                                 ELSE [@ EXCEPT !.i = k[Init0].i + 1]]
    /\ UNCHANGED <<pcb, st, pd, segni, nextPid, distrutta>>

\* Mutant: the threads of a group that is gone are left where they are.
Riassorbe_senza_fili(x) ==
    \/ ppid[x] = PidInit
    \/ tgid[x] = pid[x] /\ ppid[x] # 0 /\ ~PadreVivo(ppid[x], {})

\* Whom init collects: its own, those whose parent is gone, and the threads
\* of a group nobody of which is alive.
Riassorbe(x) ==
    \/ ppid[x] = PidInit
    \/ tgid[x] = pid[x] /\ ppid[x] # 0 /\ ~PadreVivo(ppid[x], {})
    \/ tgid[x] # pid[x] /\ Gruppo(tgid[x]) = {}

\* ... then whose it is.
i_decide ==
    /\ k[Init0].pc = "i_decide"
    /\ k' = [k EXCEPT ![Init0] = IF Riassorbe(k[Init0].p)
                                 THEN [@ EXCEPT !.pc = "r_entra"] ELSE Dopo(Init0)]
    /\ UNCHANGED <<pcb, st, pd, segni, nextPid, distrutta>>

\* sched_sleep at the end of the table, then from the start.
i_dorme ==
    /\ k[Init0].pc = "i_cerca" /\ k[Init0].i = N + 1
    /\ k' = [k EXCEPT ![Init0].i = 1]
    /\ UNCHANGED <<pcb, st, pd, segni, nextPid, distrutta>>

-----------------------------------------------------------------------------
(* sys_waitpid.                                                            *)

w_inizia(s) ==
    /\ s \in Posti /\ Corre(s) /\ k[s].pc = "usr"
    /\ \E q \in {0} \cup {pid[x] : x \in Posti} :
         k' = [k EXCEPT ![s] = [Fermo EXCEPT !.pc = "w_cerca", !.mira = q]]
    /\ UNCHANGED <<pcb, st, pd, segni, nextPid, distrutta>>

\* A child of the process: not a thread, and its parent is in the group.
Figlio(s, x) ==
    /\ st[x] # "UNUSED" /\ tgid[x] = pid[x]
    /\ \/ ppid[x] \in {pid[s], tgid[s]}
       \/ \E u \in Trovati(ppid[x]) : tgid[u] = tgid[s]
    /\ k[s].mira \in {0, pid[x]}

\* One turn of the scan.  A zombie is collected and reported, whether or not
\* proc_reap_zombie was the one to take it.
w_cerca(s) ==
    LET x == k[s].i IN
    /\ Corre(s) /\ k[s].pc = "w_cerca" /\ x <= N
    /\ k' = [k EXCEPT ![s] =
               IF Figlio(s, x) /\ st[x] = "ZOMBIE"
               THEN [@ EXCEPT !.pc = "r_entra", !.p = x]
               ELSE [@ EXCEPT !.i = x + 1, !.vivi = k[s].vivi \/ Figlio(s, x)]]
    /\ UNCHANGED <<pcb, st, pd, segni, nextPid, distrutta>>

\* No zombie: ECHILD without a living child, 0 with WNOHANG, EINTR.
w_ritorna(s) ==
    /\ Corre(s) /\ k[s].pc = "w_cerca" /\ k[s].i = N + 1
    /\ k' = [k EXCEPT ![s] = Rientro(s)]
    /\ UNCHANGED <<pcb, st, pd, segni, nextPid, distrutta>>

\* Some child is alive: sleep.  aspetta_figli is read only of who is BLOCKED.
w_dorme(s) ==
    /\ Corre(s) /\ k[s].pc = "w_cerca" /\ k[s].i = N + 1
    /\ k[s].vivi /\ s \notin interrotto
    /\ st' = [st EXCEPT ![s] = "BLOCKED"]
    /\ aspetta' = aspetta \cup {s}
    /\ k' = [k EXCEPT ![s].pc = "w_sveglio"]
    /\ UNCHANGED <<pcb, pd, raccolta, staccato, interrotto, nextPid, distrutta>>

\* Woken: EINTR for the interrupted, else the scan again.
w_sveglio(s) ==
    /\ Corre(s) /\ k[s].pc = "w_sveglio"
    /\ aspetta' = aspetta \ {s}
    /\ k' = [k EXCEPT ![s] = IF s \in interrotto THEN Rientro(s)
                             ELSE [Fermo EXCEPT !.pc = "w_cerca", !.mira = k[s].mira]]
    /\ UNCHANGED <<pcb, st, pd, raccolta, staccato, interrotto, nextPid, distrutta>>

-----------------------------------------------------------------------------
(* sys_thread_attendi and sys_thread_stacca.                               *)

a_inizia(s) ==
    /\ "filo" \in Eventi
    /\ s \in Posti /\ Corre(s) /\ k[s].pc = "usr"
    /\ \E x \in Posti \ {s} : pid[x] # 0 /\
         k' = [k EXCEPT ![s] = [Fermo EXCEPT !.pc = "a_cerca", !.mira = pid[x]]]
    /\ UNCHANGED <<pcb, st, pd, segni, nextPid, distrutta>>

\* The thread is looked up: ESRCH, EINVAL if detached, collected if dead.
a_cerca(s) ==
    LET X == {x \in Trovati(k[s].mira) : tgid[x] = tgid[s] /\ x \notin staccato} IN
    /\ Corre(s) /\ k[s].pc = "a_cerca"
    /\ k' = [k EXCEPT ![s] =
               IF X = {} THEN Rientro(s)
               ELSE [@ EXCEPT !.p = Min(X),
                              !.pc = IF st[Min(X)] = "ZOMBIE" THEN "r_entra" ELSE "a_padre"]]
    /\ UNCHANGED <<pcb, st, pd, segni, nextPid, distrutta>>

\* It makes itself the parent, for proc_exit wakes the parent ...
a_padre(s) ==
    /\ Corre(s) /\ k[s].pc = "a_padre"
    /\ ppid' = [ppid EXCEPT ![k[s].p] = pid[s]]
    /\ k' = [k EXCEPT ![s].pc = "a_dorme"]
    /\ UNCHANGED <<pid, tgid, codice, st, pd, segni, nextPid, distrutta>>

\* ... and sleeps.
a_dorme(s) ==
    /\ Corre(s) /\ k[s].pc = "a_dorme"
    /\ st' = [st EXCEPT ![s] = "BLOCKED"]
    /\ k' = [k EXCEPT ![s].pc = "a_sveglio", ![s].p = 0]
    /\ UNCHANGED <<pcb, pd, segni, nextPid, distrutta>>

a_sveglio(s) ==
    /\ Corre(s) /\ k[s].pc = "a_sveglio"
    /\ k' = [k EXCEPT ![s] = IF s \in interrotto THEN Rientro(s)
                             ELSE [@ EXCEPT !.pc = "a_cerca"]]
    /\ UNCHANGED <<pcb, st, pd, segni, nextPid, distrutta>>

\* proc_filo_stacca: a dead one is given to init at once.
proc_filo_stacca(s, x) ==
    /\ "stacca" \in Eventi
    /\ Corre(s) /\ k[s].pc = "usr"
    /\ st[x] # "UNUSED" /\ tgid[x] = tgid[s] /\ pid[x] # tgid[x] /\ x \notin staccato
    /\ staccato' = staccato \cup {x}
    /\ ppid' = IF st[x] = "ZOMBIE" THEN [ppid EXCEPT ![x] = PidInit] ELSE ppid
    /\ UNCHANGED <<pid, tgid, codice, st, pd, raccolta, aspetta, interrotto,
                   nextPid, distrutta, k>>

-----------------------------------------------------------------------------
PassoRaccolta(a) ==
    \/ r_entra(a) \/ r_cas(a) \/ r_ricontrolla(a) \/ r_spazio(a) \/ r_distrugge(a)
    \/ r_libera(a) \/ r_azzera(a)

\* What a process does inside a system call once it has entered one.
PassoKernel(s) ==
    \/ proc_create(s) \/ proc_thread_crea(s) \/ proc_set_ready(s) \/ proc_kill(s)
    \/ PassoRaccolta(s)
    \/ w_cerca(s) \/ w_ritorna(s) \/ w_dorme(s) \/ w_sveglio(s)
    \/ a_cerca(s) \/ a_padre(s) \/ a_dorme(s) \/ a_sveglio(s)
    \/ syscall_handler(s)

PassoInit == i_cerca \/ i_decide \/ i_dorme \/ PassoRaccolta(Init0)

Next ==
    \/ \E s \in Posti :
         \/ \E cosa \in {"spawn", "fork", "filo"} : pcb_alloc(s, cosa)
         \/ PassoKernel(s)
         \/ proc_exit(s) \/ proc_interrompi(s) \/ w_inizia(s) \/ a_inizia(s)
         \/ \E x \in Posti : proc_filo_stacca(s, x)
    \/ PassoInit

Spec == Init /\ [][Next]_vars

\* init sleeps and always comes back; a process inside the kernel is
\* always scheduled again.
SpecEqua == Spec /\ WF_vars(PassoInit) /\ \A s \in Posti : WF_vars(PassoKernel(s))
-----------------------------------------------------------------------------
(* Properties.                                                             *)

\* The PCB fields, the flags and every frame hold values of their types: in
\* particular no scan runs past the end of the table.
TypeOK ==
    /\ pid \in [Posti -> Pid] /\ tgid \in [Posti -> Pid] /\ ppid \in [Posti -> Pid]
    /\ st \in [Posti -> {"UNUSED", "NASCENTE", "READY", "BLOCKED", "ZOMBIE"}]
    /\ codice \in [Posti -> 0..2] /\ pd \in [Posti -> Pid]
    /\ raccolta \subseteq Posti /\ staccato \subseteq Posti
    /\ aspetta \subseteq Posti /\ interrotto \subseteq Posti
    /\ nextPid \in 3..MaxPid + 1
    /\ distrutta \in [Pid -> Nat]
    /\ k \in [Attori -> [pc : Pc, i : 1..N + 1, p : 0..N, letto : Pid, mira : Pid,
                          vivi : BOOLEAN, per : {"no", "spawn", "fork", "filo"}]]

\* One collector per zombie: whoever takes a PCB apart (proc_reap_zombie past
\* its second look) works alone, on a zombie, and on the one it came for.
RaccoltaEsclusiva ==
    \A a \in Attori : k[a].pc \in Raccoglie \ {"r_ricontrolla", "r_azzera"} =>
        /\ st[k[a].p] = "ZOMBIE" /\ pid[k[a].p] = k[a].letto /\ k[a].p \in raccolta
        /\ \A b \in Attori \ {a} : k[b].pc \in Raccoglie => k[b].p # k[a].p

\* a is past the compare-and-swap on in_raccolta of slot x.
Tiene(a, x) == k[a].pc \in Raccoglie /\ k[a].p = x

\* The claim on a zombie (in_raccolta): only who takes the PCB apart raises it,
\* only its owner lowers it, and whoever goes away gives it back, on every path
\* of proc_reap_zombie.  It stays up behind an owner in one case, which the code
\* has: the end of a group kills that owner half-way.
PresaResa ==
    [][/\ \A x \in raccolta' \ raccolta : \E a \in Attori : Tiene(a, x)'
       /\ \A x \in raccolta \ raccolta' : \E a \in Attori : Tiene(a, x)
       /\ \A a \in Attori, x \in raccolta' :
            Tiene(a, x) /\ ~Tiene(a, x)' => a # Init0 /\ st'[a] = "ZOMBIE"]_vars

\* The address space of a group is never destroyed under a member that can
\* still run (the test of proc_gruppo_vivi in proc_reap_zombie), and a
\* process that can run knows its pid and its directory.
SpazioVivo ==
    \A s \in Posti : st[s] \in {"READY", "BLOCKED"} =>
        pid[s] # 0 /\ pd[s] # 0 /\ distrutta[pd[s]] = 0

\* The leader of a program that ran carries, from its end until it is
\* collected, the code of whoever ended the program, also when a thread died
\* of a fault (proc_esci: the code is written after proc_gruppo_termina, which
\* clears it).
CodiceDelCapo ==
    [][\A s \in Posti : tgid[s] = pid[s] /\ st'[s] = "ZOMBIE" =>
         /\ st[s] \in {"READY", "BLOCKED"} => codice'[s] # 0
         /\ st[s] = "ZOMBIE" => codice'[s] = codice[s]]_vars

\* Whoever sleeps in waitpid when a child of its process ends is woken in the
\* same section, whichever thread sleeps and whichever thread's fault ended
\* the child, as long as the parent the child names is alive.
FineAnnunciata ==
    [][\A s, t \in Posti :
         /\ st[s] \in {"READY", "BLOCKED"} /\ st'[s] = "ZOMBIE" /\ tgid[s] = pid[s]
         /\ st[t] = "BLOCKED" /\ t \in aspetta
         /\ \E u \in Posti : Vivo(u) /\ Vivo(u)' /\ pid[u] = ppid[s] /\ tgid[u] = tgid[t]
         => st'[t] # "BLOCKED"]_vars

\* A zombie nobody can wait for: given to init, or its parent is gone, or a
\* thread of a group that is gone.
Orfano(x) ==
    /\ st[x] = "ZOMBIE"
    /\ \/ ppid[x] = PidInit
       \/ ppid[x] # 0 /\ pid[x] = tgid[x] /\ \A s \in Posti : Vivo(s) => pid[s] # ppid[x]
       \/ pid[x] # tgid[x] /\ \A s \in Posti : Vivo(s) => tgid[s] # tgid[x]

\* Every such zombie is collected in the end and its slot comes back
\* (init_reaper_task).
OrfanoRaccolto == \A x \in Posti : Orfano(x) ~> st[x] # "ZOMBIE"

\* What sys_waitpid means to avoid: to sleep, not yet woken, for a child that
\* has already ended and that nobody is collecting.
NonDormeSulloZombie ==
    \A s, x \in Posti : ~(/\ st[s] = "BLOCKED" /\ k[s].pc = "w_sveglio"
                          /\ Figlio(s, x) /\ st[x] = "ZOMBIE" /\ ppid[x] = pid[s])

\* A slot has one owner: a collector never clears the fields of a PCB that
\* pcb_alloc has given to somebody else.
PostoDiUno == \A a \in Attori : k[a].pc = "r_azzera" => st[k[a].p] = "UNUSED"

\* The directory of a group is destroyed once, not once per PCB.
SpazioDistruttoUnaVolta == \A d \in Pid : distrutta[d] <= 1
=============================================================================
