-------------------------------- MODULE Fili --------------------------------
(***************************************************************************)
(* The threads of one program and what they wait with: the sleep on a word *)
(* of memory of the kernel (sys_attesa_dormi, sys_attesa_sveglia in        *)
(* syscall_impl.c, proc_attesa_sveglia and proc_filo_ferma in sched.c) and *)
(* what lib/libc.c builds on it: the lock of three states, conditions,     *)
(* semaphores, and the lock of readers and writers of pthreads.            *)
(*                                                                         *)
(* A step of ring 3 is one access to shared memory: threads run on several *)
(* processors.  A step of the kernel is its section with interrupts off.   *)
(***************************************************************************)
EXTENDS Naturals, FiniteSets

CONSTANTS
    Fili,         \* threads
    Programmi,    \* what the program may be: for each thread, which calls it
                  \* makes, how many (a bound; the release of a lock aside),
                  \* and whether signals and requests to stop come to it
    Annullabili,  \* threads that pthread_cancel may end (the others said DISABLE)
    Unita,        \* the semaphore at the start
    MaxDisturbi   \* bound: requests to stop and signals

Chiamate == {"rd", "wr", "tryrd", "trywr", "consuma", "produci", "attende", "attende_ms", "lascia"}

ASSUME UsoDeiFili ==
    /\ IsFiniteSet(Fili)
    /\ Programmi \subseteq [Fili -> [cosa : SUBSET Chiamate, volte : Nat,
                                     subisce : SUBSET {"ferma", "segnale"}]]
    /\ Annullabili \subseteq Fili
    /\ Unita \in Nat /\ MaxDisturbi \in Nat

VARIABLES
    mem,       \* the words the threads share
    th,        \* thread -> where it is
    ferma,     \* threads asked to stop (PCB.ferma)
    scuoti,    \* threads whose next sleep returns at once (PCB.scuoti)
    tiene,     \* thread -> what it holds of the readers-writers lock
    conta,     \* calls made, of each thread; stops and signals
    fa         \* the program

vars == <<mem, th, ferma, scuoti, tiene, conta, fa>>

(* m, c, roba: a monitor as libc.h shows it; rm, rc, lettori, scrittore,   *)
(* in_attesa: a pthread_rwlock_t; s: a semaphore.                          *)
Parole == {"m", "c", "roba", "rm", "rc", "lettori", "scrittore", "in_attesa", "s"}

(* op: the call; pc: the next step; poi, dopo: where the lock and the      *)
(* kernel return to; m, c: the lock and the condition of the call; dove,   *)
(* atteso, ms: the arguments of the kernel, "mai" for no deadline, then    *)
(* "corre" and "scaduto"; visto: a value read.                             *)
Fuori == [op |-> "no", pc |-> "fuori", poi |-> "fuori", dopo |-> "fuori", m |-> "m", c |-> "c",
          dove |-> "m", atteso |-> 0, ms |-> "mai", visto |-> 0]

Va(t, pc) == th' = [th EXCEPT ![t].pc = pc]

-----------------------------------------------------------------------------
(* The kernel.                                                             *)

(* A call of attesa_dormi, of attesa_sveglia (quanti is 1, or 0 for all).  *)
Dormi(t, dove, atteso, dopo) ==
    [th[t] EXCEPT !.pc = "dormi", !.dove = dove, !.atteso = atteso, !.dopo = dopo]

Sveglia(t, dove, quanti, dopo) ==
    [th[t] EXCEPT !.pc = "sveglia", !.dove = dove, !.atteso = quanti, !.dopo = dopo]

\* Mutant: the shake is not looked at.
sys_attesa_dormi_sorda(t) ==
    /\ th[t].pc = "dormi"
    /\ Va(t, IF mem[th[t].dove] # th[t].atteso THEN th[t].dopo ELSE "dorme")
    /\ UNCHANGED <<mem, ferma, scuoti, tiene, conta, fa>>

(* sys_attesa_dormi: not if the value has changed, not if the thread was   *)
(* shaken since it last slept.                                             *)
sys_attesa_dormi(t) ==
    /\ th[t].pc = "dormi"
    /\ IF mem[th[t].dove] # th[t].atteso
       THEN Va(t, th[t].dopo) /\ UNCHANGED scuoti
       ELSE IF t \in scuoti
       THEN scuoti' = scuoti \ {t} /\ Va(t, th[t].dopo)
       ELSE Va(t, "dorme") /\ UNCHANGED scuoti
    /\ UNCHANGED <<mem, ferma, tiene, conta, fa>>

(* Awake, it leaves the kernel.                                            *)
Sveglio(t) ==
    /\ th[t].pc = "sveglio"
    /\ Va(t, th[t].dopo)
    /\ UNCHANGED <<mem, ferma, scuoti, tiene, conta, fa>>

Desti(W, TH) == [u \in Fili |-> IF u \in W THEN [TH[u] EXCEPT !.pc = "sveglio"] ELSE TH[u]]

Dormienti(dove) == {u \in Fili : th[u].pc = "dorme" /\ th[u].dove = dove}

(* proc_attesa_sveglia: that many of those who sleep there, or all; the    *)
(* order is that of the process table, which says nothing of who came      *)
(* first.                                                                  *)
sys_attesa_sveglia(t) ==
    LET d == Dormienti(th[t].dove) IN
    /\ th[t].pc = "sveglia"
    /\ \E W \in SUBSET d :
         /\ IF th[t].atteso = 0 THEN W = d
            ELSE Cardinality(W) = (IF d = {} THEN 0 ELSE 1)
         /\ th' = [Desti(W, th) EXCEPT ![t].pc = th[t].dopo]
    /\ UNCHANGED <<mem, ferma, scuoti, tiene, conta, fa>>

(* The time of a wait goes by ...                                          *)
Tempo(t) ==
    /\ th[t].ms = "corre" /\ th[t].pc # "fuori"
    /\ th' = [th EXCEPT ![t].ms = "scaduto"]
    /\ UNCHANGED <<mem, ferma, scuoti, tiene, conta, fa>>

(* ... and sched_irq0_handler finds it over.                               *)
Scade(t) ==
    /\ th[t].pc = "dorme" /\ th[t].ms = "scaduto"
    /\ Va(t, "sveglio")
    /\ UNCHANGED <<mem, ferma, scuoti, tiene, conta, fa>>

(* Signals and requests to stop do not go on for ever.                     *)
Disturbo ==
    /\ conta.disturbi < MaxDisturbi
    /\ conta' = [conta EXCEPT !.disturbi = @ + 1]

(* sveglia_per: a signal that is caught.                                   *)
Segnale(t) ==
    /\ "segnale" \in fa[t].subisce /\ th[t].pc = "dorme"
    /\ Disturbo
    /\ Va(t, "sveglio")
    /\ UNCHANGED <<mem, ferma, scuoti, tiene, fa>>

(* proc_filo_ferma: a request, and a shake: now if the thread sleeps here, *)
(* at its next sleep if not.                                               *)
proc_filo_ferma(t) ==
    /\ "ferma" \in fa[t].subisce /\ t \notin ferma /\ th[t].pc # "finito"
    /\ Disturbo
    /\ ferma' = ferma \cup {t}
    /\ IF th[t].pc = "dorme"
       THEN Va(t, "sveglio") /\ UNCHANGED scuoti
       ELSE scuoti' = scuoti \cup {t} /\ UNCHANGED th
    /\ UNCHANGED <<mem, tiene, fa>>

-----------------------------------------------------------------------------
(* The lock of three states: 0 free, 1 taken, 2 taken and somebody sleeps. *)

Prendi(t, poi) == [th[t] EXCEPT !.pc = "prendi", !.poi = poi]

Scrivi(w, v) == mem' = [mem EXCEPT ![w] = v]

(* mutex_prendi, the cmpxchg: free, or it is 2 already, or it becomes 2.   *)
mutex_prendi(t) ==
    LET v == mem[th[t].m] IN
    /\ th[t].pc = "prendi"
    /\ CASE v = 0 -> Scrivi(th[t].m, 1) /\ Va(t, th[t].poi)
         [] v = 2 -> th' = [th EXCEPT ![t] = Dormi(t, th[t].m, 2, "riprendi")] /\ UNCHANGED mem
         [] OTHER -> Va(t, "riprendi") /\ UNCHANGED mem
    /\ UNCHANGED <<ferma, scuoti, tiene, conta, fa>>

\* Mutant: the lock is taken back as if nobody else slept.
Riprendi_uno(t) ==
    LET v == mem[th[t].m] IN
    /\ th[t].pc = "riprendi"
    /\ Scrivi(th[t].m, IF v = 0 THEN 1 ELSE 2)
    /\ th' = [th EXCEPT ![t] = IF v = 0 THEN [th[t] EXCEPT !.pc = th[t].poi]
                               ELSE Dormi(t, th[t].m, 2, "riprendi")]
    /\ UNCHANGED <<ferma, scuoti, tiene, conta, fa>>

(* ... its xchg: 2 always, before it sleeps and when it gets the lock.     *)
Riprendi(t) ==
    LET v == mem[th[t].m] IN
    /\ th[t].pc = "riprendi"
    /\ Scrivi(th[t].m, 2)
    /\ th' = [th EXCEPT ![t] = IF v = 0 THEN [th[t] EXCEPT !.pc = th[t].poi]
                               ELSE Dormi(t, th[t].m, 2, "riprendi")]
    /\ UNCHANGED <<ferma, scuoti, tiene, conta, fa>>

(* mutex_lascia: one is woken if somebody may sleep.                       *)
mutex_lascia(t) ==
    /\ th[t].pc = "lascia"
    /\ Scrivi(th[t].m, 0)
    /\ th' = [th EXCEPT ![t] = IF mem[th[t].m] = 2 THEN Sveglia(t, th[t].m, 1, th[t].poi)
                               ELSE [th[t] EXCEPT !.pc = th[t].poi]]
    /\ UNCHANGED <<ferma, scuoti, tiene, conta, fa>>

-----------------------------------------------------------------------------
(* Conditions.                                                             *)

\* Mutant: the wait stands in an if.
Prova_se(op) == CASE op = "rd" -> "rd entra" [] op = "wr" -> "wr entra" [] OTHER -> "co entra"

(* Where a wait goes back to: the test of the while around it.             *)
Prova(op) == CASE op = "rd" -> "rd prova" [] op = "wr" -> "wr prova" [] OTHER -> "co prova"

(* condizione_aspetta: the counter is read, then the lock is left ...      *)
condizione_aspetta(t) ==
    /\ th[t].pc = "aspetta"
    /\ th' = [th EXCEPT ![t].visto = mem[th[t].c], ![t].pc = "lascia", ![t].poi = "aspetta qui"]
    /\ UNCHANGED <<mem, ferma, scuoti, tiene, conta, fa>>

(* ... it sleeps unless the counter has changed ...                        *)
AspettaQui(t) ==
    /\ th[t].pc = "aspetta qui"
    /\ th' = [th EXCEPT ![t] = Dormi(t, th[t].c, th[t].visto, "aspettato")]
    /\ UNCHANGED <<mem, ferma, scuoti, tiene, conta, fa>>

(* ... and the lock is taken back.                                         *)
Aspettato(t) ==
    /\ th[t].pc = "aspettato"
    /\ th' = [th EXCEPT ![t] = [Prendi(t, "annulla") EXCEPT !.visto = 0]]
    /\ UNCHANGED <<mem, ferma, scuoti, tiene, conta, fa>>

(* pthread_cond_wait ends a thread asked to stop, with the lock (the       *)
(* monitor of libc.h uses condizione_aspetta itself, and looks by itself). *)
annulla_se_chiesto(t) ==
    /\ th[t].pc = "annulla"
    /\ IF t \in ferma /\ t \in Annullabili /\ th[t].op \in {"rd", "wr"}
       THEN Va(t, "finito")
       ELSE Va(t, Prova(th[t].op))
    /\ UNCHANGED <<mem, ferma, scuoti, tiene, conta, fa>>

(* condizione_segnala, condizione_segnala_tutti: the counter, then the     *)
(* kernel.                                                                 *)
condizione_segnala(t) ==
    /\ th[t].pc = "segnala"
    /\ Scrivi(th[t].c, mem[th[t].c] + 1)
    /\ th' = [th EXCEPT ![t] = [Sveglia(t, th[t].c, IF th[t].op = "produci" THEN 1 ELSE 0, "lascia")
                                EXCEPT !.poi = "fuori"]]
    /\ UNCHANGED <<ferma, scuoti, tiene, conta, fa>>

-----------------------------------------------------------------------------
(* Readers and writers.  Under the lock, a test and what it decides are    *)
(* steps of their own.                                                     *)

Lascia(t) == [th[t] EXCEPT !.pc = "lascia", !.poi = "fuori"]

(* Inside, or the wait; the try of pthread_rwlock_try*lock gives up.       *)
Decide(t, chiuso, entra) ==
    th' = [th EXCEPT ![t] = IF ~chiuso THEN [th[t] EXCEPT !.pc = entra]
                            ELSE IF th[t].op \in {"tryrd", "trywr"} THEN Lascia(t)
                            ELSE [th[t] EXCEPT !.pc = "aspetta"]]

(* pthread_rwlock_rdlock, tryrdlock: a writer that waits goes first.       *)
RdProva(t) ==
    /\ th[t].pc = "rd prova"
    /\ Decide(t, mem.scrittore = 1 \/ mem.in_attesa > 0, "rd entra")
    /\ UNCHANGED <<mem, ferma, scuoti, tiene, conta, fa>>

RdEntra(t) ==
    /\ th[t].pc = "rd entra"
    /\ Scrivi("lettori", mem.lettori + 1)
    /\ tiene' = [tiene EXCEPT ![t] = "R"]
    /\ th' = [th EXCEPT ![t] = Lascia(t)]
    /\ UNCHANGED <<ferma, scuoti, conta, fa>>

(* pthread_rwlock_wrlock, trywrlock.                                       *)
WrConta(t) ==
    /\ th[t].pc = "wr conta"
    /\ Scrivi("in_attesa", mem.in_attesa + 1)
    /\ Va(t, "wr prova")
    /\ UNCHANGED <<ferma, scuoti, tiene, conta, fa>>

WrProva(t) ==
    /\ th[t].pc = "wr prova"
    /\ Decide(t, mem.scrittore = 1 \/ mem.lettori > 0, "wr entra")
    /\ UNCHANGED <<mem, ferma, scuoti, tiene, conta, fa>>

WrEntra(t) ==
    /\ th[t].pc = "wr entra"
    /\ mem' = [mem EXCEPT !.scrittore = 1,
                          !.in_attesa = IF th[t].op = "wr" THEN @ - 1 ELSE @]
    /\ tiene' = [tiene EXCEPT ![t] = "W"]
    /\ th' = [th EXCEPT ![t] = Lascia(t)]
    /\ UNCHANGED <<ferma, scuoti, conta, fa>>

(* pthread_rwlock_unlock: who holds it is not asked.                       *)
pthread_rwlock_unlock(t) ==
    /\ th[t].pc = "unl"
    /\ mem' = IF mem.scrittore = 1 THEN [mem EXCEPT !.scrittore = 0]
              ELSE IF mem.lettori > 0 THEN [mem EXCEPT !.lettori = @ - 1] ELSE mem
    /\ tiene' = [tiene EXCEPT ![t] = "no"]
    /\ Va(t, "segnala")
    /\ UNCHANGED <<ferma, scuoti, conta, fa>>

-----------------------------------------------------------------------------
(* A monitor, as libc.h says to write one:                                 *)
(*   while (!c_e_roba && !thread_devo_fermarmi()) condizione_aspetta(...)  *)

CoProva(t) ==
    /\ th[t].pc = "co prova"
    /\ Decide(t, mem.roba = 0 /\ t \notin ferma, "co entra")
    /\ UNCHANGED <<mem, ferma, scuoti, tiene, conta, fa>>

CoEntra(t) ==
    /\ th[t].pc = "co entra"
    /\ Scrivi("roba", IF mem.roba > 0 THEN mem.roba - 1 ELSE 0)
    /\ th' = [th EXCEPT ![t] = Lascia(t)]
    /\ UNCHANGED <<ferma, scuoti, tiene, conta, fa>>

Produce(t) ==
    /\ th[t].pc = "produce"
    /\ Scrivi("roba", mem.roba + 1)
    /\ Va(t, "segnala")
    /\ UNCHANGED <<ferma, scuoti, tiene, conta, fa>>

-----------------------------------------------------------------------------
(* Semaphores.                                                             *)

\* Mutant: awake, it does not look at the clock again.
semaforo_prova_ancora(t) ==
    /\ th[t].pc = "sem prova"
    /\ \/ /\ mem.s > 0
          /\ th' = [th EXCEPT ![t].visto = mem.s, ![t].pc = "sem scambia"]
       \/ /\ mem.s = 0
          /\ th' = [th EXCEPT ![t] = Dormi(t, "s", 0, "sem prova")]
    /\ UNCHANGED <<mem, ferma, scuoti, tiene, conta, fa>>

(* semaforo_prova: the counter is read; at zero semaforo_prendi sleeps,    *)
(* and semaforo_prendi_ms gives up if its time is over.                    *)
semaforo_prova(t) ==
    /\ th[t].pc = "sem prova"
    /\ \/ /\ mem.s > 0
          /\ th' = [th EXCEPT ![t].visto = mem.s, ![t].pc = "sem scambia"]
       \/ /\ mem.s = 0 /\ th[t].ms # "scaduto"
          /\ th' = [th EXCEPT ![t] = Dormi(t, "s", 0, "sem prova")]
       \/ /\ mem.s = 0 /\ th[t].ms = "scaduto"
          /\ Va(t, "fuori")
    /\ UNCHANGED <<mem, ferma, scuoti, tiene, conta, fa>>

(* ... and its cmpxchg.                                                    *)
SemScambia(t) ==
    /\ th[t].pc = "sem scambia"
    /\ IF mem.s = th[t].visto
       THEN Scrivi("s", mem.s - 1) /\ th' = [th EXCEPT ![t].pc = "fuori", ![t].visto = 0]
       ELSE UNCHANGED mem /\ th' = [th EXCEPT ![t].pc = "sem prova", ![t].visto = 0]
    /\ UNCHANGED <<ferma, scuoti, tiene, conta, fa>>

semaforo_lascia(t) ==
    /\ th[t].pc = "sem lascia"
    /\ Scrivi("s", mem.s + 1)
    /\ th' = [th EXCEPT ![t] = Sveglia(t, "s", 1, "fuori")]
    /\ UNCHANGED <<ferma, scuoti, tiene, conta, fa>>

-----------------------------------------------------------------------------
(* What a call does first: the lock and where to go with it, or a step of  *)
(* the semaphore.                                                          *)
Dentro(op) == CASE op \in {"rd", "tryrd"} -> "rd prova" [] op = "wr" -> "wr conta"
                [] op = "trywr" -> "wr prova" [] op = "unl" -> "unl"
                [] op = "consuma" -> "co prova" [] op = "produci" -> "produce"

Parte(t, op) ==
    th' = [th EXCEPT ![t] =
             CASE op \in {"rd", "tryrd", "wr", "trywr", "unl"} ->
                    [Fuori EXCEPT !.op = op, !.m = "rm", !.c = "rc", !.pc = "prendi", !.poi = Dentro(op)]
               [] op \in {"consuma", "produci"} ->
                    [Fuori EXCEPT !.op = op, !.pc = "prendi", !.poi = Dentro(op)]
               [] op = "lascia" -> [Fuori EXCEPT !.op = op, !.pc = "sem lascia"]
               [] OTHER -> [Fuori EXCEPT !.op = op, !.pc = "sem prova",
                                         !.ms = IF op = "attende_ms" THEN "corre" ELSE "mai"]]

(* A thread that holds the lock of readers and writers asks for nothing    *)
(* else of it.                                                             *)
Chiama(t) ==
    /\ th[t].pc = "fuori" /\ tiene[t] = "no" /\ conta.di[t] < fa[t].volte
    /\ conta' = [conta EXCEPT !.di[t] = @ + 1]
    /\ \E op \in fa[t].cosa : Parte(t, op)
    /\ UNCHANGED <<mem, ferma, scuoti, tiene, fa>>

Rilascia(t) ==
    /\ th[t].pc = "fuori" /\ tiene[t] # "no"
    /\ Parte(t, "unl")
    /\ UNCHANGED <<mem, ferma, scuoti, tiene, conta, fa>>

-----------------------------------------------------------------------------
Init ==
    /\ mem = [p \in Parole |-> IF p = "s" THEN Unita ELSE 0]
    /\ th = [t \in Fili |-> Fuori]
    /\ ferma = {} /\ scuoti = {}
    /\ tiene = [t \in Fili |-> "no"]
    /\ conta = [di |-> [t \in Fili |-> 0], disturbi |-> 0]
    /\ fa \in Programmi

(* A thread that runs.                                                     *)
Passo(t) ==
    \/ sys_attesa_dormi(t) \/ Sveglio(t) \/ sys_attesa_sveglia(t)
    \/ mutex_prendi(t) \/ Riprendi(t) \/ mutex_lascia(t)
    \/ condizione_aspetta(t) \/ AspettaQui(t) \/ Aspettato(t) \/ annulla_se_chiesto(t)
    \/ condizione_segnala(t)
    \/ RdProva(t) \/ RdEntra(t) \/ WrConta(t) \/ WrProva(t) \/ WrEntra(t)
    \/ pthread_rwlock_unlock(t)
    \/ CoProva(t) \/ CoEntra(t) \/ Produce(t)
    \/ semaforo_prova(t) \/ SemScambia(t) \/ semaforo_lascia(t)

Next ==
    \E t \in Fili : Passo(t) \/ Chiama(t) \/ Rilascia(t) \/ Tempo(t) \/ Scade(t)
                     \/ Segnale(t) \/ proc_filo_ferma(t)

Spec == Init /\ [][Next]_vars

(* The scheduler runs every thread that can run, time goes by and the tick *)
(* finds a deadline that is over, and who holds the lock of readers and    *)
(* writers leaves it.                                                      *)
Equita ==
    \A t \in Fili : /\ WF_vars(Passo(t)) /\ WF_vars(Rilascia(t))
                     /\ WF_vars(Tempo(t)) /\ WF_vars(Scade(t))

SpecEqua == Spec /\ Equita

-----------------------------------------------------------------------------
(* A writer inside pthread_rwlock is alone: nobody gets in between the     *)
(* test of the while and what follows it, whatever woke it.                *)
Esclusione == \A t, u \in Fili : t # u /\ tiene[t] = "W" => tiene[u] = "no"

Svegliera(dove) == {u \in Fili : th[u].pc = "sveglia" /\ th[u].dove = dove}

(* Threads that will look at a word again before they sleep on it.         *)
Torna(dove) ==
    {u \in Fili : \/ th[u].pc \in {"dormi", "sveglio"} /\ th[u].dove = dove
                  \/ th[u].pc = "riprendi" /\ th[u].m = dove}

Consumano ==
    {u \in Fili : th[u].op = "consuma" /\ th[u].pc \notin {"fuori", "lascia"}
                  /\ ~(th[u].pc = "dorme" /\ th[u].dove = "c")}

(* No wake-up is lost (libc.c, "IL LUCCHETTO CHE DORME" and "LE VARIABILI  *)
(* DI CONDIZIONE"): who sleeps on a lock left its 2 there, or somebody is  *)
(* about to wake one or to put it back; who sleeps in the lock of readers  *)
(* and writers has seen the last broadcast; and things or units that       *)
(* sleepers wait for have each somebody awake who will take it, or who     *)
(* will wake one.                                                          *)
SonnoGiusto ==
    /\ \A w \in {"m", "rm"} :
         Dormienti(w) # {} => mem[w] = 2 \/ Svegliera(w) \cup Torna(w) # {}
    /\ \A t \in Dormienti("rc") : th[t].atteso = mem.rc \/ Svegliera("rc") # {}
    /\ Dormienti("c") # {} =>
         mem.roba <= Cardinality(Consumano \cup Svegliera("c") \cup {u \in Fili : th[u].op = "produci" /\ th[u].pc = "segnala"})
    /\ Dormienti("s") # {} =>
         mem.s <= Cardinality(Svegliera("s") \cup Torna("s")
                              \cup {u \in Fili : th[u].pc \in {"sem prova", "sem scambia"}})

(* A thread asked to stop does not sleep in its condizione_aspetta: it was *)
(* shaken, or its next sleep was ("senza una scrollata la richiesta        *)
(* arriverebbe solo il giorno che qualcun altro lo sveglia").              *)
FermaAscoltata == \A t \in ferma : ~(th[t].op = "consuma" /\ th[t].pc = "dorme" /\ th[t].dove = "c")

(* Every call on the lock of readers and writers returns, a wait with a    *)
(* deadline returns, and so does a wait in the monitor once the thread is  *)
(* asked to stop.                                                          *)
ChiamataTorna ==
    \A t \in Fili :
      (th[t].op \notin {"attende", "consuma"} \/ (th[t].op = "consuma" /\ t \in ferma))
        ~> (th[t].pc \in {"fuori", "finito"})
=============================================================================
