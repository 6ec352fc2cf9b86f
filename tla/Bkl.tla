-------------------------------- MODULE Bkl --------------------------------
(***************************************************************************)
(* The kernel lock of the SMP kernel (kernel/arch/x86/smp.c, the stubs of  *)
(* isr_stubs.asm and context_switch.asm, and the idle loops and            *)
(* sched_yield of sched.c): a ticket lock taken on every entry into the    *)
(* kernel and left on the way back to ring 3 or in the idle loop.          *)
(*                                                                         *)
(* One step is what one processor does between two accesses to memory the  *)
(* others read.  Inside bkl_entra and bkl_lascia interrupts are off.  An   *)
(* interrupt of a processor that holds the lock leaves it as it was, and   *)
(* is not shown.                                                           *)
(***************************************************************************)
EXTENDS Naturals, FiniteSets

CONSTANTS
    Cpu,            \* the processors, by the number cpu_n() should read; 0 boots
    Parcheggiati,   \* those awake and with a timer, but given no work
    Giro            \* the tickets wrap here (2^32)

ASSUME CpuAssumption == /\ IsFiniteSet(Cpu) /\ Cpu \subseteq Nat /\ 0 \in Cpu
                        /\ Parcheggiati \subseteq Cpu \ {0}
ASSUME GiroAssumption == Giro \in Nat /\ Cardinality(Cpu) < Giro

VARIABLES
    lavora,         \* g_smp_lavora
    coda, turno,    \* g_bkl_coda, g_bkl_turno
    tiene,          \* the numbers n with g_bkl_tiene[n]
    pc,             \* where each processor is
    mio,            \* its ticket, while it waits
    poi,            \* where bkl_entra or bkl_lascia returns to
    ozio            \* where its idle task was interrupted

vars == <<lavora, coda, turno, tiene, pc, mio, poi, ozio>>
lockVars == <<lavora, coda, turno, tiene>>

\* prog: a program in ring 3.  fila: in bkl_entra, waiting.  gestore: in
\* smp_ap_irq.  dentro: in the kernel proper.  lascia: in bkl_lascia.
\* prima, hlt: in the idle loop, before and in the hlt.
Luoghi == {"prog", "fila", "gestore", "dentro", "lascia", "rientra", "prima", "hlt"}

\* Mutant: the ticket does not wrap.
Dopo_senza_giro(x) == x + 1

\* The next ticket.
Dopo(x) == (x + 1) % Giro

\* The number is in the processor's own GDT; a parked one still has the boot
\* processor's.
cpu_n(c) == IF lavora /\ c \notin Parcheggiati THEN c ELSE 0

-----------------------------------------------------------------------------
\* bkl_entra, up to the ticket; h is where it returns to.
bkl_entra(c, h) ==
    \/ /\ ~lavora \/ cpu_n(c) \in tiene
       /\ pc' = [pc EXCEPT ![c] = h]
       /\ UNCHANGED <<coda, mio, poi>>
    \/ /\ lavora /\ cpu_n(c) \notin tiene
       /\ mio' = [mio EXCEPT ![c] = coda]
       /\ coda' = Dopo(coda)
       /\ poi' = [poi EXCEPT ![c] = h]
       /\ pc' = [pc EXCEPT ![c] = "fila"]

\* Mutant: whoever finds the lock free takes it, whatever its ticket.
Turno_libero(c) ==
    /\ pc[c] = "fila" /\ tiene = {} /\ \A d \in Cpu : pc[d] # "lascia"
    /\ tiene' = tiene \cup {cpu_n(c)}
    /\ pc' = [pc EXCEPT ![c] = poi[c]]
    /\ UNCHANGED <<lavora, coda, turno, mio, poi, ozio>>

\* The rest of bkl_entra: the ticket is called.
Turno(c) ==
    /\ pc[c] = "fila" /\ turno = mio[c]
    /\ tiene' = tiene \cup {cpu_n(c)}
    /\ pc' = [pc EXCEPT ![c] = poi[c]]
    /\ UNCHANGED <<lavora, coda, turno, mio, poi, ozio>>

\* bkl_lascia, up to the next ticket; h is where it returns to.
bkl_lascia(c, h) ==
    \/ /\ ~lavora \/ cpu_n(c) \notin tiene
       /\ pc' = [pc EXCEPT ![c] = h]
       /\ UNCHANGED <<tiene, poi>>
    \/ /\ lavora /\ cpu_n(c) \in tiene
       /\ tiene' = tiene \ {cpu_n(c)}
       /\ poi' = [poi EXCEPT ![c] = h]
       /\ pc' = [pc EXCEPT ![c] = "lascia"]

\* The rest of bkl_lascia.
LasciaTurno(c) ==
    /\ pc[c] = "lascia"
    /\ turno' = Dopo(turno)
    /\ pc' = [pc EXCEPT ![c] = poi[c]]
    /\ UNCHANGED <<lavora, coda, tiene, mio, poi, ozio>>

-----------------------------------------------------------------------------
(* Entering the kernel: a call or an exception of a program, an interrupt  *)
(* of a program or of the idle task.                                       *)

\* The boot processor's interrupts go straight into the kernel, those of the
\* others into smp_ap_irq; only a program makes calls.
EntraDa(c) ==
    IF c = 0 THEN {"dentro"} ELSE IF pc[c] = "prog" THEN {"dentro", "gestore"} ELSE {"gestore"}

Entra(c) ==
    /\ pc[c] \in {"prog", "prima", "hlt"}
    /\ \E h \in EntraDa(c) : bkl_entra(c, h)
    /\ ozio' = IF pc[c] = "prog" THEN ozio ELSE [ozio EXCEPT ![c] = pc[c]]
    /\ UNCHANGED <<lavora, turno, tiene>>

\* Mutant: the idle loop does not leave the lock before it halts.
TornaOzio_tiene(c) ==
    /\ pc' = [pc EXCEPT ![c] = IF c \in Parcheggiati THEN "hlt" ELSE "prima"]
    /\ UNCHANGED <<tiene, poi>>

\* Back in the idle task where it was interrupted: before the hlt, or after
\* it, where the loop calls bkl_ozio again.  A parked processor only halts.
TornaOzio(c) ==
    \/ /\ c \in Parcheggiati
       /\ pc' = [pc EXCEPT ![c] = "hlt"]
       /\ UNCHANGED <<tiene, poi>>
    \/ /\ c \notin Parcheggiati /\ ozio[c] = "prima"
       /\ pc' = [pc EXCEPT ![c] = "prima"]
       /\ UNCHANGED <<tiene, poi>>
    \/ /\ c \notin Parcheggiati /\ ozio[c] = "hlt"
       /\ bkl_lascia(c, "prima")

\* Mutant: the beat goes to the scheduler whoever holds the kernel.
Battito_sempre(c) ==
    /\ pc[c] = "gestore"
    /\ pc' = [pc EXCEPT ![c] = "dentro"]
    /\ UNCHANGED <<lockVars, mio, poi, ozio>>

\* smp_ap_irq: the beat goes to the scheduler only with the lock.
Battito(c) ==
    /\ pc[c] = "gestore"
    /\ \/ /\ lavora /\ cpu_n(c) \in tiene
          /\ pc' = [pc EXCEPT ![c] = "dentro"]
          /\ UNCHANGED <<tiene, poi>>
       \/ /\ ~(lavora /\ cpu_n(c) \in tiene)
          /\ TornaOzio(c)
    /\ UNCHANGED <<lavora, coda, turno, mio, ozio>>

-----------------------------------------------------------------------------
(* Leaving it.                                                             *)

\* bkl_esci towards ring 3, and the first entries of a new process.
bkl_esci(c) ==
    /\ pc[c] = "dentro" /\ c \notin Parcheggiati
    /\ bkl_lascia(c, "prog")
    /\ UNCHANGED <<lavora, coda, turno, mio, ozio>>

\* The scheduler has nothing to run: back to the idle task.
bkl_ozio(c) ==
    /\ pc[c] = "dentro"
    /\ TornaOzio(c)
    /\ UNCHANGED <<lavora, coda, turno, mio, ozio>>

\* sched_yield with nobody to yield to: the others pass first.
sched_yield(c) ==
    /\ pc[c] = "dentro" /\ lavora
    /\ bkl_lascia(c, "rientra")
    /\ UNCHANGED <<lavora, coda, turno, mio, ozio>>

Rientra(c) ==
    /\ pc[c] = "rientra"
    /\ bkl_entra(c, "dentro")
    /\ UNCHANGED <<lavora, turno, tiene, ozio>>

\* hlt, in the idle loop.
Ferma(c) ==
    /\ pc[c] = "prima"
    /\ pc' = [pc EXCEPT ![c] = "hlt"]
    /\ UNCHANGED <<lockVars, mio, poi, ozio>>

\* smp_init and smp_accendi_lavoro: the lock is switched on by the boot
\* processor, already inside.
Accendi ==
    /\ pc[0] = "dentro" /\ ~lavora
    /\ lavora' = TRUE /\ turno' = 0 /\ coda' = Dopo(0) /\ tiene' = tiene \cup {0}
    /\ UNCHANGED <<pc, mio, poi, ozio>>

-----------------------------------------------------------------------------
Init ==
    /\ lavora = FALSE /\ coda = 0 /\ turno = 0 /\ tiene = {}
    /\ pc = [c \in Cpu |-> IF c = 0 THEN "dentro" ELSE "hlt"]
    /\ mio = [c \in Cpu |-> 0]
    /\ poi = [c \in Cpu |-> "dentro"]
    /\ ozio = [c \in Cpu |-> "hlt"]

Passo(c) ==
    \/ Turno(c) \/ LasciaTurno(c) \/ Battito(c) \/ Rientra(c)
    \/ bkl_esci(c) \/ bkl_ozio(c) \/ sched_yield(c)

Next == Accendi \/ \E c \in Cpu : Passo(c) \/ Entra(c) \/ Ferma(c)

Spec == Init /\ [][Next]_vars

\* A processor executes its instructions, its timer beats, and beats 10 ms
\* apart do not fall for ever between bkl_ozio and the hlt.
SpecEqua ==
    Spec /\ \A c \in Cpu : WF_vars(Passo(c)) /\ WF_vars(Entra(c)) /\ SF_vars(Ferma(c))

-----------------------------------------------------------------------------
(* Properties.                                                             *)

\* The type of every variable.
TypeOK ==
    /\ lavora \in BOOLEAN /\ coda \in 0..Giro - 1 /\ turno \in 0..Giro - 1
    /\ tiene \in SUBSET Cpu
    /\ pc \in [Cpu -> Luoghi]
    /\ mio \in [Cpu -> 0..Giro - 1]
    /\ poi \in [Cpu -> {"dentro", "gestore", "prog", "prima", "rientra"}]
    /\ ozio \in [Cpu -> {"prima", "hlt"}]

\* smp.h: "in the kernel there is one processor at a time".
UnoNelKernel == \A c, d \in Cpu : pc[c] = "dentro" /\ pc[d] = "dentro" => c = d

\* Whoever takes a ticket gets in.
FilaServita == \A c \in Cpu : pc[c] = "fila" ~> pc[c] # "fila"
=============================================================================
