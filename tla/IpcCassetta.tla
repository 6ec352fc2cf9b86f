---------------------------- MODULE IpcCassetta ----------------------------
(***************************************************************************)
(* The ring of kernel/ipc/ipc.c implements the first-in first-out queue of *)
(* module Cassetta: the refinement mapping reads the ring from head, count *)
(* messages long.                                                          *)
(***************************************************************************)
EXTENDS Ipc, Sequences

Anello(d) == [i \in 1..count[d] |-> buf[d][(head[d] + i - 1) % Depth]]

Astratta == INSTANCE Cassetta WITH
    Proprietari <- Posti,
    Contenuto <- [da : 0..MaxPid, a : 1..MaxPid],
    coda <- [d \in Posti |-> Anello(d)]

\* Every step of the kernel is a step of the abstract mailboxes or leaves them
\* alone: nothing is lost, duplicated or reordered between ipc_send or
\* ipc_notify_irq and ipc_recv_timeout, and one step changes one mailbox.
ImplementaCassetta == Astratta!CassettaSpec

\* The ring's three counters agree (ipc_tail is where head and count say),
\* and what they delimit is exactly what is in use.
AnelloCoerente ==
    \A d \in Posti :
        /\ tail[d] = (head[d] + count[d]) % Depth
        /\ \A i \in 0..Depth - 1 :
              (i < count[d]) <=> (buf[d][(head[d] + i) % Depth] # Vuoto)
=============================================================================
