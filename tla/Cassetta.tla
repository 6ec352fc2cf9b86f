------------------------------ MODULE Cassetta ------------------------------
(***************************************************************************)
(* What a mailbox promises, whatever the kernel does inside: a first-in    *)
(* first-out queue of at most Depth messages, touched at its two ends      *)
(* only, one message at a time, and emptied when its owner is collected.   *)
(***************************************************************************)
EXTENDS Naturals, Sequences

CONSTANTS Proprietari, Contenuto, Depth

VARIABLE coda

CassettaInit == coda = [d \in Proprietari |-> <<>>]

Metti(d) ==
    /\ Len(coda[d]) < Depth
    /\ \E m \in Contenuto : coda' = [coda EXCEPT ![d] = Append(@, m)]

Togli(d) ==
    /\ coda[d] # <<>>
    /\ coda' = [coda EXCEPT ![d] = Tail(@)]

Svuota(d) == coda' = [coda EXCEPT ![d] = <<>>]

CassettaNext == \E d \in Proprietari : Metti(d) \/ Togli(d) \/ Svuota(d)

CassettaSpec == CassettaInit /\ [][CassettaNext]_coda
=============================================================================
