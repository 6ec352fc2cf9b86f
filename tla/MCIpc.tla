------------------------------- MODULE MCIpc -------------------------------
(* The mailbox and its line, and the ring as a queue, on small tables.     *)
EXTENDS IpcCassetta, TLC

Simmetria == Permutations(Posti)
=============================================================================
