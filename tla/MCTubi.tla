------------------------------- MODULE MCTubi -------------------------------
(* A program with two threads and the child it forks.                      *)
EXTENDS Tubi, TLC

CONSTANTS a1, a2, b, A, B

DueProgrammi == a1 :> A @@ a2 :> A @@ b :> B

(* One thread makes pipes, forks, writes and closes; the other reads,      *)
(* watches and is told to stop; the child reads, waiting or not, copies    *)
(* its descriptors, closes them and ends.                                  *)
Mestieri == a1 :> {"pipe", "fork", "W", "chiudi"} @@ a2 :> {"R", "poll", "interrotto"}
            @@ b :> {"R", "nb", "dup", "chiudi", "esce"}

Pezzi == [R |-> {1, 2}, W |-> {2}]
=============================================================================
