-------------------------------- MODULE Tubo --------------------------------
(***************************************************************************)
(* What a pipe promises the programs (the three rules of pipe.h): bytes    *)
(* come out in the order they went in, each once; a read says that the     *)
(* data are over only when they are and nobody can write any more; a write *)
(* is refused as broken only when nobody can read any more; "try again" is *)
(* said only to an empty or a full pipe.                                   *)
(***************************************************************************)
EXTENDS Naturals, Sequences

CONSTANTS Tubi, Fili, Dim, Zitto

VARIABLES coda,       \* pipe -> the bytes in it
          lettori,    \* pipe -> ends to read that are open
          scrittori,  \* pipe -> ends to write that are open
          reso        \* thread -> what its last call gave it

vars == <<coda, lettori, scrittori, reso>>

Init ==
    /\ coda = [h \in Tubi |-> <<>>]
    /\ lettori = [h \in Tubi |-> 0] /\ scrittori = [h \in Tubi |-> 0]
    /\ reso = [p \in Fili |-> Zitto]

Reso(p, che, dati) == reso' = [reso EXCEPT ![p] = [che |-> che, dati |-> dati]]

Scrive(p, h, s) ==
    /\ Reso(p, "scritto", s)
    /\ lettori[h] > 0 /\ s # <<>> /\ Len(coda[h]) + Len(s) <= Dim
    /\ coda' = [coda EXCEPT ![h] = @ \o s]
    /\ UNCHANGED <<lettori, scrittori>>

Legge(p, h, k) ==
    /\ k \in 1 .. Len(coda[h])
    /\ Reso(p, "letto", SubSeq(coda[h], 1, k))
    /\ coda' = [coda EXCEPT ![h] = SubSeq(@, k + 1, Len(@))]
    /\ UNCHANGED <<lettori, scrittori>>

(* A call that moves nothing.                                              *)
Risponde(p, h, che) ==
    /\ Reso(p, che, <<>>)
    /\ che = "fine" => coda[h] = <<>> /\ scrittori[h] = 0
    /\ che = "rotto" => lettori[h] = 0
    /\ che = "riprova" => Len(coda[h]) \in {0, Dim}
    /\ UNCHANGED <<coda, lettori, scrittori>>

(* Ends are opened - never for a pipe that has none, except both at once - *)
(* and closed; with the last one goes what was left in the pipe.           *)
Capi ==
    /\ \E S \in SUBSET Fili : reso' = [p \in Fili |-> IF p \in S THEN Zitto ELSE reso[p]]
    /\ \A h \in Tubi :
         /\ lettori[h] = 0 /\ lettori'[h] > 0 =>
               scrittori[h] = 0 /\ lettori'[h] = 1 /\ scrittori'[h] = 1
         /\ scrittori[h] = 0 /\ scrittori'[h] > 0 =>
               lettori[h] = 0 /\ lettori'[h] = 1 /\ scrittori'[h] = 1
         /\ coda'[h] = IF lettori'[h] = 0 /\ scrittori'[h] = 0 THEN <<>> ELSE coda[h]

Next ==
    \/ Capi
    \/ \E p \in Fili, h \in Tubi :
          \/ \E k \in 1 .. Dim : Legge(p, h, k)
          \/ \E s \in {reso'[p].dati} : Scrive(p, h, s)
          \/ \E che \in {"fine", "rotto", "riprova", "altro", "pronto"} : Risponde(p, h, che)

Spec == Init /\ [][Next]_vars
=============================================================================
