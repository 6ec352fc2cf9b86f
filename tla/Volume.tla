------------------------------- MODULE Volume -------------------------------
(***************************************************************************)
(* What a journaled volume promises: the metadata the programs see and the *)
(* metadata a power cut would leave move together.  An operation changes   *)
(* what is seen; a commit makes all of it, and nothing but it, what a cut  *)
(* leaves; a cut gives back one of the two, whole.  Never half of an       *)
(* operation.                                                              *)
(***************************************************************************)
VARIABLES visto,   \* the metadata the programs see
          salvo    \* the metadata a power cut would leave

vars == <<visto, salvo>>

Init == visto = salvo

Opera  == salvo' = salvo

Salva  == visto' = visto /\ salvo' = visto

Perde  == visto' \in {visto, salvo} /\ salvo' \in {salvo, visto'}

Next == Opera \/ Salva \/ Perde

Spec == Init /\ [][Next]_vars
=============================================================================
