------------------------------ MODULE Registro ------------------------------
(***************************************************************************)
(* What the name registry promises its clients: every name has at most one *)
(* holder, only a free name can be taken, and it is lost only by the death *)
(* of its holder.                                                          *)
(***************************************************************************)
CONSTANTS Nomi, Processi, Nessuno
VARIABLE di                              \* the holder of each name

Init == di = [n \in Nomi |-> Nessuno]

Prende(p, n) == di[n] = Nessuno /\ di' = [di EXCEPT ![n] = p]

\* The death of p frees all its names at once.
Perde(p) == di' = [n \in Nomi |-> IF di[n] = p THEN Nessuno ELSE di[n]]

Next == \E p \in Processi : Perde(p) \/ \E n \in Nomi : Prende(p, n)

Spec == Init /\ [][Next]_di
=============================================================================
