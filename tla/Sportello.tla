----------------------------- MODULE Sportello -----------------------------
(***************************************************************************)
(* What the kernel lock promises: one at a time, in order of arrival.      *)
(***************************************************************************)
EXTENDS Sequences

CONSTANTS Chi, Nessuno

VARIABLES servito, attesa       \* who is inside, and the line

Init == servito = Nessuno /\ attesa = << >>

\* Somebody joins the line.
Arriva == \E c \in Chi :
    /\ servito # c /\ attesa' = Append(attesa, c)
    /\ UNCHANGED servito

\* The first one in the line enters.
Entra ==
    /\ servito = Nessuno /\ attesa # << >>
    /\ servito' = Head(attesa) /\ attesa' = Tail(attesa)

\* The lock is switched on by somebody who is inside already.
Accendi == servito = Nessuno /\ attesa = << >> /\ servito' \in Chi /\ UNCHANGED attesa

Lascia == servito # Nessuno /\ servito' = Nessuno /\ UNCHANGED attesa

Next == Arriva \/ Entra \/ Accendi \/ Lascia

Spec == Init /\ [][Next]_<<servito, attesa>>
=============================================================================
