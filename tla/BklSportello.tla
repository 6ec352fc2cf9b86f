---------------------------- MODULE BklSportello ----------------------------
(***************************************************************************)
(* The ticket lock serves the processors in order of arrival: it           *)
(* implements Sportello, also across the wrap of the tickets.              *)
(***************************************************************************)
EXTENDS Bkl, Sequences

CONSTANT Libero         \* nobody holds the lock

ASSUME LiberoAssumption == Libero \notin Cpu

\* How many tickets are called before ticket m.
Davanti(m) == (m + Giro - turno) % Giro

\* Who waits, in the order of the tickets; while the holder is leaving, the
\* ticket being called is still its own.
InFila == {c \in Cpu : pc[c] = "fila"}

Attesa ==
    [i \in 1..Cardinality(InFila) |->
        CHOOSE c \in InFila :
            Cardinality({d \in InFila : Davanti(mio[d]) < Davanti(mio[c])}) = i - 1]

Servito == IF tiene = {} THEN Libero ELSE CHOOSE c \in Cpu : c \in tiene

Astratto == INSTANCE Sportello
                WITH Chi <- Cpu, Nessuno <- Libero, servito <- Servito, attesa <- Attesa

\* bkl_entra's comment: "whoever arrives takes a number and is served in
\* order; whoever leaves and comes back goes behind those that were waiting".
ImplementaSportello == Astratto!Spec
=============================================================================
