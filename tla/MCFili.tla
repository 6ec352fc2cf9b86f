------------------------------- MODULE MCFili -------------------------------
EXTENDS Fili

CONSTANTS a, b, c

(* n calls of the first thread, k of the others; the last one is disturbed. *)
Fanno(n, k, x, y, z, d) ==
    [t \in Fili |-> CASE t = a -> [cosa |-> x, volte |-> n, subisce |-> {}]
                     [] t = b -> [cosa |-> y, volte |-> k, subisce |-> {}]
                     [] t = c -> [cosa |-> z, volte |-> k, subisce |-> d]]

(* Three programs: a lock of readers and writers, a monitor, a semaphore.  *)
TreProgrammi ==
    {Fanno(1, 1, {"rd", "wr"}, {"wr", "trywr"}, {"rd", "tryrd"}, {"segnale"}),
     Fanno(2, 1, {"produci"}, {"consuma"}, {"consuma"}, {"ferma", "segnale"}),
     Fanno(2, 2, {"lascia"}, {"lascia", "attende"}, {"attende_ms"}, {"ferma", "segnale"})}

(* A writer that pthread_cancel reaches while it waits.                    *)
Annullato == {Fanno(1, 1, {"wr"}, {"rd"}, {"wr"}, {"ferma"})}
=============================================================================
