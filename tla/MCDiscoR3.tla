------------------------------ MODULE MCDiscoR3 ------------------------------
(* Two threads that work on files, one that calls without the lock (the    *)
(* flush of fsync, or a raw write), one driver.                            *)
EXTENDS DiscoR3, TLC

CONSTANTS a, b, f, s

Tre == a :> {"LEGGI"} @@ b :> {"SCRIVI"} @@ f :> {"SVUOTA"}
Grezzo == a :> {"LEGGI"} @@ b :> {"SCRIVI"} @@ f :> {"SCRIVI"}
=============================================================================
