----------------------------- MODULE MCIpcNomi -----------------------------
EXTENDS IpcNomi, TLC
CONSTANTS p1, p2, p3, kbd, mouse, mio
UtenteMC == p1 :> 0 @@ p2 :> 0 @@ p3 :> 7
PrefissoMC == kbd :> 0 @@ mouse :> 0 @@ mio :> 7
=============================================================================
