------------------------------- MODULE MCBkl -------------------------------
EXTENDS BklSportello
=============================================================================
