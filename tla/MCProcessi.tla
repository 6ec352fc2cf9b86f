---------------------------- MODULE MCProcessi ----------------------------
EXTENDS Processi
=============================================================================
