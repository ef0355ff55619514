----------------------------- MODULE MCListener ------------------------------
(* Instances of Listener for TLC.                                          *)
EXTENDS Listener
CONSTANTS k1, k2, h1, h2
=============================================================================
