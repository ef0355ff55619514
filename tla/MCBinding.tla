----------------------------- MODULE MCBinding ------------------------------
(* Instances of Binding for TLC.                                           *)
EXTENDS Binding
CONSTANTS c1, c2, c3
=============================================================================
