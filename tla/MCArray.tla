------------------------------- MODULE MCArray -------------------------------
(* Instances of Array for TLC. *)
EXTENDS Array

MCCaps == {0, 8}
=============================================================================
