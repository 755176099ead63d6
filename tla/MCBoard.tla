------------------------------ MODULE MCBoard -------------------------------
(* The instance of Board for TLC. *)
EXTENDS Board

MCMinInterval == [dht11 |-> 1, dht22 |-> 2]
=============================================================================
