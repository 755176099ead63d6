------------------------------ MODULE MCSerial ------------------------------
(* The instance of Serial for TLC. *)
EXTENDS Serial
=============================================================================
