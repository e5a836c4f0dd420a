------------------------------- MODULE MCFleet -------------------------------
(* A small instance of Fleet for TLC: its constants are in the cfg files. *)
EXTENDS Fleet
=============================================================================
