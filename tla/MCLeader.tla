------------------------------ MODULE MCLeader ------------------------------
(* Leader for TLC: the cfg files give all constants. *)
EXTENDS Leader
=============================================================================
