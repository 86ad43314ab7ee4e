----------------------------- MODULE MCCaffeinate -----------------------------
(* A small instance of Caffeinate for TLC. *)
EXTENDS Caffeinate
=============================================================================
