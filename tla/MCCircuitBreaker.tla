-------------------------- MODULE MCCircuitBreaker --------------------------
(***************************************************************************)
(* Model-checking instances of CircuitBreaker.                             *)
(***************************************************************************)
EXTENDS CircuitBreaker, TLC

CONSTANTS t1, t2, t3
=============================================================================
