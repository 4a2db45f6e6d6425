-------------------------- MODULE MCCircuitBreaker --------------------------
(* CircuitBreaker on a small instance.                                     *)
EXTENDS CircuitBreaker, TLC

CONSTANTS c1, c2, c3, c4

MCCalls == {c1, c2, c3, c4}
=============================================================================
