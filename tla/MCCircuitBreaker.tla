--------------------------- MODULE MCCircuitBreaker ---------------------------
(***************************************************************************)
(* An instance of CircuitBreaker for TLC.                                  *)
(***************************************************************************)
EXTENDS CircuitBreaker

CONSTANTS q1, q2, q3

ThreeQueries == {q1, q2, q3}
=============================================================================
