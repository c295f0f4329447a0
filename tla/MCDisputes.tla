----------------------------- MODULE MCDisputes -----------------------------
(***************************************************************************)
(* An instance of Disputes for TLC: one payment the service knows and one  *)
(* it does not.                                                            *)
(***************************************************************************)
EXTENDS Disputes, TLC

CONSTANTS r1, r2, r3, known, unknown

ThreeRequests == {r1, r2, r3}
TwoPayments == {known, unknown}
OneSeeded == {known}

Symmetry == Permutations(ThreeRequests)
=============================================================================
