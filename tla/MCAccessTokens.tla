--------------------------- MODULE MCAccessTokens ---------------------------
(***************************************************************************)
(* An instance of AccessTokens for TLC.  Validations change nothing that   *)
(* another one reads, so one of them is enough.                            *)
(***************************************************************************)
EXTENDS AccessTokens

CONSTANTS c1, v1

OneClient == {c1}
OneValidation == {v1}
=============================================================================
