------------------------------ MODULE MCLedger ------------------------------
(***************************************************************************)
(* An instance of Ledger for TLC.                                          *)
(***************************************************************************)
EXTENDS Ledger, TLC

CONSTANTS t1, t2, t3, u1, u2, ghost

\* Two charges and a refund, or a charge and two refunds of it.
ThreeRequests == {t1, t2, t3}
MCUsers == {u1, u2}
MCUserIds == {u1, u2, ghost}      \* ghost has no row in the users table
\* u1 covers one charge of 2 or two of 1, u2 covers a single charge of 1.
MCBalance == (u1 :> 2) @@ (u2 :> 1)
=============================================================================
