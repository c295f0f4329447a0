------------------------------ MODULE MCOutbox ------------------------------
(***************************************************************************)
(* Instances of Outbox for TLC.                                            *)
(***************************************************************************)
EXTENDS Outbox, TLC

CONSTANTS e1, e2, p1, p2

TwoEvents == {e1, e2}
TwoPollers == {p1, p2}
OnePoller == {p1}

TwoCreatedAt == (e1 :> 1) @@ (e2 :> 2)
=============================================================================
