----------------------------- MODULE MCGateway -----------------------------
(***************************************************************************)
(* An instance of Gateway for TLC: two addresses that share an API key.    *)
(* Buckets fill up in the time after which a client is forgotten, not      *)
(* earlier, and, as in the code, Limit is larger than the window and the   *)
(* lag.                                                                    *)
(***************************************************************************)
EXTENDS Gateway, TLC

CONSTANTS c1, c2, k1

TwoClients == {c1, c2}
OneKey == {k1}
\* One connection from each address.
Same == (c1 :> c1) @@ (c2 :> c2)
Shared == (c1 :> k1) @@ (c2 :> k1)

Symmetry == Permutations(TwoClients)
=============================================================================
