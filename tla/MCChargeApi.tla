---------------------------- MODULE MCChargeApi ----------------------------
(***************************************************************************)
(* Instances of ChargeApi for TLC.                                         *)
(***************************************************************************)
EXTENDS ChargeApi, TLC

CONSTANTS r1, r2, r3

ThreeRequests == {r1, r2, r3}
TwoRequests == {r1, r2}

Load(h, u, v) == [header |-> h, key |-> "k1", user |-> u, valid |-> v]
Keyed == Load("Idempotency-Key", "u1", TRUE)

\* Three attempts under one key; one of them without a key and one with a
\* bad body; one by another user who chose the same key.
MixedLoads ==
  {(r1 :> Keyed) @@ (r2 :> Keyed) @@ (r3 :> Keyed),
   (r1 :> Keyed) @@ (r2 :> Load("none", "u1", TRUE)) @@ (r3 :> Load("Idempotency-Key", "u1", FALSE)),
   (r1 :> Keyed) @@ (r2 :> Keyed) @@ (r3 :> Load("Idempotency-Key", "u2", TRUE))}

Retries == {[r \in Requests |-> Keyed]}

Kinds == {"disconnect", "redisGet", "redisLock", "redisSet", "commitLost", "crash", "cacheExpiry"}
MCFaults == {{k} : k \in Kinds} \cup {{"disconnect", "commitLost"}}
Disconnects == {{"disconnect"}}
=============================================================================
