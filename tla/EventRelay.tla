----------------------------- MODULE EventRelay -----------------------------
(***************************************************************************)
(* What the outbox, its pollers and the queue promise together, one event  *)
(* at a time: an event is staged, reaches the queue, and is received or    *)
(* archived; or it is given up before it ever reached the queue, and then  *)
(* for good.  Nothing of batches, transactions, locks, duplicate tasks,    *)
(* crashes or shutdowns is visible here.  Outbox.tla is shown to implement *)
(* this module.                                                            *)
(***************************************************************************)
CONSTANT Events   \* outbox_events rows

VARIABLE phase    \* how far each event has come

Init == phase = [e \in Events |-> "absent"]

Move(e, from, to) ==
  /\ phase[e] = from
  /\ phase' = [phase EXCEPT ![e] = to]

Stage(e) == Move(e, "absent", "staged")

Enqueue(e) == Move(e, "staged", "queued")

\* The merchant has the payload, perhaps from a second task of the event.
Deliver(e) == Move(e, "queued", "received") \/ Move(e, "archived", "received")

Archive(e) == Move(e, "queued", "archived")

\* Events that never reached the queue become FAILED, several in one COMMIT.
GiveUp(S) ==
  /\ \A e \in S : phase[e] = "staged"
  /\ phase' = [e \in Events |-> IF e \in S THEN "failed" ELSE phase[e]]

Next ==
  \/ \E e \in Events : Stage(e) \/ Enqueue(e) \/ Deliver(e) \/ Archive(e)
  \/ \E S \in SUBSET Events : GiveUp(S)

Spec == Init /\ [][Next]_phase
=============================================================================
