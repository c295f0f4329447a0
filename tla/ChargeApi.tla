------------------------------ MODULE ChargeApi ------------------------------
(***************************************************************************)
(* POST /v1/charges in front of the database:                              *)
(*                                                                         *)
(*   internal/middleware/idempotency.go    the response cache in Redis     *)
(*   internal/handler/payment_handler.go   CreateChargeHandler             *)
(*   internal/database/redis_lock.go       AcquireLock, ReleaseLock        *)
(*                                                                         *)
(* A request looks its key up in the cache, takes the per-user lock,       *)
(* charges, releases the lock, and only then saves its answer under the    *)
(* key.  ProcessCharge is one step here: LedgerProofs shows that it is     *)
(* atomic.  The faults are those the code meets: Redis calls that fail     *)
(* (with or without having taken effect), a client that goes away, a       *)
(* COMMIT whose acknowledgement is lost, TTLs that run out, a process      *)
(* that dies.                                                              *)
(***************************************************************************)
EXTENDS Naturals

CONSTANTS
  Requests,   \* HTTP requests; a payment is named after the request that made it
  Users,      \* user ids, which name the locks
  Keys,       \* idempotency keys clients choose
  Headers,    \* the headers clients send them in
  Loads,      \* what the requests may carry
  Faults,     \* the sets of kinds of faults that may happen together
  None        \* no key, no payment, no lock holder

ASSUME ChargeApiAssumption ==
  /\ None \notin Requests /\ None \notin Keys
  /\ Loads \subseteq [Requests -> [header : Headers, key : Keys, user : Users, valid : BOOLEAN]]

VARIABLES
  req,       \* what each request carries; never changes
  pc,        \* where each request is
  answer,    \* the status code, and the payment shown in the body
  cache,     \* Redis "idem:<key>": the payment whose response is saved
  lock,      \* Redis "lock:payment:<user>": the token, i.e. who set it
  charged,   \* requests whose charge is committed
  gone,      \* requests whose client has disconnected: their context is cancelled
  before,    \* history: requests that had ended when this one arrived
  expired,   \* history: requests whose lock TTL ran out
  trouble    \* history: kinds of faults that have happened

history == <<before, expired, trouble>>
vars == <<req, pc, answer, cache, lock, charged, gone, before, expired, trouble>>

Answers == [code : {"none", "200", "400", "409", "422", "500"}, payment : Requests \cup {None}]
NoAnswer == [code |-> "none", payment |-> None]

\* r.Header.Get("Idempotency-Key"); no other header is looked at
IdemKey(r) == IF req[r].header = "Idempotency-Key" THEN req[r].key ELSE None

Init ==
  /\ req \in Loads
  /\ pc = [r \in Requests |-> "idle"]
  /\ answer = [r \in Requests |-> NoAnswer]
  /\ cache = [k \in Keys |-> None]
  /\ lock = [u \in Users |-> None]
  /\ charged = {}
  /\ gone = {}
  /\ before = [r \in Requests |-> {}]
  /\ expired = {}
  /\ trouble = {}

Goto(r, from, to) ==
  /\ pc[r] = from
  /\ pc' = [pc EXCEPT ![r] = to]

Fault(kind) ==
  /\ \E F \in Faults : trouble \cup {kind} \subseteq F
  /\ trouble' = trouble \cup {kind}

\* A Redis call made with the context of r fails; it always does once r's client is gone.
CallFails(r, kind) == IF r \in gone THEN UNCHANGED trouble ELSE Fault(kind)

Reply(r, c, p) == answer' = [answer EXCEPT ![r] = [code |-> c, payment |-> p]]

\* The middleware lets requests without a key straight through.
Arrive(r) ==
  /\ Goto(r, "idle", IF IdemKey(r) = None THEN "handler" ELSE "get")
  /\ before' = [before EXCEPT ![r] = {s \in Requests : pc[s] \in {"done", "dead"}}]
  /\ UNCHANGED <<req, answer, cache, lock, charged, gone, expired, trouble>>

(***************************************************************************)
(* rdb.Get: a hit is replayed with status 200.  A miss goes on, and so     *)
(* does any error, a cancelled context included.                           *)
(***************************************************************************)
IdemGet_Skipped(r) ==
  /\ Goto(r, "get", "handler")
  /\ UNCHANGED <<req, answer, cache, lock, charged, gone, history>>

IdemGet_EchoesKey(r) ==
  /\ pc[r] = "get" /\ r \notin gone
  /\ \/ /\ cache[IdemKey(r)] # None
        /\ Goto(r, "get", "done")
        /\ Reply(r, "200", IdemKey(r))
     \/ /\ cache[IdemKey(r)] = None
        /\ Goto(r, "get", "handler")
        /\ UNCHANGED answer
  /\ UNCHANGED <<req, cache, lock, charged, gone, history>>

IdemGet(r) ==
  /\ pc[r] = "get" /\ r \notin gone
  /\ \/ /\ cache[IdemKey(r)] # None
        /\ Goto(r, "get", "done")
        /\ Reply(r, "200", cache[IdemKey(r)])
     \/ /\ cache[IdemKey(r)] = None
        /\ Goto(r, "get", "handler")
        /\ UNCHANGED answer
  /\ UNCHANGED <<req, cache, lock, charged, gone, history>>

IdemGetFails(r) ==
  /\ Goto(r, "get", "handler")
  /\ CallFails(r, "redisGet")
  /\ UNCHANGED <<req, answer, cache, lock, charged, gone, before, expired>>

\* Malformed JSON, empty user_id, amount <= 0, unsupported currency.
Reject(r) ==
  /\ ~req[r].valid
  /\ Goto(r, "handler", "done")
  /\ \E c \in {"400", "422"} : Reply(r, c, None)
  /\ UNCHANGED <<req, cache, lock, charged, gone, history>>

(***************************************************************************)
(* AcquireLock: SET NX with a TTL of 5 s.  The token is the time in        *)
(* nanoseconds; no two requests are assumed to read the same nanosecond,   *)
(* so the token identifies the request.                                    *)
(***************************************************************************)
AcquireLock(r) ==
  /\ req[r].valid /\ r \notin gone
  /\ \/ /\ lock[req[r].user] = None
        /\ lock' = [lock EXCEPT ![req[r].user] = r]
        /\ Goto(r, "handler", "charge")
        /\ UNCHANGED answer
     \/ /\ lock[req[r].user] # None
        /\ Goto(r, "handler", "done")
        /\ Reply(r, "409", None)
        /\ UNCHANGED lock
  /\ UNCHANGED <<req, cache, charged, gone, history>>

(***************************************************************************)
(* SET NX fails: nothing was set, or it was and the reply was lost.  In    *)
(* the second case the client library's own retry finds the lock held, by  *)
(* this very request, and the handler answers 409 instead of 500.          *)
(***************************************************************************)
AcquireLockFails(r) ==
  /\ req[r].valid
  /\ Goto(r, "handler", "done")
  /\ \/ /\ Reply(r, "500", None)
        /\ UNCHANGED lock
     \/ /\ r \notin gone /\ lock[req[r].user] = None
        /\ lock' = [lock EXCEPT ![req[r].user] = r]
        /\ \E c \in {"409", "500"} : Reply(r, c, None)
  /\ CallFails(r, "redisLock")
  /\ UNCHANGED <<req, cache, charged, gone, before, expired>>

(***************************************************************************)
(* ProcessCharge commits and says so, fails and leaves nothing behind, or  *)
(* commits and reports an error.  With a cancelled context it fails.       *)
(***************************************************************************)
ProcessCharge(r) ==
  /\ Goto(r, "charge", "release")
  /\ \/ /\ r \notin gone
        /\ charged' = charged \cup {r}
        /\ Reply(r, "200", r)
        /\ UNCHANGED trouble
     \/ /\ Reply(r, "422", None)
        /\ UNCHANGED <<charged, trouble>>
     \/ /\ r \notin gone
        /\ charged' = charged \cup {r}
        /\ Reply(r, "422", None)
        /\ Fault("commitLost")
  /\ UNCHANGED <<req, cache, lock, gone, before, expired>>

\* The deferred ReleaseLock runs, then the middleware looks at the status code.
AfterHandler_AnyStatus(r) ==
  Goto(r, "release", IF IdemKey(r) # None THEN "store" ELSE "done")

AfterHandler(r) ==
  Goto(r, "release", IF answer[r].code = "200" /\ IdemKey(r) # None THEN "store" ELSE "done")

ReleaseLock_RequestContext(r) ==
  /\ AfterHandler(r)
  /\ lock' = [lock EXCEPT ![req[r].user] = IF @ = r /\ r \notin gone THEN None ELSE @]
  /\ UNCHANGED <<req, answer, cache, charged, gone, history>>

ReleaseLock_PlainDel(r) ==
  /\ AfterHandler(r)
  /\ lock' = [lock EXCEPT ![req[r].user] = None]
  /\ UNCHANGED <<req, answer, cache, charged, gone, history>>

\* The Lua script deletes the lock only if the token in it is still ours.
ReleaseLock(r) ==
  /\ AfterHandler(r)
  /\ lock' = [lock EXCEPT ![req[r].user] = IF @ = r THEN None ELSE @]
  /\ UNCHANGED <<req, answer, cache, charged, gone, history>>

\* The error of ReleaseLock is ignored; the lock waits for its TTL.
ReleaseLockFails(r) ==
  /\ AfterHandler(r)
  /\ Fault("redisLock")
  /\ UNCHANGED <<req, answer, cache, lock, charged, gone, before, expired>>

\* rdb.Set with the request's context, TTL 24 h; then the answer is flushed.
IdemSet(r) ==
  /\ r \notin gone
  /\ Goto(r, "store", "done")
  /\ cache' = [cache EXCEPT ![IdemKey(r)] = r]
  /\ UNCHANGED <<req, answer, lock, charged, gone, history>>

IdemSetFails(r) ==
  /\ Goto(r, "store", "done")
  /\ CallFails(r, "redisSet")
  /\ UNCHANGED <<req, answer, cache, lock, charged, gone, before, expired>>

-----------------------------------------------------------------------------
InFlight(r) == pc[r] \notin {"idle", "done", "dead"}

\* net/http cancels r.Context() when the client closes the connection.
Disconnect(r) ==
  /\ InFlight(r) /\ r \notin gone
  /\ gone' = gone \cup {r}
  /\ Fault("disconnect")
  /\ UNCHANGED <<req, pc, answer, cache, lock, charged, before, expired>>

\* The process serving r dies; what Redis and PostgreSQL hold stays.
Crash(r) ==
  /\ InFlight(r)
  /\ pc' = [pc EXCEPT ![r] = "dead"]
  /\ Fault("crash")
  /\ UNCHANGED <<req, answer, cache, lock, charged, gone, before, expired>>

\* The TTL that AcquireLock sets runs out, whether or not the holder is done.
LockExpire(u) ==
  /\ lock[u] # None
  /\ lock' = [lock EXCEPT ![u] = None]
  /\ expired' = expired \cup {lock[u]}
  /\ UNCHANGED <<req, pc, answer, cache, charged, gone, before, trouble>>

\* Twenty-four hours later the saved answer is gone.
CacheExpire(k) ==
  /\ cache[k] # None
  /\ cache' = [cache EXCEPT ![k] = None]
  /\ Fault("cacheExpiry")
  /\ UNCHANGED <<req, pc, answer, lock, charged, gone, before, expired>>

Step(r) ==
  \/ Arrive(r) \/ IdemGet(r) \/ IdemGetFails(r) \/ Reject(r)
  \/ AcquireLock(r) \/ AcquireLockFails(r) \/ ProcessCharge(r)
  \/ ReleaseLock(r) \/ ReleaseLockFails(r) \/ IdemSet(r) \/ IdemSetFails(r)

Next ==
  \/ \E r \in Requests : Step(r) \/ Disconnect(r) \/ Crash(r)
  \/ \E u \in Users : LockExpire(u)
  \/ \E k \in Keys : CacheExpire(k)

Spec == Init /\ [][Next]_vars

(***************************************************************************)
(* A request that has arrived is worked on: its goroutine is scheduled and *)
(* every call returns.  TTLs, faults and new requests owe nothing.         *)
(***************************************************************************)
FairSpec == Spec /\ \A r \in Requests : WF_vars(InFlight(r) /\ Step(r))

-----------------------------------------------------------------------------
(***************************************************************************)
(* Type invariant of the handler, the cache and the lock.                  *)
(***************************************************************************)
TypeOK ==
  /\ req \in [Requests -> [header : Headers, key : Keys, user : Users, valid : BOOLEAN]]
  /\ pc \in [Requests -> {"idle", "get", "handler", "charge", "release", "store", "done", "dead"}]
  /\ answer \in [Requests -> Answers]
  /\ cache \in [Keys -> Requests \cup {None}]
  /\ lock \in [Users -> Requests \cup {None}]
  /\ charged \subseteq Requests
  /\ gone \subseteq Requests
  /\ before \in [Requests -> SUBSET Requests]
  /\ expired \subseteq Requests
  /\ trouble \subseteq UNION Faults

\* Between a successful SET NX and the release.
InSection(r) == pc[r] \in {"charge", "release"}

(***************************************************************************)
(* Two charges of one user overlap only if the 5 s TTL ran out under one   *)
(* of them.  ReleaseLock's compare-and-delete keeps a late holder from     *)
(* freeing the lock of its successor.                                      *)
(***************************************************************************)
MutualExclusion ==
  \A r, s \in Requests :
    r # s /\ InSection(r) /\ InSection(s) /\ req[r].user = req[s].user
      => r \in expired \/ s \in expired

(***************************************************************************)
(* Status 200 is only ever sent for a committed charge: the request's own, *)
(* or one made under the same idempotency key.  The cache never holds an   *)
(* answer that was not a success.                                          *)
(***************************************************************************)
TruthfulAnswer ==
  \A r \in Requests : answer[r].code = "200" =>
    /\ answer[r].payment \in charged
    /\ answer[r].payment # r => IdemKey(answer[r].payment) = IdemKey(r) /\ IdemKey(r) # None

ChargedTwice(r, s) == r # s /\ r \in charged /\ s \in charged

(***************************************************************************)
(* A retry sent after the first attempt has ended does not charge again,   *)
(* as long as none of the faults that lose or hide the saved answer has    *)
(* happened.  Lock failures, lock expiry and other requests do no harm.    *)
(***************************************************************************)
RetrySafe ==
  trouble \subseteq {"redisLock"} =>
    \A s \in Requests : \A r \in before[s] :
      IdemKey(r) # None /\ IdemKey(r) = IdemKey(s) => ~ChargedTwice(r, s)

(***************************************************************************)
(* Every way out of CreateChargeHandler gives the lock back, a client that *)
(* disconnects included; only a crash or a failing Redis leaves it to its  *)
(* TTL.                                                                    *)
(***************************************************************************)
LockReturned ==
  \A u \in Users :
    lock[u] # None ~> lock[u] = None \/ trouble \cap {"crash", "redisLock"} # {}

-----------------------------------------------------------------------------
(***************************************************************************)
(* README.md: "a customer is never charged twice due to network retries or *)
(* double-clicks".  Requests with the same key, when all that may go wrong *)
(* is that a client's connection drops and no TTL of a lock runs out.  A   *)
(* double click: the second request looks the key up before the first has  *)
(* saved its answer, and takes the lock after the first has released it.   *)
(* A retry: the answer is saved with the dropped request's context, so it  *)
(* is lost.                                                                *)
(***************************************************************************)
NeverChargedTwice ==
  trouble \subseteq {"disconnect"} /\ expired = {} =>
    \A r, s \in Requests :
      IdemKey(r) # None /\ IdemKey(r) = IdemKey(s) => ~ChargedTwice(r, s)
=============================================================================
