------------------------------ MODULE Gateway ------------------------------
(***************************************************************************)
(* What a request passes before it reaches a handler, in the order in      *)
(* which cmd/api/main.go installs it:                                      *)
(*                                                                         *)
(*   internal/handler/middleware.go      a token bucket per client address *)
(*   internal/middleware/rate_limiter.go a sliding window per API key      *)
(*                                                                         *)
(* The buckets live in the process, under the mutex mu, and are lost when  *)
(* it restarts; a background goroutine forgets silent clients.  The window *)
(* is a sorted set in Redis that a Lua script trims, counts and extends.   *)
(* The script adds the current second under the name of that second, so    *)
(* what the set holds is a set of seconds.  Between the two limiters and   *)
(* before Redis answers, time passes and other requests overtake.          *)
(***************************************************************************)
EXTENDS Integers, FiniteSets

CONSTANTS
  Clients,       \* client addresses
  ApiKeys,       \* values of X-API-Key; requests without one share a key
  Conns,         \* connections, each with one request at a time
  AddressOf,     \* where a connection comes from
  KeyOf,         \* the key its requests carry
  Rate,          \* tokens gained per unit of time (5 a second in the code)
  Burst,         \* capacity of a bucket (10)
  Idle,          \* a client silent for longer than this is forgotten (3 minutes)
  Window,        \* the window in seconds (60)
  Limit,         \* its capacity (1000)
  MaxLag,        \* bound on the seconds between the two limiters
  MaxTime        \* bound on the clock

\* The last conjunct: a bucket fills up before its client is forgotten.
ASSUME GatewayAssumption ==
  /\ AddressOf \in [Conns -> Clients]
  /\ KeyOf \in [Conns -> ApiKeys]
  /\ Rate \in Nat \ {0} /\ Burst \in Nat \ {0} /\ Idle \in Nat
  /\ Window \in Nat \ {0} /\ Limit \in Nat
  /\ MaxLag \in Nat /\ MaxTime \in Nat
  /\ Burst <= Rate * Idle

VARIABLES
  now,        \* time, in units in which a bucket gains Rate whole tokens
  second,     \* the Unix time
  clients,    \* the addresses in the map
  tokens,     \* their buckets
  lastSeen,   \* and when they were last heard of
  at,         \* when a request passed the first limiter; NotWaiting before and after
  zset,       \* Redis "ratelimit:<key>"
  expireAt,   \* when its TTL runs out
  excess,     \* history: see QuotaRespected
  passed      \* history: requests of a key passed on in this second, up to Limit + 1

clocks == <<now, second>>
buckets == <<clients, tokens, lastSeen, excess>>
windows == <<zset, expireAt>>
vars == <<now, second, clients, tokens, lastSeen, at, zset, expireAt, excess, passed>>

Lesser(a, b) == IF a <= b THEN a ELSE b
Greater(a, b) == IF a <= b THEN b ELSE a
NotWaiting == -1

Init ==
  /\ now = 0 /\ second = 0
  /\ clients = {}
  /\ tokens = [c \in Clients |-> Burst]
  /\ lastSeen = [c \in Clients |-> 0]
  /\ at = [q \in Conns |-> NotWaiting]
  /\ zset = [k \in ApiKeys |-> {}]
  /\ expireAt = [k \in ApiKeys |-> 0]
  /\ excess = [c \in Clients |-> 0]
  /\ passed = [k \in ApiKeys |-> 0]

\* Buckets fill up; what a client has had above its quota melts away.
Tick ==
  /\ now < MaxTime
  /\ now' = now + 1
  /\ second' \in {second, second + 1}
  /\ \A q \in Conns : at[q] = NotWaiting \/ second' - at[q] <= MaxLag
  /\ tokens' = [c \in Clients |-> Lesser(Burst, tokens[c] + Rate)]
  /\ excess' = [c \in Clients |-> Greater(0, excess[c] - Rate)]
  /\ passed' = [k \in ApiKeys |-> IF second' = second THEN passed[k] ELSE 0]
  /\ UNCHANGED <<clients, lastSeen, at, windows>>

-----------------------------------------------------------------------------
(***************************************************************************)
(* RateLimitMiddleware, on every route.                                    *)
(***************************************************************************)

\* rate.NewLimiter gives a client that is not in the map a full bucket.
Bucket(c) == IF c \in clients THEN tokens[c] ELSE Burst

Seen(c) ==
  /\ clients' = clients \cup {c}
  /\ lastSeen' = [lastSeen EXCEPT ![c] = now]

Allow_Unchecked(c) ==
  /\ Seen(c)
  /\ tokens' = [tokens EXCEPT ![c] = Bucket(c) - 1]
  /\ excess' = [excess EXCEPT ![c] = @ + 1]

\* Allow() takes a token and the request goes on.
Allow(c) ==
  /\ Seen(c)
  /\ Bucket(c) >= 1
  /\ tokens' = [tokens EXCEPT ![c] = Bucket(c) - 1]
  /\ excess' = [excess EXCEPT ![c] = @ + 1]

\* A route of the /v1 group, where the second limiter follows.
Admit(q) ==
  /\ at[q] = NotWaiting
  /\ Allow(AddressOf[q])
  /\ at' = [at EXCEPT ![q] = second]
  /\ UNCHANGED <<clocks, windows, passed>>

\* /metrics, /v1/healthcheck and POST /v1/subscriptions are served at once.
AdmitUnlimited(q) ==
  /\ at[q] = NotWaiting
  /\ Allow(AddressOf[q])
  /\ UNCHANGED <<clocks, at, windows, passed>>

\* No token: 429.  The client was heard of all the same.
Deny(q) ==
  /\ at[q] = NotWaiting
  /\ Seen(AddressOf[q])
  /\ Bucket(AddressOf[q]) < 1
  /\ UNCHANGED <<clocks, tokens, excess, at, windows, passed>>

Stale_TooSoon(c) == now - lastSeen[c] >= 1

Stale(c) == now - lastSeen[c] > Idle

\* One pass of the background cleaner.
Evict ==
  /\ clients' = {c \in clients : ~Stale(c)}
  /\ UNCHANGED <<clocks, tokens, lastSeen, excess, at, windows, passed>>

\* The process starts again: the map is empty, the requests in it are gone.
Restart ==
  /\ clients' = {}
  /\ excess' = [c \in Clients |-> Greater(0, excess[c] - Burst)]
  /\ at' = [q \in Conns |-> NotWaiting]
  /\ UNCHANGED <<clocks, tokens, lastSeen, windows, passed>>

-----------------------------------------------------------------------------
(***************************************************************************)
(* Limit, on the /v1 group.                                                *)
(***************************************************************************)

Trimmed_Never(k, t) == zset[k]

\* ZREMRANGEBYSCORE key 0 (t - window), on a key that may have expired
Trimmed(k, t) == IF second < expireAt[k] THEN {s \in zset[k] : s > t - Window} ELSE {}

HasRoom(k, t) == Cardinality(Trimmed(k, t)) < Limit

\* The Lua script, called with now = t.
Script(k, t) ==
  /\ zset' = [zset EXCEPT ![k] = Trimmed(k, t) \cup (IF HasRoom(k, t) THEN {t} ELSE {})]
  /\ expireAt' = [expireAt EXCEPT ![k] = IF HasRoom(k, t) THEN second + Window ELSE @]

\* The request read the clock at t.  It is passed on to its handler, or answered 429.
LimitRequest(q, t) ==
  /\ Script(KeyOf[q], t)
  /\ passed' = [passed EXCEPT ![KeyOf[q]] =
                 IF HasRoom(KeyOf[q], t) THEN Lesser(Limit, @) + 1 ELSE @]

\* Eval returns an error, the script having run or not: 500.
LimitFails(q, t) ==
  /\ Script(KeyOf[q], t) \/ UNCHANGED <<zset, expireAt>>
  /\ UNCHANGED passed

ServeLimit(q) ==
  /\ at[q] # NotWaiting
  /\ \E t \in at[q]..second : LimitRequest(q, t) \/ LimitFails(q, t)
  /\ at' = [at EXCEPT ![q] = NotWaiting]
  /\ UNCHANGED <<clocks, buckets>>

Next ==
  \/ Tick \/ Evict \/ Restart
  \/ \E q \in Conns : Admit(q) \/ AdmitUnlimited(q) \/ Deny(q) \/ ServeLimit(q)

Spec == Init /\ [][Next]_vars

-----------------------------------------------------------------------------
(***************************************************************************)
(* Type invariant of both limiters.                                        *)
(***************************************************************************)
TypeOK ==
  /\ now \in Nat /\ second \in Nat
  /\ clients \subseteq Clients
  /\ tokens \in [Clients -> 0..Burst]
  /\ lastSeen \in [Clients -> 0..now]
  /\ at \in [Conns -> NotWaiting..second]
  /\ zset \in [ApiKeys -> SUBSET (0..second)]
  /\ expireAt \in [ApiKeys -> Nat]
  /\ excess \in [Clients -> Nat]
  /\ passed \in [ApiKeys -> 0..(Limit + 1)]

(***************************************************************************)
(* "a strict quota of 5 requests per second with a burst allowance of 10": *)
(* between any two instants a process lets at most Burst requests of a     *)
(* client through, plus Rate for each unit of time between them, although  *)
(* the cleaner forgets its bucket now and then; each restart between the   *)
(* two instants adds one burst and no more.  `excess` is the largest       *)
(* number of requests let through since some earlier instant, less Rate    *)
(* for each unit of time and Burst for each restart since then.            *)
(***************************************************************************)
QuotaRespected == \A c \in Clients : excess[c] <= Burst

(***************************************************************************)
(* The sorted set of a key stays small however long and however fast the   *)
(* key is used, and with requests that reach Redis out of order: at most   *)
(* one member for each second of the window and of the lag.                *)
(***************************************************************************)
WindowBounded == \A k \in ApiKeys : Cardinality(zset[k]) <= Window + MaxLag

-----------------------------------------------------------------------------
(***************************************************************************)
(* rate_limiter.go: "Max 1000 requests per minute default", "the sliding   *)
(* window capacity is full! Block them."  The requests of a key that Limit *)
(* passes on within one second, and so within one window, are no more than *)
(* its limit.  The set holds one member for each second, not one for each  *)
(* request, and 60 seconds never make 1000 members.                        *)
(***************************************************************************)
LimitEnforced == \A k \in ApiKeys : passed[k] <= Limit
=============================================================================
