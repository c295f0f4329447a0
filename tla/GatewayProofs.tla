--------------------------- MODULE GatewayProofs ---------------------------
(***************************************************************************)
(* Proofs about Gateway, for any clients, keys, rates and bounds.          *)
(*                                                                         *)
(* Why forgetting a bucket gives nothing away: the tokens a client has and *)
(* its excess never add up to more than a burst, its excess shrinks by     *)
(* Rate in each unit of time it is silent, and so a client that is not in  *)
(* the map has no excess at all.                                           *)
(*                                                                         *)
(* Why the window stays small: the set of a key lies in an interval of     *)
(* Window + MaxLag seconds, because the script removed what was older than *)
(* its own reading of the clock, and nothing is newer than the clock.      *)
(***************************************************************************)
EXTENDS Gateway, FiniteSetTheorems, TLAPS

Balanced == \A c \in clients : tokens[c] + excess[c] <= Burst

Melting == \A c \in clients : excess[c] = 0 \/ excess[c] + Rate * (now - lastSeen[c]) <= Burst

Forgotten == \A c \in Clients \ clients : excess[c] = 0

QInv == Balanced /\ Melting /\ Forgotten

\* What a request that waits read, or will read, is not too old.
InTime == \A q \in Conns : at[q] = NotWaiting \/ second - at[q] <= MaxLag

Span(a) == a..(a + Window + MaxLag - 1)

Spanned == \A k \in ApiKeys : \E a \in Int : zset[k] \subseteq Span(a)

WInv == InTime /\ Spanned

IInv == TypeOK /\ QInv /\ WInv

-----------------------------------------------------------------------------
\* The quota.

LEMMA OneMoreUnit ==
  ASSUME NEW r \in Nat, NEW a \in Nat, NEW b \in 0..a
  PROVE  r * ((a + 1) - b) = r * (a - b) + r /\ r * (a - b) \in Nat
<1>1. a - b \in Nat /\ (a + 1) - b = (a - b) + 1
  OBVIOUS
<1>2. \A d \in Nat : r * (d + 1) = r * d + r /\ r * d \in Nat
  BY SMT
<1> QED
  BY <1>1, <1>2

LEMMA LongSilence ==
  ASSUME NEW d \in Nat, d > Idle
  PROVE  Rate * d > Burst
<1>1. \A x, y, r \in Nat : x > y /\ r # 0 => r * x > r * y
  BY SMT
<1> QED
  BY <1>1, GatewayAssumption

LEMMA TickQuota == TypeOK /\ QInv /\ Tick => QInv'
<1> SUFFICES ASSUME TypeOK, QInv, Tick PROVE QInv'
  OBVIOUS
<1> USE GatewayAssumption DEF QInv, Tick, Lesser, Greater
<1>1. Balanced'
  BY DEF TypeOK, Balanced
<1>2. Forgotten'
  BY DEF TypeOK, Forgotten
<1>3. ASSUME NEW c \in clients', excess'[c] # 0
      PROVE  excess'[c] + Rate * (now' - lastSeen'[c]) <= Burst
  <2>1. now \in Nat /\ lastSeen[c] \in 0..now /\ excess[c] \in Nat /\ c \in clients /\ c \in Clients
    BY DEF TypeOK
  <2>2. /\ Rate * ((now + 1) - lastSeen[c]) = Rate * (now - lastSeen[c]) + Rate
        /\ Rate * (now - lastSeen[c]) \in Nat
    BY <2>1, OneMoreUnit
  <2>3. excess'[c] = excess[c] - Rate /\ excess[c] # 0
    BY <1>3, <2>1
  <2>4. excess[c] + Rate * (now - lastSeen[c]) <= Burst
    BY <2>1, <2>3 DEF Melting
  <2> QED
    BY <2>1, <2>2, <2>3, <2>4 DEF TypeOK
<1>4. Melting'
  BY <1>3 DEF Melting
<1> QED
  BY <1>1, <1>2, <1>4

LEMMA RequestQuota ==
  ASSUME TypeOK, QInv, NEW c \in Clients, UNCHANGED now,
         Allow(c) \/ (Seen(c) /\ Bucket(c) < 1 /\ UNCHANGED <<tokens, excess>>)
  PROVE  /\ clients' \subseteq Clients /\ lastSeen' \in [Clients -> 0..now]
         /\ tokens' \in [Clients -> 0..Burst] /\ excess' \in [Clients -> Nat]
         /\ QInv'
<1> USE GatewayAssumption DEF QInv, Seen, Bucket
<1>1. /\ clients' \subseteq Clients /\ lastSeen' \in [Clients -> 0..now]
      /\ tokens' \in [Clients -> 0..Burst] /\ excess' \in [Clients -> Nat]
  BY DEF Allow, TypeOK
<1>2. Balanced'
  BY DEF Allow, TypeOK, Balanced, Forgotten
<1>3. Forgotten'
  BY DEF Allow, TypeOK, Forgotten
<1>4. \A d \in clients' : d # c => d \in clients /\ UNCHANGED <<excess[d], lastSeen[d], now>>
  BY DEF Allow, TypeOK
<1>5. Rate * (now' - lastSeen'[c]) = 0
  BY DEF Allow, TypeOK
<1>6. excess'[c] <= Burst /\ excess'[c] \in Nat
  <2>1. c \in clients' /\ Burst \in Nat
    BY DEF Allow, TypeOK
  <2>2. tokens'[c] \in Nat /\ excess'[c] \in Nat
    BY <1>1
  <2>3. tokens'[c] + excess'[c] <= Burst
    BY <1>2, <2>1 DEF Balanced
  <2> QED
    BY <2>1, <2>2, <2>3
<1>7. Melting'
  <2> DEFINE Melts(d) == excess[d] = 0 \/ excess[d] + Rate * (now - lastSeen[d]) <= Burst
  <2>1. \A d \in clients : Melts(d)
    BY DEF Melting
  <2>2. ASSUME NEW d \in clients', d # c PROVE Melts(d)'
    BY <1>4, <2>1, <2>2
  <2>3. Melts(c)'
    BY <1>5, <1>6
  <2>4. \A d \in clients' : Melts(d)'
    BY <2>2, <2>3
  <2> QED
    BY <2>4 DEF Melting
<1> QED
  BY <1>1, <1>2, <1>3, <1>7

LEMMA ForgetQuota ==
  ASSUME TypeOK, QInv, Evict \/ Restart
  PROVE  QInv'
<1> USE GatewayAssumption DEF QInv
<1>1. CASE Evict
  <2> USE <1>1 DEF Evict
  <2>1. Balanced'
    BY DEF TypeOK, Balanced
  <2>2. Melting'
    <3> DEFINE Melts(c) == excess[c] = 0 \/ excess[c] + Rate * (now - lastSeen[c]) <= Burst
    <3>1. clients' \subseteq clients /\ UNCHANGED <<excess, now, lastSeen>>
      BY DEF clocks
    <3>2. \A c \in clients : Melts(c)
      BY DEF Melting
    <3>3. \A c \in clients : Melts(c)'
      BY <3>1, <3>2
    <3> QED
      BY <3>1, <3>3 DEF Melting
  <2>3. ASSUME NEW c \in clients, Stale(c)
        PROVE  excess[c] = 0
    <3>1. now - lastSeen[c] \in Nat /\ now - lastSeen[c] > Idle /\ excess[c] \in Nat
      BY <2>3 DEF TypeOK, Stale
    <3>2. Rate * (now - lastSeen[c]) > Burst
      BY <3>1, LongSilence
    <3>3. Rate * (now - lastSeen[c]) \in Nat
      BY <3>1
    <3>4. excess[c] = 0 \/ excess[c] + Rate * (now - lastSeen[c]) <= Burst
      BY <2>3 DEF Melting
    <3> HIDE DEF QInv
    <3> QED
      BY <3>1, <3>2, <3>3, <3>4
  <2>4. Forgotten'
    BY <2>3 DEF TypeOK, Forgotten
  <2> QED
    BY <2>1, <2>2, <2>4
<1>2. CASE Restart
  <2>1. \A c \in Clients : excess[c] \in Nat /\ excess[c] <= Burst
    BY DEF TypeOK, Balanced, Forgotten
  <2>2. \A c \in Clients : excess'[c] = 0
    BY <1>2, <2>1 DEF Restart, Greater
  <2> QED
    BY <1>2, <2>2 DEF Restart, Balanced, Melting, Forgotten
<1> QED
  BY <1>1, <1>2

-----------------------------------------------------------------------------
\* The window.

LEMMA SpanSize ==
  ASSUME NEW a \in Int, NEW S \in SUBSET Span(a)
  PROVE  IsFiniteSet(S) /\ Cardinality(S) \in Nat /\ Cardinality(S) <= Window + MaxLag
<1> DEFINE b == a + Window + MaxLag - 1
<1>1. b \in Int /\ a <= b /\ b - a + 1 = Window + MaxLag
  BY GatewayAssumption
<1>2. IsFiniteSet(a..b) /\ Cardinality(a..b) = b - a + 1
  BY <1>1, FS_Interval
<1>3. S \subseteq a..b
  BY DEF Span
<1>4. IsFiniteSet(S) /\ Cardinality(S) <= Cardinality(a..b)
  BY <1>2, <1>3, FS_Subset
<1>5. Cardinality(S) \in Nat
  BY <1>4, FS_CardinalityType
<1> QED
  BY <1>1, <1>2, <1>4, <1>5

\* What the script leaves of the set, before and after it adds its reading.
LEMMA TrimmedSpan ==
  ASSUME TypeOK, InTime, NEW q \in Conns, at[q] # NotWaiting, NEW t \in at[q]..second
  PROVE  /\ t \in 0..second /\ t - Window + 1 \in Int
         /\ Trimmed(KeyOf[q], t) \cup {t} \subseteq 0..second
         /\ Trimmed(KeyOf[q], t) \cup {t} \subseteq Span(t - Window + 1)
<1>1. t \in 0..second /\ second - t <= MaxLag /\ KeyOf[q] \in ApiKeys
  BY GatewayAssumption DEF TypeOK, InTime, NotWaiting
<1>2. zset[KeyOf[q]] \subseteq 0..second
  BY <1>1 DEF TypeOK
<1> QED
  BY <1>1, <1>2, GatewayAssumption DEF TypeOK, Trimmed, Span

LEMMA ScriptStep ==
  ASSUME TypeOK, WInv, NEW q \in Conns, at[q] # NotWaiting, NEW t \in at[q]..second,
         Script(KeyOf[q], t), UNCHANGED second
  PROVE  /\ zset' \in [ApiKeys -> SUBSET (0..second)]
         /\ expireAt' \in [ApiKeys -> Nat]
         /\ Spanned'
<1> DEFINE k == KeyOf[q]
<1>0. k \in ApiKeys /\ InTime /\ Spanned
  BY GatewayAssumption DEF WInv
<1>1. zset'[k] \subseteq Trimmed(k, t) \cup {t} /\ \A j \in ApiKeys \ {k} : zset'[j] = zset[j]
  BY <1>0 DEF Script, TypeOK
<1>2. zset'[k] \subseteq 0..second /\ zset'[k] \subseteq Span(t - Window + 1) /\ t - Window + 1 \in Int
  BY <1>0, <1>1, TrimmedSpan
<1>3. zset' \in [ApiKeys -> SUBSET (0..second)]
  <2>1. zset' = [zset EXCEPT ![k] = zset'[k]] /\ zset \in [ApiKeys -> SUBSET (0..second)]
    BY <1>0 DEF Script, TypeOK
  <2>2. zset'[k] \in SUBSET (0..second)
    BY <1>2
  <2> QED
    BY <2>1, <2>2
<1>4. expireAt' \in [ApiKeys -> Nat]
  <2>1. second + Window \in Nat /\ expireAt[k] \in Nat
    BY <1>0, GatewayAssumption DEF TypeOK
  <2> QED
    BY <2>1 DEF Script, TypeOK
<1>5. Spanned'
  BY <1>0, <1>1, <1>2 DEF Spanned, Span
<1> QED
  BY <1>3, <1>4, <1>5

LEMMA ServeIInv == ASSUME IInv, NEW q \in Conns, ServeLimit(q) PROVE IInv'
<1> USE GatewayAssumption DEF IInv, clocks, buckets
<1>1. PICK t \in at[q]..second : LimitRequest(q, t) \/ LimitFails(q, t)
  BY DEF ServeLimit
<1>2. /\ zset' \in [ApiKeys -> SUBSET (0..second)] /\ expireAt' \in [ApiKeys -> Nat]
      /\ Spanned'
  <2>1. CASE Script(KeyOf[q], t)
    BY <2>1, ScriptStep DEF ServeLimit
  <2>2. CASE UNCHANGED <<zset, expireAt>>
    BY <2>2 DEF TypeOK, WInv, Spanned, Span
  <2> QED
    BY <1>1, <2>1, <2>2 DEF LimitRequest, LimitFails
<1>3. passed' \in [ApiKeys -> 0..(Limit + 1)]
  BY <1>1 DEF LimitRequest, LimitFails, TypeOK, Lesser
<1>4. at' \in [Conns -> NotWaiting..second] /\ InTime'
  BY DEF ServeLimit, TypeOK, WInv, InTime, NotWaiting
<1>5. TypeOK'
  BY <1>2, <1>3, <1>4 DEF ServeLimit, TypeOK
<1>6. QInv'
  BY DEF ServeLimit, QInv, Balanced, Melting, Forgotten
<1> QED
  BY <1>2, <1>3, <1>4, <1>5, <1>6 DEF WInv

-----------------------------------------------------------------------------
LEMMA InitIInv == Init => IInv
<1> SUFFICES ASSUME Init PROVE IInv
  OBVIOUS
<1>1. TypeOK
  BY GatewayAssumption DEF Init, TypeOK, NotWaiting
<1>2. QInv
  BY GatewayAssumption DEF Init, QInv, Balanced, Melting, Forgotten
<1>3. WInv
  BY DEF Init, WInv, InTime, Spanned
<1> QED
  BY <1>1, <1>2, <1>3 DEF IInv

LEMMA NextIInv == IInv /\ [Next]_vars => IInv'
<1> SUFFICES ASSUME IInv, [Next]_vars PROVE IInv'
  OBVIOUS
<1> USE GatewayAssumption DEF IInv, clocks, buckets, windows
<1>1. CASE Tick
  <2>1. TypeOK'
    <3>1. now' \in Nat /\ second' \in Nat /\ second' >= second
      BY <1>1 DEF Tick, TypeOK
    <3>2. tokens' \in [Clients -> 0..Burst] /\ excess' \in [Clients -> Nat]
      BY <1>1 DEF Tick, TypeOK, Lesser, Greater
    <3>3. lastSeen' \in [Clients -> 0..now'] /\ at' \in [Conns -> NotWaiting..second']
      BY <1>1, <3>1 DEF Tick, TypeOK, NotWaiting
    <3>4. zset' \in [ApiKeys -> SUBSET (0..second')]
      BY <1>1, <3>1 DEF Tick, TypeOK
    <3> QED
      BY <1>1, <3>1, <3>2, <3>3, <3>4 DEF Tick, TypeOK
  <2>2. QInv'
    BY <1>1, TickQuota
  <2>3. WInv'
    BY <1>1 DEF Tick, WInv, InTime, Spanned, Span
  <2> QED
    BY <2>1, <2>2, <2>3
<1>2. CASE Evict \/ Restart
  <2>1. QInv'
    BY <1>2, ForgetQuota
  <2>2. TypeOK'
    BY <1>2 DEF Evict, Restart, TypeOK, NotWaiting, Greater
  <2>3. WInv'
    BY <1>2 DEF Evict, Restart, WInv, InTime, Spanned, Span
  <2> QED
    BY <2>1, <2>2, <2>3
<1>3. ASSUME NEW q \in Conns, Admit(q) \/ AdmitUnlimited(q) \/ Deny(q) PROVE IInv'
  <2>1. AddressOf[q] \in Clients
    OBVIOUS
  <2>2. /\ clients' \subseteq Clients /\ lastSeen' \in [Clients -> 0..now]
        /\ tokens' \in [Clients -> 0..Burst] /\ excess' \in [Clients -> Nat]
        /\ QInv'
    BY <1>3, <2>1, RequestQuota DEF Admit, AdmitUnlimited, Deny
  <2>3. at' \in [Conns -> NotWaiting..second] /\ InTime'
    BY <1>3 DEF Admit, AdmitUnlimited, Deny, TypeOK, WInv, InTime, NotWaiting
  <2>4. UNCHANGED <<now, second, zset, expireAt, passed>>
    BY <1>3 DEF Admit, AdmitUnlimited, Deny
  <2> QED
    BY <2>2, <2>3, <2>4 DEF TypeOK, WInv, Spanned, Span
<1>4. ASSUME NEW q \in Conns, ServeLimit(q) PROVE IInv'
  BY <1>4, ServeIInv
<1>5. CASE UNCHANGED vars
  BY <1>5 DEF vars, TypeOK, QInv, Balanced, Melting, Forgotten, WInv, InTime, Spanned, Span
<1> QED
  BY <1>1, <1>2, <1>3, <1>4, <1>5 DEF Next

LEMMA Invariant == Spec => []IInv
BY InitIInv, NextIInv, PTL DEF Spec

\* Both limiters keep their types, for any clients, connections and keys.
THEOREM TypeCorrect == Spec => []TypeOK
BY Invariant, PTL DEF IInv

(***************************************************************************)
(* For every rate, burst and number of clients, and every interleaving of  *)
(* requests with the cleaner, no client gets more than its quota and one   *)
(* burst for each restart in between, provided a bucket fills up before    *)
(* its client is forgotten (10 <= 5 * 180).                                *)
(***************************************************************************)
THEOREM QuotaHolds == Spec => []QuotaRespected
<1>1. IInv => QuotaRespected
  BY GatewayAssumption DEF IInv, QInv, TypeOK, Balanced, Forgotten, QuotaRespected
<1> QED
  BY <1>1, Invariant, PTL

(***************************************************************************)
(* For every window, limit, lag and number of requests, the sorted set of  *)
(* a key has at most Window + MaxLag members.                              *)
(***************************************************************************)
THEOREM WindowStaysSmall == Spec => []WindowBounded
<1>1. IInv => WindowBounded
  BY SpanSize DEF IInv, WInv, Spanned, WindowBounded
<1> QED
  BY <1>1, Invariant, PTL
=============================================================================
