--------------------------- MODULE ChargeApiProofs ---------------------------
(***************************************************************************)
(* Proofs about ChargeApi, for any requests, users, keys and faults.       *)
(*                                                                         *)
(* Mutual exclusion follows from: a holder whose TTL has not run out still *)
(* finds its own token in Redis.  That a retry is safe follows from two    *)
(* facts that hold while no harmful fault has happened: an ended request   *)
(* that charged has left its answer in the cache, and a request that got   *)
(* past the cache lookup has no charged predecessor under its key.         *)
(***************************************************************************)
EXTENDS ChargeApi, TLAPS

HolderKeepsLock ==
  \A r \in Requests : InSection(r) /\ r \notin expired => lock[req[r].user] = r

NotYetCharged == {"idle", "get", "handler", "charge"}

\* What a request has done by the place it has reached.
Progress ==
  \A r \in Requests :
    /\ pc[r] \in NotYetCharged => r \notin charged /\ answer[r].code = "none"
    /\ pc[r] \in {"release", "store"} /\ answer[r].code = "200" => r \in charged
    /\ pc[r] = "store" => answer[r].code = "200" /\ IdemKey(r) # None
    /\ pc[r] = "get" => IdemKey(r) # None

\* Saved answers are answers to committed charges of the same key.
CacheTrue ==
  \A k \in Keys : cache[k] # None => cache[k] \in charged /\ IdemKey(cache[k]) = k

Ended(r) == pc[r] \in {"done", "dead"}

\* The history variables record what they are meant to.
HistoryTrue ==
  /\ gone # {} => "disconnect" \in trouble
  /\ \A r \in Requests : pc[r] = "dead" => "crash" \in trouble
  /\ \A r \in charged : answer[r].code # "200" => "commitLost" \in trouble
  /\ \A s \in Requests : \A r \in before[s] : Ended(r)

Harmless == trouble \subseteq {"redisLock"}

\* While no harmful fault has happened, charges that ended are in the cache.
SavedWhenEnded ==
  Harmless => \A r \in charged : Ended(r) /\ IdemKey(r) # None => cache[IdemKey(r)] # None

\* And whoever is past the lookup has no charged predecessor.
NoChargedPredecessor ==
  Harmless =>
    \A s \in Requests : \A r \in before[s] :
      /\ IdemKey(r) # None /\ IdemKey(r) = IdemKey(s) /\ r \in charged
      /\ pc[s] \notin {"idle", "get"}
      => Ended(s) /\ s \notin charged

IInv == /\ TypeOK
        /\ HolderKeepsLock
        /\ Progress /\ CacheTrue /\ TruthfulAnswer
        /\ HistoryTrue
        /\ SavedWhenEnded /\ NoChargedPredecessor

-----------------------------------------------------------------------------

LEMMA KeyType ==
  ASSUME TypeOK, NEW r \in Requests
  PROVE  /\ IdemKey(r) \in Keys \cup {None} /\ req[r].user \in Users
         /\ IdemKey(r) # None => IdemKey(r) \in Keys
BY DEF TypeOK, IdemKey

LEMMA ReplyType ==
  ASSUME answer \in [Requests -> Answers], NEW r \in Requests,
         NEW c \in {"200", "400", "409", "422", "500"}, NEW p \in Requests \cup {None}, Reply(r, c, p)
  PROVE  answer' \in [Requests -> Answers]
<1>1. [code |-> c, payment |-> p] \in Answers
  BY DEF Answers
<1> QED BY <1>1 DEF Reply

\* No step changes what a request carries.
LEMMA ReqConstant == [Next]_vars => UNCHANGED req
BY DEF Next, vars, Step, Arrive, IdemGet, IdemGetFails, Reject, AcquireLock, AcquireLockFails,
   ProcessCharge, ReleaseLock, ReleaseLockFails, IdemSet, IdemSetFails, Disconnect, Crash,
   LockExpire, CacheExpire

LEMMA TypeInductive ==
  ASSUME TypeOK, Progress, [Next]_vars
  PROVE  TypeOK'
<1> USE ChargeApiAssumption DEF TypeOK, Goto, Fault, CallFails, history
<1>1. ASSUME NEW r \in Requests, Arrive(r) PROVE TypeOK'
  BY <1>1 DEF Arrive
<1>2. ASSUME NEW r \in Requests, IdemGet(r) PROVE TypeOK'
  <2>1. IdemKey(r) \in Keys
    BY <1>2, KeyType DEF IdemGet, Progress
  <2>2. answer' \in [Requests -> Answers]
    BY <1>2, <2>1, ReplyType DEF IdemGet
  <2> QED BY <1>2, <2>2 DEF IdemGet
<1>3. ASSUME NEW r \in Requests, IdemGetFails(r) PROVE TypeOK'
  BY <1>3 DEF IdemGetFails
<1>4. ASSUME NEW r \in Requests, Reject(r) PROVE TypeOK'
  <2>1. answer' \in [Requests -> Answers]
    BY <1>4, ReplyType DEF Reject
  <2> QED BY <1>4, <2>1 DEF Reject
<1>5. ASSUME NEW r \in Requests, AcquireLock(r) PROVE TypeOK'
  <2>1. answer' \in [Requests -> Answers]
    BY <1>5, ReplyType DEF AcquireLock
  <2>2. req[r].user \in Users
    BY KeyType
  <2>3. lock' \in [Users -> Requests \cup {None}]
    <3> HIDE DEF TypeOK
    <3>1. lock \in [Users -> Requests \cup {None}]
      BY DEF TypeOK
    <3> QED BY <1>5, <2>2, <3>1 DEF AcquireLock
  <2>4. pc' \in [Requests -> {"idle", "get", "handler", "charge", "release", "store", "done", "dead"}]
    BY <1>5 DEF AcquireLock
  <2> QED BY <1>5, <2>1, <2>3, <2>4 DEF AcquireLock
<1>6. ASSUME NEW r \in Requests, AcquireLockFails(r) PROVE TypeOK'
  <2>1. answer' \in [Requests -> Answers]
    BY <1>6, ReplyType DEF AcquireLockFails
  <2>2. req[r].user \in Users
    BY KeyType
  <2>3. lock' \in [Users -> Requests \cup {None}]
    <3> HIDE DEF TypeOK
    <3>1. lock \in [Users -> Requests \cup {None}]
      BY DEF TypeOK
    <3> QED BY <1>6, <2>2, <3>1 DEF AcquireLockFails
  <2>4. pc' \in [Requests -> {"idle", "get", "handler", "charge", "release", "store", "done", "dead"}]
    BY <1>6 DEF AcquireLockFails
  <2> QED BY <1>6, <2>1, <2>3, <2>4 DEF AcquireLockFails
<1>7. ASSUME NEW r \in Requests, ProcessCharge(r) PROVE TypeOK'
  <2>1. answer' \in [Requests -> Answers]
    BY <1>7, ReplyType DEF ProcessCharge
  <2> QED BY <1>7, <2>1 DEF ProcessCharge
<1>8. ASSUME NEW r \in Requests, ReleaseLock(r) \/ ReleaseLockFails(r) PROVE TypeOK'
  BY <1>8 DEF ReleaseLock, ReleaseLockFails, AfterHandler
<1>9. ASSUME NEW r \in Requests, IdemSet(r) \/ IdemSetFails(r) PROVE TypeOK'
  <2>1. cache' \in [Keys -> Requests \cup {None}]
    <3> HIDE DEF TypeOK
    <3>1. cache \in [Keys -> Requests \cup {None}]
      BY DEF TypeOK
    <3> QED BY <1>9, <3>1 DEF IdemSet, IdemSetFails
  <2>2. pc' \in [Requests -> {"idle", "get", "handler", "charge", "release", "store", "done", "dead"}]
    BY <1>9 DEF IdemSet, IdemSetFails
  <2> QED BY <1>9, <2>1, <2>2 DEF IdemSet, IdemSetFails
<1>10. ASSUME NEW r \in Requests, Disconnect(r) \/ Crash(r) PROVE TypeOK'
  BY <1>10 DEF Disconnect, Crash
<1>11. ASSUME NEW u \in Users, LockExpire(u) PROVE TypeOK'
  BY <1>11 DEF LockExpire
<1>12. ASSUME NEW k \in Keys, CacheExpire(k) PROVE TypeOK'
  BY <1>12 DEF CacheExpire
<1>13. CASE UNCHANGED vars
  BY <1>13 DEF vars
<1> QED BY <1>1, <1>2, <1>3, <1>4, <1>5, <1>6, <1>7, <1>8, <1>9, <1>10, <1>11, <1>12, <1>13
        DEF Next, Step

LEMMA LockInductive ==
  ASSUME TypeOK, HolderKeepsLock, [Next]_vars
  PROVE  HolderKeepsLock'
<1> USE ChargeApiAssumption DEF TypeOK, HolderKeepsLock, InSection, Goto, history
<1>1. ASSUME NEW r \in Requests,
             Arrive(r) \/ IdemGet(r) \/ IdemGetFails(r) \/ Reject(r) \/ ProcessCharge(r)
               \/ ReleaseLockFails(r) \/ IdemSet(r) \/ IdemSetFails(r) \/ Disconnect(r) \/ Crash(r)
      PROVE  HolderKeepsLock'
  BY <1>1 DEF Arrive, IdemGet, IdemGetFails, Reject, ProcessCharge, ReleaseLockFails, IdemSet,
     IdemSetFails, Disconnect, Crash, AfterHandler
<1>2. ASSUME NEW r \in Requests, AcquireLock(r) PROVE HolderKeepsLock'
  BY <1>2 DEF AcquireLock
<1>3. ASSUME NEW r \in Requests, AcquireLockFails(r) PROVE HolderKeepsLock'
  BY <1>3 DEF AcquireLockFails
<1>4. ASSUME NEW r \in Requests, ReleaseLock(r) PROVE HolderKeepsLock'
  BY <1>4 DEF ReleaseLock, AfterHandler
<1>5. ASSUME NEW u \in Users, LockExpire(u) PROVE HolderKeepsLock'
  BY <1>5 DEF LockExpire
<1>6. ASSUME NEW k \in Keys, CacheExpire(k) PROVE HolderKeepsLock'
  BY <1>6 DEF CacheExpire
<1>7. CASE UNCHANGED vars
  BY <1>7 DEF vars
<1> QED BY <1>1, <1>2, <1>3, <1>4, <1>5, <1>6, <1>7 DEF Next, Step

LEMMA KeyConstant == [Next]_vars => \A r \in Requests : IdemKey(r)' = IdemKey(r)
BY ReqConstant DEF IdemKey

LEMMA ProgressInductive ==
  ASSUME TypeOK, Progress, [Next]_vars
  PROVE  Progress'
<1> USE ChargeApiAssumption DEF TypeOK, Progress, NotYetCharged, Goto, Reply, Fault, CallFails, history, InFlight
<1>0. \A r \in Requests : IdemKey(r)' = IdemKey(r)
  BY KeyConstant
<1>1. ASSUME NEW r \in Requests, Arrive(r) PROVE Progress'
  BY <1>0, <1>1 DEF Arrive
<1>2. ASSUME NEW r \in Requests, IdemGet(r) PROVE Progress'
  BY <1>0, <1>2 DEF IdemGet
<1>3. ASSUME NEW r \in Requests, IdemGetFails(r) PROVE Progress'
  BY <1>0, <1>3 DEF IdemGetFails
<1>4. ASSUME NEW r \in Requests, Reject(r) PROVE Progress'
  BY <1>0, <1>4 DEF Reject
<1>5. ASSUME NEW r \in Requests, AcquireLock(r) PROVE Progress'
  BY <1>0, <1>5 DEF AcquireLock
<1>6. ASSUME NEW r \in Requests, AcquireLockFails(r) PROVE Progress'
  BY <1>0, <1>6 DEF AcquireLockFails
<1>7. ASSUME NEW r \in Requests, ProcessCharge(r) PROVE Progress'
  BY <1>0, <1>7 DEF ProcessCharge
<1>8. ASSUME NEW r \in Requests, ReleaseLock(r) \/ ReleaseLockFails(r) PROVE Progress'
  BY <1>0, <1>8 DEF ReleaseLock, ReleaseLockFails, AfterHandler
<1>9. ASSUME NEW r \in Requests, IdemSet(r) PROVE Progress'
  BY <1>0, <1>9 DEF IdemSet
<1>10. ASSUME NEW r \in Requests, IdemSetFails(r) PROVE Progress'
  BY <1>0, <1>10 DEF IdemSetFails
<1>11. ASSUME NEW r \in Requests, Disconnect(r) PROVE Progress'
  BY <1>0, <1>11 DEF Disconnect
<1>12. ASSUME NEW r \in Requests, Crash(r) PROVE Progress'
  BY <1>0, <1>12 DEF Crash
<1>13. ASSUME NEW u \in Users, LockExpire(u) PROVE Progress'
  BY <1>0, <1>13 DEF LockExpire
<1>14. ASSUME NEW k \in Keys, CacheExpire(k) PROVE Progress'
  BY <1>0, <1>14 DEF CacheExpire
<1>15. CASE UNCHANGED vars
  BY <1>0, <1>15 DEF vars
<1> QED BY <1>1, <1>2, <1>3, <1>4, <1>5, <1>6, <1>7, <1>8, <1>9, <1>10, <1>11, <1>12, <1>13, <1>14,
           <1>15 DEF Next, Step

\* What the steps other than the ones named leave alone.
LEMMA Frame ==
  ASSUME TypeOK, [Next]_vars
  PROVE  /\ UNCHANGED charged \/ \E r \in Requests : ProcessCharge(r)
         /\ UNCHANGED cache \/ (\E r \in Requests : IdemSet(r)) \/ (\E k \in Keys : CacheExpire(k))
         /\ UNCHANGED before \/ \E r \in Requests : Arrive(r)
         /\ UNCHANGED gone \/ \E r \in Requests : Disconnect(r)
         /\ trouble \subseteq trouble'
         /\ charged \subseteq charged'
BY DEF Next, vars, Step, Arrive, IdemGet, IdemGetFails, Reject, AcquireLock, AcquireLockFails,
   ProcessCharge, ReleaseLock, ReleaseLockFails, IdemSet, IdemSetFails, Disconnect, Crash,
   LockExpire, CacheExpire, history, Fault, CallFails

LEMMA CacheInductive ==
  ASSUME TypeOK, Progress, CacheTrue, [Next]_vars
  PROVE  CacheTrue'
<1>1. (\A r \in Requests : IdemKey(r)' = IdemKey(r)) /\ charged \subseteq charged'
  BY KeyConstant, Frame
<1>2. ASSUME NEW r \in Requests, IdemSet(r) PROVE CacheTrue'
  <2>1. r \in charged /\ IdemKey(r) # None
    BY <1>2 DEF IdemSet, Goto, Progress
  <2>2. \A k \in Keys : cache'[k] = IF k = IdemKey(r) THEN r ELSE cache[k]
    BY <1>2 DEF IdemSet, TypeOK
  <2> QED BY <1>1, <2>1, <2>2 DEF CacheTrue, TypeOK
<1>3. ASSUME NEW k \in Keys, CacheExpire(k) PROVE CacheTrue'
  BY <1>1, <1>3 DEF CacheExpire, CacheTrue, TypeOK
<1>4. CASE UNCHANGED cache
  BY <1>1, <1>4 DEF CacheTrue, TypeOK
<1> QED BY <1>2, <1>3, <1>4, Frame

\* A 200 is written by IdemGet, from the cache, or by ProcessCharge, after COMMIT.
LEMMA AnswerFrame ==
  ASSUME TypeOK, [Next]_vars, NEW s \in Requests, answer'[s].code = "200"
  PROVE  answer'[s] = answer[s] \/ IdemGet(s) \/ ProcessCharge(s)
BY DEF TypeOK, Next, vars, Step, Arrive, IdemGet, IdemGetFails, Reject, AcquireLock, AcquireLockFails,
   ProcessCharge, ReleaseLock, ReleaseLockFails, IdemSet, IdemSetFails, Disconnect, Crash,
   LockExpire, CacheExpire, history, Reply

LEMMA AnswerInductive ==
  ASSUME TypeOK, Progress, CacheTrue, TruthfulAnswer, [Next]_vars
  PROVE  TruthfulAnswer'
<1> DEFINE Truth(s, p) == p \in charged' /\ (p # s => IdemKey(p) = IdemKey(s) /\ IdemKey(s) # None)
<1>1. UNCHANGED req /\ charged \subseteq charged'
  BY ReqConstant, Frame
<1>2. ASSUME NEW s \in Requests, answer'[s].code = "200" PROVE Truth(s, answer'[s].payment)
  <2>1. CASE answer'[s] = answer[s]
    BY <1>1, <1>2, <2>1 DEF TruthfulAnswer
  <2>2. CASE IdemGet(s) /\ answer'[s] # answer[s]
    <3>1. IdemKey(s) \in Keys /\ IdemKey(s) # None
      BY <2>2, KeyType DEF IdemGet, Progress
    <3>2. cache[IdemKey(s)] # None /\ answer'[s].payment = cache[IdemKey(s)]
      BY <2>2 DEF IdemGet, Reply, TypeOK
    <3>3. cache[IdemKey(s)] \in charged /\ IdemKey(cache[IdemKey(s)]) = IdemKey(s)
      BY <3>1, <3>2 DEF CacheTrue
    <3> QED BY <1>1, <3>1, <3>2, <3>3
  <2>3. CASE ProcessCharge(s)
    <3>1. answer'[s].payment = s /\ s \in charged'
      BY <1>2, <2>3 DEF ProcessCharge, Reply, TypeOK
    <3> QED BY <3>1
  <2> QED BY <1>2, <2>1, <2>2, <2>3, AnswerFrame
<1> QED BY <1>1, <1>2 DEF TruthfulAnswer, IdemKey

\* How a request ends, and that it stays ended.
LEMMA EndFrame ==
  ASSUME TypeOK, [Next]_vars, NEW s \in Requests
  PROVE  /\ Ended(s) => pc'[s] = pc[s] /\ answer'[s] = answer[s]
         /\ pc'[s] = "dead" => pc[s] = "dead" \/ Crash(s)
         /\ pc'[s] = "done" => \/ pc[s] \in {"done", "get", "handler"}
                               \/ ReleaseLock(s) \/ ReleaseLockFails(s)
                               \/ IdemSet(s) \/ IdemSetFails(s)
         /\ s \in charged' /\ answer'[s] # answer[s] => pc[s] \in NotYetCharged
BY DEF TypeOK, Next, vars, Step, Arrive, IdemGet, IdemGetFails, Reject, AcquireLock, AcquireLockFails,
   ProcessCharge, ReleaseLock, ReleaseLockFails, AfterHandler, IdemSet, IdemSetFails, Disconnect,
   Crash, InFlight, LockExpire, CacheExpire, history, Reply, Goto, Ended, NotYetCharged

LEMMA HistoryInductive ==
  ASSUME TypeOK, Progress, HistoryTrue, [Next]_vars
  PROVE  HistoryTrue'
<1>1. gone' # {} => "disconnect" \in trouble'
  <2>1. CASE UNCHANGED gone
    BY <2>1, Frame DEF HistoryTrue
  <2>2. ASSUME NEW r \in Requests, Disconnect(r) PROVE "disconnect" \in trouble'
    BY <2>2 DEF Disconnect, Fault
  <2> QED BY <2>1, <2>2, Frame
<1>2. ASSUME NEW r \in Requests, pc'[r] = "dead" PROVE "crash" \in trouble'
  <2>1. CASE pc[r] = "dead"
    BY <2>1, Frame DEF HistoryTrue
  <2>2. CASE Crash(r)
    BY <2>2 DEF Crash, Fault
  <2> QED BY <1>2, <2>1, <2>2, EndFrame
<1>3. ASSUME NEW r \in charged', answer'[r].code # "200" PROVE "commitLost" \in trouble'
  <2>1. CASE r \in charged
    <3>1. answer'[r] = answer[r]
      BY <2>1, EndFrame, Frame DEF Progress, TypeOK
    <3> QED BY <1>3, <2>1, <3>1, Frame DEF HistoryTrue
  <2>2. CASE r \notin charged
    <3>1. PICK s \in Requests : ProcessCharge(s)
      BY <1>3, <2>2, Frame
    <3>2. s = r
      BY <1>3, <2>2, <3>1 DEF ProcessCharge
    <3> QED BY <1>3, <2>2, <3>1, <3>2 DEF ProcessCharge, Reply, Fault, TypeOK
  <2> QED BY <2>1, <2>2
<1>4. ASSUME NEW s \in Requests, NEW r \in before'[s] PROVE Ended(r)'
  <2>1. CASE UNCHANGED before
    <3>1. r \in Requests /\ Ended(r)
      BY <1>4, <2>1 DEF HistoryTrue, TypeOK
    <3> QED BY <3>1, EndFrame DEF Ended
  <2>2. ASSUME NEW q \in Requests, Arrive(q) PROVE Ended(r)'
    <3>1. r \in Requests /\ Ended(r)
      BY <1>4, <2>2 DEF Arrive, HistoryTrue, TypeOK, Ended
    <3> QED BY <3>1, EndFrame DEF Ended
  <2> QED BY <2>1, <2>2, Frame
<1> QED BY <1>1, <1>2, <1>3, <1>4 DEF HistoryTrue

\* While nothing harmful has happened, nothing harmful had happened before.
LEMMA HarmlessBefore ==
  ASSUME TypeOK, HistoryTrue, [Next]_vars, Harmless'
  PROVE  Harmless /\ gone = {} /\ "commitLost" \notin trouble /\ "crash" \notin trouble
BY Frame DEF Harmless, HistoryTrue

LEMMA SavedInductive ==
  ASSUME TypeOK, Progress, CacheTrue, HistoryTrue, SavedWhenEnded, [Next]_vars
  PROVE  SavedWhenEnded'
<1> SUFFICES ASSUME Harmless', NEW r \in charged', Ended(r)', IdemKey(r)' # None
             PROVE  cache'[IdemKey(r)'] # None
  BY DEF SavedWhenEnded
<1>1. Harmless /\ gone = {} /\ "commitLost" \notin trouble /\ "crash" \notin trouble
  BY HarmlessBefore
<1>2. "crash" \notin trouble' /\ "redisSet" \notin trouble' /\ "cacheExpiry" \notin trouble'
  BY DEF Harmless
<1>3. r \in Requests /\ IdemKey(r)' = IdemKey(r)
  <2>1. r \in Requests
    BY TypeInductive DEF TypeOK
  <2> QED BY <2>1, KeyConstant
<1>4. IdemKey(r) \in Keys
  BY <1>3, KeyType
<1>5. CASE Ended(r) /\ r \in charged
  <2>1. cache[IdemKey(r)] # None
    BY <1>1, <1>3, <1>5 DEF SavedWhenEnded
  <2>2. CASE UNCHANGED cache
    BY <1>3, <2>1, <2>2
  <2>3. ASSUME NEW q \in Requests, IdemSet(q) PROVE cache'[IdemKey(r)] # None
    BY <1>4, <2>1, <2>3, ChargeApiAssumption DEF IdemSet, TypeOK
  <2>4. ASSUME NEW k \in Keys, CacheExpire(k) PROVE FALSE
    BY <1>2, <2>4 DEF CacheExpire, Fault
  <2> QED BY <1>3, <2>2, <2>3, <2>4, Frame
<1>6. CASE ~Ended(r) \/ r \notin charged
  <2>1. r \in charged
    <3>1. ASSUME r \notin charged PROVE FALSE
      <4>1. PICK s \in Requests : ProcessCharge(s)
        BY <3>1, Frame
      <4>2. s = r
        BY <3>1, <4>1 DEF ProcessCharge
      <4> QED BY <4>1, <4>2 DEF ProcessCharge, Goto, Ended, TypeOK
    <3> QED BY <3>1
  <2>2. pc[r] \notin NotYetCharged /\ ~Ended(r)
    BY <1>3, <1>6, <2>1 DEF Progress
  <2>3. ~Crash(r) /\ pc[r] # "dead"
    BY <1>2, <2>2 DEF Crash, Fault, Ended
  <2>4. IdemSet(r) \/ IdemSetFails(r) \/ ReleaseLock(r) \/ ReleaseLockFails(r)
    BY <1>3, <2>2, <2>3, EndFrame DEF Ended, NotYetCharged
  <2>5. ~IdemSetFails(r)
    BY <1>1, <1>2 DEF IdemSetFails, CallFails, Fault
  <2>6. answer[r].code = "200"
    BY <1>1, <2>1 DEF HistoryTrue
  <2>7. ~ReleaseLock(r) /\ ~ReleaseLockFails(r)
    BY <1>3, <2>6 DEF ReleaseLock, ReleaseLockFails, AfterHandler, Goto, Ended, TypeOK
  <2>8. IdemSet(r)
    BY <2>4, <2>5, <2>7
  <2> QED BY <1>3, <1>4, <2>8, ChargeApiAssumption DEF IdemSet, TypeOK
<1> QED BY <1>5, <1>6

\* Who gets past the lookup, and who charges.
LEMMA PassFrame ==
  ASSUME TypeOK, [Next]_vars, NEW s \in Requests
  PROVE  /\ pc'[s] \notin {"idle", "get"} /\ pc[s] \in {"idle", "get"} =>
              Arrive(s) \/ IdemGet(s) \/ IdemGetFails(s) \/ Crash(s)
         /\ s \in charged' => s \in charged \/ pc[s] = "charge"
         /\ pc[s] # "idle" => before'[s] = before[s]
BY DEF TypeOK, Next, vars, Step, Arrive, IdemGet, IdemGetFails, Reject, AcquireLock, AcquireLockFails,
   ProcessCharge, ReleaseLock, ReleaseLockFails, AfterHandler, IdemSet, IdemSetFails, Disconnect,
   Crash, InFlight, LockExpire, CacheExpire, history, Goto

LEMMA PredecessorInductive ==
  ASSUME TypeOK, Progress, HistoryTrue, SavedWhenEnded, NoChargedPredecessor, [Next]_vars
  PROVE  NoChargedPredecessor'
<1> SUFFICES ASSUME Harmless', NEW s \in Requests, NEW r \in before'[s],
                    IdemKey(r)' # None, IdemKey(r)' = IdemKey(s)', r \in charged',
                    pc'[s] \notin {"idle", "get"}
             PROVE  Ended(s)' /\ s \notin charged'
  BY DEF NoChargedPredecessor
<1>1. Harmless /\ gone = {}
  BY HarmlessBefore
<1>2. ~Crash(s) /\ ~IdemGetFails(s)
  BY <1>1 DEF Harmless, Crash, IdemGetFails, CallFails, Fault
<1>3. r \in Requests
  BY TypeInductive DEF TypeOK
<1>4. IdemKey(r) # None /\ IdemKey(r) = IdemKey(s)
  BY <1>3, KeyConstant
<1>5. ~Arrive(s)
  BY <1>4 DEF Arrive, Goto, TypeOK
<1>6. pc[s] # "idle" /\ r \in before[s]
  <2>1. pc[s] # "idle"
    BY <1>2, <1>5, PassFrame DEF IdemGet
  <2> QED BY <2>1, PassFrame
<1>7. Ended(r) /\ r \in charged
  <2>1. Ended(r)
    BY <1>6 DEF HistoryTrue
  <2> QED BY <1>3, <2>1, PassFrame DEF Ended
<1>8. CASE pc[s] \notin {"idle", "get"}
  <2>1. Ended(s) /\ s \notin charged
    BY <1>1, <1>4, <1>6, <1>7, <1>8 DEF NoChargedPredecessor
  <2> QED BY <2>1, EndFrame, PassFrame DEF Ended
<1>9. CASE pc[s] = "get"
  <2>1. IdemGet(s)
    BY <1>2, <1>5, <1>9, PassFrame
  <2>2. cache[IdemKey(s)] # None
    BY <1>1, <1>4, <1>7 DEF SavedWhenEnded
  <2>3. pc'[s] = "done"
    BY <2>1, <2>2 DEF IdemGet, Goto, TypeOK
  <2>4. s \notin charged'
    BY <1>9, PassFrame DEF Progress, NotYetCharged
  <2> QED BY <2>3, <2>4 DEF Ended
<1> QED BY <1>6, <1>8, <1>9

-----------------------------------------------------------------------------
LEMMA InitIInv == Init => IInv
<1> SUFFICES ASSUME Init PROVE IInv
  OBVIOUS
<1>1. TypeOK
  BY ChargeApiAssumption DEF Init, TypeOK, Answers, NoAnswer
<1>2. Progress /\ TruthfulAnswer
  BY DEF Init, Progress, TruthfulAnswer, NotYetCharged, NoAnswer
<1>3. HolderKeepsLock /\ CacheTrue /\ HistoryTrue /\ SavedWhenEnded /\ NoChargedPredecessor
  BY DEF Init, HolderKeepsLock, InSection, CacheTrue, HistoryTrue, SavedWhenEnded,
     NoChargedPredecessor
<1> QED BY <1>1, <1>2, <1>3 DEF IInv

\* The invariant holds in every reachable state of the charge endpoint.
THEOREM Invariant == Spec => []IInv
<1>1. IInv /\ [Next]_vars => IInv'
  BY TypeInductive, LockInductive, ProgressInductive, CacheInductive, AnswerInductive,
     HistoryInductive, SavedInductive, PredecessorInductive DEF IInv
<1> QED BY <1>1, InitIInv, PTL DEF Spec

\* The handler, the cache and the lock always have their types.
THEOREM TypeCorrect == Spec => []TypeOK
BY Invariant, PTL DEF IInv

(***************************************************************************)
(* Two charges of one user overlap only where the TTL of AcquireLock ran   *)
(* out under one of them, for any number of requests and any faults.       *)
(***************************************************************************)
THEOREM Exclusion == Spec => []MutualExclusion
<1>1. IInv => MutualExclusion
  BY DEF IInv, HolderKeepsLock, MutualExclusion
<1> QED BY <1>1, Invariant, PTL

(***************************************************************************)
(* A 200, replayed by the idempotency middleware or not, always stands for *)
(* a committed charge of the same key, whatever faults happen.             *)
(***************************************************************************)
THEOREM AnswersAreTrue == Spec => []TruthfulAnswer
BY Invariant, PTL DEF IInv

(***************************************************************************)
(* A retry after the first attempt has ended never charges again, as long  *)
(* as no fault has lost or hidden the saved answer.                        *)
(***************************************************************************)
THEOREM RetriesAreSafe == Spec => []RetrySafe
<1>1. IInv => RetrySafe
  <2> SUFFICES ASSUME IInv, Harmless, NEW s \in Requests, NEW r \in before[s],
                      IdemKey(r) # None, IdemKey(r) = IdemKey(s), ChargedTwice(r, s)
               PROVE  FALSE
    BY DEF RetrySafe, Harmless
  <2>1. pc[s] \notin {"idle", "get"}
    BY DEF IInv, Progress, NotYetCharged, ChargedTwice
  <2> QED BY <2>1 DEF IInv, NoChargedPredecessor, ChargedTwice
<1> QED BY <1>1, Invariant, PTL

-----------------------------------------------------------------------------
(***************************************************************************)
(* No lock outlives its handler: whoever is in Redis under                 *)
(* "lock:payment:<user>" is a request of that user between AcquireLock and *)
(* ReleaseLock, unless the process died or a Redis call failed.  A client  *)
(* that goes away at any moment strands no lock, for ReleaseLock runs with *)
(* a context of its own.                                                   *)
(***************************************************************************)
NoStrandedLock ==
  \A u \in Users : lock[u] # None =>
    /\ req[lock[u]].user = u
    /\ InSection(lock[u]) \/ trouble \cap {"crash", "redisLock"} # {}

\* A lock is set by AcquireLock or by a call that failed, and goes with its holder.
LEMMA StrandedInductive ==
  ASSUME TypeOK, NoStrandedLock, [Next]_vars
  PROVE  NoStrandedLock'
<1> USE ChargeApiAssumption DEF TypeOK, NoStrandedLock, InSection, Goto, history
<1>0. UNCHANGED req /\ trouble \subseteq trouble'
  BY ReqConstant, Frame
<1>1. ASSUME NEW r \in Requests,
             Arrive(r) \/ IdemGet(r) \/ IdemGetFails(r) \/ Reject(r) \/ ProcessCharge(r)
               \/ IdemSet(r) \/ IdemSetFails(r) \/ Disconnect(r)
      PROVE  NoStrandedLock'
  <2>1. /\ lock' = lock
        /\ \A s \in Requests : InSection(s) => InSection(s)'
    BY <1>1 DEF Arrive, IdemGet, IdemGetFails, Reject, ProcessCharge, IdemSet, IdemSetFails, Disconnect
  <2> QED BY <1>0, <2>1
<1>2. ASSUME NEW r \in Requests, AcquireLock(r) PROVE NoStrandedLock'
  <2>1. \A s \in Requests : InSection(s) => InSection(s)'
    BY <1>2 DEF AcquireLock
  <2>2. CASE lock[req[r].user] = None
    <3>1. /\ lock' = [lock EXCEPT ![req[r].user] = r] /\ req[r].user \in Users /\ InSection(r)'
      BY <1>2, <2>2, KeyType DEF AcquireLock
    <3> QED BY <1>0, <2>1, <3>1
  <2>3. CASE lock' = lock
    BY <1>0, <2>1, <2>3
  <2> QED BY <1>2, <2>2, <2>3 DEF AcquireLock
<1>3. ASSUME NEW r \in Requests, AcquireLockFails(r) PROVE NoStrandedLock'
  BY <1>0, <1>3 DEF AcquireLockFails, CallFails, Fault
<1>4. ASSUME NEW r \in Requests, ReleaseLock(r) PROVE NoStrandedLock'
  BY <1>0, <1>4 DEF ReleaseLock, AfterHandler
<1>5. ASSUME NEW r \in Requests, ReleaseLockFails(r) \/ Crash(r) PROVE NoStrandedLock'
  BY <1>0, <1>5 DEF ReleaseLockFails, Crash, Fault
<1>6. ASSUME NEW u \in Users, LockExpire(u) PROVE NoStrandedLock'
  BY <1>0, <1>6 DEF LockExpire
<1>7. ASSUME NEW k \in Keys, CacheExpire(k) PROVE NoStrandedLock'
  BY <1>0, <1>7 DEF CacheExpire
<1>8. CASE UNCHANGED vars
  BY <1>0, <1>8 DEF vars
<1> QED BY <1>1, <1>2, <1>3, <1>4, <1>5, <1>6, <1>7, <1>8 DEF Next, Step

(***************************************************************************)
(* Whatever its clients do, CreateChargeHandler leaves no lock behind;     *)
(* only a crash or a failed call to Redis can.                             *)
(***************************************************************************)
THEOREM LocksComeBack == Spec => []NoStrandedLock
<1>1. Init => NoStrandedLock
  BY DEF Init, NoStrandedLock
<1>2. IInv /\ NoStrandedLock /\ [Next]_vars => NoStrandedLock'
  BY StrandedInductive DEF IInv
<1> QED BY <1>1, <1>2, Invariant, PTL DEF Spec
=============================================================================
