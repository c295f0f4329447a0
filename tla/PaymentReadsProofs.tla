------------------------- MODULE PaymentReadsProofs -------------------------
(***************************************************************************)
(* Proofs about PaymentReads, for any ids, page size and number of events. *)
(*                                                                         *)
(* The walk: while pages come, whatever was on the replica at the start    *)
(* and has not been shown lies below the cursor, and whatever has been     *)
(* shown does not.                                                         *)
(*                                                                         *)
(* The history: an event that shows up after a report either was missing   *)
(* then, or has a larger id than every event in that report.               *)
(***************************************************************************)
EXTENDS PaymentReads, TLAPS

WalkInv ==
  /\ walk = "idle" => cursor = Start /\ seen = {} /\ from = {}
  /\ walk = "pages" => /\ \A p \in seen : p >= cursor
                       /\ \A p \in from : p \in seen \/ p < cursor
  /\ NoRepeat /\ Complete

\* A row of a report is what the query computes from the events it saw.
ReportInv ==
  /\ \A x, y \in flying \cup events : x.id = y.id => x = y
  /\ \A a \in Accounts :
       /\ \A i \in DOMAIN report[a].rows : report[a].rows[i] = Row(report[a].base, i)
       /\ \A x \in flying \cup events :
            x.payment = a => \/ x.id \in report[a].base \cup report[a].missing
                             \/ \A j \in report[a].base : j < x.id

IInv == TypeOK /\ WalkInv /\ ReportInv /\ DOMAIN report = Accounts

-----------------------------------------------------------------------------
\* The walk.

LEMMA PageWalk ==
  ASSUME TypeOK, WalkInv, Page \/ PageCut
  PROVE  /\ WalkInv' /\ UNCHANGED <<payments, audit>>
         /\ walk' \in {"idle", "pages", "done", "cut"}
         /\ cursor' \in Ids \cup {Start}
         /\ seen' \subseteq replica /\ repeated' \subseteq seen' /\ from' \subseteq replica
<1> USE PaymentReadsAssumption
<1>1. replica \subseteq Ids /\ Ids \subseteq Nat /\ cursor \in Nat /\ Below \subseteq replica
  BY DEF TypeOK, Below
<1>2. /\ walk \in {"idle", "pages"}
      /\ \A p \in seen : p >= cursor
      /\ \A p \in (IF walk = "idle" THEN replica ELSE from) : p \in seen \/ p \in Below
  BY <1>1 DEF Page, PageCut, WalkInv, TypeOK, Below
<1>3. ASSUME NEW B \in SUBSET Below, Show(B)
      PROVE  /\ UNCHANGED <<payments, audit>> /\ NoRepeat'
             /\ seen' \subseteq replica /\ repeated' \subseteq seen' /\ from' \subseteq replica
  BY <1>1, <1>2, <1>3 DEF Show, TypeOK, WalkInv, NoRepeat, Below
<1>4. CASE PageCut
  <2>1. PICK C \in SUBSET Below : Show(C)
    BY <1>4 DEF PageCut
  <2>2. walk' = "cut" /\ cursor' = cursor
    BY <1>4 DEF PageCut
  <2> QED
    BY <1>3, <2>1, <2>2 DEF WalkInv, Complete, TypeOK
<1>5. CASE Page
  <2>1. PICK B \in SUBSET Below :
          /\ Highest(Below, B) /\ Show(B)
          /\ \/ Cardinality(B) = Limit /\ walk' = "pages" /\ cursor' \in {c \in B : \A b \in B : c <= b}
             \/ Cardinality(B) # Limit /\ walk' = "done" /\ UNCHANGED cursor
    BY <1>5 DEF Page
  <2>2. seen' = seen \cup B /\ from' = IF walk = "idle" THEN replica ELSE from
    BY <2>1 DEF Show
  <2>3. CASE Cardinality(B) = Limit
    <3>1. walk' = "pages" /\ cursor' \in B /\ \A b \in B : cursor' <= b
      BY <2>1, <2>3
    <3>2. \A p \in Below \ B : p < cursor'
      BY <2>1, <3>1 DEF Highest
    <3>3. \A p \in seen : p >= cursor'
      BY <1>1, <1>2, <3>1 DEF Below, TypeOK
    <3>4. \A p \in from' : p \in seen' \/ p < cursor'
      BY <1>2, <2>2, <3>2
    <3> QED
      BY <1>1, <1>3, <2>1, <2>2, <3>1, <3>3, <3>4 DEF WalkInv, Complete
  <2>4. CASE Cardinality(B) # Limit
    <3>1. walk' = "done" /\ cursor' = cursor /\ B = Below
      BY <2>1, <2>4 DEF Highest
    <3>2. from' \subseteq seen'
      BY <1>2, <2>2, <3>1
    <3> QED
      BY <1>3, <2>1, <3>1, <3>2 DEF WalkInv, Complete, TypeOK
  <2> QED
    BY <2>3, <2>4
<1> QED
  BY <1>4, <1>5

-----------------------------------------------------------------------------
\* The audit trail.

LEMMA LogType ==
  ASSUME TypeOK, ReportInv, DOMAIN report = Accounts, NEW a \in Accounts, LogEvent(a)
  PROVE  TypeOK' /\ ReportInv'
<1> DEFINE e == [id |-> nextId, payment |-> a]
<1>1. /\ flying' = flying \cup {e} /\ nextId' = nextId + 1 /\ nextId \in Nat \ {0}
      /\ UNCHANGED <<payments, client, events, copied, report>>
  BY DEF LogEvent, TypeOK
<1>2. Events \subseteq Events' /\ e \in Events' /\ 1..(nextId - 1) \subseteq 1..(nextId' - 1)
  BY <1>1 DEF Events
<1>3. TypeOK'
  BY <1>1, <1>2 DEF TypeOK, payments, client
<1>4. \A x \in flying \cup events : x.id < nextId /\ x.id \in Nat
  BY <1>1 DEF TypeOK, Events
<1>5. \A b \in Accounts : \A j \in report[b].base : j < nextId
  BY <1>1, <1>4 DEF TypeOK, IdsOf, Events
<1>6. ReportInv'
  BY <1>1, <1>4, <1>5 DEF ReportInv
<1> QED
  BY <1>3, <1>6

LEMMA EndType ==
  ASSUME TypeOK, ReportInv, DOMAIN report = Accounts, NEW e \in flying, EndInsert(e)
  PROVE  TypeOK' /\ ReportInv'
<1>1. /\ flying' \subseteq flying /\ events \subseteq events' /\ events' \subseteq events \cup flying
      /\ UNCHANGED <<payments, client, nextId, copied, report>>
  BY DEF EndInsert
<1>2. TypeOK'
  BY <1>1 DEF TypeOK, Events, payments, client
<1>3. ReportInv'
  BY <1>1 DEF ReportInv
<1> QED
  BY <1>2, <1>3

LEMMA ReadType ==
  ASSUME TypeOK, ReportInv, DOMAIN report = Accounts, NEW a \in Accounts, AnalyzeTransitions(a)
  PROVE  TypeOK' /\ ReportInv' /\ DOMAIN report' = Accounts
<1> DEFINE S == IdsOf(a, copied)
           M == IdsOf(a, flying \cup (events \ copied))
<1>1. PICK last \in S \cup {0} :
        report' = [report EXCEPT ![a] =
          [rows |-> [i \in Upto(S, last) |-> Row(S, i)], base |-> S, missing |-> M]]
  BY DEF AnalyzeTransitions
<1>2. UNCHANGED <<payments, client, nextId, flying, events, copied>>
  BY DEF AnalyzeTransitions
<1>3. /\ report'[a].rows = [i \in Upto(S, last) |-> Row(S, i)]
      /\ report'[a].base = S /\ report'[a].missing = M
      /\ \A b \in Accounts \ {a} : report'[b] = report[b]
      /\ DOMAIN report' = Accounts
  BY <1>1
<1>4. Upto(S, last) \subseteq S
  BY DEF Upto
<1>5. M \subseteq 1..(nextId - 1)
  BY DEF IdsOf, TypeOK, Events
<1> HIDE DEF S, M
<1>6. TypeOK'
  <2>1. \A b \in Accounts : /\ report'[b].base \subseteq IdsOf(b, copied)
                            /\ DOMAIN report'[b].rows \subseteq report'[b].base
                            /\ report'[b].missing \subseteq 1..(nextId - 1)
    BY <1>3, <1>4, <1>5 DEF TypeOK, S
  <2> QED
    BY <1>2, <2>1 DEF TypeOK, payments, client, Events
<1>7. \A x \in flying \cup events : x.payment = a => x.id \in S \cup M
  BY DEF S, M, IdsOf, TypeOK
<1>8. ReportInv'
  BY <1>2, <1>3, <1>7 DEF ReportInv
<1> QED
  BY <1>3, <1>6, <1>8

-----------------------------------------------------------------------------
LEMMA InitIInv == Init => IInv
BY PaymentReadsAssumption
DEF Init, IInv, TypeOK, WalkInv, ReportInv, NoRepeat, Complete, NoReport, Events

LEMMA NextIInv == IInv /\ [Next]_vars => IInv'
<1> SUFFICES ASSUME IInv, [Next]_vars PROVE IInv'
  OBVIOUS
<1> USE DEF IInv
<1>1. ASSUME NEW p \in Ids, CreateTransactionRecord(p) PROVE IInv'
  BY <1>1 DEF CreateTransactionRecord, client, audit, TypeOK, WalkInv, ReportInv, NoRepeat, Complete, Events
<1>2. CASE Replicate
  <2>1. /\ replica \subseteq replica' /\ replica' \subseteq master
        /\ copied \subseteq copied' /\ copied' \subseteq events
        /\ UNCHANGED <<master, client, nextId, flying, events, report>>
    BY <1>2 DEF Replicate, payments, audit, TypeOK
  <2>2. \A a \in Accounts : IdsOf(a, copied) \subseteq IdsOf(a, copied')
    BY <2>1 DEF IdsOf
  <2> QED
    BY <2>1, <2>2 DEF client, TypeOK, WalkInv, ReportInv, NoRepeat, Complete, Events
<1>3. CASE Page \/ PageCut
  <2>1. /\ WalkInv' /\ UNCHANGED <<payments, audit>>
        /\ walk' \in {"idle", "pages", "done", "cut"}
        /\ cursor' \in Ids \cup {Start}
        /\ seen' \subseteq replica /\ repeated' \subseteq seen' /\ from' \subseteq replica
    BY <1>3, PageWalk
  <2> QED
    BY <2>1 DEF payments, audit, TypeOK, ReportInv, Events
<1>4. ASSUME NEW a \in Accounts, LogEvent(a) PROVE IInv'
  <2>1. UNCHANGED <<walk, cursor, seen, repeated, from, report>>
    BY <1>4 DEF LogEvent, client
  <2> QED
    BY <1>4, <2>1, LogType DEF WalkInv, NoRepeat, Complete
<1>5. ASSUME NEW e \in flying, EndInsert(e) PROVE IInv'
  <2>1. UNCHANGED <<walk, cursor, seen, repeated, from, report>>
    BY <1>5 DEF EndInsert, client
  <2> QED
    BY <1>5, <2>1, EndType DEF WalkInv, NoRepeat, Complete
<1>6. ASSUME NEW a \in Accounts, AnalyzeTransitions(a) PROVE IInv'
  <2>1. UNCHANGED <<walk, cursor, seen, repeated, from>>
    BY <1>6 DEF AnalyzeTransitions, client
  <2> QED
    BY <1>6, <2>1, ReadType DEF WalkInv, NoRepeat, Complete
<1>7. CASE UNCHANGED vars
  BY <1>7 DEF vars, TypeOK, WalkInv, ReportInv, NoRepeat, Complete, Events
<1> QED
  BY <1>1, <1>2, <1>3, <1>4, <1>5, <1>6, <1>7 DEF Next

LEMMA Invariance == Spec => []IInv
BY InitIInv, NextIInv, PTL DEF Spec

(***************************************************************************)
(* The type invariant.                                                     *)
(***************************************************************************)
THEOREM TypeCorrect == Spec => []TypeOK
<1>1. IInv => TypeOK
  BY DEF IInv
<1> QED
  BY <1>1, Invariance, PTL

(***************************************************************************)
(* GetPaginatedTransactions shows no payment twice in one walk.            *)
(***************************************************************************)
THEOREM PagesAreDisjoint == Spec => []NoRepeat
<1>1. IInv => NoRepeat
  BY DEF IInv, WalkInv
<1> QED
  BY <1>1, Invariance, PTL

(***************************************************************************)
(* A walk that ends with an unbroken page has shown all it should.         *)
(***************************************************************************)
THEOREM WalkIsComplete == Spec => []Complete
<1>1. IInv => Complete
  BY DEF IInv, WalkInv
<1> QED
  BY <1>1, Invariance, PTL

(***************************************************************************)
(* The rows of AnalyzeTransitions keep their numbers and previous states,  *)
(* except for ids that were drawn and not yet visible.                     *)
(***************************************************************************)
THEOREM HistoryIsStable == Spec => HistoryStable
<1> DEFINE Stable ==
      \A a \in Accounts :
        \A i \in DOMAIN report[a].rows \cap DOMAIN report'[a].rows :
          \/ report'[a].rows[i] = report[a].rows[i]
          \/ \E j \in report[a].missing : j < i
<1>1. IInv /\ IInv' /\ [Next]_vars => [Stable]_vars
  <2> SUFFICES ASSUME IInv, IInv', [Next]_vars,
                      NEW a \in Accounts,
                      NEW i \in DOMAIN report[a].rows \cap DOMAIN report'[a].rows,
                      ~ \E j \in report[a].missing : j < i
               PROVE  report'[a].rows[i] = report[a].rows[i]
    OBVIOUS
  <2>1. CASE report' = report
    BY <2>1
  <2>2. ASSUME NEW b \in Accounts, AnalyzeTransitions(b)
        PROVE  report'[a].rows[i] = report[a].rows[i]
    <3>1. CASE b # a
      BY <2>2, <3>1 DEF AnalyzeTransitions, IInv
    <3>2. CASE b = a
      <4> DEFINE S == report[a].base
                 T == report'[a].base
      <4>1. T = IdsOf(a, copied)
        BY <2>2, <3>2 DEF AnalyzeTransitions, IInv
      <4>2. S \subseteq T /\ i \in S /\ T \subseteq Nat
        BY <4>1 DEF IInv, TypeOK, IdsOf, Events
      <4>3. ASSUME NEW k \in T \ S PROVE ~(k <= i)
        <5>1. PICK x \in copied : x.payment = a /\ x.id = k
          BY <4>1, <4>3 DEF IdsOf
        <5>2. k \in report[a].missing \/ \A j \in S : j < k
          BY <4>3, <5>1 DEF IInv, ReportInv, TypeOK
        <5>3. k # i
          BY <4>2, <4>3
        <5> QED
          BY <4>2, <4>3, <5>2, <5>3
      <4>4. Upto(T, i) = Upto(S, i)
        BY <4>2, <4>3 DEF Upto
      <4>5. Row(T, i) = Row(S, i)
        BY <4>4 DEF Row, Lag
      <4> QED
        BY <4>5 DEF IInv, ReportInv
    <3> QED
      BY <3>1, <3>2
  <2> QED
    BY <2>1, <2>2 DEF Next, vars, CreateTransactionRecord, Replicate, Page, PageCut, Show, LogEvent, EndInsert, audit
<1> QED
  BY <1>1, Invariance, PTL DEF Spec, HistoryStable
=============================================================================
