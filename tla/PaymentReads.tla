---------------------------- MODULE PaymentReads ----------------------------
(***************************************************************************)
(* What is read from the replica while the primary goes on writing:        *)
(*                                                                         *)
(*   internal/repository/payment_repo.go    GetPaginatedTransactions       *)
(*   internal/repository/audit_repository.go  LogEvent, ReplayHistory,     *)
(*                                          AnalyzeTransitions             *)
(*   cmd/api/main.go                        GET /payments/{id}/history     *)
(*                                                                         *)
(* A client walks through the payments page by page, along the cursor the  *)
(* last page ended with.  Payment ids are random, so new ones turn up on   *)
(* both sides of the cursor.  Audit events get their ids from a sequence   *)
(* when their INSERT runs, and may commit in another order or not at all.  *)
(* The replica takes over committed rows late, here in any order, which    *)
(* allows more than streaming replication does.  Neither query looks at    *)
(* rows.Err(): a connection that breaks between two rows ends the result   *)
(* as if it were complete.                                                 *)
(***************************************************************************)
EXTENDS Integers, FiniteSets

CONSTANTS
  Ids,        \* payment ids; UUIDs and their texts are ordered alike
  Start,      \* no cursor: larger than every id
  Limit,      \* rows per page
  Accounts,   \* payments whose history is kept
  MaxEvents   \* bound on the events that are logged

ASSUME PaymentReadsAssumption ==
  /\ Ids \subseteq Nat /\ Start \in Nat
  /\ \A p \in Ids : p < Start
  /\ Limit \in Nat \ {0}
  /\ MaxEvents \in Nat

VARIABLES
  master,     \* payments committed on the primary
  replica,    \* those the replica has
  walk,       \* the client: "idle", "pages", "done", or "cut" by a broken page
  cursor,     \* NextCursor of the client
  seen,       \* payments it has been shown
  repeated,   \* history: those it was shown more than once
  from,       \* history: what the replica had when the walk began
  nextId,     \* the sequence of payment_events
  flying,     \* INSERTs of events that have not ended
  events,     \* events committed on the primary
  copied,     \* those the replica has
  report      \* the last history of each payment a client got

payments == <<master, replica>>
client == <<walk, cursor, seen, repeated, from>>
audit == <<nextId, flying, events, copied, report>>
vars == <<master, replica, walk, cursor, seen, repeated, from, nextId, flying, events, copied, report>>

NoReport == [rows |-> <<>>, base |-> {}, missing |-> {}]

Init ==
  /\ master = {} /\ replica = {}
  /\ walk = "idle" /\ cursor = Start
  /\ seen = {} /\ repeated = {} /\ from = {}
  /\ nextId = 1
  /\ flying = {} /\ events = {} /\ copied = {}
  /\ report = [a \in Accounts |-> NoReport]

\* CreateTransactionRecord, or ProcessCharge (see Ledger), commits a payment.
CreateTransactionRecord(p) ==
  /\ p \notin master
  /\ master' = master \cup {p}
  /\ UNCHANGED <<replica, client, audit>>

Replicate ==
  \/ /\ \E p \in master \ replica : replica' = replica \cup {p}
     /\ UNCHANGED <<master, client, audit>>
  \/ /\ \E e \in events \ copied : copied' = copied \cup {e}
     /\ UNCHANGED <<payments, client, nextId, flying, events, report>>

-----------------------------------------------------------------------------
(***************************************************************************)
(* GetPaginatedTransactions.                                               *)
(***************************************************************************)
Below_Inclusive == {p \in replica : p <= cursor}

Below_Everything == replica

Below_OnPrimary == {p \in master : p < cursor}

\* WHERE id::text < $2
Below == {p \in replica : p < cursor}

Highest_Lowest(S, B) ==
  /\ B \subseteq S
  /\ Cardinality(B) = Limit \/ (B = S /\ Cardinality(S) < Limit)
  /\ \A b \in B, s \in S \ B : b < s

\* B is the result of ORDER BY id DESC LIMIT $1 on S.
Highest(S, B) ==
  /\ B \subseteq S
  /\ Cardinality(B) = Limit \/ (B = S /\ Cardinality(S) < Limit)
  /\ \A b \in B, s \in S \ B : s < b

Show(B) ==
  /\ seen' = seen \cup B
  /\ repeated' = repeated \cup (seen \cap B)
  /\ from' = IF walk = "idle" THEN replica ELSE from
  /\ UNCHANGED <<payments, audit>>

\* A full page comes with a cursor, its last id; any other page is the last one.
Page ==
  /\ walk \in {"idle", "pages"}
  /\ \E B \in SUBSET Below :
       /\ Highest(Below, B)
       /\ Show(B)
       /\ \/ Cardinality(B) = Limit /\ walk' = "pages" /\ cursor' \in {c \in B : \A b \in B : c <= b}
          \/ Cardinality(B) # Limit /\ walk' = "done" /\ UNCHANGED cursor

(***************************************************************************)
(* The connection breaks after some rows.  They are returned without a     *)
(* cursor and without an error: to the client, the last page.              *)
(***************************************************************************)
PageCut ==
  /\ walk \in {"idle", "pages"}
  /\ \E C, B \in SUBSET Below :
       /\ Highest(Below, B)
       /\ C \subseteq B /\ C # B /\ \A c \in C, b \in B \ C : b < c
       /\ Show(C)
  /\ walk' = "cut"
  /\ UNCHANGED cursor

-----------------------------------------------------------------------------
(***************************************************************************)
(* LogEvent, in two steps: the INSERT draws an id, and commits or fails.   *)
(***************************************************************************)
LogEvent(a) ==
  /\ nextId <= MaxEvents
  /\ flying' = flying \cup {[id |-> nextId, payment |-> a]}
  /\ nextId' = nextId + 1
  /\ UNCHANGED <<payments, client, events, copied, report>>

EndInsert(e) ==
  /\ flying' = flying \ {e}
  /\ events' \in {events, events \cup {e}}
  /\ UNCHANGED <<payments, client, nextId, copied, report>>

\* WHERE payment_id = $1, on a set of events
IdsOf(a, E) == {e.id : e \in {f \in E : f.payment = a}}

Upto(S, i) == {j \in S : j <= i}

\* The event before i; 0 stands for 'START'.
Lag(S, i) ==
  LET before == Upto(S, i) \ {i}
  IN  IF before = {} THEN 0 ELSE CHOOSE j \in before : \A k \in before : k <= j

Row_NewestFirst(S, i) == [number |-> Cardinality({j \in S : i <= j}), previous |-> Lag(S, i)]

\* ROW_NUMBER() and LAG() OVER (PARTITION BY payment_id ORDER BY id ASC)
Row(S, i) == [number |-> Cardinality(Upto(S, i)), previous |-> Lag(S, i)]

(***************************************************************************)
(* AnalyzeTransitions for GET /payments/{id}/history.  ReplayHistory       *)
(* returns the same rows, in the same order.  The connection may break     *)
(* after any of them.  `missing` are the events of this payment that have  *)
(* an id and are not on the replica.                                       *)
(***************************************************************************)
AnalyzeTransitions(a) ==
  LET S == IdsOf(a, copied) IN
  /\ \E last \in S \cup {0} :
       report' = [report EXCEPT ![a] =
         [rows    |-> [i \in Upto(S, last) |-> Row(S, i)],
          base    |-> S,
          missing |-> IdsOf(a, flying \cup (events \ copied))]]
  /\ UNCHANGED <<payments, client, nextId, flying, events, copied>>

-----------------------------------------------------------------------------
Next ==
  \/ \E p \in Ids : CreateTransactionRecord(p)
  \/ Replicate \/ Page \/ PageCut
  \/ \E a \in Accounts : LogEvent(a) \/ AnalyzeTransitions(a)
  \/ \E e \in flying : EndInsert(e)

Spec == Init /\ [][Next]_vars

\* A client that walks goes on asking until it gets a page without a cursor.
FairSpec == Spec /\ WF_vars(Page)

-----------------------------------------------------------------------------
Events == [id : 1..(nextId - 1), payment : Accounts]

(***************************************************************************)
(* Type invariant of both tables, the client and the reports: the replica  *)
(* has nothing that is not committed, and no event an id that was not      *)
(* drawn.                                                                  *)
(***************************************************************************)
TypeOK ==
  /\ master \subseteq Ids /\ replica \subseteq master
  /\ walk \in {"idle", "pages", "done", "cut"}
  /\ cursor \in Ids \cup {Start}
  /\ seen \subseteq replica /\ repeated \subseteq seen /\ from \subseteq replica
  /\ nextId \in Nat \ {0}
  /\ flying \subseteq Events /\ events \subseteq Events /\ copied \subseteq events
  /\ \A a \in Accounts :
       /\ report[a].base \subseteq IdsOf(a, copied)
       /\ DOMAIN report[a].rows \subseteq report[a].base
       /\ report[a].missing \subseteq 1..(nextId - 1)

(***************************************************************************)
(* No payment is on two pages of a walk, although payments are inserted    *)
(* and replicated on both sides of the cursor all the time.                *)
(***************************************************************************)
NoRepeat == repeated = {}

(***************************************************************************)
(* A client that followed the cursors to a last page which was not cut off *)
(* has seen every payment the replica had when it began.                   *)
(***************************************************************************)
Complete == walk = "done" => from \subseteq seen

(***************************************************************************)
(* Every walk comes to an end.                                             *)
(***************************************************************************)
WalkEnds == <>(walk \in {"done", "cut"})

(***************************************************************************)
(* "immutable state transition record": from one history of a payment to   *)
(* the next, the number and the previous state of an event stay the same,  *)
(* unless a smaller id had been drawn and was not on the replica yet when  *)
(* the earlier history was read.  Nothing else can get in between.         *)
(***************************************************************************)
HistoryStable ==
  [][\A a \in Accounts :
       \A i \in DOMAIN report[a].rows \cap DOMAIN report'[a].rows :
         \/ report'[a].rows[i] = report[a].rows[i]
         \/ \E j \in report[a].missing : j < i]_vars
=============================================================================
