--------------------------- MODULE BillingProofs ---------------------------
(***************************************************************************)
(* Proofs about Billing, for any dates, prices and amounts.                *)
(*                                                                         *)
(* The calendar: a year is as long as its months, a month as long as the   *)
(* distance between its first day and the next month's, and AddDate keeps  *)
(* the day; hence PeriodLength.  Two periods of 28 to 31 days then end in  *)
(* the order in which they start, but for less than three days.            *)
(*                                                                         *)
(* Quotes: each is the quotient of a number near the share that was due at *)
(* its time.  A quotient, cut off, grows with its dividend, and by no more *)
(* than one when the dividend grows by no more than the divisor; rounding  *)
(* moves the dividend by less than half of that.                           *)
(*                                                                         *)
(* Conversion: from the first amount in cents on, only that amount, or one *)
(* cent less if it is odd, is ever seen again.                             *)
(***************************************************************************)
EXTENDS Billing, TLAPS

LEMMA YearLength ==
  ASSUME NEW y \in Nat
  PROVE  /\ YearStart(y) \in Int
         /\ YearStart(y + 1) = YearStart(y) + (IF Leap(y) THEN 366 ELSE 365)
<1>1. (y + 4) \div 4 = (y + 3) \div 4 + (IF y % 4 = 0 THEN 1 ELSE 0)
  OBVIOUS
<1>2. (y + 100) \div 100 = (y + 99) \div 100 + (IF y % 100 = 0 THEN 1 ELSE 0)
  OBVIOUS
<1>3. (y + 400) \div 400 = (y + 399) \div 400 + (IF y % 400 = 0 THEN 1 ELSE 0)
  OBVIOUS
<1>4. (y % 400 = 0 => y % 100 = 0) /\ (y % 100 = 0 => y % 4 = 0)
  OBVIOUS
<1> QED
  BY <1>1, <1>2, <1>3, <1>4 DEF YearStart, Leap

\* DaysBefore, one month after the other.
LEMMA MonthTable ==
  /\ DaysBefore[1] = 0 /\ DaysBefore[2] = 31 /\ DaysBefore[3] = 59 /\ DaysBefore[4] = 90
  /\ DaysBefore[5] = 120 /\ DaysBefore[6] = 151 /\ DaysBefore[7] = 181 /\ DaysBefore[8] = 212
  /\ DaysBefore[9] = 243 /\ DaysBefore[10] = 273 /\ DaysBefore[11] = 304 /\ DaysBefore[12] = 334
BY DEF DaysBefore

LEMMA MonthSteps ==
  /\ \A m \in 1..12 : DaysBefore[m] \in Int
  /\ \A m \in 3..12 : DaysBefore[m] >= 59
  /\ \A m \in 1..11 : DaysBefore[m + 1] = DaysBefore[m] + (IF m = 2 THEN 28 ELSE IF m \in {4, 6, 9, 11} THEN 30 ELSE 31)
<1>1. \A m \in Int : m \in 1..12 => m = 1 \/ m = 2 \/ m = 3 \/ m = 4 \/ m = 5 \/ m = 6 \/ m = 7
                                    \/ m = 8 \/ m = 9 \/ m = 10 \/ m = 11 \/ m = 12
  OBVIOUS
<1> QED
  BY <1>1, MonthTable

LEMMA MonthlyPeriod ==
  ASSUME NEW t \in Dates
  PROVE  /\ DayNumber(t.y, t.m, t.d) \in Int
         /\ NextMonth(t) = DayNumber(t.y, t.m, t.d) + MonthLength(t.y, t.m)
<1>1. t.y \in Nat /\ t.m \in 1..12 /\ t.d \in 1..31
  BY BillingAssumption
<1>2. /\ YearStart(t.y) \in Int
      /\ YearStart(t.y + 1) = YearStart(t.y) + (IF Leap(t.y) THEN 366 ELSE 365)
  BY <1>1, YearLength
<1>3. DayNumber(t.y, t.m, t.d) \in Int
  BY <1>1, <1>2, MonthSteps DEF DayNumber
<1>4. CASE t.m = 12
  BY <1>1, <1>2, <1>4, MonthTable DEF NextMonth, DayNumber, MonthLength
<1>5. CASE t.m # 12
  <2>1. t.m \in 1..11 /\ t.m + 1 \in 1..12
    BY <1>1, <1>5
  <2>2. DaysBefore[t.m] \in Int /\ DaysBefore[t.m + 1] = DaysBefore[t.m] + (IF t.m = 2 THEN 28 ELSE IF t.m \in {4, 6, 9, 11} THEN 30 ELSE 31)
    BY <2>1, <1>1, MonthSteps
  <2>3. NextMonth(t) = DayNumber(t.y, t.m + 1, t.d)
    BY <1>5 DEF NextMonth
  <2> QED
    BY <1>1, <1>2, <2>1, <2>2, <2>3 DEF DayNumber, MonthLength
<1> QED
  BY <1>3, <1>4, <1>5

LEMMA AnnualPeriod ==
  ASSUME NEW t \in Dates
  PROVE  /\ NextYear(t) \in Int
         /\ NextYear(t) = DayNumber(t.y, t.m, t.d)
                          + (IF LeapDayFrom(t, NextYear(t)) THEN 366 ELSE 365)
<1> DEFINE first == DayNumber(t.y, t.m, t.d)
           end   == NextYear(t)
           a     == YearStart(t.y)
           b     == YearStart(t.y + 1)
<1>1. t.y \in Nat /\ t.m \in 1..12 /\ t.d \in 1..31 /\ t.d <= MonthLength(t.y, t.m)
  BY BillingAssumption
<1>2. a \in Int /\ b \in Int /\ b = a + (IF Leap(t.y) THEN 366 ELSE 365)
  BY <1>1, YearLength
<1>3. Leap(t.y) => ~Leap(t.y + 1)
  BY <1>1 DEF Leap
<1>4. DayNumber(t.y, 2, 29) = a + 59 /\ DayNumber(t.y + 1, 2, 29) = b + 59
  BY <1>2, MonthTable DEF DayNumber
<1>5. LeapDayFrom(t, end) <=> \/ Leap(t.y) /\ a + 59 \in first..(end - 1)
                              \/ Leap(t.y + 1) /\ b + 59 \in first..(end - 1)
  BY <1>4 DEF LeapDayFrom
<1>6. DaysBefore[t.m] \in Int
  BY <1>1, MonthSteps
<1>7. CASE t.m \in {1, 2}
  <2>1. first = a + DaysBefore[t.m] + t.d - 1 /\ end = b + DaysBefore[t.m] + t.d - 1
    BY <1>1, <1>2, <1>6, <1>7 DEF DayNumber, NextYear
  <2>2. /\ DaysBefore[t.m] >= 0
        /\ DaysBefore[t.m] + t.d <= (IF Leap(t.y) THEN 60 ELSE 59)
    BY <1>1, <1>7, MonthTable DEF MonthLength
  <2> HIDE DEF first, end, a, b
  <2> QED
    BY <1>1, <1>2, <1>3, <1>5, <1>6, <2>1, <2>2 DEF first, end
<1>8. CASE t.m \in 3..12
  <2>1. /\ first = a + DaysBefore[t.m] + (IF Leap(t.y) THEN 1 ELSE 0) + t.d - 1
        /\ end = b + DaysBefore[t.m] + (IF Leap(t.y + 1) THEN 1 ELSE 0) + t.d - 1
    BY <1>1, <1>2, <1>6, <1>8 DEF DayNumber, NextYear
  <2>2. DaysBefore[t.m] >= 59 /\ DaysBefore[t.m] <= 334
    BY <1>1, <1>8, MonthSteps, MonthTable
  <2> HIDE DEF first, end, a, b
  <2> QED
    BY <1>1, <1>2, <1>3, <1>5, <1>6, <2>1, <2>2 DEF first, end
<1> QED
  BY <1>1, <1>7, <1>8

-----------------------------------------------------------------------------
\* Subscriptions.

\* No period starts in the future.
Started == \A i \in DOMAIN store : StartOf(store[i]) <= Now

SInv == TypeOK /\ PeriodLength /\ Started

\* Instants are numbers.
LEMMA NowType ==
  ASSUME today \in Dates, clock \in 0..(DayTicks - 1)
  PROVE  Today \in Int /\ Now \in Int
<1>1. Today \in Int
  BY MonthlyPeriod DEF Today
<1>2. Today * DayTicks \in Int /\ clock \in Int
  BY <1>1, BillingAssumption
<1> QED
  BY <1>1, <1>2 DEF Now

LEMMA InitSInv == Init => SInv
<1> SUFFICES ASSUME Init PROVE SInv
  OBVIOUS
<1>1. DOMAIN store = {} /\ DOMAIN quotes = {}
  BY DEF Init
<1> QED
  BY <1>1, BillingAssumption DEF Init, SInv, TypeOK, PeriodLength, Started

\* A new subscription has the length it should have, and the others keep theirs.
LEMMA StoreSInv ==
  ASSUME SInv, NEW id \in Ids, NEW amount \in Prices, NEW period \in Periods,
         CreateSubscription(id, amount, period)
  PROVE  SInv'
<1> DEFINE end == IF period = "monthly" THEN NextMonth(today) ELSE NextYear(today)
           sub == [amount |-> amount, period |-> period, start |-> today, at |-> clock, end |-> end]
<1>1. today \in Dates /\ clock \in 0..(DayTicks - 1) /\ period \in {"monthly", "annual"} /\ id \notin issued
  BY DEF SInv, TypeOK, CreateSubscription
<1>2. /\ NextMonth(today) = Today + MonthLength(today.y, today.m)
      /\ NextYear(today) = Today + (IF LeapDayFrom(today, NextYear(today)) THEN 366 ELSE 365)
      /\ Today \in Int /\ MonthLength(today.y, today.m) \in Int
  BY <1>1, MonthlyPeriod, AnnualPeriod DEF Today, MonthLength
<1>3. end \in Int
  BY <1>2
<1>4. /\ DOMAIN store' = DOMAIN store \cup {id} /\ store'[id] = sub
      /\ \A i \in DOMAIN store : store'[i] = store[i]
      /\ issued' = issued \cup {id}
      /\ UNCHANGED <<today, clock, quotes, deposit, wallet>>
  BY <1>1 DEF CreateSubscription, Store, SInv, TypeOK, money, time
<1>5. TypeOK'
  BY <1>1, <1>3, <1>4 DEF SInv, TypeOK
<1>6. sub.end - FirstDay(sub) = IF sub.period = "monthly" THEN MonthLength(sub.start.y, sub.start.m)
                                ELSE IF LeapDayFrom(sub.start, sub.end) THEN 366 ELSE 365
  BY <1>2 DEF FirstDay, Today
<1>7. PeriodLength'
  BY <1>4, <1>6 DEF SInv, PeriodLength
<1>8. Started'
  <2>1. StartOf(sub) = Now /\ Now' = Now /\ Now \in Int
    BY <1>1, <1>4, NowType DEF StartOf, FirstDay, Now, Today
  <2> QED
    BY <1>4, <2>1 DEF SInv, Started
<1> QED
  BY <1>5, <1>7, <1>8 DEF SInv

\* Division by a positive number, and products, as the provers need to be told of them.
LEMMA Division ==
  ASSUME NEW a \in Int, NEW t \in Int, t > 0
  PROVE  a \div t \in Int /\ a % t \in 0..(t - 1) /\ a = t * (a \div t) + (a % t)
OBVIOUS

LEMMA ProductGrows ==
  ASSUME NEW c \in Int, NEW a \in Int, NEW b \in Int, c > 0, a <= b
  PROVE  c * a \in Int /\ c * b \in Int /\ c * a <= c * b
OBVIOUS

LEMMA Distributes ==
  ASSUME NEW a \in Int, NEW b \in Int, NEW c \in Int
  PROVE  /\ a * c \in Int /\ b * c \in Int /\ a * c = c * a
         /\ (a - b) * c = a * c - b * c /\ (a + b) * c = a * c + b * c
OBVIOUS

\* What a quotient, cut off, is below.  The other facts about Charged follow from this one.
LEMMA ChargedAtMost ==
  ASSUME NEW n \in Int, NEW total \in Int, total > 0
  PROVE  /\ Charged(n, total) \in Nat
         /\ \A k \in Nat : Charged(n, total) <= k <=> n < (k + 1) * total
<1>1. CASE n < 0
  <2>1. ASSUME NEW k \in Nat PROVE (k + 1) * total \in Int /\ (k + 1) * total > 0
    BY <2>1
  <2> QED
    BY <1>1, <2>1 DEF Charged
<1>2. CASE n >= 0
  <2> DEFINE q == n \div total
             r == n % total
  <2>1. q \in Int /\ r \in 0..(total - 1) /\ n = total * q + r /\ total * q \in Int
    BY Division
  <2>2. Charged(n, total) = q
    BY <1>2 DEF Charged
  <2> HIDE DEF q, r
  <2>3. q >= 0
    <3>1. CASE q <= -1
      <4>1. total * q <= total * (-1) /\ total * (-1) = -total
        BY <2>1, <3>1, ProductGrows
      <4> QED
        BY <1>2, <2>1, <4>1
    <3> QED
      BY <2>1, <3>1
  <2>4. ASSUME NEW k \in Nat PROVE q <= k <=> n < (k + 1) * total
    <3>1. /\ (k + 1) * total = total * k + total /\ total * (k + 1) = total * k + total
          /\ total * k \in Int
      BY <2>4
    <3>2. CASE q <= k
      <4>1. total * q <= total * k
        BY <2>1, <3>2, ProductGrows
      <4> QED
        BY <2>1, <3>1, <3>2, <4>1
    <3>3. CASE k + 1 <= q
      <4>1. total * (k + 1) <= total * q
        BY <2>1, <3>3, ProductGrows
      <4> QED
        BY <2>1, <3>1, <3>3, <4>1
    <3> QED
      BY <2>1, <3>2, <3>3
  <2> QED
    BY <2>1, <2>2, <2>3, <2>4
<1> QED
  BY <1>1, <1>2

LEMMA ChargedGrows ==
  ASSUME NEW total \in Int, total > 0, NEW m \in Int, NEW n \in Int
  PROVE  /\ Charged(m, total) \in Nat /\ Charged(n, total) \in Nat
         /\ n <= m => Charged(n, total) <= Charged(m, total)
         /\ n <= m + total => Charged(n, total) <= Charged(m, total) + 1
<1> DEFINE k == Charged(m, total)
<1>1. k \in Nat /\ Charged(n, total) \in Nat
  BY ChargedAtMost
<1>2. m < (k + 1) * total
  BY <1>1, ChargedAtMost
<1> HIDE DEF k
<1>3. /\ Charged(n, total) <= k <=> n < (k + 1) * total
      /\ Charged(n, total) <= k + 1 <=> n < ((k + 1) + 1) * total
  <2>1. \A j \in Nat : Charged(n, total) <= j <=> n < (j + 1) * total
    BY ChargedAtMost
  <2>2. k + 1 \in Nat
    BY <1>1
  <2> QED
    BY <1>1, <2>1, <2>2
<1>4. (k + 1) * total \in Int /\ ((k + 1) + 1) * total = (k + 1) * total + total
  BY <1>1
<1> QED
  BY <1>1, <1>2, <1>3, <1>4 DEF k

\* A period in ticks: long enough for the rounding not to matter by more than one.
LEMMA PeriodTicks ==
  ASSUME SInv, NEW i \in DOMAIN store
  PROVE  LET s == store[i] IN
         /\ s.amount \in Int /\ StartOf(s) \in Int /\ EndOf(s) \in Int
         /\ EndOf(s) - StartOf(s) \in Int /\ EndOf(s) - StartOf(s) > 0
         /\ EndOf(s) - StartOf(s) > 2 * Rounding
<1> DEFINE s == store[i]
           days == s.end - FirstDay(s)
<1>1. s.start \in Dates /\ s.end \in Int /\ s.amount \in Int /\ s.at \in Int
  <2>1. s.start \in Dates /\ s.end \in Int /\ s.amount \in Prices /\ s.at \in 0..(DayTicks - 1)
    BY DEF SInv, TypeOK
  <2>2. DayTicks \in Int /\ Prices \subseteq Int
    BY BillingAssumption
  <2>3. s.amount \in Int
    BY <2>1, <2>2
  <2>4. s.at \in Int
    BY <2>1, <2>2
  <2> QED
    BY <2>1, <2>3, <2>4
<1>2. FirstDay(s) \in Int
  BY <1>1, MonthlyPeriod DEF FirstDay
<1>3. days \in Int /\ 28 <= days
  BY <1>1, <1>2 DEF SInv, PeriodLength, MonthLength
<1>4. /\ days * DayTicks = s.end * DayTicks - FirstDay(s) * DayTicks
      /\ s.end * DayTicks \in Int /\ FirstDay(s) * DayTicks \in Int
  BY <1>1, <1>2, BillingAssumption, Distributes
<1>5. DayTicks * 28 <= DayTicks * days /\ DayTicks * days = days * DayTicks
  BY <1>3, BillingAssumption, ProductGrows, Distributes
<1> HIDE DEF days
<1>6. EndOf(s) - StartOf(s) = days * DayTicks /\ days * DayTicks \in Int
  BY <1>1, <1>3, <1>4, BillingAssumption, Distributes DEF EndOf, StartOf
<1> QED
  BY <1>1, <1>4, <1>5, <1>6, BillingAssumption DEF EndOf, StartOf

\* Whatever is quoted is an integer.
LEMMA QuoteType ==
  ASSUME SInv, NEW i \in DOMAIN store, NEW newAmount \in Prices
  PROVE  Now \in Int /\ Prorated(store[i], newAmount) \subseteq Int
<1> DEFINE s == store[i]
           total == EndOf(s) - StartOf(s)
           rem == EndOf(s) - Now
           due == (newAmount - s.amount) * rem
           error == IF rem = total THEN 0 ELSE Rounding
<1>1. /\ s.amount \in Int /\ newAmount \in Int /\ EndOf(s) \in Int
      /\ total \in Int /\ total > 0
  BY BillingAssumption, PeriodTicks
<1>2. Now \in Int
  BY NowType DEF SInv, TypeOK
<1>3. due \in Int /\ error \in Int
  BY <1>1, <1>2, BillingAssumption
<1>4. Prorated(s, newAmount) = IF rem <= 0 THEN {newAmount}
                               ELSE {Charged(n, total) : n \in (due - error)..(due + error)}
  BY DEF Prorated
<1> HIDE DEF due, total, rem, error
<1>5. \A n \in (due - error)..(due + error) : Charged(n, total) \in Int
  BY <1>1, <1>3, ChargedAtMost
<1> QED
  BY <1>1, <1>2, <1>4, <1>5

LEMMA NextSInv == SInv /\ [Next]_vars => SInv'
<1> SUFFICES ASSUME SInv, [Next]_vars PROVE SInv'
  OBVIOUS
<1> USE DEF subscriptions, money, time
<1>1. CASE TimePasses
  <2>1. Now \in Int /\ Now' \in Int /\ Now' > Now
    <3>1. Now \in Int
      BY NowType DEF SInv, TypeOK
    <3>2. Now' \in Int
      <4>1. today' \in Dates /\ clock' \in 0..(DayTicks - 1)
        BY <1>1 DEF TimePasses
      <4>2. Today' \in Int
        BY <4>1, MonthlyPeriod DEF Today
      <4>3. Today' * DayTicks \in Int /\ clock' \in Int
        BY <4>1, <4>2, BillingAssumption
      <4> QED
        BY <4>3 DEF Now
    <3> QED
      BY <1>1, <3>1, <3>2 DEF TimePasses
  <2>2. TypeOK' /\ PeriodLength'
    BY <1>1 DEF TimePasses, SInv, TypeOK, PeriodLength
  <2>3. ASSUME NEW i \in DOMAIN store' PROVE StartOf(store'[i]) <= Now'
    <3>1. i \in DOMAIN store /\ store'[i] = store[i]
      BY <1>1, <2>3 DEF TimePasses
    <3>2. StartOf(store[i]) \in Int /\ StartOf(store[i]) <= Now
      BY <3>1, PeriodTicks DEF SInv, Started
    <3> HIDE DEF Now
    <3> QED
      BY <2>1, <3>1, <3>2
  <2>4. Started'
    BY <2>3 DEF Started
  <2> QED
    BY <2>2, <2>4 DEF SInv
<1>0. ASSUME UNCHANGED <<today, clock>>, UNCHANGED store
      PROVE  Started'
  BY <1>0 DEF SInv, Started, Now, Today
<1>2. CASE Restart
  <2>1. DOMAIN store' = {} /\ DOMAIN quotes' = {}
    BY <1>2 DEF Restart
  <2> QED
    BY <1>2, <2>1 DEF Restart, SInv, TypeOK, PeriodLength, Started
<1>3. CASE Convert
  <2>1. wallet.amount \in Int /\ wallet.currency \in Currencies
    BY DEF SInv, TypeOK, Wallets
  <2>2. ToINR(wallet.amount) \in Int /\ ToUSD(wallet.amount) \in Int
    BY <2>1 DEF ToINR, ToUSD, Cut
  <2>3. wallet' \in Wallets
    BY <1>3, <2>2 DEF Convert, Wallets, Currencies
  <2> QED
    BY <1>0, <1>3, <2>3 DEF Convert, SInv, TypeOK, PeriodLength
<1>4. ASSUME NEW id \in Ids, NEW amount \in Prices, NEW period \in Periods,
             CreateSubscription(id, amount, period)
      PROVE  SInv'
  BY <1>4, StoreSInv
<1>5. ASSUME NEW id \in Ids, NEW amount \in Prices, CalculateProration(id, amount)
      PROVE  SInv'
  <2>1. id \in DOMAIN store /\ Now \in Int /\ Prorated(store[id], amount) \subseteq Int
    BY <1>5, QuoteType DEF CalculateProration
  <2>2. PICK charge \in Int :
          quotes' = [i \in DOMAIN quotes \cup {id} |->
            IF i = id THEN [price |-> amount, on |-> Now, charge |-> charge] ELSE quotes[i]]
    BY <1>5, <2>1 DEF CalculateProration
  <2> HIDE DEF Now
  <2>3. /\ DOMAIN quotes' \subseteq DOMAIN store
        /\ \A i \in DOMAIN quotes' : quotes'[i] \in [price : Prices, on : Int, charge : Int]
    BY <2>1, <2>2 DEF SInv, TypeOK
  <2>4. UNCHANGED <<today, clock, store, issued, deposit, wallet>>
    BY <1>5 DEF CalculateProration
  <2> QED
    BY <1>0, <2>3, <2>4 DEF SInv, TypeOK, PeriodLength
<1>6. CASE UNCHANGED vars
  BY <1>0, <1>6 DEF vars, SInv, TypeOK, PeriodLength
<1> QED
  BY <1>1, <1>2, <1>3, <1>4, <1>5, <1>6 DEF Next

(***************************************************************************)
(* The type invariant.                                                     *)
(***************************************************************************)
THEOREM TypeCorrect == Spec => []TypeOK
<1>1. SInv => TypeOK
  BY DEF SInv
<1> QED
  BY <1>1, InitSInv, NextSInv, PTL DEF Spec

(***************************************************************************)
(* CreateSubscription sells whole months and whole years on every date of  *)
(* the calendar.                                                           *)
(***************************************************************************)
THEOREM PeriodsAreWhole == Spec => []PeriodLength
<1>1. SInv => PeriodLength
  BY DEF SInv
<1> QED
  BY <1>1, InitSInv, NextSInv, PTL DEF Spec

(***************************************************************************)
(* AddDate's overflow never costs a later customer three days.             *)
(***************************************************************************)
THEOREM LaterEndsLater == Spec => []NoOvertaking
<1>1. SInv => NoOvertaking
  <2> SUFFICES ASSUME SInv, NEW i \in DOMAIN store, NEW j \in DOMAIN store,
                      store[i].period = store[j].period,
                      StartOf(store[i]) < StartOf(store[j])
               PROVE  EndOf(store[j]) > EndOf(store[i]) - 3 * DayTicks
    BY DEF NoOvertaking
  <2> DEFINE Days(k) == store[k].end - FirstDay(store[k])
  <2>1. \A k \in {i, j} : /\ store[k].start \in Dates /\ store[k].end \in Int
                          /\ store[k].at \in Int
                          /\ store[k].period \in {"monthly", "annual"}
    BY BillingAssumption DEF SInv, TypeOK
  <2>2. \A k \in {i, j} : FirstDay(store[k]) \in Int
    BY <2>1, MonthlyPeriod DEF FirstDay
  <2>3. Days(i) \in Int /\ Days(j) \in Int /\ Days(i) - 3 <= Days(j)
    <3>1. CASE store[i].period = "monthly"
      <4>1. /\ Days(i) = MonthLength(store[i].start.y, store[i].start.m)
            /\ Days(j) = MonthLength(store[j].start.y, store[j].start.m)
        BY <3>1 DEF SInv, PeriodLength
      <4>2. \A y, m : MonthLength(y, m) \in 28..31
        BY DEF MonthLength
      <4> QED
        BY <4>1, <4>2
    <3>2. CASE store[i].period = "annual"
      <4>1. Days(i) \in {365, 366} /\ Days(j) \in {365, 366}
        BY <3>2 DEF SInv, PeriodLength
      <4> QED
        BY <4>1
    <3> QED
      BY <2>1, <3>1, <3>2
  <2>4. \A k \in {i, j} : /\ Days(k) * DayTicks = store[k].end * DayTicks - FirstDay(store[k]) * DayTicks
                          /\ store[k].end * DayTicks \in Int /\ FirstDay(store[k]) * DayTicks \in Int
    BY <2>1, <2>2, BillingAssumption, Distributes
  <2> HIDE DEF Days
  <2>5. /\ DayTicks * (Days(i) - 3) <= DayTicks * Days(j)
        /\ DayTicks * (Days(i) - 3) = Days(i) * DayTicks - 3 * DayTicks
        /\ DayTicks * Days(j) = Days(j) * DayTicks
    BY <2>3, BillingAssumption, ProductGrows, Distributes
  <2> QED
    BY <2>1, <2>4, <2>5, BillingAssumption DEF StartOf, EndOf
<1> QED
  BY <1>1, InitSInv, NextSInv, PTL DEF Spec

-----------------------------------------------------------------------------
\* Quotes.

\* What a quote of that time can be, whatever time it is now.
Quoted(s, price, on) ==
  LET total == EndOf(s) - StartOf(s)
      rem   == EndOf(s) - on
      due   == (price - s.amount) * rem
      error == IF rem = total THEN 0 ELSE Rounding
  IN  IF rem <= 0 THEN {price}
      ELSE {Charged(n, total) : n \in (due - error)..(due + error)}

QuotesInv ==
  \A i \in DOMAIN quotes :
    /\ StartOf(store[i]) <= quotes[i].on
    /\ quotes[i].charge \in Quoted(store[i], quotes[i].price, quotes[i].on)

LEMMA ProratedIsQuoted ==
  ASSUME NEW s, NEW price
  PROVE  Prorated(s, price) = Quoted(s, price, Now)
BY DEF Prorated, Quoted

\* CalculateProration writes the quote of the moment for one subscription.
LEMMA NewQuote ==
  ASSUME SInv, NEW id \in Ids, NEW price \in Prices, CalculateProration(id, price)
  PROVE  /\ UNCHANGED <<today, clock, store>>
         /\ id \in DOMAIN store /\ DOMAIN quotes' = DOMAIN quotes \cup {id}
         /\ \A i \in DOMAIN quotes : i # id => quotes'[i] = quotes[i]
         /\ quotes'[id].price = price /\ quotes'[id].on = Now
         /\ StartOf(store[id]) <= Now
         /\ quotes'[id].charge \in Quoted(store[id], price, Now)
<1>1. PICK charge \in Prorated(store[id], price) :
        quotes' = [i \in DOMAIN quotes \cup {id} |->
          IF i = id THEN [price |-> price, on |-> Now, charge |-> charge] ELSE quotes[i]]
  BY DEF CalculateProration
<1>2. charge \in Quoted(store[id], price, Now)
  BY ProratedIsQuoted
<1>3. UNCHANGED <<today, clock, store>> /\ id \in DOMAIN store
  BY DEF CalculateProration, time
<1>4. StartOf(store[id]) <= Now
  BY <1>3 DEF SInv, Started
<1> HIDE DEF Now
<1> QED
  BY <1>1, <1>2, <1>3, <1>4

\* Every other action leaves each quote it does not drop, and its subscription, as they are.
LEMMA OldQuotes ==
  ASSUME SInv, [Next]_vars
  PROVE  \/ \E id \in Ids, price \in Prices : CalculateProration(id, price)
         \/ /\ DOMAIN quotes' \subseteq DOMAIN quotes
            /\ \A i \in DOMAIN quotes' : quotes'[i] = quotes[i] /\ store'[i] = store[i]
<1> USE DEF subscriptions, money
<1>1. CASE TimePasses \/ Convert \/ UNCHANGED vars
  BY <1>1 DEF TimePasses, Convert, vars
<1>2. CASE Restart
  BY <1>2 DEF Restart
<1>3. ASSUME NEW id \in Ids, NEW amount \in Prices, NEW period \in Periods,
             CreateSubscription(id, amount, period)
      PROVE  quotes' = quotes /\ \A i \in DOMAIN quotes : store'[i] = store[i]
  BY <1>3 DEF CreateSubscription, Store, SInv, TypeOK
<1> QED
  BY <1>1, <1>2, <1>3 DEF Next

LEMMA NextQuotesInv == SInv /\ QuotesInv /\ [Next]_vars => QuotesInv'
<1> SUFFICES ASSUME SInv, QuotesInv, [Next]_vars PROVE QuotesInv'
  OBVIOUS
<1>1. ASSUME NEW id \in Ids, NEW price \in Prices, CalculateProration(id, price)
      PROVE  QuotesInv'
  BY <1>1, NewQuote DEF QuotesInv
<1>2. CASE /\ DOMAIN quotes' \subseteq DOMAIN quotes
           /\ \A i \in DOMAIN quotes' : quotes'[i] = quotes[i] /\ store'[i] = store[i]
  BY <1>2 DEF QuotesInv
<1> QED
  BY <1>1, <1>2, OldQuotes

(***************************************************************************)
(* Every quote that is kept is one CalculateProration could have given at  *)
(* the time of the quote, which is within or after the period.             *)
(***************************************************************************)
THEOREM QuotesInvariant == Spec => [](SInv /\ QuotesInv)
<1>1. Init => QuotesInv
  BY DEF Init, QuotesInv
<1> QED
  BY <1>1, InitSInv, NextSInv, NextQuotesInv, PTL DEF Spec

\* A quote within a period: the quotient of a number not far from the share.
LEMMA QuoteWithin ==
  ASSUME SInv, NEW i \in DOMAIN store, NEW price \in Int, NEW on \in Int, on < EndOf(store[i]),
         NEW charge \in Quoted(store[i], price, on)
  PROVE  LET s     == store[i]
             total == EndOf(s) - StartOf(s)
             rem   == EndOf(s) - on
             due   == (price - s.amount) * rem
         IN  /\ due \in Int /\ charge \in Nat
             /\ \E n \in (due - Rounding)..(due + Rounding) :
                  n \in Int /\ charge = Charged(n, total) /\ (rem = total => n = due)
<1> DEFINE s     == store[i]
           total == EndOf(s) - StartOf(s)
           rem   == EndOf(s) - on
           due   == (price - s.amount) * rem
           error == IF rem = total THEN 0 ELSE Rounding
<1>1. s.amount \in Int /\ EndOf(s) \in Int /\ total \in Int /\ total > 0
  BY PeriodTicks
<1>2. rem \in Int /\ rem > 0 /\ due \in Int
  BY <1>1
<1>3. charge \in {Charged(n, total) : n \in (due - error)..(due + error)}
  BY <1>2 DEF Quoted
<1>4. error \in 0..Rounding /\ (rem = total => error = 0)
  BY BillingAssumption
<1> HIDE DEF total, rem, due, error
<1>5. PICK n \in (due - error)..(due + error) : charge = Charged(n, total)
  BY <1>3
<1>6. /\ n \in Int /\ n \in (due - Rounding)..(due + Rounding)
      /\ rem = total => n = due
  BY <1>2, <1>4, <1>5, BillingAssumption
<1>7. charge \in Nat
  BY <1>1, <1>5, <1>6, ChargedAtMost
<1> QED
  BY <1>2, <1>5, <1>6, <1>7 DEF total, rem, due

(***************************************************************************)
(* For any price, period and moment, and whatever the rounding does,       *)
(* CalculateProration is off by one minor unit at most, and asks for       *)
(* nothing below zero or above the difference in price.                    *)
(***************************************************************************)
THEOREM QuotesAreClose == Spec => []QuoteOffByOne
<1>1. SInv /\ QuotesInv => QuoteOffByOne
  <2> SUFFICES ASSUME SInv, QuotesInv, NEW i \in DOMAIN quotes
               PROVE  LET s == store[i]
                          q == quotes[i]
                      IN  IF ~Running(s, q) THEN q.charge = q.price
                          ELSE IF q.price <= s.amount THEN q.charge = 0
                          ELSE /\ q.charge \in 0..(q.price - s.amount)
                               /\ q.charge - Share(s, q) \div (EndOf(s) - StartOf(s)) \in -1..1
    BY DEF QuoteOffByOne
  <2> DEFINE s     == store[i]
             q     == quotes[i]
             total == EndOf(s) - StartOf(s)
             rem   == EndOf(s) - q.on
             more  == q.price - s.amount
             due   == more * rem
  <2>1. i \in DOMAIN store /\ q.price \in Int /\ q.on \in Int
    BY BillingAssumption DEF SInv, TypeOK
  <2>2. /\ s.amount \in Int /\ StartOf(s) \in Int /\ EndOf(s) \in Int
        /\ total \in Int /\ total > 0 /\ total > 2 * Rounding
    BY <2>1, PeriodTicks
  <2>3. q.charge \in Quoted(s, q.price, q.on) /\ StartOf(s) <= q.on
    BY DEF QuotesInv
  <2>4. CASE ~Running(s, q)
    BY <2>1, <2>2, <2>3, <2>4 DEF Running, Quoted
  <2>5. CASE Running(s, q)
    <3>1. rem \in Int /\ rem > 0 /\ rem <= total /\ more \in Int
      BY <2>1, <2>2, <2>3, <2>5 DEF Running
    <3>2. /\ due \in Int /\ q.charge \in Nat
          /\ \E n \in (due - Rounding)..(due + Rounding) :
               n \in Int /\ q.charge = Charged(n, total) /\ (rem = total => n = due)
      BY <2>1, <2>3, <2>5, QuoteWithin DEF Running
    <3>3. PICK n \in Int : /\ n \in (due - Rounding)..(due + Rounding)
                           /\ q.charge = Charged(n, total) /\ (rem = total => n = due)
      BY <3>2
    <3>4. Share(s, q) = due
      BY DEF Share
    <3>5. rem = total \/ rem <= total - 1
      BY <2>2, <3>1
    <3> HIDE DEF total, rem, more, due
    <3>6. CASE more <= 0
      <4>1. due <= 0
        BY <3>1, <3>2, <3>6, ProductGrows DEF due
      <4>2. n < (0 + 1) * total
        BY <2>2, <3>2, <3>3, <4>1, BillingAssumption
      <4>3. q.charge = 0
        BY <2>2, <3>2, <3>3, <4>2, ChargedAtMost
      <4> QED
        BY <2>1, <2>2, <2>5, <3>6, <4>3 DEF more
    <3>7. CASE more > 0
      <4>1. due > 0 /\ Charged(due, total) = due \div total
        BY <3>1, <3>2, <3>7 DEF due, Charged
      <4>2. n <= due + total /\ due <= n + total
        BY <2>2, <3>2, <3>3, BillingAssumption
      <4>3. /\ Charged(n, total) \in Nat /\ Charged(due, total) \in Nat
            /\ Charged(n, total) <= Charged(due, total) + 1
            /\ Charged(due, total) <= Charged(n, total) + 1
        BY <2>2, <3>2, <4>2, ChargedGrows
      <4>4. q.charge - due \div total \in -1..1
        BY <3>3, <4>1, <4>3
      <4>5. n < (more + 1) * total
        <5>1. /\ (more + 1) * total = more * total + total /\ more * total \in Int
              /\ more * (total - 1) = more * total - more
          BY <2>2, <3>1, Distributes
        <5>2. CASE rem = total
          BY <2>2, <3>3, <5>1, <5>2 DEF due
        <5>3. CASE rem <= total - 1
          <6>1. more * rem <= more * (total - 1)
            BY <2>2, <3>1, <3>7, <5>3, ProductGrows
          <6> QED
            BY <2>2, <3>1, <3>2, <3>3, <3>7, <5>1, <6>1, BillingAssumption DEF due
        <5> QED
          BY <3>5, <5>2, <5>3
      <4>6. q.charge <= more
        BY <2>2, <3>1, <3>3, <3>7, <4>5, ChargedAtMost
      <4> QED
        BY <2>1, <2>2, <2>5, <3>1, <3>2, <3>4, <3>7, <4>4, <4>6 DEF more, total
    <3> QED
      BY <3>1, <3>6, <3>7
  <2> QED
    BY <2>4, <2>5
<1> QED
  BY <1>1, QuotesInvariant, PTL

\* Of two quotes within a period the later one is higher by one at most.
LEMMA LaterQuote ==
  ASSUME SInv, NEW i \in DOMAIN store, NEW price \in Int, NEW on1 \in Int, NEW on2 \in Int,
         on1 < on2, on2 < EndOf(store[i]),
         NEW c1 \in Quoted(store[i], price, on1), NEW c2 \in Quoted(store[i], price, on2)
  PROVE  LET share1 == (price - store[i].amount) * (EndOf(store[i]) - on1)
             share2 == (price - store[i].amount) * (EndOf(store[i]) - on2)
         IN  c2 <= c1 + 1 /\ (share2 + 2 * Rounding <= share1 => c2 <= c1)
<1> DEFINE s     == store[i]
           total == EndOf(s) - StartOf(s)
           more  == price - s.amount
           rem1  == EndOf(s) - on1
           rem2  == EndOf(s) - on2
           due1  == more * rem1
           due2  == more * rem2
<1>1. /\ s.amount \in Int /\ EndOf(s) \in Int
      /\ total \in Int /\ total > 0 /\ total > 2 * Rounding
  BY PeriodTicks
<1>2. /\ more \in Int /\ rem1 \in Int /\ rem2 \in Int /\ 0 < rem2 /\ rem2 < rem1
      /\ on1 < EndOf(s)
  BY <1>1
<1>3. /\ due1 \in Int /\ c1 \in Nat
      /\ \E n \in (due1 - Rounding)..(due1 + Rounding) : n \in Int /\ c1 = Charged(n, total)
  <2>1. /\ due1 \in Int /\ c1 \in Nat
        /\ \E n \in (due1 - Rounding)..(due1 + Rounding) :
             n \in Int /\ c1 = Charged(n, total) /\ (rem1 = total => n = due1)
    BY <1>2, QuoteWithin
  <2> QED
    BY <2>1
<1>4. /\ due2 \in Int /\ c2 \in Nat
      /\ \E n \in (due2 - Rounding)..(due2 + Rounding) : n \in Int /\ c2 = Charged(n, total)
  BY <1>1, <1>2, QuoteWithin
<1>5. PICK n1 \in Int : n1 \in (due1 - Rounding)..(due1 + Rounding) /\ c1 = Charged(n1, total)
  BY <1>3
<1>6. PICK n2 \in Int : n2 \in (due2 - Rounding)..(due2 + Rounding) /\ c2 = Charged(n2, total)
  BY <1>4
<1> HIDE DEF more, rem1, rem2, total, due1, due2
<1>7. CASE more <= 0
  <2>1. due2 <= 0
    BY <1>2, <1>4, <1>7, ProductGrows DEF due2
  <2>2. n2 < (0 + 1) * total
    BY <1>1, <1>4, <1>6, <2>1, BillingAssumption
  <2>3. c2 = 0
    BY <1>1, <1>4, <1>6, <2>2, ChargedAtMost
  <2> QED
    BY <1>3, <2>3
<1>8. CASE more > 0
  <2>1. due2 <= due1
    BY <1>2, <1>8, ProductGrows DEF due1, due2
  <2>2. n2 <= n1 + total /\ (due2 + 2 * Rounding <= due1 => n2 <= n1)
    BY <1>1, <1>3, <1>4, <1>5, <1>6, <2>1, BillingAssumption
  <2>3. c2 <= c1 + 1 /\ (due2 + 2 * Rounding <= due1 => c2 <= c1)
    BY <1>1, <1>5, <1>6, <2>2, ChargedGrows
  <2> QED
    BY <2>3 DEF due1, due2, more, rem1, rem2
<1> QED
  BY <1>2, <1>7, <1>8

(***************************************************************************)
(* Whatever the plan and however time passes, CalculateProration asks at   *)
(* most one minor unit more of a customer who comes back later in the      *)
(* period, and no more at all once the share has fallen by twice the       *)
(* rounding error.                                                         *)
(***************************************************************************)
THEOREM WaitingCostsLittle == Spec => WaitingCostsOne
<1> DEFINE Rises == \A i \in DOMAIN quotes \cap DOMAIN quotes' :
              quotes'[i].price = quotes[i].price /\ quotes[i].on < quotes'[i].on
                /\ Running(store[i], quotes'[i])
              => /\ quotes'[i].charge <= quotes[i].charge + 1
                 /\ Share(store[i], quotes'[i]) + 2 * Rounding <= Share(store[i], quotes[i])
                      => quotes'[i].charge <= quotes[i].charge
<1>1. SInv /\ QuotesInv /\ [Next]_vars => Rises
  <2> SUFFICES ASSUME SInv, QuotesInv, [Next]_vars,
                      NEW i \in DOMAIN quotes \cap DOMAIN quotes',
                      quotes'[i].price = quotes[i].price,
                      quotes[i].on < quotes'[i].on, Running(store[i], quotes'[i])
               PROVE  /\ quotes'[i].charge <= quotes[i].charge + 1
                      /\ Share(store[i], quotes'[i]) + 2 * Rounding <= Share(store[i], quotes[i])
                           => quotes'[i].charge <= quotes[i].charge
    OBVIOUS
  <2>1. i \in DOMAIN store /\ quotes[i].price \in Int /\ quotes[i].on \in Int
    BY BillingAssumption DEF SInv, TypeOK
  <2>2. Now \in Int
    BY NowType DEF SInv, TypeOK
  <2>3. ASSUME NEW id \in Ids, NEW price \in Prices, CalculateProration(id, price)
        PROVE  /\ quotes'[i].charge <= quotes[i].charge + 1
               /\ Share(store[i], quotes'[i]) + 2 * Rounding <= Share(store[i], quotes[i])
                    => quotes'[i].charge <= quotes[i].charge
    <3>1. i = id
      <4>1. i # id => quotes'[i] = quotes[i]
        BY <2>3, NewQuote
      <4> QED
        BY <2>1, <4>1
    <3>2. /\ quotes'[i].on = Now /\ quotes[i].price = price
          /\ quotes'[i].charge \in Quoted(store[i], price, Now)
      BY <2>3, <3>1, NewQuote
    <3>3. quotes[i].charge \in Quoted(store[i], price, quotes[i].on)
      BY <3>2 DEF QuotesInv
    <3>4. Now < EndOf(store[i])
      BY <3>2 DEF Running
    <3>5. /\ Share(store[i], quotes[i]) = (price - store[i].amount) * (EndOf(store[i]) - quotes[i].on)
          /\ Share(store[i], quotes'[i]) = (price - store[i].amount) * (EndOf(store[i]) - Now)
      BY <3>2 DEF Share
    <3> HIDE DEF Now
    <3> QED
      BY <2>1, <2>2, <3>2, <3>3, <3>4, <3>5, LaterQuote
  <2>4. CASE quotes'[i] = quotes[i]
    BY <2>1, <2>4
  <2> QED
    BY <2>3, <2>4, OldQuotes
<1> QED
  BY <1>1, QuotesInvariant, PTL DEF Spec, WaitingCostsOne

-----------------------------------------------------------------------------
\* Conversion.

FirstCents == IF deposit.currency = "USD" THEN deposit.amount ELSE ToUSD(deposit.amount)

\* The amounts in cents that can still turn up
Reachable(c) ==
  \/ c = FirstCents
  \/ FirstCents % 2 = 1 /\ c = FirstCents - (IF FirstCents > 0 THEN 1 ELSE -1)

CInv ==
  /\ deposit \in Wallets /\ wallet \in Wallets
  /\ IF wallet.currency = "USD" THEN Reachable(wallet.amount)
     ELSE wallet = deposit \/ \E c \in Int : Reachable(c) /\ wallet.amount = ToINR(c)

LEMMA RoundTrip ==
  ASSUME NEW c \in Int
  PROVE  /\ ToINR(c) \in Int /\ ToUSD(c) \in Int
         /\ ToUSD(ToINR(c)) = IF c % 2 = 0 THEN c ELSE c - (IF c > 0 THEN 1 ELSE -1)
BY DEF ToINR, ToUSD, Cut

\* What one conversion cuts off.
LEMMA CutBounds ==
  ASSUME NEW c \in Int
  PROVE  /\ ToINR(c) \in Int /\ ToUSD(c) \in Int
         /\ c >= 0 => /\ ToINR(c) >= 0 /\ 167 * c - 2 * ToINR(c) \in 0..1
                      /\ ToUSD(c) >= 0 /\ 2 * c - 167 * ToUSD(c) \in 0..166
         /\ c <= 0 => /\ ToINR(c) <= 0 /\ 2 * ToINR(c) - 167 * c \in 0..1
                      /\ ToUSD(c) <= 0 /\ 167 * ToUSD(c) - 2 * c \in 0..166
         /\ c % 2 = 0 => 2 * ToINR(c) = 167 * c
BY DEF ToINR, ToUSD, Cut

LEMMA ConvertCInv == CInv /\ Convert => CInv'
<1> SUFFICES ASSUME CInv, Convert PROVE CInv'
  OBVIOUS
<1>1. /\ deposit.amount \in Int /\ deposit.currency \in {"USD", "INR"}
      /\ wallet.amount \in Int /\ wallet.currency \in {"USD", "INR"} /\ UNCHANGED deposit
  BY DEF CInv, Wallets, Currencies, Convert
<1>2. FirstCents \in Int /\ FirstCents' = FirstCents /\ \A c : Reachable(c)' <=> Reachable(c)
  BY <1>1, RoundTrip DEF FirstCents, Reachable
<1>3. CASE wallet.currency = "USD"
  <2>1. wallet' = [amount |-> ToINR(wallet.amount), currency |-> "INR"]
    BY <1>3 DEF Convert
  <2>2. Reachable(wallet.amount)
    BY <1>3 DEF CInv
  <2> QED
    BY <1>1, <1>2, <2>1, <2>2, RoundTrip DEF CInv, Wallets, Currencies
<1>4. CASE wallet.currency = "INR"
  <2>1. wallet' = [amount |-> ToUSD(wallet.amount), currency |-> "USD"]
    BY <1>4 DEF Convert
  <2>2. CASE wallet = deposit
    BY <1>1, <1>2, <1>4, <2>1, <2>2, RoundTrip DEF CInv, Wallets, Currencies, Reachable, FirstCents
  <2>3. ASSUME NEW c \in Int, Reachable(c), wallet.amount = ToINR(c)
        PROVE  CInv'
    <3>1. Reachable(ToUSD(ToINR(c)))
      BY <1>2, <2>3, RoundTrip DEF Reachable
    <3> QED
      BY <1>1, <1>2, <2>1, <2>3, <3>1, RoundTrip DEF CInv, Wallets, Currencies
  <2> QED
    BY <1>4, <2>2, <2>3 DEF CInv
<1> QED
  BY <1>1, <1>3, <1>4

LEMMA CInvMeaning == CInv => ConversionLoss
<1> SUFFICES ASSUME CInv PROVE ConversionLoss
  OBVIOUS
<1>1. /\ deposit.amount \in Int /\ deposit.currency \in {"USD", "INR"}
      /\ wallet.amount \in Int /\ wallet.currency \in {"USD", "INR"}
  BY DEF CInv, Wallets, Currencies
<1>2. FirstCents \in Int
  BY <1>1, RoundTrip DEF FirstCents
<1>3. CASE wallet = deposit
  BY <1>1, <1>3 DEF ConversionLoss, Worth
<1> DEFINE was == Worth(deposit)
           lost(w) == IF was >= 0 THEN was - w ELSE w - was
           Near(w) == (was >= 0 => w >= 0) /\ (was <= 0 => w <= 0)
<1>4. was \in Int /\ Worth(wallet) \in Int
  BY <1>1 DEF Worth
<1>5. Near(167 * FirstCents) /\ lost(167 * FirstCents) \in 0..166
  BY <1>1, CutBounds DEF FirstCents, Worth
<1>6. deposit.currency = "USD" => was = 167 * FirstCents
  BY DEF FirstCents, Worth
<1> HIDE DEF was
<1>7. ASSUME NEW c \in Int, Reachable(c)
      PROVE  /\ Near(167 * c) /\ lost(167 * c) \in 0..333
             /\ deposit.currency = "USD" => lost(167 * c) <= 167
             /\ c % 2 = 1 => lost(167 * c) \in 0..166
  BY <1>2, <1>4, <1>5, <1>6, <1>7 DEF Reachable
<1>8. CASE wallet.currency = "USD"
  <2>1. Reachable(wallet.amount) /\ Worth(wallet) = 167 * wallet.amount
    BY <1>8 DEF CInv, Worth
  <2> QED
    BY <1>1, <1>7, <2>1 DEF ConversionLoss, was
<1>9. ASSUME NEW c \in Int, Reachable(c), wallet.amount = ToINR(c), wallet.currency = "INR"
      PROVE  ConversionLoss
  <2>1. Worth(wallet) = 2 * ToINR(c) /\ wallet.currency # "USD"
    BY <1>9 DEF Worth
  <2>2. /\ Near(167 * c) /\ lost(167 * c) \in 0..333
        /\ c % 2 = 1 => lost(167 * c) \in 0..166
    BY <1>7, <1>9
  <2>3. /\ ToINR(c) \in Int /\ c % 2 \in {0, 1}
        /\ c >= 0 => ToINR(c) >= 0 /\ 167 * c - 2 * ToINR(c) \in 0..1
        /\ c <= 0 => ToINR(c) <= 0 /\ 2 * ToINR(c) - 167 * c \in 0..1
        /\ c % 2 = 0 => 2 * ToINR(c) = 167 * c
    BY CutBounds
  <2>4. Near(2 * ToINR(c)) /\ lost(2 * ToINR(c)) \in 0..333
    BY <1>4, <2>2, <2>3
  <2> QED
    BY <2>1, <2>4 DEF ConversionLoss, was
<1> QED
  BY <1>1, <1>3, <1>8, <1>9 DEF CInv

(***************************************************************************)
(* ConvertMinorUnits never creates money, and repeating it loses less than *)
(* two cents in all.                                                       *)
(***************************************************************************)
THEOREM ConversionIsSafe == Spec => []ConversionLoss
<1>1. Init => CInv
  BY BillingAssumption DEF Init, CInv, Wallets, Currencies, Reachable, FirstCents
<1>2. CInv /\ [Next]_vars => CInv'
  <2> SUFFICES ASSUME CInv, [Next]_vars PROVE CInv'
    OBVIOUS
  <2>1. Convert \/ UNCHANGED <<deposit, wallet>>
    BY DEF Next, TimePasses, Restart, CreateSubscription, Store, CalculateProration, money, vars
  <2> QED
    BY <2>1, ConvertCInv DEF CInv, Reachable, FirstCents
<1> QED
  BY <1>1, <1>2, CInvMeaning, PTL DEF Spec
=============================================================================
