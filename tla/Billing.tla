------------------------------ MODULE Billing ------------------------------
(***************************************************************************)
(* What a customer is asked to pay:                                        *)
(*                                                                         *)
(*   internal/handler/subscription_handler.go  CreateSubscriptionHandler   *)
(*   internal/service/subscription.go   CreateSubscription,                *)
(*                                      CalculateProration                 *)
(*   internal/service/currency.go       ConvertMinorUnits                  *)
(*                                                                         *)
(* Subscriptions live in the memory of the process.  A period ends where   *)
(* the AddDate of Go's time package says; a quote for another plan is a    *)
(* fraction of the difference in price, computed in floating point.  An    *)
(* instant is a date and a number of ticks since midnight, in UTC.         *)
(* Amounts are any integers, for no caller validates them; they are small  *)
(* enough to be exact as float64.                                          *)
(***************************************************************************)
EXTENDS Integers

CONSTANTS
  Ids,        \* subscription ids (64 random bits in the code: never drawn twice)
  Dates,      \* the days on which something happens
  DayTicks,   \* readings of the clock in a day (of a nanosecond each in the code)
  Prices,     \* amounts of plans
  Rounding,   \* bound on the error of a quote, in minor units times ticks
  Deposits    \* amounts to convert, with their currencies

\* What clients send; api/openapi.yaml offers "yearly".
Periods == {"monthly", "annual", "yearly"}

Currencies == {"USD", "INR"}
Wallets == [amount : Int, currency : Currencies]

Leap(y) == y % 4 = 0 /\ (y % 100 # 0 \/ y % 400 = 0)

MonthLength(y, m) ==
  IF m = 2 THEN (IF Leap(y) THEN 29 ELSE 28) ELSE IF m \in {4, 6, 9, 11} THEN 30 ELSE 31

(***************************************************************************)
(* The last conjunct but one: all rounding errors of CalculateProration    *)
(* together stay below half a minor unit, whatever the length of the       *)
(* period.  Prices of up to 2^44 minor units satisfy it amply.             *)
(***************************************************************************)
ASSUME BillingAssumption ==
  /\ Dates \subseteq [y : Nat, m : 1..12, d : 1..31]
  /\ \A t \in Dates : t.d <= MonthLength(t.y, t.m)
  /\ DayTicks \in Nat \ {0}
  /\ Prices \subseteq Int
  /\ Rounding \in Nat /\ 2 * Rounding < 28 * DayTicks
  /\ Deposits \subseteq Wallets

VARIABLES
  today,     \* the date
  clock,     \* the ticks since midnight
  store,     \* sync.Map: id -> subscription
  quotes,    \* history: the last quote for a subscription, if it still exists
  issued,    \* history: ids drawn so far
  deposit,   \* history: an amount before any conversion
  wallet     \* what repeated conversion has made of it

time == <<today, clock>>
subscriptions == <<store, quotes, issued>>
money == <<deposit, wallet>>
vars == <<today, clock, store, quotes, issued, deposit, wallet>>

-----------------------------------------------------------------------------
(***************************************************************************)
(* Dates, as in Go's time package: a date stands for a number of days, and *)
(* a day past the end of its month for one of the next month.              *)
(***************************************************************************)
YearStart(y) == 365 * y + (y + 3) \div 4 - (y + 99) \div 100 + (y + 399) \div 400

DaysBefore == <<0, 31, 59, 90, 120, 151, 181, 212, 243, 273, 304, 334>>

DayNumber(y, m, d) ==
  YearStart(y) + DaysBefore[m] + (IF m > 2 /\ Leap(y) THEN 1 ELSE 0) + d - 1

Today == DayNumber(today.y, today.m, today.d)

\* time.Now()
Now == Today * DayTicks + clock

NextMonth_NoCarry(t) == DayNumber(t.y, IF t.m = 12 THEN 1 ELSE t.m + 1, t.d)

NextMonth_ThirtyDays(t) == DayNumber(t.y, t.m, t.d) + 30

\* t.AddDate(0, 1, 0)
NextMonth(t) ==
  IF t.m = 12 THEN DayNumber(t.y + 1, 1, t.d) ELSE DayNumber(t.y, t.m + 1, t.d)

\* t.AddDate(1, 0, 0)
NextYear(t) == DayNumber(t.y + 1, t.m, t.d)

-----------------------------------------------------------------------------
Init ==
  /\ today \in Dates
  /\ clock \in 0..(DayTicks - 1)
  /\ store = <<>>
  /\ quotes = <<>>
  /\ issued = {}
  /\ deposit \in Deposits
  /\ wallet = deposit

TimePasses ==
  /\ today' \in Dates
  /\ clock' \in 0..(DayTicks - 1)
  /\ Now' > Now
  /\ UNCHANGED <<subscriptions, money>>

\* Both ends of a period are at the same time of day.
Store(id, amount, period) ==
  /\ store' = [i \in DOMAIN store \cup {id} |->
       IF i = id
       THEN [amount |-> amount, period |-> period, start |-> today, at |-> clock,
             end |-> IF period = "monthly" THEN NextMonth(today) ELSE NextYear(today)]
       ELSE store[i]]
  /\ issued' = issued \cup {id}
  /\ UNCHANGED <<time, quotes, money>>

CreateSubscription_AnyPeriod(id, amount, period) ==
  /\ id \notin issued
  /\ Store(id, amount, period)

(***************************************************************************)
(* POST /v1/subscriptions with a period the service knows.  A body that    *)
(* cannot be parsed is answered 400, another period 422; both leave        *)
(* everything as it is.                                                    *)
(***************************************************************************)
CreateSubscription(id, amount, period) ==
  /\ id \notin issued
  /\ period \in {"monthly", "annual"}
  /\ Store(id, amount, period)

\* CurrentPeriodStart and CurrentPeriodEnd
FirstDay(s) == DayNumber(s.start.y, s.start.m, s.start.d)
StartOf(s) == FirstDay(s) * DayTicks + s.at
EndOf(s) == s.end * DayTicks + s.at

\* A charge of n/total, cut off; a negative one is none.
Charged(n, total) == IF n < 0 THEN 0 ELSE n \div total

Prorated_UsedDays(s, newAmount) ==
  IF Now >= EndOf(s) THEN {newAmount}
  ELSE {Charged((newAmount - s.amount) * (Now - StartOf(s)), EndOf(s) - StartOf(s))}

(***************************************************************************)
(* What CalculateProration may return for a subscription s.  The share of  *)
(* the time left is taken of both prices in floating point and one product *)
(* subtracted from the other.  Depending on the operands the result is off *)
(* to either side, by up to Rounding, before it is cut off; only at the    *)
(* very start of a period is the ratio 1.0 and everything exact.           *)
(***************************************************************************)
Prorated(s, newAmount) ==
  LET total == EndOf(s) - StartOf(s)
      rem   == EndOf(s) - Now
      due   == (newAmount - s.amount) * rem
      error == IF rem = total THEN 0 ELSE Rounding
  IN  IF rem <= 0 THEN {newAmount}
      ELSE {Charged(n, total) : n \in (due - error)..(due + error)}

\* An id that is not in the store gets ErrSubscriptionNotFound and no quote.
CalculateProration(id, newAmount) ==
  /\ id \in DOMAIN store
  /\ \E charge \in Prorated(store[id], newAmount) :
       quotes' = [i \in DOMAIN quotes \cup {id} |->
         IF i = id THEN [price |-> newAmount, on |-> Now, charge |-> charge] ELSE quotes[i]]
  /\ UNCHANGED <<time, store, issued, money>>

\* The process starts again with an empty store.
Restart ==
  /\ store' = <<>>
  /\ quotes' = <<>>
  /\ UNCHANGED <<time, issued, money>>

-----------------------------------------------------------------------------
(***************************************************************************)
(* ConvertMinorUnits: 83.50 paise to the cent.  int64() cuts off the       *)
(* fraction, towards zero.  Any other currency is an error, and the same   *)
(* currency leaves the amount alone.                                       *)
(***************************************************************************)
Cut(n, d) == IF n >= 0 THEN n \div d ELSE -((-n) \div d)

ToUSD_RoundedUp(paise) == Cut(2 * paise + 166, 167)

ToINR(cents) == Cut(167 * cents, 2)

ToUSD(paise) == Cut(2 * paise, 167)

Convert ==
  /\ wallet' = IF wallet.currency = "USD"
               THEN [amount |-> ToINR(wallet.amount), currency |-> "INR"]
               ELSE [amount |-> ToUSD(wallet.amount), currency |-> "USD"]
  /\ UNCHANGED <<time, subscriptions, deposit>>

Next ==
  \/ TimePasses \/ Restart \/ Convert
  \/ \E id \in Ids, amount \in Prices :
       \/ \E period \in Periods : CreateSubscription(id, amount, period)
       \/ CalculateProration(id, amount)

Spec == Init /\ [][Next]_vars

-----------------------------------------------------------------------------
(***************************************************************************)
(* Type invariant of the store, the quotes and the amounts.                *)
(***************************************************************************)
TypeOK ==
  /\ today \in Dates /\ clock \in 0..(DayTicks - 1)
  /\ issued \subseteq Ids
  /\ DOMAIN store \subseteq issued /\ DOMAIN quotes \subseteq DOMAIN store
  /\ \A i \in DOMAIN store :
       store[i] \in [amount : Prices, period : {"monthly", "annual"}, start : Dates,
                     at : 0..(DayTicks - 1), end : Int]
  /\ \A i \in DOMAIN quotes : quotes[i] \in [price : Prices, on : Int, charge : Int]
  /\ deposit \in Deposits /\ wallet \in Wallets

\* The 29th of February that falls into a year from t on, if there is one
LeapDayFrom(t, end) ==
  \E y \in {t.y, t.y + 1} :
    Leap(y) /\ DayNumber(y, 2, 29) \in DayNumber(t.y, t.m, t.d)..(end - 1)

(***************************************************************************)
(* "Lookahead exactly 1 month", "exactly 1 year": whatever the day, a      *)
(* customer pays for as many days as the month the period starts in has,   *)
(* or for 365 days and the leap day if one falls among them - also where   *)
(* AddDate runs past the end of a short month or into the next year.       *)
(***************************************************************************)
PeriodLength ==
  \A i \in DOMAIN store : LET s == store[i] IN
    s.end - FirstDay(s) = IF s.period = "monthly" THEN MonthLength(s.start.y, s.start.m)
                          ELSE IF LeapDayFrom(s.start, s.end) THEN 366 ELSE 365

(***************************************************************************)
(* Of two customers with the same kind of plan, the one who came later is  *)
(* served for longer, but for less than three days: the overflow of        *)
(* AddDate carries one who came late on the 31st of January to the 3rd of  *)
(* March, one who came early on the 1st of February to the 1st of March.   *)
(***************************************************************************)
NoOvertaking ==
  \A i, j \in DOMAIN store :
    store[i].period = store[j].period /\ StartOf(store[i]) < StartOf(store[j])
      => EndOf(store[j]) > EndOf(store[i]) - 3 * DayTicks

\* The difference in price, times the time left
Share(s, q) == (q.price - s.amount) * (EndOf(s) - q.on)

Running(s, q) == q.on < EndOf(s)

(***************************************************************************)
(* Whatever the rounding in CalculateProration, an upgrade costs its share *)
(* of the time left in whole minor units, give or take one; it is never    *)
(* negative and never more than the difference in price.  A downgrade      *)
(* costs nothing, and after the end of the period the whole price is due.  *)
(***************************************************************************)
QuoteOffByOne ==
  \A i \in DOMAIN quotes :
    LET s == store[i]
        q == quotes[i]
    IN  IF ~Running(s, q) THEN q.charge = q.price
        ELSE IF q.price <= s.amount THEN q.charge = 0
        ELSE /\ q.charge \in 0..(q.price - s.amount)
             /\ q.charge - Share(s, q) \div (EndOf(s) - StartOf(s)) \in -1..1

(***************************************************************************)
(* Within a period a customer who asks for the same plan again is quoted   *)
(* one minor unit more at most, for the rounding of CalculateProration may *)
(* go down first and up the next time; and nothing more once the share has *)
(* fallen by more than the rounding can make up for.                       *)
(***************************************************************************)
WaitingCostsOne ==
  [][\A i \in DOMAIN quotes \cap DOMAIN quotes' :
       quotes'[i].price = quotes[i].price /\ quotes[i].on < quotes'[i].on /\ Running(store[i], quotes'[i])
         => /\ quotes'[i].charge <= quotes[i].charge + 1
            /\ Share(store[i], quotes'[i]) + 2 * Rounding <= Share(store[i], quotes[i])
                 => quotes'[i].charge <= quotes[i].charge]_vars

\* In units of half a paisa, of which a cent has 167
Worth(w) == IF w.currency = "USD" THEN 167 * w.amount ELSE 2 * w.amount

(***************************************************************************)
(* However often an amount is converted back and forth, nobody gains by    *)
(* it, and what is lost is less than two cents in all; an amount in cents  *)
(* that is back in cents has lost one cent at most.                        *)
(***************************************************************************)
ConversionLoss ==
  LET was == Worth(deposit)
      is  == Worth(wallet)
      gone == IF was >= 0 THEN was - is ELSE is - was
  IN  /\ was >= 0 => is >= 0
      /\ was <= 0 => is <= 0
      /\ gone \in 0..333
      /\ deposit.currency = "USD" /\ wallet.currency = "USD" => gone <= 167
=============================================================================
