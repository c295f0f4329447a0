----------------------------- MODULE MCBilling -----------------------------
EXTENDS Billing, FiniteSets, TLC

CONSTANTS s1, s2

On(y, m, d) == [y |-> y, m |-> m, d |-> d]

\* Ends of months, turns of the year, leap days, and a year that is not one
MCDates ==
  {On(2023, 12, 31), On(2024, 1, 31), On(2024, 2, 1), On(2024, 2, 29), On(2024, 3, 1), On(2024, 12, 31),
   On(2025, 1, 31), On(2025, 2, 1), On(2025, 2, 28), On(2100, 2, 28), On(2100, 3, 1)}

\* Upgrades by 1, 61 and 62, whose shares are whole numbers or a tick away from one.
MCPrices == {-1, 60, 61}

MCDeposits ==
  [amount : {-84, 1, 2, 83, 84, 167, 250}, currency : {"USD", "INR"}]

(***************************************************************************)
(* Subscriptions, quotes and conversions of different customers share no   *)
(* state: conversions are explored without subscriptions, and quotes with  *)
(* one subscription.                                                       *)
(***************************************************************************)
Apart ==
  /\ issued = {} \/ (wallet = deposit /\ deposit = [amount |-> 1, currency |-> "USD"])
  /\ Cardinality(issued) <= 1 \/ DOMAIN quotes = {}

Symmetry == Permutations({s1, s2})
=============================================================================
