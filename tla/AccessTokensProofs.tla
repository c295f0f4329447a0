-------------------------- MODULE AccessTokensProofs --------------------------
(***************************************************************************)
(* A revoked token leaves the blacklist no earlier than it expires, so a   *)
(* lookup that does not find it happens after its expiry, and the check of *)
(* exp happens later still.                                                *)
(***************************************************************************)
EXTENDS AccessTokens, TLAPS

IssuedBefore == \A t \in issued : t.iat * Second <= now

OutlivesToken == revoked \subseteq issued /\ \A t \in revoked : Exp(t) <= blacklist[t]

GivenToken == \A v \in Validations : pc[v] # "idle" => token[v] \in issued

\* Where a validation that began after the revocation can be.
Doomed ==
  \A v \in tooLate :
    v \notin blind => pc[v] \in {"revoked", "invalid"} \/ (pc[v] = "parse" /\ Exp(token[v]) <= now)

IInv == TypeOK /\ IssuedBefore /\ OutlivesToken /\ GivenToken /\ Doomed

LEMMA ExpType == \A t \in Tokens : t.iat \in Nat /\ t.iat * Second \in Nat
                                   /\ Exp(t) = t.iat * Second + Life * Second
<1> SUFFICES ASSUME NEW t \in Tokens
             PROVE  t.iat \in Nat /\ t.iat * Second \in Nat
                    /\ Exp(t) = t.iat * Second + Life * Second
  OBVIOUS
<1>1. t.iat \in Nat
  BY TokenAssumption DEF Tokens
<1>2. \A a, b, c \in Nat : a * c \in Nat /\ (a + b) * c = a * c + b * c
  BY SMT
<1> QED
  BY <1>1, <1>2, TokenAssumption DEF Exp

LEMMA InitIInv == Init => IInv
BY TokenAssumption DEF Init, IInv, TypeOK, IssuedBefore, OutlivesToken, GivenToken, Doomed

LEMMA NextIInv == IInv /\ [Next]_vars => IInv'
<1> SUFFICES ASSUME IInv, [Next]_vars PROVE IInv'
  OBVIOUS
<1> USE TokenAssumption DEF IInv, tokens, checks
<1>1. CASE Tick
  BY <1>1, ExpType DEF Tick, TypeOK, IssuedBefore, OutlivesToken, GivenToken, Doomed, Exp
<1>2. ASSUME NEW c \in ClientIds, IssueToken(c)
      PROVE  IInv'
  <2>0. PICK s \in 0..MaxTime : InSecond(s) /\ issued' = issued \cup {[sub |-> c, iat |-> s]}
    BY <1>2 DEF IssueToken
  <2> DEFINE t == [sub |-> c, iat |-> s]
  <2>1. t \in Tokens /\ t.iat * Second <= now
    BY <2>0 DEF InSecond, Tokens
  <2>2. issued' = issued \cup {t} /\ UNCHANGED <<now, blacklist, revoked, pc, token, tooLate, blind>>
    BY <1>2, <2>0 DEF IssueToken
  <2> HIDE DEF t
  <2> QED
    BY <2>1, <2>2 DEF TypeOK, IssuedBefore, OutlivesToken, GivenToken, Doomed, Exp
<1>3. ASSUME NEW t \in Tokens, RevokeToken(t) \/ RevokeTokenFails(t)
      PROVE  IInv'
  <2>1. t \in issued /\ now \in Nat /\ Life * Second \in Nat
    BY <1>3 DEF RevokeToken, RevokeTokenFails, TypeOK
  <2>2. BlacklistUntil \in Nat /\ Exp(t) <= BlacklistUntil
    BY <2>1, ExpType DEF BlacklistUntil, IssuedBefore
  <2>3. /\ blacklist' \in {blacklist, [blacklist EXCEPT ![t] = BlacklistUntil]}
        /\ revoked' \in {revoked, revoked \cup {t}}
        /\ t \in revoked' => t \in revoked \/ blacklist' = [blacklist EXCEPT ![t] = BlacklistUntil]
        /\ UNCHANGED <<now, issued, pc, token, tooLate, blind>>
    BY <1>3 DEF RevokeToken, RevokeTokenFails
  <2>4. TypeOK'
    BY <2>2, <2>3 DEF TypeOK
  <2>5. OutlivesToken'
    BY <2>1, <2>2, <2>3 DEF TypeOK, OutlivesToken, Exp
  <2>6. IssuedBefore' /\ GivenToken' /\ Doomed'
    BY <2>3 DEF IssuedBefore, GivenToken, Doomed, Exp
  <2> QED
    BY <2>4, <2>5, <2>6
<1>4. ASSUME NEW v \in Validations, NEW t \in Tokens, LookUp(v, t) \/ LookUpFails(v, t)
      PROVE  IInv'
  <2> USE <1>4 DEF LookUp, LookUpFails, Begin, Goto
  <2>1. TypeOK'
    BY DEF TypeOK
  <2>2. IssuedBefore' /\ OutlivesToken' /\ GivenToken'
    BY DEF TypeOK, IssuedBefore, OutlivesToken, GivenToken, Exp
  <2>3. t \in revoked /\ ~(now < blacklist[t]) => Exp(t) <= now
    BY ExpType DEF OutlivesToken, TypeOK
  <2>4. Doomed'
    BY <2>3 DEF TypeOK, Doomed, Exp
  <2> QED
    BY <2>1, <2>2, <2>4
<1>5. ASSUME NEW v \in Validations, Parse(v)
      PROVE  IInv'
  <2> USE <1>5 DEF Parse, Goto
  <2>1. token[v] \in Tokens
    BY DEF TypeOK, GivenToken
  <2>2. TypeOK' /\ IssuedBefore' /\ OutlivesToken' /\ GivenToken'
    BY DEF TypeOK, IssuedBefore, OutlivesToken, GivenToken, Exp
  <2>3. Exp(token[v]) <= now => ~(now < Exp(token[v]))
    BY <2>1, ExpType DEF TypeOK
  <2>4. Doomed'
    BY <2>3 DEF TypeOK, Doomed, Exp
  <2> QED
    BY <2>2, <2>4
<1>6. CASE UNCHANGED vars
  BY <1>6 DEF vars, TypeOK, IssuedBefore, OutlivesToken, GivenToken, Doomed, Exp
<1> QED
  BY <1>1, <1>2, <1>3, <1>4, <1>5, <1>6 DEF Next

(***************************************************************************)
(* For every lifetime, clock resolution and number of validations, a token *)
(* whose revocation was confirmed is refused by every later validation     *)
(* whose lookup in Redis worked.                                           *)
(***************************************************************************)
THEOREM RevocationHolds == Spec => [](TypeOK /\ RevokedStaysOut)
<1>1. IInv => TypeOK /\ RevokedStaysOut
  BY DEF IInv, Doomed, RevokedStaysOut
<1> QED
  BY <1>1, InitIInv, NextIInv, PTL DEF Spec
=============================================================================
