---------------------------- MODULE AccessTokens ----------------------------
(***************************************************************************)
(* JWT access tokens:                                                      *)
(*                                                                         *)
(*   internal/service/jwt_auth.go      GenerateAccessToken, RevokeToken,   *)
(*                                     ValidateAccessToken                 *)
(*   internal/handler/jwt_handler.go   the handlers for issue and revoke   *)
(*                                                                         *)
(* A token is its claims: sub, and iat in whole seconds (the RS256         *)
(* signature is a function of the claims).  The clock is finer than a      *)
(* second.  A revoked token is kept in Redis for as long as tokens live;   *)
(* validation asks Redis first, and checks signature and expiry later.     *)
(***************************************************************************)
EXTENDS Integers

CONSTANTS
  ClientIds,     \* client_id of a token request
  Validations,   \* calls of ValidateAccessToken
  Second,        \* clock ticks in a second
  Life,          \* lifetime of a token in seconds (900 in the code)
  MaxTime,       \* bound on the clock
  None           \* a validation that has not begun

ASSUME TokenAssumption ==
  /\ Second \in Nat \ {0}
  /\ Life \in Nat \ {0}
  /\ MaxTime \in Nat

Tokens == [sub : ClientIds, iat : 0..MaxTime]

ASSUME NoneAssumption == None \notin Tokens

VARIABLES
  now,         \* the clock, in ticks
  issued,      \* tokens clients have
  blacklist,   \* Redis "blacklist:<token>": when its TTL runs out
  revoked,     \* history: tokens whose revocation was answered 204
  pc,          \* where each validation is
  token,       \* the token it was given
  tooLate,     \* history: validations that began after the revocation of their token
  blind        \* history: validations whose lookup in Redis failed

tokens == <<issued, blacklist, revoked>>
checks == <<pc, token, tooLate, blind>>
vars == <<now, issued, blacklist, revoked, pc, token, tooLate, blind>>

Init ==
  /\ now = 0
  /\ issued = {}
  /\ blacklist = [t \in Tokens |-> 0]
  /\ revoked = {}
  /\ pc = [v \in Validations |-> "idle"]
  /\ token = [v \in Validations |-> None]
  /\ tooLate = {}
  /\ blind = {}

Tick ==
  /\ now < MaxTime
  /\ now' = now + 1
  /\ UNCHANGED <<tokens, checks>>

\* time.Now().Unix()
InSecond(s) == s * Second <= now /\ now < (s + 1) * Second

\* IssueTokenHandler: any client_id gets a token.
IssueToken(c) ==
  /\ \E s \in 0..MaxTime :
       InSecond(s) /\ issued' = issued \cup {[sub |-> c, iat |-> s]}
  /\ UNCHANGED <<now, blacklist, revoked, checks>>

BlacklistUntil_Short == now + Life

\* The TTL RevokeTokenHandler asks for is counted from now.
BlacklistUntil == now + Life * Second

\* rdb.Set succeeds: 204.
RevokeToken(t) ==
  /\ t \in issued
  /\ blacklist' = [blacklist EXCEPT ![t] = BlacklistUntil]
  /\ revoked' = revoked \cup {t}
  /\ UNCHANGED <<now, issued, checks>>

\* It fails, with or without having taken effect: 500.
RevokeTokenFails(t) ==
  /\ t \in issued
  /\ blacklist' \in {blacklist, [blacklist EXCEPT ![t] = BlacklistUntil]}
  /\ UNCHANGED <<now, issued, revoked, checks>>

-----------------------------------------------------------------------------
Goto(v, from, to) ==
  /\ pc[v] = from
  /\ pc' = [pc EXCEPT ![v] = to]

Begin(v, t) ==
  /\ t \in issued
  /\ token' = [token EXCEPT ![v] = t]
  /\ tooLate' = IF t \in revoked THEN tooLate \cup {v} ELSE tooLate

\* ValidateAccessToken, the lookup: "true", or nothing under that name.
LookUp(v, t) ==
  /\ Begin(v, t)
  /\ Goto(v, "idle", IF now < blacklist[t] THEN "revoked" ELSE "parse")
  /\ UNCHANGED <<now, tokens, blind>>

\* An error is treated like a name that is not there.
LookUpFails(v, t) ==
  /\ Begin(v, t)
  /\ Goto(v, "idle", "parse")
  /\ blind' = blind \cup {v}
  /\ UNCHANGED <<now, tokens>>

Exp(t) == (t.iat + Life) * Second

\* jwt.Parse: the signature of an issued token is good, so only exp matters.
Parse(v) ==
  /\ Goto(v, "parse", IF now < Exp(token[v]) THEN "accepted" ELSE "invalid")
  /\ UNCHANGED <<now, tokens, token, tooLate, blind>>

-----------------------------------------------------------------------------
Next ==
  \/ Tick
  \/ \E c \in ClientIds : IssueToken(c)
  \/ \E t \in Tokens : RevokeToken(t) \/ RevokeTokenFails(t)
  \/ \E v \in Validations : Parse(v) \/ \E t \in Tokens : LookUp(v, t) \/ LookUpFails(v, t)

Spec == Init /\ [][Next]_vars

-----------------------------------------------------------------------------
(***************************************************************************)
(* Type invariant of the tokens, the blacklist and the validations.        *)
(***************************************************************************)
TypeOK ==
  /\ now \in 0..MaxTime
  /\ issued \subseteq Tokens
  /\ blacklist \in [Tokens -> Nat]
  /\ revoked \subseteq Tokens
  /\ pc \in [Validations -> {"idle", "parse", "revoked", "accepted", "invalid"}]
  /\ token \in [Validations -> Tokens \cup {None}]
  /\ tooLate \subseteq Validations
  /\ blind \subseteq Validations

(***************************************************************************)
(* "to immediately block it from future requests": a token whose           *)
(* revocation was confirmed is not accepted by any validation that begins  *)
(* later, also when the name leaves the blacklist around the time the      *)
(* token expires, and when time passes between the lookup and the check of *)
(* exp.  Only a lookup that failed lets it through.                        *)
(***************************************************************************)
RevokedStaysOut == \A v \in tooLate : pc[v] = "accepted" => v \in blind
=============================================================================
