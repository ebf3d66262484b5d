----------------------------- MODULE IgdbToken -----------------------------
(***************************************************************************)
(* IGDBService's access token, cached between requests, and the requests   *)
(* to IGDB that carry it.  Every caller that finds the cache empty or      *)
(* about to expire authenticates for itself, so several authentications    *)
(* are under way at once (one game-of-the-week request starts two), their  *)
(* answers arrive in any order, and the last to arrive stays in the cache. *)
(*                                                                         *)
(* The authorization server dates a token from the moment it issues it,    *)
(* the service from the moment the answer arrives.  Time is in seconds and *)
(* a token is named by the moment IGDB stops taking it.                    *)
(***************************************************************************)
EXTENDS Integers

CONSTANTS
  Calls,      \* slots for getAccessToken calls in flight, with their request
  Lifetimes,  \* expires_in of the answers; 0 stands for a missing field
  MARGIN,     \* the token counts as expired so long before (5 s)
  MAX_ANSWER, \* longest way of an answer from the authorization server
  MAX_QUERY,  \* longest way of a request to IGDB
  MAX_TIME,   \* bound on the clock, for TLC
  NULL        \* null

ASSUME TimesAssumption ==
  MARGIN \in Nat /\ MAX_ANSWER \in Nat /\ MAX_QUERY \in Nat /\ MAX_TIME \in Nat

\* The margin covers the two ways it is there for.
ASSUME MarginAssumption == MAX_ANSWER + MAX_QUERY <= MARGIN

\* External: no token is dead before its first use (Twitch's live for weeks).
ASSUME LifetimeAssumption ==
  Lifetimes \subseteq Nat /\ \A l \in Lifetimes : l = 0 \/ l > MARGIN

ASSUME NullAssumption == NULL \notin Nat

VARIABLES
  now,          \* Date.now()
  accessToken,  \* the token in the cache
  expiresAt,    \* when the service thinks it expires
  call          \* call -> where it stands, and its locals

vars == <<now, accessToken, expiresAt, call>>

-----------------------------------------------------------------------------

Steps == {"idle",
          "authenticate",  \* the request to the authorization server is out
          "answer",        \* its answer is under way since `since'
          "query"}         \* a request with `token' is under way since `since'

Call == [step : Steps, token : Nat \union {NULL}, lifetime : Lifetimes \union {NULL},
         since : Nat \union {NULL}]
Idle == [step |-> "idle", token |-> NULL, lifetime |-> NULL, since |-> NULL]

Become(c, k) == call' = [call EXCEPT ![c] = k]
Finish(c)    == Become(c, Idle)

Query(token) == [step |-> "query", token |-> token, lifetime |-> NULL, since |-> now]

\* Faulty variant: no margin.
TokenHasExpiredExactly == expiresAt = NULL \/ now >= expiresAt

TokenHasExpired == expiresAt = NULL \/ now >= expiresAt - MARGIN

\* getAccessToken, up to the await: a cached token is used at once.
GetAccessToken(c) ==
  /\ call[c].step = "idle"
  /\ Become(c, IF accessToken # NULL /\ ~TokenHasExpired
                 THEN Query(accessToken) ELSE [Idle EXCEPT !.step = "authenticate"])
  /\ UNCHANGED <<now, accessToken, expiresAt>>

\* External: the authorization server issues a token and answers.
IssueToken(c) ==
  /\ call[c].step = "authenticate"
  /\ \E l \in Lifetimes :
       Become(c, [step |-> "answer", token |-> now + l, lifetime |-> l, since |-> now])
  /\ UNCHANGED <<now, accessToken, expiresAt>>

\* Faulty variant: the two fields are cached apart, and an answer that comes
\* after a later one keeps that one's expiry.
AuthenticatedKeepsExpiry(c) ==
  /\ call[c].step = "answer" /\ call[c].lifetime # 0
  /\ accessToken' = call[c].token
  /\ expiresAt' = IF expiresAt # NULL /\ expiresAt > now + call[c].lifetime
                    THEN expiresAt ELSE now + call[c].lifetime
  /\ Become(c, Query(call[c].token))
  /\ UNCHANGED now

\* Faulty variant: the caller is given what was cached before.
AuthenticatedReturnsOld(c) ==
  /\ call[c].step = "answer" /\ call[c].lifetime # 0
  /\ accessToken' = call[c].token
  /\ expiresAt' = now + call[c].lifetime
  /\ Become(c, Query(accessToken))
  /\ UNCHANGED now

\* getAccessToken goes on: the answer replaces whatever is cached by now.
Authenticated(c) ==
  /\ call[c].step = "answer" /\ call[c].lifetime # 0
  /\ accessToken' = call[c].token
  /\ expiresAt' = now + call[c].lifetime
  /\ Become(c, Query(call[c].token))
  /\ UNCHANGED now

\* "Invalid IGDB auth response": a field is missing, nothing is cached.
AuthenticatedInvalid(c) ==
  /\ call[c].step = "answer" /\ call[c].lifetime = 0
  /\ Finish(c)
  /\ UNCHANGED <<now, accessToken, expiresAt>>

\* queryGames and fetchRandomImageUrl: the request arrives and is answered.
QueryArrives(c) ==
  /\ call[c].step = "query"
  /\ Finish(c)
  /\ UNCHANGED <<now, accessToken, expiresAt>>

\* A fetch rejects, or is answered with an error.
Fails(c) ==
  /\ call[c].step # "idle"
  /\ Finish(c)
  /\ UNCHANGED <<now, accessToken, expiresAt>>

\* Whether a message may be under way a second longer.
InTime(c) ==
  /\ call[c].step = "answer" => now < call[c].since + MAX_ANSWER
  /\ call[c].step = "query" => now < call[c].since + MAX_QUERY

Tick ==
  /\ now < MAX_TIME
  /\ \A c \in Calls : InTime(c)
  /\ now' = now + 1
  /\ UNCHANGED <<accessToken, expiresAt, call>>

Restart ==
  /\ accessToken' = NULL /\ expiresAt' = NULL
  /\ call' = [c \in Calls |-> Idle]
  /\ UNCHANGED now

-----------------------------------------------------------------------------

Init ==
  /\ now = 0
  /\ accessToken = NULL /\ expiresAt = NULL
  /\ call = [c \in Calls |-> Idle]

Next ==
  \/ \E c \in Calls :
       \/ GetAccessToken(c) \/ IssueToken(c)
       \/ Authenticated(c) \/ AuthenticatedInvalid(c)
       \/ QueryArrives(c) \/ Fails(c)
  \/ Tick \/ Restart

Spec == Init /\ [][Next]_vars

-----------------------------------------------------------------------------
(* Properties. *)

TypeOK ==
  /\ now \in Nat
  /\ accessToken \in Nat \union {NULL} /\ expiresAt \in Nat \union {NULL}
  /\ call \in [Calls -> Call]
  /\ \A c \in Calls : call[c].step \in {"answer", "query"} => call[c].token # NULL

(***************************************************************************)
(* "mark as expired 5s before" (igdb.service.ts:36-37): as long as answer  *)
(* and request together take no longer than that, IGDB still takes every   *)
(* token it is sent, although the cached expiry is dated too late and      *)
(* although an older token may have replaced a newer one in the cache.     *)
(***************************************************************************)
QueriesAreTaken == \A c \in Calls : call[c].step = "query" => now < call[c].token

(***************************************************************************)
(* The cached expiry is the cached token's: never earlier than the truth,  *)
(* and late by no more than an answer's way, whichever of several answers  *)
(* was stored last (igdb.service.ts:28-29).                                *)
(***************************************************************************)
ExpiryFits ==
  accessToken # NULL =>
    accessToken <= expiresAt /\ expiresAt <= accessToken + MAX_ANSWER
=============================================================================
