-------------------------- MODULE IgdbTokenProofs --------------------------
(***************************************************************************)
(* Theorems about IgdbToken: for any margin that covers the two ways, any  *)
(* lifetimes beyond it and any number of overlapping calls, IGDB takes     *)
(* every token it is sent.                                                 *)
(***************************************************************************)
EXTENDS IgdbToken, TLAPS

(***************************************************************************)
(* The inductive invariant.  An answer knows when its token was issued and *)
(* is not late; a request has a token that outlives its longest way; the   *)
(* cache dates its token late by an answer's way at most.                  *)
(***************************************************************************)
AnswerOK(k) ==
  /\ k.since <= now /\ now <= k.since + MAX_ANSWER
  /\ k.token = k.since + k.lifetime

QueryOK(k) ==
  /\ k.since <= now /\ now <= k.since + MAX_QUERY
  /\ k.since + MAX_QUERY < k.token

\* A call as it may stand: its fields have types that depend on the step.
SlotOK(k) ==
  /\ k \in Call
  /\ k.step = "answer" =>
       k.token \in Nat /\ k.since \in Nat /\ k.lifetime \in Lifetimes /\ AnswerOK(k)
  /\ k.step = "query" => k.token \in Nat /\ k.since \in Nat /\ QueryOK(k)

CacheOK ==
  /\ accessToken \in Nat \union {NULL} /\ expiresAt \in Nat \union {NULL}
  /\ accessToken # NULL => expiresAt # NULL
  /\ ExpiryFits

Inv ==
  /\ now \in Nat
  /\ CacheOK
  /\ call \in [Calls -> Call]
  /\ \A c \in Calls : SlotOK(call[c])

\* A free slot means nothing.
LEMMA IdleOK == SlotOK(Idle)
  BY DEF SlotOK, Idle, Call, Steps

\* One slot changes, the clock stands.
LEMMA BecomeStep ==
  ASSUME Inv, NEW c \in Calls, NEW k, Become(c, k), SlotOK(k), CacheOK', UNCHANGED now
  PROVE  Inv'
<1>1. \A d \in Calls : call'[d] = IF d = c THEN k ELSE call[d]
  BY DEF Become, Inv
<1>2. \A d \in Calls : SlotOK(call'[d])
  BY <1>1 DEF Inv
<1>3. call' \in [Calls -> Call]
  BY <1>2 DEF Become, Inv, SlotOK
<1>4. \A d \in Calls : SlotOK(call[d])'
  BY <1>2 DEF SlotOK, AnswerOK, QueryOK
<1> QED
  BY <1>3, <1>4 DEF Inv

\* A token that lives longer than the query's way makes a request that is taken.
LEMMA QueryStarts ==
  ASSUME now \in Nat, NEW token \in Nat, now + MAX_QUERY < token
  PROVE  SlotOK(Query(token))
<1>1. Query(token) \in Call
  BY DEF Query, Call, Steps
<1> QED
  BY <1>1, TimesAssumption DEF SlotOK, Query, QueryOK

\* A cached token that does not count as expired lives that long.
LEMMA GetStep ==
  ASSUME Inv, NEW c \in Calls, GetAccessToken(c)
  PROVE  Inv'
<1>1. CacheOK'
  BY DEF GetAccessToken, Inv, CacheOK, ExpiryFits
<1>2. CASE accessToken # NULL /\ ~TokenHasExpired
  <2>1. accessToken \in Nat /\ expiresAt \in Nat /\ now \in Nat
    BY <1>2 DEF Inv, CacheOK
  <2>2. expiresAt <= accessToken + MAX_ANSWER /\ now < expiresAt - MARGIN
    BY <1>2, <2>1, TimesAssumption, NullAssumption DEF Inv, CacheOK, ExpiryFits, TokenHasExpired
  <2>3. now + MAX_QUERY < accessToken
    BY <2>1, <2>2, TimesAssumption, MarginAssumption
  <2> QED
    BY <1>1, <1>2, <2>1, <2>3, QueryStarts, BecomeStep DEF GetAccessToken
<1>3. CASE ~(accessToken # NULL /\ ~TokenHasExpired)
  <2> DEFINE k == [Idle EXCEPT !.step = "authenticate"]
  <2>1. SlotOK(k)
    BY DEF SlotOK, Idle, Call, Steps
  <2> QED
    BY <1>1, <1>3, <2>1, BecomeStep DEF GetAccessToken
<1> QED
  BY <1>2, <1>3

\* The token of an answer starts its life now.
LEMMA IssueStep ==
  ASSUME Inv, NEW c \in Calls, IssueToken(c)
  PROVE  Inv'
<1>1. PICK l \in Lifetimes :
        Become(c, [step |-> "answer", token |-> now + l, lifetime |-> l, since |-> now])
  BY DEF IssueToken
<1> DEFINE k == [step |-> "answer", token |-> now + l, lifetime |-> l, since |-> now]
<1>2. now \in Nat /\ l \in Nat
  BY LifetimeAssumption DEF Inv
<1>3. k \in Call
  BY <1>2 DEF Call, Steps
<1>4. SlotOK(k)
  BY <1>2, <1>3, TimesAssumption DEF SlotOK, AnswerOK
<1>5. CacheOK' /\ UNCHANGED now
  BY DEF IssueToken, Inv, CacheOK, ExpiryFits
<1> QED
  BY <1>1, <1>4, <1>5, BecomeStep

\* An answer in time dates its token late by no more than its way.
LEMMA AuthenticatedStep ==
  ASSUME Inv, NEW c \in Calls, Authenticated(c)
  PROVE  Inv'
<1> DEFINE k == call[c]
<1>1. /\ k.token \in Nat /\ k.since \in Nat /\ k.lifetime \in Nat /\ now \in Nat
      /\ k.since <= now /\ now <= k.since + MAX_ANSWER
      /\ k.token = k.since + k.lifetime /\ k.lifetime > MARGIN
  BY LifetimeAssumption DEF Authenticated, Inv, SlotOK, AnswerOK
<1>2. now + MAX_QUERY < k.token
  BY <1>1, TimesAssumption, MarginAssumption
<1>3. /\ accessToken' = k.token /\ expiresAt' = now + k.lifetime
      /\ Become(c, Query(k.token)) /\ UNCHANGED now
  BY DEF Authenticated
<1>4. CacheOK'
  BY <1>1, <1>3, TimesAssumption, NullAssumption DEF CacheOK, ExpiryFits
<1> QED
  BY <1>1, <1>2, <1>3, <1>4, QueryStarts, BecomeStep

\* The clock goes on only while every message may still be under way.
LEMMA TickStep == ASSUME Inv, Tick PROVE Inv'
<1>1. now \in Nat /\ now' = now + 1 /\ UNCHANGED <<accessToken, expiresAt, call>>
  BY DEF Tick, Inv
<1>2. ASSUME NEW c \in Calls
      PROVE  SlotOK(call[c])'
  <2>1. SlotOK(call[c]) /\ InTime(c)
    BY DEF Inv, Tick
  <2>2. CASE call[c].step = "answer"
    BY <1>1, <2>1, <2>2, TimesAssumption DEF SlotOK, AnswerOK, InTime
  <2>3. CASE call[c].step = "query"
    BY <1>1, <2>1, <2>3, TimesAssumption DEF SlotOK, QueryOK, InTime
  <2>4. CASE call[c].step \notin {"answer", "query"}
    BY <1>1, <2>1, <2>4 DEF SlotOK
  <2> QED
    BY <2>2, <2>3, <2>4
<1> QED
  BY <1>1, <1>2 DEF Inv, CacheOK, ExpiryFits

\* A restart forgets the cache and every call.
LEMMA RestartStep == ASSUME Inv, Restart PROVE Inv'
<1>1. \A c \in Calls : call'[c] = Idle
  BY DEF Restart
<1>2. call' \in [Calls -> Call]
  BY IdleOK DEF Restart, SlotOK
<1>3. \A c \in Calls : SlotOK(call[c])'
  BY <1>1 DEF SlotOK, Idle, Call, Steps
<1>4. CacheOK'
  BY DEF Restart, CacheOK, ExpiryFits
<1> QED
  BY <1>2, <1>3, <1>4 DEF Restart, Inv

-----------------------------------------------------------------------------

\* The service starts without a token.
LEMMA InvInit == ASSUME Init PROVE Inv
  BY IdleOK DEF Init, Inv, CacheOK, ExpiryFits, SlotOK

\* Every step keeps the invariant.
LEMMA InvStep == ASSUME Inv, [Next]_vars PROVE Inv'
<1>1. ASSUME NEW c \in Calls, Finish(c), UNCHANGED <<now, accessToken, expiresAt>>
      PROVE  Inv'
  <2>1. CacheOK'
    BY <1>1 DEF Inv, CacheOK, ExpiryFits
  <2> QED
    BY <1>1, <2>1, IdleOK, BecomeStep DEF Finish
<1>2. CASE UNCHANGED vars
  BY <1>2 DEF vars, Inv, CacheOK, ExpiryFits, SlotOK, AnswerOK, QueryOK
<1> QED
  BY <1>1, <1>2, GetStep, IssueStep, AuthenticatedStep, TickStep, RestartStep
     DEF Next, AuthenticatedInvalid, QueryArrives, Fails

\* The cache, the answers and the requests under way agree, always.
THEOREM InvCorrect == Spec => []Inv
<1>1. Init => Inv
  BY InvInit
<1>2. Inv /\ [Next]_vars => Inv'
  BY InvStep
<1> QED
  BY <1>1, <1>2, PTL DEF Spec

(***************************************************************************)
(* No token is sent that IGDB no longer takes (igdb.service.ts:36-37).     *)
(***************************************************************************)
THEOREM TakenCorrect == Spec => []QueriesAreTaken
<1>1. Inv => QueriesAreTaken
  BY TimesAssumption DEF Inv, SlotOK, QueryOK, QueriesAreTaken
<1> QED
  BY <1>1, InvCorrect, PTL

(***************************************************************************)
(* The cached expiry belongs to the cached token, whichever answer was     *)
(* stored last (igdb.service.ts:28-29).                                    *)
(***************************************************************************)
THEOREM ExpiryCorrect == Spec => []ExpiryFits
<1>1. Inv => ExpiryFits
  BY DEF Inv, CacheOK
<1> QED
  BY <1>1, InvCorrect, PTL

(***************************************************************************)
(* Cache and locals keep their types, and every request has a token.       *)
(***************************************************************************)
THEOREM IgdbTypeCorrect == Spec => []TypeOK
<1>1. Inv => TypeOK
  BY NullAssumption DEF Inv, CacheOK, SlotOK, TypeOK
<1> QED
  BY <1>1, InvCorrect, PTL
=============================================================================
