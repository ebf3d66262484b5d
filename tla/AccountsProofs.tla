---------------------------- MODULE AccountsProofs ----------------------------
(***************************************************************************)
(* Theorems about Accounts: its invariants, for any accounts, addresses    *)
(* and codes and any number of overlapping registrations, verifications,   *)
(* resends and sign-ins.                                                   *)
(***************************************************************************)
EXTENDS Accounts, TLAPS

-----------------------------------------------------------------------------
(* The inductive invariant. *)

\* What a handler's locals mean while the table holds `rows', and s and f are
\* `undeclared' and `former': the row to be inserted is one, the account it has
\* read is there and keeps its address, unless it was verified and has changed it
\* since, and tokens are made for a verified one only.
Means(rows, s, f, k) ==
  /\ k.step \in {"insert", "google email", "google insert"} => k.user \in User
  /\ k.step = "insert" =>
       /\ k.user.code = k.code /\ k.code \in Codes
       /\ k.user.googleId = NULL
  /\ k.step \in {"google email", "google insert"} => k.user.isEmailVerified
  /\ k.step \in {"mail", "mark", "store", "issue", "google issue"} => k.id \in DOMAIN rows
  /\ k.step \in {"mail", "store"} =>
       /\ k.code \in Codes
       /\ \/ k.user.email = rows[k.id].email
          \/ k.user.email \in f /\ (rows[k.id].isEmailVerified \/ k.id \in s)
  /\ k.step \in {"issue", "google issue"} => rows[k.id].isEmailVerified \/ k.id \in s

LocalsOK == \A c \in Calls : Means(accounts, undeclared, former, call[c])

\* Google vouches for its users' addresses, and nobody gets a Google id later,
\* but by a body.
GoogleIsVerified ==
  \A a \in Known : accounts[a].googleId # NULL =>
    accounts[a].isEmailVerified \/ a \in undeclared

\* An update of a profile is of an account that is verified and stays so.
UpdateMeans(rows, s, k) ==
  k.step # "idle" =>
    /\ k.id \in DOMAIN rows
    /\ k.id \notin s => rows[k.id].isEmailVerified
    /\ k.id \notin s /\ "isEmailVerified" \in DOMAIN k.set =>
         k.set["isEmailVerified"] = TRUE

PatchesOK == \A p \in Patches : UpdateMeans(accounts, undeclared, patch[p])

\* What keeps every handler's locals meaningful.
Base == TypeOK /\ SessionsAreVerified /\ GoogleIsVerified /\ LocalsOK

Inv == Base /\ PatchesOK /\ OneOwner /\ UnverifiedCanVerify /\ MailsHaveAccounts /\ SingleUse

-----------------------------------------------------------------------------
(* Operators. *)

\* A lookup by email finds an account with it, or there is none.
LEMMA WithEmailFinds ==
  ASSUME TypeOK, NEW e
  PROVE  /\ WithEmail(e) # NULL => WithEmail(e) \in Known /\ accounts[WithEmail(e)].email = e
         /\ WithEmail(e) = NULL => \A a \in Known : accounts[a].email # e
<1>1. CASE \E a \in Known : accounts[a].email = e
  <2>1. WithEmail(e) \in Known /\ accounts[WithEmail(e)].email = e
    BY <1>1 DEF WithEmail
  <2>2. WithEmail(e) # NULL
    BY <2>1, NullAssumption DEF TypeOK
  <2> QED
    BY <2>1, <2>2
<1>2. CASE ~ \E a \in Known : accounts[a].email = e
  BY <1>2 DEF WithEmail
<1> QED
  BY <1>1, <1>2

\* A freed slot.
LEMMA IdleOK == Idle \in Call /\ \A rows, s, f : Means(rows, s, f, Idle)
  BY DEF Idle, Call, Steps, Opt, Means

\* Rows are added, keep their owner and stay verified.
Grows(old, new) ==
  /\ DOMAIN old \subseteq DOMAIN new
  /\ \A a \in DOMAIN old :
       /\ new[a].email = old[a].email /\ new[a].username = old[a].username
       /\ new[a].googleId = old[a].googleId
       /\ old[a].isEmailVerified => new[a].isEmailVerified

\* What a call's locals mean survives when rows only grow.
LEMMA MeansKept ==
  ASSUME NEW old, NEW new, NEW s, NEW f, NEW k, Grows(old, new), Means(old, s, f, k)
  PROVE  Means(new, s, f, k)
  BY DEF Grows, Means

\* Tokens stay with verified accounts.
LEMMA SessionsKept ==
  ASSUME SessionsAreVerified, Grows(accounts, accounts'), 
         UNCHANGED <<sessions, pendingResults, undeclared>>
  PROVE  SessionsAreVerified'
  BY DEF SessionsAreVerified, Grows, Known

\* And one for updates of profiles.
LEMMA StillOK == IsPatch(Still) /\ \A rows, s : UpdateMeans(rows, s, Still)
  BY DEF Still, IsPatch, IsPartial, Nothing, Opt, UpdateMeans

-----------------------------------------------------------------------------
(* Locals, types and verified sessions: one lemma for each kind of step. *)

\* A call starts, goes on or ends; the tables stay.
LEMMA CallStep ==
  ASSUME patch' = patch, undeclared' = undeclared, former' = former,
         Base, NEW c \in Calls, NEW k \in Call, Means(accounts, undeclared, former, k),
         call' = [call EXCEPT ![c] = k], UNCHANGED <<accounts, pendingResults, spent>>,
         mails' \subseteq Emails \X Codes, unsent' \subseteq Known, sessions' \subseteq Ids,
         SessionsAreVerified'
  PROVE  Base'
<1>1. call' \in [Calls -> Call]
  BY DEF Base, TypeOK
<1>2. TypeOK'
  BY <1>1 DEF Base, TypeOK, Known
<1>3. \A d \in Calls : call'[d] = IF d = c THEN k ELSE call[d]
  BY DEF Base, TypeOK
<1>4. LocalsOK'
  BY <1>3 DEF Base, LocalsOK
<1> QED
  BY <1>2, <1>4 DEF Base, GoogleIsVerified, Known

\* A call ends: the tables stay as they are.
LEMMA FinishStep ==
  ASSUME patch' = patch, undeclared' = undeclared, former' = former,
         Base, NEW c \in Calls, Finish(c), UNCHANGED <<accounts, pendingResults, spent>>,
         mails' \subseteq Emails \X Codes, unsent' \subseteq Known, sessions' \subseteq Ids,
         SessionsAreVerified'
  PROVE  Base'
  BY CallStep, IdleOK DEF Finish

\* A call goes on to a step that asks no more of its locals.
LEMMA GotoStep ==
  ASSUME patch' = patch, undeclared' = undeclared, former' = former,
         Base, NEW c \in Calls, call[c].step = "google email", Goto(c, "google insert"),
         UNCHANGED <<accounts, locals>>
  PROVE  Base'
<1> DEFINE k == [call[c] EXCEPT !.step = "google insert"]
<1>1. k \in Call /\ Means(accounts, undeclared, former, k)
  BY DEF Base, TypeOK, LocalsOK, Means, Call, Steps
<1>2. call' = [call EXCEPT ![c] = k]
  BY DEF Goto, Base, TypeOK
<1>3. SessionsAreVerified'
  BY DEF Base, SessionsAreVerified, Known, locals
<1> QED
  BY <1>1, <1>2, <1>3, CallStep DEF locals, Base, TypeOK

\* A row that is built is one that can be inserted.
LEMMA RowType ==
  ASSUME NEW e \in Emails, NEW n \in Texts, NEW p \in Opt(Passwords), NEW g \in Opt(GoogleIds),
         NEW v \in BOOLEAN, NEW cd \in Opt(Codes)
  PROVE  CreateUser(e, n, p, g, v, cd) \in User
<1>1. Lower[n] \in Texts
  BY TextAssumption
<1> QED
  BY <1>1 DEF CreateUser, User

\* Every handler reads before it starts to write.
LEMMA ArriveStep ==
  ASSUME patch' = patch, undeclared' = undeclared, former' = former,
         Base, NEW c \in Calls, Arrive(c)
  PROVE  Base'
<1> DEFINE Goes == \E k \in Call :
                     /\ Means(accounts, undeclared, former, k)
                     /\ call' = [call EXCEPT ![c] = k]
<1>1. SUFFICES Goes
  <2>1. UNCHANGED <<accounts, locals>>
    BY DEF Arrive, RegisterUser, VerifyEmail, ResendVerificationCode, LoginWithPassword,
           LoginWithGoogle, RefreshToken
  <2>2. SessionsAreVerified'
    BY <2>1 DEF Base, SessionsAreVerified, Known, locals
  <2> QED
    BY <2>1, <2>2, CallStep DEF locals, Base, TypeOK
<1>2. ASSUME NEW e \in Emails, NEW n \in Texts, NEW p \in Passwords, NEW cd \in Codes,
             RegisterUser(c, e, n, p, cd)
      PROVE  Goes
  <2> DEFINE k == [step |-> "insert", user |-> Registered(e, n, p, cd), id |-> NULL, code |-> cd]
  <2>1. Registered(e, n, p, cd) \in User
    BY RowType DEF Registered, Opt
  <2>2. k \in Call
    BY <2>1 DEF Call, Steps, Opt
  <2>3. Means(accounts, undeclared, former, k)
    BY <2>1 DEF Means, Registered, CreateUser
  <2> QED
    BY <1>2, <2>2, <2>3 DEF RegisterUser
<1>3. ASSUME NEW a \in Known, NEW step \in {"mark", "store", "issue", "google issue"},
             NEW cd \in Opt(Codes),
             step = "store" => cd \in Codes,
             NEW u \in Opt(User), step = "store" => u = accounts[a],
             step \in {"issue", "google issue"} =>
               accounts[a].isEmailVerified \/ a \in undeclared,
             call' = [call EXCEPT ![c] = [step |-> step, user |-> u, id |-> a, code |-> cd]]
      PROVE  Goes
  <2> DEFINE k == [step |-> step, user |-> u, id |-> a, code |-> cd]
  <2>1. accounts[a] \in User /\ a \in Ids
    BY DEF Base, TypeOK
  <2>2. k \in Call
    BY <2>1 DEF Call, Steps, Opt
  <2>3. Means(accounts, undeclared, former, k)
    BY <1>3 DEF Means, Known
  <2> QED
    BY <1>3, <2>2, <2>3
<1>4. ASSUME NEW e \in Emails, NEW cd \in Codes,
             VerifyEmail(c, e, cd) \/ ResendVerificationCode(c, e, cd)
      PROVE  Goes
  <2> DEFINE a == WithEmail(e)
  <2>1. a \in Known /\ accounts[a] \in User
    BY <1>4, WithEmailFinds DEF VerifyEmail, ResendVerificationCode, Base, TypeOK
  <2>2. CASE VerifyEmail(c, e, cd)
    <3>1. call' = [call EXCEPT ![c] =
            [step |-> "mark", user |-> NULL, id |-> a, code |-> NULL]]
      BY <2>2 DEF VerifyEmail
    <3> HIDE DEF a, Goes
    <3> QED
      BY <1>3, <2>1, <3>1 DEF Opt
  <2>3. CASE ResendVerificationCode(c, e, cd)
    <3>1. call' = [call EXCEPT ![c] =
            [step |-> "store", user |-> accounts[a], id |-> a, code |-> cd]]
      BY <2>3 DEF ResendVerificationCode
    <3> HIDE DEF a, Goes
    <3> QED
      BY <1>3, <2>1, <3>1 DEF Opt
  <2> QED
    BY <1>4, <2>2, <2>3
<1>5. ASSUME NEW e \in Emails, NEW p \in Passwords, LoginWithPassword(c, e, p)
      PROVE  Goes
  BY <1>3, <1>5, WithEmailFinds DEF LoginWithPassword, Base, Opt
<1>6. ASSUME NEW e \in Emails, NEW g \in GoogleIds, LoginWithGoogle(c, e, g)
      PROVE  Goes
  <2>1. CASE WithGoogleId(g) = {}
    <3> DEFINE k == [step |-> "google email", user |-> FromGoogle(e, g), id |-> NULL,
                     code |-> NULL]
    <3>1. FromGoogle(e, g) \in User
      BY RowType, TextAssumption DEF FromGoogle, Opt
    <3>2. FromGoogle(e, g).isEmailVerified
      BY DEF FromGoogle, CreateUser
    <3>3. k \in Call /\ Means(accounts, undeclared, former, k)
      BY <3>1, <3>2 DEF Call, Steps, Opt, Means
    <3> QED
      BY <1>6, <2>1, <3>3 DEF LoginWithGoogle
  <2>2. CASE WithGoogleId(g) # {}
    <3>1. \A a \in WithGoogleId(g) :
            a \in Known /\ (accounts[a].isEmailVerified \/ a \in undeclared)
      BY NullAssumption DEF WithGoogleId, Base, GoogleIsVerified
    <3> QED
      BY <1>3, <1>6, <2>2, <3>1 DEF LoginWithGoogle, Opt
  <2> QED
    BY <2>1, <2>2
<1>7. ASSUME NEW a \in Ids, RefreshToken(c, a)
      PROVE  Goes
  <2>1. a \in Known /\ (accounts[a].isEmailVerified \/ a \in undeclared)
    BY <1>7 DEF RefreshToken, Base, SessionsAreVerified
  <2> QED
    BY <1>3, <1>7, <2>1 DEF RefreshToken, Opt
<1> QED
  BY <1>2, <1>4, <1>5, <1>6, <1>7 DEF Arrive

\* The shape of a step that inserts a row.
LEMMA InsertShape ==
  ASSUME Base, NEW c \in Calls, NEW next \in {"mail", "google issue"},
         call[c].step = IF next = "mail" THEN "insert" ELSE "google insert",
         Insert(c, next)
  PROVE  \E a \in Ids \ Known :
           /\ Known' = Known \union {a} /\ accounts'[a] = call[c].user
           /\ accounts' \in [Known' -> User]
           /\ \A b \in Known : accounts'[b] = accounts[b]
           /\ \A d \in Calls : call'[d] =
                IF d = c THEN [call[c] EXCEPT !.step = next, !.id = a] ELSE call[d]
           /\ call' \in [Calls -> Call] /\ call'[c].step = next /\ call'[c].id = a
           /\ call'[c].code = call[c].code /\ call'[c].user = call[c].user
<1>1. call[c].user \in User
  BY DEF Base, LocalsOK, Means
<1>2. PICK a \in Ids \ Known :
        /\ accounts' = [k \in Known \union {a} |->
                          IF k = a THEN call[c].user ELSE accounts[k]]
        /\ call' = [call EXCEPT ![c].step = next, ![c].id = a]
  BY DEF Insert
<1>3. Known' = Known \union {a} /\ accounts'[a] = call[c].user
      /\ \A b \in Known : accounts'[b] = accounts[b]
  BY <1>2 DEF Known
<1>4. accounts' \in [Known' -> User]
  BY <1>1, <1>2, <1>3 DEF Base, TypeOK
<1>5. \A d \in Calls : call'[d] =
        IF d = c THEN [call[c] EXCEPT !.step = next, !.id = a] ELSE call[d]
  BY <1>2 DEF Base, TypeOK
<1>6. call[c] \in Call
  BY DEF Base, TypeOK
<1>7. LET k == [call[c] EXCEPT !.step = next, !.id = a] IN
        k \in Call /\ k.step = next /\ k.id = a /\ k.code = call[c].code /\ k.user = call[c].user
  BY <1>6 DEF Call, Steps, Opt
<1>8. call' \in [Calls -> Call]
  BY <1>2, <1>6, <1>7 DEF Base, TypeOK
<1> QED
  BY <1>3, <1>4, <1>5, <1>7, <1>8, ZenonT(60)

\* A sign-up or a first Google sign-in inserts its row.
LEMMA InsertStep ==
  ASSUME patch' = patch, undeclared' = undeclared, former' = former,
         Base, NEW c \in Calls,
         InsertUser(c) \/ GoogleInsert(c)
  PROVE  Base' /\ Grows(accounts, accounts')
<1>1. PICK next \in {"mail", "google issue"} :
        /\ call[c].step = IF next = "mail" THEN "insert" ELSE "google insert"
        /\ Insert(c, next)
  BY DEF InsertUser, GoogleInsert
<1>2. UNCHANGED locals
  BY DEF InsertUser, GoogleInsert
<1>3. PICK a \in Ids \ Known :
           /\ Known' = Known \union {a} /\ accounts'[a] = call[c].user
           /\ accounts' \in [Known' -> User]
           /\ \A b \in Known : accounts'[b] = accounts[b]
           /\ \A d \in Calls : call'[d] =
                IF d = c THEN [call[c] EXCEPT !.step = next, !.id = a] ELSE call[d]
           /\ call' \in [Calls -> Call] /\ call'[c].step = next /\ call'[c].id = a
           /\ call'[c].code = call[c].code /\ call'[c].user = call[c].user
  BY <1>1, InsertShape
<1>4. Grows(accounts, accounts')
  BY <1>3 DEF Grows, Known
<1>5. TypeOK'
  BY <1>2, <1>3 DEF Base, TypeOK, locals
<1>6. SessionsAreVerified'
  BY <1>2, <1>4, SessionsKept DEF Base, locals
<1>7. Means(accounts, undeclared, former, call[c])
  BY DEF Base, LocalsOK
<1>8. GoogleIsVerified'
  BY <1>1, <1>3, <1>7 DEF Base, GoogleIsVerified, Means
<1>9. LocalsOK'
  <2>1. \A d \in Calls \ {c} : Means(accounts', undeclared, former, call'[d])
    BY <1>3, <1>4, MeansKept DEF Base, LocalsOK
  <2>2. Means(accounts', undeclared, former, call'[c])
    BY <1>1, <1>3, <1>7 DEF Means, Known
  <2> QED
    BY <2>1, <2>2 DEF LocalsOK
<1> QED
  BY <1>4, <1>5, <1>6, <1>8, <1>9 DEF Base

\* The shape of a step that changes a row: its owner stays, and is verified if
\* it was.
LEMMA SetShape ==
  ASSUME TypeOK, NEW a \in Known, NEW row \in User, Set(a, row),
         row.email = accounts[a].email, row.username = accounts[a].username,
         row.googleId = accounts[a].googleId,
         accounts[a].isEmailVerified => row.isEmailVerified
  PROVE  /\ Known' = Known /\ accounts' \in [Known' -> User]
         /\ \A b \in Known : accounts'[b] = IF b = a THEN row ELSE accounts[b]
         /\ Grows(accounts, accounts')
<1>1. Known' = Known /\ accounts' \in [Known' -> User]
  BY DEF Set, TypeOK, Known
<1>2. \A b \in Known : accounts'[b] = IF b = a THEN row ELSE accounts[b]
  BY DEF Set, TypeOK
<1> QED
  BY <1>1, <1>2 DEF Grows, Known

\* What the three updates of a row write.
LEMMA RowWritten ==
  ASSUME Base, NEW a \in Known
  PROVE  /\ LET row == [accounts[a] EXCEPT !.isEmailVerified = TRUE, !.code = NULL,
                                            !.expired = FALSE] IN
            /\ row \in User /\ row.email = accounts[a].email
            /\ row.username = accounts[a].username /\ row.googleId = accounts[a].googleId
            /\ row.isEmailVerified
         /\ \A cd \in Codes :
              LET row == [accounts[a] EXCEPT !.code = cd, !.expired = FALSE] IN
              /\ row \in User /\ row.email = accounts[a].email
              /\ row.username = accounts[a].username /\ row.googleId = accounts[a].googleId
              /\ row.isEmailVerified = accounts[a].isEmailVerified /\ row.code = cd
         /\ LET row == [accounts[a] EXCEPT !.expired = TRUE] IN
            /\ row \in User /\ row.email = accounts[a].email
            /\ row.username = accounts[a].username /\ row.googleId = accounts[a].googleId
            /\ row.isEmailVerified = accounts[a].isEmailVerified
            /\ row.code = accounts[a].code
<1>1. accounts[a] \in User
  BY DEF Base, TypeOK
<1> QED
  BY <1>1 DEF User, Opt

\* A row is updated by its id, whatever it holds by now.
LEMMA UpdateStep ==
  ASSUME patch' = patch, undeclared' = undeclared, former' = former,
         Base, NEW a \in Known, NEW row \in User, Set(a, row),
         row.email = accounts[a].email, row.username = accounts[a].username,
         row.googleId = accounts[a].googleId,
         accounts[a].isEmailVerified => row.isEmailVerified,
         unsent' \subseteq Known, UNCHANGED <<mails, pendingResults, spent, sessions>>,
         call' \in [Calls -> Call],
         \A d \in Calls : call'[d] = call[d] \/ Means(accounts', undeclared, former, call'[d])
  PROVE  Base' /\ Grows(accounts, accounts')
<1>1. /\ Known' = Known /\ accounts' \in [Known' -> User]
      /\ \A b \in Known : accounts'[b] = IF b = a THEN row ELSE accounts[b]
      /\ Grows(accounts, accounts')
  BY SetShape DEF Base
<1>2. TypeOK'
  BY <1>1 DEF Base, TypeOK
<1>3. SessionsAreVerified'
  BY <1>1, SessionsKept DEF Base
<1>4. GoogleIsVerified'
  BY <1>1 DEF Base, GoogleIsVerified
<1>5. LocalsOK'
  BY <1>1, MeansKept DEF Base, LocalsOK
<1> QED
  BY <1>1, <1>2, <1>3, <1>4, <1>5 DEF Base

\* A verification marks the row it compared the code with.
LEMMA MarkStep ==
  ASSUME patch' = patch, undeclared' = undeclared, former' = former,
         Base, NEW c \in Calls, MarkEmailAsVerified(c)
  PROVE  Base' /\ Grows(accounts, accounts')
<1> DEFINE a == call[c].id
           row == [accounts[a] EXCEPT !.isEmailVerified = TRUE, !.code = NULL,
                                      !.expired = FALSE]
<1>1. a \in Known
  BY DEF MarkEmailAsVerified, Base, LocalsOK, Means, Known
<1>2. /\ row \in User /\ row.email = accounts[a].email
      /\ row.username = accounts[a].username /\ row.googleId = accounts[a].googleId
      /\ row.isEmailVerified
  BY <1>1, RowWritten
<1>3. /\ Set(a, row) /\ Finish(c) /\ unsent' = unsent \ {a}
      /\ UNCHANGED <<mails, pendingResults, spent, sessions>>
  BY DEF MarkEmailAsVerified
<1>4. /\ call' \in [Calls -> Call]
      /\ \A d \in Calls : call'[d] = call[d] \/ Means(accounts', undeclared, former, call'[d])
  BY <1>3, IdleOK DEF Finish, Base, TypeOK
<1>5. unsent' \subseteq Known
  BY <1>3 DEF Base, TypeOK
<1> HIDE DEF a, row
<1> QED
  BY <1>1, <1>2, <1>3, <1>4, <1>5, UpdateStep

\* A resend or an unfinished sign-up stores its new code.
LEMMA StoreStep ==
  ASSUME patch' = patch, undeclared' = undeclared, former' = former,
         Base, NEW c \in Calls, SetEmailVerificationCode(c)
  PROVE  Base' /\ Grows(accounts, accounts')
<1> DEFINE a == call[c].id
           row == [accounts[a] EXCEPT !.code = call[c].code, !.expired = FALSE]
<1>1. a \in Known /\ call[c].code \in Codes
  BY DEF SetEmailVerificationCode, Base, LocalsOK, Means, Known
<1>2. /\ row \in User /\ row.email = accounts[a].email
      /\ row.username = accounts[a].username /\ row.googleId = accounts[a].googleId
      /\ row.isEmailVerified = accounts[a].isEmailVerified
  BY <1>1, RowWritten
<1>3. /\ Set(a, row) /\ Goto(c, "mail") /\ unsent' = unsent \ {a}
      /\ UNCHANGED <<mails, pendingResults, spent, sessions>>
  BY DEF SetEmailVerificationCode
<1>4. Known' = Known /\ Grows(accounts, accounts')
  BY <1>1, <1>2, <1>3, SetShape DEF Base
<1>5. call'[c] = [call[c] EXCEPT !.step = "mail"] /\ \A d \in Calls \ {c} : call'[d] = call[d]
  BY <1>3 DEF Goto, Base, TypeOK
<1>6. call' \in [Calls -> Call]
  BY <1>3 DEF Goto, Base, TypeOK, Call, Steps
<1>7. Means(accounts', undeclared, former, call'[c])
  <2>1. /\ call'[c].step = "mail" /\ call'[c].id = a
        /\ call'[c].code = call[c].code /\ call'[c].user = call[c].user
    BY <1>5 DEF Base, TypeOK, Call
  <2>2. a \in DOMAIN accounts' /\ accounts'[a].email = accounts[a].email
    BY <1>1, <1>4 DEF Grows, Known
  <2>3. accounts[a].isEmailVerified => accounts'[a].isEmailVerified
    BY <1>1, <1>4 DEF Grows, Known
  <2>4. Means(accounts, undeclared, former, call[c]) /\ call[c].step = "store"
    BY DEF Base, LocalsOK, SetEmailVerificationCode
  <2> QED
    BY <1>1, <2>1, <2>2, <2>3, <2>4 DEF Means
<1>8. unsent' \subseteq Known
  BY <1>3 DEF Base, TypeOK
<1>9. \A d \in Calls : call'[d] = call[d] \/ Means(accounts', undeclared, former, call'[d])
  BY <1>5, <1>7
<1> HIDE DEF a, row
<1> QED
  BY <1>1, <1>2, <1>3, <1>6, <1>8, <1>9, UpdateStep

\* A stored code expires.
LEMMA ExpireStep ==
  ASSUME patch' = patch, undeclared' = undeclared, former' = former,
         Base, NEW a \in Ids, VerificationCodeExpires(a)
  PROVE  Base' /\ Grows(accounts, accounts')
<1>1. a \in Known
  BY DEF VerificationCodeExpires
<1>2. Set(a, [accounts[a] EXCEPT !.expired = TRUE]) /\ UNCHANGED <<call, locals>>
  BY DEF VerificationCodeExpires
<1>3. unsent' \subseteq Known /\ call' \in [Calls -> Call]
  BY <1>2 DEF locals, Base, TypeOK
<1> QED
  BY <1>1, <1>2, <1>3, RowWritten, UpdateStep DEF locals

\* Mails, tokens and failures: the rows stay, and a slot is freed.
LEMMA EndStep ==
  ASSUME patch' = patch, undeclared' = undeclared, former' = former,
         Base, NEW c \in Calls,
         InsertRefused(c) \/ SendVerificationCode(c) \/ IssueTokenPair(c) \/ Abort(c)
  PROVE  Base'
<1>1. UNCHANGED <<accounts, pendingResults, spent>> /\ Finish(c)
  BY DEF InsertRefused, SendVerificationCode, IssueTokenPair, Abort, locals
<1>2. Means(accounts, undeclared, former, call[c])
  BY DEF Base, LocalsOK
<1>3. unsent' \subseteq Known
  BY DEF InsertRefused, SendVerificationCode, IssueTokenPair, Abort, locals, Mailing, Base, TypeOK
<1>4. mails' \subseteq Emails \X Codes
  <2>1. CASE SendVerificationCode(c)
    <3>1. call[c].user.email \in Emails /\ call[c].code \in Codes
      BY <1>2, <2>1 DEF SendVerificationCode, Means, Base, TypeOK, User, Known
    <3> QED
      BY <2>1, <3>1 DEF SendVerificationCode, Base, TypeOK
  <2> QED
    BY <2>1 DEF InsertRefused, IssueTokenPair, Abort, locals, Base, TypeOK
<1>5. /\ sessions' \subseteq Ids
      /\ \A a \in sessions' : a \in Known /\ (accounts[a].isEmailVerified \/ a \in undeclared)
  <2>1. /\ sessions \subseteq Ids
        /\ \A a \in sessions : a \in Known /\ (accounts[a].isEmailVerified \/ a \in undeclared)
    BY DEF Base, TypeOK, SessionsAreVerified
  <2>2. Known \subseteq Ids
    BY DEF Base, TypeOK
  <2> QED
    BY <1>2, <2>1, <2>2 DEF InsertRefused, SendVerificationCode, IssueTokenPair, Abort, locals,
       Means, Known
<1>6. SessionsAreVerified'
  BY <1>1, <1>5 DEF Base, SessionsAreVerified, Known
<1> QED
  BY <1>1, <1>3, <1>4, <1>5, <1>6, FinishStep

\* A one-time code stands for an account that is verified.
LEMMA IssueCodeStep ==
  ASSUME patch' = patch, undeclared' = undeclared, former' = former,
         Base, NEW c \in Calls, IssueCode(c)
  PROVE  Base'
<1>1. /\ call[c].id \in Known /\ call[c].id \in Ids
      /\ accounts[call[c].id].isEmailVerified \/ call[c].id \in undeclared
  BY DEF IssueCode, Base, TypeOK, LocalsOK, Means, Known
<1>2. PICK k \in AuthCodes \ (DOMAIN pendingResults \union spent) :
        pendingResults' = [j \in DOMAIN pendingResults \union {k} |->
          IF j = k THEN [id |-> call[c].id, expired |-> FALSE] ELSE pendingResults[j]]
  BY DEF IssueCode
<1>3. Finish(c) /\ UNCHANGED <<accounts, mails, unsent, spent, sessions>>
  BY DEF IssueCode
<1>4. call' \in [Calls -> Call] /\ \A d \in Calls : call'[d] = IF d = c THEN Idle ELSE call[d]
  BY <1>3, IdleOK DEF Finish, Base, TypeOK
<1>5. LocalsOK'
  BY <1>3, <1>4, IdleOK DEF Base, LocalsOK
<1>6. TypeOK'
  BY <1>1, <1>2, <1>3, <1>4 DEF Base, TypeOK, Known
<1>7. SessionsAreVerified'
  BY <1>1, <1>2, <1>3 DEF Base, SessionsAreVerified, Known
<1> QED
  BY <1>3, <1>5, <1>6, <1>7 DEF Base, GoogleIsVerified, Known

\* A code expires, or is exchanged for its account's tokens.
LEMMA AuthCodeStep ==
  ASSUME patch' = patch, undeclared' = undeclared, former' = former,
         Base, NEW k \in AuthCodes, AuthCodeExpires(k) \/ ExchangeCode(k)
  PROVE  Base'
<1>1. UNCHANGED <<accounts, mails, unsent, call>> /\ k \in DOMAIN pendingResults
  BY DEF AuthCodeExpires, ExchangeCode
<1>2. /\ DOMAIN pendingResults' \subseteq DOMAIN pendingResults
      /\ \A j \in DOMAIN pendingResults' :
           /\ pendingResults'[j] \in [id : Ids, expired : BOOLEAN]
           /\ pendingResults'[j].id = pendingResults[j].id
      /\ pendingResults' = [j \in DOMAIN pendingResults' |-> pendingResults'[j]]
  <2>1. \A j \in DOMAIN pendingResults : pendingResults[j] \in [id : Ids, expired : BOOLEAN]
    BY DEF Base, TypeOK
  <2>2. CASE AuthCodeExpires(k)
    BY <1>1, <2>1, <2>2 DEF AuthCodeExpires, Base, TypeOK
  <2>3. CASE ExchangeCode(k)
    BY <2>1, <2>3 DEF ExchangeCode
  <2> QED
    BY <2>2, <2>3
<1>3. sessions' \subseteq sessions \union {pendingResults[k].id} /\ spent' \subseteq spent \union {k}
  BY DEF AuthCodeExpires, ExchangeCode
<1>4. pendingResults[k].id \in Ids
  BY <1>1 DEF Base, TypeOK
<1>5. TypeOK'
  BY <1>1, <1>2, <1>3, <1>4 DEF Base, TypeOK, Known
<1>6. SessionsAreVerified'
  BY <1>1, <1>2, <1>3 DEF Base, SessionsAreVerified, Known
<1> QED
  BY <1>1, <1>5, <1>6 DEF Base, GoogleIsVerified, LocalsOK, Known

\* Signing up and in keeps the locals' meaning, and no account goes or changes.
LEMMA BaseStep ==
  ASSUME patch' = patch, undeclared' = undeclared, former' = former,
         Base, SignIn
  PROVE  Base' /\ Grows(accounts, accounts')
<1>0. UNCHANGED accounts => Grows(accounts, accounts')
  BY DEF Grows
<1>1. ASSUME NEW c \in Calls, Arrive(c) PROVE Base' /\ UNCHANGED accounts
  BY <1>1, ArriveStep DEF Arrive, RegisterUser, VerifyEmail, ResendVerificationCode,
     LoginWithPassword, LoginWithGoogle, RefreshToken
<1>2. ASSUME NEW c \in Calls, GoogleCheckEmail(c) PROVE Base' /\ UNCHANGED accounts
  <2>1. CASE Goto(c, "google insert")
    BY <1>2, <2>1, GotoStep DEF GoogleCheckEmail
  <2>2. CASE Finish(c)
    <3>1. SessionsAreVerified'
      BY <1>2 DEF GoogleCheckEmail, Base, SessionsAreVerified, Known, locals
    <3> QED
      BY <1>2, <2>2, <3>1, FinishStep DEF GoogleCheckEmail, Base, TypeOK, locals
  <2> QED
    BY <1>2, <2>1, <2>2 DEF GoogleCheckEmail
<1>3. ASSUME NEW c \in Calls, Proceed(c) PROVE Base' /\ Grows(accounts, accounts')
  <2>1. ASSUME InsertRefused(c) \/ SendVerificationCode(c) \/ IssueTokenPair(c) \/ IssueCode(c)
        PROVE  UNCHANGED accounts
    BY <2>1 DEF InsertRefused, SendVerificationCode, IssueTokenPair, IssueCode
  <2> QED
    BY <1>0, <1>2, <1>3, <2>1, InsertStep, EndStep, MarkStep, StoreStep, IssueCodeStep DEF Proceed
<1>4. ASSUME NEW c \in Calls, Abort(c) PROVE Base' /\ UNCHANGED accounts
  BY <1>4, EndStep DEF Abort
<1>5. ASSUME NEW k \in AuthCodes, AuthCodeExpires(k) \/ ExchangeCode(k)
      PROVE  Base' /\ UNCHANGED accounts
  BY <1>5, AuthCodeStep DEF AuthCodeExpires, ExchangeCode
<1> QED
  BY <1>0, <1>1, <1>3, <1>4, <1>5, ExpireStep DEF SignIn

\* And leaves updates of profiles what they are.
LEMMA PatchesKept ==
  ASSUME Base, PatchesOK, Grows(accounts, accounts'), patch' = patch, undeclared' = undeclared
  PROVE  PatchesOK'
<1>1. ASSUME NEW p \in Patches PROVE UpdateMeans(accounts', undeclared', patch'[p])
  BY DEF PatchesOK, UpdateMeans, Grows
<1> QED
  BY <1>1 DEF PatchesOK

-----------------------------------------------------------------------------
(* Owners, codes and mails. *)

\* The unique columns let in only a row of its own.
LEMMA OwnerStep ==
  ASSUME Inv, SignIn, Base', Grows(accounts, accounts')
  PROVE  OneOwner'
<1>1. ASSUME Known' = Known PROVE OneOwner'
  BY <1>1 DEF Inv, OneOwner, Grows, Known
<1>2. ASSUME NEW c \in Calls, InsertUser(c) \/ GoogleInsert(c)
      PROVE  OneOwner'
  <2>1. PICK a \in Ids \ Known :
          /\ Known' = Known \union {a} /\ accounts'[a] = call[c].user
          /\ \A b \in Known : accounts'[b] = accounts[b]
    BY <1>2, InsertShape DEF InsertUser, GoogleInsert, Inv
  <2>2. Unique(call[c].user)
    BY <1>2 DEF InsertUser, GoogleInsert
  <2> QED
    BY <2>1, <2>2 DEF Inv, OneOwner, Unique
<1>3. ASSUME NEW a \in Known, NEW row, Set(a, row) PROVE Known' = Known
  BY <1>3 DEF Set, Known
<1>4. \A c \in Calls : call[c].step \in {"mark", "store"} => call[c].id \in Known
  BY DEF Inv, Base, LocalsOK, Means, Known
<1>5. ASSUME NEW c \in Calls, MarkEmailAsVerified(c) \/ SetEmailVerificationCode(c)
      PROVE  Known' = Known
  BY <1>3, <1>4, <1>5 DEF MarkEmailAsVerified, SetEmailVerificationCode
<1>6. ASSUME NEW a \in Ids, VerificationCodeExpires(a) PROVE Known' = Known
  BY <1>3, <1>6 DEF VerificationCodeExpires
<1>7. CASE UNCHANGED accounts
  BY <1>1, <1>7 DEF Known
<1> QED
  BY <1>1, <1>2, <1>5, <1>6, <1>7, ZenonT(60)
     DEF SignIn, Arrive, Proceed, Abort, RegisterUser, VerifyEmail, ResendVerificationCode,
         LoginWithPassword, LoginWithGoogle, RefreshToken, InsertRefused, SendVerificationCode,
         IssueTokenPair, GoogleCheckEmail, IssueCode, AuthCodeExpires, ExchangeCode

\* A code is mailed to the address that the account it was made for has or had.
LEMMA MailStep ==
  ASSUME former' = former, Inv, SignIn, Grows(accounts, accounts')
  PROVE  MailsHaveAccounts'
<1>1. ASSUME mails' = mails PROVE MailsHaveAccounts'
  BY <1>1 DEF Inv, MailsHaveAccounts, Grows, Known
<1>2. ASSUME NEW c \in Calls, SendVerificationCode(c) PROVE MailsHaveAccounts'
  <2>1. /\ call[c].id \in Known
        /\ call[c].user.email \in former \union {accounts[call[c].id].email}
    BY <1>2 DEF SendVerificationCode, Inv, Base, LocalsOK, Means, Known
  <2> QED
    BY <1>2, <2>1 DEF SendVerificationCode, Inv, MailsHaveAccounts, Known
<1> QED
  BY <1>1, <1>2, ZenonT(60)
     DEF SignIn, Arrive, Proceed, Abort, RegisterUser, VerifyEmail, ResendVerificationCode,
         LoginWithPassword, LoginWithGoogle, RefreshToken, InsertUser, GoogleInsert, InsertRefused,
         MarkEmailAsVerified, SetEmailVerificationCode, VerificationCodeExpires,
         IssueTokenPair, GoogleCheckEmail, IssueCode, AuthCodeExpires, ExchangeCode, locals

\* A spent code has gone from the map, and is not made again.
LEMMA SpentStep ==
  ASSUME Inv, SignIn
  PROVE  SingleUse'
<1>1. ASSUME spent' = spent, DOMAIN pendingResults' \cap spent = {} PROVE SingleUse'
  BY <1>1 DEF SingleUse
<1>2. DOMAIN pendingResults \cap spent = {}
  BY DEF Inv, SingleUse
<1>3. ASSUME NEW c \in Calls, IssueCode(c) PROVE SingleUse'
  BY <1>1, <1>2, <1>3 DEF IssueCode
<1>4. ASSUME NEW k \in AuthCodes, ExchangeCode(k) PROVE SingleUse'
  BY <1>2, <1>4 DEF ExchangeCode, SingleUse
<1>5. ASSUME NEW k \in AuthCodes, AuthCodeExpires(k) PROVE SingleUse'
  BY <1>1, <1>2, <1>5 DEF AuthCodeExpires
<1> QED
  BY <1>1, <1>2, <1>3, <1>4, <1>5, ZenonT(60)
     DEF SignIn, Arrive, Proceed, Abort, RegisterUser, VerifyEmail, ResendVerificationCode,
         LoginWithPassword, LoginWithGoogle, RefreshToken, InsertUser, GoogleInsert, InsertRefused,
         SendVerificationCode, MarkEmailAsVerified, SetEmailVerificationCode,
         VerificationCodeExpires, IssueTokenPair, GoogleCheckEmail, locals

\* Where the stored code of an account that is not verified is to be found.
Reachable(a) ==
  \/ <<accounts[a].email, accounts[a].code>> \in mails
  \/ a \in unsent \union UNION {Mailing(c) : c \in Calls}

\* It is still there when nothing about the account changes.
LEMMA ReachableKept ==
  ASSUME NEW a \in Known, a \in Known', Reachable(a),
         accounts'[a].email = accounts[a].email, accounts'[a].code = accounts[a].code,
         mails \subseteq mails', a \in unsent => a \in unsent',
         \A c \in Calls : a \in Mailing(c) =>
           call'[c] = call[c] \/ a \in unsent'
             \/ <<accounts[a].email, accounts[a].code>> \in mails'
  PROVE  Reachable(a)'
  BY DEF Reachable, Mailing

\* A new row's code is about to be mailed.
LEMMA VerifiableInsert ==
  ASSUME undeclared' = undeclared, Inv, NEW c \in Calls, InsertUser(c) \/ GoogleInsert(c)
  PROVE  UnverifiedCanVerify'
<1>1. PICK next \in {"mail", "google issue"} :
        /\ call[c].step = IF next = "mail" THEN "insert" ELSE "google insert"
        /\ Insert(c, next) /\ UNCHANGED locals
  BY DEF InsertUser, GoogleInsert
<1>2. PICK a \in Ids \ Known :
        /\ Known' = Known \union {a} /\ accounts'[a] = call[c].user
        /\ accounts' \in [Known' -> User]
        /\ \A b \in Known : accounts'[b] = accounts[b]
        /\ \A d \in Calls : call'[d] =
             IF d = c THEN [call[c] EXCEPT !.step = next, !.id = a] ELSE call[d]
        /\ call' \in [Calls -> Call] /\ call'[c].step = next /\ call'[c].id = a
        /\ call'[c].code = call[c].code /\ call'[c].user = call[c].user
  <2>1. Base /\ call[c].step = (IF next = "mail" THEN "insert" ELSE "google insert")
        /\ Insert(c, next)
    BY <1>1 DEF Inv
  <2> HIDE DEF Inv
  <2> QED
    BY ONLY <2>1, InsertShape, next \in {"mail", "google issue"}, c \in Calls
<1>3. ASSUME NEW b \in Known \ undeclared, ~accounts'[b].isEmailVerified
      PROVE  Reachable(b)'
  <2>1. Reachable(b)
    BY <1>2, <1>3 DEF Inv, UnverifiedCanVerify, Reachable
  <2>2. \A d \in Calls : b \in Mailing(d) => d # c
    BY <1>1 DEF Mailing
  <2> QED
    BY <1>1, <1>2, <2>1, <2>2, ReachableKept DEF locals
<1>4. ASSUME ~accounts'[a].isEmailVerified PROVE a \in Mailing(c)'
  <2>1. next = "mail" /\ accounts'[a].code = call[c].code
    BY <1>1, <1>2, <1>4 DEF Inv, Base, LocalsOK, Means
  <2> QED
    BY <1>2, <2>1 DEF Mailing
<1>5. ASSUME ~accounts'[a].isEmailVerified PROVE Reachable(a)'
  BY <1>4, <1>5 DEF Reachable
<1>6. \A b \in Known' \ undeclared' : ~accounts'[b].isEmailVerified => Reachable(b)'
  BY <1>2, <1>3, <1>5
<1> QED
  BY ONLY <1>6 DEF UnverifiedCanVerify, Reachable

\* A code that replaces another is about to be mailed; verifying one account
\* leaves the others alone.
LEMMA VerifiableUpdate ==
  ASSUME undeclared' = undeclared, Inv, NEW c \in Calls, MarkEmailAsVerified(c) \/ SetEmailVerificationCode(c)
  PROVE  UnverifiedCanVerify'
<1> DEFINE a == call[c].id
<1>1. a \in Known /\ (call[c].step = "store" => call[c].code \in Codes)
  BY DEF MarkEmailAsVerified, SetEmailVerificationCode, Inv, Base, LocalsOK, Means, Known
<1>2. PICK row \in User :
        /\ Set(a, row) /\ row.email = accounts[a].email /\ row.username = accounts[a].username
        /\ row.googleId = accounts[a].googleId
        /\ accounts[a].isEmailVerified => row.isEmailVerified
        /\ \/ MarkEmailAsVerified(c) /\ row.isEmailVerified
           \/ SetEmailVerificationCode(c) /\ row.code = call[c].code
  <2>1. CASE MarkEmailAsVerified(c)
    BY <1>1, <2>1, RowWritten DEF MarkEmailAsVerified, Inv
  <2>2. CASE SetEmailVerificationCode(c)
    <3> DEFINE row == [accounts[a] EXCEPT !.code = call[c].code, !.expired = FALSE]
    <3>1. call[c].code \in Codes
      BY <1>1, <2>2 DEF SetEmailVerificationCode
    <3>2. Set(a, row)
      BY <2>2 DEF SetEmailVerificationCode
    <3>3. /\ row \in User /\ row.email = accounts[a].email
          /\ row.username = accounts[a].username /\ row.googleId = accounts[a].googleId
          /\ row.isEmailVerified = accounts[a].isEmailVerified /\ row.code = call[c].code
      BY <1>1, <3>1, RowWritten DEF Inv
    <3> QED
      BY <2>2, <3>2, <3>3
  <2> QED
    BY <2>1, <2>2
<1>3. /\ Known' = Known
      /\ \A b \in Known : accounts'[b] = IF b = a THEN row ELSE accounts[b]
  <2> HIDE DEF a
  <2> QED
    BY <1>1, <1>2, SetShape DEF Inv, Base
<1>4. /\ unsent' = unsent \ {a} /\ mails' = mails
      /\ \A d \in Calls \ {c} : call'[d] = call[d]
      /\ call[c].step # "mail"
  BY DEF MarkEmailAsVerified, SetEmailVerificationCode, Finish, Goto, Inv, Base, TypeOK
<1>5. ASSUME NEW b \in Known \ undeclared, b # a, ~accounts'[b].isEmailVerified
      PROVE  Reachable(b)'
  <2>1. Reachable(b)
    BY <1>3, <1>5 DEF Inv, UnverifiedCanVerify, Reachable
  <2>2. \A d \in Calls : b \in Mailing(d) => d # c
    BY <1>4 DEF Mailing
  <2> QED
    BY <1>3, <1>4, <1>5, <2>1, <2>2, ReachableKept
<1>6. ASSUME ~accounts'[a].isEmailVerified PROVE a \in Mailing(c)'
  <2>1. SetEmailVerificationCode(c) /\ accounts'[a].code = call[c].code
    BY <1>1, <1>2, <1>3, <1>6
  <2>2. call'[c].step = "mail" /\ call'[c].id = a /\ call'[c].code = call[c].code
    BY <2>1 DEF SetEmailVerificationCode, Goto, Inv, Base, TypeOK, Call
  <2> QED
    BY <1>1, <1>3, <2>1, <2>2 DEF Mailing
<1> QED
  BY <1>1, <1>3, <1>5, <1>6 DEF UnverifiedCanVerify, Reachable

\* Otherwise codes stay, and a mail is sent, waits, or fails and is known to.
LEMMA VerifiableStep ==
  ASSUME undeclared' = undeclared, Inv, SignIn
  PROVE  UnverifiedCanVerify'
<1>1. ASSUME UNCHANGED accounts, mails \subseteq mails', unsent \subseteq unsent',
             \A c \in Calls, a \in Known \ undeclared :
               ~accounts[a].isEmailVerified /\ a \in Mailing(c) => call'[c] = call[c] \/ a \in unsent'
                 \/ <<accounts[a].email, accounts[a].code>> \in mails'
      PROVE  UnverifiedCanVerify'
  <2>1. ASSUME NEW a \in Known \ undeclared, ~accounts[a].isEmailVerified
        PROVE  Reachable(a)'
    <3>1. Reachable(a)
      BY <2>1 DEF Inv, UnverifiedCanVerify, Reachable
    <3>2. a \in Known'
      BY <1>1 DEF Known
    <3>3. \A c \in Calls : a \in Mailing(c) =>
            call'[c] = call[c] \/ a \in unsent'
              \/ <<accounts[a].email, accounts[a].code>> \in mails'
      BY <1>1, <2>1
    <3> QED
      BY <1>1, <3>1, <3>2, <3>3, ReachableKept
  <2> QED
    BY <1>1, <2>1 DEF UnverifiedCanVerify, Reachable, Known
<1>2. ASSUME NEW c \in Calls, UNCHANGED <<accounts, mails, unsent>>, call[c].step # "mail",
             \A d \in Calls \ {c} : call'[d] = call[d]
      PROVE  UnverifiedCanVerify'
  <2>1. \A a \in Known : a \notin Mailing(c)
    BY <1>2 DEF Mailing
  <2> QED
    BY <1>1, <1>2, <2>1
<1>3. ASSUME NEW c \in Calls,
             \/ Arrive(c) \/ InsertRefused(c) \/ IssueTokenPair(c) \/ GoogleCheckEmail(c)
             \/ IssueCode(c)
      PROVE  UnverifiedCanVerify'
  <2>1. UNCHANGED <<accounts, mails, unsent>> /\ call[c].step # "mail"
    BY <1>3 DEF Arrive, RegisterUser, VerifyEmail, ResendVerificationCode, LoginWithPassword,
       LoginWithGoogle, RefreshToken, InsertRefused, IssueTokenPair, GoogleCheckEmail, IssueCode,
       locals
  <2>2. \A d \in Calls \ {c} : call'[d] = call[d]
    BY <1>3 DEF Inv, Base, TypeOK, Arrive, RegisterUser, VerifyEmail, ResendVerificationCode,
       LoginWithPassword, LoginWithGoogle, RefreshToken, InsertRefused, IssueTokenPair,
       GoogleCheckEmail, IssueCode, Finish, Goto
  <2> QED
    BY <1>2, <2>1, <2>2
<1>4. ASSUME NEW c \in Calls, SendVerificationCode(c) PROVE UnverifiedCanVerify'
  <2>1. \A d \in Calls \ {c} : call'[d] = call[d]
    BY <1>4 DEF SendVerificationCode, Finish, Inv, Base, TypeOK
  <2>2. \A a \in Mailing(c) \ undeclared :
          ~accounts[a].isEmailVerified => <<accounts[a].email, accounts[a].code>> \in mails'
    BY <1>4 DEF SendVerificationCode, Mailing, Inv, Base, LocalsOK, Means
  <2> QED
    BY <1>1, <1>4, <2>1, <2>2 DEF SendVerificationCode
<1>5. ASSUME NEW c \in Calls, Abort(c) PROVE UnverifiedCanVerify'
  <2>1. \A d \in Calls \ {c} : call'[d] = call[d]
    BY <1>5 DEF Abort, Finish, Inv, Base, TypeOK
  <2> QED
    BY <1>1, <1>5, <2>1 DEF Abort
<1>6. ASSUME NEW a \in Ids, VerificationCodeExpires(a) PROVE UnverifiedCanVerify'
  <2>1. a \in Known /\ UNCHANGED <<call, mails, unsent>>
        /\ Set(a, [accounts[a] EXCEPT !.expired = TRUE])
    BY <1>6 DEF VerificationCodeExpires, locals
  <2>2. PICK row \in User :
          /\ Set(a, row) /\ row.email = accounts[a].email /\ row.username = accounts[a].username
          /\ row.googleId = accounts[a].googleId /\ row.code = accounts[a].code
          /\ row.isEmailVerified = accounts[a].isEmailVerified
    BY <2>1, RowWritten DEF Inv
  <2>3. /\ Known' = Known
        /\ \A b \in Known : accounts'[b] = IF b = a THEN row ELSE accounts[b]
    BY <2>1, <2>2, SetShape DEF Inv, Base
  <2>4. \A b \in Known \ undeclared : ~accounts'[b].isEmailVerified => Reachable(b)
    BY <2>2, <2>3 DEF Inv, UnverifiedCanVerify, Reachable
  <2>5. \A b \in Known \ undeclared : ~accounts'[b].isEmailVerified => Reachable(b)'
    BY <2>1, <2>2, <2>3, <2>4, ReachableKept
  <2> QED
    BY <2>3, <2>5 DEF UnverifiedCanVerify, Reachable
<1>7. ASSUME NEW k \in AuthCodes, AuthCodeExpires(k) \/ ExchangeCode(k) PROVE UnverifiedCanVerify'
  BY <1>1, <1>7 DEF AuthCodeExpires, ExchangeCode
<1> QED
  BY <1>3, <1>4, <1>5, <1>6, <1>7, VerifiableInsert, VerifiableUpdate
     DEF SignIn, Proceed

-----------------------------------------------------------------------------
(* Restarts and updates of profiles. *)

\* A restart loses the calls and the one-time codes.
LEMMA RestartStep ==
  ASSUME Inv, Restart
  PROVE  Inv'
<1>1. call' \in [Calls -> Call] /\ LocalsOK'
  BY IdleOK DEF Restart, LocalsOK
<1>2. /\ DOMAIN patch' = Patches /\ \A p \in Patches : IsPatch(patch'[p])
      /\ PatchesOK'
  BY StillOK DEF Restart, PatchesOK, UpdateMeans
<1>3. TypeOK'
  BY <1>1, <1>2 DEF Restart, Inv, Base, TypeOK, Known, Mailing
<1>4. SessionsAreVerified' /\ GoogleIsVerified'
  BY DEF Restart, Inv, Base, SessionsAreVerified, GoogleIsVerified, Known
<1>5. OneOwner' /\ MailsHaveAccounts' /\ SingleUse'
  BY DEF Restart, Inv, OneOwner, MailsHaveAccounts, SingleUse, Known
<1>6. ASSUME NEW a \in Known \ undeclared, ~accounts[a].isEmailVerified PROVE Reachable(a)'
  <2>1. Reachable(a)
    BY <1>6 DEF Inv, UnverifiedCanVerify, Reachable
  <2> QED
    BY <2>1 DEF Restart, Reachable
<1>7. UnverifiedCanVerify'
  BY <1>6 DEF Restart, UnverifiedCanVerify, Reachable, Known
<1> QED
  BY <1>1, <1>2, <1>3, <1>4, <1>5, <1>7 DEF Inv, Base

\* A slot is taken or freed; the rows stay.
LEMMA PatchStep ==
  ASSUME Inv, NEW p \in Patches, NEW k, IsPatch(k), patch' = [patch EXCEPT ![p] = k],
         UNCHANGED <<accounts, locals, call, former>>,
         undeclared \subseteq undeclared', undeclared' \subseteq Ids,
         UpdateMeans(accounts, undeclared', k)
  PROVE  Inv'
<1>1. \A q \in Patches : patch'[q] = IF q = p THEN k ELSE patch[q]
  BY DEF Inv, Base, TypeOK
<1>2. TypeOK'
  BY <1>1 DEF Inv, Base, TypeOK, Known, locals
<1>3. SessionsAreVerified' /\ GoogleIsVerified'
  BY DEF Inv, Base, SessionsAreVerified, GoogleIsVerified, Known, locals
<1>4. ASSUME NEW c \in Calls PROVE Means(accounts, undeclared', former, call[c])
  BY DEF Inv, Base, LocalsOK, Means
<1>5. ASSUME NEW q \in Patches PROVE UpdateMeans(accounts, undeclared', patch'[q])
  BY <1>1 DEF Inv, PatchesOK, UpdateMeans
<1>6. LocalsOK' /\ PatchesOK'
  BY <1>4, <1>5 DEF LocalsOK, PatchesOK
<1>7. OneOwner' /\ MailsHaveAccounts' /\ SingleUse'
  BY DEF Inv, OneOwner, MailsHaveAccounts, SingleUse, Known, locals
<1>8. UnverifiedCanVerify'
  BY DEF Inv, UnverifiedCanVerify, Known, Mailing, locals
<1> QED
  BY <1>2, <1>3, <1>6, <1>7, <1>8 DEF Inv, Base

\* The columns of a body over those of a row, and those of them that differ.
LEMMA LaidPartial ==
  ASSUME NEW f, IsPartial(f), NEW row \in User
  PROVE  /\ IsPartial(Laid(f, row))
         /\ "isEmailVerified" \notin DOMAIN f =>
              Laid(f, row)["isEmailVerified"] = row.isEmailVerified
<1> DEFINE g == Laid(f, row)
<1>1. DOMAIN g = DOMAIN f \union Selected
      /\ \A k \in DOMAIN g : g[k] = IF k \in DOMAIN f THEN f[k] ELSE row[k]
  BY DEF Laid
<1>2. /\ row["email"] \in Emails /\ row["username"] \in Texts
      /\ row["googleId"] \in Opt(GoogleIds) /\ row["isEmailVerified"] \in BOOLEAN
  BY DEF User
<1> HIDE DEF g
<1>3. IsPartial(g)
  BY <1>1, <1>2 DEF IsPartial, Columns, Selected
<1>4. "isEmailVerified" \notin DOMAIN f => g["isEmailVerified"] = row.isEmailVerified
  BY <1>1 DEF Selected
<1> QED
  BY <1>3, <1>4 DEF g

\* So they are for any part of the columns.
LEMMA PartPartial ==
  ASSUME NEW f, IsPartial(f), NEW S, S \subseteq DOMAIN f
  PROVE  IsPartial([k \in S |-> f[k]])
  BY DEF IsPartial

\* A body comes in.
LEMMA UpdateUserInfoStep ==
  ASSUME Inv, NEW p \in Patches, NEW a \in Ids, NEW b \in Bodies, UpdateUserInfo(p, a, b),
         UNCHANGED <<locals, call>>
  PROVE  Inv'
<1> DEFINE t == IF b.id = NULL THEN a ELSE b.id
           set == Laid(b.columns, accounts[t])
           k == [step |-> "save", id |-> t, set |-> set]
<1>1. /\ t \in Known /\ a \in sessions /\ patch' = [patch EXCEPT ![p] = k]
      /\ UNCHANGED <<accounts, former>>
  BY DEF UpdateUserInfo
<1>2. undeclared' = IF b.id = NULL /\ DOMAIN b.columns \subseteq Declared
                     THEN undeclared ELSE undeclared \union {t}
  BY DEF UpdateUserInfo
<1>3. t \in Ids /\ accounts[t] \in User
  BY <1>1 DEF Inv, Base, TypeOK
<1>4. IsPartial(set) /\ ("isEmailVerified" \notin DOMAIN b.columns =>
                           set["isEmailVerified"] = accounts[t].isEmailVerified)
  BY <1>3, LaidPartial, BodyAssumption
<1>5. t \notin undeclared' => accounts[t].isEmailVerified /\ "isEmailVerified" \notin DOMAIN b.columns
  BY <1>1, <1>2 DEF Inv, Base, SessionsAreVerified, Declared
<1>6. undeclared \subseteq undeclared' /\ undeclared' \subseteq Ids
  BY <1>2, <1>3 DEF Inv, Base, TypeOK
<1> HIDE DEF t, set
<1>7. IsPatch(k)
  BY <1>3, <1>4 DEF IsPatch, Opt
<1>8. UpdateMeans(accounts, undeclared', k)
  BY <1>1, <1>4, <1>5 DEF UpdateMeans, Known
<1> HIDE DEF k
<1> QED
  BY <1>1, <1>6, <1>7, <1>8, PatchStep

\* The columns to update are found.
LEMMA SaveSelectStep ==
  ASSUME Inv, NEW p \in Patches, SaveSelect(p), UNCHANGED <<locals, call>>
  PROVE  Inv'
<1> DEFINE set == patch[p].set
           columns == {j \in DOMAIN set : set[j] # accounts[patch[p].id][j]}
           part == [j \in columns |-> set[j]]
           k == [step |-> "update", id |-> patch[p].id, set |-> part]
<1>1. /\ patch[p].step = "save" /\ UNCHANGED <<accounts, undeclared, former>>
      /\ \/ EndPatch(p)
         \/ patch' = [patch EXCEPT ![p] = k]
  BY DEF SaveSelect
<1>2. IsPatch(patch[p]) /\ UpdateMeans(accounts, undeclared, patch[p]) /\ undeclared \subseteq Ids
  BY DEF Inv, Base, TypeOK, PatchesOK
<1>3. CASE EndPatch(p)
  BY <1>1, <1>2, <1>3, StillOK, PatchStep DEF EndPatch
<1>4. CASE patch' = [patch EXCEPT ![p] = k]
  <2>1. IsPartial(part)
    BY <1>2, PartPartial DEF IsPatch
  <2>2. "isEmailVerified" \in DOMAIN part =>
          "isEmailVerified" \in DOMAIN set /\ part["isEmailVerified"] = set["isEmailVerified"]
    OBVIOUS
  <2> HIDE DEF set, part
  <2>3. UpdateMeans(accounts, undeclared, k)
    BY <1>1, <1>2, <2>2 DEF UpdateMeans, set
  <2>4. IsPatch(k)
    BY <1>2, <2>1 DEF IsPatch
  <2> HIDE DEF k
  <2> QED
    BY <1>1, <1>2, <1>4, <2>3, <2>4, PatchStep
<1> QED
  BY <1>1, <1>3, <1>4

\* What is written to a row makes a row, and keeps the mark of one that nobody
\* has tampered with.
LEMMA WrittenRow ==
  ASSUME NEW row \in User, NEW set, IsPartial(set)
  PROVE  /\ Written(row, set) \in User
         /\ row.isEmailVerified => \/ Written(row, set).isEmailVerified
                                   \/ /\ "isEmailVerified" \in DOMAIN set
                                      /\ set["isEmailVerified"] # TRUE
<1>1. /\ Taken(set, "email", row.email) \in Emails
      /\ Taken(set, "username", row.username) \in Texts
      /\ Taken(set, "password", row.password) \in Opt(Passwords)
      /\ Taken(set, "googleId", row.googleId) \in Opt(GoogleIds)
      /\ Taken(set, "isEmailVerified", row.isEmailVerified) \in BOOLEAN
      /\ Taken(set, "code", row.code) \in Opt(Codes)
      /\ Taken(set, "expired", row.expired) \in BOOLEAN
  BY DEF IsPartial, Taken, User
<1>2. Written(row, set).isEmailVerified = Taken(set, "isEmailVerified", row.isEmailVerified)
  BY DEF Written
<1> QED
  BY <1>1, <1>2 DEF Written, User, Taken

\* The row is updated.
LEMMA SaveUpdateStep ==
  ASSUME Inv, NEW p \in Patches, SaveUpdate(p), UNCHANGED <<locals, call>>
  PROVE  Inv'
<1> DEFINE t == patch[p].id
           row == Written(accounts[t], patch[p].set)
<1>1. /\ patch[p].step = "update" /\ UniqueBut(t, row) /\ Set(t, row)
      /\ former' = former \union ({accounts[t].email} \ {row.email})
      /\ EndPatch(p) /\ undeclared' = undeclared
  BY DEF SaveUpdate
<1>2. IsPatch(patch[p]) /\ UpdateMeans(accounts, undeclared, patch[p])
  BY DEF Inv, Base, TypeOK, PatchesOK
<1>3. t \in Known /\ accounts[t] \in User
  BY <1>1, <1>2 DEF UpdateMeans, Inv, Base, TypeOK, Known
<1>4. row \in User
  BY <1>2, <1>3, WrittenRow DEF IsPatch
<1>5. t \notin undeclared => accounts[t].isEmailVerified /\ row.isEmailVerified
  BY <1>1, <1>2, <1>3, WrittenRow DEF UpdateMeans, IsPatch
<1> HIDE DEF t, row
<1>6. /\ Known' = Known /\ accounts' \in [Known' -> User]
      /\ \A a \in Known : accounts'[a] = IF a = t THEN row ELSE accounts[a]
  BY <1>1, <1>3, <1>4 DEF Set, Known, Inv, Base, TypeOK
<1>7. \A q \in Patches : patch'[q] = IF q = p THEN Still ELSE patch[q]
  BY <1>1 DEF EndPatch, Inv, Base, TypeOK
<1>8. DOMAIN patch' = Patches /\ \A q \in Patches : IsPatch(patch'[q])
  BY <1>1, <1>7, StillOK DEF EndPatch, Inv, Base, TypeOK
<1>9. former' \subseteq Emails /\ former \subseteq former'
  BY <1>1, <1>3 DEF User, Inv, Base, TypeOK
<1>10. TypeOK'
  BY <1>1, <1>6, <1>8, <1>9 DEF Inv, Base, TypeOK, locals
<1>11. /\ \A a \in Known \ undeclared : accounts[a].isEmailVerified => accounts'[a].isEmailVerified
       /\ \A a \in Known : \/ accounts'[a].email = accounts[a].email
                           \/ /\ accounts[a].email \in former'
                              /\ accounts'[a].isEmailVerified \/ a \in undeclared
  BY <1>1, <1>3, <1>5, <1>6
<1>12. SessionsAreVerified'
  BY <1>1, <1>6, <1>11 DEF Inv, Base, SessionsAreVerified, locals
<1>13. GoogleIsVerified'
  BY <1>1, <1>5, <1>6 DEF Inv, Base, GoogleIsVerified
<1>14. ASSUME NEW c \in Calls PROVE Means(accounts', undeclared', former', call'[c])
  <2>1. Means(accounts, undeclared, former, call[c]) /\ call'[c] = call[c]
    BY DEF Inv, Base, LocalsOK
  <2> QED
    BY <1>1, <1>6, <1>9, <1>11, <2>1 DEF Means, Known
<1>15. ASSUME NEW q \in Patches PROVE UpdateMeans(accounts', undeclared', patch'[q])
  <2>1. UpdateMeans(accounts, undeclared, patch[q])
    BY DEF Inv, PatchesOK
  <2> QED
    BY <1>1, <1>6, <1>7, <1>11, <2>1 DEF UpdateMeans, Known, Still
<1>16. LocalsOK' /\ PatchesOK'
  BY <1>14, <1>15 DEF LocalsOK, PatchesOK
<1>17. OneOwner'
  <2>1. ASSUME NEW a \in Known, a # t
        PROVE  /\ accounts'[a].email # row.email /\ accounts'[a].username # row.username
               /\ row.googleId # NULL => accounts'[a].googleId # row.googleId
    BY <1>1, <1>6, <2>1 DEF UniqueBut
  <2> QED
    BY <1>3, <1>6, <2>1 DEF Inv, OneOwner
<1>18. MailsHaveAccounts'
  BY <1>1, <1>6, <1>9, <1>11 DEF Inv, MailsHaveAccounts, locals
<1>19. SingleUse'
  BY DEF Inv, SingleUse, locals
<1>20. UnverifiedCanVerify'
  <2>1. ASSUME NEW a \in Known \ undeclared, ~accounts'[a].isEmailVerified
        PROVE  Reachable(a)'
    <3>1. a # t /\ accounts'[a] = accounts[a]
      BY <1>5, <1>6, <2>1
    <3>2. Reachable(a)
      BY <2>1, <3>1 DEF Inv, UnverifiedCanVerify, Reachable
    <3> QED
      BY <1>6, <3>1, <3>2, ReachableKept DEF locals
  <2> QED
    BY <1>1, <1>6, <2>1 DEF UnverifiedCanVerify, Reachable
<1> QED
  BY <1>10, <1>12, <1>13, <1>16, <1>17, <1>18, <1>19, <1>20 DEF Inv, Base

\* An update of a profile, whatever the body.
LEMMA UpdateProfile ==
  ASSUME Inv, NEW p \in Patches, Update(p), UNCHANGED <<locals, call>>
  PROVE  Inv'
<1>1. CASE PatchRejected(p)
  <2>1. undeclared \subseteq Ids
    BY DEF Inv, Base, TypeOK
  <2> QED
    BY <1>1, <2>1, StillOK, PatchStep DEF PatchRejected, EndPatch
<1> QED
  BY <1>1, UpdateUserInfoStep, SaveSelectStep, SaveUpdateStep DEF Update

-----------------------------------------------------------------------------
(* The theorems. *)

\* The empty tables satisfy Inv.
LEMMA InvInit == ASSUME Init PROVE Inv
<1>1. LocalsOK /\ call \in [Calls -> Call]
  BY IdleOK DEF Init, LocalsOK
<1>2. PatchesOK /\ DOMAIN patch = Patches /\ \A p \in Patches : IsPatch(patch[p])
  BY StillOK DEF Init, PatchesOK
<1>3. TypeOK
  BY <1>1, <1>2 DEF Init, TypeOK, Known
<1> QED
  BY <1>1, <1>2, <1>3 DEF Init, Inv, Base, SessionsAreVerified, GoogleIsVerified, OneOwner,
     UnverifiedCanVerify, MailsHaveAccounts, SingleUse, Known

(***************************************************************************)
(* The table, the mails, the one-time codes and the locals of every        *)
(* handler in flight agree, always (auth/services/).                       *)
(***************************************************************************)
THEOREM InvCorrect == Spec => []Inv
<1>1. Init => Inv
  BY InvInit
<1>2. ASSUME Inv, [Next]_vars PROVE Inv'
  <2>1. CASE SignIn /\ UNCHANGED profile
    <3>1. patch' = patch /\ undeclared' = undeclared /\ former' = former
      BY <2>1 DEF profile
    <3>2. Base' /\ Grows(accounts, accounts')
      BY <1>2, <2>1, <3>1, BaseStep DEF Inv
    <3>3. PatchesOK'
      BY <1>2, <3>1, <3>2, PatchesKept DEF Inv
    <3>4. OneOwner' /\ MailsHaveAccounts' /\ SingleUse' /\ UnverifiedCanVerify'
      BY <1>2, <2>1, <3>1, <3>2, OwnerStep, MailStep, SpentStep, VerifiableStep
    <3> QED
      BY <3>2, <3>3, <3>4 DEF Inv
  <2>2. CASE Restart
    BY <1>2, <2>2, RestartStep
  <2>3. CASE UNCHANGED vars
    BY <1>2, <2>3 DEF vars, Inv, Base, TypeOK, SessionsAreVerified, GoogleIsVerified, LocalsOK,
       PatchesOK, OneOwner, UnverifiedCanVerify, MailsHaveAccounts, SingleUse, Known, Mailing
  <2> QED
    BY <1>2, <2>1, <2>2, <2>3, UpdateProfile DEF Next
<1> QED
  BY <1>1, <1>2, PTL DEF Spec

(***************************************************************************)
(* The table of users, the mails, the codes and the handlers' locals keep  *)
(* their types, and only existing accounts have tokens or a failed mail.   *)
(***************************************************************************)
THEOREM AccountsTypeCorrect == Spec => []TypeOK
<1>1. Inv => TypeOK
  BY DEF Inv, Base
<1> QED
  BY <1>1, InvCorrect, PTL

(***************************************************************************)
(* An email, a user name and a Google account have one owner, however many *)
(* registrations and first sign-ins all found nothing                      *)
(* (password-auth.service.ts:26-32, google-auth.service.ts:24-34).         *)
(***************************************************************************)
THEOREM OwnerCorrect == Spec => []OneOwner
<1>1. Inv => OneOwner
  BY DEF Inv
<1> QED
  BY <1>1, InvCorrect, PTL

(***************************************************************************)
(* Tokens, and codes that will be exchanged for them, belong to accounts   *)
(* that are marked as verified (password-auth.service.ts:94-97), also      *)
(* after a change of the address, which keeps the mark                     *)
(* (users.service.ts:109-120); accounts whose mark a body may have changed *)
(* are left out.                                                           *)
(***************************************************************************)
THEOREM SessionsCorrect == Spec => []SessionsAreVerified
<1>1. Inv => SessionsAreVerified
  BY DEF Inv, Base
<1> QED
  BY <1>1, InvCorrect, PTL

(***************************************************************************)
(* An account that is not verified can be with a code that was mailed, is  *)
(* about to be, or whose mail failed, whatever resends, verifications and  *)
(* restarts overlap (password-auth.service.ts:67-74).                      *)
(***************************************************************************)
THEOREM VerifiableCorrect == Spec => []UnverifiedCanVerify
<1>1. Inv => UnverifiedCanVerify
  BY DEF Inv
<1> QED
  BY <1>1, InvCorrect, PTL

(***************************************************************************)
(* A code goes only to an address that an account has, or had before it    *)
(* changed it (auth.service.ts:34-48, users.service.ts:109-120).           *)
(***************************************************************************)
THEOREM MailsCorrect == Spec => []MailsHaveAccounts
<1>1. Inv => MailsHaveAccounts
  BY DEF Inv
<1> QED
  BY <1>1, InvCorrect, PTL

(***************************************************************************)
(* A one-time code yields its tokens at most once                          *)
(* (auth-code.service.ts:17-21).                                           *)
(***************************************************************************)
THEOREM SingleUseCorrect == Spec => []SingleUse
<1>1. Inv => SingleUse
  BY DEF Inv
<1> QED
  BY <1>1, InvCorrect, PTL
=============================================================================
