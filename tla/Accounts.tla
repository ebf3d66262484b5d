------------------------------ MODULE Accounts ------------------------------
(***************************************************************************)
(* How accounts come to be and their owners sign in: PasswordAuthService,  *)
(* GoogleAuthService and AuthService over the table of users, the mails    *)
(* they send, AuthCodeService's codes for the end of a Google sign-in, and *)
(* updateUserInfo, by which an account changes its address and its name    *)
(* in the same table (Profile looks at it more closely).                   *)
(*                                                                         *)
(* An action is one database call, or one mail, with the code that runs    *)
(* after it up to the next.  Time is not counted: a code expires at a      *)
(* moment nobody chooses.  Names, avatars, friend codes and what tokens    *)
(* contain are left out.  A handler keeps of the row it has read what it   *)
(* goes on to use.                                                         *)
(***************************************************************************)
EXTENDS Integers, FiniteSets

CONSTANTS
  Ids,        \* ids for accounts
  Texts,      \* user names and email addresses
  Emails,     \* those that are email addresses
  Lower,      \* text -> the text in lower case
  Passwords,
  GoogleIds,
  Codes,      \* six-digit verification codes
  AuthCodes,  \* one-time codes of AuthCodeService, never reused
  Calls,      \* slots for handlers in flight
  Bodies,     \* bodies of PATCH users/me: columns with new values, and an id
  Patches,    \* slots for updates of profiles in flight
  NULL        \* null and undefined

ASSUME TextAssumption ==
  /\ Emails \subseteq Texts
  /\ Lower \in [Texts -> Texts] /\ \A x \in Texts : Lower[Lower[x]] = Lower[x]
ASSUME NullAssumption ==
  NULL \notin Ids \union Texts \union Passwords \union GoogleIds \union Codes

Opt(S) == S \union {NULL}

User == [email : Emails, username : Texts, password : Opt(Passwords),
         googleId : Opt(GoogleIds), isEmailVerified : BOOLEAN,
         code : Opt(Codes), expired : BOOLEAN]

\* The columns a query selects, those of UpdateUserDto (two of which are left
\* out), and all.
Selected == {"email", "username", "googleId", "isEmailVerified"}
Declared == {"email", "username"}
Columns  == Selected \union {"password", "code", "expired"}

\* Some columns, with values the table takes: null is refused where it is.
IsPartial(f) ==
  /\ DOMAIN f \subseteq Columns
  /\ "email" \in DOMAIN f => f["email"] \in Emails
  /\ "username" \in DOMAIN f => f["username"] \in Texts
  /\ "password" \in DOMAIN f => f["password"] \in Opt(Passwords)
  /\ "googleId" \in DOMAIN f => f["googleId"] \in Opt(GoogleIds)
  /\ "isEmailVerified" \in DOMAIN f => f["isEmailVerified"] \in BOOLEAN
  /\ "code" \in DOMAIN f => f["code"] \in Opt(Codes)
  /\ "expired" \in DOMAIN f => f["expired"] \in BOOLEAN

\* The validation pipe strips nothing: a body may name any column, and an id.
ASSUME BodyAssumption ==
  \A b \in Bodies : IsPartial(b.columns) /\ b.id \in Opt(Ids)

VARIABLES
  accounts,        \* account id -> row
  mails,           \* mails delivered: <<address, verification code>>
  unsent,          \* accounts the mail of whose code failed, for properties
  pendingResults,  \* auth code -> the account signed in, and whether it expired
  spent,           \* auth codes that were exchanged for tokens, for properties
  sessions,        \* accounts that tokens have been handed out for
  call,            \* call -> where its handler stands, and its locals
  patch,           \* slot -> where the update in it stands, and its locals
  \* For properties only:
  undeclared,      \* accounts that a body has named by its id, or with a column
                   \* that is not one of UpdateUserDto's
  former           \* addresses that accounts have had and changed

vars == <<accounts, mails, unsent, pendingResults, spent, sessions, call, patch,
          undeclared, former>>
locals == <<mails, unsent, pendingResults, spent, sessions>>
profile == <<patch, undeclared, former>>

-----------------------------------------------------------------------------

Known == DOMAIN accounts

\* The account with an email, NULL when there is none.
WithEmail(e) ==
  IF \E a \in Known : accounts[a].email = e
    THEN CHOOSE a \in Known : accounts[a].email = e ELSE NULL

Steps == {"idle", "insert", "mail", "mark", "store", "issue",
          "google email", "google insert", "google issue"}

Call == [step : Steps, user : Opt(User), id : Opt(Ids), code : Opt(Codes)]
Idle == [step |-> "idle", user |-> NULL, id |-> NULL, code |-> NULL]

\* Faulty variant: no unique columns.
UniqueNone(u) == TRUE

\* The unique columns of the table let the row in.
Unique(u) ==
  \A a \in Known :
    /\ accounts[a].email # u.email
    /\ accounts[a].username # u.username
    /\ u.googleId # NULL => accounts[a].googleId # u.googleId

\* `set': the body over the row, then the columns to update.
Nothing == [k \in {} |-> NULL]
Still   == [step |-> "idle", id |-> NULL, set |-> Nothing]
IsPatch(k) ==
  /\ k.step \in {"idle", "save", "update"} /\ k.id \in Opt(Ids) /\ IsPartial(k.set)

Goto(c, step) == call' = [call EXCEPT ![c].step = step]
Finish(c)     == call' = [call EXCEPT ![c] = Idle]

\* Faulty variant: the row that was built is used on, not the one save() returned.
InsertNoId(c, next) ==
  \E a \in Ids \ Known :
    /\ accounts' = [k \in Known \union {a} |->
                      IF k = a THEN call[c].user ELSE accounts[k]]
    /\ call' = [call EXCEPT ![c].step = next]

Insert(c, next) ==
  \E a \in Ids \ Known :
    /\ accounts' = [k \in Known \union {a} |->
                      IF k = a THEN call[c].user ELSE accounts[k]]
    /\ call' = [call EXCEPT ![c].step = next, ![c].id = a]

Set(a, row) == accounts' = [accounts EXCEPT ![a] = row]

-----------------------------------------------------------------------------
(* Registration and verification of an email. *)

\* createUser: the user name is normalised, whoever signs up.
CreateUser(e, n, p, g, verified, cd) ==
  [email |-> e, username |-> Lower[n], password |-> p, googleId |-> g,
   isEmailVerified |-> verified, code |-> cd, expired |-> FALSE]

\* A registration comes with a new verification code.
Registered(e, n, p, cd) == CreateUser(e, n, p, NULL, FALSE, cd)

\* userExists answers no; the password is hashed and a code made up.
RegisterUser(c, e, n, p, cd) ==
  /\ call[c].step = "idle" /\ WithEmail(e) = NULL
  /\ call' = [call EXCEPT ![c] =
       [step |-> "insert", user |-> Registered(e, n, p, cd), id |-> NULL, code |-> cd]]
  /\ UNCHANGED <<accounts, locals>>

InsertUser(c) ==
  /\ call[c].step = "insert" /\ Unique(call[c].user)
  /\ Insert(c, "mail")
  /\ UNCHANGED locals

\* Faulty variant: the code is mailed although the insert failed.
InsertRefusedMails(c) ==
  /\ call[c].step \in {"insert", "google insert"} /\ ~Unique(call[c].user)
  /\ Goto(c, "mail")
  /\ UNCHANGED <<accounts, locals>>

InsertRefused(c) ==
  /\ call[c].step \in {"insert", "google insert"} /\ ~Unique(call[c].user)
  /\ Finish(c)
  /\ UNCHANGED <<accounts, locals>>

\* sendVerificationCode gets through; that it may not is Abort.
SendVerificationCode(c) ==
  /\ call[c].step = "mail"
  /\ mails' = mails \union {<<call[c].user.email, call[c].code>>}
  /\ Finish(c)
  /\ UNCHANGED <<accounts, unsent, pendingResults, spent, sessions>>

IsVerificationCodeValid(u, cd) == cd = u.code /\ ~u.expired

\* An unverified account is found and the code is right.
VerifyEmail(c, e, cd) ==
  LET a == WithEmail(e) IN
  /\ call[c].step = "idle" /\ a # NULL
  /\ ~accounts[a].isEmailVerified /\ accounts[a].code # NULL
  /\ IsVerificationCodeValid(accounts[a], cd)
  /\ call' = [call EXCEPT ![c] =
       [step |-> "mark", user |-> NULL, id |-> a, code |-> NULL]]
  /\ UNCHANGED <<accounts, locals>>

MarkEmailAsVerified(c) ==
  LET a == call[c].id IN
  /\ call[c].step = "mark"
  /\ Set(a, [accounts[a] EXCEPT !.isEmailVerified = TRUE, !.code = NULL, !.expired = FALSE])
  /\ unsent' = unsent \ {a}
  /\ Finish(c)
  /\ UNCHANGED <<mails, pendingResults, spent, sessions>>

\* regenerateVerificationCode finds an unverified account.
ResendVerificationCode(c, e, cd) ==
  LET a == WithEmail(e) IN
  /\ call[c].step = "idle" /\ a # NULL /\ ~accounts[a].isEmailVerified
  /\ call' = [call EXCEPT ![c] =
       [step |-> "store", user |-> accounts[a], id |-> a, code |-> cd]]
  /\ UNCHANGED <<accounts, locals>>

\* Faulty variant: the mail holds the code that was read with the account.
SetEmailVerificationCodeMailsOld(c) ==
  LET a == call[c].id IN
  /\ call[c].step = "store"
  /\ Set(a, [accounts[a] EXCEPT !.code = call[c].code, !.expired = FALSE])
  /\ call' = [call EXCEPT ![c].step = "mail", ![c].code = call[c].user.code]
  /\ unsent' = unsent \ {a}
  /\ UNCHANGED <<mails, pendingResults, spent, sessions>>

\* The update looks at nothing but the id.
SetEmailVerificationCode(c) ==
  LET a == call[c].id IN
  /\ call[c].step = "store"
  /\ Set(a, [accounts[a] EXCEPT !.code = call[c].code, !.expired = FALSE])
  /\ unsent' = unsent \ {a}
  /\ Goto(c, "mail")
  /\ UNCHANGED <<mails, pendingResults, spent, sessions>>

VerificationCodeExpires(a) ==
  /\ a \in Known /\ accounts[a].code # NULL
  /\ Set(a, [accounts[a] EXCEPT !.expired = TRUE])
  /\ UNCHANGED <<call, locals>>

-----------------------------------------------------------------------------
(* Sign-in. *)

\* Faulty variant: nobody asks whether the email is verified.
LoginWithPasswordUnverified(c, e, p) ==
  LET a == WithEmail(e) IN
  /\ call[c].step = "idle" /\ a # NULL /\ accounts[a].password = p
  /\ call' = [call EXCEPT ![c] =
       [step |-> "issue", user |-> NULL, id |-> a, code |-> NULL]]
  /\ UNCHANGED <<accounts, locals>>

\* The account is read, and its password and verification are as they must be.
LoginWithPassword(c, e, p) ==
  LET a == WithEmail(e) IN
  /\ call[c].step = "idle" /\ a # NULL
  /\ accounts[a].password = p /\ accounts[a].isEmailVerified
  /\ call' = [call EXCEPT ![c] =
       [step |-> "issue", user |-> NULL, id |-> a, code |-> NULL]]
  /\ UNCHANGED <<accounts, locals>>

\* refreshToken: the holder of a refresh token that has not expired comes back.
RefreshToken(c, a) ==
  /\ call[c].step = "idle" /\ a \in sessions
  /\ call' = [call EXCEPT ![c] =
       [step |-> "issue", user |-> NULL, id |-> a, code |-> NULL]]
  /\ UNCHANGED <<accounts, locals>>

IssueTokenPair(c) ==
  /\ call[c].step = "issue"
  /\ sessions' = sessions \union {call[c].id}
  /\ Finish(c)
  /\ UNCHANGED <<accounts, mails, unsent, pendingResults, spent>>

\* A first Google sign-in: the user name is the email.
FromGoogle(e, g) == CreateUser(e, e, NULL, g, TRUE, NULL)

WithGoogleId(g) == {a \in Known : accounts[a].googleId = g}

\* getUserByGoogleId: a known account signs in, an unknown one goes on.
LoginWithGoogle(c, e, g) ==
  /\ call[c].step = "idle"
  /\ IF WithGoogleId(g) = {}
       THEN call' = [call EXCEPT ![c] = [step |-> "google email",
              user |-> FromGoogle(e, g), id |-> NULL, code |-> NULL]]
       ELSE \E a \in WithGoogleId(g) : call' = [call EXCEPT ![c] =
              [step |-> "google issue", user |-> NULL, id |-> a, code |-> NULL]]
  /\ UNCHANGED <<accounts, locals>>

\* An account with this email is not taken over: the sign-in ends in a 400.
GoogleCheckEmail(c) ==
  /\ call[c].step = "google email"
  /\ IF WithEmail(call[c].user.email) = NULL THEN Goto(c, "google insert") ELSE Finish(c)
  /\ UNCHANGED <<accounts, locals>>

GoogleInsert(c) ==
  /\ call[c].step = "google insert" /\ Unique(call[c].user)
  /\ Insert(c, "google issue")
  /\ UNCHANGED locals

\* AuthCodeService.issueCode, after the tokens are made.
IssueCode(c) ==
  /\ call[c].step = "google issue"
  /\ \E k \in AuthCodes \ (DOMAIN pendingResults \union spent) :
       pendingResults' = [j \in DOMAIN pendingResults \union {k} |->
         IF j = k THEN [id |-> call[c].id, expired |-> FALSE] ELSE pendingResults[j]]
  /\ Finish(c)
  /\ UNCHANGED <<accounts, mails, unsent, spent, sessions>>

AuthCodeExpires(k) ==
  /\ k \in DOMAIN pendingResults
  /\ pendingResults' = [pendingResults EXCEPT ![k].expired = TRUE]
  /\ UNCHANGED <<accounts, mails, unsent, spent, sessions, call>>

\* Faulty variant: the code is only deleted when it has expired.
ExchangeCodeKept(k) ==
  /\ k \in DOMAIN pendingResults /\ ~pendingResults[k].expired
  /\ sessions' = sessions \union {pendingResults[k].id}
  /\ spent' = spent \union {k}
  /\ UNCHANGED <<accounts, mails, unsent, pendingResults, call>>

\* exchangeCode: the code goes, whether or not it is still good.
ExchangeCode(k) ==
  /\ k \in DOMAIN pendingResults
  /\ pendingResults' = [j \in DOMAIN pendingResults \ {k} |-> pendingResults[j]]
  /\ IF pendingResults[k].expired
       THEN UNCHANGED <<sessions, spent>>
       ELSE /\ sessions' = sessions \union {pendingResults[k].id}
            /\ spent' = spent \union {k}
  /\ UNCHANGED <<accounts, mails, unsent, call>>

\* Whose stored code a call is about to mail.
Mailing(c) == {a \in Known : call[c].step = "mail" /\ call[c].id = a
                               /\ call[c].code = accounts[a].code}

\* A database call, the mail provider or the hashing rejects.
Abort(c) ==
  /\ call[c].step # "idle"
  /\ Finish(c)
  /\ unsent' = unsent \union Mailing(c)
  /\ UNCHANGED <<accounts, mails, pendingResults, spent, sessions>>

-----------------------------------------------------------------------------
(* updateUserInfo, of an account that has tokens. *)

EndPatch(p) == patch' = [patch EXCEPT ![p] = Still]

\* A body's columns over those that are selected.
Laid(columns, row) ==
  [k \in DOMAIN columns \union Selected |->
     IF k \in DOMAIN columns THEN columns[k] ELSE row[k]]

\* preload finds the row.  Its id is the user's, if the body does not have one.
UpdateUserInfo(p, a, b) ==
  LET t == IF b.id = NULL THEN a ELSE b.id IN
  /\ patch[p].step = "idle" /\ a \in sessions /\ t \in Known
  /\ patch' = [patch EXCEPT ![p] =
       [step |-> "save", id |-> t, set |-> Laid(b.columns, accounts[t])]]
  /\ undeclared' = IF b.id = NULL /\ DOMAIN b.columns \subseteq Declared
                     THEN undeclared ELSE undeclared \union {t}
  /\ UNCHANGED <<accounts, former>>

\* save looks in which columns the row differs.
SaveSelect(p) ==
  LET set     == patch[p].set
      columns == {k \in DOMAIN set : set[k] # accounts[patch[p].id][k]} IN
  /\ patch[p].step = "save"
  /\ IF columns = {}
       THEN EndPatch(p)
       ELSE patch' = [patch EXCEPT ![p] =
              [step |-> "update", id |-> @.id, set |-> [k \in columns |-> set[k]]]]
  /\ UNCHANGED <<accounts, undeclared, former>>

Taken(set, k, old) == IF k \in DOMAIN set THEN set[k] ELSE old

Written(row, set) ==
  [email           |-> Taken(set, "email", row.email),
   username        |-> Taken(set, "username", row.username),
   password        |-> Taken(set, "password", row.password),
   googleId        |-> Taken(set, "googleId", row.googleId),
   isEmailVerified |-> Taken(set, "isEmailVerified", row.isEmailVerified),
   code            |-> Taken(set, "code", row.code),
   expired         |-> Taken(set, "expired", row.expired)]

UniqueBut(t, u) ==
  \A a \in Known \ {t} :
    /\ accounts[a].email # u.email
    /\ accounts[a].username # u.username
    /\ u.googleId # NULL => accounts[a].googleId # u.googleId

\* And updates those, if the unique columns allow it.
SaveUpdate(p) ==
  LET t   == patch[p].id
      row == Written(accounts[t], patch[p].set) IN
  /\ patch[p].step = "update" /\ UniqueBut(t, row)
  /\ Set(t, row)
  /\ former' = former \union ({accounts[t].email} \ {row.email})
  /\ EndPatch(p)
  /\ UNCHANGED undeclared

\* A database call rejects: a unique column, or anything else.
PatchRejected(p) ==
  /\ patch[p].step # "idle"
  /\ EndPatch(p)
  /\ UNCHANGED <<accounts, undeclared, former>>

-----------------------------------------------------------------------------

\* The process dies and starts again: auth codes live in its memory.
Restart ==
  /\ call' = [c \in Calls |-> Idle]
  /\ patch' = [p \in Patches |-> Still]
  /\ pendingResults' = [k \in {} |-> NULL]
  /\ unsent' = unsent \union UNION {Mailing(c) : c \in Calls}
  /\ UNCHANGED <<accounts, mails, spent, sessions, undeclared, former>>

-----------------------------------------------------------------------------

Init ==
  /\ accounts = [a \in {} |-> NULL]
  /\ mails = {} /\ unsent = {}
  /\ pendingResults = [k \in {} |-> NULL]
  /\ spent = {}
  /\ sessions = {}
  /\ call = [c \in Calls |-> Idle]
  /\ patch = [p \in Patches |-> Still]
  /\ undeclared = {} /\ former = {}

Arrive(c) ==
  \/ \E e \in Emails, n \in Texts, p \in Passwords, cd \in Codes : RegisterUser(c, e, n, p, cd)
  \/ \E e \in Emails, cd \in Codes : VerifyEmail(c, e, cd) \/ ResendVerificationCode(c, e, cd)
  \/ \E e \in Emails, p \in Passwords : LoginWithPassword(c, e, p)
  \/ \E e \in Emails, g \in GoogleIds : LoginWithGoogle(c, e, g)
  \/ \E a \in Ids : RefreshToken(c, a)

Proceed(c) ==
  \/ InsertUser(c) \/ InsertRefused(c) \/ SendVerificationCode(c)
  \/ MarkEmailAsVerified(c) \/ SetEmailVerificationCode(c) \/ IssueTokenPair(c)
  \/ GoogleCheckEmail(c) \/ GoogleInsert(c) \/ IssueCode(c)

SignIn ==
  \/ \E c \in Calls : Arrive(c) \/ Proceed(c) \/ Abort(c)
  \/ \E a \in Ids : VerificationCodeExpires(a)
  \/ \E k \in AuthCodes : AuthCodeExpires(k) \/ ExchangeCode(k)

Update(p) ==
  \/ \E a \in Ids, b \in Bodies : UpdateUserInfo(p, a, b)
  \/ SaveSelect(p) \/ SaveUpdate(p) \/ PatchRejected(p)

Next ==
  \/ SignIn /\ UNCHANGED profile
  \/ \E p \in Patches : Update(p) /\ UNCHANGED <<locals, call>>
  \/ Restart

Spec == Init /\ [][Next]_vars

-----------------------------------------------------------------------------
(* Properties. *)

TypeOK ==
  /\ Known \subseteq Ids /\ accounts \in [Known -> User]
  /\ mails \subseteq Emails \X Codes /\ unsent \subseteq Known
  /\ DOMAIN pendingResults \subseteq AuthCodes
  /\ pendingResults \in [DOMAIN pendingResults -> [id : Ids, expired : BOOLEAN]]
  /\ spent \subseteq AuthCodes /\ sessions \subseteq Ids
  /\ call \in [Calls -> Call]
  /\ DOMAIN patch = Patches /\ \A p \in Patches : IsPatch(patch[p])
  /\ undeclared \subseteq Ids /\ former \subseteq Emails

(***************************************************************************)
(* An email, a user name and a Google account belong to one account, also  *)
(* when two registrations, or two callbacks of one first Google sign-in,   *)
(* all found nothing before either inserted, and when a profile update     *)
(* brings back a name or address read before another account took it       *)
(* (password-auth.service.ts:26-32, google-auth.service.ts:24-34).         *)
(***************************************************************************)
OneOwner ==
  \A a, b \in Known : a # b =>
    /\ accounts[a].email # accounts[b].email
    /\ accounts[a].username # accounts[b].username
    /\ accounts[a].googleId # NULL => accounts[a].googleId # accounts[b].googleId

(***************************************************************************)
(* Whoever holds tokens, or a code that will be exchanged for them, has an *)
(* account that is marked as verified (password-auth.service.ts:94-97): it *)
(* has proved an address once, by a mailed code or with Google.  That need *)
(* not be the address it has now: updateUserInfo changes the address and   *)
(* leaves the mark (users.service.ts:109-120).  Of accounts in             *)
(* `undeclared', whose mark a body may have changed, nothing is said.      *)
(***************************************************************************)
SessionsAreVerified ==
  \A a \in sessions \union {pendingResults[k].id : k \in DOMAIN pendingResults} :
    a \in Known /\ (accounts[a].isEmailVerified \/ a \in undeclared)

(***************************************************************************)
(* An account that is not verified can be: it has a code, so the "missing  *)
(* verification information" of password-auth.service.ts:52-54 never       *)
(* happens, and that very code has been mailed to its address, is about to *)
(* be, or its mail has failed, whatever resends, verifications and profile *)
(* updates overlap (password-auth.service.ts:67-74, auth.service.ts:61-64).*)
(* Accounts in `undeclared' are left out: a body may unset the mark.       *)
(***************************************************************************)
UnverifiedCanVerify ==
  \A a \in Known \ undeclared : ~accounts[a].isEmailVerified =>
    \/ <<accounts[a].email, accounts[a].code>> \in mails
    \/ a \in unsent \union UNION {Mailing(c) : c \in Calls}

(***************************************************************************)
(* A code is mailed only to an address that an account has, or had before  *)
(* it changed it: a registration that loses the race for its email or its  *)
(* user name mails nothing (auth.service.ts:34-48).                        *)
(***************************************************************************)
MailsHaveAccounts ==
  \A m \in mails : m[1] \in former \union {accounts[a].email : a \in Known}

(***************************************************************************)
(* A code of AuthCodeService yields its tokens at most once                *)
(* (auth-code.service.ts:17-21, "exchange it once for the real tokens").   *)
(***************************************************************************)
SingleUse == DOMAIN pendingResults \cap spent = {}
=============================================================================
