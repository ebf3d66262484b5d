SPECIFICATION Spec
CONSTANTS
  Ids = {i1, i2}
  Bob = Bob
  bob = bob
  nick = nick
  Texts <- MCTexts
  Emails <- MCEmails
  Lower <- MCLower
  Passwords = {secret}
  GoogleIds = {g1}
  Codes = {d1, d2}
  AuthCodes = {k1}
  Calls = {c1, c2}
  Bodies <- MCBodies
  Patches = {p1}
  NULL = NULL
SYMMETRY Symmetry
CONSTRAINTS
  AtMostTwo
  TwoMails
INVARIANTS
  TypeOK
  OneOwner
  SessionsAreVerified
  UnverifiedCanVerify
  MailsHaveAccounts
  SingleUse
