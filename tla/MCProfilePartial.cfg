SPECIFICATION Spec
CONSTANTS
  ann = ann
  bob = bob
  name1 = name1
  name2 = name2
  mail1 = mail1
  mail2 = mail2
  mail3 = mail3
  pw1 = pw1
  pw2 = pw2
  url1 = url1
  Users = {ann, bob}
  Dtos <- MCDtos
  Passwords = {pw1, pw2}
  Exts = {png, jpg}
  Start <- MCStart
  Calls = {c1, c2}
  NULL = NULL
SYMMETRY Symmetry
PROPERTIES
  PartialUpdate
