CONSTANTS
  r1 = r1
  r2 = r2
  r3 = r3
  ann = ann
  ben = ben
  pin = pin
  key = key
  NoRequest = NoRequest
  Requests = {r1, r2, r3}
  Logins = {ann, ben}
  Passwords = {pin, key}
  Registered <- OnlyAnn
SPECIFICATION Spec
INVARIANTS
  TypeOK
  PasswordWasGiven
  AloneIsRight
SYMMETRY Symmetry
CHECK_DEADLOCK FALSE
