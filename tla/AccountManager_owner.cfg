CONSTANTS
  r1 = r1
  r2 = r2
  r3 = r3
  ann = ann
  ben = ben
  pin = pin
  key = key
  NoRequest = NoRequest
  Requests = {r1, r2}
  Logins = {ann, ben}
  Passwords = {pin, key}
  Registered <- AnnAndBen
SPECIFICATION Spec
INVARIANT SessionNamesOwner
CHECK_DEADLOCK FALSE
