SPECIFICATION FairSpec
CONSTANTS
  Part = {"login", "serving", "credentials", "users", "channels", "setup", "careless", "demo"}
  alice = alice
  admin = admin
  elsewhere = elsewhere
  root = root
  phone = phone
  console = console
  u1 = u1
  u2 = u2
  u3 = u3
  u4 = u4
  c1 = c1
  c2 = c2
  NoIdent = NoIdent
  NoKeys = NoKeys
  Nobody = Nobody
  Nothing = Nothing
  Admin <- admin
  External <- elsewhere
INVARIANTS RequestsHold
 
CHECK_DEADLOCK FALSE
