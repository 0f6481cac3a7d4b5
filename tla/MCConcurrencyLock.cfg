SPECIFICATION FairSpec
CONSTANTS
  Request = {r1, r2, r3}
  LockName = {n1}
  Event = {"ttl", "disconnect", "dbError", "restart"}
  Nobody = Nobody
  NoName = NoName
INVARIANTS
  TypeOK
  KeptUnlessUndercut
  ExclusiveUnlessUndercut

  
