SPECIFICATION MCSpec
CONSTANTS
  u1 = u1
  u2 = u2
  k1 = k1
  k2 = k2
  Part = {"kinds", "failing"}
  User = {u1, u2}
  Author = author
  Key = {k1, k2}
  NoKey = NoKey
  NoUser = NoUser
  KeysOf <- OwnKeys
  ChannelTypes = {"private"}
  Kinds = {"reader", "psk"}
  Events = {"get logs"}
  MaxEvents = 0
INVARIANTS
  ReadersCovered
  RevokedKeyExcluded
  ListsAgree
  
  AwaitedAgree
  
SYMMETRY Swap
CHECK_DEADLOCK FALSE
