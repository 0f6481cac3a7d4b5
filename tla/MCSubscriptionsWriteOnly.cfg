SPECIFICATION Spec
CONSTANTS
  u1 = u1
  u2 = u2
  k1 = k1
  k2 = k2
  User = {u1, u2}
  Author = author
  Key = {k1, k2}
  NoKey = NoKey
  NoUser = NoUser
  KeysOf <- OwnKeys
  ChannelTypes = {"private"}
  Kinds = {"reader", "writer"}
  Events = {}
  MaxEvents = 0
INVARIANTS
  RevokedKeyOnNoBranch
SYMMETRY Swap
CHECK_DEADLOCK FALSE
