SPECIFICATION Spec
CONSTANTS
  u1 = u1
  u2 = u2
  k1 = k1
  k2 = k2
  User = {u1}
  Author = author
  Key = {k1}
  NoKey = NoKey
  NoUser = NoUser
  KeysOf <- OneKey
  ChannelTypes = {"private"}
  Kinds = {"reader"}
  Events = {"delete channel"}
  MaxEvents = 1
INVARIANTS
  SubscriptionsGoWithChannel
CHECK_DEADLOCK FALSE
