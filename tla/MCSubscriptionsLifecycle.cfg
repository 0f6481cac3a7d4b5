SPECIFICATION FairSpec
CONSTANTS
  u1 = u1
  u2 = u2
  k1 = k1
  k2 = k2
  User = {u1}
  Author = author
  Key = {k1}
  NoKey = NoKey
  NoUser = NoUser
  KeysOf <- OneKey
  ChannelTypes = {"public", "privatePlus"}
  Kinds = {"reader", "writer", "psk"}
  Events = {"delete subscription", "delete channel", "get logs", "failure", "restart"}
  MaxEvents = 2
INVARIANTS
  TypeOK
 
  
  AuthorStateReadable
PROPERTIES
  AuthorHandlerEnds
  KeyloadsServed
CHECK_DEADLOCK FALSE
