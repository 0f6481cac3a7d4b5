SPECIFICATION MCFair
CONSTANTS
  u1 = u1
  u2 = u2
  server = server
  Part = {"issuing", "lists", "unlocked", "purge"}
  User = {u1}
  Root = {server}
  Server = server
  Size = 2
  MaxIndex = 2
  ListLimit = 100
  NoVc = NoVc
  Event = {"fail", "check", "roots"}
INVARIANTS RevocationHolds 
PROPERTIES ImplementsRegistry DeletesEnd
CHECK_DEADLOCK FALSE
