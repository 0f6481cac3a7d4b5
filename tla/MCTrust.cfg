SPECIFICATION MCSpec
CONSTANTS
  Part = {"shop", "shown", "chain", "users", "tool", "login", "shared", "setup", "migration"}
  above = above
  mine = mine
  me = me
  demo = demo
  somebody = somebody
  boss = boss
  ann = ann
  phone = phone
  console = console
  tablet = tablet
  n1 = n1
  n2 = n2
  Item = {"book", "liquor"}
  Restricted = {"liquor"}
  Credential = {above, mine}
  Demo = {above}
  IdOf <- MCIdOf
  OwnId = me
  DemoId = demo
  MaxPending = 1
  None = None
  Id = {boss, ann}
  Client = {phone, console, tablet}
  Owner <- MCOwner
  Event = {"tool", "lost", "delete", "rotate", "service", "script"}
  Sender = {boss, ann}
  Privileged = {boss}
  Admin = {boss}
  Server = Server
  Other = Other
  UserType = {"Person"}
  VcType = {"VerifiedIdentityCredential"}
  MaxIssued = 3
  MaxShown = 2
  NoVc = NoVc
  Name = {n1, n2}
  Tool = Tool
  Own = {ann}
  Admins = {boss}
  Body <- MCBody
  Patch <- MCPatch
  ListLimit = 2
  Unset = Unset
  NoDoc = NoDoc
  NoView = NoView
  FirstAdmin = boss
  Nobody = Nobody
  Setup = {phone, console}
  Secret = {"old", "new"}
  NoIdent = NoIdent
  NoKeys = NoKeys
  MaxCrashes = 2
  Migrator = {phone, console}
  MaxKills = 1
INVARIANTS TypeOK TrustHolds UsersHold RootHolds 
PROPERTIES LoginsHold
CHECK_DEADLOCK FALSE
