SPECIFICATION MCSpec
CONSTANTS
  Part = {"search", "filtered", "single", "faulty", "mixed", "crowded", "values", "creation"}
  author = author
  reader = reader
  writer = writer
  peer = peer
  admin = admin
  a1 = a1
  a2 = a2
  a3 = a3
  k1 = k1
  k2 = k2
  k3 = k3
  Member = {author, reader, admin}
  Address = {a1, a2, a3}
  Text = {"log", "logbook", "x"}
  Found <- MCFound
  Incident = {"delete", "fail", "link"}
  Nothing = Nothing
  Operator = {admin}
  Unset = Unset
  Limit = 1
  Query <- MCQuery
  New <- MCNew
  List <- MCList
  Searcher = {reader}
  Kind = {"private", "public"}
  Key = {k1, k2, k3}
  KeyOf <- MCKeyOf
  AuthorKey = "author"
  Writer = author
  LogLink = {1}
  Zero = Zero
  Null = Null
  Undefined = Undefined
  Value = {"x", "y", Zero, Null, Undefined}
  User = {reader, writer, peer}
  Author = author
  Rights <- MCRights
  MaxLogs = 3
  Event = {"revoke", "reimport"}
  NoState = Nothing
INVARIANTS TypeOK   RevokedCannotRead LogsHold 
 
CHECK_DEADLOCK FALSE
