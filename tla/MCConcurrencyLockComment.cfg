SPECIFICATION Spec
CONSTANTS
  Request = {r1, r2}
  LockName = {n1}
  Event = {}
  Nobody = Nobody
  NoName = NoName
INVARIANTS
  LockKeptUntilFinished
