SPECIFICATION FairSpec
CONSTANTS
  Caller = {c1, c2, c3, c4}
  Key = {k1, k2}
  NoKey = NoKey
INVARIANTS
  TypeOK
  MutualExclusion
  NoLostWakeup
PROPERTIES
  NoOvertaking
  NoStarvation
  ImplementsSection
