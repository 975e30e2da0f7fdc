SPECIFICATION FairSpec
CONSTANTS
  i1 = i1
  i2 = i2
  i3 = i3
  a1 = a1
  a2 = a2
  a3 = a3
  a4 = a4
  c1 = c1
  c2 = c2
  c3 = c3
  c4 = c4
  nifty = nifty
  o1 = o1
  o2 = o2
  kn = kn
  k1 = k1
  k2 = k2
  Nobody = Nobody
  NoCommand = NoCommand
  Profile = Profile
  Invocations = {i1, i2}
  Keys = {x, y}
  Artifacts = {a1, a4}
  Contents = {c1, c2, c3, c4}
  Content <- MCContent
  Rows <- MCRows
  Underlying = nifty
  Intervals <- TwoIntervals
  Times = {1, 2}
  Modes = {"commit", "dry-run"}
  StepBack = FALSE
CHECK_DEADLOCK FALSE
INVARIANTS CurrentCatalogueResolves
PROPERTIES EveryCallEnds
