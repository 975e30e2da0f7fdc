SPECIFICATION ArchiveSpec
CONSTANTS
  p1 = p1
  p2 = p2
  p3 = p3
  k1 = k1
  k2 = k2
  nifty = nifty
  o1 = o1
  Nobody = Nobody
  c1 = c1
  c2 = c2
  Calls = {c1, c2}
  Frames <- MCFrames
  Messages <- MCMessages
  KindOf <- MCKindOf
  Listings <- MCListings
  Cutoffs = {1, 2}
  Stripe <- MCStripe
  PageLimit = 1
  w1 = w1
  w2 = w2
  b1 = b1
  b2 = b2
  Writers = {w1, w2}
  BatchKind <- MCBatchKind
  BatchOf <- MCBatchOf
  Workloads <- MCWorkloads
  Reports <- MCReports
  MaxTrail = 4
SYMMETRY Symmetry
CHECK_DEADLOCK FALSE
INVARIANTS TypeOK AggregatesLoad  AcceptedQuotesAreValid ScanIsComplete NoCircularWait 
INVARIANTS AggregatesComplete OneTypedObservation CompleteBatchesCommit  SequencesHaveOneLife
PROPERTY ArchivePromise
