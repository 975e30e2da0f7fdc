SPECIFICATION FairSpec
CONSTANTS
  Tasks = {t1, t2, t3}
  Keys = {k1, k2}
  MaxActive = 1
  NoTask = NoTask
  NoKey = NoKey

CHECK_DEADLOCK FALSE
INVARIANTS TypeOK UsingIsListening NoOrphanListener OneSubscriber
PROPERTIES WaitersAnswered
