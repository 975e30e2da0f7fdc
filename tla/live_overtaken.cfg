SPECIFICATION Spec
CONSTANTS
  Tasks = {t1, t2}
  Keys = {k1}
  MaxActive = 1
  NoTask = NoTask
  NoKey = NoKey

CHECK_DEADLOCK FALSE
PROPERTIES UnsubscribeAfterLast
