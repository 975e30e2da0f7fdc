SPECIFICATION DeliverySpec
CONSTANTS
  Callers = {s}
  Instruments = {i1}
  MaxEntries = 1
  LastDay = 1
  NoCaller = NoCaller
  Stream = s
  Streamed = i1
  QueueSize = 2
  MaxQuotes = 2
  MaxChanges = 1

CHECK_DEADLOCK FALSE
PROPERTIES StaleNotShownFresh
