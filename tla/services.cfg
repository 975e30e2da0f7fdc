SPECIFICATION ServicesSpec
CONSTANTS
  Callers = {s, h}
  Instruments = {i1, i2}
  MaxEntries = 1
  LastDay = 2
  NoCaller = NoCaller
  Stream = s
  Streamed = i1
  QueueSize = 2
  MaxQuotes = 2
  MaxChanges = 1
  Scenarios <- MCScenarios
  Thetas = {5, 20}
  Costs <- MCCosts
  Contract <- MCContract
  Limits <- MCLimits
  Hedging <- MCHedging
  Clocks <- MCClocks
  Processes = {p1, p2}
  ArtifactCount = 2
  Contracts = {"x", "y"}
  Ids <- MCIds
  Quotes <- MCQuotes
  Assessments <- MCAssessments
  Listed <- MCListed
  Relisted <- MCRelisted
  Queries <- MCQueries
  MaxEvents = 3

CHECK_DEADLOCK FALSE
INVARIANTS DeliveryTypeOK ServiceIsOfCallDay AccountsAgree ExposureControlled SessionsAddUp NoLookahead CorrectionsKeepContracts
PROPERTIES QuoteIsShown FailureCloses StaleIsTold 
