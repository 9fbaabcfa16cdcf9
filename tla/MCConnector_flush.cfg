\* SharedPort, whose flush drops stale input before a request; reads may end or
\* fail early, and what was under way has arrived before the next request.
CONSTANTS
  Values     = {v1, v2}
  Factory    = v1
  NoValue    = NoValue
  MaxTags    = 2
  PollRounds = 2
  MaxLine    = 2
  Lossy      = TRUE
  Calls      <- AllCalls
  PollLimit  = 2
  Many       = 100
  Flush      = TRUE
  Line       = "settles"
  Faults     = {"read", "write", "clear"}
  Careful    = TRUE

SPECIFICATION FairSpec
INVARIANTS OwnAnswer SettingsHold StopLeavesQuiet
PROPERTIES CallReturns AtomicExchanges
