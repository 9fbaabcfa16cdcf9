\* Processes of any length one after another, one fault in all.
CONSTANTS
  Values     = {v1, v2}
  Factory    = v1
  NoValue    = NoValue
  MaxTags    = 1
  PollRounds = 1
  MaxLine    = 2
  Lossy      = TRUE
  Calls      <- SomeCalls
  PollLimit  = 2
  Many       = 100
  Flush      = TRUE
  Line       = "settles"
  Faults     = {"read", "write", "clear"}
  Careful    = FALSE
  Verbs      <- SomeVerbs
  MaxFaults  = 1

SPECIFICATION SessionSpec
INVARIANTS SessionTypeOK LeavesNoPolling CommandsGetTheirAnswers
