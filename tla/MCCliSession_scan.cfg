\* Scans and short commands between them, two rounds to a multi-polling command.
CONSTANTS
  Values     = {v1, v2}
  Factory    = v1
  NoValue    = NoValue
  MaxTags    = 1
  PollRounds = 2
  MaxLine    = 2
  Lossy      = TRUE
  Calls      <- ScanCalls
  PollLimit  = 2
  Many       = 100
  Flush      = TRUE
  Line       = "settles"
  Faults     = {"read", "write", "clear"}
  Careful    = FALSE
  Verbs      <- ScanVerbs
  MaxFaults  = 1

SPECIFICATION FairSessionSpec
PROPERTY InterruptEnds
