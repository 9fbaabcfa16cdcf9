CONSTANTS
  Values     = {v1, v2}
  Factory    = v1
  NoValue    = NoValue
  MaxTags    = 2
  PollRounds = 2
  MaxLine    = 3
  Lossy      = FALSE
  Calls      <- PowerCalls
  PollLimit  = 2
  Many       = 100
  Flush      = FALSE
  Line       = "prompt"
  Faults     = {}
  Careful    = TRUE

SPECIFICATION Spec
INVARIANT PowerIsReal
