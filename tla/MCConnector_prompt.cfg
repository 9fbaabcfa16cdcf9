\* The operations of SyncIO and AsyncIO, any future of which may be dropped, on a
\* line that loses requests and responses but answers within the port's timeout;
\* inventory rounds of up to two tags, one round to a multi-polling command, of
\* which multi_polling_instruction takes one packet.
CONSTANTS
  Values     = {v1, v2}
  Factory    = v1
  NoValue    = NoValue
  MaxTags    = 2
  PollRounds = 1
  MaxLine    = 2
  Lossy      = TRUE
  Calls      <- PromptCalls
  PollLimit  = 1
  Many       = 100
  Flush      = FALSE
  Line       = "prompt"
  Faults     = {}
  Careful    = TRUE

SPECIFICATION Spec
INVARIANTS TypeOK OwnAnswer SettingsHold StopLeavesQuiet CleanBetweenCalls
