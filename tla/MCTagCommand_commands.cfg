\* Two tags that come and go, any selection left over, two retries.
CONSTANTS
  Tags       = {t1, t2}
  Epcs       = {e1, e2, e3}
  New        = New
  Partial    = Partial
  NoEpc      = NoEpc
  MaxRetries = 2
  Kinds      = {"Write", "Other"}
  Moving     = TRUE

SPECIFICATION Spec
INVARIANTS TypeOK SelectGates OnlyMistakenTags NoSelectionLeft AllRetriesUsed
PROPERTY CommandEnds
