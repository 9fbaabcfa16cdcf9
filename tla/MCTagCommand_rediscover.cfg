\* Two tags that stay where they are, EPCs of their own.
CONSTANTS
  Tags       = {t1, t2}
  Epcs       = {e1, e2}
  New        = New
  Partial    = Partial
  NoEpc      = NoEpc
  MaxRetries = 1
  Kinds      = {"Write"}
  Moving     = FALSE

SPECIFICATION Spec
INVARIANT RediscoversTheTag
