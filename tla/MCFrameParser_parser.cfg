\* Every line of three pieces (frames, damaged frames, noise) and every line of
\* nine bytes of headers and zeroes; reads of at most 4 bytes. The sizes 1024,
\* 8192 and 4096 are scaled to 4, 9 and 4, and 100000 packets to 3,
\* so that the longest frame just fits the buffer.
CONSTANTS
  Header      <- AA
  ReadBuf     = 4
  RollingMax  = 9
  RollingKeep = 4
  Limits      = {1, 3}
  Inputs      <- AllInputs

SPECIFICATION FairSpec
INVARIANTS TypeOK AnswerSize RollingBounded ExactFrames ChunkingInvisible
PROPERTY ReadReturns
