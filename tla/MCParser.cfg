CONSTANTS
  Parts = {"stream", "head", "chunks"}
  m1 = m1
  m2 = m2
  Method = {m1, m2}
  None = None
  Streams <- MCStreams
  MaxSegments = 4
  Lower <- MCLower
  Heads <- MCHeads
  Methods = {"GET"}
  NoMethod = NoMethod
  OctetOf <- MCOctetOf
  LongMax = 15
  DigitValue <- MCDigitValue
  Bodies <- MCBodies
SPECIFICATION PartsSpec
CHECK_DEADLOCK FALSE
INVARIANTS
  PartsTypeOK
  WholeBodyIntact
  HungCause
  AnsweredApart
  HeadAsSent
  HeadRejected
  ChunksAsSent
PROPERTIES
  StepsAreParses
  LoopsEnd
