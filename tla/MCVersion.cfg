CONSTANTS
  Parts = {"head"}
  m1 = m1
  m2 = m2
  Method = {m1, m2}
  None = None
  Streams <- MCStreams
  MaxSegments = 1
  Lower <- MCLower
  Heads <- MCHeads
  Methods = {"GET"}
  NoMethod = NoMethod
  OctetOf <- MCOctetOf
  LongMax = 15
  DigitValue <- MCDigitValue
  Bodies <- MCBodies
SPECIFICATION PartsSpec
CHECK_DEADLOCK FALSE
INVARIANTS
  OnlySupportedVersion
