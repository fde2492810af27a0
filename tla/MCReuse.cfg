CONSTANTS
  Http = {h1, h2, h3}
  Cgi = {c1}
  Fd = {f1, f2}
  None = None
  Method = {m1}
  REQ_TIMEOUT = 2
  CGI_TIMEOUT = 1
  Parts = {"events", "descriptors"}
  Client = {h1, h2, h3}
  Script = {d1, d2, d3}
  Limit = 7
  MaxProcs = 2
SPECIFICATION PartsSpec
SYMMETRY ReuseSymmetry
CHECK_DEADLOCK FALSE
INVARIANTS
  Registered
  Leftovers
  AbortHasCause
  OutputEnds
  HoldersKnown
PROPERTIES
  CycleImplemented
