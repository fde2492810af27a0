CONSTANTS
  Http = {h1, h2}
  Cgi = {c1, c2}
  Fd = {f1, f2}
  None = None
  Method = {m1}
  REQ_TIMEOUT = 2
  CGI_TIMEOUT = 1
  Parts = {"events", "replies"}
  Worker = {c1, c2}
  Kinds <- MCKinds
  Nothing = Nothing
  MaxRequests = 2
  MaxReplies = 2
SPECIFICATION PartsSpec
SYMMETRY Symmetry
CHECK_DEADLOCK FALSE
INVARIANTS
  TypeOK
  MethodKnown
  CgiDeadlineFirst
  CompleteHasWorker
  MixedCause
  InStep
  RepliesFramed
PROPERTIES
  DeadlineKept
