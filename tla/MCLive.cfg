CONSTANTS
  Http = {h1, h2}
  Cgi = {c1, c2}
  Fd = {f1}
  None = None
  Method = {m1}
  REQ_TIMEOUT = 2
  CGI_TIMEOUT = 1
SPECIFICATION FairSpec
CHECK_DEADLOCK FALSE
PROPERTIES
  CycleProgresses
