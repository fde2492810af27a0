CONSTANTS
  Parts = {"servers"}
  Addr = {a1, a2}
  Name = {n1, n2}
  Key = {k1, k2}
  Default = Default
  None = None
  Limits <- MCLimits
  MaxDirectives = 7
  Lower <- MCLower
  ContextNames = {"server"}
  DirectiveNames = {"root"}
  Files <- MCFiles
  Args <- MCArgs
  Dirs <- MCDirs
  Resolved <- MCResolved
  Unset = Unset
  IntMax = 1023
  LongMax = 16383
  SizeMax = 16777215
  MaxArguments = 3
  Kilo = 4
SPECIFICATION PartsSpec
SYMMETRY Symmetry
CHECK_DEADLOCK FALSE
INVARIANTS
  NoneGivenTwice
