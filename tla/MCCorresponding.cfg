CONSTANTS
  Parts = {"server"}
  N = 3
  n1 = n1
  n2 = n2
  empty = empty
  a1 = a1
  a2 = a2
  k1 = k1
  k2 = k2
  None = None
  Name <- MCName
  Addr = {a1, a2}
  Conn = {k1, k2}
  nameOf <- MCNameOf
  addrOf <- MCAddrOf
  via <- MCVia
  Nothing = Nothing
  Segment = {"a", "b", "c.e"}
  Ext = {"e"}
  extOf <- MCExtOf
  Index = "b"
  Depth = 2
  DirKeys <- MCDirKeys
  ExtKeys = {"e"}
  Null = Null
  Content = {Empty, Part, Bad, old, new}
  Others = {old}
  old = old
  new = new
  Empty = Empty
  Part = Part
  Bad = Bad
  Requests <- MCRequests
  Locations <- MCLocations
  Disks <- MCDisks
  Lower <- MCLower
  Outputs <- MCOutputs
  Chunks <- MCChunks
SPECIFICATION PartsSpec
INVARIANTS
  CorrespondingServer
