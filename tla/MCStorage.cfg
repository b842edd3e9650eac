SPECIFICATION Spec
CONSTANTS
  Regions <- TwoRegions
  Classes <- TwoClasses
  Cap = 6
  Grain = 4
  LargeMax = 8
  LargeCached = 1
  Sizes = {1, 3, 4, 5, 8}
  Reserve = 3
  MaxBlocks = 3
  Other = {2}
  Procs = {1, 2}
  Limit = 2
  Lens = {1, 2}
  Stores = {1, 2}
  Objs = {1, 2, 3}
  MaxMsgs = 1
  Threads = {1, 2}
  IoUnit = 2
  Counts = {0, 1, 3}
  Seeks = {0, 3}
  MaxLen = 4
  Tree <- Nodes
  Walks <- Names
  Paths <- Guest
  Built <- Embedded
  Roots <- Hosts
  Messages <- WireMessages
INVARIANTS BytesAccounted  ChanExact  DecodesWhole
CHECK_DEADLOCK FALSE
