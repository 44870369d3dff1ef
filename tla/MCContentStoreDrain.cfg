CONSTANTS
  Packets = {1, 2, 4}
  Names = {"A", "A1"}
  Under <- MCUnder
  Exact <- MCExact
  FreshPackets = {2, 4}
  LocalPackets = {}
  LargePackets = {}
  Capacity = 2
  Limits = {0, 2}
  Flags = {TRUE, FALSE}
  ErasePrefixes = {"A"}
  EraseLimit = 1
SPECIFICATION CsSpec
INVARIANT PoolNeverDrained
