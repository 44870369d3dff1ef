CONSTANTS
  Packets = {1, 2, 3, 4, 5}
  Names = {"A", "A1"}
  Under <- MCUnder
  Exact <- MCExact
  FreshPackets = {2, 4}
  LocalPackets = {5}
  LargePackets = {3}
  Capacity = 3
  Limits = {0, 2, 4}
  Flags = {TRUE, FALSE}
  ErasePrefixes = {"A"}
  EraseLimit = 1
SPECIFICATION CsSpec
CHECK_DEADLOCK FALSE
INVARIANTS BlockAccounting QueuesFollowTable FindsFirstMatch
PROPERTIES EvictionPriority ServedEraseCompletes
