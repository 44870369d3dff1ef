CONSTANTS
  NumBlocks = 3
  NumLevels = 2
  BucketSize = 1
  Data = {zero, d1}
  Zero = zero
SPECIFICATION Spec
INVARIANTS OnPath StashOnlyWhenRootFull
PROPERTY ImplementsMem
