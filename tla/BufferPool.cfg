SPECIFICATION Spec
CONSTANTS
  MaxPages = 3
  PoolSize = 2
  Handles = {h1, h2}
  Data = {zero, d1}
  Zero = zero
  MayUnpinNewClean = FALSE
INVARIANTS
  TypeOK
  TableMatchesFrames
  FramePartition
  PinsMatchHandles
  CleanMatchesDisk
SYMMETRY Symmetry
PROPERTIES
  ImplementsPageStore
