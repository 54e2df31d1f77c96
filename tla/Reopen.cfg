\* Two sessions on one file; FlushesFirst = TRUE shows the other way to lose a page.
CONSTANTS
  MaxPages = 2
  PoolSize = 2
  Handles = {h1}
  Data = {zero, d1}
  Zero = zero
  MayUnpinNewClean = FALSE
  None = None
  FlushesFirst = FALSE
SPECIFICATION SessionSpec
SYMMETRY Symmetry
INVARIANTS
  KeptPagesSurvive
