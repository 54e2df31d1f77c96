\* One transaction after the other and a scan, over two pages.  A scan and a writer can
\* end up waiting for each other.
CONSTANTS
  PAGE_SIZE = 4
  HeaderSize = 0
  SlotSize = 1
  Bytes <- MCBytes
  Tuples <- MCTuples
  Free = Free
  Vals = {a}
  MaxSize = 2
  Txns = {t1}
  Scans = {s1}
  MaxHeapPages = 2
  MaxWrites = 2
SPECIFICATION Spec
CHECK_DEADLOCK FALSE
CONSTRAINT Unharmed
INVARIANTS
  ScansComplete
  NoOtherDeadlock
