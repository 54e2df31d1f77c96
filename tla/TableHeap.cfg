\* Two transactions in one page that three tuples fit into, with tuples of two sizes.
CONSTANTS
  PAGE_SIZE = 6
  HeaderSize = 0
  SlotSize = 1
  Bytes <- MCBytes
  Tuples <- MCTuples
  Free = Free
  Vals = {a}
  MaxSize = 2
  Txns = {t1, t2}
  Scans = {}
  MaxHeapPages = 1
  MaxWrites = 3
SPECIFICATION Spec
CHECK_DEADLOCK FALSE
CONSTRAINT Few
INVARIANTS
  TypeOK
  PagesWellFormed
  NoAssertionFails
PROPERTY
  ActsAsTransactionalTable
SYMMETRY Symmetry
