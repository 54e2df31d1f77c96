\* Two threads in a small tree, empty at first.  A crash leaves no successor.
CONSTANTS
  Threads = {t1, t2}
  Ops = {"Insert", "Find", "Remove", "Scan"}
  Keys = {1, 2, 3, 4}
  Values = {v0}
  MaxPages = 8
  LeafMax = 2
  InternalMax = 3
  Nobody = Nobody
  NotFound = NotFound
  Pending = Pending
SPECIFICATION Spec
SYMMETRY Symmetry
CHECK_DEADLOCK FALSE
INVARIANTS
  TypeOK
  LinksMatch
  AssertionsHold
  NoDeadlock
  ScansInOrder
  HeaderIsRootOrInvalid
PROPERTIES
  ImplementsIndexMap
