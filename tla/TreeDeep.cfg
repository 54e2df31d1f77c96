\* Two threads in a tree of three levels that exists, with leaves that borrow.
CONSTANTS
  Threads = {t1, t2}
  Ops = {"Insert", "Remove"}
  Keys = {1, 3, 7, 13}
  Values = {v0}
  MaxPages = 9
  LeafMax = 4
  InternalMax = 3
  Nobody = Nobody
  NotFound = NotFound
  Pending = Pending
SPECIFICATION LoadedSpec
SYMMETRY Symmetry
INVARIANTS
  SearchTree
  Balanced
  LinksMatch
PROPERTIES
  ActsAsIndexMap
