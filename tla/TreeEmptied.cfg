\* A tree that another thread empties under a call.
CONSTANTS
  Threads = {t1, t2}
  Ops = {"Insert", "Remove"}
  Keys = {1}
  Values = {v0}
  MaxPages = 2
  LeafMax = 2
  InternalMax = 3
  Nobody = Nobody
  NotFound = NotFound
  Pending = Pending
SPECIFICATION Spec
CHECK_DEADLOCK FALSE
INVARIANTS
  EmptyTreeHandled
