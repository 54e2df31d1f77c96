\* Four frames: every order of the list, with every stale pointer.
CONSTANTS
  Values = {v1, v2, v3, v4}
  mHead = mHead
  mTail = mTail
  nullptr = nullptr
SPECIFICATION Spec
INVARIANTS
  ListMatchesMap
PROPERTIES
  ImplementsLRUList
SYMMETRY Symmetry
