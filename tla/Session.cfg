\* Two tables, one of them with an index.  After a crash nothing goes on.
CONSTANTS
  Tables = {foo1, foo2}
  Indexed = {foo1}
  Keys = {k1, k2}
  Rids = {r1, r2}
  NoRow = NoRow
  NoRid = NoRid
  Invalid = Invalid
  nullptr = nullptr
SPECIFICATION Spec
SYMMETRY Symmetry
CHECK_DEADLOCK FALSE
INVARIANTS
  TypeOK
  IndexAgrees
  NoDeletionForgotten
  CrashesOnlyInInterruptedTransaction
