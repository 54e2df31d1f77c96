\* Two callers that interleave.  Two buckets can overflow, so that both can be inside of a
\* split at the same time.
CONSTANTS
  Threads = {t1, t2}
  Ops = {"Insert", "Find", "Remove"}
  Keys = {0, 1, 2, 3}
  Values = {v0}
  Default = v0
  BucketSize = 1
  MaxDepth = 2
  NotFound = NotFound
  Free = Free
SPECIFICATION Spec
CONSTRAINT FindsOneKey
INVARIANTS
  DirectoryShape
  NoDeadlock
  AstrayOnlyByRace
SYMMETRY Symmetry
