\* One caller at a time, as in the buffer pool.  Of the five keys four share their
\* lowest bit and two the lowest two, so that buckets split up to depth 3.
CONSTANTS
  Threads = {t1}
  Ops = {"Insert", "Find", "Remove"}
  Keys = {0, 1, 2, 4, 6}
  Values = {v0, v1}
  Default = v0
  BucketSize = 1
  MaxDepth = 4
  NotFound = NotFound
  Free = Free
SPECIFICATION FairSpec
INVARIANTS
  TypeOK
  KeysInPlace
PROPERTIES
  ImplementsKeyMap
  CallsReturn
