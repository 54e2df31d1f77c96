\* The lock below its reader limit, as every program uses it: safety and liveness.
CONSTANTS
  Threads = {t1, t2, t3, t4}
  MaxReaders = 4
SPECIFICATION FairSpec
INVARIANTS
  MutualExclusion
  NoLostWakeup
PROPERTIES
  EnteredWriterWrites
  ReadersGetIn
