-------------------------------- MODULE RWMutex --------------------------------
(***************************************************************************)
(* The readers-writer lock of include/common/rwmutex.h, which latches      *)
(* pages and the root of a B+ tree: a mutex, a count, a flag and two       *)
(* condition variables.                                                    *)
(*                                                                         *)
(* A step is what a thread does from taking mutex_ until it releases it,   *)
(* by returning or by waiting; so mutex_ is free between two steps.  A     *)
(* woken thread runs again from the test of its loop, and may find that    *)
(* others were faster.  C++ also lets a waiting thread wake by itself.     *)
(*                                                                         *)
(* Threads call in matched pairs, RLock with RUnlock and WLock with        *)
(* WUnlock, and never lock what they hold.                                 *)
(***************************************************************************)
EXTENDS Integers, FiniteSets

CONSTANTS
  Threads,
  MaxReaders    \* max_readers_, UINT_MAX in the code

ASSUME RWMutexAssumption ==
  /\ IsFiniteSet(Threads)
  /\ MaxReaders \in Nat \ {0}

VARIABLES
  reader_count,    \* reader_count_
  writer_entered,  \* writer_entered_
  reader_,         \* the threads that sleep on the condition variable reader_
  writer_,         \* the threads that sleep on the condition variable writer_
  pc               \* where a thread is: "out"; at the loop of RLock, at the
                   \* first or the second loop of WLock; holding the lock

vars == <<reader_count, writer_entered, reader_, writer_, pc>>

Places == {"out", "RLock", "WLock", "drain", "reading", "writing"}

TypeOK ==
  /\ reader_count \in 0 .. MaxReaders
  /\ writer_entered \in BOOLEAN
  /\ reader_ \in SUBSET Threads
  /\ writer_ \in SUBSET Threads
  /\ pc \in [Threads -> Places]

Init ==
  /\ reader_count = 0
  /\ writer_entered = FALSE
  /\ reader_ = {}
  /\ writer_ = {}
  /\ pc = [t \in Threads |-> "out"]

-----------------------------------------------------------------------------

Asleep(t) == t \in reader_ \cup writer_

\* t is at place p and about to run.
At(t, p) == pc[t] = p /\ ~Asleep(t)

GoTo(t, p) == pc' = [pc EXCEPT ![t] = p]

\* A thread calls RLock or WLock.
Call(t) ==
  /\ At(t, "out")
  /\ \E p \in {"RLock", "WLock"} : GoTo(t, p)
  /\ UNCHANGED <<reader_count, writer_entered, reader_, writer_>>

\* Mutant: a reader is let in beside a writer.
OnlyIfFull == reader_count = MaxReaders

\* The condition of RLock's loop.
ReaderBlocked == writer_entered \/ reader_count = MaxReaders

RLock(t) ==
  /\ At(t, "RLock")
  /\ \/ /\ ReaderBlocked
        /\ reader_' = reader_ \cup {t}
        /\ UNCHANGED <<reader_count, pc>>
     \/ /\ ~ReaderBlocked
        /\ reader_count' = reader_count + 1
        /\ GoTo(t, "reading")
        /\ UNCHANGED reader_
  /\ UNCHANGED <<writer_entered, writer_>>

\* The condition of WLock's second loop.
WriterBlocked == reader_count > 0

\* The writer has entered: it waits until the readers have left.
Drain(t) ==
  \/ /\ WriterBlocked
     /\ writer_' = writer_ \cup {t}
     /\ GoTo(t, "drain")
  \/ /\ ~WriterBlocked
     /\ GoTo(t, "writing")
     /\ UNCHANGED writer_

\* WLock from its first loop.  Writers that find another one inside sleep with
\* the readers.
WLock(t) ==
  /\ At(t, "WLock")
  /\ \/ /\ writer_entered
        /\ reader_' = reader_ \cup {t}
        /\ UNCHANGED <<writer_entered, writer_, pc>>
     \/ /\ ~writer_entered
        /\ writer_entered' = TRUE
        /\ Drain(t)
        /\ UNCHANGED reader_
  /\ UNCHANGED reader_count

\* WLock, woken in its second loop.
WLockDrain(t) ==
  /\ At(t, "drain")
  /\ Drain(t)
  /\ UNCHANGED <<reader_count, writer_entered, reader_>>

\* notify_one: wakes some sleeping thread, if there is one.
NotifyOne(sleeping, sleeping_) ==
  IF sleeping = {} THEN sleeping_ = {}
  ELSE \E t \in sleeping : sleeping_ = sleeping \ {t}

\* Mutant: WUnlock wakes one thread.
NotifyOneReader == NotifyOne(reader_, reader_')

\* Mutant: WUnlock wakes nobody.
NotifyNobody == UNCHANGED reader_

NotifyAllReaders == reader_' = {}

WUnlock(t) ==
  /\ At(t, "writing")
  /\ writer_entered' = FALSE
  /\ NotifyAllReaders
  /\ GoTo(t, "out")
  /\ UNCHANGED <<reader_count, writer_>>

\* Mutant: the test is on the count before it is decremented.
WakeBeforeLast(n) == n = 1

\* The last reader out wakes the writer that waits for it.
WakesWriter(n) == n = 0

RUnlock(t) ==
  /\ At(t, "reading")
  /\ reader_count' = reader_count - 1
  /\ IF writer_entered
     THEN /\ IF WakesWriter(reader_count') THEN NotifyOne(writer_, writer_')
                                           ELSE UNCHANGED writer_
          /\ UNCHANGED reader_
     ELSE /\ IF reader_count' = MaxReaders - 1 THEN NotifyOne(reader_, reader_')
                                               ELSE UNCHANGED reader_
          /\ UNCHANGED writer_
  /\ GoTo(t, "out")
  /\ UNCHANGED writer_entered

\* A spurious wakeup, which the standard allows.
Wake(t) ==
  /\ Asleep(t)
  /\ reader_' = reader_ \ {t}
  /\ writer_' = writer_ \ {t}
  /\ UNCHANGED <<reader_count, writer_entered, pc>>

Run(t) == RLock(t) \/ WLock(t) \/ WLockDrain(t) \/ WUnlock(t) \/ RUnlock(t)

Next == \E t \in Threads : Call(t) \/ Run(t) \/ Wake(t)

Spec == Init /\ [][Next]_vars

\* A thread that can run eventually gets mutex_ and runs: critical sections
\* are short, and a holder of the lock returns it.  Nothing makes a thread call,
\* and nothing makes it wake by itself.
FairSpec == Spec /\ \A t \in Threads : WF_vars(Run(t))

-----------------------------------------------------------------------------

Readers == {t \in Threads : pc[t] = "reading"}

\* A writer excludes everybody else; the count and the flag, which alone decide
\* who may enter, tell exactly who is inside, whichever way calls and wakeups
\* interleave.
MutualExclusion ==
  /\ \A t \in Threads : pc[t] = "writing" => reader_count = 0
  /\ \A t, u \in Threads :
       pc[t] \in {"drain", "writing"} /\ pc[u] \in {"drain", "writing"} => t = u
  /\ writer_entered <=> \E t \in Threads : pc[t] \in {"drain", "writing"}
  /\ reader_count = Cardinality(Readers)

\* No wakeup is lost: whoever sleeps still has a reason to, and so somebody
\* inside whose unlock will wake it.  This needs MaxReaders, UINT_MAX, to be at
\* least the number of threads: a reader woken at the limit may run only after
\* another one has left, whose RUnlock then wakes nobody, while others sleep.
NoLostWakeup ==
  /\ reader_ # {} => ReaderBlocked
  /\ writer_ # {} => reader_count > 0

\* A writer that has entered gets the lock: the readers inside drain, and those
\* that arrive cannot overtake it.
EnteredWriterWrites ==
  \A t \in Threads : pc[t] = "drain" ~> pc[t] = "writing"

\* Readers that a writer kept out get in once the writers stop coming.
ReadersGetIn ==
  <>[](\A t \in Threads : pc[t] \notin {"WLock", "drain", "writing"})
    => \A t \in Threads : pc[t] = "RLock" ~> pc[t] = "reading"
================================================================================
