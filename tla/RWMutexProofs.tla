----------------------------- MODULE RWMutexProofs -----------------------------
(***************************************************************************)
(* Mutual exclusion of the readers-writer lock, and that it loses no       *)
(* wakeup, for every set of threads and every limit.                       *)
(***************************************************************************)
EXTENDS RWMutex, FiniteSetTheorems, TLAPS

USE RWMutexAssumption

\* Who sleeps where.
Sleepers ==
  /\ \A t \in reader_ : pc[t] \in {"RLock", "WLock"}
  /\ \A t \in writer_ : pc[t] = "drain"

LockInv == TypeOK /\ MutualExclusion /\ Sleepers

LEMMA ReadersFinite == IsFiniteSet(Readers) /\ Cardinality(Readers) \in Nat
<1>1. Readers \in SUBSET Threads
  BY DEF Readers
<1> QED BY <1>1, FS_Subset, FS_CardinalityType

\* How the readers change when a thread moves.
LEMMA ReadersMove ==
  ASSUME TypeOK, NEW t \in Threads, NEW p \in Places, GoTo(t, p)
  PROVE  /\ pc' \in [Threads -> Places] /\ pc'[t] = p
         /\ \A u \in Threads : u # t => pc'[u] = pc[u]
         /\ p = "reading" => Readers' = Readers \cup {t}
         /\ p # "reading" => Readers' = Readers \ {t}
BY DEF TypeOK, GoTo, Readers

\* A step of t to a place where it does not read, from a place where it did not.
LEMMA ReadersKept ==
  ASSUME TypeOK, NEW t \in Threads, NEW p \in Places, GoTo(t, p),
         pc[t] # "reading", p # "reading"
  PROVE  Readers' = Readers
BY ReadersMove DEF Readers

LEMMA CallInv ==
  ASSUME LockInv, NEW t \in Threads, Call(t)
  PROVE  LockInv'
<1>1. TypeOK /\ MutualExclusion /\ Sleepers
  BY DEF LockInv
<1>2. PICK p \in Places : p \in {"RLock", "WLock"} /\ GoTo(t, p)
  BY DEF Call, Places
<1>3. /\ pc[t] = "out" /\ ~Asleep(t)
      /\ UNCHANGED <<reader_count, writer_entered, reader_, writer_>>
  BY DEF Call, At
<1>4. /\ pc' \in [Threads -> Places] /\ pc'[t] = p
      /\ \A u \in Threads : u # t => pc'[u] = pc[u]
      /\ Readers' = Readers
  BY <1>1, <1>2, <1>3, ReadersMove, ReadersKept
<1>5. TypeOK'
  BY <1>1, <1>3, <1>4 DEF TypeOK
<1>6. MutualExclusion'
  BY <1>1, <1>2, <1>3, <1>4 DEF MutualExclusion
<1>7. Sleepers'
  BY <1>1, <1>3, <1>4 DEF Sleepers, Asleep, TypeOK
<1> QED BY <1>5, <1>6, <1>7 DEF LockInv

LEMMA RLockInv ==
  ASSUME LockInv, NEW t \in Threads, RLock(t)
  PROVE  LockInv'
<1>1. TypeOK /\ MutualExclusion /\ Sleepers
  BY DEF LockInv
<1>2. /\ pc[t] = "RLock" /\ ~Asleep(t)
      /\ UNCHANGED <<writer_entered, writer_>>
  BY DEF RLock, At
<1>3. CASE /\ reader_' = reader_ \cup {t}
           /\ UNCHANGED <<reader_count, pc>>
  <2>1. Readers' = Readers
    BY <1>3 DEF Readers
  <2>2. TypeOK'
    BY <1>1, <1>2, <1>3 DEF TypeOK
  <2>3. MutualExclusion'
    BY <1>1, <1>2, <1>3, <2>1 DEF MutualExclusion
  <2>4. Sleepers'
    BY <1>1, <1>2, <1>3 DEF Sleepers
  <2> QED BY <2>2, <2>3, <2>4 DEF LockInv
<1>4. CASE /\ ~ReaderBlocked
           /\ reader_count' = reader_count + 1
           /\ GoTo(t, "reading")
           /\ UNCHANGED reader_
  <2>1. /\ pc' \in [Threads -> Places] /\ pc'[t] = "reading"
        /\ \A u \in Threads : u # t => pc'[u] = pc[u]
        /\ Readers' = Readers \cup {t}
    BY <1>1, <1>4, ReadersMove DEF Places
  <2>2. t \notin Readers
    BY <1>2 DEF Readers
  <2>3. Cardinality(Readers') = Cardinality(Readers) + 1
    BY <2>1, <2>2, ReadersFinite, FS_AddElement
  <2>4. ~writer_entered /\ reader_count # MaxReaders
    BY <1>4 DEF ReaderBlocked
  <2>5. TypeOK'
    BY <1>1, <1>2, <1>4, <2>1, <2>4 DEF TypeOK
  <2>6. MutualExclusion'
    <3>1. \A u \in Threads : pc[u] \notin {"drain", "writing"}
      BY <1>1, <2>4 DEF MutualExclusion
    <3>2. \A u \in Threads : pc'[u] \notin {"drain", "writing"}
      BY <2>1, <3>1
    <3>3. reader_count' = Cardinality(Readers)'
      BY <1>1, <1>4, <2>3 DEF MutualExclusion
    <3> QED BY <1>2, <2>4, <3>2, <3>3 DEF MutualExclusion
  <2>7. Sleepers'
    BY <1>1, <1>2, <1>4, <2>1 DEF Sleepers, Asleep, TypeOK
  <2> QED BY <2>5, <2>6, <2>7 DEF LockInv
<1> QED BY <1>3, <1>4 DEF RLock

\* The writer t, the only one inside, waits for the readers or writes.
LEMMA DrainInv ==
  ASSUME LockInv, NEW t \in Threads, Drain(t), ~Asleep(t),
         pc[t] \in {"WLock", "drain"},
         \A u \in Threads : u # t => pc[u] \notin {"drain", "writing"},
         writer_entered' = TRUE, UNCHANGED <<reader_count, reader_>>
  PROVE  LockInv'
<1>1. TypeOK /\ MutualExclusion /\ Sleepers
  BY DEF LockInv
<1>2. PICK p \in Places : /\ GoTo(t, p)
                          /\ \/ p = "drain" /\ writer_' = writer_ \cup {t}
                             \/ p = "writing" /\ ~WriterBlocked /\ UNCHANGED writer_
  BY DEF Drain, Places
<1>3. /\ pc' \in [Threads -> Places] /\ pc'[t] = p
      /\ \A u \in Threads : u # t => pc'[u] = pc[u]
      /\ Readers' = Readers
  BY <1>1, <1>2, ReadersMove, ReadersKept
<1>4. TypeOK'
  BY <1>1, <1>2, <1>3 DEF TypeOK
<1>5. MutualExclusion'
  <2>1. \A u \in Threads : pc'[u] \in {"drain", "writing"} <=> u = t
    BY <1>2, <1>3
  <2>2. p = "writing" => reader_count = 0
    BY <1>1, <1>2 DEF WriterBlocked, TypeOK
  <2> QED BY <1>1, <1>2, <1>3, <2>1, <2>2 DEF MutualExclusion
<1>6. Sleepers'
  BY <1>1, <1>2, <1>3 DEF Sleepers, Asleep, TypeOK
<1> QED BY <1>4, <1>5, <1>6 DEF LockInv

LEMMA WLockInv ==
  ASSUME LockInv, NEW t \in Threads, WLock(t)
  PROVE  LockInv'
<1>1. TypeOK /\ MutualExclusion /\ Sleepers
  BY DEF LockInv
<1>2. pc[t] = "WLock" /\ ~Asleep(t) /\ UNCHANGED reader_count
  BY DEF WLock, At
<1>3. CASE /\ reader_' = reader_ \cup {t}
           /\ UNCHANGED <<writer_entered, writer_, pc>>
  <2>1. Readers' = Readers
    BY <1>3 DEF Readers
  <2>2. TypeOK'
    BY <1>1, <1>2, <1>3 DEF TypeOK
  <2>3. MutualExclusion'
    BY <1>1, <1>2, <1>3, <2>1 DEF MutualExclusion
  <2>4. Sleepers'
    BY <1>1, <1>2, <1>3 DEF Sleepers
  <2> QED BY <2>2, <2>3, <2>4 DEF LockInv
<1>4. CASE /\ ~writer_entered /\ writer_entered' = TRUE
           /\ Drain(t) /\ UNCHANGED reader_
  <2>1. \A u \in Threads : pc[u] \notin {"drain", "writing"}
    BY <1>1, <1>4 DEF MutualExclusion
  <2> QED BY <1>2, <1>4, <2>1, DrainInv
<1> QED BY <1>3, <1>4 DEF WLock

LEMMA WLockDrainInv ==
  ASSUME LockInv, NEW t \in Threads, WLockDrain(t)
  PROVE  LockInv'
<1>1. MutualExclusion /\ TypeOK
  BY DEF LockInv
<1>2. /\ pc[t] = "drain" /\ ~Asleep(t) /\ Drain(t)
      /\ UNCHANGED <<reader_count, writer_entered, reader_>>
  BY DEF WLockDrain, At
<1>3. /\ \A u \in Threads : u # t => pc[u] \notin {"drain", "writing"}
      /\ writer_entered' = TRUE
  BY <1>1, <1>2 DEF MutualExclusion, TypeOK
<1> QED BY <1>2, <1>3, DrainInv

LEMMA WUnlockInv ==
  ASSUME LockInv, NEW t \in Threads, WUnlock(t)
  PROVE  LockInv'
<1>1. TypeOK /\ MutualExclusion /\ Sleepers
  BY DEF LockInv
<1>2. /\ pc[t] = "writing" /\ ~Asleep(t) /\ GoTo(t, "out")
      /\ writer_entered' = FALSE /\ reader_' = {}
      /\ UNCHANGED <<reader_count, writer_>>
  BY DEF WUnlock, At, NotifyAllReaders
<1>3. /\ pc' \in [Threads -> Places] /\ pc'[t] = "out"
      /\ \A u \in Threads : u # t => pc'[u] = pc[u]
      /\ Readers' = Readers
  BY <1>1, <1>2, ReadersMove, ReadersKept DEF Places
<1>4. TypeOK'
  BY <1>1, <1>2, <1>3 DEF TypeOK
<1>5. MutualExclusion'
  <2>1. \A u \in Threads : pc'[u] \notin {"drain", "writing"}
    BY <1>1, <1>2, <1>3 DEF MutualExclusion
  <2> QED BY <1>1, <1>2, <1>3, <2>1 DEF MutualExclusion
<1>6. Sleepers'
  BY <1>1, <1>2, <1>3 DEF Sleepers, Asleep, TypeOK
<1> QED BY <1>4, <1>5, <1>6 DEF LockInv

\* A notification only removes sleepers.
LEMMA NotifyOneFacts ==
  ASSUME NEW S, NEW S_, NotifyOne(S, S_)
  PROVE  S_ \subseteq S
BY DEF NotifyOne

LEMMA RUnlockInv ==
  ASSUME LockInv, NEW t \in Threads, RUnlock(t)
  PROVE  LockInv'
<1>1. TypeOK /\ MutualExclusion /\ Sleepers
  BY DEF LockInv
<1>2. /\ pc[t] = "reading" /\ ~Asleep(t) /\ GoTo(t, "out")
      /\ reader_count' = reader_count - 1
      /\ UNCHANGED writer_entered
      /\ reader_' \subseteq reader_ /\ writer_' \subseteq writer_
  BY NotifyOneFacts DEF RUnlock, At
<1>3. /\ pc' \in [Threads -> Places] /\ pc'[t] = "out"
      /\ \A u \in Threads : u # t => pc'[u] = pc[u]
      /\ Readers' = Readers \ {t}
  BY <1>1, <1>2, ReadersMove DEF Places
<1>4. t \in Readers
  BY <1>2 DEF Readers
<1>5. /\ Cardinality(Readers') = Cardinality(Readers) - 1
      /\ Cardinality(Readers') \in Nat
  <2>1. IsFiniteSet(Readers \ {t})
    BY ReadersFinite, FS_RemoveElement
  <2> QED BY <1>3, <1>4, <2>1, ReadersFinite, FS_RemoveElement, FS_CardinalityType
<1>6. TypeOK'
  <2>1. reader_count' = Cardinality(Readers')
    BY <1>1, <1>2, <1>5 DEF MutualExclusion
  <2>2. reader_count' \in 0 .. MaxReaders
    BY <1>1, <1>2, <1>5, <2>1 DEF TypeOK
  <2> QED BY <1>1, <1>2, <1>3, <2>2 DEF TypeOK
<1>7. MutualExclusion'
  <2>1. reader_count > 0
    BY <1>1, <1>5, ReadersFinite DEF MutualExclusion
  <2>2. \A u \in Threads : pc[u] # "writing"
    BY <1>1, <2>1 DEF MutualExclusion, TypeOK
  <2>3. \A u \in Threads : pc'[u] \in {"drain", "writing"} <=> pc[u] \in {"drain", "writing"}
    BY <1>2, <1>3
  <2>4. \A u \in Threads : pc'[u] # "writing"
    BY <1>3, <2>2
  <2>5. reader_count' = Cardinality(Readers)'
    BY <1>1, <1>2, <1>5 DEF MutualExclusion
  <2> QED BY <1>1, <1>2, <2>3, <2>4, <2>5 DEF MutualExclusion
<1>8. Sleepers'
  BY <1>1, <1>2, <1>3 DEF Sleepers, Asleep, TypeOK
<1> QED BY <1>6, <1>7, <1>8 DEF LockInv

LEMMA WakeInv ==
  ASSUME LockInv, NEW t \in Threads, Wake(t)
  PROVE  LockInv'
<1>1. Readers' = Readers
  BY DEF Wake, Readers
<1> QED BY <1>1 DEF Wake, LockInv, TypeOK, MutualExclusion, Sleepers

LEMMA InitLockInv ==
  ASSUME Init
  PROVE  LockInv
<1>1. Readers = {}
  BY DEF Init, Readers
<1>2. Cardinality(Readers) = 0
  BY <1>1, FS_EmptySet
<1>3. TypeOK /\ Sleepers
  <2>1. 0 \in 0 .. MaxReaders
    BY RWMutexAssumption
  <2>2. [t \in Threads |-> "out"] \in [Threads -> Places]
    BY DEF Places
  <2> QED BY <2>1, <2>2 DEF Init, TypeOK, Sleepers
<1>4. MutualExclusion
  <2>1. \A t \in Threads : pc[t] = "out"
    BY DEF Init
  <2>2. ~writer_entered /\ reader_count = Cardinality(Readers)
    BY <1>2 DEF Init
  <2> QED BY <2>1, <2>2 DEF MutualExclusion
<1> QED BY <1>3, <1>4 DEF LockInv

LEMMA NextLockInv ==
  ASSUME LockInv, [Next]_vars
  PROVE  LockInv'
<1>1. ASSUME NEW t \in Threads, Call(t) \/ Run(t) \/ Wake(t)
      PROVE  LockInv'
  <2>1. CASE Call(t)
    BY <2>1, CallInv
  <2>2. CASE RLock(t)
    BY <2>2, RLockInv
  <2>3. CASE WLock(t)
    BY <2>3, WLockInv
  <2>4. CASE WLockDrain(t)
    BY <2>4, WLockDrainInv
  <2>5. CASE WUnlock(t)
    BY <2>5, WUnlockInv
  <2>6. CASE RUnlock(t)
    BY <2>6, RUnlockInv
  <2>7. CASE Wake(t)
    BY <2>7, WakeInv
  <2> QED BY <1>1, <2>1, <2>2, <2>3, <2>4, <2>5, <2>6, <2>7 DEF Run
<1>2. CASE UNCHANGED vars
  <2>1. Readers' = Readers
    BY <1>2 DEF vars, Readers
  <2> QED BY <1>2, <2>1 DEF vars, LockInv, TypeOK, MutualExclusion, Sleepers
<1> QED BY <1>1, <1>2 DEF Next

\* The lock excludes: the property MutualExclusion of RLock, RUnlock, WLock and
\* WUnlock, for every set of threads and every limit.
THEOREM LockExcludes == Spec => [](TypeOK /\ MutualExclusion)
<1>1. LockInv => TypeOK /\ MutualExclusion
  BY DEF LockInv
<1> QED BY <1>1, InitLockInv, NextLockInv, PTL DEF Spec

-----------------------------------------------------------------------------
(* No wakeup is lost, below the reader limit. *)

\* The limit is never what keeps a reader out.
LEMMA NeverFull ==
  ASSUME Cardinality(Threads) <= MaxReaders, MutualExclusion,
         NEW t \in Threads, pc[t] # "reading"
  PROVE  reader_count # MaxReaders
<1>1. Readers \in SUBSET (Threads \ {t})
  BY DEF Readers
<1>2. /\ IsFiniteSet(Threads \ {t})
      /\ Cardinality(Threads \ {t}) = Cardinality(Threads) - 1
  BY FS_RemoveElement
<1>3. /\ Cardinality(Readers) <= Cardinality(Threads) - 1
      /\ Cardinality(Threads) \in Nat
  BY <1>1, <1>2, FS_Subset, FS_CardinalityType
<1> QED BY <1>3, ReadersFinite DEF MutualExclusion

\* What sleeps on reader_ was put there by a writer.
WakeInvariant ==
  /\ LockInv
  /\ reader_ # {} => writer_entered
  /\ writer_ # {} => reader_count > 0

LEMMA RUnlockWakes ==
  ASSUME Cardinality(Threads) <= MaxReaders, WakeInvariant,
         NEW t \in Threads, RUnlock(t)
  PROVE  /\ reader_' # {} => writer_entered'
         /\ writer_' # {} => reader_count' > 0
<1>1. TypeOK /\ MutualExclusion /\ Sleepers /\ LockInv'
  BY RUnlockInv DEF WakeInvariant, LockInv
<1>2. reader_' \subseteq reader_ /\ UNCHANGED writer_entered
  BY NotifyOneFacts DEF RUnlock
<1>3. ASSUME writer_' # {}
      PROVE  reader_count' > 0
  <2>1. CASE writer_entered /\ reader_count' = 0
    <3>1. NotifyOne(writer_, writer_')
      BY <2>1 DEF RUnlock, WakesWriter
    <3>2. \A u, v \in writer_ : u = v
      BY <1>1 DEF TypeOK, Sleepers, MutualExclusion
    <3>3. writer_' = {}
      BY <3>1, <3>2 DEF NotifyOne
    <3> QED BY <1>3, <3>3
  <2>2. CASE ~writer_entered
    <3>1. writer_ = {}
      BY <1>1, <2>2 DEF TypeOK, Sleepers, MutualExclusion
    <3> QED BY <1>3, <2>2, <3>1 DEF RUnlock
  <2>3. reader_count' \in Nat
    BY <1>1 DEF LockInv, TypeOK
  <2> QED BY <2>1, <2>2, <2>3
<1> QED BY <1>2, <1>3 DEF WakeInvariant

LEMMA NextWakes ==
  ASSUME Cardinality(Threads) <= MaxReaders, WakeInvariant, [Next]_vars
  PROVE  WakeInvariant'
<1>1. TypeOK /\ MutualExclusion /\ Sleepers /\ LockInv /\ LockInv'
  BY NextLockInv DEF WakeInvariant, LockInv
<1>2. ASSUME NEW t \in Threads, Call(t)
      PROVE  WakeInvariant'
  BY <1>1, <1>2 DEF WakeInvariant, Call
<1>3. ASSUME NEW t \in Threads, RLock(t)
      PROVE  WakeInvariant'
  <2>1. pc[t] # "reading"
    BY <1>3 DEF RLock, At
  <2>2. reader_count # MaxReaders
    BY <1>1, <2>1, NeverFull
  <2>3. reader_count' = reader_count \/ reader_count' = reader_count + 1
    BY <1>3 DEF RLock
  <2> QED BY <1>1, <1>3, <2>2, <2>3 DEF WakeInvariant, RLock, ReaderBlocked, TypeOK
<1>4. ASSUME NEW t \in Threads, WLock(t)
      PROVE  WakeInvariant'
  BY <1>1, <1>4 DEF WakeInvariant, WLock, Drain, WriterBlocked
<1>5. ASSUME NEW t \in Threads, WLockDrain(t)
      PROVE  WakeInvariant'
  BY <1>1, <1>5 DEF WakeInvariant, WLockDrain, Drain, WriterBlocked
<1>6. ASSUME NEW t \in Threads, WUnlock(t)
      PROVE  WakeInvariant'
  BY <1>1, <1>6 DEF WakeInvariant, WUnlock, NotifyAllReaders
<1>7. ASSUME NEW t \in Threads, RUnlock(t)
      PROVE  WakeInvariant'
  BY <1>1, <1>7, RUnlockWakes DEF WakeInvariant
<1>8. ASSUME NEW t \in Threads, Wake(t)
      PROVE  WakeInvariant'
  BY <1>1, <1>8 DEF WakeInvariant, Wake
<1>9. CASE UNCHANGED vars
  BY <1>1, <1>9 DEF WakeInvariant, vars
<1> QED BY <1>2, <1>3, <1>4, <1>5, <1>6, <1>7, <1>8, <1>9 DEF Next, Run

\* Below the limit, the property NoLostWakeup of the notifications in RUnlock and
\* WUnlock holds for every set of threads: a sleeper has somebody to wake it.
THEOREM NoWakeupLost ==
  ASSUME Cardinality(Threads) <= MaxReaders
  PROVE  Spec => []NoLostWakeup
<1>1. Init => WakeInvariant
  BY InitLockInv DEF Init, WakeInvariant
<1>2. WakeInvariant /\ [Next]_vars => WakeInvariant'
  BY NextWakes
<1>3. WakeInvariant => NoLostWakeup
  BY DEF WakeInvariant, NoLostWakeup, ReaderBlocked
<1> QED BY <1>1, <1>2, <1>3, PTL DEF Spec
================================================================================
