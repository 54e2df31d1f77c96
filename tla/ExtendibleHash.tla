----------------------------- MODULE ExtendibleHash -----------------------------
(***************************************************************************)
(* The extendible hash table of hash/extendible_hash.cpp: a directory of   *)
(* 2^mGlobalDepth pointers to buckets, each shared by the indices that     *)
(* agree on its localDepth low bits, one latch per bucket and one for the  *)
(* directory.                                                              *)
(*                                                                         *)
(* The buffer pool calls it under its own latch, one call at a time, as    *)
(* page table; its interface and its tests let threads call it at will.    *)
(* Threads with one element is the first use, a larger set the second.     *)
(*                                                                         *)
(* A step is what a thread does between two points where another thread    *)
(* can see or change what it uses: getBucketIndex holds mLatch and is one  *)
(* step, reading mBuckets[index] afterwards holds nothing and is another,  *)
(* and a split shows its two halves, since Find and the reads of mBuckets  *)
(* take no latch.  An access to mBuckets or to a dataMap without a latch   *)
(* is a data race; here it sees one of the values written, the mildest     *)
(* outcome a build can produce.                                            *)
(*                                                                         *)
(* A key is its hash: std::hash of an integer is the integer.  mBucketNum  *)
(* is the number of buckets made, Len(buckets).                            *)
(***************************************************************************)
EXTENDS Integers, Sequences, FiniteSets

CONSTANTS
  Threads,
  Ops,          \* the operations they call: among "Insert", "Find", "Remove"
  Keys,
  Values,
  Default,      \* V(), what operator[] gives a key that is absent
  BucketSize,   \* mBucketSize
  MaxDepth,     \* bound: a bucket this deep is not split
  NotFound,     \* the answer of a call that returns false
  Free          \* the holder of a latch nobody holds

ASSUME HashAssumption ==
  /\ Ops \subseteq {"Insert", "Find", "Remove"} /\ Ops # {}
  /\ Keys \subseteq Nat /\ IsFiniteSet(Keys) /\ Keys # {}
  /\ Default \in Values
  /\ BucketSize \in Nat \ {0}
  /\ MaxDepth \in Nat
  /\ NotFound \notin Values
  /\ Free \notin Threads

VARIABLES
  mGlobalDepth,
  mBuckets,    \* the directory: index -> position in buckets
  buckets,     \* the buckets made so far: [localDepth, dataMap]
  mLatch,      \* the holder of the directory's latch, or Free
  latch,       \* the holder of each bucket's latch, or Free
  pc,          \* thread -> the point it has reached
  call,        \* thread -> its current or last call: [op, key, value]
  index,       \* thread -> its local variable index
  cur,         \* thread -> the bucket it uses: cur in Insert, the latched one in Remove
  answer,      \* thread -> what its last Find or Remove returned
  raced        \* history: the keys once put where the directory no longer led

tableVars == <<mGlobalDepth, mBuckets, buckets, raced>>
vars == <<tableVars, mLatch, latch, pc, call, index, cur, answer>>

Calls == [op : Ops, key : Keys, value : Values]
Points == {"idle", "index", "fetch", "lock", "split", "repoint", "seek", "erase",
           "found"}

\* 1 << d, a power of two.
Shift[d \in Nat] == IF d = 0 THEN 1 ELSE 2 * Shift[d - 1]

Indices(depth) == 0 .. Shift[depth] - 1

TypeOK ==
  /\ mGlobalDepth \in 0 .. MaxDepth
  /\ mBuckets \in [Indices(mGlobalDepth) -> 1 .. Len(buckets)]
  /\ \A b \in 1 .. Len(buckets) :
       /\ buckets[b].localDepth \in 0 .. mGlobalDepth
       /\ DOMAIN buckets[b].dataMap \subseteq Keys
       /\ \A k \in DOMAIN buckets[b].dataMap : buckets[b].dataMap[k] \in Values
  /\ mLatch \in Threads \cup {Free}
  /\ Len(latch) = Len(buckets)
  /\ \A b \in 1 .. Len(latch) : latch[b] \in Threads \cup {Free}
  /\ pc \in [Threads -> Points]
  /\ call \in [Threads -> Calls]
  /\ \A t \in Threads : index[t] \in DOMAIN mBuckets /\ cur[t] \in 1 .. Len(buckets)
  /\ answer \in [Threads -> Values \cup {NotFound, "removed"}]
  /\ raced \subseteq Keys

NoCall == CHOOSE c \in Calls : TRUE

NoKeys == [k \in {} |-> Default]

Init ==
  /\ mGlobalDepth = 0
  /\ mBuckets = [i \in Indices(0) |-> 1]
  /\ buckets = <<[localDepth |-> 0, dataMap |-> NoKeys]>>
  /\ mLatch = Free
  /\ latch = <<Free>>
  /\ pc = [t \in Threads |-> "idle"]
  /\ call = [t \in Threads |-> NoCall]
  /\ index = [t \in Threads |-> 0]
  /\ cur = [t \in Threads |-> 1]
  /\ answer = [t \in Threads |-> NotFound]
  /\ raced = {}

-----------------------------------------------------------------------------
(* Helpers. *)

GoTo(t, p) == pc' = [pc EXCEPT ![t] = p]

\* The call is over; its locals go out of scope.
Return(t) ==
  /\ GoTo(t, "idle")
  /\ call' = [call EXCEPT ![t] = NoCall]
  /\ index' = [index EXCEPT ![t] = 0]
  /\ cur' = [cur EXCEPT ![t] = 1]

Answer(t, a) == answer' = [answer EXCEPT ![t] = a]

Calling(t, op, p) == call[t].op = op /\ pc[t] = p

Key(t) == call[t].key

With(map, k, v) == [j \in DOMAIN map \cup {k} |-> IF j = k THEN v ELSE map[j]]
Without(map, k) == [j \in DOMAIN map \ {k} |-> map[j]]

\* Bit number d of n: n & (1 << d).
Bit(n, d) == (n \div Shift[d]) % 2 = 1

\* HashKey(key) & ((1 << mGlobalDepth) - 1)
IndexOf(k) == k % Shift[mGlobalDepth]

\* The bucket the directory has at the thread's index now.
Current(t) == mBuckets[index[t]]

\* Mutant: the lock_guard of an iteration outlives it.
KeepsOldLatch(t) == UNCHANGED latch

\* An iteration of Insert's loop that has split ends by unlocking the old bucket.
ReleaseOldLatch(t) ==
  latch' = [b \in DOMAIN latch |-> IF latch[b] = t THEN Free ELSE latch[b]]

-----------------------------------------------------------------------------
(* The steps of a call. *)

Call(t) ==
  /\ pc[t] = "idle"
  /\ \E c \in Calls :
       /\ c.op # "Insert" => c.value = Default
       /\ call' = [call EXCEPT ![t] = c]
  /\ GoTo(t, "index")
  /\ UNCHANGED <<tableVars, mLatch, latch, index, cur, answer>>

GetBucketIndex(t) ==
  /\ pc[t] = "index"
  /\ mLatch = Free
  /\ index' = [index EXCEPT ![t] = IndexOf(Key(t))]
  /\ GoTo(t, "fetch")
  /\ UNCHANGED <<tableVars, mLatch, latch, call, cur, answer>>

\* Insert and Remove read mBuckets[index] before they latch what they read.
FetchBucket(t) ==
  /\ pc[t] = "fetch" /\ call[t].op # "Find"
  /\ cur' = [cur EXCEPT ![t] = Current(t)]
  /\ ReleaseOldLatch(t)
  /\ GoTo(t, "lock")
  /\ UNCHANGED <<tableVars, mLatch, call, index, answer>>

\* Mutant: a present key gets the new value.
Overwritten(map, k, v) == With(map, k, v)

\* std::map::insert.
Inserted(map, k, v) == IF k \in DOMAIN map THEN map ELSE With(map, k, v)

\* Mutant: a full bucket is split for a key it already has.
RoomForNew(b, k) == Cardinality(DOMAIN buckets[b].dataMap) < BucketSize

HasRoom(b, k) ==
  LET map == buckets[b].dataMap IN
  k \in DOMAIN map \/ Cardinality(DOMAIN map) < BucketSize

\* Insert finds the key or room for it; the bucket is latched and released.
InsertPair(t) ==
  /\ Calling(t, "Insert", "lock")
  /\ latch[cur[t]] = Free
  /\ HasRoom(cur[t], Key(t))
  /\ buckets' = [buckets EXCEPT ![cur[t]].dataMap = Inserted(@, Key(t), call[t].value)]
  /\ raced' = IF mBuckets[IndexOf(Key(t))] = cur[t] THEN raced ELSE raced \cup {Key(t)}
  /\ Return(t)
  /\ UNCHANGED <<mGlobalDepth, mBuckets, mLatch, latch, answer>>

\* Insert finds the bucket full, and keeps its latch.  Guarded by the bound.
LockFull(t) ==
  /\ Calling(t, "Insert", "lock")
  /\ latch[cur[t]] = Free
  /\ ~HasRoom(cur[t], Key(t))
  /\ buckets[cur[t]].localDepth < MaxDepth
  /\ latch' = [latch EXCEPT ![cur[t]] = t]
  /\ GoTo(t, "split")
  /\ UNCHANGED <<tableVars, mLatch, call, index, cur, answer>>

\* At the bound MaxDepth the loop goes round without a split.  One thread never
\* splits deeper than its keys have bits; but a key that a race has left in a wrong
\* bucket can make Insert split that bucket for ever.
LoopAtBound(t) ==
  /\ Calling(t, "Insert", "lock")
  /\ latch[cur[t]] = Free
  /\ ~HasRoom(cur[t], Key(t))
  /\ buckets[cur[t]].localDepth = MaxDepth
  /\ GoTo(t, "index")
  /\ UNCHANGED <<tableVars, mLatch, latch, call, index, cur, answer>>

\* Mutant: the directory is not doubled.
NotDoubled == mBuckets

\* The second half of the directory repeats the first.
Doubled == [i \in Indices(mGlobalDepth + 1) |-> mBuckets[i % Shift[mGlobalDepth]]]

\* Mutant: the mask is computed after localDepth is incremented.
NextBit(b) == buckets[b].localDepth + 1

\* The bit that tells the two halves of a bucket apart: mask is 1 << it.
SplitBit(b) == buckets[b].localDepth

\* The first half of a split, under the bucket's latch and mLatch: the bucket
\* becomes one deeper, the directory doubles if it has to, and the keys with the
\* bit set move to a new bucket, which the directory does not have yet.
SplitBucket(t) ==
  LET b == cur[t]
      map == buckets[b].dataMap
      moved == {k \in DOMAIN map : Bit(k, SplitBit(b))}
      depth == buckets[b].localDepth + 1
  IN
  /\ pc[t] = "split"
  /\ mLatch = Free
  /\ mLatch' = t
  /\ IF depth > mGlobalDepth
     THEN mBuckets' = Doubled /\ mGlobalDepth' = mGlobalDepth + 1
     ELSE UNCHANGED <<mBuckets, mGlobalDepth>>
  /\ buckets' = Append(
       [buckets EXCEPT ![b] = [localDepth |-> depth,
                               dataMap |-> [k \in DOMAIN map \ moved |-> map[k]]]],
       [localDepth |-> depth, dataMap |-> [k \in moved |-> map[k]]])
  /\ latch' = Append(latch, Free)
  /\ GoTo(t, "repoint")
  /\ UNCHANGED <<call, index, cur, answer, raced>>

\* Mutant: every pointer to the split bucket moves to the new one.
AllPointers(b) == {i \in DOMAIN mBuckets : mBuckets[i] = b}

\* The directory entries of the split bucket b that get the new one: localDepth
\* has been incremented, mask has not.
MovedPointers(b) ==
  {i \in DOMAIN mBuckets : mBuckets[i] = b /\ Bit(i, buckets[b].localDepth - 1)}

\* The second half: the directory's entries are repointed, mLatch is released,
\* and Insert starts over with the bucket's latch still held.
Repoint(t) ==
  /\ pc[t] = "repoint"
  /\ mBuckets' = [i \in DOMAIN mBuckets |->
                    IF i \in MovedPointers(cur[t]) THEN Len(buckets) ELSE mBuckets[i]]
  /\ mLatch' = Free
  /\ GoTo(t, "index")
  /\ UNCHANGED <<mGlobalDepth, buckets, latch, call, index, cur, answer, raced>>

\* Remove latches the bucket it has read ...
LockForRemove(t) ==
  /\ Calling(t, "Remove", "lock")
  /\ latch[cur[t]] = Free
  /\ latch' = [latch EXCEPT ![cur[t]] = t]
  /\ GoTo(t, "seek")
  /\ UNCHANGED <<tableVars, mLatch, call, index, cur, answer>>

\* The latch is released when Remove returns.
Unlock(t) == latch' = [latch EXCEPT ![cur[t]] = Free]

\* ... looks for the key in the one that mBuckets[index] is by then ...
SeekKey(t) ==
  /\ pc[t] = "seek"
  /\ IF Key(t) \in DOMAIN buckets[Current(t)].dataMap
     THEN GoTo(t, "erase") /\ UNCHANGED <<latch, call, index, cur, answer>>
     ELSE Return(t) /\ Answer(t, NotFound) /\ Unlock(t)
  /\ UNCHANGED <<tableVars, mLatch>>

\* ... and erases it from the one that mBuckets[index] is after that.
EraseKey(t) ==
  /\ pc[t] = "erase"
  /\ buckets' = [buckets EXCEPT ![Current(t)].dataMap = Without(@, Key(t))]
  /\ Unlock(t)
  /\ Answer(t, "removed")
  /\ Return(t)
  /\ UNCHANGED <<mGlobalDepth, mBuckets, mLatch, raced>>

\* Find looks for the key without a latch ...
FindKey(t) ==
  /\ Calling(t, "Find", "fetch")
  /\ IF Key(t) \in DOMAIN buckets[Current(t)].dataMap
     THEN GoTo(t, "found") /\ UNCHANGED <<call, index, cur, answer>>
     ELSE Return(t) /\ Answer(t, NotFound)
  /\ UNCHANGED <<tableVars, mLatch, latch>>

\* ... and reads its value with operator[], which would add a key gone meanwhile.
FindValue(t) ==
  LET b == Current(t) IN
  /\ pc[t] = "found"
  /\ buckets' = [buckets EXCEPT ![b].dataMap = Inserted(@, Key(t), Default)]
  /\ raced' = IF Key(t) \in DOMAIN buckets[b].dataMap THEN raced ELSE raced \cup {Key(t)}
  /\ Answer(t, buckets'[b].dataMap[Key(t)])
  /\ Return(t)
  /\ UNCHANGED <<mGlobalDepth, mBuckets, mLatch, latch>>

Step(t) ==
  \/ GetBucketIndex(t) \/ FetchBucket(t)
  \/ InsertPair(t) \/ LockFull(t) \/ LoopAtBound(t) \/ SplitBucket(t) \/ Repoint(t)
  \/ LockForRemove(t) \/ SeekKey(t) \/ EraseKey(t)
  \/ FindKey(t) \/ FindValue(t)

Next == \E t \in Threads : Call(t) \/ Step(t)

Spec == Init /\ [][Next]_vars

\* A call that can go on does.
FairSpec == Spec /\ \A t \in Threads : WF_vars(Step(t))

-----------------------------------------------------------------------------
(* Properties. *)

\* The directory has the shape extendible hashing relies on whenever mLatch is
\* free, whatever threads split at the same time: two indices share a bucket
\* exactly when they agree on its localDepth low bits, and no bucket is lost.
DirectoryShape ==
  mLatch = Free =>
    /\ {mBuckets[i] : i \in DOMAIN mBuckets} = 1 .. Len(buckets)
    /\ \A i, j \in DOMAIN mBuckets :
         LET n == Shift[buckets[mBuckets[i]].localDepth] IN
         mBuckets[i] = mBuckets[j] <=> i % n = j % n

\* t waits for a latch somebody else, or t itself, holds.
Blocked(t) ==
  \/ pc[t] \in {"index", "split"} /\ mLatch # Free
  \/ pc[t] = "lock" /\ latch[cur[t]] # Free

\* The latches are taken in an order that cannot block: if calls are under way,
\* one of them can take a step.
NoDeadlock ==
  (\E t \in Threads : pc[t] # "idle") =>
     \E t \in Threads : pc[t] # "idle" /\ ~Blocked(t)

\* With one thread, every key is in the bucket its hash leads to, and only there;
\* no bucket holds more than BucketSize keys.
KeysInPlace ==
  mLatch = Free =>
    \A b \in 1 .. Len(buckets) :
      LET keys == DOMAIN buckets[b].dataMap IN
      /\ Cardinality(keys) <= BucketSize
      /\ \A k \in keys : mBuckets[IndexOf(k)] = b

\* With one thread every call returns: Insert's loop ends after finitely many
\* splits, because distinct keys differ in some bit.
CallsReturn == \A t \in Threads : pc[t] # "idle" ~> pc[t] = "idle"

\* Splits of several threads at the same time, with calls that have read the directory
\* before them, never bring a key out of its place.  Only these two do: an Insert that has
\* waited for a bucket that was split meanwhile, and a Find whose key is removed under it.
AstrayOnlyByRace ==
  mLatch = Free =>
    \A b \in 1 .. Len(buckets), k \in Keys :
      k \in DOMAIN buckets[b].dataMap /\ k \notin raced => mBuckets[IndexOf(k)] = b

\* The keys of all the buckets together, with their values.
Contents ==
  LET holds(k) == {b \in 1 .. Len(buckets) : k \in DOMAIN buckets[b].dataMap} IN
  [k \in {j \in Keys : holds(j) # {}} |->
     buckets[CHOOSE b \in holds(k) : TRUE].dataMap[k]]

Map == INSTANCE KeyMap WITH map <- Contents

\* With one thread the table implements a map: every Find and Remove answers
\* according to the Inserts and Removes before it, through any splits.
ImplementsKeyMap == Map!Spec
================================================================================
