------------------------- MODULE ExtendibleHashProofs -------------------------
(***************************************************************************)
(* Proofs about ExtendibleHash, for every set of threads, keys and values, *)
(* every bucket size and every bound on the depth.                         *)
(***************************************************************************)
EXTENDS ExtendibleHash, FiniteSetTheorems, WellFoundedInduction, TLAPS

-----------------------------------------------------------------------------
(* Powers of two, and the low bits of a number. *)

\* A set of naturals that is closed under successor and has 0 is all of them: the
\* form of induction that needs no operator parameter.
LEMMA Induction ==
  ASSUME NEW T \in SUBSET Nat, 0 \in T, \A n \in T : n + 1 \in T
  PROVE  T = Nat
<1> DEFINE R == {ss \in Nat \X Nat : ss[1] < ss[2]}
<1>1. \A x, y \in Nat : <<y, x>> \in R <=> y < x
  OBVIOUS
<1>2. IsWellFoundedOn(R, Nat)
  BY NatLessThanWellFounded, Zenon DEF OpToRel
<1> HIDE DEF R
<1> DEFINE U == Nat \ T
<1>3. SUFFICES ASSUME U # {} PROVE FALSE
  OBVIOUS
<1>4. PICK n \in U : \A m \in U : ~(<<m, n>> \in R)
  <2>1. U \subseteq Nat
    OBVIOUS
  <2> HIDE DEF U
  <2> QED BY <1>2, <1>3, <2>1, WFMin
<1>5. n - 1 \in T
  <2>1. n \in Nat /\ n # 0 /\ n - 1 \in Nat /\ n - 1 < n
    BY <1>4
  <2> QED BY <1>1, <1>4, <2>1
<1>6. n - 1 + 1 = n
  BY <1>4
<1> QED BY <1>4, <1>5, <1>6

\* The powers up to the n-th, as a function.
Powers(n, f) ==
  /\ f \in [0 .. n -> Nat \ {0}]
  /\ f[0] = 1
  /\ \A i \in 0 .. n - 1 : f[i + 1] = 2 * f[i]

LEMMA PowersExist == \A n \in Nat : \E f : Powers(n, f)
<1> DEFINE T == {n \in Nat : \E f : Powers(n, f)}
<1>1. 0 \in T
  <2>1. Powers(0, [i \in 0 .. 0 |-> 1])
    BY DEF Powers
  <2> QED BY <2>1
<1>2. ASSUME NEW n \in T PROVE n + 1 \in T
  <2>1. PICK f : Powers(n, f)
    OBVIOUS
  <2> DEFINE g == [i \in 0 .. n + 1 |-> IF i = n + 1 THEN 2 * f[n] ELSE f[i]]
  <2>2. n \in Nat /\ \A i \in 0 .. n : f[i] \in Nat \ {0}
    BY <2>1 DEF Powers
  <2>3. g \in [0 .. n + 1 -> Nat \ {0}] /\ g[0] = 1
    BY <2>1, <2>2 DEF Powers
  <2>4. ASSUME NEW i \in 0 .. n PROVE g[i + 1] = 2 * g[i]
    BY <2>1, <2>2 DEF Powers
  <2> HIDE DEF g
  <2>5. n + 1 - 1 = n
    BY <2>2
  <2>6. Powers(n + 1, g)
    BY <2>3, <2>4, <2>5 DEF Powers
  <2> QED BY <2>2, <2>6
<1>3. T = Nat
  <2>1. T \subseteq Nat
    OBVIOUS
  <2> HIDE DEF T
  <2> QED BY <1>1, <1>2, <2>1, Induction
<1> QED BY <1>3

LEMMA PowersAgree ==
  ASSUME NEW m \in Nat, NEW n \in Nat, NEW f, NEW g, Powers(m, f), Powers(n, g)
  PROVE  \A i \in Nat : i <= m /\ i <= n => f[i] = g[i]
<1> DEFINE T == {i \in Nat : i <= m /\ i <= n => f[i] = g[i]}
<1>1. 0 \in T
  BY DEF Powers
<1>2. ASSUME NEW i \in T PROVE i + 1 \in T
  BY DEF Powers
<1>3. T = Nat
  <2>1. T \subseteq Nat
    OBVIOUS
  <2> HIDE DEF T
  <2> QED BY <1>1, <1>2, <2>1, Induction
<1> QED BY <1>3

\* Shift is what its definition says.
LEMMA ShiftDefined ==
  Shift = [d \in Nat |-> IF d = 0 THEN 1 ELSE 2 * Shift[d - 1]]
<1> DEFINE upTo[n \in Nat] == CHOOSE f : Powers(n, f)
           h == [n \in Nat |-> upTo[n][n]]
<1>1. \A n \in Nat : Powers(n, upTo[n])
  BY PowersExist
<1> HIDE DEF upTo
<1>2. h[0] = 1
  BY <1>1 DEF Powers
<1>3. ASSUME NEW n \in Nat, n # 0 PROVE h[n] = 2 * h[n - 1]
  <2>1. n - 1 \in Nat /\ n - 1 + 1 = n
    BY <1>3
  <2>2. h[n] = 2 * upTo[n][n - 1]
    BY <1>1, <2>1 DEF Powers
  <2>3. upTo[n][n - 1] = upTo[n - 1][n - 1]
    BY <1>1, <2>1, PowersAgree
  <2> QED BY <2>1, <2>2, <2>3
<1>4. h = [d \in Nat |-> IF d = 0 THEN 1 ELSE 2 * h[d - 1]]
  BY <1>2, <1>3
<1> HIDE DEF h
<1> QED BY <1>4, Zenon DEF Shift

LEMMA ShiftFacts ==
  /\ Shift[0] = 1
  /\ \A d \in Nat : Shift[d] \in Nat \ {0} /\ Shift[d + 1] = 2 * Shift[d]
<1>1. Shift[0] = 1
  BY ShiftDefined
<1>2. \A d \in Nat : Shift[d + 1] = 2 * Shift[d]
  <2> TAKE d \in Nat
  <2>1. d + 1 \in Nat /\ d + 1 # 0 /\ d + 1 - 1 = d
    OBVIOUS
  <2> QED BY <2>1, ShiftDefined
<1> DEFINE T == {d \in Nat : Shift[d] \in Nat \ {0}}
<1>3. 0 \in T
  BY <1>1
<1>4. ASSUME NEW d \in T PROVE d + 1 \in T
  BY <1>2
<1>5. T = Nat
  BY <1>3, <1>4, Induction
<1> QED BY <1>1, <1>2, <1>5

\* Division with remainder has one result.
LEMMA DivUnique ==
  ASSUME NEW n \in Nat \ {0}, NEW q \in Nat, NEW r \in 0 .. n - 1,
         NEW k \in Nat, k = n * q + r
  PROVE  k % n = r /\ k \div n = q
<1> DEFINE p == k \div n
           s == k % n
<1>1. p \in Nat /\ s \in 0 .. n - 1 /\ k = n * p + s
  OBVIOUS
<1> HIDE DEF p, s
<1>2. n * (p - q) = r - s
  BY <1>1
<1>3. CASE p - q >= 1
  <2>1. n * (p - q) >= n
    BY <1>1, <1>3
  <2> QED BY <1>1, <1>2, <2>1
<1>4. CASE q - p >= 1
  <2>1. n * (q - p) >= n
    BY <1>1, <1>4
  <2>2. n * (q - p) = s - r
    BY <1>1
  <2> QED BY <1>1, <2>1, <2>2
<1>5. CASE p = q
  <2>1. s = r
    BY <1>1, <1>5
  <2> QED BY <1>5, <2>1 DEF p, s
<1> QED BY <1>1, <1>3, <1>4, <1>5

LEMMA DivFacts ==
  ASSUME NEW k \in Nat, NEW n \in Nat \ {0}
  PROVE  /\ k \div n \in Nat
         /\ k % n \in 0 .. n - 1
         /\ k = n * (k \div n) + (k % n)
OBVIOUS

\* The d low bits of the i low bits: what the directory's doubling does to an index.
LEMMA LowBits ==
  ASSUME NEW k \in Nat, NEW n \in Nat \ {0}, NEW c \in Nat \ {0}
  PROVE  (k % (n * c)) % n = k % n
<1> DEFINE m == n * c
<1>1. m \in Nat \ {0}
  OBVIOUS
<1> DEFINE q == k \div m
           r == k % m
<1>2. q \in Nat /\ r \in Nat /\ k = m * q + r
  <2> HIDE DEF m
  <2>1. k \div m \in Nat /\ k % m \in 0 .. m - 1 /\ k = m * (k \div m) + (k % m)
    BY <1>1, DivFacts
  <2> QED BY <2>1
<1> HIDE DEF q, r
<1> DEFINE p == r \div n
           s == r % n
<1>3. p \in Nat /\ s \in 0 .. n - 1 /\ r = n * p + s
  BY <1>2, DivFacts
<1>4. m * q = n * (c * q)
  BY <1>2
<1> HIDE DEF p, s, m
<1>5. c * q \in Nat
  BY <1>2
<1>6. k = n * (c * q + p) + s
  BY <1>2, <1>3, <1>4, <1>5
<1>7. c * q + p \in Nat
  BY <1>3, <1>5
<1>8. k % n = s
  BY <1>3, <1>6, <1>7, DivUnique
<1> QED BY <1>8 DEF m, r, s

\* One more low bit adds it to the number or does not.
LEMMA NextBitFacts ==
  ASSUME NEW k \in Nat, NEW n \in Nat \ {0}
  PROVE  k % (2 * n) = IF (k \div n) % 2 = 1 THEN (k % n) + n ELSE k % n
<1> DEFINE q == k \div n
           r == k % n
           p == q \div 2
           b == q % 2
<1>1. q \in Nat /\ r \in 0 .. n - 1 /\ k = n * q + r
  BY DivFacts
<1>2. p \in Nat /\ b \in {0, 1} /\ q = 2 * p + b
  BY <1>1
<1> HIDE DEF q, r, p, b
<1>3. n * q = (2 * n) * p + n * b
  BY <1>1, <1>2
<1>4. k = (2 * n) * p + (n * b + r)
  BY <1>1, <1>2, <1>3
<1>5. n * b = IF b = 1 THEN n ELSE 0
  BY <1>2
<1>6. n * b + r \in 0 .. (2 * n) - 1
  BY <1>1, <1>2, <1>5
<1>7. k % (2 * n) = n * b + r
  <2> DEFINE m == 2 * n
             s == n * b + r
  <2>1. m \in Nat \ {0} /\ s \in 0 .. m - 1 /\ k = m * p + s
    BY <1>4, <1>6
  <2> HIDE DEF m, s
  <2>2. k % m = s
    BY <1>2, <2>1, DivUnique
  <2> QED BY <2>2 DEF m, s
<1> QED BY <1>1, <1>5, <1>7 DEF q, r, b

LEMMA ShiftSplits ==
  ASSUME NEW a \in Nat
  PROVE  \A d \in Nat : d >= a => \E c \in Nat \ {0} : Shift[d] = Shift[a] * c
<1> DEFINE T == {e \in Nat : \E c \in Nat \ {0} : Shift[a + e] = Shift[a] * c}
<1>1. 0 \in T
  <2>1. Shift[a + 0] = Shift[a] * 1
    BY ShiftFacts
  <2> QED BY <2>1
<1>2. ASSUME NEW e \in T PROVE e + 1 \in T
  <2>1. PICK c \in Nat \ {0} : Shift[a + e] = Shift[a] * c
    OBVIOUS
  <2>2. a + e \in Nat /\ a + (e + 1) = (a + e) + 1
    OBVIOUS
  <2>3. Shift[a + (e + 1)] = 2 * (Shift[a] * c)
    BY <2>1, <2>2, ShiftFacts
  <2>4. 2 * (Shift[a] * c) = Shift[a] * (2 * c)
    BY ShiftFacts
  <2>5. 2 * c \in Nat \ {0}
    OBVIOUS
  <2> QED BY <2>3, <2>4, <2>5
<1>3. T = Nat
  <2>1. T \subseteq Nat
    OBVIOUS
  <2> HIDE DEF T
  <2> QED BY <1>1, <1>2, <2>1, Induction
<1> SUFFICES ASSUME NEW d \in Nat, d >= a PROVE \E c \in Nat \ {0} : Shift[d] = Shift[a] * c
  OBVIOUS
<1>4. PICK e \in Nat : a + e = d
  <2>1. d - a \in Nat /\ a + (d - a) = d
    OBVIOUS
  <2> QED BY <2>1
<1>5. e \in T
  <2> HIDE DEF T
  <2> QED BY <1>3
<1> QED BY <1>4, <1>5

LEMMA ShiftGrows ==
  ASSUME NEW a \in Nat, NEW d \in Nat, a <= d
  PROVE  Shift[a] <= Shift[d]
<1>1. PICK c \in Nat \ {0} : Shift[d] = Shift[a] * c
  BY ShiftSplits
<1>2. Shift[a] \in Nat
  BY ShiftFacts
<1> QED BY <1>1, <1>2

\* The low bits of a number are those of its low bits.
LEMMA LowLow ==
  ASSUME NEW k \in Nat, NEW a \in Nat, NEW d \in Nat, a <= d
  PROVE  /\ k % Shift[d] \in Indices(d)
         /\ (k % Shift[d]) % Shift[a] = k % Shift[a]
<1>1. PICK c \in Nat \ {0} : Shift[d] = Shift[a] * c
  BY ShiftSplits
<1>2. Shift[a] \in Nat \ {0} /\ Shift[d] \in Nat \ {0}
  BY ShiftFacts
<1>3. k % Shift[d] \in 0 .. Shift[d] - 1
  BY <1>2, DivFacts
<1>4. (k % (Shift[a] * c)) % Shift[a] = k % Shift[a]
  BY <1>2, LowBits
<1> QED BY <1>1, <1>3, <1>4 DEF Indices

\* What bit number d adds to the d low bits.
LEMMA LowNext ==
  ASSUME NEW k \in Nat, NEW d \in Nat
  PROVE  k % Shift[d + 1] = IF Bit(k, d) THEN (k % Shift[d]) + Shift[d] ELSE k % Shift[d]
<1>1. Shift[d] \in Nat \ {0} /\ Shift[d + 1] = 2 * Shift[d]
  BY ShiftFacts
<1> QED BY <1>1, NextBitFacts DEF Bit

\* Two numbers agree on d + 1 low bits when they agree on d of them and on the next.
LEMMA LowSplit ==
  ASSUME NEW i \in Nat, NEW j \in Nat, NEW d \in Nat
  PROVE  i % Shift[d + 1] = j % Shift[d + 1]
           <=> i % Shift[d] = j % Shift[d] /\ (Bit(i, d) <=> Bit(j, d))
<1>1. Shift[d] \in Nat \ {0}
  BY ShiftFacts
<1> DEFINE r == i % Shift[d]
           s == j % Shift[d]
<1>2. r \in 0 .. Shift[d] - 1 /\ s \in 0 .. Shift[d] - 1
  BY <1>1, DivFacts
<1>3. /\ i % Shift[d + 1] = IF Bit(i, d) THEN r + Shift[d] ELSE r
      /\ j % Shift[d + 1] = IF Bit(j, d) THEN s + Shift[d] ELSE s
  BY LowNext
<1> HIDE DEF r, s
<1>4. (IF Bit(i, d) THEN r + Shift[d] ELSE r) = (IF Bit(j, d) THEN s + Shift[d] ELSE s)
        <=> r = s /\ (Bit(i, d) <=> Bit(j, d))
  BY <1>1, <1>2
<1> QED BY <1>3, <1>4 DEF r, s

\* A bit below the d low ones is a bit of those.
LEMMA LowBit ==
  ASSUME NEW k \in Nat, NEW a \in Nat, NEW d \in Nat, a < d
  PROVE  Bit(k % Shift[d], a) <=> Bit(k, a)
<1> DEFINE i == k % Shift[d]
<1>1. i \in Nat /\ i % Shift[a] = k % Shift[a] /\ i % Shift[a + 1] = k % Shift[a + 1]
  <2>1. i \in Indices(d) /\ i % Shift[a] = k % Shift[a]
    BY LowLow
  <2>2. i % Shift[a + 1] = k % Shift[a + 1]
    BY LowLow
  <2>3. Indices(d) \subseteq Nat
    BY ShiftFacts DEF Indices
  <2> QED BY <2>1, <2>2, <2>3
<1> HIDE DEF i
<1>2. Bit(i, a) <=> Bit(k, a)
  BY <1>1, LowSplit
<1> QED BY <1>2 DEF i

\* Of the indices that agree on their a low bits, below 2^d, some have the next bit and
\* some have not.
LEMMA BothHalves ==
  ASSUME NEW d \in Nat, NEW a \in Nat, a < d, NEW i \in Indices(d)
  PROVE  /\ i \in Nat
         /\ \E j \in Indices(d) : j % Shift[a] = i % Shift[a] /\ Bit(j, a)
         /\ \E j \in Indices(d) : j % Shift[a] = i % Shift[a] /\ ~Bit(j, a)
<1>1. /\ Shift[a] \in Nat \ {0} /\ Shift[a + 1] = 2 * Shift[a]
      /\ Shift[a + 1] <= Shift[d] /\ Shift[d] \in Nat
  BY ShiftFacts, ShiftGrows
<1>2. i \in Nat
  BY <1>1 DEF Indices
<1> DEFINE n == Shift[a]
           r == i % Shift[a]
<1>3. n \in Nat \ {0} /\ r \in 0 .. n - 1
  BY <1>1, <1>2, DivFacts
<1>4. r \in Indices(d) /\ r + n \in Indices(d)
  BY <1>1, <1>3 DEF Indices
<1> HIDE DEF r
<1>5. r % n = r /\ r \div n = 0
  <2>1. r \in Nat /\ r = n * 0 + r
    BY <1>3
  <2> HIDE DEF n
  <2> QED BY <1>3, <2>1, DivUnique
<1>6. (r + n) % n = r /\ (r + n) \div n = 1
  <2> DEFINE m == r + n
  <2>1. r \in Nat /\ m \in Nat /\ m = n * 1 + r
    BY <1>3
  <2> HIDE DEF n, m
  <2>2. m % n = r /\ m \div n = 1
    BY <1>3, <2>1, DivUnique
  <2> QED BY <2>2 DEF m
<1>7. ~Bit(r, a) /\ Bit(r + n, a)
  BY <1>5, <1>6 DEF Bit
<1> QED BY <1>2, <1>4, <1>5, <1>6, <1>7 DEF r

-----------------------------------------------------------------------------
(* The inductive invariant. *)

Maps == UNION {[S -> Values] : S \in SUBSET Keys}

Bucket == [localDepth : Nat, dataMap : Maps]

Types ==
  /\ mGlobalDepth \in 0 .. MaxDepth
  /\ buckets \in Seq(Bucket)
  /\ \A b \in 1 .. Len(buckets) : buckets[b].localDepth <= mGlobalDepth
  /\ mBuckets \in [Indices(mGlobalDepth) -> 1 .. Len(buckets)]
  /\ mLatch \in Threads \cup {Free}
  /\ latch \in Seq(Threads \cup {Free})
  /\ Len(latch) = Len(buckets)
  /\ pc \in [Threads -> Points]
  /\ call \in [Threads -> Calls]
  /\ index \in [Threads -> Nat]
  /\ cur \in [Threads -> Nat]
  /\ \A t \in Threads : index[t] \in Indices(mGlobalDepth) /\ cur[t] \in 1 .. Len(buckets)
  /\ answer \in [Threads -> Values \cup {NotFound, "removed"}]
  /\ raced \subseteq Keys

\* A thread holds mLatch between the two halves of its split, and at most one bucket's
\* latch: that of cur, and never while it waits for another bucket.
Latches ==
  /\ \A t \in Threads : pc[t] = "repoint" <=> mLatch = t
  /\ \A t \in Threads : pc[t] \in {"split", "repoint", "seek", "erase"} => latch[cur[t]] = t
  /\ \A b \in 1 .. Len(latch), t \in Threads :
       latch[b] = t =>
         /\ cur[t] = b
         /\ pc[t] \in {"index", "fetch", "split", "repoint", "seek", "erase"}
         /\ call[t].op # "Find"
  /\ \A t \in Threads : pc[t] = "split" => buckets[cur[t]].localDepth < MaxDepth

\* The low bits that the indices of bucket b agree on.  A bucket whose split is half done
\* is one deeper already, but has the indices it had.
Depth(b) ==
  buckets[b].localDepth - (IF mLatch # Free /\ b = cur[mLatch] THEN 1 ELSE 0)

\* The buckets the directory leads to: a new one is not there before the second half.
Reached == 1 .. Len(buckets) - (IF mLatch = Free THEN 0 ELSE 1)

Shape ==
  /\ mLatch # Free =>
       /\ cur[mLatch] < Len(buckets)
       /\ buckets[cur[mLatch]].localDepth > 0
       /\ buckets[Len(buckets)].localDepth = buckets[cur[mLatch]].localDepth
  /\ \A i \in DOMAIN mBuckets : mBuckets[i] \in Reached
  /\ \A b \in Reached : \E i \in DOMAIN mBuckets : mBuckets[i] = b
  /\ \A i, j \in DOMAIN mBuckets :
       mBuckets[i] = mBuckets[j] <=>
         i % Shift[Depth(mBuckets[i])] = j % Shift[Depth(mBuckets[i])]

\* The bucket that key k belongs to: the one its hash leads to or, if that one's split is
\* half done and k has the bit, the new one.
Home(k) ==
  LET b == mBuckets[IndexOf(k)] IN
  IF mLatch # Free /\ b = cur[mLatch] /\ Bit(k, Depth(b)) THEN Len(buckets) ELSE b

Places ==
  \A b \in 1 .. Len(buckets) :
    \A k \in DOMAIN buckets[b].dataMap : k \notin raced => b = Home(k)

HashInv == Types /\ Latches /\ Shape /\ Places

\* With one thread a call finds the directory as it left it.
Alone ==
  \A t \in Threads :
    /\ pc[t] \in {"fetch", "lock", "seek", "erase", "found"} => index[t] = IndexOf(Key(t))
    /\ pc[t] \in {"lock", "seek", "erase"} => cur[t] = Current(t)
    /\ pc[t] = "found" =>
         call[t].op = "Find" /\ Key(t) \in DOMAIN buckets[Current(t)].dataMap
    /\ pc[t] = "erase" =>
         call[t].op = "Remove" /\ Key(t) \in DOMAIN buckets[Current(t)].dataMap
    /\ pc[t] = "seek" => call[t].op = "Remove"

Sizes ==
  \A b \in 1 .. Len(buckets) : Cardinality(DOMAIN buckets[b].dataMap) <= BucketSize

SerialInv == HashInv /\ Alone /\ Sizes /\ raced = {}

USE HashAssumption

LEMMA MapFacts ==
  ASSUME NEW f \in Maps, NEW k \in Keys, NEW v \in Values
  PROVE  /\ DOMAIN f \subseteq Keys
         /\ \A j \in DOMAIN f : f[j] \in Values
         /\ Inserted(f, k, v) \in Maps /\ DOMAIN Inserted(f, k, v) = DOMAIN f \cup {k}
         /\ \A j \in DOMAIN f : Inserted(f, k, v)[j] = f[j]
         /\ k \in DOMAIN f => Inserted(f, k, v) = f
         /\ k \notin DOMAIN f => Inserted(f, k, v)[k] = v
         /\ Without(f, k) \in Maps /\ DOMAIN Without(f, k) = DOMAIN f \ {k}
         /\ \A j \in DOMAIN f \ {k} : Without(f, k)[j] = f[j]
<1>1. PICK S \in SUBSET Keys : f \in [S -> Values]
  BY DEF Maps
<1>2. /\ With(f, k, v) \in [S \cup {k} -> Values]
      /\ S \cup {k} \in SUBSET Keys /\ S \ {k} \in SUBSET Keys
      /\ Without(f, k) \in [S \ {k} -> Values]
  BY <1>1 DEF With, Without
<1>3. With(f, k, v) \in Maps /\ Without(f, k) \in Maps
  BY <1>2, Zenon DEF Maps
<1>4. Inserted(f, k, v) \in Maps
  BY <1>3 DEF Inserted
<1>5. /\ DOMAIN Inserted(f, k, v) = DOMAIN f \cup {k}
      /\ \A j \in DOMAIN f : Inserted(f, k, v)[j] = f[j]
      /\ k \in DOMAIN f => Inserted(f, k, v) = f
      /\ k \notin DOMAIN f => Inserted(f, k, v)[k] = v
  BY DEF Inserted, With
<1>6. /\ DOMAIN Without(f, k) = DOMAIN f \ {k}
      /\ \A j \in DOMAIN f \ {k} : Without(f, k)[j] = f[j]
  BY DEF Without
<1> QED BY <1>1, <1>3, <1>4, <1>5, <1>6

\* A part of a map.
LEMMA PartFacts ==
  ASSUME NEW f \in Maps, NEW S \in SUBSET DOMAIN f
  PROVE  [k \in S |-> f[k]] \in Maps
<1>1. PICK D \in SUBSET Keys : f \in [D -> Values]
  BY DEF Maps
<1>2. S \in SUBSET Keys /\ [k \in S |-> f[k]] \in [S -> Values]
  BY <1>1
<1> QED BY <1>2, Zenon DEF Maps

LEMMA NoCallType == NoCall \in Calls
<1>1. \E o \in Ops, k \in Keys : TRUE
  OBVIOUS
<1>2. PICK o \in Ops, k \in Keys : TRUE
  BY <1>1
<1>3. [op |-> o, key |-> k, value |-> Default] \in Calls
  BY DEF Calls
<1> QED BY <1>3, Zenon DEF NoCall

LEMMA BucketFacts ==
  ASSUME Types, NEW b \in 1 .. Len(buckets)
  PROVE  /\ buckets[b] \in Bucket
         /\ buckets[b].localDepth \in Nat
         /\ buckets[b].localDepth <= mGlobalDepth
         /\ buckets[b].dataMap \in Maps
         /\ DOMAIN buckets[b].dataMap \subseteq Keys
<1>1. buckets[b] \in Bucket
  BY DEF Types
<1>2. buckets[b].localDepth \in Nat /\ buckets[b].dataMap \in Maps
  BY <1>1 DEF Bucket
<1>3. DOMAIN buckets[b].dataMap \subseteq Keys
  BY <1>2 DEF Maps
<1> QED BY <1>1, <1>2, <1>3 DEF Types

LEMMA IndexFacts ==
  ASSUME Types, NEW t \in Threads
  PROVE  /\ Key(t) \in Keys /\ Key(t) \in Nat
         /\ call[t].value \in Values
         /\ \A k \in Nat : IndexOf(k) \in Indices(mGlobalDepth)
         /\ \A k \in Nat : mBuckets[IndexOf(k)] \in 1 .. Len(buckets)
         /\ Current(t) \in 1 .. Len(buckets)
         /\ DOMAIN mBuckets = Indices(mGlobalDepth)
         /\ Indices(mGlobalDepth) \subseteq Nat
         /\ mGlobalDepth \in Nat
<1>1. mGlobalDepth \in Nat
  BY DEF Types
<1>2. \A k \in Nat : IndexOf(k) \in Indices(mGlobalDepth)
  BY <1>1, LowLow DEF IndexOf
<1>3. call[t] \in Calls
  BY DEF Types
<1>4. Indices(mGlobalDepth) \subseteq Nat
  BY <1>1, ShiftFacts DEF Indices
<1> QED BY <1>1, <1>2, <1>3, <1>4 DEF Types, Key, Current, Calls

\* 0 is an index of every directory, and 1 is the position of a bucket.
LEMMA FirstIndex ==
  ASSUME Types
  PROVE  0 \in Indices(mGlobalDepth) /\ 1 \in 1 .. Len(buckets)
<1>1. mGlobalDepth \in Nat /\ Len(buckets) \in Nat
  BY DEF Types
<1>2. 0 \in Indices(mGlobalDepth)
  <2>1. Shift[mGlobalDepth] \in Nat \ {0}
    BY <1>1, ShiftFacts
  <2> QED BY <2>1 DEF Indices
<1>3. mBuckets[0] \in 1 .. Len(buckets)
  BY <1>2 DEF Types
<1> QED BY <1>1, <1>2, <1>3

-----------------------------------------------------------------------------
(* Steps that leave the directory alone. *)

\* The bucket that is being split is the same after a step of another thread.
SameSplit ==
  /\ mLatch' = mLatch
  /\ mLatch # Free => cur'[mLatch] = cur[mLatch]

SameDirectory ==
  /\ UNCHANGED <<mGlobalDepth, mBuckets>>
  /\ SameSplit
  /\ Len(buckets') = Len(buckets)
  /\ \A b \in 1 .. Len(buckets) : buckets'[b].localDepth = buckets[b].localDepth

LEMMA ShapeKept ==
  ASSUME Types, Shape, SameDirectory
  PROVE  Shape'
<1>1. /\ DOMAIN mBuckets' = DOMAIN mBuckets
      /\ \A i \in DOMAIN mBuckets : mBuckets'[i] = mBuckets[i] /\ mBuckets[i] \in 1 .. Len(buckets)
  BY DEF SameDirectory, Types
<1>2. Reached' = Reached
  BY DEF Reached, SameDirectory, SameSplit
<1>3. \A b \in 1 .. Len(buckets) : Depth(b)' = Depth(b)
  BY DEF Depth, SameDirectory, SameSplit
<1>4. ASSUME mLatch' # Free
      PROVE  /\ cur'[mLatch'] < Len(buckets')
             /\ buckets'[cur'[mLatch']].localDepth > 0
             /\ buckets'[Len(buckets')].localDepth = buckets'[cur'[mLatch']].localDepth
  <2>1. /\ mLatch # Free /\ mLatch' = mLatch /\ cur'[mLatch] = cur[mLatch]
        /\ mLatch \in Threads /\ cur[mLatch] \in 1 .. Len(buckets)
        /\ Len(buckets') = Len(buckets) /\ Len(buckets) \in 1 .. Len(buckets)
    BY <1>4, FirstIndex DEF SameDirectory, SameSplit, Types
  <2> QED BY <2>1 DEF SameDirectory, Shape
<1>5. ASSUME NEW i \in DOMAIN mBuckets, NEW j \in DOMAIN mBuckets
      PROVE  mBuckets'[i] = mBuckets'[j] <=>
               i % Shift[Depth(mBuckets[i])'] = j % Shift[Depth(mBuckets[i])']
  <2>1. PICK b \in 1 .. Len(buckets) : b = mBuckets[i] /\ mBuckets'[i] = b
    BY <1>1
  <2>2. Depth(b)' = Depth(b)
    BY <1>3
  <2> QED BY <1>1, <2>1, <2>2 DEF Shape
<1> QED BY <1>1, <1>2, <1>4, <1>5 DEF Shape

LEMMA HomesKept ==
  ASSUME Types, SameDirectory, NEW k \in Keys
  PROVE  Home(k)' = Home(k)
<1>1. mBuckets[IndexOf(k)] \in 1 .. Len(buckets)
  <2>1. k \in Nat /\ mGlobalDepth \in Nat
    BY DEF Types
  <2>2. IndexOf(k) \in Indices(mGlobalDepth)
    BY <2>1, LowLow DEF IndexOf
  <2> QED BY <2>2 DEF Types
<1>2. PICK b \in 1 .. Len(buckets) : b = mBuckets[IndexOf(k)]
  BY <1>1
<1>3. mBuckets'[IndexOf(k)'] = b
  BY <1>2 DEF SameDirectory, IndexOf
<1>4. Depth(b)' = Depth(b)
  BY DEF Depth, SameDirectory, SameSplit
<1> QED BY <1>2, <1>3, <1>4 DEF Home, SameDirectory, SameSplit

-----------------------------------------------------------------------------
(* Types and latches. *)

\* What Return does to the locals.
LEMMA ReturnFacts ==
  ASSUME Types, NEW t \in Threads, Return(t)
  PROVE  /\ pc' = [pc EXCEPT ![t] = "idle"] /\ pc' \in [Threads -> Points]
         /\ call' \in [Threads -> Calls]
         /\ index' \in [Threads -> Nat] /\ cur' \in [Threads -> Nat]
         /\ \A u \in Threads \ {t} :
              index'[u] = index[u] /\ cur'[u] = cur[u] /\ call'[u] = call[u]
         /\ index'[t] = 0 /\ cur'[t] = 1
         /\ \A u \in Threads : index'[u] \in Indices(mGlobalDepth) /\ cur'[u] \in 1 .. Len(buckets)
<1>1. /\ pc' = [pc EXCEPT ![t] = "idle"]
      /\ call' = [call EXCEPT ![t] = NoCall]
      /\ index' = [index EXCEPT ![t] = 0]
      /\ cur' = [cur EXCEPT ![t] = 1]
  BY DEF Return, GoTo
<1>2. 0 \in Indices(mGlobalDepth) /\ 1 \in 1 .. Len(buckets) /\ NoCall \in Calls
  BY FirstIndex, NoCallType
<1> QED BY <1>1, <1>2 DEF Types, Points

\* A bucket gets another map, and nothing else of the table changes.
LEMMA MapChange ==
  ASSUME Types, NEW b \in 1 .. Len(buckets), NEW f \in Maps,
         buckets' = [buckets EXCEPT ![b].dataMap = f]
  PROVE  /\ buckets' \in Seq(Bucket) /\ Len(buckets') = Len(buckets)
         /\ \A c \in 1 .. Len(buckets) :
              /\ buckets'[c].localDepth = buckets[c].localDepth
              /\ c # b => buckets'[c] = buckets[c]
         /\ buckets'[b].dataMap = f
<1>1. buckets[b] \in Bucket
  BY BucketFacts
<1> DEFINE new == [buckets[b] EXCEPT !.dataMap = f]
<1>2. new \in Bucket /\ new.localDepth = buckets[b].localDepth /\ new.dataMap = f
  BY <1>1 DEF Bucket
<1>3. buckets' = [buckets EXCEPT ![b] = new]
  BY DEF Types
<1> HIDE DEF new
<1>4. buckets \in Seq(Bucket)
  BY DEF Types
<1>5. /\ buckets' \in Seq(Bucket) /\ Len(buckets') = Len(buckets)
      /\ \A c \in 1 .. Len(buckets) : buckets'[c] = IF c = b THEN new ELSE buckets[c]
  BY <1>2, <1>3, <1>4
<1> QED BY <1>2, <1>5

LEMMA CallTypes ==
  ASSUME Types, NEW t \in Threads, Call(t)
  PROVE  Types'
<1>1. PICK c \in Calls : call' = [call EXCEPT ![t] = c]
  BY DEF Call
<1>2. call' \in [Threads -> Calls]
  BY <1>1 DEF Types
<1>3. pc' \in [Threads -> Points]
  BY DEF Types, Call, GoTo, Points
<1> QED BY <1>2, <1>3 DEF Types, Call, tableVars

LEMMA GetBucketIndexTypes ==
  ASSUME Types, NEW t \in Threads, GetBucketIndex(t)
  PROVE  Types'
<1>1. PICK i \in Indices(mGlobalDepth) : i = IndexOf(Key(t)) /\ i \in Nat
  BY IndexFacts
<1>2. index' = [index EXCEPT ![t] = i]
  BY <1>1 DEF GetBucketIndex
<1>3. pc' \in [Threads -> Points]
  BY DEF Types, GetBucketIndex, GoTo, Points
<1>4. UNCHANGED <<mGlobalDepth, mBuckets, buckets, raced, mLatch, latch, call, cur, answer>>
  BY DEF GetBucketIndex, tableVars
<1> QED BY <1>1, <1>2, <1>3, <1>4 DEF Types

LEMMA ReleaseFacts ==
  ASSUME Types, NEW t \in Threads, ReleaseOldLatch(t)
  PROVE  /\ latch' \in Seq(Threads \cup {Free}) /\ Len(latch') = Len(latch)
         /\ \A b \in 1 .. Len(latch) : latch'[b] = IF latch[b] = t THEN Free ELSE latch[b]
<1>1. DOMAIN latch = 1 .. Len(latch) /\ Len(latch) \in Nat
  BY DEF Types
<1>2. latch' = [b \in 1 .. Len(latch) |-> IF latch[b] = t THEN Free ELSE latch[b]]
  BY <1>1 DEF ReleaseOldLatch
<1>3. \A b \in 1 .. Len(latch) : latch[b] \in Threads \cup {Free}
  BY DEF Types
<1> QED BY <1>1, <1>2, <1>3

LEMMA FetchBucketTypes ==
  ASSUME Types, NEW t \in Threads, FetchBucket(t)
  PROVE  Types'
<1>1. PICK b \in 1 .. Len(buckets) : b = Current(t)
  BY IndexFacts
<1>2. cur' = [cur EXCEPT ![t] = b] /\ b \in Nat
  BY <1>1 DEF FetchBucket
<1>3. pc' \in [Threads -> Points]
  BY DEF Types, FetchBucket, GoTo, Points
<1>4. latch' \in Seq(Threads \cup {Free}) /\ Len(latch') = Len(latch)
  BY ReleaseFacts DEF FetchBucket
<1>5. UNCHANGED <<mGlobalDepth, mBuckets, buckets, raced, mLatch, call, index, answer>>
  BY DEF FetchBucket, tableVars
<1> QED BY <1>1, <1>2, <1>3, <1>4, <1>5 DEF Types

LEMMA LatchChange ==
  ASSUME Types, NEW t \in Threads, NEW u \in Threads \cup {Free},
         latch' = [latch EXCEPT ![cur[t]] = u]
  PROVE  /\ latch' \in Seq(Threads \cup {Free}) /\ Len(latch') = Len(latch)
         /\ cur[t] \in 1 .. Len(latch)
         /\ \A b \in 1 .. Len(latch) : latch'[b] = IF b = cur[t] THEN u ELSE latch[b]
<1>1. cur[t] \in 1 .. Len(latch)
  BY DEF Types
<1> QED BY <1>1 DEF Types

LEMMA LockTypes ==
  ASSUME Types, NEW t \in Threads, LockFull(t) \/ LockForRemove(t) \/ LoopAtBound(t)
  PROVE  Types'
<1>1. pc' \in [Threads -> Points]
  BY DEF Types, LockFull, LockForRemove, LoopAtBound, GoTo, Points
<1>2. latch' \in Seq(Threads \cup {Free}) /\ Len(latch') = Len(latch)
  BY LatchChange DEF LockFull, LockForRemove, LoopAtBound, Types
<1>3. UNCHANGED <<tableVars, mLatch, call, index, cur, answer>>
  BY DEF LockFull, LockForRemove, LoopAtBound
<1> QED BY <1>1, <1>2, <1>3 DEF Types, tableVars

\* What an insertion, an erasure and operator[] do to the bucket they are in.
LEMMA InsertPairFacts ==
  ASSUME Types, NEW t \in Threads, InsertPair(t)
  PROVE  LET f == buckets[cur[t]].dataMap IN
         /\ f \in Maps /\ cur[t] \in 1 .. Len(buckets)
         /\ Inserted(f, Key(t), call[t].value) \in Maps
         /\ buckets' = [buckets EXCEPT ![cur[t]].dataMap = Inserted(f, Key(t), call[t].value)]
<1>1. cur[t] \in 1 .. Len(buckets) /\ buckets[cur[t]].dataMap \in Maps
  BY BucketFacts DEF Types
<1>2. buckets' = [buckets EXCEPT ![cur[t]].dataMap =
                    Inserted(buckets[cur[t]].dataMap, Key(t), call[t].value)]
  BY <1>1 DEF InsertPair, Types
<1> QED BY <1>1, <1>2, MapFacts, IndexFacts

LEMMA EraseKeyFacts ==
  ASSUME Types, NEW t \in Threads, EraseKey(t)
  PROVE  LET f == buckets[Current(t)].dataMap IN
         /\ f \in Maps /\ Current(t) \in 1 .. Len(buckets)
         /\ Without(f, Key(t)) \in Maps
         /\ buckets' = [buckets EXCEPT ![Current(t)].dataMap = Without(f, Key(t))]
<1>1. Current(t) \in 1 .. Len(buckets) /\ buckets[Current(t)].dataMap \in Maps
  BY BucketFacts, IndexFacts
<1>2. buckets' = [buckets EXCEPT ![Current(t)].dataMap =
                    Without(buckets[Current(t)].dataMap, Key(t))]
  BY <1>1 DEF EraseKey, Types
<1> QED BY <1>1, <1>2, MapFacts, IndexFacts

LEMMA FindValueFacts ==
  ASSUME Types, NEW t \in Threads, FindValue(t)
  PROVE  LET f == buckets[Current(t)].dataMap IN
         /\ f \in Maps /\ Current(t) \in 1 .. Len(buckets)
         /\ Inserted(f, Key(t), Default) \in Maps
         /\ buckets' = [buckets EXCEPT ![Current(t)].dataMap = Inserted(f, Key(t), Default)]
<1>1. Current(t) \in 1 .. Len(buckets) /\ buckets[Current(t)].dataMap \in Maps
  BY BucketFacts, IndexFacts
<1>2. buckets' = [buckets EXCEPT ![Current(t)].dataMap =
                    Inserted(buckets[Current(t)].dataMap, Key(t), Default)]
  BY <1>1 DEF FindValue, Types
<1> QED BY <1>1, <1>2, MapFacts, IndexFacts

LEMMA AnswerType ==
  ASSUME Types, NEW t \in Threads, NEW a \in Values \cup {NotFound, "removed"}, Answer(t, a)
  PROVE  answer' \in [Threads -> Values \cup {NotFound, "removed"}]
BY DEF Types, Answer

LEMMA InsertPairTypes ==
  ASSUME Types, NEW t \in Threads, InsertPair(t)
  PROVE  Types'
<1>1. PICK b \in 1 .. Len(buckets), f \in Maps : buckets' = [buckets EXCEPT ![b].dataMap = f]
  BY InsertPairFacts
<1>2. /\ buckets' \in Seq(Bucket) /\ Len(buckets') = Len(buckets)
      /\ \A c \in 1 .. Len(buckets) : buckets'[c].localDepth = buckets[c].localDepth
  BY <1>1, MapChange
<1>3. raced' \subseteq Keys
  BY IndexFacts DEF InsertPair, Types
<1>4. Return(t)
  BY DEF InsertPair
<1>5. /\ pc' \in [Threads -> Points] /\ call' \in [Threads -> Calls]
      /\ index' \in [Threads -> Nat] /\ cur' \in [Threads -> Nat]
      /\ \A u \in Threads : index'[u] \in Indices(mGlobalDepth) /\ cur'[u] \in 1 .. Len(buckets)
  BY <1>4, ReturnFacts
<1>6. UNCHANGED <<mGlobalDepth, mBuckets, mLatch, latch, answer>>
  BY DEF InsertPair
<1> QED BY <1>2, <1>3, <1>5, <1>6 DEF Types

LEMMA EraseKeyTypes ==
  ASSUME Types, NEW t \in Threads, EraseKey(t)
  PROVE  Types'
<1>1. PICK b \in 1 .. Len(buckets), f \in Maps : buckets' = [buckets EXCEPT ![b].dataMap = f]
  BY EraseKeyFacts
<1>2. /\ buckets' \in Seq(Bucket) /\ Len(buckets') = Len(buckets)
      /\ \A c \in 1 .. Len(buckets) : buckets'[c].localDepth = buckets[c].localDepth
  BY <1>1, MapChange
<1>3. answer' \in [Threads -> Values \cup {NotFound, "removed"}]
  BY AnswerType DEF EraseKey
<1>4. latch' \in Seq(Threads \cup {Free}) /\ Len(latch') = Len(latch)
  BY LatchChange DEF EraseKey, Unlock
<1>5. Return(t)
  BY DEF EraseKey
<1>6. /\ pc' \in [Threads -> Points] /\ call' \in [Threads -> Calls]
      /\ index' \in [Threads -> Nat] /\ cur' \in [Threads -> Nat]
      /\ \A u \in Threads : index'[u] \in Indices(mGlobalDepth) /\ cur'[u] \in 1 .. Len(buckets)
  BY <1>5, ReturnFacts
<1>7. UNCHANGED <<mGlobalDepth, mBuckets, mLatch, raced>>
  BY DEF EraseKey
<1> QED BY <1>2, <1>3, <1>4, <1>6, <1>7 DEF Types

LEMMA SeekKeyTypes ==
  ASSUME Types, NEW t \in Threads, SeekKey(t)
  PROVE  Types'
<1>1. CASE GoTo(t, "erase") /\ UNCHANGED <<latch, call, index, cur, answer>>
  <2>1. pc' \in [Threads -> Points]
    BY <1>1 DEF Types, GoTo, Points
  <2> QED BY <1>1, <2>1 DEF Types, SeekKey, tableVars
<1>2. CASE Return(t) /\ Answer(t, NotFound) /\ Unlock(t)
  <2>1. answer' \in [Threads -> Values \cup {NotFound, "removed"}]
    BY <1>2, AnswerType
  <2>2. latch' \in Seq(Threads \cup {Free}) /\ Len(latch') = Len(latch)
    BY <1>2, LatchChange DEF Unlock
  <2> QED BY <1>2, <2>1, <2>2, ReturnFacts DEF Types, SeekKey, tableVars
<1> QED BY <1>1, <1>2 DEF SeekKey

LEMMA FindKeyTypes ==
  ASSUME Types, NEW t \in Threads, FindKey(t)
  PROVE  Types'
<1>1. CASE GoTo(t, "found") /\ UNCHANGED <<call, index, cur, answer>>
  <2>1. pc' \in [Threads -> Points]
    BY <1>1 DEF Types, GoTo, Points
  <2> QED BY <1>1, <2>1 DEF Types, FindKey, tableVars
<1>2. CASE Return(t) /\ Answer(t, NotFound)
  <2>1. answer' \in [Threads -> Values \cup {NotFound, "removed"}]
    BY <1>2, AnswerType
  <2> QED BY <1>2, <2>1, ReturnFacts DEF Types, FindKey, tableVars
<1> QED BY <1>1, <1>2 DEF FindKey

LEMMA FindValueTypes ==
  ASSUME Types, NEW t \in Threads, FindValue(t)
  PROVE  Types'
<1>1. PICK b \in 1 .. Len(buckets), f \in Maps :
        /\ b = Current(t)
        /\ f = Inserted(buckets[b].dataMap, Key(t), Default)
        /\ buckets[b].dataMap \in Maps
        /\ buckets' = [buckets EXCEPT ![b].dataMap = f]
  BY FindValueFacts
<1>2. /\ buckets' \in Seq(Bucket) /\ Len(buckets') = Len(buckets)
      /\ \A c \in 1 .. Len(buckets) : buckets'[c].localDepth = buckets[c].localDepth
      /\ buckets'[b].dataMap = f
  BY <1>1, MapChange
<1>3. f[Key(t)] \in Values
  <2> DEFINE g == buckets[b].dataMap
  <2>1. g \in Maps /\ Key(t) \in Keys /\ Default \in Values /\ f = Inserted(g, Key(t), Default)
    BY <1>1, IndexFacts
  <2> HIDE DEF g
  <2>2. DOMAIN Inserted(g, Key(t), Default) = DOMAIN g \cup {Key(t)}
    BY <2>1, MapFacts
  <2>3. Key(t) \in DOMAIN f
    BY <2>1, <2>2
  <2> QED BY <2>1, <2>3, MapFacts
<1>4. answer' \in [Threads -> Values \cup {NotFound, "removed"}]
  BY <1>1, <1>2, <1>3, AnswerType DEF FindValue
<1>5. raced' \subseteq Keys
  BY IndexFacts DEF FindValue, Types
<1>6. Return(t)
  BY DEF FindValue
<1>7. /\ pc' \in [Threads -> Points] /\ call' \in [Threads -> Calls]
      /\ index' \in [Threads -> Nat] /\ cur' \in [Threads -> Nat]
      /\ \A u \in Threads : index'[u] \in Indices(mGlobalDepth) /\ cur'[u] \in 1 .. Len(buckets)
  BY <1>6, ReturnFacts
<1>8. UNCHANGED <<mGlobalDepth, mBuckets, mLatch, latch>>
  BY DEF FindValue
<1> QED BY <1>2, <1>4, <1>5, <1>7, <1>8 DEF Types

-----------------------------------------------------------------------------
(* The two halves of a split. *)

\* An index of the directory is its own low bits.
LEMMA LowIndex ==
  ASSUME NEW d \in Nat, NEW i \in Indices(d)
  PROVE  i % Shift[d] = i /\ i \in Nat
<1>1. Shift[d] \in Nat \ {0}
  BY ShiftFacts
<1> DEFINE n == Shift[d]
<1>2. n \in Nat \ {0} /\ i \in 0 .. n - 1 /\ i = n * 0 + i
  BY <1>1 DEF Indices
<1> HIDE DEF n
<1>3. i % n = i
  BY <1>2, DivUnique
<1> QED BY <1>2, <1>3 DEF n

\* The first half.  The directory, doubled or not, leads from an index to where it led
\* from the low bits of the index.
LEMMA SplitDirectory ==
  ASSUME Types, NEW t \in Threads, SplitBucket(t),
         NEW d \in Nat, d = buckets[cur[t]].localDepth
  PROVE  /\ mGlobalDepth' = IF d = mGlobalDepth THEN mGlobalDepth + 1 ELSE mGlobalDepth
         /\ mGlobalDepth \in Nat /\ mGlobalDepth' \in Nat
         /\ d <= mGlobalDepth /\ d + 1 <= mGlobalDepth' /\ mGlobalDepth <= mGlobalDepth'
         /\ mBuckets' \in [Indices(mGlobalDepth') -> 1 .. Len(buckets)]
         /\ \A i \in Indices(mGlobalDepth') :
              /\ i % Shift[mGlobalDepth] \in Indices(mGlobalDepth)
              /\ mBuckets'[i] = mBuckets[i % Shift[mGlobalDepth]]
         /\ \A i \in Indices(mGlobalDepth) : i \in Indices(mGlobalDepth')
<1>1. cur[t] \in 1 .. Len(buckets) /\ mGlobalDepth \in Nat /\ d <= mGlobalDepth
  BY DEF Types
<1>2. mGlobalDepth' = IF d = mGlobalDepth THEN mGlobalDepth + 1 ELSE mGlobalDepth
  BY <1>1 DEF SplitBucket
<1>3. PICK g \in Nat : g = mGlobalDepth
  BY <1>1
<1>4. PICK h \in Nat : h = mGlobalDepth' /\ h >= g
  BY <1>2, <1>3
<1>5. \A i \in Indices(h) : i \in Nat /\ i % Shift[g] \in Indices(g)
  BY <1>4, LowIndex, LowLow
<1>6. \A i \in Indices(g) : i \in Indices(h)
  <2>1. Shift[g] <= Shift[h] /\ Shift[g] \in Nat /\ Shift[h] \in Nat
    BY <1>4, ShiftGrows, ShiftFacts
  <2> QED BY <2>1 DEF Indices
<1>7. CASE d = g
  <2>1. h = g + 1 /\ mBuckets' = Doubled
    BY <1>1, <1>2, <1>3, <1>4, <1>7 DEF SplitBucket
  <2>2. mBuckets' = [i \in Indices(h) |-> mBuckets[i % Shift[g]]]
    BY <1>3, <2>1 DEF Doubled
  <2>3. mBuckets \in [Indices(g) -> 1 .. Len(buckets)]
    BY <1>3 DEF Types
  <2> QED BY <1>1, <1>2, <1>3, <1>4, <1>5, <1>6, <1>7, <2>1, <2>2, <2>3
<1>8. CASE d # g
  <2>1. h = g /\ mBuckets' = mBuckets
    BY <1>1, <1>2, <1>3, <1>4, <1>8 DEF SplitBucket
  <2>2. mBuckets \in [Indices(g) -> 1 .. Len(buckets)]
    BY <1>3 DEF Types
  <2>3. \A i \in Indices(h) : i % Shift[g] = i
    BY <2>1, LowIndex
  <2> QED BY <1>1, <1>2, <1>3, <1>4, <1>5, <1>6, <1>8, <2>1, <2>2, <2>3
<1> QED BY <1>7, <1>8

\* The bucket b, at depth d, of the n that there are is shared out between itself and a
\* new one, the last.
SharedOut(b, n, d) ==
  /\ n \in Nat /\ b \in 1 .. n /\ d \in Nat
  /\ buckets' \in Seq(Bucket) /\ Len(buckets') = n + 1
  /\ \A c \in 1 .. n : c # b => buckets'[c] = buckets[c]
  /\ buckets'[b].localDepth = d + 1 /\ buckets'[n + 1].localDepth = d + 1
  /\ \A k : k \in DOMAIN buckets'[b].dataMap
              <=> k \in DOMAIN buckets[b].dataMap /\ ~Bit(k, d)
  /\ \A k : k \in DOMAIN buckets'[n + 1].dataMap
              <=> k \in DOMAIN buckets[b].dataMap /\ Bit(k, d)
  /\ \A k \in DOMAIN buckets'[b].dataMap :
       buckets'[b].dataMap[k] = buckets[b].dataMap[k]
  /\ \A k \in DOMAIN buckets'[n + 1].dataMap :
       buckets'[n + 1].dataMap[k] = buckets[b].dataMap[k]
  /\ latch' \in Seq(Threads \cup {Free}) /\ Len(latch') = n + 1
  /\ \A c \in 1 .. n : latch'[c] = latch[c]
  /\ latch'[n + 1] = Free

LEMMA SplitFacts ==
  ASSUME Types, NEW t \in Threads, SplitBucket(t),
         NEW b, b = cur[t], NEW n, n = Len(buckets), NEW d, d = buckets[b].localDepth
  PROVE  SharedOut(b, n, d)
<1>1. n \in Nat /\ b \in 1 .. n /\ d \in Nat /\ buckets[b].dataMap \in Maps
  BY BucketFacts DEF Types
<1> DEFINE map == buckets[b].dataMap
           moved == {k \in DOMAIN map : Bit(k, d)}
           old == [localDepth |-> d + 1, dataMap |-> [k \in DOMAIN map \ moved |-> map[k]]]
           new == [localDepth |-> d + 1, dataMap |-> [k \in moved |-> map[k]]]
<1>2. old \in Bucket /\ new \in Bucket
  <2>1. DOMAIN map \ moved \in SUBSET DOMAIN map /\ moved \in SUBSET DOMAIN map
    OBVIOUS
  <2>2. [k \in DOMAIN map \ moved |-> map[k]] \in Maps /\ [k \in moved |-> map[k]] \in Maps
    <3> HIDE DEF map, moved
    <3>1. map \in Maps
      BY <1>1 DEF map
    <3> QED BY <2>1, <3>1, PartFacts
  <2> HIDE DEF map, moved
  <2> QED BY <1>1, <2>2 DEF Bucket
<1>3. buckets' = Append([buckets EXCEPT ![b] = old], new) /\ latch' = Append(latch, Free)
  BY DEF SplitBucket, SplitBit
<1>4. /\ old.localDepth = d + 1 /\ new.localDepth = d + 1
      /\ \A k : k \in DOMAIN old.dataMap <=> k \in DOMAIN map /\ ~Bit(k, d)
      /\ \A k : k \in DOMAIN new.dataMap <=> k \in DOMAIN map /\ Bit(k, d)
      /\ \A k \in DOMAIN old.dataMap : old.dataMap[k] = map[k]
      /\ \A k \in DOMAIN new.dataMap : new.dataMap[k] = map[k]
  OBVIOUS
<1> HIDE DEF old, new
<1>5. buckets \in Seq(Bucket) /\ latch \in Seq(Threads \cup {Free}) /\ Len(latch) = n
  BY DEF Types
<1>6. /\ latch' \in Seq(Threads \cup {Free}) /\ Len(latch') = n + 1
      /\ \A c \in 1 .. n : latch'[c] = latch[c]
      /\ latch'[n + 1] = Free
  BY <1>1, <1>3, <1>5
<1> DEFINE mid == [buckets EXCEPT ![b] = old]
<1>7. /\ mid \in Seq(Bucket) /\ Len(mid) = n /\ mid[b] = old
      /\ \A c \in 1 .. n : c # b => mid[c] = buckets[c]
  BY <1>1, <1>2, <1>5
<1>8. buckets' = Append(mid, new)
  BY <1>3
<1> HIDE DEF mid
<1>9. /\ buckets' \in Seq(Bucket) /\ Len(buckets') = n + 1
      /\ buckets'[n + 1] = new
      /\ \A c \in 1 .. n : buckets'[c] = mid[c]
  BY <1>1, <1>2, <1>7, <1>8
<1> QED BY <1>1, <1>4, <1>6, <1>7, <1>9 DEF SharedOut

LEMMA SplitBucketTypes ==
  ASSUME Types, Latches, NEW t \in Threads, SplitBucket(t)
  PROVE  Types'
<1>1. PICK b, n, d : b = cur[t] /\ n = Len(buckets) /\ d = buckets[b].localDepth
  OBVIOUS
<1>shared. SharedOut(b, n, d)
  BY <1>1, SplitFacts
<1>2. n \in Nat /\ b \in 1 .. n /\ d \in Nat /\ d < MaxDepth
  BY <1>1, <1>shared DEF SharedOut, Latches, SplitBucket
<1>3. /\ buckets' \in Seq(Bucket) /\ Len(buckets') = n + 1
      /\ \A c \in 1 .. n : c # b => buckets'[c] = buckets[c]
      /\ buckets'[b].localDepth = d + 1 /\ buckets'[n + 1].localDepth = d + 1
      /\ latch' \in Seq(Threads \cup {Free}) /\ Len(latch') = n + 1
  <2>1. /\ buckets' \in Seq(Bucket) /\ Len(buckets') = n + 1
        /\ \A c \in 1 .. n : c # b => buckets'[c] = buckets[c]
        /\ buckets'[b].localDepth = d + 1 /\ buckets'[n + 1].localDepth = d + 1
    BY <1>1, <1>shared DEF SharedOut
  <2>2. latch' \in Seq(Threads \cup {Free}) /\ Len(latch') = n + 1
    BY <1>1, <1>shared DEF SharedOut
  <2> QED BY <2>1, <2>2
<1>4. /\ mGlobalDepth' = IF d = mGlobalDepth THEN mGlobalDepth + 1 ELSE mGlobalDepth
      /\ mGlobalDepth \in Nat /\ d + 1 <= mGlobalDepth' /\ mGlobalDepth <= mGlobalDepth'
      /\ mBuckets' \in [Indices(mGlobalDepth') -> 1 .. n]
      /\ \A i \in Indices(mGlobalDepth) : i \in Indices(mGlobalDepth')
  BY <1>1, <1>2, SplitDirectory
<1>5. mGlobalDepth' \in 0 .. MaxDepth
  BY <1>2, <1>4 DEF Types
<1>6. \A c \in 1 .. n + 1 : buckets'[c].localDepth <= mGlobalDepth'
  <2> TAKE c \in 1 .. n + 1
  <2>1. CASE c = b \/ c = n + 1
    BY <1>3, <1>4, <2>1
  <2>2. CASE c \in 1 .. n /\ c # b
    <3>1. buckets[c].localDepth \in Nat /\ buckets[c].localDepth <= mGlobalDepth
      BY <1>1, <2>2, BucketFacts
    <3> QED BY <1>3, <1>4, <1>5, <2>2, <3>1
  <2> QED BY <1>2, <2>1, <2>2
<1>7. mBuckets' \in [Indices(mGlobalDepth') -> 1 .. n + 1]
  BY <1>2, <1>4
<1>8. pc' \in [Threads -> Points]
  BY DEF Types, SplitBucket, GoTo, Points
<1>9. /\ UNCHANGED <<call, index, cur, answer, raced>> /\ mLatch' = t
  BY DEF SplitBucket
<1>10. \A u \in Threads : index'[u] \in Indices(mGlobalDepth') /\ cur'[u] \in 1 .. Len(buckets')
  BY <1>1, <1>2, <1>3, <1>4, <1>9 DEF Types
<1> QED BY <1>3, <1>5, <1>6, <1>7, <1>8, <1>9, <1>10 DEF Types

\* The second half sends the indices with the bit to the new bucket.
LEMMA RepointFacts ==
  ASSUME Types, Latches, Shape, NEW t \in Threads, Repoint(t),
         NEW b, b = cur[t], NEW n, n = Len(buckets), NEW d, d = buckets[b].localDepth - 1
  PROVE  /\ mLatch = t /\ n \in Nat /\ b \in 1 .. n - 1 /\ d \in Nat
         /\ d < mGlobalDepth /\ mGlobalDepth \in Nat
         /\ buckets[b].localDepth = d + 1 /\ buckets[n].localDepth = d + 1
         /\ DOMAIN mBuckets = Indices(mGlobalDepth)
         /\ DOMAIN mBuckets' = Indices(mGlobalDepth)
         /\ mBuckets' \in [Indices(mGlobalDepth) -> 1 .. n]
         /\ \A i \in Indices(mGlobalDepth) :
              mBuckets'[i] = IF mBuckets[i] = b /\ Bit(i, d) THEN n ELSE mBuckets[i]
<1>1. pc[t] = "repoint" /\ mLatch = t /\ mLatch # Free /\ Free \notin Threads
  BY DEF Repoint, Latches
<1>2. n \in Nat /\ b \in 1 .. n /\ n \in 1 .. n /\ mGlobalDepth \in Nat
  BY FirstIndex DEF Types
<1>3. /\ buckets[b].localDepth \in Nat /\ buckets[b].localDepth <= mGlobalDepth
      /\ buckets[n].localDepth \in Nat
  BY <1>2, BucketFacts
<1>4. b < n /\ buckets[b].localDepth > 0 /\ buckets[n].localDepth = buckets[b].localDepth
  BY <1>1 DEF Shape
<1>5. DOMAIN mBuckets = Indices(mGlobalDepth)
      /\ \A i \in Indices(mGlobalDepth) : mBuckets[i] \in 1 .. n
  BY DEF Types
<1>6. mBuckets' = [i \in Indices(mGlobalDepth) |->
                     IF mBuckets[i] = b /\ Bit(i, d) THEN n ELSE mBuckets[i]]
  BY <1>5 DEF Repoint, MovedPointers
<1> QED BY <1>1, <1>2, <1>3, <1>4, <1>5, <1>6

LEMMA RepointTypes ==
  ASSUME Types, Latches, Shape, NEW t \in Threads, Repoint(t)
  PROVE  Types'
<1>1. mBuckets' \in [Indices(mGlobalDepth) -> 1 .. Len(buckets)]
  <2>1. PICK b, n, d : b = cur[t] /\ n = Len(buckets) /\ d = buckets[b].localDepth - 1
    OBVIOUS
  <2> QED BY <2>1, RepointFacts
<1>2. pc' \in [Threads -> Points]
  BY DEF Types, Repoint, GoTo, Points
<1> QED BY <1>1, <1>2 DEF Types, Repoint

LEMMA TypesStep ==
  ASSUME HashInv, [Next]_vars
  PROVE  Types'
<1>1. Types /\ Latches /\ Shape
  BY DEF HashInv
<1>2. ASSUME NEW t \in Threads, Call(t) \/ Step(t)
      PROVE  Types'
  BY <1>1, <1>2, CallTypes, GetBucketIndexTypes, FetchBucketTypes, InsertPairTypes, LockTypes,
     SplitBucketTypes, RepointTypes, SeekKeyTypes, EraseKeyTypes, FindKeyTypes, FindValueTypes DEF Step
<1>3. CASE UNCHANGED vars
  BY <1>1, <1>3 DEF Types, vars, tableVars
<1> QED BY <1>2, <1>3 DEF Next

\* The latches as thread u sees them.
LatchesOf(u) ==
  /\ pc[u] = "repoint" <=> mLatch = u
  /\ pc[u] \in {"split", "repoint", "seek", "erase"} => latch[cur[u]] = u
  /\ \A b \in 1 .. Len(latch) :
       latch[b] = u =>
         /\ cur[u] = b
         /\ pc[u] \in {"index", "fetch", "split", "repoint", "seek", "erase"}
         /\ call[u].op # "Find"
  /\ pc[u] = "split" => buckets[cur[u]].localDepth < MaxDepth

LEMMA LatchesAre == Latches <=> \A u \in Threads : LatchesOf(u)
BY DEF Latches, LatchesOf

LEMMA LatchesArePrime == Latches' <=> \A u \in Threads : LatchesOf(u)'
BY DEF Latches, LatchesOf

\* A step of t that moves no latch of another thread leaves what that thread sees.
LEMMA LatchesOfOthers ==
  ASSUME Types, Latches, NEW t \in Threads, NEW u \in Threads \ {t},
         pc'[u] = pc[u], cur'[u] = cur[u], call'[u] = call[u],
         mLatch' = u <=> mLatch = u,
         \A b \in 1 .. Len(latch') :
           (latch'[b] = u <=> b \in 1 .. Len(latch) /\ latch[b] = u),
         Len(latch') >= Len(latch), Len(latch') \in Nat,
         latch[cur[u]] = u => buckets'[cur[u]].localDepth = buckets[cur[u]].localDepth
  PROVE  LatchesOf(u)'
<1>1. LatchesOf(u) /\ cur[u] \in 1 .. Len(latch) /\ Len(latch) \in Nat
  BY LatchesAre DEF Types
<1>2. cur[u] \in 1 .. Len(latch')
  BY <1>1
<1> QED BY <1>1, <1>2 DEF LatchesOf

\* What holds for a step that leaves the buckets and latches as they are.
LEMMA LatchesQuietStep ==
  ASSUME Types, Latches, NEW t \in Threads,
         Call(t) \/ GetBucketIndex(t) \/ LoopAtBound(t) \/ FindKey(t)
  PROVE  Latches'
<1>1. LatchesOf(t)
  BY LatchesAre
<1>2. UNCHANGED <<latch, mLatch, buckets>>
  BY DEF Call, GetBucketIndex, LoopAtBound, FindKey, tableVars
<1>3. \A u \in Threads \ {t} : pc'[u] = pc[u] /\ cur'[u] = cur[u] /\ call'[u] = call[u]
  <2>1. CASE Call(t)
    BY <2>1 DEF Call, GoTo, Types
  <2>2. CASE GetBucketIndex(t)
    BY <2>2 DEF GetBucketIndex, GoTo, Types
  <2>3. CASE LoopAtBound(t)
    BY <2>3 DEF LoopAtBound, GoTo, Types
  <2>4. CASE FindKey(t)
    <3>1. CASE GoTo(t, "found") /\ UNCHANGED <<call, index, cur, answer>>
      BY <3>1 DEF GoTo, Types
    <3>2. CASE Return(t)
      BY <3>2, ReturnFacts DEF Types
    <3> QED BY <2>4, <3>1, <3>2 DEF FindKey
  <2> QED BY <2>1, <2>2, <2>3, <2>4
<1>4. \A u \in Threads \ {t} : LatchesOf(u)'
  <2> TAKE u \in Threads \ {t}
  <2>1. Len(latch) \in Nat
    BY DEF Types
  <2> QED BY <1>2, <1>3, <2>1, LatchesOfOthers
<1>5. pc[t] \in {"idle", "index", "lock", "fetch"}
  BY DEF Call, GetBucketIndex, LoopAtBound, FindKey, Calling
<1>6. pc'[t] \in {"index", "fetch", "found", "idle"}
  BY ReturnFacts DEF Call, GetBucketIndex, LoopAtBound, FindKey, GoTo, Types
<1>7. ASSUME NEW b \in 1 .. Len(latch), latch[b] = t
      PROVE  cur'[t] = b /\ pc'[t] \in {"index", "fetch"} /\ call'[t].op # "Find"
  <2>1. cur[t] = b /\ pc[t] \in {"index", "fetch"} /\ call[t].op # "Find"
    BY <1>1, <1>5, <1>7 DEF LatchesOf
  <2>2. GetBucketIndex(t)
    BY <2>1 DEF Call, LoopAtBound, FindKey, Calling
  <2> QED BY <2>1, <2>2 DEF GetBucketIndex, GoTo, Types
<1>8. mLatch # t
  BY <1>1, <1>5 DEF LatchesOf
<1>10. LatchesOf(t)'
  BY <1>2, <1>6, <1>7, <1>8 DEF LatchesOf
<1> QED BY <1>4, <1>10, LatchesArePrime

LEMMA FetchBucketLatches ==
  ASSUME Types, Latches, NEW t \in Threads, FetchBucket(t)
  PROVE  Latches'
<1>1. LatchesOf(t)
  BY LatchesAre
<1>2. /\ UNCHANGED <<mLatch, buckets, call>>
      /\ \A u \in Threads \ {t} : pc'[u] = pc[u] /\ cur'[u] = cur[u]
      /\ pc[t] = "fetch" /\ pc'[t] = "lock"
  BY DEF FetchBucket, tableVars, GoTo, Types
<1>3. /\ Len(latch') = Len(latch) /\ Len(latch) \in Nat
      /\ \A b \in 1 .. Len(latch) : latch'[b] = IF latch[b] = t THEN Free ELSE latch[b]
  BY ReleaseFacts DEF FetchBucket, Types
<1>4. \A u \in Threads \ {t} : LatchesOf(u)'
  <2> TAKE u \in Threads \ {t}
  <2>1. \A b \in 1 .. Len(latch') :
          (latch'[b] = u <=> b \in 1 .. Len(latch) /\ latch[b] = u)
    BY <1>3
  <2> QED BY <1>2, <1>3, <2>1, LatchesOfOthers
<1>5. LatchesOf(t)'
  BY <1>1, <1>2, <1>3 DEF LatchesOf
<1> QED BY <1>4, <1>5, LatchesArePrime

LEMMA SeekKeyLatches ==
  ASSUME Types, Latches, NEW t \in Threads, SeekKey(t), ~Return(t)
  PROVE  Latches'
<1>1. LatchesOf(t)
  BY LatchesAre
<1>2. /\ UNCHANGED <<latch, mLatch, buckets, cur, call>>
      /\ \A u \in Threads \ {t} : pc'[u] = pc[u]
      /\ pc[t] = "seek" /\ pc'[t] = "erase"
  BY DEF SeekKey, tableVars, GoTo, Types
<1>3. \A u \in Threads \ {t} : LatchesOf(u)'
  <2> TAKE u \in Threads \ {t}
  <2>1. Len(latch) \in Nat
    BY DEF Types
  <2> QED BY <1>2, <2>1, LatchesOfOthers
<1>4. LatchesOf(t)'
  BY <1>1, <1>2 DEF LatchesOf
<1> QED BY <1>3, <1>4, LatchesArePrime

LEMMA LockLatches ==
  ASSUME Types, Latches, NEW t \in Threads, LockFull(t) \/ LockForRemove(t)
  PROVE  Latches'
<1>1. LatchesOf(t)
  BY LatchesAre
<1>2. /\ UNCHANGED <<mLatch, buckets, call, cur>>
      /\ \A u \in Threads \ {t} : pc'[u] = pc[u]
      /\ pc[t] = "lock" /\ call[t].op # "Find" /\ latch[cur[t]] = Free
      /\ \/ pc'[t] = "seek"
         \/ pc'[t] = "split" /\ buckets[cur[t]].localDepth < MaxDepth
  <2>1. CASE LockFull(t)
    BY <2>1 DEF LockFull, Calling, tableVars, GoTo, Types
  <2>2. CASE LockForRemove(t)
    BY <2>2 DEF LockForRemove, Calling, tableVars, GoTo, Types
  <2> QED BY <2>1, <2>2
<1>3. /\ Len(latch') = Len(latch) /\ Len(latch) \in Nat /\ cur[t] \in 1 .. Len(latch)
      /\ \A b \in 1 .. Len(latch) : latch'[b] = IF b = cur[t] THEN t ELSE latch[b]
  BY LatchChange DEF LockFull, LockForRemove, Types
<1>4. \A u \in Threads \ {t} : LatchesOf(u)'
  <2> TAKE u \in Threads \ {t}
  <2>1. \A b \in 1 .. Len(latch') :
          (latch'[b] = u <=> b \in 1 .. Len(latch) /\ latch[b] = u)
    BY <1>2, <1>3
  <2> QED BY <1>2, <1>3, <2>1, LatchesOfOthers
<1>5. LatchesOf(t)'
  BY <1>1, <1>2, <1>3 DEF LatchesOf
<1> QED BY <1>4, <1>5, LatchesArePrime

\* The steps that end a call, with a change of one bucket's map at most.
LEMMA ReturnLatches ==
  ASSUME Types, Latches, NEW t \in Threads,
         InsertPair(t) \/ FindValue(t) \/ EraseKey(t) \/ (SeekKey(t) /\ Return(t))
  PROVE  Latches'
<1>1. LatchesOf(t)
  BY LatchesAre
<1>2. /\ pc'[t] = "idle"
      /\ \A u \in Threads \ {t} : pc'[u] = pc[u] /\ cur'[u] = cur[u] /\ call'[u] = call[u]
      /\ mLatch' = mLatch
      /\ pc[t] \in {"lock", "found", "seek", "erase"}
  BY ReturnFacts DEF InsertPair, FindValue, SeekKey, EraseKey, Calling, Types
<1>3. \A b \in 1 .. Len(buckets) : buckets'[b].localDepth = buckets[b].localDepth
  <2>1. CASE SeekKey(t)
    BY <2>1 DEF SeekKey, tableVars
  <2>2. CASE ~SeekKey(t)
    <3>1. PICK b \in 1 .. Len(buckets), f \in Maps : buckets' = [buckets EXCEPT ![b].dataMap = f]
      BY <2>2, InsertPairFacts, FindValueFacts, EraseKeyFacts
    <3> QED BY <3>1, MapChange
  <2> QED BY <2>1, <2>2
<1>4. /\ Len(latch') = Len(latch) /\ Len(latch) \in Nat /\ Len(latch) = Len(buckets)
      /\ \A b \in 1 .. Len(latch) :
           latch'[b] = IF pc[t] \in {"seek", "erase"} /\ b = cur[t] THEN Free ELSE latch[b]
  <2>1. Len(latch) \in Nat /\ Len(latch) = Len(buckets)
    BY DEF Types
  <2>2. CASE InsertPair(t) \/ FindValue(t)
    <3>1. latch' = latch /\ pc[t] \notin {"seek", "erase"}
      BY <2>2 DEF InsertPair, FindValue, Calling
    <3> QED BY <2>1, <3>1
  <2>3. CASE EraseKey(t) \/ (SeekKey(t) /\ Return(t))
    <3>1. pc[t] \in {"seek", "erase"} /\ pc'[t] = "idle"
      BY <1>2, <2>3 DEF EraseKey, SeekKey
    <3>2. latch' = [latch EXCEPT ![cur[t]] = Free]
      BY <2>3, <3>1 DEF EraseKey, SeekKey, Unlock, GoTo, Types
    <3> QED BY <2>1, <3>1, <3>2, LatchChange
  <2> QED BY <2>2, <2>3
<1>5. pc[t] \in {"seek", "erase"} => latch[cur[t]] = t
  BY <1>1 DEF LatchesOf
<1>6. \A u \in Threads \ {t} : LatchesOf(u)'
  <2> TAKE u \in Threads \ {t}
  <2>1. \A b \in 1 .. Len(latch') :
          (latch'[b] = u <=> b \in 1 .. Len(latch) /\ latch[b] = u)
    BY <1>4, <1>5
  <2>2. cur[u] \in 1 .. Len(buckets)
    BY DEF Types
  <2> QED BY <1>2, <1>3, <1>4, <2>1, <2>2, LatchesOfOthers
<1>7. LatchesOf(t)'
  BY <1>1, <1>2, <1>4 DEF LatchesOf
<1> QED BY <1>6, <1>7, LatchesArePrime

LEMMA SplitBucketLatches ==
  ASSUME Types, Latches, NEW t \in Threads, SplitBucket(t)
  PROVE  Latches'
<1>1. LatchesOf(t)
  BY LatchesAre
<1>2. PICK b, n, d : b = cur[t] /\ n = Len(buckets) /\ d = buckets[b].localDepth
  OBVIOUS
<1>shared. SharedOut(b, n, d)
  BY <1>2, SplitFacts
<1>3. /\ pc'[t] = "repoint" /\ pc[t] = "split" /\ mLatch = Free /\ mLatch' = t
      /\ \A u \in Threads \ {t} : pc'[u] = pc[u]
      /\ UNCHANGED <<cur, call>>
  BY DEF SplitBucket, GoTo, Types
<1>4. n \in Nat /\ \A c \in 1 .. n : c # b => buckets'[c] = buckets[c]
  BY <1>2, <1>shared DEF SharedOut
<1>5. /\ Len(latch') = n + 1 /\ Len(latch) = n /\ b \in 1 .. n
      /\ \A c \in 1 .. n : latch'[c] = latch[c]
      /\ latch'[n + 1] = Free
  BY <1>2, <1>shared DEF SharedOut, Types
<1>6. \A u \in Threads \ {t} : LatchesOf(u)'
  <2> TAKE u \in Threads \ {t}
  <2>1. \A c \in 1 .. Len(latch') :
          (latch'[c] = u <=> c \in 1 .. Len(latch) /\ latch[c] = u)
    BY <1>4, <1>5
  <2>2. cur[u] \in 1 .. n /\ (latch[cur[u]] = u => cur[u] # b)
    BY <1>1, <1>2, <1>3 DEF Types, LatchesOf
  <2> QED BY <1>2, <1>3, <1>4, <1>5, <2>1, <2>2, LatchesOfOthers
<1>7. LatchesOf(t)'
  BY <1>1, <1>2, <1>3, <1>4, <1>5 DEF LatchesOf
<1> QED BY <1>6, <1>7, LatchesArePrime

LEMMA RepointLatches ==
  ASSUME Types, Latches, NEW t \in Threads, Repoint(t)
  PROVE  Latches'
<1>1. LatchesOf(t)
  BY LatchesAre
<1>2. /\ pc'[t] = "index" /\ pc[t] = "repoint" /\ mLatch = t /\ mLatch' = Free
      /\ \A u \in Threads \ {t} : pc'[u] = pc[u]
      /\ UNCHANGED <<buckets, latch, cur, call>>
      /\ Len(latch) \in Nat
  BY <1>1 DEF Repoint, GoTo, Types, LatchesOf
<1>3. \A u \in Threads \ {t} : LatchesOf(u)'
  <2> TAKE u \in Threads \ {t}
  <2> QED BY <1>2, LatchesOfOthers
<1>4. LatchesOf(t)'
  BY <1>1, <1>2 DEF LatchesOf
<1> QED BY <1>3, <1>4, LatchesArePrime

LEMMA LatchesStep ==
  ASSUME HashInv, [Next]_vars
  PROVE  Latches'
<1>1. Types /\ Latches /\ Shape
  BY DEF HashInv
<1>2. ASSUME NEW t \in Threads, Call(t) \/ Step(t)
      PROVE  Latches'
  BY <1>1, <1>2, LatchesQuietStep, FetchBucketLatches, LockLatches, SeekKeyLatches, ReturnLatches,
     SplitBucketLatches, RepointLatches DEF Step
<1>3. CASE UNCHANGED vars
  BY <1>1, <1>3 DEF Latches, vars, tableVars
<1> QED BY <1>2, <1>3 DEF Next

-----------------------------------------------------------------------------
(* The directory's shape and the places of the keys. *)

\* A step that is not a half of a split leaves the directory as it is.
LEMMA OtherStep ==
  ASSUME Types, Latches, NEW t \in Threads, Call(t) \/ Step(t),
         ~SplitBucket(t), ~Repoint(t)
  PROVE  SameDirectory
<1>1. /\ UNCHANGED <<mGlobalDepth, mBuckets, mLatch>>
      /\ pc[t] # "repoint"
  BY DEF Call, Step, GetBucketIndex, FetchBucket, InsertPair, LockFull, LoopAtBound, EraseKey,
         LockForRemove, SeekKey, FindKey, FindValue, Calling, tableVars
<1>2. \A u \in Threads \ {t} : cur'[u] = cur[u]
  <2>1. CASE Return(t)
    BY <2>1, ReturnFacts
  <2>2. CASE ~Return(t)
    BY <2>2 DEF Call, Step, GetBucketIndex, FetchBucket, InsertPair, LockFull, LoopAtBound,
                EraseKey, LockForRemove, SeekKey, FindKey, FindValue, Types
  <2> QED BY <2>1, <2>2
<1>3. mLatch # Free => mLatch \in Threads \ {t}
  BY <1>1 DEF Latches, Types
<1>4. /\ Len(buckets') = Len(buckets)
      /\ \A b \in 1 .. Len(buckets) : buckets'[b].localDepth = buckets[b].localDepth
  <2>1. CASE InsertPair(t) \/ FindValue(t) \/ EraseKey(t)
    <3>1. PICK b \in 1 .. Len(buckets), f \in Maps : buckets' = [buckets EXCEPT ![b].dataMap = f]
      BY <2>1, InsertPairFacts, FindValueFacts, EraseKeyFacts
    <3> QED BY <3>1, MapChange
  <2>2. CASE ~(InsertPair(t) \/ FindValue(t) \/ EraseKey(t))
    <3>1. buckets' = buckets
      BY <2>2 DEF Call, Step, GetBucketIndex, FetchBucket, LockFull, LoopAtBound,
                  LockForRemove, SeekKey, FindKey, tableVars
    <3> QED BY <3>1
  <2> QED BY <2>1, <2>2
<1> QED BY <1>1, <1>2, <1>3, <1>4 DEF SameDirectory, SameSplit

LEMMA PlacesKept ==
  ASSUME Types, Places, SameDirectory, raced \subseteq raced',
         \A b \in 1 .. Len(buckets) :
           \A k \in DOMAIN buckets'[b].dataMap :
             \/ k \in DOMAIN buckets[b].dataMap \/ k \in raced'
             \/ k \in Keys /\ Home(k) = b
  PROVE  Places'
<1>1. SUFFICES ASSUME NEW b \in 1 .. Len(buckets'), NEW k \in DOMAIN buckets'[b].dataMap,
                      k \notin raced'
               PROVE  b = Home(k)'
  BY DEF Places
<1>2. b \in 1 .. Len(buckets)
  BY DEF SameDirectory
<1>3. k \in Keys /\ Home(k) = b
  BY <1>1, <1>2, BucketFacts DEF Places
<1> QED BY <1>3, HomesKept

\* An insertion into a bucket that is not latched.
LEMMA InsertPairPlaces ==
  ASSUME HashInv, NEW t \in Threads, InsertPair(t), SameDirectory
  PROVE  Places'
<1>1. Types /\ Latches /\ Places
  BY DEF HashInv
<1>2. PICK c \in 1 .. Len(buckets), f \in Maps, g \in Maps, k \in Keys, v \in Values :
        /\ c = cur[t] /\ k = Key(t) /\ f = buckets[c].dataMap /\ g = Inserted(f, k, v)
        /\ buckets' = [buckets EXCEPT ![c].dataMap = g]
  BY <1>1, InsertPairFacts, IndexFacts
<1>9. DOMAIN g = DOMAIN f \cup {k}
  <2>1. DOMAIN Inserted(f, k, v) = DOMAIN f \cup {k}
    BY MapFacts
  <2> QED BY <1>2, <2>1
<1>3. /\ \A b \in 1 .. Len(buckets) : b # c => buckets'[b] = buckets[b]
      /\ DOMAIN buckets'[c].dataMap = DOMAIN buckets[c].dataMap \cup {k}
  BY <1>1, <1>2, <1>9, MapChange
<1>4. raced \subseteq raced' /\ (k \in raced' \/ mBuckets[IndexOf(k)] = c)
  BY <1>2 DEF InsertPair
<1>5. mLatch # Free => c # cur[mLatch]
  <2>1. latch[c] = Free
    BY <1>2 DEF InsertPair
  <2>2. mLatch # Free => latch[cur[mLatch]] = mLatch
    BY <1>1 DEF Latches, Types
  <2> QED BY <2>1, <2>2
<1>6. mBuckets[IndexOf(k)] = c => Home(k) = c
  BY <1>5 DEF Home
<1>7. \A b \in 1 .. Len(buckets) :
        \A j \in DOMAIN buckets'[b].dataMap :
          \/ j \in DOMAIN buckets[b].dataMap \/ j \in raced'
          \/ j \in Keys /\ Home(j) = b
  BY <1>2, <1>3, <1>4, <1>6
<1> QED BY <1>1, <1>4, <1>7, PlacesKept

\* operator[] adds a key that is gone to the bucket that was read without a latch.
LEMMA FindValuePlaces ==
  ASSUME HashInv, NEW t \in Threads, FindValue(t), SameDirectory
  PROVE  Places'
<1>1. Types /\ Latches /\ Places
  BY DEF HashInv
<1>2. PICK c \in 1 .. Len(buckets), f \in Maps, g \in Maps, k \in Keys :
        /\ c = Current(t) /\ k = Key(t) /\ f = buckets[c].dataMap
        /\ g = Inserted(f, k, Default)
        /\ buckets' = [buckets EXCEPT ![c].dataMap = g]
  BY <1>1, FindValueFacts, IndexFacts
<1>9. DOMAIN g = DOMAIN f \cup {k}
  <2>1. DOMAIN Inserted(f, k, Default) = DOMAIN f \cup {k}
    BY MapFacts
  <2> QED BY <1>2, <2>1
<1>3. /\ \A b \in 1 .. Len(buckets) : b # c => buckets'[b] = buckets[b]
      /\ DOMAIN buckets'[c].dataMap = DOMAIN buckets[c].dataMap \cup {k}
  BY <1>1, <1>2, <1>9, MapChange
<1>4. raced \subseteq raced' /\ (k \in raced' \/ k \in DOMAIN buckets[c].dataMap)
  BY <1>2 DEF FindValue
<1>7. \A b \in 1 .. Len(buckets) :
        \A j \in DOMAIN buckets'[b].dataMap :
          \/ j \in DOMAIN buckets[b].dataMap \/ j \in raced'
          \/ j \in Keys /\ Home(j) = b
  BY <1>2, <1>3, <1>4
<1> QED BY <1>1, <1>4, <1>7, PlacesKept

LEMMA EraseKeyPlaces ==
  ASSUME HashInv, NEW t \in Threads, EraseKey(t), SameDirectory
  PROVE  Places'
<1>1. Types /\ Latches /\ Places
  BY DEF HashInv
<1>2. PICK c \in 1 .. Len(buckets), f \in Maps, g \in Maps, k \in Keys :
        /\ c = Current(t) /\ k = Key(t) /\ f = buckets[c].dataMap /\ g = Without(f, k)
        /\ buckets' = [buckets EXCEPT ![c].dataMap = g]
  BY <1>1, EraseKeyFacts, IndexFacts
<1>9. DOMAIN g = DOMAIN f \ {k}
  <2>1. DOMAIN Without(f, k) = DOMAIN f \ {k}
    BY MapFacts
  <2> QED BY <1>2, <2>1
<1>3. /\ \A b \in 1 .. Len(buckets) : b # c => buckets'[b] = buckets[b]
      /\ DOMAIN buckets'[c].dataMap = DOMAIN buckets[c].dataMap \ {k}
  BY <1>1, <1>2, <1>9, MapChange
<1>4. raced' = raced
  BY DEF EraseKey
<1>7. \A b \in 1 .. Len(buckets) :
        \A j \in DOMAIN buckets'[b].dataMap :
          \/ j \in DOMAIN buckets[b].dataMap \/ j \in raced'
          \/ j \in Keys /\ Home(j) = b
  BY <1>2, <1>3, <1>4
<1> QED BY <1>1, <1>4, <1>7, PlacesKept

\* What the first half does to depths and to where the directory leads.
LEMMA SplitDepths ==
  ASSUME HashInv, NEW t \in Threads, SplitBucket(t),
         NEW b, b = cur[t], NEW n, n = Len(buckets), NEW d, d = buckets[b].localDepth
  PROVE  /\ n \in Nat /\ b \in 1 .. n /\ d \in Nat
         /\ mLatch = Free /\ mLatch' = t /\ t # Free /\ cur'[t] = b /\ Len(buckets') = n + 1
         /\ Reached = 1 .. n /\ Reached' = 1 .. n
         /\ \A c \in 1 .. n : Depth(c)' = Depth(c) /\ Depth(c) = buckets[c].localDepth
                              /\ Depth(c) \in Nat /\ Depth(c) <= mGlobalDepth
         /\ mGlobalDepth \in Nat
<1>1. Types /\ Latches
  BY DEF HashInv
<1>shared. SharedOut(b, n, d)
  BY <1>1, SplitFacts
<1>2. mLatch = Free /\ mLatch' = t /\ t # Free /\ cur' = cur
  BY DEF SplitBucket
<1>3. /\ n \in Nat /\ b \in 1 .. n /\ d \in Nat /\ Len(buckets') = n + 1
      /\ \A c \in 1 .. n : c # b => buckets'[c] = buckets[c]
      /\ buckets'[b].localDepth = d + 1
  BY <1>1, <1>shared DEF SharedOut
<1>4. Reached = 1 .. n /\ Reached' = 1 .. n
  BY <1>2, <1>3 DEF Reached
<1>5. \A c \in 1 .. n : /\ buckets[c].localDepth \in Nat
                        /\ buckets[c].localDepth <= mGlobalDepth
  BY <1>1, BucketFacts
<1>6. ASSUME NEW c \in 1 .. n
      PROVE  Depth(c)' = Depth(c) /\ Depth(c) = buckets[c].localDepth
  <2>1. Depth(c) = buckets[c].localDepth
    BY <1>2, <1>5 DEF Depth
  <2>2. CASE c = b
    BY <1>2, <1>3, <2>1, <2>2 DEF Depth
  <2>3. CASE c # b
    BY <1>2, <1>3, <1>5, <2>1, <2>3 DEF Depth
  <2> QED BY <2>1, <2>2, <2>3
<1>7. mGlobalDepth \in Nat
  BY <1>1 DEF Types
<1> QED BY <1>2, <1>3, <1>4, <1>5, <1>6, <1>7

LEMMA SplitBucketShape ==
  ASSUME HashInv, NEW t \in Threads, SplitBucket(t)
  PROVE  Shape'
<1>1. Types /\ Latches /\ Shape
  BY DEF HashInv
<1>2. PICK b, n, d : b = cur[t] /\ n = Len(buckets) /\ d = buckets[b].localDepth
  OBVIOUS
<1>shared. SharedOut(b, n, d)
  BY <1>1, <1>2, SplitFacts
<1>3. /\ n \in Nat /\ b \in 1 .. n /\ d \in Nat /\ mGlobalDepth \in Nat
      /\ mLatch = Free /\ mLatch' = t /\ cur'[t] = b /\ Len(buckets') = n + 1
      /\ Reached = 1 .. n /\ Reached' = 1 .. n
  BY <1>2, SplitDepths
<1>4. \A c \in 1 .. n : /\ Depth(c)' = Depth(c) /\ Depth(c) \in Nat
                        /\ Depth(c) <= mGlobalDepth
  BY <1>2, SplitDepths
<1>5. buckets'[b].localDepth = d + 1 /\ buckets'[n + 1].localDepth = d + 1
  BY <1>1, <1>2, <1>shared DEF SharedOut
<1>6. PICK g \in Nat, h \in Nat :
        /\ g = mGlobalDepth /\ h = mGlobalDepth'
        /\ DOMAIN mBuckets = Indices(g) /\ DOMAIN mBuckets' = Indices(h)
        /\ \A i \in Indices(h) : /\ i % Shift[g] \in Indices(g)
                                 /\ mBuckets'[i] = mBuckets[i % Shift[g]]
        /\ \A i \in Indices(g) : i \in Indices(h) /\ mBuckets[i] \in 1 .. n
  BY <1>1, <1>2, <1>3, SplitDirectory DEF Types
<1>7. /\ cur'[mLatch'] < Len(buckets')
      /\ buckets'[cur'[mLatch']].localDepth > 0
      /\ buckets'[Len(buckets')].localDepth = buckets'[cur'[mLatch']].localDepth
  BY <1>3, <1>5
<1>8. \A i \in Indices(h) : mBuckets'[i] \in 1 .. n
  BY <1>6
<1>9. ASSUME NEW c \in 1 .. n PROVE \E i \in Indices(h) : mBuckets'[i] = c
  <2>1. PICK i \in Indices(g) : mBuckets[i] = c
    BY <1>1, <1>3, <1>6 DEF Shape
  <2>2. i % Shift[g] = i
    BY <2>1, LowIndex
  <2> QED BY <1>6, <2>1, <2>2
<1>10. ASSUME NEW i \in Indices(h), NEW j \in Indices(h)
       PROVE  mBuckets'[i] = mBuckets'[j] <=>
                i % Shift[Depth(mBuckets[i])'] = j % Shift[Depth(mBuckets[i])']
  <2>1. PICK c \in 1 .. n : c = mBuckets'[i]
    BY <1>8
  <2>2. PICK e \in Nat : e = Depth(c) /\ e <= g /\ Depth(c)' = e
    BY <1>4, <1>6
  <2>3. PICK x \in Indices(g), y \in Indices(g) : x = i % Shift[g] /\ y = j % Shift[g]
    BY <1>6
  <2>4. mBuckets[x] = c /\ mBuckets[y] = mBuckets'[j]
    BY <1>6, <2>1, <2>3
  <2>5. mBuckets[x] = mBuckets[y] <=> x % Shift[e] = y % Shift[e]
    BY <1>1, <1>6, <2>2, <2>3, <2>4 DEF Shape
  <2>6. i \in Nat /\ j \in Nat
    BY LowIndex
  <2>7. x % Shift[e] = i % Shift[e] /\ y % Shift[e] = j % Shift[e]
    BY <2>2, <2>3, <2>6, LowLow
  <2>8. Depth(mBuckets[i])' = e
    BY <2>1, <2>2
  <2> QED BY <2>1, <2>4, <2>5, <2>7, <2>8
<1> QED BY <1>3, <1>6, <1>7, <1>8, <1>9, <1>10 DEF Shape

LEMMA SplitBucketPlaces ==
  ASSUME HashInv, NEW t \in Threads, SplitBucket(t)
  PROVE  Places'
<1>1. Types /\ Latches /\ Places
  BY DEF HashInv
<1>2. PICK b, n, d : b = cur[t] /\ n = Len(buckets) /\ d = buckets[b].localDepth
  OBVIOUS
<1>shared. SharedOut(b, n, d)
  BY <1>1, <1>2, SplitFacts
<1>3. /\ n \in Nat /\ b \in 1 .. n /\ d \in Nat
      /\ mLatch = Free /\ mLatch' = t /\ t # Free /\ cur'[t] = b /\ Len(buckets') = n + 1
  BY <1>2, SplitDepths
<1>4. Depth(b)' = d
  BY <1>2, <1>3, SplitDepths
<1>5. /\ \A c \in 1 .. n : c # b => buckets'[c] = buckets[c]
      /\ \A k : k \in DOMAIN buckets'[b].dataMap
                  <=> k \in DOMAIN buckets[b].dataMap /\ ~Bit(k, d)
      /\ \A k : k \in DOMAIN buckets'[n + 1].dataMap
                  <=> k \in DOMAIN buckets[b].dataMap /\ Bit(k, d)
  <2>1. \A k : k \in DOMAIN buckets'[b].dataMap
                 <=> k \in DOMAIN buckets[b].dataMap /\ ~Bit(k, d)
    BY <1>1, <1>2, <1>shared DEF SharedOut
  <2>2. \A k : k \in DOMAIN buckets'[n + 1].dataMap
                 <=> k \in DOMAIN buckets[b].dataMap /\ Bit(k, d)
    BY <1>1, <1>2, <1>shared DEF SharedOut
  <2>3. \A c \in 1 .. n : c # b => buckets'[c] = buckets[c]
    BY <1>1, <1>2, <1>shared DEF SharedOut
  <2> QED BY <2>1, <2>2, <2>3
<1>6. ASSUME NEW k \in Keys
      PROVE  Home(k)' = IF Home(k) = b /\ Bit(k, d) THEN n + 1 ELSE Home(k)
  <2>1. PICK g \in Nat, h \in Nat :
          /\ g = mGlobalDepth /\ h = mGlobalDepth' /\ g <= h
          /\ \A i \in Indices(h) : mBuckets'[i] = mBuckets[i % Shift[g]]
    BY <1>1, <1>2, <1>3, SplitDirectory
  <2>2. k \in Nat
    OBVIOUS
  <2>3. k % Shift[h] \in Indices(h) /\ (k % Shift[h]) % Shift[g] = k % Shift[g]
    BY <2>1, <2>2, LowLow
  <2>4. mBuckets'[k % Shift[h]] = mBuckets[k % Shift[g]]
    BY <2>1, <2>3
  <2>5. Home(k) = mBuckets[k % Shift[g]]
    BY <1>3, <2>1 DEF Home, IndexOf
  <2>6. PICK x : x = mBuckets'[k % Shift[h]]
    OBVIOUS
  <2>7. Home(k)' = IF x = b /\ Bit(k, Depth(x)') THEN n + 1 ELSE x
    BY <1>3, <2>1, <2>6 DEF Home, IndexOf
  <2> QED BY <1>4, <2>4, <2>5, <2>6, <2>7
<1>7. SUFFICES ASSUME NEW c \in 1 .. n + 1, NEW k \in DOMAIN buckets'[c].dataMap, k \notin raced
               PROVE  c = Home(k)'
  BY <1>3 DEF Places, SplitBucket
<1>8. CASE c \in 1 .. n /\ c # b
  <2>1. k \in Keys /\ Home(k) = c
    BY <1>1, <1>2, <1>5, <1>7, <1>8, BucketFacts DEF Places
  <2> QED BY <1>6, <1>8, <2>1
<1>9. CASE c = b \/ c = n + 1
  <2>1. k \in DOMAIN buckets[b].dataMap /\ (Bit(k, d) <=> c = n + 1)
    BY <1>3, <1>5, <1>7, <1>9
  <2>2. k \in Keys /\ Home(k) = b
    BY <1>1, <1>2, <1>3, <1>7, <2>1, BucketFacts DEF Places
  <2> QED BY <1>6, <1>9, <2>1, <2>2
<1> QED BY <1>3, <1>8, <1>9

\* What the second half does to depths.
LEMMA RepointDepths ==
  ASSUME HashInv, NEW t \in Threads, Repoint(t),
         NEW b, b = cur[t], NEW n, n = Len(buckets), NEW d, d = buckets[b].localDepth - 1
  PROVE  /\ mLatch = t /\ t # Free /\ mLatch' = Free
         /\ Reached = 1 .. n - 1 /\ Reached' = 1 .. n
         /\ Depth(b) = d /\ Depth(b)' = d + 1 /\ Depth(n)' = d + 1
         /\ \A c \in 1 .. n - 1 : c # b => Depth(c)' = Depth(c)
<1>1. Types /\ Latches /\ Shape
  BY DEF HashInv
<1>2. /\ mLatch = t /\ n \in Nat /\ b \in 1 .. n - 1 /\ d \in Nat
      /\ buckets[b].localDepth = d + 1 /\ buckets[n].localDepth = d + 1
  BY <1>1, RepointFacts
<1>3. t # Free /\ mLatch' = Free /\ buckets' = buckets
  BY DEF Repoint
<1>4. Reached = 1 .. n - 1 /\ Reached' = 1 .. n
  BY <1>2, <1>3 DEF Reached
<1>5. Depth(b) = d /\ Depth(b)' = d + 1 /\ Depth(n)' = d + 1
  <2>1. Depth(b) = buckets[b].localDepth - 1
    BY <1>2, <1>3 DEF Depth
  <2>2. Depth(b)' = buckets[b].localDepth - 0 /\ Depth(n)' = buckets[n].localDepth - 0
    BY <1>3 DEF Depth
  <2> QED BY <1>2, <2>1, <2>2
<1>6. ASSUME NEW c \in 1 .. n - 1, c # b PROVE Depth(c)' = Depth(c)
  <2>1. buckets[c].localDepth \in Nat
    BY <1>1, <1>2, BucketFacts
  <2> QED BY <1>2, <1>3, <1>6, <2>1 DEF Depth
<1> QED BY <1>2, <1>3, <1>4, <1>5, <1>6

LEMMA RepointShape ==
  ASSUME HashInv, NEW t \in Threads, Repoint(t)
  PROVE  Shape'
<1>1. Types /\ Latches /\ Shape
  BY DEF HashInv
<1>2. PICK b, n, d : b = cur[t] /\ n = Len(buckets) /\ d = buckets[b].localDepth - 1
  OBVIOUS
<1>3. PICK g \in Nat :
        /\ g = mGlobalDepth /\ n \in Nat /\ b \in 1 .. n - 1 /\ d \in Nat /\ d < g
        /\ DOMAIN mBuckets = Indices(g) /\ DOMAIN mBuckets' = Indices(g)
        /\ \A i \in Indices(g) :
             mBuckets'[i] = IF mBuckets[i] = b /\ Bit(i, d) THEN n ELSE mBuckets[i]
  BY <1>1, <1>2, RepointFacts
<1>4. /\ mLatch' = Free
      /\ Reached = 1 .. n - 1 /\ Reached' = 1 .. n
      /\ Depth(b) = d /\ Depth(b)' = d + 1 /\ Depth(n)' = d + 1
      /\ \A c \in 1 .. n - 1 : c # b => Depth(c)' = Depth(c)
  BY <1>2, RepointDepths
<1>5. /\ \A i \in Indices(g) : mBuckets[i] \in 1 .. n - 1
      /\ \A c \in 1 .. n - 1 : \E i \in Indices(g) : mBuckets[i] = c
      /\ \A i, j \in Indices(g) :
           mBuckets[i] = b => (mBuckets[j] = b <=> i % Shift[d] = j % Shift[d])
  BY <1>1, <1>3, <1>4 DEF Shape
<1>6. \A i \in Indices(g) : mBuckets'[i] \in 1 .. n
  BY <1>3, <1>5
<1>7. ASSUME NEW c \in 1 .. n PROVE \E i \in Indices(g) : mBuckets'[i] = c
  <2>1. CASE c \in 1 .. n - 1 /\ c # b
    BY <1>3, <1>5, <2>1
  <2>2. CASE c = b \/ c = n
    <3>1. PICK i \in Indices(g) : mBuckets[i] = b
      BY <1>3, <1>5
    <3>2. PICK j \in Indices(g) :
            /\ j % Shift[d] = i % Shift[d]
            /\ Bit(j, d) <=> c = n
      <4>1. \E j \in Indices(g) : j % Shift[d] = i % Shift[d] /\ Bit(j, d)
        BY <1>3, BothHalves
      <4>2. \E j \in Indices(g) : j % Shift[d] = i % Shift[d] /\ ~Bit(j, d)
        BY <1>3, BothHalves
      <4> QED BY <4>1, <4>2
    <3>3. mBuckets[j] = b
      BY <1>5, <3>1, <3>2
    <3>4. mBuckets'[j] = c
      BY <1>3, <2>2, <3>2, <3>3
    <3> QED BY <3>4
  <2> QED BY <1>3, <2>1, <2>2
<1>8. ASSUME NEW i \in Indices(g), NEW j \in Indices(g)
      PROVE  mBuckets'[i] = mBuckets'[j] <=>
               i % Shift[Depth(mBuckets[i])'] = j % Shift[Depth(mBuckets[i])']
  <2>1. CASE mBuckets[i] = b
    <3>1. mBuckets'[i] = b \/ mBuckets'[i] = n
      BY <1>3, <2>1
    <3>2. Depth(mBuckets[i])' = d + 1
      BY <1>4, <3>1
    <3>3. i \in Nat /\ j \in Nat
      BY LowIndex
    <3>4. i % Shift[d + 1] = j % Shift[d + 1]
            <=> i % Shift[d] = j % Shift[d] /\ (Bit(i, d) <=> Bit(j, d))
      BY <1>3, <3>3, LowSplit
    <3>5. mBuckets'[i] = mBuckets'[j] <=> mBuckets[j] = b /\ (Bit(i, d) <=> Bit(j, d))
      BY <1>3, <1>5, <2>1
    <3>6. mBuckets[j] = b <=> i % Shift[d] = j % Shift[d]
      BY <1>5, <2>1
    <3> QED BY <3>2, <3>4, <3>5, <3>6
  <2>2. CASE mBuckets[i] # b
    <3>1. PICK c \in 1 .. n - 1 : c = mBuckets[i] /\ c # b /\ mBuckets'[i] = c
      BY <1>3, <1>5, <2>2
    <3>2. PICK e : e = Depth(c) /\ e = Depth(c)'
      BY <1>4, <3>1
    <3>3. mBuckets[i] = mBuckets[j] <=> i % Shift[e] = j % Shift[e]
      <4>1. mBuckets[i] = mBuckets[j] <=>
              i % Shift[Depth(mBuckets[i])] = j % Shift[Depth(mBuckets[i])]
        BY <1>1, <1>3 DEF Shape
      <4> QED BY <3>1, <3>2, <4>1
    <3>4. mBuckets'[i] = mBuckets'[j] <=> mBuckets[i] = mBuckets[j]
      BY <1>3, <1>5, <3>1
    <3>5. Depth(mBuckets[i])' = e
      BY <3>1, <3>2
    <3> QED BY <3>3, <3>4, <3>5
  <2> QED BY <2>1, <2>2
<1> QED BY <1>3, <1>4, <1>6, <1>7, <1>8 DEF Shape

LEMMA RepointPlaces ==
  ASSUME HashInv, NEW t \in Threads, Repoint(t)
  PROVE  Places'
<1>1. Types /\ Latches /\ Shape /\ Places
  BY DEF HashInv
<1>2. PICK b, n, d : b = cur[t] /\ n = Len(buckets) /\ d = buckets[b].localDepth - 1
  OBVIOUS
<1>3. PICK g \in Nat :
        /\ g = mGlobalDepth /\ n \in Nat /\ b \in 1 .. n - 1 /\ d \in Nat /\ d < g
        /\ \A i \in Indices(g) :
             mBuckets'[i] = IF mBuckets[i] = b /\ Bit(i, d) THEN n ELSE mBuckets[i]
  BY <1>1, <1>2, RepointFacts
<1>4. mLatch = t /\ t # Free /\ mLatch' = Free /\ Depth(b) = d
  BY <1>2, RepointDepths
<1>5. UNCHANGED <<mGlobalDepth, buckets, raced>>
  BY DEF Repoint
<1>6. ASSUME NEW k \in Keys PROVE Home(k)' = Home(k)
  <2>1. PICK i \in Indices(g) : i = k % Shift[g]
    BY LowLow
  <2>2. Bit(i, d) <=> Bit(k, d)
    BY <1>3, <2>1, LowBit
  <2>3. Home(k)' = mBuckets'[i]
    BY <1>3, <1>4, <1>5, <2>1 DEF Home, IndexOf
  <2>4. PICK c : c = mBuckets[i]
    OBVIOUS
  <2>5. Home(k) = IF c = b /\ Bit(k, Depth(c)) THEN n ELSE c
    BY <1>2, <1>3, <1>4, <2>1, <2>4 DEF Home, IndexOf
  <2> QED BY <1>3, <1>4, <2>2, <2>3, <2>4, <2>5
<1> QED BY <1>1, <1>5, <1>6, BucketFacts DEF Places

-----------------------------------------------------------------------------
(* The invariant. *)

LEMMA HashInit == Init => HashInv
<1> SUFFICES ASSUME Init PROVE HashInv
  OBVIOUS
<1>1. /\ Shift[0] = 1 /\ Indices(0) = {0} /\ MaxDepth \in Nat
      /\ Len(buckets) = 1 /\ buckets[1].localDepth = 0 /\ DOMAIN buckets[1].dataMap = {}
  BY ShiftFacts DEF Init, Indices, NoKeys
<1>2. buckets \in Seq(Bucket)
  <2>1. NoKeys \in [{} -> Values] /\ {} \in SUBSET Keys
    BY DEF NoKeys
  <2>2. NoKeys \in Maps
    BY <2>1, Zenon DEF Maps
  <2>3. [localDepth |-> 0, dataMap |-> NoKeys] \in Bucket
    BY <2>2 DEF Bucket
  <2> QED BY <2>3 DEF Init
<1>3. Types
  BY <1>1, <1>2, NoCallType DEF Init, Types, Points
<1>4. Latches
  BY <1>1 DEF Init, Latches
<1>5. Shape
  <2>1. Reached = {1} /\ DOMAIN mBuckets = {0} /\ mBuckets[0] = 1
    BY <1>1 DEF Init, Reached
  <2> QED BY <2>1 DEF Init, Shape
<1>6. Places
  BY <1>1 DEF Places
<1> QED BY <1>3, <1>4, <1>5, <1>6 DEF HashInv

LEMMA HashStep == HashInv /\ [Next]_vars => HashInv'
<1> SUFFICES ASSUME HashInv, [Next]_vars PROVE HashInv'
  OBVIOUS
<1>1. Types /\ Latches /\ Shape /\ Places
  BY DEF HashInv
<1>2. ASSUME NEW t \in Threads, Call(t) \/ Step(t)
      PROVE  Shape' /\ Places'
  <2>1. CASE SplitBucket(t)
    BY <2>1, SplitBucketShape, SplitBucketPlaces
  <2>2. CASE Repoint(t)
    BY <2>2, RepointShape, RepointPlaces
  <2>3. CASE ~SplitBucket(t) /\ ~Repoint(t)
    <3>1. SameDirectory
      BY <1>1, <1>2, <2>3, OtherStep
    <3>2. CASE InsertPair(t) \/ FindValue(t) \/ EraseKey(t)
      BY <1>1, <3>1, <3>2, ShapeKept, InsertPairPlaces, FindValuePlaces, EraseKeyPlaces
    <3>3. CASE ~(InsertPair(t) \/ FindValue(t) \/ EraseKey(t))
      <4>1. buckets' = buckets /\ raced' = raced
        BY <1>2, <2>3, <3>3 DEF Call, Step, GetBucketIndex, FetchBucket, LockFull, LoopAtBound,
                    LockForRemove, SeekKey, FindKey, tableVars
      <4> QED BY <1>1, <3>1, <4>1, ShapeKept, PlacesKept
    <3> QED BY <3>2, <3>3
  <2> QED BY <2>1, <2>2, <2>3
<1>3. CASE UNCHANGED vars
  <2>1. SameDirectory /\ buckets' = buckets /\ raced' = raced
    BY <1>3 DEF vars, tableVars, SameDirectory, SameSplit
  <2>2. Shape' /\ Places'
    BY <1>1, <2>1, ShapeKept, PlacesKept
  <2> QED BY <2>2, TypesStep, LatchesStep DEF HashInv
<1>4. CASE Next
  <2>1. PICK t \in Threads : Call(t) \/ Step(t)
    BY <1>4 DEF Next
  <2> QED BY <1>2, <2>1, TypesStep, LatchesStep DEF HashInv
<1> QED BY <1>3, <1>4

LEMMA HashInvariant == Spec => []HashInv
BY HashInit, HashStep, PTL DEF Spec

\* The table's variables and each thread's locals have their types, and in particular an
\* index that getBucketIndex has computed stays within the directory, which only grows.
THEOREM TypeCorrect == Spec => []TypeOK
<1>1. HashInv => TypeOK
  <2> SUFFICES ASSUME HashInv PROVE TypeOK
    OBVIOUS
  <2>1. Types
    BY DEF HashInv
  <2>2. ASSUME NEW b \in 1 .. Len(buckets)
        PROVE  /\ buckets[b].localDepth \in 0 .. mGlobalDepth
               /\ DOMAIN buckets[b].dataMap \subseteq Keys
               /\ \A k \in DOMAIN buckets[b].dataMap : buckets[b].dataMap[k] \in Values
    <3>1. /\ buckets[b].localDepth \in Nat /\ buckets[b].localDepth <= mGlobalDepth
          /\ buckets[b].dataMap \in Maps /\ DOMAIN buckets[b].dataMap \subseteq Keys
      BY <2>1, BucketFacts
    <3>2. \A k \in DOMAIN buckets[b].dataMap : buckets[b].dataMap[k] \in Values
      BY <3>1 DEF Maps
    <3>3. mGlobalDepth \in Nat
      BY <2>1 DEF Types
    <3> QED BY <3>1, <3>2, <3>3
  <2>3. \A b \in 1 .. Len(latch) : latch[b] \in Threads \cup {Free}
    BY <2>1 DEF Types
  <2> QED BY <2>1, <2>2, <2>3 DEF Types, TypeOK
<1> QED BY <1>1, HashInvariant, PTL

\* Whatever splits at the same time as what, the directory has its shape whenever mLatch
\* is free: two indices share a bucket exactly when they agree on its localDepth low
\* bits, and every bucket is reached.
THEOREM DirectoryCorrect == Spec => []DirectoryShape
<1>1. HashInv => DirectoryShape
  <2> SUFFICES ASSUME HashInv, mLatch = Free PROVE DirectoryShape
    BY DEF DirectoryShape
  <2>1. Types /\ Shape
    BY DEF HashInv
  <2>2. Reached = 1 .. Len(buckets)
    BY <2>1 DEF Reached, Types
  <2>3. {mBuckets[i] : i \in DOMAIN mBuckets} = 1 .. Len(buckets)
    BY <2>1, <2>2 DEF Shape
  <2>4. \A b \in 1 .. Len(buckets) : Depth(b) = buckets[b].localDepth
    BY <2>1, BucketFacts DEF Depth
  <2>5. ASSUME NEW i \in DOMAIN mBuckets, NEW j \in DOMAIN mBuckets
        PROVE  mBuckets[i] = mBuckets[j] <=>
                 i % Shift[buckets[mBuckets[i]].localDepth]
                   = j % Shift[buckets[mBuckets[i]].localDepth]
    <3>1. mBuckets[i] = mBuckets[j] <=>
            i % Shift[Depth(mBuckets[i])] = j % Shift[Depth(mBuckets[i])]
      BY <2>1 DEF Shape
    <3>2. mBuckets[i] \in 1 .. Len(buckets)
      BY <2>1 DEF Types
    <3> QED BY <2>4, <3>1, <3>2
  <2> QED BY <2>3, <2>5 DEF DirectoryShape
<1> QED BY <1>1, HashInvariant, PTL

\* With any threads a key is where a search looks for it, unless it is one of those that
\* InsertPair or FindValue has put into a bucket that was split meanwhile.
THEOREM KeysStayInPlace == Spec => []AstrayOnlyByRace
<1>1. HashInv => AstrayOnlyByRace
  BY DEF HashInv, Places, AstrayOnlyByRace, Home
<1> QED BY <1>1, HashInvariant, PTL

\* The thread that holds mLatch waits for nothing, and while mLatch is free one that holds
\* a bucket's latch waits for nothing either: some call can go on.
THEOREM LatchesDoNotBlock == Spec => []NoDeadlock
<1>1. HashInv => NoDeadlock
  <2> SUFFICES ASSUME HashInv, NEW t \in Threads, pc[t] # "idle"
               PROVE  \E u \in Threads : pc[u] # "idle" /\ ~Blocked(u)
    BY DEF NoDeadlock
  <2>1. Types /\ Latches
    BY DEF HashInv
  <2>2. CASE mLatch # Free
    <3>1. mLatch \in Threads /\ pc[mLatch] = "repoint"
      BY <2>1, <2>2 DEF Types, Latches
    <3> QED BY <3>1 DEF Blocked
  <2>3. CASE mLatch = Free /\ pc[t] = "lock" /\ latch[cur[t]] # Free
    <3>1. PICK b \in 1 .. Len(latch), u \in Threads : latch[b] = u
      <4>1. cur[t] \in 1 .. Len(latch)
        BY <2>1 DEF Types
      <4>2. latch[cur[t]] \in Threads \cup {Free}
        BY <2>1, <4>1 DEF Types
      <4> QED BY <2>3, <4>1, <4>2
    <3>2. pc[u] \in {"index", "fetch", "split", "repoint", "seek", "erase"}
      BY <2>1, <3>1 DEF Latches
    <3> QED BY <2>3, <3>2 DEF Blocked
  <2>4. CASE mLatch = Free /\ ~(pc[t] = "lock" /\ latch[cur[t]] # Free)
    BY <2>4 DEF Blocked
  <2> QED BY <2>2, <2>3, <2>4
<1> QED BY <1>1, HashInvariant, PTL

-----------------------------------------------------------------------------
(* One thread: the table as the buffer pool uses it. *)

\* What a step changes of the maps: at most one of them, unless it splits a bucket.
LEMMA AloneStep ==
  ASSUME SerialInv, NEW t, Threads = {t}, Call(t) \/ Step(t)
  PROVE  Alone'
<1>1. Types /\ Alone
  BY DEF SerialInv, HashInv
<1>2. t \in Threads
  OBVIOUS
<1> DEFINE AloneOf(u) ==
      /\ pc[u] \in {"fetch", "lock", "seek", "erase", "found"} => index[u] = IndexOf(Key(u))
      /\ pc[u] \in {"lock", "seek", "erase"} => cur[u] = Current(u)
      /\ pc[u] = "found" =>
           call[u].op = "Find" /\ Key(u) \in DOMAIN buckets[Current(u)].dataMap
      /\ pc[u] = "erase" =>
         call[u].op = "Remove" /\ Key(u) \in DOMAIN buckets[Current(u)].dataMap
      /\ pc[u] = "seek" => call[u].op = "Remove"
<1>3. SUFFICES AloneOf(t)'
  BY DEF Alone
<1>4. AloneOf(t)
  BY <1>1, <1>2 DEF Alone
<1>5. CASE Call(t) \/ LoopAtBound(t) \/ LockFull(t) \/ SplitBucket(t) \/ Repoint(t)
  <2>1. pc'[t] \in {"index", "split", "repoint"}
    BY <1>1, <1>5 DEF Call, LoopAtBound, LockFull, SplitBucket, Repoint, GoTo, Types
  <2> QED BY <2>1
<1>6. CASE Return(t)
  <2>1. pc'[t] = "idle"
    BY <1>1, <1>2, <1>6, ReturnFacts DEF Types
  <2> QED BY <2>1
<1>7. CASE GetBucketIndex(t)
  <2>1. /\ pc'[t] = "fetch" /\ index'[t] = IndexOf(Key(t))
        /\ UNCHANGED <<mGlobalDepth, call>>
    BY <1>1, <1>7 DEF GetBucketIndex, GoTo, Types, tableVars
  <2>2. IndexOf(Key(t))' = IndexOf(Key(t))
    BY <2>1 DEF IndexOf, Key
  <2> QED BY <2>1, <2>2
<1>8. CASE FetchBucket(t)
  <2>1. /\ pc'[t] = "lock" /\ pc[t] = "fetch" /\ cur'[t] = Current(t)
        /\ UNCHANGED <<mGlobalDepth, mBuckets, call, index>>
    BY <1>1, <1>8 DEF FetchBucket, GoTo, Types, tableVars
  <2>2. IndexOf(Key(t))' = IndexOf(Key(t)) /\ Current(t)' = Current(t)
    BY <2>1 DEF IndexOf, Key, Current
  <2> QED BY <1>4, <2>1, <2>2
<1>9. CASE LockForRemove(t)
  <2>1. /\ pc'[t] = "seek" /\ pc[t] = "lock" /\ call[t].op = "Remove"
        /\ UNCHANGED <<mGlobalDepth, mBuckets, call, index, cur>>
    BY <1>1, <1>9 DEF LockForRemove, Calling, GoTo, Types, tableVars
  <2>2. IndexOf(Key(t))' = IndexOf(Key(t)) /\ Current(t)' = Current(t)
    BY <2>1 DEF IndexOf, Key, Current
  <2> QED BY <1>4, <2>1, <2>2
<1>10. CASE FindKey(t) /\ ~Return(t)
  <2>1. /\ pc'[t] = "found" /\ pc[t] = "fetch" /\ call[t].op = "Find"
        /\ Key(t) \in DOMAIN buckets[Current(t)].dataMap
        /\ UNCHANGED <<mGlobalDepth, mBuckets, buckets, call, index, cur>>
    BY <1>1, <1>10 DEF FindKey, Calling, GoTo, Types, tableVars
  <2>2. IndexOf(Key(t))' = IndexOf(Key(t)) /\ Current(t)' = Current(t) /\ Key(t)' = Key(t)
    BY <2>1 DEF IndexOf, Key, Current
  <2> QED BY <1>4, <2>1, <2>2
<1>11. CASE SeekKey(t) /\ ~Return(t)
  <2>1. /\ pc'[t] = "erase" /\ pc[t] = "seek"
        /\ Key(t) \in DOMAIN buckets[Current(t)].dataMap
        /\ UNCHANGED <<mGlobalDepth, mBuckets, buckets, call, index, cur>>
    BY <1>1, <1>11 DEF SeekKey, GoTo, Types, tableVars
  <2>2. IndexOf(Key(t))' = IndexOf(Key(t)) /\ Current(t)' = Current(t) /\ Key(t)' = Key(t)
    BY <2>1 DEF IndexOf, Key, Current
  <2> QED BY <1>4, <2>1, <2>2
<1> HIDE DEF AloneOf
<1> QED BY <1>5, <1>6, <1>7, <1>8, <1>9, <1>10, <1>11 DEF Step, InsertPair, EraseKey, FindValue

\* With one thread the bucket a call has read is its key's.
LEMMA AloneHome ==
  ASSUME SerialInv, NEW t, Threads = {t}, pc[t] \in {"fetch", "lock", "seek", "erase", "found"}
  PROVE  /\ Current(t) = Home(Key(t))
         /\ Current(t) = mBuckets[IndexOf(Key(t))]
         /\ pc[t] \in {"lock", "seek", "erase"} => cur[t] = Current(t)
<1>1. Types /\ Latches /\ Alone /\ t \in Threads
  BY DEF SerialInv, HashInv
<1>2. mLatch = Free
  BY <1>1 DEF Types, Latches
<1>3. Current(t) = mBuckets[IndexOf(Key(t))]
  BY <1>1 DEF Alone, Current
<1> QED BY <1>1, <1>2, <1>3 DEF Alone, Home

LEMMA NothingRaced ==
  ASSUME SerialInv, NEW t, Threads = {t}, Call(t) \/ Step(t)
  PROVE  raced' = {}
<1>1. raced = {} /\ Alone /\ t \in Threads
  BY DEF SerialInv
<1>2. CASE InsertPair(t)
  <2>1. mBuckets[IndexOf(Key(t))] = cur[t]
    BY <1>2, AloneHome DEF InsertPair, Calling
  <2> QED BY <1>1, <1>2, <2>1 DEF InsertPair
<1>3. CASE FindValue(t)
  <2>1. Key(t) \in DOMAIN buckets[Current(t)].dataMap
    BY <1>1, <1>3 DEF FindValue, Alone
  <2> QED BY <1>1, <1>3, <2>1 DEF FindValue
<1>4. CASE ~InsertPair(t) /\ ~FindValue(t)
  BY <1>1, <1>4 DEF Call, Step, GetBucketIndex, FetchBucket, LockFull, LoopAtBound, EraseKey,
                    SplitBucket, Repoint, LockForRemove, SeekKey, FindKey, tableVars
<1> QED BY <1>2, <1>3, <1>4

\* A set that a map keeps of its keys is no larger.
LEMMA SmallerKeys ==
  ASSUME NEW S \in SUBSET Keys, NEW T \in SUBSET S
  PROVE  /\ IsFiniteSet(S) /\ Cardinality(S) \in Nat
         /\ Cardinality(T) \in Nat /\ Cardinality(T) <= Cardinality(S)
<1>1. IsFiniteSet(S) /\ IsFiniteSet(T)
  BY FS_Subset
<1> QED BY <1>1, FS_CardinalityType, FS_Subset

LEMMA SizesStep ==
  ASSUME SerialInv, NEW t, Threads = {t}, Call(t) \/ Step(t)
  PROVE  Sizes'
<1>1. Types /\ Latches /\ Alone /\ Sizes /\ t \in Threads
  BY DEF SerialInv, HashInv
<1>2. CASE InsertPair(t)
  <2>1. PICK c \in 1 .. Len(buckets), f \in Maps, k \in Keys, v \in Values :
          /\ c = cur[t] /\ f = buckets[c].dataMap /\ k = Key(t)
          /\ Inserted(f, k, v) \in Maps
          /\ buckets' = [buckets EXCEPT ![c].dataMap = Inserted(f, k, v)]
    BY <1>1, <1>2, InsertPairFacts, IndexFacts
  <2>2. DOMAIN Inserted(f, k, v) = DOMAIN f \cup {k} /\ DOMAIN f \subseteq Keys
    BY MapFacts
  <2>3. k \in DOMAIN f \/ Cardinality(DOMAIN f) < BucketSize
    BY <1>2, <2>1 DEF InsertPair, HasRoom
  <2>4. Cardinality(DOMAIN f) <= BucketSize
    BY <1>1, <2>1 DEF Sizes
  <2>5. Cardinality(DOMAIN f \cup {k}) <= BucketSize
    <3>1. IsFiniteSet(DOMAIN f) /\ Cardinality(DOMAIN f) \in Nat
      BY <2>2, SmallerKeys
    <3>2. CASE k \in DOMAIN f
      <4>1. DOMAIN f \cup {k} = DOMAIN f
        BY <3>2
      <4> QED BY <2>4, <4>1
    <3>3. CASE k \notin DOMAIN f
      <4>1. Cardinality(DOMAIN f \cup {k}) = Cardinality(DOMAIN f) + 1
        BY <3>1, <3>3, FS_AddElement
      <4> QED BY <2>3, <3>1, <3>3, <4>1
    <3> QED BY <3>2, <3>3
  <2>6. /\ Len(buckets') = Len(buckets)
        /\ buckets'[c].dataMap = Inserted(f, k, v)
        /\ \A b \in 1 .. Len(buckets) : b # c => buckets'[b] = buckets[b]
    BY <1>1, <2>1, MapChange
  <2> QED BY <1>1, <2>2, <2>5, <2>6 DEF Sizes
<1>3. CASE EraseKey(t)
  <2>1. PICK c \in 1 .. Len(buckets), f \in Maps, k \in Keys :
          /\ f = buckets[c].dataMap
          /\ Without(f, k) \in Maps
          /\ buckets' = [buckets EXCEPT ![c].dataMap = Without(f, k)]
    BY <1>1, <1>3, EraseKeyFacts, IndexFacts
  <2>2. DOMAIN Without(f, k) = DOMAIN f \ {k} /\ DOMAIN f \subseteq Keys
    BY MapFacts
  <2>3. /\ Cardinality(DOMAIN f \ {k}) <= Cardinality(DOMAIN f)
        /\ Cardinality(DOMAIN f \ {k}) \in Nat /\ Cardinality(DOMAIN f) \in Nat
    BY <2>2, SmallerKeys
  <2>4. Cardinality(DOMAIN f) <= BucketSize
    BY <1>1, <2>1 DEF Sizes
  <2>5. /\ Len(buckets') = Len(buckets)
        /\ buckets'[c].dataMap = Without(f, k)
        /\ \A b \in 1 .. Len(buckets) : b # c => buckets'[b] = buckets[b]
    BY <1>1, <2>1, MapChange
  <2>6. Cardinality(DOMAIN buckets'[c].dataMap) <= BucketSize
    BY <2>2, <2>3, <2>4, <2>5
  <2> QED BY <1>1, <2>5, <2>6 DEF Sizes
<1>4. CASE FindValue(t)
  <2>1. PICK c \in 1 .. Len(buckets), f \in Maps, k \in Keys :
          /\ f = buckets[c].dataMap /\ c = Current(t) /\ k = Key(t)
          /\ Inserted(f, k, Default) \in Maps
          /\ buckets' = [buckets EXCEPT ![c].dataMap = Inserted(f, k, Default)]
    BY <1>1, <1>4, FindValueFacts, IndexFacts
  <2>2. k \in DOMAIN f
    BY <1>1, <1>4, <2>1 DEF FindValue, Alone
  <2>3. Inserted(f, k, Default) = f
    BY <2>2, MapFacts
  <2>4. /\ Len(buckets') = Len(buckets)
        /\ buckets'[c].dataMap = f
        /\ \A b \in 1 .. Len(buckets) : b # c => buckets'[b] = buckets[b]
    BY <1>1, <2>1, <2>3, MapChange
  <2> QED BY <1>1, <2>1, <2>4 DEF Sizes
<1>5. CASE SplitBucket(t)
  <2>1. PICK b, n, d : b = cur[t] /\ n = Len(buckets) /\ d = buckets[b].localDepth
    OBVIOUS
  <2>2. SharedOut(b, n, d)
    BY <1>1, <1>5, <2>1, SplitFacts
  <2>3. b \in 1 .. n /\ n \in Nat /\ Len(buckets') = n + 1
        /\ \A c \in 1 .. n : c # b => buckets'[c] = buckets[c]
    BY <2>2 DEF SharedOut
  <2>4. ASSUME NEW c \in {b, n + 1}
        PROVE  Cardinality(DOMAIN buckets'[c].dataMap) <= BucketSize
    <3> DEFINE S == DOMAIN buckets[b].dataMap
               T == DOMAIN buckets'[c].dataMap
    <3>1. S \in SUBSET Keys /\ T \in SUBSET S
      BY <1>1, <2>1, <2>2, <2>3, <2>4, BucketFacts DEF SharedOut
    <3>2. Cardinality(S) <= BucketSize
      BY <1>1, <2>1, <2>3 DEF Sizes
    <3> HIDE DEF S, T
    <3>3. Cardinality(T) <= BucketSize
      BY <3>1, <3>2, SmallerKeys
    <3> QED BY <3>3 DEF T
  <2>5. \A c \in 1 .. n : c # b => Cardinality(DOMAIN buckets'[c].dataMap) <= BucketSize
    BY <1>1, <2>1, <2>3 DEF Sizes
  <2> QED BY <2>3, <2>4, <2>5 DEF Sizes
<1>6. CASE ~InsertPair(t) /\ ~EraseKey(t) /\ ~FindValue(t) /\ ~SplitBucket(t)
  <2>1. buckets' = buckets
    BY <1>6 DEF Call, Step, GetBucketIndex, FetchBucket, LockFull, LoopAtBound,
                Repoint, LockForRemove, SeekKey, FindKey, tableVars
  <2> QED BY <1>1, <2>1 DEF Sizes
<1> QED BY <1>2, <1>3, <1>4, <1>5, <1>6

LEMMA SerialStep ==
  ASSUME NEW self, Threads = {self}
  PROVE  SerialInv /\ [Next]_vars => SerialInv'
<1> SUFFICES ASSUME SerialInv, [Next]_vars PROVE SerialInv'
  OBVIOUS
<1>1. HashInv'
  BY HashStep DEF SerialInv
<1>2. CASE Next
  <2>1. Call(self) \/ Step(self)
    BY <1>2 DEF Next
  <2> QED BY <1>1, <2>1, AloneStep, NothingRaced, SizesStep DEF SerialInv
<1>3. CASE UNCHANGED vars
  <2>1. UNCHANGED <<mGlobalDepth, mBuckets, buckets, raced, pc, call, index, cur>>
    BY <1>3 DEF vars, tableVars
  <2>2. Alone' /\ Sizes'
    BY <2>1 DEF SerialInv, Alone, Sizes, IndexOf, Current, Key
  <2> QED BY <1>1, <2>1, <2>2 DEF SerialInv
<1> QED BY <1>2, <1>3

LEMMA SerialInit == Init => SerialInv
<1> SUFFICES ASSUME Init PROVE SerialInv
  OBVIOUS
<1>1. Alone /\ raced = {}
  BY DEF Init, Alone
<1>2. Sizes
  <2>1. Len(buckets) = 1 /\ DOMAIN buckets[1].dataMap = {}
    BY DEF Init, NoKeys
  <2> QED BY <2>1, FS_EmptySet DEF Sizes
<1> QED BY <1>1, <1>2, HashInit DEF SerialInv

\* With one thread, as the buffer pool calls the table, every key is in the bucket its
\* hash leads to and in no other, and no bucket has more keys than its size.
THEOREM KeysFound ==
  ASSUME NEW self, Threads = {self}
  PROVE  Spec => []KeysInPlace
<1>1. SerialInv => KeysInPlace
  BY DEF SerialInv, HashInv, Places, Home, Sizes, KeysInPlace
<1> QED BY <1>1, SerialInit, SerialStep, PTL DEF Spec

-----------------------------------------------------------------------------
(* One thread: the table implements a map. *)

\* Contents, of any buckets.
ContentsOf(bs) ==
  LET holds(k) == {b \in 1 .. Len(bs) : k \in DOMAIN bs[b].dataMap} IN
  [k \in {j \in Keys : holds(j) # {}} |-> bs[CHOOSE b \in holds(k) : TRUE].dataMap[k]]

\* No key is in two buckets.
Exclusive(bs) ==
  \A b, c \in 1 .. Len(bs) :
    \A k \in DOMAIN bs[b].dataMap : k \in Keys /\ (k \in DOMAIN bs[c].dataMap => b = c)

\* Then the contents are what each bucket says of its keys.
LEMMA ContentsFacts ==
  ASSUME NEW bs, Exclusive(bs)
  PROVE  /\ ContentsOf(bs) = [k \in DOMAIN ContentsOf(bs) |-> ContentsOf(bs)[k]]
         /\ \A k : k \in DOMAIN ContentsOf(bs)
                     <=> \E b \in 1 .. Len(bs) : k \in DOMAIN bs[b].dataMap
         /\ \A b \in 1 .. Len(bs) : \A k \in DOMAIN bs[b].dataMap :
              ContentsOf(bs)[k] = bs[b].dataMap[k]
<1> DEFINE holds(k) == {b \in 1 .. Len(bs) : k \in DOMAIN bs[b].dataMap}
           D == {j \in Keys : holds(j) # {}}
<1>1. ContentsOf(bs) = [k \in D |-> bs[CHOOSE b \in holds(k) : TRUE].dataMap[k]]
  BY DEF ContentsOf
<1>2. \A k : k \in D <=> \E b \in 1 .. Len(bs) : k \in DOMAIN bs[b].dataMap
  BY DEF Exclusive
<1>3. ASSUME NEW b \in 1 .. Len(bs), NEW k \in DOMAIN bs[b].dataMap
      PROVE  ContentsOf(bs)[k] = bs[b].dataMap[k]
  <2>1. holds(k) = {b}
    BY DEF Exclusive
  <2>2. (CHOOSE c \in holds(k) : TRUE) = b
    BY <2>1
  <2>3. k \in D
    BY <1>2
  <2> HIDE DEF holds, D
  <2> QED BY <1>1, <2>2, <2>3
<1> HIDE DEF D, holds
<1>4. DOMAIN ContentsOf(bs) = D
  BY <1>1
<1> QED BY <1>1, <1>2, <1>3, <1>4

LEMMA SerialExclusive ==
  ASSUME SerialInv
  PROVE  Exclusive(buckets)
<1>1. \A b \in 1 .. Len(buckets) : \A k \in DOMAIN buckets[b].dataMap : k \in Keys /\ b = Home(k)
  BY BucketFacts DEF SerialInv, HashInv, Places
<1> QED BY <1>1 DEF Exclusive

LEMMA SerialExclusiveAfter ==
  ASSUME SerialInv'
  PROVE  Exclusive(buckets')
<1>1. \A b \in 1 .. Len(buckets') : \A k \in DOMAIN buckets'[b].dataMap : b = Home(k)'
  BY DEF SerialInv, HashInv, Places
<1>2. ASSUME NEW b \in 1 .. Len(buckets') PROVE DOMAIN buckets'[b].dataMap \subseteq Keys
  <2>1. buckets' \in Seq(Bucket)
    BY DEF SerialInv, HashInv, Types
  <2>2. buckets'[b] \in Bucket
    BY <2>1
  <2>3. buckets'[b].dataMap \in Maps
    BY <2>2 DEF Bucket
  <2> QED BY <2>3 DEF Maps
<1> QED BY <1>1, <1>2 DEF Exclusive

\* A step that changes no more than where keys are leaves the map.
LEMMA SameContents ==
  ASSUME NEW old, NEW new, Exclusive(old), Exclusive(new),
         \A k : (\E b \in 1 .. Len(new) : k \in DOMAIN new[b].dataMap)
                  <=> \E b \in 1 .. Len(old) : k \in DOMAIN old[b].dataMap,
         \A b \in 1 .. Len(new) : \A k \in DOMAIN new[b].dataMap :
           \E c \in 1 .. Len(old) : /\ k \in DOMAIN old[c].dataMap
                                    /\ new[b].dataMap[k] = old[c].dataMap[k]
  PROVE  ContentsOf(new) = ContentsOf(old)
<1> DEFINE m == ContentsOf(old)
           w == ContentsOf(new)
<1>1. m = [k \in DOMAIN m |-> m[k]] /\ w = [k \in DOMAIN w |-> w[k]]
  BY ContentsFacts
<1>2. DOMAIN w = DOMAIN m
  BY ContentsFacts
<1>3. ASSUME NEW k \in DOMAIN m PROVE w[k] = m[k]
  <2>1. PICK b \in 1 .. Len(new) : k \in DOMAIN new[b].dataMap
    BY ContentsFacts
  <2>2. PICK c \in 1 .. Len(old) : /\ k \in DOMAIN old[c].dataMap
                                   /\ new[b].dataMap[k] = old[c].dataMap[k]
    BY <2>1
  <2> QED BY <2>1, <2>2, ContentsFacts
<1> HIDE DEF m, w
<1>4. w = m
  BY <1>1, <1>2, <1>3
<1> QED BY <1>4 DEF m, w

\* A change of one bucket's map is the same change of the whole.
LEMMA OneBucketContents ==
  ASSUME NEW old, NEW new, Exclusive(old), Exclusive(new), Len(new) = Len(old),
         NEW c \in 1 .. Len(old), \A b \in 1 .. Len(old) : b # c => new[b] = old[b]
  PROVE  /\ \A k : k \notin DOMAIN old[c].dataMap /\ k \notin DOMAIN new[c].dataMap =>
              /\ k \in DOMAIN ContentsOf(new) <=> k \in DOMAIN ContentsOf(old)
              /\ k \in DOMAIN ContentsOf(old) => ContentsOf(new)[k] = ContentsOf(old)[k]
         /\ \A k \in DOMAIN new[c].dataMap :
              k \in DOMAIN ContentsOf(new) /\ ContentsOf(new)[k] = new[c].dataMap[k]
         /\ \A k \in DOMAIN old[c].dataMap :
              k \in DOMAIN ContentsOf(old) /\ ContentsOf(old)[k] = old[c].dataMap[k]
         /\ \A k \in DOMAIN old[c].dataMap :
              k \notin DOMAIN new[c].dataMap => k \notin DOMAIN ContentsOf(new)
<1>1. /\ \A k : k \in DOMAIN ContentsOf(old)
                  <=> \E b \in 1 .. Len(old) : k \in DOMAIN old[b].dataMap
      /\ \A b \in 1 .. Len(old) : \A k \in DOMAIN old[b].dataMap :
           ContentsOf(old)[k] = old[b].dataMap[k]
  BY ContentsFacts
<1>2. /\ \A k : k \in DOMAIN ContentsOf(new)
                  <=> \E b \in 1 .. Len(old) : k \in DOMAIN new[b].dataMap
      /\ \A b \in 1 .. Len(old) : \A k \in DOMAIN new[b].dataMap :
           ContentsOf(new)[k] = new[b].dataMap[k]
  BY ContentsFacts
<1>3. ASSUME NEW k, k \notin DOMAIN old[c].dataMap, k \notin DOMAIN new[c].dataMap
      PROVE  /\ k \in DOMAIN ContentsOf(new) <=> k \in DOMAIN ContentsOf(old)
             /\ k \in DOMAIN ContentsOf(old) => ContentsOf(new)[k] = ContentsOf(old)[k]
  BY <1>1, <1>2, <1>3
<1>4. ASSUME NEW k \in DOMAIN old[c].dataMap, k \notin DOMAIN new[c].dataMap
      PROVE  k \notin DOMAIN ContentsOf(new)
  <2>1. ASSUME NEW b \in 1 .. Len(old), k \in DOMAIN new[b].dataMap PROVE FALSE
    <3>1. b # c
      BY <1>4, <2>1
    <3>2. k \in DOMAIN old[b].dataMap
      BY <2>1, <3>1
    <3> QED BY <3>1, <3>2 DEF Exclusive
  <2> QED BY <1>2, <2>1
<1>5. /\ \A k \in DOMAIN new[c].dataMap :
           k \in DOMAIN ContentsOf(new) /\ ContentsOf(new)[k] = new[c].dataMap[k]
      /\ \A k \in DOMAIN old[c].dataMap :
           k \in DOMAIN ContentsOf(old) /\ ContentsOf(old)[k] = old[c].dataMap[k]
  BY <1>1, <1>2
<1> QED BY <1>3, <1>4, <1>5

\* The map KeyMap has after an insertion.
Grown(m, k, v) == [j \in DOMAIN m \cup {k} |-> IF j \in DOMAIN m THEN m[j] ELSE v]

\* An insertion into the bucket a key belongs to is an insertion into the map.
LEMMA InsertedContents ==
  ASSUME NEW old, NEW new, Exclusive(old), Exclusive(new), Len(new) = Len(old),
         NEW c \in 1 .. Len(old), \A b \in 1 .. Len(old) : b # c => new[b] = old[b],
         NEW k \in Keys, NEW v \in Values, old[c].dataMap \in Maps,
         new[c].dataMap = Inserted(old[c].dataMap, k, v)
  PROVE  ContentsOf(new) = Grown(ContentsOf(old), k, v)
<1> DEFINE was == old[c].dataMap
           m == ContentsOf(old)
           w == ContentsOf(new)
<1>1. /\ DOMAIN Inserted(was, k, v) = DOMAIN was \cup {k}
      /\ \A j \in DOMAIN was : Inserted(was, k, v)[j] = was[j]
      /\ k \notin DOMAIN was => Inserted(was, k, v)[k] = v
  <2>1. was \in Maps
    OBVIOUS
  <2> HIDE DEF was
  <2>2. DOMAIN Inserted(was, k, v) = DOMAIN was \cup {k}
    BY <2>1, MapFacts
  <2>3. \A j \in DOMAIN was : Inserted(was, k, v)[j] = was[j]
    BY DEF Inserted, With
  <2>4. k \notin DOMAIN was => Inserted(was, k, v)[k] = v
    BY <2>1, MapFacts
  <2> QED BY <2>2, <2>3, <2>4
<1>2. w = [j \in DOMAIN w |-> w[j]]
  BY ContentsFacts
<1>3. /\ \A j : j \notin DOMAIN was /\ j \notin DOMAIN new[c].dataMap =>
           /\ j \in DOMAIN w <=> j \in DOMAIN m
           /\ j \in DOMAIN m => w[j] = m[j]
      /\ \A j \in DOMAIN new[c].dataMap : j \in DOMAIN w /\ w[j] = new[c].dataMap[j]
      /\ \A j \in DOMAIN was : j \in DOMAIN m /\ m[j] = was[j]
  BY OneBucketContents
<1>4. k \in DOMAIN m => k \in DOMAIN was
  <2>1. ASSUME k \in DOMAIN m PROVE k \in DOMAIN was
    <3>1. PICK b \in 1 .. Len(old) : k \in DOMAIN old[b].dataMap
      BY <2>1, ContentsFacts
    <3>2. CASE b # c
      <4>1. k \in DOMAIN new[b].dataMap /\ k \in DOMAIN new[c].dataMap
        BY <1>1, <3>1, <3>2
      <4> QED BY <3>2, <4>1 DEF Exclusive
    <3> QED BY <3>1, <3>2
  <2> QED BY <2>1
<1>5. new[c].dataMap = Inserted(was, k, v)
  OBVIOUS
<1> HIDE DEF was, m, w
<1>6. \A j : j \in DOMAIN w <=> j \in DOMAIN m \cup {k}
  BY <1>1, <1>3, <1>5
<1>7. \A j \in DOMAIN w : w[j] = IF j \in DOMAIN m THEN m[j] ELSE v
  BY <1>1, <1>3, <1>4, <1>5, <1>6
<1>8. w = Grown(m, k, v)
  BY <1>2, <1>6, <1>7 DEF Grown
<1> QED BY <1>8 DEF m, w

\* And an erasure is a removal.
LEMMA WithoutContents ==
  ASSUME NEW old, NEW new, Exclusive(old), Exclusive(new), Len(new) = Len(old),
         NEW c \in 1 .. Len(old), \A b \in 1 .. Len(old) : b # c => new[b] = old[b],
         NEW k \in Keys, old[c].dataMap \in Maps,
         new[c].dataMap = Without(old[c].dataMap, k),
         \A b \in 1 .. Len(old) : k \in DOMAIN old[b].dataMap => b = c
  PROVE  ContentsOf(new) = Without(ContentsOf(old), k)
<1> DEFINE was == old[c].dataMap
           m == ContentsOf(old)
           w == ContentsOf(new)
<1>1. /\ DOMAIN Without(was, k) = DOMAIN was \ {k}
      /\ \A j \in DOMAIN was \ {k} : Without(was, k)[j] = was[j]
  BY MapFacts
<1>2. w = [j \in DOMAIN w |-> w[j]]
  BY ContentsFacts
<1>3. /\ \A j : j \notin DOMAIN was /\ j \notin DOMAIN new[c].dataMap =>
           /\ j \in DOMAIN w <=> j \in DOMAIN m
           /\ j \in DOMAIN m => w[j] = m[j]
      /\ \A j \in DOMAIN new[c].dataMap : j \in DOMAIN w /\ w[j] = new[c].dataMap[j]
      /\ \A j \in DOMAIN was : j \in DOMAIN m /\ m[j] = was[j]
      /\ \A j \in DOMAIN was : j \notin DOMAIN new[c].dataMap => j \notin DOMAIN w
  BY OneBucketContents
<1>4. k \in DOMAIN m => k \in DOMAIN was
  BY ContentsFacts
<1>5. new[c].dataMap = Without(was, k)
  OBVIOUS
<1> HIDE DEF was, m, w
<1>6. \A j : j \in DOMAIN w <=> j \in DOMAIN m \ {k}
  <2>1. ASSUME NEW j, j \in DOMAIN was, j # k PROVE j \in DOMAIN w /\ j \in DOMAIN m
    BY <1>1, <1>3, <1>5, <2>1
  <2>2. ASSUME NEW j, j \notin DOMAIN was PROVE j \in DOMAIN w <=> j \in DOMAIN m
    BY <1>1, <1>3, <1>5, <2>2
  <2>3. k \notin DOMAIN w
    BY <1>1, <1>3, <1>4, <1>5
  <2> QED BY <2>1, <2>2, <2>3
<1>7. \A j \in DOMAIN w : w[j] = m[j]
  BY <1>1, <1>3, <1>5, <1>6
<1>8. w = Without(m, k)
  BY <1>2, <1>6, <1>7 DEF Without
<1> QED BY <1>8 DEF m, w

LEMMA ContentsAre ==
  Contents = ContentsOf(buckets) /\ Contents' = ContentsOf(buckets')
BY DEF Contents, ContentsOf

\* The bucket a thread alone uses has its key if any has.
LEMMA OnlyHere ==
  ASSUME SerialInv, NEW t, Threads = {t}, pc[t] \in {"fetch", "lock", "seek", "erase", "found"}
  PROVE  \A b \in 1 .. Len(buckets) : Key(t) \in DOMAIN buckets[b].dataMap => b = Current(t)
BY AloneHome DEF SerialInv, HashInv, Places

LEMMA InsertPairMaps ==
  ASSUME SerialInv, SerialInv', NEW t, Threads = {t}, InsertPair(t)
  PROVE  \E key \in Keys, value \in Values : Map!Insert(key, value)
<1>1. Types /\ t \in Threads
  BY DEF SerialInv, HashInv
<1> DEFINE key == Key(t)
           value == call[t].value
           here == cur[t]
           was == buckets[here].dataMap
<1>2. key \in Keys /\ value \in Values /\ here \in 1 .. Len(buckets)
  BY <1>1, IndexFacts DEF Types
<1>3. was \in Maps
  BY <1>1, <1>2, BucketFacts
<1>4. Inserted(was, key, value) \in Maps
  BY <1>2, <1>3, MapFacts
<1>5. buckets' = [buckets EXCEPT ![here].dataMap = Inserted(was, key, value)] /\ UNCHANGED answer
  BY <1>1, <1>2 DEF InsertPair, Types
<1>6. /\ Len(buckets') = Len(buckets)
      /\ buckets'[here].dataMap = Inserted(was, key, value)
      /\ \A b \in 1 .. Len(buckets) : b # here => buckets'[b] = buckets[b]
  BY <1>1, <1>2, <1>4, <1>5, MapChange
<1>7. Exclusive(buckets) /\ Exclusive(buckets')
  BY SerialExclusive, SerialExclusiveAfter
<1> HIDE DEF key, value, here
<1>8. ContentsOf(buckets') = Grown(ContentsOf(buckets), key, value)
  <2>1. buckets[here].dataMap \in Maps
    BY <1>3
  <2>2. buckets'[here].dataMap = Inserted(buckets[here].dataMap, key, value)
    BY <1>6
  <2>3. Len(buckets') = Len(buckets) /\ \A b \in 1 .. Len(buckets) : b # here => buckets'[b] = buckets[b]
    BY <1>6
  <2> HIDE DEF was
  <2> QED BY <1>2, <1>7, <2>1, <2>2, <2>3, InsertedContents
<1>9. Map!Insert(key, value)
  BY <1>5, <1>8, ContentsAre DEF Map!Insert, Grown
<1> QED BY <1>2, <1>9

LEMMA EraseKeyMaps ==
  ASSUME SerialInv, SerialInv', NEW t, Threads = {t}, EraseKey(t)
  PROVE  \E key \in Keys : Map!Remove(t, key)
<1>1. Types /\ t \in Threads /\ pc[t] = "erase"
  BY DEF SerialInv, HashInv, EraseKey
<1> DEFINE key == Key(t)
           here == Current(t)
           was == buckets[here].dataMap
<1>2. key \in Keys /\ here \in 1 .. Len(buckets)
  BY <1>1, IndexFacts
<1>3. was \in Maps
  BY <1>1, <1>2, BucketFacts
<1>4. Without(was, key) \in Maps
  BY <1>2, <1>3, MapFacts
<1>5. /\ buckets' = [buckets EXCEPT ![here].dataMap = Without(was, key)]
      /\ answer' = [answer EXCEPT ![t] = "removed"]
  BY <1>1, <1>2 DEF EraseKey, Answer, Types
<1>6. /\ Len(buckets') = Len(buckets)
      /\ buckets'[here].dataMap = Without(was, key)
      /\ \A b \in 1 .. Len(buckets) : b # here => buckets'[b] = buckets[b]
  BY <1>1, <1>2, <1>4, <1>5, MapChange
<1>7. Exclusive(buckets) /\ Exclusive(buckets')
  BY SerialExclusive, SerialExclusiveAfter
<1>8. \A b \in 1 .. Len(buckets) : key \in DOMAIN buckets[b].dataMap => b = here
  BY <1>1, OnlyHere
<1> HIDE DEF key, here
<1>9. ContentsOf(buckets') = Without(ContentsOf(buckets), key)
  <2>1. buckets[here].dataMap \in Maps
    BY <1>3
  <2>2. buckets'[here].dataMap = Without(buckets[here].dataMap, key)
    BY <1>6
  <2>3. Len(buckets') = Len(buckets) /\ \A b \in 1 .. Len(buckets) : b # here => buckets'[b] = buckets[b]
    BY <1>6
  <2> HIDE DEF was
  <2> QED BY <1>2, <1>7, <1>8, <2>1, <2>2, <2>3, WithoutContents
<1>a. key \in DOMAIN was
  BY <1>1 DEF SerialInv, Alone, key, here
<1>10. key \in DOMAIN ContentsOf(buckets)
  BY <1>2, <1>7, <1>8, <1>a, ContentsFacts
<1>11. Map!Remove(t, key)
  BY <1>5, <1>9, <1>10, ContentsAre DEF Map!Remove, Without
<1> QED BY <1>2, <1>11

LEMMA SeekKeyMaps ==
  ASSUME SerialInv, SerialInv', NEW t, Threads = {t}, SeekKey(t)
  PROVE  (\E k \in Keys : Map!Remove(t, k)) \/ UNCHANGED <<buckets, answer>>
<1>1. Types /\ t \in Threads /\ pc[t] = "seek"
  BY DEF SerialInv, HashInv, SeekKey
<1> DEFINE k == Key(t)
           c == Current(t)
<1>2. k \in Keys /\ c \in 1 .. Len(buckets)
  BY <1>1, IndexFacts
<1>3. UNCHANGED buckets
  BY DEF SeekKey, tableVars
<1>4. CASE k \in DOMAIN buckets[c].dataMap
  BY <1>3, <1>4 DEF SeekKey
<1>5. CASE k \notin DOMAIN buckets[c].dataMap
  <2>1. answer' = [answer EXCEPT ![t] = NotFound]
    BY <1>5 DEF SeekKey, Answer
  <2>2. \A b \in 1 .. Len(buckets) : k \in DOMAIN buckets[b].dataMap => b = c
    BY <1>1, OnlyHere
  <2>3. k \notin DOMAIN ContentsOf(buckets)
    BY <1>5, <2>2, SerialExclusive, ContentsFacts
  <2>4. ContentsOf(buckets) = [j \in DOMAIN ContentsOf(buckets) |-> ContentsOf(buckets)[j]]
    BY SerialExclusive, ContentsFacts
  <2> HIDE DEF k
  <2>5. Map!Remove(t, k)
    BY <1>3, <2>1, <2>3, <2>4, ContentsAre DEF Map!Remove
  <2> QED BY <1>2, <2>5
<1> QED BY <1>4, <1>5

LEMMA FindKeyMaps ==
  ASSUME SerialInv, SerialInv', NEW t, Threads = {t}, FindKey(t)
  PROVE  (\E k \in Keys : Map!Find(t, k)) \/ UNCHANGED <<buckets, answer>>
<1>1. Types /\ t \in Threads /\ pc[t] = "fetch"
  BY DEF SerialInv, HashInv, FindKey, Calling
<1> DEFINE k == Key(t)
           c == Current(t)
<1>2. k \in Keys /\ c \in 1 .. Len(buckets)
  BY <1>1, IndexFacts
<1>3. UNCHANGED buckets
  BY DEF FindKey, tableVars
<1>4. CASE k \in DOMAIN buckets[c].dataMap
  BY <1>3, <1>4 DEF FindKey
<1>5. CASE k \notin DOMAIN buckets[c].dataMap
  <2>1. answer' = [answer EXCEPT ![t] = NotFound]
    BY <1>5 DEF FindKey, Answer
  <2>2. \A b \in 1 .. Len(buckets) : k \in DOMAIN buckets[b].dataMap => b = c
    BY <1>1, OnlyHere
  <2>3. k \notin DOMAIN ContentsOf(buckets)
    BY <1>5, <2>2, SerialExclusive, ContentsFacts
  <2> HIDE DEF k
  <2>4. Map!Find(t, k)
    BY <1>3, <2>1, <2>3, ContentsAre DEF Map!Find
  <2> QED BY <1>2, <2>4
<1> QED BY <1>4, <1>5

LEMMA FindValueMaps ==
  ASSUME SerialInv, SerialInv', NEW t, Threads = {t}, FindValue(t)
  PROVE  \E k \in Keys : Map!Find(t, k)
<1>1. Types /\ t \in Threads /\ pc[t] = "found"
  BY DEF SerialInv, HashInv, FindValue
<1> DEFINE k == Key(t)
           c == Current(t)
           f == buckets[c].dataMap
<1>2. k \in Keys /\ c \in 1 .. Len(buckets)
  BY <1>1, IndexFacts
<1>3. f \in Maps /\ k \in DOMAIN f
  BY <1>1, <1>2, BucketFacts DEF SerialInv, Alone
<1>4. Inserted(f, k, Default) = f
  BY <1>3 DEF Inserted
<1>5. buckets' = [buckets EXCEPT ![c].dataMap = f]
  BY <1>1, <1>2, <1>4 DEF FindValue, Types
<1>6. /\ Len(buckets') = Len(buckets)
      /\ buckets'[c].dataMap = f
      /\ \A b \in 1 .. Len(buckets) : b # c => buckets'[b] = buckets[b]
  BY <1>1, <1>2, <1>3, <1>5, MapChange
<1>7. answer' = [answer EXCEPT ![t] = f[k]]
  BY <1>6 DEF FindValue, Answer
<1>8. Exclusive(buckets) /\ Exclusive(buckets')
  BY SerialExclusive, SerialExclusiveAfter
<1>9. k \in DOMAIN ContentsOf(buckets) /\ ContentsOf(buckets)[k] = f[k]
  BY <1>2, <1>3, <1>8, ContentsFacts
<1>10. \A b \in 1 .. Len(buckets) : buckets'[b].dataMap = buckets[b].dataMap
  BY <1>6
<1> HIDE DEF k, c
<1>11. ContentsOf(buckets') = ContentsOf(buckets)
  BY <1>6, <1>8, <1>10, SameContents
<1>12. Map!Find(t, k)
  BY <1>7, <1>9, <1>11, ContentsAre DEF Map!Find
<1> QED BY <1>2, <1>12

\* A split moves keys from a bucket to a new one, and none comes or goes.
LEMMA SplitBucketMaps ==
  ASSUME SerialInv, SerialInv', NEW t, Threads = {t}, SplitBucket(t)
  PROVE  ContentsOf(buckets') = ContentsOf(buckets) /\ UNCHANGED answer
<1>1. Types /\ t \in Threads
  BY DEF SerialInv, HashInv
<1>2. PICK b, n, d : b = cur[t] /\ n = Len(buckets) /\ d = buckets[b].localDepth
  OBVIOUS
<1>3. SharedOut(b, n, d)
  BY <1>1, <1>2, SplitFacts
<1>4. /\ n \in Nat /\ b \in 1 .. n /\ Len(buckets') = n + 1
      /\ \A c \in 1 .. n : c # b => buckets'[c] = buckets[c]
      /\ \A k : k \in DOMAIN buckets'[b].dataMap
                  <=> k \in DOMAIN buckets[b].dataMap /\ ~Bit(k, d)
      /\ \A k : k \in DOMAIN buckets'[n + 1].dataMap
                  <=> k \in DOMAIN buckets[b].dataMap /\ Bit(k, d)
      /\ \A k \in DOMAIN buckets'[b].dataMap :
           buckets'[b].dataMap[k] = buckets[b].dataMap[k]
      /\ \A k \in DOMAIN buckets'[n + 1].dataMap :
           buckets'[n + 1].dataMap[k] = buckets[b].dataMap[k]
  BY <1>3 DEF SharedOut
<1>5. ASSUME NEW c \in 1 .. n + 1, NEW k \in DOMAIN buckets'[c].dataMap
      PROVE  \E a \in 1 .. n : /\ k \in DOMAIN buckets[a].dataMap
                               /\ buckets'[c].dataMap[k] = buckets[a].dataMap[k]
  <2>1. CASE c \in {b, n + 1}
    BY <1>4, <1>5, <2>1
  <2>2. CASE c \notin {b, n + 1}
    <3>1. c \in 1 .. n /\ buckets'[c] = buckets[c]
      BY <1>4, <2>2
    <3> QED BY <1>5, <3>1
  <2> QED BY <2>1, <2>2
<1>6. ASSUME NEW a \in 1 .. n, NEW k \in DOMAIN buckets[a].dataMap
      PROVE  \E c \in 1 .. n + 1 : k \in DOMAIN buckets'[c].dataMap
  <2>1. a \in 1 .. n + 1 /\ b \in 1 .. n + 1 /\ n + 1 \in 1 .. n + 1
    BY <1>4
  <2> QED BY <1>4, <1>6, <2>1
<1>7. Exclusive(buckets) /\ Exclusive(buckets')
  BY SerialExclusive, SerialExclusiveAfter
<1>8. UNCHANGED answer
  BY DEF SplitBucket
<1>9. /\ \A k : (\E c \in 1 .. Len(buckets') : k \in DOMAIN buckets'[c].dataMap)
                   <=> \E a \in 1 .. Len(buckets) : k \in DOMAIN buckets[a].dataMap
      /\ \A c \in 1 .. Len(buckets') : \A k \in DOMAIN buckets'[c].dataMap :
           \E a \in 1 .. Len(buckets) : /\ k \in DOMAIN buckets[a].dataMap
                                        /\ buckets'[c].dataMap[k] = buckets[a].dataMap[k]
  BY <1>2, <1>4, <1>5, <1>6
<1>10. ContentsOf(buckets') = ContentsOf(buckets)
  BY <1>7, <1>9, SameContents
<1> QED BY <1>8, <1>10

LEMMA TableStepMaps ==
  ASSUME NEW self, Threads = {self}
  PROVE  SerialInv /\ SerialInv' /\ [Next]_vars => [Map!Next]_(Map!vars)
<1> SUFFICES ASSUME SerialInv, SerialInv', [Next]_vars
             PROVE  Map!Next \/ UNCHANGED <<Contents, answer>>
  BY DEF Map!vars
<1>1. CASE InsertPair(self)
  BY <1>1, InsertPairMaps DEF Map!Next
<1>2. CASE EraseKey(self)
  BY <1>2, EraseKeyMaps DEF Map!Next
<1>7. CASE SeekKey(self)
  BY <1>7, SeekKeyMaps, ContentsAre DEF Map!Next
<1>3. CASE FindKey(self)
  BY <1>3, FindKeyMaps, ContentsAre DEF Map!Next
<1>4. CASE FindValue(self)
  BY <1>4, FindValueMaps DEF Map!Next
<1>5. CASE SplitBucket(self)
  BY <1>5, SplitBucketMaps, ContentsAre
<1>6. CASE \/ Call(self) \/ GetBucketIndex(self) \/ FetchBucket(self) \/ LockFull(self)
           \/ LoopAtBound(self) \/ Repoint(self) \/ LockForRemove(self) \/ UNCHANGED vars
  <2>1. UNCHANGED <<buckets, answer>>
    BY <1>6 DEF Call, GetBucketIndex, FetchBucket, LockFull, LoopAtBound, Repoint,
                LockForRemove, vars, tableVars
  <2> QED BY <2>1, ContentsAre
<1> QED BY <1>1, <1>2, <1>3, <1>4, <1>5, <1>6, <1>7 DEF Next, Step

LEMMA InitMaps == Init => Map!Init
<1> SUFFICES ASSUME Init PROVE Map!Init
  OBVIOUS
<1>1. \A b \in 1 .. Len(buckets) : DOMAIN buckets[b].dataMap = {}
  BY DEF Init, NoKeys
<1>2. SerialInv
  BY SerialInit
<1>3. /\ ContentsOf(buckets) = [k \in DOMAIN ContentsOf(buckets) |-> ContentsOf(buckets)[k]]
      /\ DOMAIN ContentsOf(buckets) = {}
  BY <1>1, <1>2, SerialExclusive, ContentsFacts
<1>4. ContentsOf(buckets) = [k \in {} |-> NotFound]
  BY <1>3
<1> QED BY <1>4, ContentsAre DEF Map!Init, Init

\* With one thread the table implements a map, on which every call acts at one instant:
\* what Find and Remove answer is what the Inserts and Removes before them say, through
\* any number of splits and doublings of the directory.
THEOREM TableImplementsKeyMap ==
  ASSUME NEW self, Threads = {self}
  PROVE  Spec => ImplementsKeyMap
<1>1. SerialInv /\ SerialInv' /\ [Next]_vars => [Map!Next]_(Map!vars)
  BY TableStepMaps
<1>2. SerialInv /\ [Next]_vars => SerialInv'
  BY SerialStep
<1> QED BY <1>1, <1>2, InitMaps, SerialInit, PTL DEF Spec, Map!Spec, ImplementsKeyMap

===============================================================================
