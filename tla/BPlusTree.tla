------------------------------- MODULE BPlusTree -------------------------------
(***************************************************************************)
(* The B+ tree of index/b_plus_tree.cpp over the node pages of             *)
(* page/b_plus_tree_*.cpp: search, insertion with splits, removal with     *)
(* merges and redistribution, and the latch crabbing that lets threads do  *)
(* them at the same time.                                                  *)
(*                                                                         *)
(* A step ends where a thread may have to wait: at the root lock mMutex_   *)
(* or at the latch of a page.  What it does to pages whose latches it      *)
(* holds exclusively nobody can see before it releases them; a removal and *)
(* an insertion take one step per level.  The locks are those of module    *)
(* RWMutex: a writer that has entered keeps new readers out while it waits *)
(* for those inside.                                                       *)
(*                                                                         *)
(* The buffer pool is taken to be large enough: NewPage and FetchPage      *)
(* succeed, and a page's content is where its id says (PageStore).  Pages  *)
(* that are fetched and unpinned within a step are not mentioned.  Page    *)
(* ids are only compared, so ids of deleted pages are used again.          *)
(*                                                                         *)
(* A scan is a thread with an iterator (index/index_iterator.cpp), which   *)
(* keeps a leaf latched for reading while its caller looks at the entries. *)
(* Callers are taken to remove nothing while a scan is open, and to begin  *)
(* at the front or at a key that is there.                                 *)
(***************************************************************************)
EXTENDS Integers, SequencesExt

CONSTANTS
  Threads,
  Ops,           \* the operations they call: among "Insert", "Find", "Remove", "Scan"
  Keys,          \* the keys they call them with
  Values,
  MaxPages,      \* bound: the tree's pages are 1 .. MaxPages
  LeafMax,       \* max_size_ of a leaf: what fits a page, less one
  InternalMax,   \* max_size_ of an internal page
  Nobody,        \* no thread
  NotFound,      \* the answer of a GetValue that returns false
  Pending        \* the answer of a call that has none yet

INVALID_PAGE_ID == -1
NoRecord == -2          \* the header page has no record of this index
PageIds == 1 .. MaxPages

\* The smallest sizes for which a page holds what splits and merges move.
ASSUME TreeAssumption ==
  /\ Ops \subseteq {"Insert", "Find", "Remove", "Scan"}
  /\ Keys \subseteq Nat \ {0} /\ IsFiniteSet(Keys)
  /\ MaxPages \in Nat
  /\ LeafMax \in Nat /\ LeafMax >= 2
  /\ InternalMax \in Nat /\ InternalMax >= 3
  /\ Nobody \notin Threads
  /\ {NotFound, Pending} \cap Values = {}

\* A call that has no answer yet can be told from one that has.
ASSUME AnswerAssumption ==
  Pending \notin {"inserted", "duplicate", "removed", "end", NotFound}

VARIABLES
  root_page_id,  \* root_page_id_
  header,        \* the root page id in the header page, or NoRecord
  node,          \* page id -> its node; only the pages that exist
  rootLock,      \* mMutex_
  latch,         \* page id -> its latch
  pc,            \* thread -> the point it has reached
  call,          \* thread -> the call it is making, or NoCall
  target,        \* thread -> the page it is about to latch, then its leaf
  pages,         \* thread -> its transaction's page set: what it has latched
  doomed,        \* thread -> its transaction's deleted page set
  at,            \* thread -> the node it splits or merges
  fresh,         \* thread -> the node it has split off
  answer         \* thread -> the answer of its call, or Pending

treeVars == <<root_page_id, header, node>>
lockVars == <<rootLock, latch>>
vars == <<treeVars, lockVars, pc, call, target, pages, doomed, at, fresh, answer>>

\* The entries of a node: array[i].first and .second.  A leaf maps keys to values,
\* an internal node separators to children; its first separator means nothing to
\* a search.  A key that was never set is 0.
Entry(second) == [first : Nat, second : second]
Node == [leaf : BOOLEAN, array : Seq(Entry(Values) \cup Entry(PageIds)),
         parent : PageIds \cup {INVALID_PAGE_ID}, next : PageIds \cup {INVALID_PAGE_ID}]

Lock == [entered : Threads \cup {Nobody}, readers : SUBSET Threads]
FreeLock == [entered |-> Nobody, readers |-> {}]

Calls == [op : Ops \ {"Scan"}, key : Keys, value : Values]
\* A scan from the first key that is not less than `key`, which has gone through the keys
\* `seen`; as history the keys from there on that the index had when it began.
ScanCalls == [op : {"Scan"}, key : Nat, seen : Seq(Nat), owed : SUBSET Nat]
NoCall == [op |-> "none", key |-> 0]
Points == {"idle", "check", "empty", "root", "latch", "leaf", "split", "parent",
           "underflow", "scan", "walk", "free", "crashed"}

TypeOK ==
  /\ root_page_id \in PageIds \cup {INVALID_PAGE_ID}
  /\ header \in PageIds \cup {INVALID_PAGE_ID, NoRecord}
  /\ DOMAIN node \subseteq PageIds
  /\ \A p \in DOMAIN node : node[p] \in Node
  /\ rootLock \in Lock
  /\ latch \in [PageIds -> Lock]
  /\ pc \in [Threads -> Points]
  /\ call \in [Threads -> Calls \cup ScanCalls \cup {NoCall}]
  /\ \A local \in {target, at, fresh} :
       local \in [Threads -> PageIds \cup {INVALID_PAGE_ID}]
  /\ pages \in [Threads -> SUBSET PageIds]
  /\ doomed \in [Threads -> SUBSET PageIds]
  /\ answer \in [Threads -> Values \cup {"inserted", "duplicate", "removed", "end",
                                       NotFound, Pending}]

EmptyTree ==
  /\ root_page_id = INVALID_PAGE_ID
  /\ header = NoRecord
  /\ node = [p \in {} |-> 0]

NoCalls ==
  /\ rootLock = FreeLock
  /\ latch = [p \in PageIds |-> FreeLock]
  /\ pc = [t \in Threads |-> "idle"]
  /\ call = [t \in Threads |-> NoCall]
  /\ target = [t \in Threads |-> INVALID_PAGE_ID]
  /\ pages = [t \in Threads |-> {}]
  /\ doomed = [t \in Threads |-> {}]
  /\ at = [t \in Threads |-> INVALID_PAGE_ID]
  /\ fresh = [t \in Threads |-> INVALID_PAGE_ID]
  /\ answer = [t \in Threads |-> Pending]

Init == EmptyTree /\ NoCalls

-----------------------------------------------------------------------------
(* Nodes. *)

MaxSize(n) == IF n.leaf THEN LeafMax ELSE InternalMax

MinSize(n) ==
  IF n.parent = INVALID_PAGE_ID THEN IF n.leaf THEN 1 ELSE 2
  ELSE MaxSize(n) \div 2

Size(n) == Len(n.array)

\* isSafe: the operation cannot reach the parent of n.
IsSafe(n, op) ==
  IF op = "Insert" THEN Size(n) < MaxSize(n)
  ELSE IF n.leaf THEN Size(n) >= MinSize(n) + 1
  ELSE Size(n) > MinSize(n) + 1

Pair(first, second) == [first |-> first, second |-> second]

\* The position of the first entry whose key is not less than k: KeyIndex.
KeyIndex(n, k) == Cardinality({i \in 1 .. Size(n) : n.array[i].first < k}) + 1

Has(n, k) == KeyIndex(n, k) <= Size(n) /\ n.array[KeyIndex(n, k)].first = k

\* The child of n that leads to k: the internal page's Lookup.
ChildFor(n, k) ==
  n.array[1 + Cardinality({i \in 2 .. Size(n) : n.array[i].first <= k})].second

\* The position of child p: ValueIndex.
ValueIndex(n, p) == CHOOSE i \in 1 .. Size(n) : n.array[i].second = p

Children(n) == IF n.leaf THEN {} ELSE {n.array[i].second : i \in 1 .. Size(n)}

\* The nodes s, with the children of n told that p is their parent.
Adopt(s, n, p) ==
  [q \in DOMAIN s |-> IF q \in Children(n) THEN [s[q] EXCEPT !.parent = p] ELSE s[q]]

\* The nodes s and a new one.
Added(s, p, n) == [q \in DOMAIN s \cup {p} |-> IF q = p THEN n ELSE s[q]]

\* The entries of all leaves, with their values.
Contents ==
  LET leaves == {p \in DOMAIN node : node[p].leaf}
      entries == UNION {{node[p].array[i] : i \in 1 .. Size(node[p])} : p \in leaves}
  IN  [k \in {e.first : e \in entries} |-> (CHOOSE e \in entries : e.first = k).second]

Present == DOMAIN Contents

\* NewPage: a page id not in use.
CanAllocate == DOMAIN node # PageIds
NewPageId == CHOOSE p \in PageIds \ DOMAIN node : \A q \in PageIds \ DOMAIN node : p <= q

-----------------------------------------------------------------------------
(* Locks. *)

Exclusive(t) == call[t].op \in {"Insert", "Remove"}

Granted(l, t) ==
  IF Exclusive(t) THEN l.readers = {} /\ l.entered \in {Nobody, t}
  ELSE l.entered = Nobody

Locked(l, t) ==
  IF Exclusive(t) THEN [l EXCEPT !.entered = t] ELSE [l EXCEPT !.readers = @ \cup {t}]

Unlocked(l, t) ==
  [entered |-> IF l.entered = t THEN Nobody ELSE l.entered, readers |-> l.readers \ {t}]

\* Mutant: a page that is to be deleted is not unlatched.
ReleasedKept(ps, t) ==
  [p \in PageIds |-> IF p \in ps \ doomed[t] THEN Unlocked(latch[p], t) ELSE latch[p]]

\* The latches once t has released those of the pages ps.
Released(ps, t) ==
  [p \in PageIds |-> IF p \in ps THEN Unlocked(latch[p], t) ELSE latch[p]]

-----------------------------------------------------------------------------
(* Steps. *)

Crashed == \E t \in Threads : pc[t] = "crashed"

\* t is at point p.  Dereferencing nullptr ends the process, with all its threads.
At(t, p) == pc[t] = p /\ ~Crashed

GoTo(t, p) == pc' = [pc EXCEPT ![t] = p]

Reply(t, a) == answer' = [answer EXCEPT ![t] = a]

Calling(op) == \E t \in Threads : call[t].op = op

Call(t) ==
  /\ At(t, "idle")
  /\ \E c \in Calls :
       /\ c.op = "Remove" => ~Calling("Scan")
       /\ c.op # "Insert" => c.value = CHOOSE v \in Values : TRUE
       /\ call' = [call EXCEPT ![t] = c]
       /\ GoTo(t, CASE c.op = "Insert" -> "check"
                    [] c.op = "Remove" -> "empty"
                    [] OTHER -> "root")
  /\ UNCHANGED <<treeVars, lockVars, target, pages, doomed, at, fresh, answer>>

\* Begin, without a key or with one that is there.
CallScan(t) ==
  /\ At(t, "idle")
  /\ "Scan" \in Ops
  /\ ~Calling("Remove")
  /\ \E low \in {0} \cup (Keys \cap Present) :
       call' = [call EXCEPT ![t] = [op |-> "Scan", key |-> low, seen |-> <<>>,
                                    owed |-> {k \in Present : k >= low}]]
  /\ GoTo(t, "root")
  /\ UNCHANGED <<treeVars, lockVars, target, pages, doomed, at, fresh, answer>>

\* Insert looks whether the tree is empty, under the root lock ...
CheckEmpty(t) ==
  /\ At(t, "check")
  /\ Granted(rootLock, t)
  /\ root_page_id # INVALID_PAGE_ID
  /\ rootLock' = Unlocked(rootLock, t)
  /\ GoTo(t, "root")
  /\ UNCHANGED <<treeVars, latch, call, target, pages, doomed, at, fresh, answer>>

\* HeaderPage::InsertRecord refuses a name it has.
RecordInserted(p) == IF header = NoRecord THEN p ELSE header

\* Mutant: a root that changes is inserted once more.
RecordReinserted(p) == RecordInserted(p)

\* HeaderPage::UpdateRecord refuses a name it does not have.
RecordUpdated(p) == IF header = NoRecord THEN NoRecord ELSE p

\* ... and if so starts a new one with a single leaf.
StartNewTree(t) ==
  LET p == NewPageId IN
  /\ At(t, "check")
  /\ CanAllocate
  /\ Granted(rootLock, t)
  /\ root_page_id = INVALID_PAGE_ID
  /\ root_page_id' = p
  /\ header' = RecordInserted(p)
  /\ node' = Added(node, p, [leaf   |-> TRUE,
                             array  |-> <<Pair(call[t].key, call[t].value)>>,
                             parent |-> INVALID_PAGE_ID,
                             next   |-> INVALID_PAGE_ID])
  /\ rootLock' = Unlocked(rootLock, t)
  /\ Reply(t, "inserted")
  /\ GoTo(t, "free")
  /\ UNCHANGED <<latch, call, target, pages, doomed, at, fresh>>

\* Remove looks without a lock.
IsEmpty(t) ==
  /\ At(t, "empty")
  /\ IF root_page_id = INVALID_PAGE_ID
     THEN Reply(t, "removed") /\ GoTo(t, "free")
     ELSE GoTo(t, "root") /\ UNCHANGED answer
  /\ UNCHANGED <<treeVars, lockVars, call, target, pages, doomed, at, fresh>>

\* FindLeafPage starts at the root, whose id stays locked.  In an empty tree it
\* returns nullptr: GetValue returns, InsertIntoLeaf and Remove dereference it.
FindRoot(t) ==
  /\ At(t, "root")
  /\ Granted(rootLock, t)
  /\ IF root_page_id = INVALID_PAGE_ID
     THEN /\ rootLock' = Unlocked(rootLock, t)
          /\ IF Exclusive(t) THEN GoTo(t, "crashed") /\ UNCHANGED answer
                             ELSE GoTo(t, "free") /\ Reply(t, NotFound)
          /\ UNCHANGED target
     ELSE /\ rootLock' = Locked(rootLock, t)
          /\ target' = [target EXCEPT ![t] = root_page_id]
          /\ GoTo(t, "latch")
          /\ UNCHANGED answer
  /\ UNCHANGED <<treeVars, latch, call, pages, doomed, at, fresh>>

\* Mutant: a removal releases the ancestors as early as an insertion.
ReleasesTooEarly(t, n) == ~Exclusive(t) \/ IsSafe(n, "Insert")

\* Mutant: an insertion takes a full page for one with room.
ReleasesWhenFull(t, n) ==
  ~Exclusive(t) \/ IF call[t].op = "Insert" THEN Size(n) <= MaxSize(n) ELSE IsSafe(n, call[t].op)

\* The ancestors can be released once n is latched.
ReleasesAncestors(t, n) == ~Exclusive(t) \/ IsSafe(n, call[t].op)

\* CrabingProtocalFetchPage: latch the next page, then release the root's id and
\* the ancestors if there are any and they are not needed.
LatchPage(t) ==
  LET p == target[t]
      n == node[p]
      release == pages[t] # {} /\ ReleasesAncestors(t, n)
  IN
  /\ At(t, "latch")
  /\ Granted(latch[p], t)
  /\ latch' = [(IF release THEN Released(pages[t], t) ELSE latch) EXCEPT
                 ![p] = Locked(@, t)]
  /\ rootLock' = IF release THEN Unlocked(rootLock, t) ELSE rootLock
  /\ pages' = [pages EXCEPT ![t] = IF release THEN {p} ELSE @ \cup {p}]
  /\ IF n.leaf
     THEN GoTo(t, "leaf") /\ UNCHANGED target
     ELSE target' = [target EXCEPT ![t] = ChildFor(n, call[t].key)] /\ UNCHANGED pc
  /\ UNCHANGED <<treeVars, call, doomed, at, fresh, answer>>

\* A writer enters a lock that readers hold, and waits for them to leave.
EnterRootLock(t) ==
  /\ At(t, "check") \/ At(t, "root")
  /\ Exclusive(t)
  /\ rootLock.entered = Nobody /\ rootLock.readers # {}
  /\ rootLock' = Locked(rootLock, t)
  /\ UNCHANGED <<treeVars, latch, pc, call, target, pages, doomed, at, fresh, answer>>

EnterLatch(t, p) ==
  /\ latch[p].entered = Nobody /\ latch[p].readers # {}
  /\ latch' = [latch EXCEPT ![p] = Locked(@, t)]
  /\ UNCHANGED <<treeVars, rootLock, pc, call, target, pages, doomed, at, fresh, answer>>

EnterPage(t) == At(t, "latch") /\ Exclusive(t) /\ EnterLatch(t, target[t])

\* GetValue in the leaf.
GetValue(t) ==
  LET n == node[target[t]]
      k == call[t].key
  IN
  /\ At(t, "leaf") /\ call[t].op = "Find"
  /\ Reply(t, IF Has(n, k) THEN n.array[KeyIndex(n, k)].second ELSE NotFound)
  /\ GoTo(t, "free")
  /\ UNCHANGED <<treeVars, lockVars, call, target, pages, doomed, at, fresh>>

\* InsertIntoLeaf, in the leaf.
InsertIntoLeaf(t) ==
  LET p == target[t]
      n == node[p]
      k == call[t].key
  IN
  /\ At(t, "leaf") /\ call[t].op = "Insert"
  /\ IF Has(n, k)
     THEN /\ Reply(t, "duplicate")
          /\ GoTo(t, "free")
          /\ UNCHANGED <<node, at>>
     ELSE /\ Reply(t, "inserted")
          /\ node' = [node EXCEPT ![p].array =
                        InsertAt(@, KeyIndex(n, k), Pair(k, call[t].value))]
          /\ GoTo(t, IF Size(n) + 1 > MaxSize(n) THEN "split" ELSE "free")
          /\ at' = [at EXCEPT ![t] = p]
  /\ UNCHANGED <<root_page_id, header, lockVars, call, target, pages, doomed, fresh>>

\* Mutant: the new leaf keeps the zero of its new page, the id of the header page.
NextUnset(n) == 0

\* The next leaf of the leaf split off from n.
NextOfFresh(n) == n.next

\* Mutant: the new leaf is not linked behind the one it is split off from.
NextKept(n, new) == n.next

\* The next leaf of n, from which the leaf new is split off.
NextOfLower(n, new) == IF n.leaf THEN new ELSE n.next

\* Split, with MoveHalfTo: the upper half of the overfull node moves to a new page.
SplitNode(t) ==
  LET p == at[t]
      new == NewPageId
      n == node[p]
      mid == (MaxSize(n) + 1) \div 2
      upper == [n EXCEPT !.array = SubSeq(@, mid + 1, Size(n)), !.next = NextOfFresh(n)]
      lower == [n EXCEPT !.array = SubSeq(@, 1, mid), !.next = NextOfLower(n, new)]
  IN
  /\ At(t, "split")
  /\ CanAllocate
  /\ node' = Adopt(Added([node EXCEPT ![p] = lower], new, upper), upper, new)
  /\ latch' = [latch EXCEPT ![new] = Locked(@, t)]
  /\ pages' = [pages EXCEPT ![t] = @ \cup {new}]
  /\ fresh' = [fresh EXCEPT ![t] = new]
  /\ GoTo(t, "parent")
  /\ UNCHANGED <<root_page_id, header, rootLock, call, target, doomed, at, answer>>

\* InsertIntoParent of a node that was the root: a new root gets both halves.
GrowRoot(t) ==
  LET old == at[t]
      new == fresh[t]
      p == NewPageId
      halves == <<Pair(0, old), Pair(node[new].array[1].first, new)>>
      root == [leaf |-> FALSE, array |-> halves,
               parent |-> INVALID_PAGE_ID, next |-> INVALID_PAGE_ID]
  IN
  /\ At(t, "parent")
  /\ CanAllocate
  /\ node[old].parent = INVALID_PAGE_ID
  /\ root_page_id' = p
  /\ header' = RecordUpdated(p)
  /\ node' = Adopt(Added(node, p, root), root, p)
  /\ GoTo(t, "free")
  /\ UNCHANGED <<lockVars, call, target, pages, doomed, at, fresh, answer>>

\* Where InsertNodeAfter puts the node split off from old.
AfterOld(n, old) == ValueIndex(n, old) + 1

\* InsertIntoParent of another node; the parent may have to be split in turn.
InsertIntoParent(t) ==
  LET old == at[t]
      new == fresh[t]
      par == node[old].parent
      n == node[par]
  IN
  /\ At(t, "parent")
  /\ par # INVALID_PAGE_ID
  /\ node' = [node EXCEPT ![new].parent = par,
                          ![par].array = InsertAt(@, AfterOld(n, old),
                                           Pair(node[new].array[1].first, new))]
  /\ at' = [at EXCEPT ![t] = par]
  /\ GoTo(t, IF Size(n) + 1 > MaxSize(n) THEN "split" ELSE "free")
  /\ UNCHANGED <<root_page_id, header, lockVars, call, target, pages, doomed, fresh, answer>>

LeafTooSmall(n, size) == size < MinSize(n)

\* Remove, in the leaf.
RemoveFromLeaf(t) ==
  LET p == target[t]
      n == node[p]
      k == call[t].key
      size == Size(n) - (IF Has(n, k) THEN 1 ELSE 0)
  IN
  /\ At(t, "leaf") /\ call[t].op = "Remove"
  /\ Reply(t, "removed")
  /\ node' = [node EXCEPT ![p].array = IF Has(n, k) THEN RemoveAt(@, KeyIndex(n, k)) ELSE @]
  /\ at' = [at EXCEPT ![t] = p]
  /\ GoTo(t, IF LeafTooSmall(n, size) THEN "underflow" ELSE "free")
  /\ UNCHANGED <<root_page_id, header, lockVars, call, target, pages, doomed, fresh>>

\* AdjustRoot: an empty root leaf goes, and so does an internal root with one child;
\* any other small root stays.
AdjustRoot(t) ==
  LET p == at[t]
      n == node[p]
      root == IF n.leaf THEN INVALID_PAGE_ID ELSE n.array[1].second
  IN
  /\ At(t, "underflow")
  /\ n.parent = INVALID_PAGE_ID
  /\ IF n.leaf \/ Size(n) = 1
     THEN /\ root_page_id' = root
          /\ header' = RecordUpdated(root)
          /\ node' = Adopt([node EXCEPT ![p].array = <<>>], n, INVALID_PAGE_ID)
          /\ doomed' = [doomed EXCEPT ![t] = @ \cup {p}]
     ELSE UNCHANGED <<treeVars, doomed>>
  /\ GoTo(t, "free")
  /\ UNCHANGED <<lockVars, call, target, pages, at, fresh, answer>>

\* FindLeftSibling of p: the right one if p is the first child.
Sibling(p) ==
  LET parent == node[node[p].parent]
      i == ValueIndex(parent, p)
  IN  parent.array[IF i = 1 THEN 2 ELSE i - 1].second

IsFirst(p) == ValueIndex(node[node[p].parent], p) = 1

\* Mutant: the children that move keep their old parent pointers.
NotAdopted(s, n, p) == s

Adopted(s, n, p) == Adopt(s, n, p)

\* What moves when the node right is merged into its left sibling: an internal
\* node's first key becomes the separator of the two.
MergedArray(par, right) ==
  IF node[right].leaf THEN node[right].array
  ELSE [node[right].array EXCEPT
          ![1].first = node[par].array[ValueIndex(node[par], right)].first]

\* Coalesce, with MoveAllTo: right becomes empty and loses its entry in the parent.
Merge(left, right, par) ==
  Adopted([node EXCEPT
             ![left].array = @ \o MergedArray(par, right),
             ![left].next = IF node[left].leaf THEN node[right].next ELSE @,
             ![right].array = <<>>,
             ![par].array = RemoveAt(@, ValueIndex(node[par], right))],
          node[right], left)

\* Mutant: the first key of the page before the move.
OldFirstKey(sib) == node[sib].array[1].first

\* The key that separates sib from its left sibling once its first entry has moved there.
NewFirstKey(sib) == node[sib].array[2].first

\* Redistribute towards the first child p from its right sibling.
BorrowFirst(p, sib, par) ==
  LET moved == Head(node[sib].array)
      n == [node[p] EXCEPT !.array = <<moved>>]
  IN
  Adopted([node EXCEPT
             ![p].array = Append(@, moved),
             ![sib].array = Tail(@),
             ![par].array[ValueIndex(node[par], sib)].first = NewFirstKey(sib)],
          n, p)

\* Redistribute towards p from its left sibling.
BorrowLast(p, sib, par) ==
  LET moved == Last(node[sib].array)
      n == [node[p] EXCEPT !.array = <<moved>>]
  IN
  Adopted([node EXCEPT
             ![p].array = <<moved>> \o @,
             ![sib].array = Front(@),
             ![par].array[ValueIndex(node[par], p)].first = moved.first],
          n, p)

MergedFit(p, sib) == Size(node[p]) + Size(node[sib]) <= MaxSize(node[p])

\* Mutant: a parent is only seen to below its minimum.
ParentBelowMin(par) == Size(node[par]) - 1 < MinSize(node[par])

\* Whether the parent, which has just lost an entry, is seen to next.
ParentTooSmall(par) == Size(node[par]) - 1 <= MinSize(node[par])

\* CoalesceOrRedistribute, with the latch of the sibling.  A merge takes an entry
\* from the parent, which may have to be seen to next.
CoalesceOrRedistribute(t) ==
  LET p == at[t]
      par == node[p].parent
      sib == Sibling(p)
      left == IF IsFirst(p) THEN p ELSE sib
      right == IF IsFirst(p) THEN sib ELSE p
  IN
  /\ At(t, "underflow")
  /\ par # INVALID_PAGE_ID
  /\ sib \notin pages[t]
  /\ Granted(latch[sib], t)
  /\ latch' = [latch EXCEPT ![sib] = Locked(@, t)]
  /\ pages' = [pages EXCEPT ![t] = @ \cup {sib}]
  /\ IF MergedFit(p, sib)
     THEN /\ node' = Merge(left, right, par)
          /\ doomed' = [doomed EXCEPT ![t] = @ \cup {right}]
          /\ at' = [at EXCEPT ![t] = par]
          /\ IF ParentTooSmall(par) THEN UNCHANGED pc ELSE GoTo(t, "free")
     ELSE /\ node' = IF IsFirst(p) THEN BorrowFirst(p, sib, par) ELSE BorrowLast(p, sib, par)
          /\ GoTo(t, "free")
          /\ UNCHANGED <<doomed, at>>
  /\ UNCHANGED <<root_page_id, header, rootLock, call, target, fresh, answer>>

EnterSibling(t) ==
  /\ At(t, "underflow")
  /\ node[at[t]].parent # INVALID_PAGE_ID
  /\ Sibling(at[t]) \notin pages[t]
  /\ EnterLatch(t, Sibling(at[t]))

\* FreePagesInTransaction, if anything is held, and the call returns.  A page in
\* the deleted set is deleted unless another thread has it pinned, waiting for it.
FreePages(t) ==
  LET pinned == {target[u] : u \in {v \in Threads \ {t} : pc[v] = "latch"}} IN
  /\ At(t, "free")
  /\ rootLock' = Unlocked(rootLock, t)
  /\ latch' = Released(pages[t], t)
  /\ node' = [p \in DOMAIN node \ (doomed[t] \ pinned) |-> node[p]]
  /\ call' = [call EXCEPT ![t] = NoCall]
  /\ GoTo(t, "idle")
  /\ target' = [target EXCEPT ![t] = INVALID_PAGE_ID]
  /\ at' = [at EXCEPT ![t] = INVALID_PAGE_ID]
  /\ fresh' = [fresh EXCEPT ![t] = INVALID_PAGE_ID]
  /\ pages' = [pages EXCEPT ![t] = {}]
  /\ doomed' = [doomed EXCEPT ![t] = {}]
  /\ answer' = [answer EXCEPT ![t] = Pending]
  /\ UNCHANGED <<root_page_id, header>>

\* Begin has its leaf, whose latch the iterator keeps, and lets go of the root's id.
ScanBegin(t) ==
  /\ At(t, "leaf") /\ call[t].op = "Scan"
  /\ rootLock' = Unlocked(rootLock, t)
  /\ GoTo(t, "scan")
  /\ UNCHANGED <<treeVars, latch, call, target, pages, doomed, at, fresh, answer>>

\* The keys that the iterator goes through in leaf n: from the low key on in its first
\* leaf, all of them in the others.
KeysFrom(t, n) ==
  LET first == IF call[t].seen = <<>> THEN KeyIndex(n, call[t].key) ELSE 1
  IN  [i \in 1 .. Size(n) - first + 1 |-> n.array[first + i - 1].first]

\* The caller goes through the leaf; then operator++ reads the id of the next one and
\* unlatches the leaf.
ScanLeaf(t) ==
  LET n == node[target[t]] IN
  /\ At(t, "scan")
  /\ call' = [call EXCEPT ![t].seen = @ \o KeysFrom(t, n)]
  /\ latch' = Released(pages[t], t)
  /\ pages' = [pages EXCEPT ![t] = {}]
  /\ IF n.next = INVALID_PAGE_ID
     THEN GoTo(t, "free") /\ Reply(t, "end") /\ UNCHANGED target
     ELSE GoTo(t, "walk") /\ target' = [target EXCEPT ![t] = n.next] /\ UNCHANGED answer
  /\ UNCHANGED <<treeVars, rootLock, doomed, at, fresh>>

\* operator++ latches the next leaf.
ScanNext(t) ==
  /\ At(t, "walk")
  /\ Granted(latch[target[t]], t)
  /\ latch' = [latch EXCEPT ![target[t]] = Locked(@, t)]
  /\ pages' = [pages EXCEPT ![t] = {target[t]}]
  /\ GoTo(t, "scan")
  /\ UNCHANGED <<treeVars, rootLock, call, target, doomed, at, fresh, answer>>

\* The caller stops before the end: ~IndexIterator unlatches the leaf.
ScanClose(t) ==
  /\ At(t, "scan")
  /\ GoTo(t, "free")
  /\ UNCHANGED <<treeVars, lockVars, call, target, pages, doomed, at, fresh, answer>>

\* What a thread that is in a call does next.
Step(t) ==
  \/ CheckEmpty(t) \/ StartNewTree(t) \/ IsEmpty(t) \/ FindRoot(t) \/ LatchPage(t)
  \/ GetValue(t)
  \/ InsertIntoLeaf(t) \/ SplitNode(t) \/ GrowRoot(t) \/ InsertIntoParent(t)
  \/ RemoveFromLeaf(t) \/ AdjustRoot(t) \/ CoalesceOrRedistribute(t)
  \/ EnterRootLock(t) \/ EnterPage(t) \/ EnterSibling(t)
  \/ ScanBegin(t) \/ ScanLeaf(t) \/ ScanNext(t) \/ ScanClose(t)
  \/ FreePages(t)

Next == \E t \in Threads : Call(t) \/ CallScan(t) \/ Step(t)

Spec == Init /\ [][Next]_vars

-----------------------------------------------------------------------------
(* Properties. *)

Quiet == \A t \in Threads : pc[t] = "idle"

\* The keys below each page.
KeysBelow ==
  LET keys[p \in DOMAIN node] ==
        IF node[p].leaf THEN {node[p].array[i].first : i \in 1 .. Size(node[p])}
        ELSE UNION {keys[c] : c \in Children(node[p])}
  IN  keys

Depth ==
  LET depth[p \in DOMAIN node] ==
        IF node[p].leaf THEN 0 ELSE 1 + depth[node[p].array[1].second]
  IN  depth

Strictly(n, from) ==
  \A i, j \in from .. Size(n) : i < j => n.array[i].first < n.array[j].first

\* Between calls the pages form a search tree: every separator divides the keys to
\* its left from those to its right, which is what the test's check isPageCorr looks
\* for; and an internal node that has a left sibling keeps its own separator as its
\* first key, without which a later redistribution would send keys astray.
SearchTree ==
  Quiet =>
    \A p \in DOMAIN node :
      LET n == node[p] IN
      IF n.leaf THEN Strictly(n, 1)
      ELSE /\ Strictly(n, 2)
           /\ \A i \in 2 .. Size(n) :
                LET sep == n.array[i].first
                    left == n.array[i - 1].second
                    right == n.array[i].second
                IN  /\ \A k \in KeysBelow[left] : k < sep
                    /\ \A k \in KeysBelow[right] : sep <= k
                    /\ ~node[right].leaf => node[right].array[1].first = sep

\* Between calls the tree is balanced and no node is too small or too large, and an
\* internal node, even the root, has a choice of children: every split, merge and
\* redistribution goes as far up as it has to (isBalanced).
Balanced ==
  Quiet =>
    \A p \in DOMAIN node :
      /\ MinSize(node[p]) <= Size(node[p]) /\ Size(node[p]) <= MaxSize(node[p])
      /\ ~node[p].leaf => Size(node[p]) >= 2
      /\ \A c, d \in Children(node[p]) : Depth[c] = Depth[d]

\* Between calls the links agree with the tree: parent pointers are inverse to the
\* entries, every page but the root is some node's child, so that no page is leaked or
\* used after its deletion, and the leaves are chained in the order of their keys.
LinksMatch ==
  Quiet =>
    /\ IF root_page_id = INVALID_PAGE_ID THEN DOMAIN node = {}
       ELSE /\ root_page_id \in DOMAIN node
            /\ node[root_page_id].parent = INVALID_PAGE_ID
    /\ \A p \in DOMAIN node :
         LET n == node[p] IN
         /\ \A c \in Children(n) : c \in DOMAIN node /\ node[c].parent = p
         /\ p # root_page_id =>
              n.parent \in DOMAIN node /\ p \in Children(node[n.parent])
         /\ n.leaf =>
              LET later == {q \in DOMAIN node : node[q].leaf
                                /\ Last(n.array).first < node[q].array[1].first}
              IN  IF later = {} THEN n.next = INVALID_PAGE_ID
                  ELSE n.next \in later
                       /\ \A q \in later :
                            node[n.next].array[1].first <= node[q].array[1].first

\* The assertions of the code hold where it evaluates them, whatever other threads
\* do: an internal page that is searched has two children, what is moved fits, and
\* every page in the deleted set is in the page set.
AssertionsHold ==
  \A t \in Threads :
    /\ doomed[t] \subseteq pages[t]
    /\ pc[t] = "latch" /\ pages[t] # {} => target[t] \in DOMAIN node
    /\ pc[t] = "split" => Size(node[at[t]]) = MaxSize(node[at[t]]) + 1
    /\ pc[t] = "underflow" /\ node[at[t]].parent # INVALID_PAGE_ID
         => Size(node[node[at[t]].parent]) > 1
    /\ \A p \in pages[t] :
         pc[t] = "latch" /\ ~node[p].leaf => Size(node[p]) > 1

\* t waits for a lock, or has entered one and waits for its readers.
Blocked(t) ==
  \/ pc[t] \in {"check", "root"} /\ ~Granted(rootLock, t)
  \/ pc[t] \in {"latch", "walk"} /\ ~Granted(latch[target[t]], t)
  \/ /\ pc[t] = "underflow"
     /\ node[at[t]].parent # INVALID_PAGE_ID
     /\ LET sib == Sibling(at[t]) IN sib \in pages[t] \/ ~Granted(latch[sib], t)

\* Crabbing downwards and latching siblings sideways does not deadlock: if calls are
\* under way, one of them can go on.
NoDeadlock ==
  (\E t \in Threads : pc[t] # "idle") => \E t \in Threads : pc[t] # "idle" /\ ~Blocked(t)

\* The index as a map, with the scans left out.
Index == INSTANCE IndexMap WITH
  map <- Contents,
  call <- [t \in Threads |-> IF call[t].op = "Scan" THEN NoCall ELSE call[t]],
  answer <- [t \in Threads |-> IF call[t].op = "Scan" THEN Pending ELSE answer[t]]

\* Every call acts on the map at one instant, through any splits and merges that
\* other threads make on its way: a leaf that is found is the right one, and stays so.
ImplementsIndexMap == Index!Spec

\* The same from any tree.
ActsAsIndexMap == [][Index!Next]_(Index!vars)

\* A scan that runs to the end beside insertions, which split the leaf it is in, the one
\* it has just left and the one it is about to latch, goes through its keys in order and
\* once each: all that were there when it began, and none that is not there.
ScansInOrder ==
  \A t \in Threads :
    pc[t] = "free" /\ call[t].op = "Scan" /\ answer[t] # Pending =>
      LET keys == call[t].seen IN
      /\ \A i, j \in DOMAIN keys : i < j => keys[i] < keys[j]
      /\ call[t].owed \subseteq ToSet(keys)
      /\ ToSet(keys) \subseteq Present

\* Only a tree that has a leaf for the key is used: "If current tree is empty, return
\* immdiately" (b_plus_tree.cpp:242), "if current tree is empty, start new tree" (:72).
EmptyTreeHandled == ~Crashed

\* Between calls the header page never leads to a page that is not the root, whichever
\* threads grow and shrink the tree: UpdateRootPageId is called before the latches that
\* hide the new root are released.  It may have no root although there is one: a tree
\* that is emptied and filled again asks InsertRecord for a name the page has.
HeaderIsRootOrInvalid ==
  Quiet =>
    \/ header \in {root_page_id, INVALID_PAGE_ID}
    \/ header = NoRecord /\ root_page_id = INVALID_PAGE_ID
================================================================================
