----------------------------- MODULE DiskManager -----------------------------
(***************************************************************************)
(* The database file behind DiskManager (disk/disk_manager.cpp), seen      *)
(* through the std::fstream db_io_.                                        *)
(*                                                                         *)
(* The disk is a value, not a variable: the buffer pool calls it under its *)
(* own latch, so a call is part of the caller's step.  It has              *)
(*   page  what the file holds at each page id; the bytes of a hole, and   *)
(*         of a page never reached, read as zero;                          *)
(*   size  the length of the file, counted in pages;                       *)
(*   ok    FALSE once eofbit/failbit of db_io_ are set.  Nothing clears    *)
(*         them, and a failed stream neither seeks, nor reads, nor writes. *)
(***************************************************************************)
EXTENDS Integers

CONSTANTS
  MaxPages,  \* bound: page ids handed out are 0 .. MaxPages - 1
  Data,      \* the contents a page can have
  Zero       \* the content of a page whose bytes are all zero

ASSUME DiskAssumption ==
  /\ MaxPages \in Nat \ {0}
  /\ Zero \in Data

INVALID_PAGE_ID == -1

PageIds == 0 .. MaxPages - 1

Disk == [page : [PageIds -> Data], size : 0 .. MaxPages, ok : BOOLEAN]

\* The constructor on a file that does not exist: an empty file is created.
EmptyDisk == [page |-> [p \in PageIds |-> Zero], size |-> 0, ok |-> TRUE]

\* Mutant: the file grows by a page at every write.
WriteAppends(d, p, x) ==
  [page |-> [d.page EXCEPT ![p] = x], size |-> d.size + 1, ok |-> d.ok]

\* Writing past the end extends the file.  On a failed stream the write is
\* lost, and bad() does not report it.
WritePage(d, p, x) ==
  IF d.ok
  THEN [page |-> [d.page EXCEPT ![p] = x],
        size |-> IF p >= d.size THEN p + 1 ELSE d.size,
        ok   |-> TRUE]
  ELSE d

\* What ReadPage leaves in a buffer that held `old`: a page wholly beyond the
\* end is refused and the buffer is not touched; otherwise the bytes that
\* cannot be read are set to zero.
ReadPage(d, p, old) ==
  IF p > d.size THEN old
  ELSE IF d.ok /\ p < d.size THEN d.page[p]
  ELSE Zero

\* What ReadPage does to the stream: reading at the very end comes up short,
\* which sets eofbit and failbit.
AfterRead(d, p) ==
  [d EXCEPT !.ok = d.ok /\ p # d.size]
==============================================================================
