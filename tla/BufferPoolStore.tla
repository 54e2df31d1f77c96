---------------------------- MODULE BufferPoolStore ----------------------------
(* The buffer pool as an implementation of the page store. *)
EXTENDS BufferPool

\* The content of every existing page, seen through the pool.
StoreView == [p \in {q \in PageIds : Live(q)} |-> Content(p)]

Store == INSTANCE PageStore WITH
           store <- StoreView, next <- next_page_id, held <- held

\* The pool implements the page store: whatever is evicted, flushed, re-read or
\* reused, a caller sees a page's last written content, a pinned page stays, and
\* a deleted page had no holder.
ImplementsPageStore == Store!Spec
================================================================================
