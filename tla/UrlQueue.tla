------------------------------ MODULE UrlQueue ------------------------------
(***************************************************************************)
(* InMemoryQueue, src/src/core/queue.rs: a priority heap of QueuedUrl and  *)
(* two hash sets, `visited` and `queued`, behind one tokio Mutex.  Every   *)
(* operation holds the lock from its first read to its last write, so each *)
(* is one action; callers interleave between operations only.              *)
(*                                                                         *)
(* A URL stands for its 64-bit hash: the model leaves out collisions of    *)
(* hash_url.  `queued_at` is the wall clock at which the caller built the  *)
(* entry, not the time it got the lock: it may repeat and go backwards.    *)
(***************************************************************************)
EXTENDS Naturals, Sequences

CONSTANTS
  Urls,     \* the URLs of the site
  Offers,   \* the entries callers may push
  Batches   \* the sequences of entries callers may push at once

\* Priority, types.rs: Low = 1, Normal = 2, High = 3.
Low == 1
Normal == 2
High == 3

QueuedUrl == [url: Urls, depth: Nat, priority: {Low, Normal, High},
              queued_at: Nat]

ASSUME OffersAssumption == Offers \subseteq QueuedUrl
ASSUME BatchesAssumption ==
  \A b \in Batches : b \in Seq(QueuedUrl)

VARIABLES
  heap,     \* the entries waiting; a URL may have only one (OneCopyPerUrl)
  visited,  \* hashes of the URLs marked visited
  queued    \* hashes of the URLs believed to wait in the heap

qvars == <<heap, visited, queued>>

UrlsOf(S) == {e.url : e \in S}

Init ==
  /\ heap = {}
  /\ visited = {}
  /\ queued = {}

\* Mutant: the heap grows but the `queued` index does not.
PushUnindexed(e) ==
  /\ IF e.url \in visited \cup queued THEN UNCHANGED heap
                                     ELSE heap' = heap \cup {e}
  /\ UNCHANGED <<visited, queued>>

\* Mutant: only `queued` is tested.
PushRevisits(e) ==
  /\ IF e.url \in queued
       THEN UNCHANGED <<heap, queued>>
       ELSE /\ heap' = heap \cup {e}
            /\ queued' = queued \cup {e.url}
  /\ UNCHANGED visited

\* push_inner: a URL already visited or queued is silently ignored.
Push(e) ==
  /\ IF e.url \in visited \cup queued
       THEN UNCHANGED <<heap, queued>>
       ELSE /\ heap' = heap \cup {e}
            /\ queued' = queued \cup {e.url}
  /\ UNCHANGED visited

\* The entries of a batch that push_batch_inner's loop inserts: of each
\* fresh URL the first one, since inserting it makes the later ones stale.
Fresh(b) ==
  {b[i] : i \in {k \in DOMAIN b : /\ b[k].url \notin visited \cup queued
                                  /\ \A j \in 1..(k - 1) : b[j].url # b[k].url}}

PushBatch(b) ==
  /\ heap' = heap \cup Fresh(b)
  /\ queued' = queued \cup UrlsOf(Fresh(b))
  /\ UNCHANGED visited

\* Mutant: within a priority the newest entry is popped first.
NewestGreater(e, f) ==
  IF e.priority = f.priority THEN e.queued_at > f.queued_at
                             ELSE e.priority > f.priority

\* HeapEntry's Ord: e is popped before f.
Greater(e, f) ==
  IF e.priority = f.priority THEN e.queued_at < f.queued_at
                             ELSE e.priority > f.priority

\* Mutant: a URL counts as visited from its pop on.
PopMarks(e) ==
  /\ e \in heap
  /\ \A f \in heap : ~ Greater(f, e)
  /\ heap' = heap \ {e}
  /\ queued' = queued \ {e.url}
  /\ visited' = visited \cup {e.url}

\* pop_inner returning Some(e): a greatest entry; BinaryHeap is not stable,
\* so equal entries come out in any order.
Pop(e) ==
  /\ e \in heap
  /\ \A f \in heap : ~ Greater(f, e)
  /\ heap' = heap \ {e}
  /\ queued' = queued \ {e.url}
  /\ UNCHANGED visited

\* mark_visited_inner: the heap keeps its copy of u, if it has one.
MarkVisited(u) ==
  /\ visited' = visited \cup {u}
  /\ queued' = queued \ {u}
  /\ UNCHANGED heap

Next ==
  \/ \E e \in Offers : Push(e)
  \/ \E b \in Batches : PushBatch(b)
  \/ \E e \in heap : Pop(e)
  \/ \E u \in Urls : MarkVisited(u)

Spec == Init /\ [][Next]_qvars

-----------------------------------------------------------------------------
\* The heap holds queue entries, the two sets hold URLs.
TypeOK ==
  /\ heap \subseteq QueuedUrl
  /\ visited \subseteq Urls
  /\ queued \subseteq Urls

\* No two waiting entries are for the same URL, whatever callers push, pop
\* and mark in whatever order: push tests only the two hash sets, never the
\* heap, and pop and mark_visited both remove a URL from `queued`.
OneCopyPerUrl == \A e, f \in heap : e.url = f.url => e = f

\* Every hash in `queued` has its heap entry, and a heap entry missing from
\* `queued` is for a visited URL: so `visited` and `queued` together know
\* every URL the heap holds, and the two sets never block a URL that is
\* neither waiting nor visited.
IndexCoherent ==
  /\ queued \subseteq UrlsOf(heap)
  /\ UrlsOf(heap) \subseteq queued \cup visited

IInv == TypeOK /\ OneCopyPerUrl /\ IndexCoherent

\* A URL marked visited never enters the heap again: the stale copies that
\* mark_visited leaves in the heap can only drain.
VisitedStaysOut == [][UrlsOf(heap' \ heap) \cap visited = {}]_qvars

\* The queue implements DedupQueue: its `queued` index, which no operation
\* returns, never shows in what callers see.
DQ == INSTANCE DedupQueue WITH pending <- heap, done <- visited
ImplementsDedupQueue == DQ!Spec

-----------------------------------------------------------------------------
\* What the test test_deduplication (queue.rs:212) says of the queue: after
\* mark_visited the URL no longer counts in size().  The code leaves the
\* heap copy in place, so a URL that was waiting when it was marked is still
\* counted, and the assertion of queue.rs:221 does not hold.
VisitedNotCounted == \A e \in heap : e.url \notin visited
=============================================================================
