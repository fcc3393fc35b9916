--------------------------- MODULE UrlQueueProofs ---------------------------
(***************************************************************************)
(* UrlQueue for any set of URLs, offers and batches: its invariant, the    *)
(* lock-step of `queued` with the heap, and that it implements DedupQueue. *)
(*                                                                         *)
(* The inductive invariant IInv is the conjunction of the three named parts:    *)
(* OneCopyPerUrl alone is not inductive, because push consults the two     *)
(* hash sets and not the heap; IndexCoherent closes the gap.               *)
(***************************************************************************)
EXTENDS UrlQueue, TLAPS

\* The empty queue is well-formed.
LEMMA InitIInv == Init => IInv
BY DEF Init, IInv, TypeOK, OneCopyPerUrl, IndexCoherent, UrlsOf

\* Pushing any entry keeps the queue well-formed.
LEMMA PushIInv ==
  ASSUME NEW e \in QueuedUrl, IInv, Push(e)
  PROVE  IInv'
<1>1. e.url \in Urls
  BY DEF QueuedUrl
<1>2. CASE e.url \in visited \cup queued
  BY <1>2 DEF Push, IInv, TypeOK, OneCopyPerUrl, IndexCoherent, UrlsOf
<1>3. CASE e.url \notin visited \cup queued
  <2>1. \A f \in heap : f.url # e.url
    BY <1>3 DEF IInv, IndexCoherent, UrlsOf
  <2>2. heap' = heap \cup {e} /\ queued' = queued \cup {e.url} /\ visited' = visited
    BY <1>3 DEF Push
  <2>3. TypeOK'
    BY <1>1, <2>2 DEF IInv, TypeOK
  <2>4. OneCopyPerUrl'
    BY <2>1, <2>2 DEF IInv, OneCopyPerUrl
  <2>5. IndexCoherent'
    BY <2>2 DEF IInv, IndexCoherent, UrlsOf
  <2>6. QED
    BY <2>3, <2>4, <2>5 DEF IInv
<1>4. QED
  BY <1>2, <1>3

\* The entries admitted from a batch are entries of fresh URLs, one of each.
LEMMA FreshIsFresh ==
  ASSUME NEW b \in Seq(QueuedUrl)
  PROVE  /\ Fresh(b) \subseteq QueuedUrl
         /\ \A e \in Fresh(b) : e.url \notin visited \cup queued
         /\ \A e, f \in Fresh(b) : e.url = f.url => e = f
<1>1. \A i \in DOMAIN b : b[i] \in QueuedUrl
  OBVIOUS
<1>2. \A e \in Fresh(b) :
        \E k \in DOMAIN b : /\ e = b[k]
                            /\ b[k].url \notin visited \cup queued
                            /\ \A j \in 1..(k - 1) : b[j].url # b[k].url
  BY DEF Fresh
<1>3. ASSUME NEW e \in Fresh(b), NEW f \in Fresh(b), e.url = f.url
      PROVE  e = f
  <2>1. PICK k \in DOMAIN b : e = b[k] /\ \A j \in 1..(k - 1) : b[j].url # b[k].url
    BY <1>2
  <2>2. PICK m \in DOMAIN b : f = b[m] /\ \A j \in 1..(m - 1) : b[j].url # b[m].url
    BY <1>2
  <2>3. k \in Nat \ {0} /\ m \in Nat \ {0}
    OBVIOUS
  <2>4. ~ (k < m) /\ ~ (m < k)
    BY <1>3, <2>1, <2>2, <2>3
  <2>5. QED
    BY <2>1, <2>2, <2>3, <2>4
<1>4. QED
  BY <1>1, <1>2, <1>3

\* Pushing a batch keeps the queue well-formed.
LEMMA PushBatchIInv ==
  ASSUME NEW b \in Seq(QueuedUrl), IInv, PushBatch(b)
  PROVE  IInv'
<1> DEFINE F == Fresh(b)
<1>1. /\ F \subseteq QueuedUrl
      /\ \A e \in F : e.url \notin visited \cup queued
      /\ \A e, f \in F : e.url = f.url => e = f
  BY FreshIsFresh
<1>2. heap' = heap \cup F /\ queued' = queued \cup UrlsOf(F) /\ visited' = visited
  BY DEF PushBatch
<1> HIDE DEF F
<1>3. \A e \in F : e.url \in Urls /\ \A f \in heap : f.url # e.url
  BY <1>1 DEF IInv, IndexCoherent, UrlsOf, QueuedUrl
<1>4. TypeOK'
  BY <1>1, <1>2, <1>3 DEF IInv, TypeOK, UrlsOf
<1>5. OneCopyPerUrl'
  BY <1>1, <1>2, <1>3 DEF IInv, OneCopyPerUrl
<1>6. IndexCoherent'
  BY <1>2 DEF IInv, IndexCoherent, UrlsOf
<1>7. QED
  BY <1>4, <1>5, <1>6 DEF IInv

\* Popping an entry keeps the queue well-formed: that the entry was the only
\* one of its URL is what lets pop forget the URL's hash.
LEMMA PopIInv ==
  ASSUME NEW e \in heap, IInv, Pop(e)
  PROVE  IInv'
<1>1. heap' = heap \ {e} /\ queued' = queued \ {e.url} /\ visited' = visited
  BY DEF Pop
<1>2. TypeOK' /\ OneCopyPerUrl'
  BY <1>1 DEF IInv, TypeOK, OneCopyPerUrl
<1>3. \A f \in heap' : f.url # e.url
  BY <1>1 DEF IInv, OneCopyPerUrl
<1>4. IndexCoherent'
  BY <1>1, <1>3 DEF IInv, IndexCoherent, UrlsOf
<1>5. QED
  BY <1>2, <1>4 DEF IInv

\* Marking a URL visited keeps the queue well-formed.
LEMMA MarkVisitedIInv ==
  ASSUME NEW u \in Urls, IInv, MarkVisited(u)
  PROVE  IInv'
BY DEF MarkVisited, IInv, TypeOK, OneCopyPerUrl, IndexCoherent, UrlsOf

\* Every step of any caller keeps the queue well-formed.
LEMMA NextIInv == IInv /\ [Next]_qvars => IInv'
<1> SUFFICES ASSUME IInv, [Next]_qvars
             PROVE  IInv'
  OBVIOUS
<1>1. ASSUME NEW e \in Offers, Push(e)
      PROVE  IInv'
  BY <1>1, PushIInv, OffersAssumption
<1>2. ASSUME NEW b \in Batches, PushBatch(b)
      PROVE  IInv'
  BY <1>2, PushBatchIInv, BatchesAssumption
<1>3. ASSUME NEW e \in heap, Pop(e)
      PROVE  IInv'
  BY <1>3, PopIInv
<1>4. ASSUME NEW u \in Urls, MarkVisited(u)
      PROVE  IInv'
  BY <1>4, MarkVisitedIInv
<1>5. CASE UNCHANGED qvars
  BY <1>5 DEF qvars, IInv, TypeOK, OneCopyPerUrl, IndexCoherent, UrlsOf
<1>6. QED
  BY <1>1, <1>2, <1>3, <1>4, <1>5 DEF Next

\* The queue is well-formed in every reachable state.
THEOREM QueueInvariant == Spec => []IInv
BY InitIInv, NextIInv, PTL DEF Spec

\* A URL waits in the heap at most once, and the two hash sets account for
\* every waiting URL, whatever the callers do.
THEOREM OneCopy == Spec => [](OneCopyPerUrl /\ IndexCoherent)
<1>1. IInv => OneCopyPerUrl /\ IndexCoherent
  BY DEF IInv
<1>2. QED
  BY <1>1, QueueInvariant, PTL

\* No step puts an entry of a visited URL into the heap.
THEOREM VisitedNeverReenters == Spec => VisitedStaysOut
<1>1. IInv /\ [Next]_qvars => [UrlsOf(heap' \ heap) \cap visited = {}]_qvars
  <2> SUFFICES ASSUME IInv, Next
               PROVE  UrlsOf(heap' \ heap) \cap visited = {}
    OBVIOUS
  <2>1. ASSUME NEW e \in Offers, Push(e)
        PROVE  UrlsOf(heap' \ heap) \cap visited = {}
    BY <2>1 DEF Push, UrlsOf
  <2>2. ASSUME NEW b \in Batches, PushBatch(b)
        PROVE  UrlsOf(heap' \ heap) \cap visited = {}
    <3>1. \A e \in Fresh(b) : e.url \notin visited
      BY <2>2, FreshIsFresh, BatchesAssumption
    <3>2. QED
      BY <2>2, <3>1 DEF PushBatch, UrlsOf
  <2>3. ASSUME NEW e \in heap, Pop(e)
        PROVE  UrlsOf(heap' \ heap) \cap visited = {}
    BY <2>3 DEF Pop, UrlsOf
  <2>4. ASSUME NEW u \in Urls, MarkVisited(u)
        PROVE  UrlsOf(heap' \ heap) \cap visited = {}
    BY <2>4 DEF MarkVisited, UrlsOf
  <2>5. QED
    BY <2>1, <2>2, <2>3, <2>4 DEF Next
<1>2. QED
  BY <1>1, QueueInvariant, PTL DEF Spec, VisitedStaysOut

\* In a well-formed queue, the URLs DedupQueue knows are the hashes that push
\* consults.
LEMMA KnownIsIndexed == IInv => DQ!Known = visited \cup queued
BY DEF IInv, IndexCoherent, UrlsOf, DQ!Known

\* A pushed batch, of one entry or more, is a DedupQueue offer.
LEMMA PushBatchOffers ==
  ASSUME NEW b \in Seq(QueuedUrl), IInv,
         heap' = heap \cup Fresh(b), UNCHANGED visited
  PROVE  DQ!Offer(b)
<1>1. \A k \in DOMAIN b :
        (\A j \in 1..(k - 1) : b[j].url # b[k].url)
          <=> (\A j \in DOMAIN b : b[j].url = b[k].url => k <= j)
  OBVIOUS
<1>2. Fresh(b) = {b[i] : i \in {k \in DOMAIN b :
                     /\ b[k].url \notin DQ!Known
                     /\ \A j \in DOMAIN b : b[j].url = b[k].url => k <= j}}
  BY <1>1, KnownIsIndexed DEF Fresh
<1>3. QED
  BY <1>2 DEF DQ!Offer

\* push is push_batch of one entry.
LEMMA PushIsSingleton ==
  ASSUME NEW e \in QueuedUrl, Push(e)
  PROVE  heap' = heap \cup Fresh(<<e>>) /\ UNCHANGED visited
<1>1. DOMAIN <<e>> = {1} /\ <<e>>[1] = e
  OBVIOUS
<1>2. \A j \in 1..(1 - 1) : FALSE
  OBVIOUS
<1>3. Fresh(<<e>>) = IF e.url \in visited \cup queued THEN {} ELSE {e}
  BY <1>1, <1>2 DEF Fresh
<1>4. QED
  BY <1>3 DEF Push

\* The heap with its two hash sets implements the queue its callers may
\* assume: one entry per URL, never a finished one, most urgent first.
THEOREM QueueImplementsDedupQueue == Spec => ImplementsDedupQueue
<1>1. Init => DQ!Init
  BY DEF Init, DQ!Init
<1>2. IInv /\ [Next]_qvars => [DQ!Next]_<<heap, visited>>
  <2> SUFFICES ASSUME IInv, Next
               PROVE  DQ!Next
    BY DEF qvars
  <2>1. ASSUME NEW e \in Offers, Push(e)
        PROVE  DQ!Next
    <3>1. e \in QueuedUrl /\ <<e>> \in Seq(QueuedUrl)
      BY OffersAssumption
    <3>2. DQ!Offer(<<e>>)
      BY <2>1, <3>1, PushIsSingleton, PushBatchOffers
    <3>3. QED
      BY <3>2 DEF DQ!Next
  <2>2. ASSUME NEW b \in Batches, PushBatch(b)
        PROVE  DQ!Next
    <3>1. DQ!Offer(b)
      BY <2>2, PushBatchOffers, BatchesAssumption DEF PushBatch
    <3>2. QED
      BY <3>1 DEF DQ!Next
  <2>3. ASSUME NEW e \in heap, Pop(e)
        PROVE  DQ!Next
    <3>1. \A f \in heap : DQ!Precedes(f, e) => Greater(f, e)
      <4>1. \A f \in heap : f.priority \in Nat /\ f.queued_at \in Nat
        BY DEF IInv, TypeOK, QueuedUrl, Low, Normal, High
      <4>2. QED
        BY <4>1 DEF DQ!Precedes, Greater
    <3>2. DQ!Take(e)
      BY <2>3, <3>1 DEF Pop, DQ!Take
    <3>3. QED
      BY <3>2 DEF DQ!Next
  <2>4. ASSUME NEW u \in Urls, MarkVisited(u)
        PROVE  DQ!Next
    BY <2>4 DEF MarkVisited, DQ!Finish, DQ!Next
  <2>5. QED
    BY <2>1, <2>2, <2>3, <2>4 DEF Next
<1>3. QED
  BY <1>1, <1>2, QueueInvariant, PTL DEF Spec, ImplementsDedupQueue, DQ!Spec, DQ!dvars
=============================================================================
