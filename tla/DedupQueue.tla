----------------------------- MODULE DedupQueue -----------------------------
(***************************************************************************)
(* What a crawl queue promises to its callers, without saying how it keeps *)
(* its books: a URL waits at most once, a finished URL is never admitted   *)
(* again, and the entry taken is always one that no waiting entry          *)
(* precedes.  UrlQueue implements it with a heap and two hash sets.        *)
(***************************************************************************)
EXTENDS Naturals, Sequences

CONSTANTS Urls, Offers, Batches

VARIABLES
  pending,  \* the waiting entries
  done      \* the URLs their callers have finished with

dvars == <<pending, done>>

Init ==
  /\ pending = {}
  /\ done = {}

Known == done \cup {e.url : e \in pending}

\* Of an offered batch, the queue admits the first entry of each new URL.
Offer(b) ==
  /\ pending' = pending \cup
       {b[i] : i \in {k \in DOMAIN b :
          /\ b[k].url \notin Known
          /\ \A j \in DOMAIN b : b[j].url = b[k].url => k <= j}}
  /\ UNCHANGED done

\* An entry precedes another by urgency, then by age.
Precedes(e, f) ==
  \/ e.priority > f.priority
  \/ e.priority = f.priority /\ e.queued_at < f.queued_at

Take(e) ==
  /\ \A f \in pending : ~ Precedes(f, e)
  /\ pending' = pending \ {e}
  /\ UNCHANGED done

Finish(u) ==
  /\ done' = done \cup {u}
  /\ UNCHANGED pending

Next ==
  \/ \E e \in Offers : Offer(<<e>>)
  \/ \E b \in Batches : Offer(b)
  \/ \E e \in pending : Take(e)
  \/ \E u \in Urls : Finish(u)

Spec == Init /\ [][Next]_dvars
=============================================================================
