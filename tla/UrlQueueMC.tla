----------------------------- MODULE UrlQueueMC -----------------------------
(***************************************************************************)
(* UrlQueue on three URLs.  Every URL may be pushed at every priority and  *)
(* at either of two clock readings; batches hold the pairs of Normal       *)
(* entries, same URL included.  Depth plays no part in the queue.          *)
(***************************************************************************)
EXTENDS UrlQueue

CONSTANTS u1, u2, u3

MCUrls == {u1, u2, u3}

MCOffers == [url: MCUrls, depth: {0}, priority: {Low, Normal, High},
             queued_at: {0, 1}]

MCBatches ==
  LET N == {e \in MCOffers : e.priority = Normal}
  IN {<<e, f>> : e \in N, f \in N}
=============================================================================
