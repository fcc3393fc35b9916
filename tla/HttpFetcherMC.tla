--------------------------- MODULE HttpFetcherMC ---------------------------
(***************************************************************************)
(* Two tasks share a fetcher with room for one page.  The text of one URL  *)
(* has a non-retryable code in it, that of the other has none.             *)
(***************************************************************************)
EXTENDS HttpFetcher, TLC

CONSTANTS c1, c2, plain, shop404

MCCallers == {c1, c2}
MCUrls == {plain, shop404}
MCCodesIn == (plain :> {}) @@ (shop404 :> {404})
MCStatuses == {200, 404, 503}
MCOneCaller == {c1}
=============================================================================
