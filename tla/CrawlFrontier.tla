--------------------------- MODULE CrawlFrontier ----------------------------
(***************************************************************************)
(* What a crawl promises, without queue, permits or counters: discovered   *)
(* URLs wait on a frontier, each is fetched at most once, at most          *)
(* `Concurrency` fetches and at most MaxPages of them all told; new URLs   *)
(* come only from the start list and from pages being worked on; the crawl *)
(* stops when its page budget is spent or when nothing is being worked on. *)
(***************************************************************************)
EXTENDS Naturals, FiniteSets

CONSTANTS Urls, StartUrls, Concurrency, MaxPages, MaxDepth, None

VARIABLES
  frontier,  \* discovered and still to be fetched
  fetched,   \* fetched, or being fetched
  working,   \* being fetched or processed
  stopped    \* no fetch will start any more

fvars == <<frontier, fetched, working, stopped>>

Spent == MaxPages # None /\ Cardinality(fetched) >= MaxPages

Init ==
  /\ frontier = {}
  /\ fetched = {}
  /\ working = {}
  /\ stopped = FALSE

\* A start URL, or one found on a page being worked on, joins the frontier.
Discover(u) ==
  /\ u \in StartUrls \/ working # {}
  /\ u \notin fetched
  /\ frontier' = frontier \cup {u}
  /\ UNCHANGED <<fetched, working, stopped>>

Fetch(u) ==
  /\ ~ stopped /\ ~ Spent
  /\ Cardinality(working) < Concurrency
  /\ u \in frontier \ fetched
  /\ frontier' = frontier \ {u}
  /\ fetched' = fetched \cup {u}
  /\ working' = working \cup {u}
  /\ UNCHANGED stopped

\* Under a depth limit, a URL that lies too deep is given up unfetched.
Drop(u) ==
  /\ MaxDepth # None /\ ~ stopped
  /\ frontier' = frontier \ {u}
  /\ UNCHANGED <<fetched, working, stopped>>

Finish(u) ==
  /\ working' = working \ {u}
  /\ UNCHANGED <<frontier, fetched, stopped>>

Stop ==
  /\ Spent \/ working = {}
  /\ stopped' = TRUE
  /\ UNCHANGED <<frontier, fetched, working>>

Next ==
  \/ \E u \in Urls : Discover(u) \/ Fetch(u)
  \/ \E u \in frontier : Drop(u)
  \/ \E u \in working : Finish(u)
  \/ Stop

Spec == Init /\ [][Next]_fvars
=============================================================================
