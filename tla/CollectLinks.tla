---------------------------- MODULE CollectLinks ----------------------------
(***************************************************************************)
(* The collect-links command, cmd_collect_links of                         *)
(* src/src/main.rs:1580-1644: a breadth-first walk over the links of a     *)
(* site.  A URL is the text it is kept under; the seed is kept as it was   *)
(* typed, so a link to it may be another URL.                              *)
(***************************************************************************)
EXTENDS Cli, FiniteSets, SequencesExt

CONSTANTS
  Links,     \* the URLs of links
  Seed,      \* the URL the command is given
  Sites,     \* the sites to walk: functions from a URL to the sequence of
             \* links that LinkExtractor::extract returns for its page
  MaxDepth   \* bound on --depth

ASSUME CollectAssumption ==
  /\ Sites \subseteq [Links \cup {Seed} -> Seq(Links)]
  /\ MaxDepth \in Nat

VARIABLES
  site,     \* the site at hand
  depth,    \* --depth
  visited,  \* URLs seen
  queue,    \* pairs of a URL to fetch and its depth
  allLinks, \* the links to print
  fetched,  \* history: the URLs fetched, in order, with their depth
  failed,   \* history: the URLs that could not be fetched
  dist      \* history: how many links from the seed each URL seen was found

collection == <<site, depth, visited, queue, allLinks, fetched, failed, dist>>

CollectInit ==
  /\ site \in Sites
  /\ depth \in 0..MaxDepth
  /\ visited = {Seed}
  /\ queue = << <<Seed, 0>> >>
  /\ allLinks = <<>>
  /\ fetched = <<>>
  /\ failed = {}
  /\ dist = [u \in {Seed} |-> 0]

K(p) == At("collect-links", p)

\* The URL that is parsed once the fetcher is there may not be one: `?`.
CollectStart ==
  /\ K("start")
  /\ \/ MakeFetcher(browser, "pop")
     \/ /\ handle' = IF browser THEN "browser" ELSE "http"
        /\ Exit("err")
        /\ UNCHANGED tabs
  /\ UNCHANGED collection

\* The links of a page that were not seen yet, each once, in the page's order.
NewLinks(url) ==
  LET new[n \in 0..Len(site[url])] ==
        IF n = 0 THEN <<>>
        ELSE IF site[url][n] \in visited \cup ToSet(new[n - 1]) THEN new[n - 1]
        ELSE Append(new[n - 1], site[url][n])
  IN new[Len(site[url])]

\* Mutant: the check of the depth is made for the links' depth.
EnqueueShallow(new, d) ==
  queue' = IF d + 1 < depth
             THEN Tail(queue) \o [i \in 1..Len(new) |-> <<new[i], d + 1>>]
             ELSE Tail(queue)

\* Links of a page at depth `depth` are listed, but not fetched.
EnqueueLinks(new, d) ==
  queue' = IF d < depth
             THEN Tail(queue) \o [i \in 1..Len(new) |-> <<new[i], d + 1>>]
             ELSE Tail(queue)

\* The next URL is taken and its page fetched.
CollectPage ==
  /\ K("pop")
  /\ queue # <<>>
  /\ Fetched
  /\ LET url == Head(queue)[1]
         d == Head(queue)[2]
     IN /\ allLinks' = allLinks \o NewLinks(url)
        /\ visited' = visited \cup ToSet(NewLinks(url))
        /\ EnqueueLinks(NewLinks(url), d)
        /\ fetched' = Append(fetched, <<url, d>>)
        /\ dist' = [u \in visited' |-> IF u \in visited THEN dist[u] ELSE d + 1]
  /\ Goto("pop")
  /\ UNCHANGED <<site, depth, failed>>

\* A page that cannot be fetched is passed over.
CollectFails ==
  /\ K("pop")
  /\ queue # <<>>
  /\ FetchFails
  /\ failed' = failed \cup {Head(queue)[1]}
  /\ queue' = Tail(queue)
  /\ Goto("pop")
  /\ UNCHANGED <<site, depth, visited, allLinks, fetched, dist>>

\* Nothing is left: the links are printed and the browser shut down.
CollectEnd ==
  /\ K("pop")
  /\ queue = <<>>
  /\ Shutdown
  /\ Exit("ok")
  /\ UNCHANGED collection

CollectNext == CollectStart \/ CollectPage \/ CollectFails \/ CollectEnd

----------------------------------------------------------------------------
\* The URLs that at most k links away from the seed, through pages that
\* could be fetched.
Within ==
  LET w[k \in 0..MaxDepth + 1] ==
        IF k = 0 THEN {Seed}
        ELSE w[k - 1] \cup UNION {ToSet(site[u]) : u \in w[k - 1] \ failed}
  IN w

(***************************************************************************)
(* When collect-links ends, what it prints is the links at most --depth    *)
(* links below the seed, through the pages that could be fetched, each     *)
(* once; and it has tried every page up to that depth, once.               *)
(***************************************************************************)
CollectsWhatIsInReach ==
  command = "collect-links" /\ exit = "ok" =>
    /\ ToSet(allLinks) = Within[depth + 1] \ {Seed}
    /\ IsInjective(allLinks)
    /\ {fetched[i][1] : i \in DOMAIN fetched} \cup failed = Within[depth]
    /\ Len(fetched) + Cardinality(failed) = Cardinality(Within[depth])

(***************************************************************************)
(* The walk is breadth-first: pages are fetched in the order of their      *)
(* depth, so that no URL is put deeper than its shortest way from the      *)
(* seed, and --depth cuts off nothing that is within it.                   *)
(***************************************************************************)
FetchedByDepth ==
  \A i, j \in DOMAIN fetched : i <= j => fetched[i][2] <= fetched[j][2]

\* The walk: what it reaches, and in which order.
WalkIsExact == CollectsWhatIsInReach /\ FetchedByDepth

\* The URLs of a sequence of pairs.
Urls(pairs) == {pairs[i][1] : i \in DOMAIN pairs}

\* Pairs of a URL seen and the distance it was found at, by that distance,
\* each URL once.
InOrder(pairs) ==
  /\ pairs \in Seq(visited \X (0..depth))
  /\ \A i \in DOMAIN pairs : pairs[i][2] = dist[pairs[i][1]]
  /\ \A i, j \in DOMAIN pairs : i < j =>
       pairs[i][1] # pairs[j][1] /\ pairs[i][2] <= pairs[j][2]

\* A URL that is not too deep waits, or was fetched, or failed.
EachOnce ==
  /\ failed \subseteq visited /\ IsFiniteSet(failed) /\ \A u \in failed : dist[u] <= depth
  /\ Urls(queue) \cap (Urls(fetched) \cup failed) = {}
  /\ Urls(fetched) \cap failed = {}
  /\ \A u \in visited : dist[u] <= depth => u \in Urls(queue) \cup Urls(fetched) \cup failed

\* Nothing was found further than one link behind the first in the queue, and
\* nothing fetched that is further than it.
Frontier ==
  queue # <<>> =>
    /\ \A u \in visited : dist[u] <= queue[1][2] + 1
    /\ \A u \in Urls(fetched) : dist[u] <= queue[1][2]

\* Every URL seen was found on a page one link nearer, and every link of a
\* fetched page is seen.
LinkedTo ==
  /\ \A u \in visited \ {Seed} : \E p \in Urls(fetched) :
       u \in ToSet(site[p]) /\ dist[u] = dist[p] + 1
  /\ \A p \in Urls(fetched) : \A u \in ToSet(site[p]) :
       u \in visited /\ dist[u] <= dist[p] + 1

\* The invariant of the walk.
WalkInv ==
  /\ site \in Sites /\ depth \in 0..MaxDepth
  /\ Seed \in visited /\ visited \subseteq Links \cup {Seed}
  /\ dist \in [visited -> 0..depth + 1] /\ dist[Seed] = 0
  /\ InOrder(queue) /\ InOrder(fetched) /\ EachOnce /\ Frontier /\ LinkedTo
  /\ allLinks \in Seq(visited) /\ IsInjective(allLinks)
  /\ ToSet(allLinks) = visited \ {Seed}
  /\ command = "collect-links" /\ exit = "ok" => queue = <<>>
=============================================================================
