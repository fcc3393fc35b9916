---------------------------- MODULE CrawlEngine -----------------------------
(***************************************************************************)
(* CrawlEngine::run, src/src/core/engine.rs: one main loop that pops the   *)
(* queue, charges the page budget and spawns a tokio task per URL, and the *)
(* tasks, which fetch the page, store it, ask the agent about it and push  *)
(* what they find back into the queue.  The main loop and the tasks share  *)
(* the queue, the semaphore, three counters and the job's database row.    *)
(*                                                                         *)
(* A step is the code from one await to the next, or a piece of it when    *)
(* another thread can see the middle: the runtime is multi-threaded.       *)
(***************************************************************************)
EXTENDS Integers, Sequences, FiniteSets

CONSTANTS
  Urls,         \* the URLs of the site
  StartUrls,    \* config.start_urls
  Permits,      \* the semaphore's permits, max(1, concurrent_requests) of them
  MaxPages,     \* config.max_pages, a number or None
  MaxDepth,     \* config.max_depth, a number or None
  FollowLinks,  \* config.follow_links
  HasAgent,     \* an agent and an agent_goal are configured
  Replies,      \* the agent's possible answers: records found, URLs to follow
  Stamps,       \* the clock readings a new entry may carry
  None

\* Priority, types.rs: Low = 1, Normal = 2, High = 3.
Priority == 1..3

ASSUME UrlsAssumption == IsFiniteSet(Urls) /\ StartUrls \subseteq Urls
ASSUME PermitsAssumption == IsFiniteSet(Permits) /\ Permits # {}
ASSUME LimitsAssumption ==
  /\ None \notin Nat
  /\ MaxPages \in Nat \cup {None}
  /\ MaxDepth \in Nat \cup {None}
ASSUME ModeAssumption == FollowLinks \in BOOLEAN /\ HasAgent \in BOOLEAN
ASSUME RepliesAssumption ==
  \A r \in Replies :
    /\ r.records \in Nat
    /\ r.next \subseteq [url: Urls, priority: Priority]
ASSUME StampsAssumption == Stamps \subseteq Nat

VARIABLES
  heap, visited, queued,  \* the shared InMemoryQueue
  pc,       \* where the main loop is
  seeds,    \* the start URLs still to push
  cur,      \* the entry the main loop holds between pop and spawn
  used,     \* CrawlBudget's pages_fetched
  exit,     \* how the loop ended: "no", "budget" or "idle"
  stats,    \* the fields of CrawlStats read so far
  permits,  \* the semaphore's free permits
  task,     \* the task holding each permit
  pages, records, errors,  \* the run's shared counters
  db        \* the job's row and its visited_urls, as SqliteStorage keeps them

Q == INSTANCE UrlQueue WITH Offers <- {}, Batches <- {}

queueVars == <<heap, visited, queued>>
mainVars == <<pc, seeds, cur, used, exit, stats>>
taskVars == <<permits, task>>
counters == <<pages, records, errors>>
vars == <<queueVars, mainVars, taskVars, counters, db>>

Idle == [phase |-> "idle"]
In(p, phase) == task[p].phase = phase
Becomes(p, t) == task' = [task EXCEPT ![p] = t]
Busy == {p \in Permits : ~ In(p, "idle")}

Init ==
  /\ Q!Init
  /\ pc = "seed" /\ seeds = StartUrls /\ cur = <<>> /\ used = 0
  /\ exit = "no" /\ stats = <<>>
  /\ permits = Permits /\ task = [p \in Permits |-> Idle]
  /\ pages = 0 /\ records = 0 /\ errors = 0
  /\ db = [urls |-> {}, pages |-> 0, records |-> 0, errors |-> 0]

-----------------------------------------------------------------------------
(* CrawlBudget, src/src/core/budget.rs. *)

IsExhausted == MaxPages # None /\ used >= MaxPages

CanFetch(depth) ==
  /\ MaxDepth # None => depth <= MaxDepth
  /\ MaxPages # None => used < MaxPages

\* Mutant: a URL is charged only once its fetch has succeeded.
RecordNothing == UNCHANGED used

RecordFetch == used' = used + 1

-----------------------------------------------------------------------------
(* The main loop. *)

\* QueuedUrl::new and push: the entry is stamped with the wall clock.
Enqueue(u, depth, priority) ==
  \E t \in Stamps :
    Q!Push([url |-> u, depth |-> depth, priority |-> priority, queued_at |-> t])

SeedUrl(u) ==
  /\ pc = "seed" /\ u \in seeds
  /\ Enqueue(u, 0, 2)
  /\ seeds' = seeds \ {u}
  /\ UNCHANGED <<pc, cur, used, exit, stats, taskVars, counters, db>>

StartLoop ==
  /\ pc = "seed" /\ seeds = {}
  /\ pc' = "budget"
  /\ UNCHANGED <<queueVars, seeds, cur, used, exit, stats, taskVars, counters, db>>

CheckBudget ==
  /\ pc = "budget"
  /\ IF IsExhausted THEN pc' = "stats" /\ exit' = "budget"
                    ELSE pc' = "pop" /\ UNCHANGED exit
  /\ UNCHANGED <<queueVars, seeds, cur, used, stats, taskVars, counters, db>>

PopSome ==
  /\ pc = "pop"
  /\ \E e \in heap : Q!Pop(e) /\ cur' = e
  /\ pc' = "check"
  /\ UNCHANGED <<seeds, used, exit, stats, taskVars, counters, db>>

PopNone ==
  /\ pc = "pop" /\ heap = {}
  /\ pc' = "empty"
  /\ UNCHANGED <<queueVars, seeds, cur, used, exit, stats, taskVars, counters, db>>

\* Mutant: one free permit passes for all of them.
SomePermitFree == permits # {}

AllPermitsFree == permits = Permits

\* The queue was empty when popped: end the loop if every permit is free
\* now, else sleep 500 ms and go round again.
CheckIdle ==
  /\ pc = "empty"
  /\ IF AllPermitsFree THEN pc' = "stats" /\ exit' = "idle"
                       ELSE pc' = "budget" /\ UNCHANGED exit
  /\ UNCHANGED <<queueVars, seeds, cur, used, stats, taskVars, counters, db>>

\* Mutant: is_visited is not asked again after the pop.
WantedUnchecked == CanFetch(cur.depth)

\* Mutant: an entry popped while every permit is taken is skipped.
WantedIfRoom == CanFetch(cur.depth) /\ cur.url \notin visited /\ permits # {}

Wanted == CanFetch(cur.depth) /\ cur.url \notin visited

\* The depth and visited checks, then on to the awaits for the rate limiter
\* and a permit.
CheckUrl ==
  /\ pc = "check"
  /\ IF Wanted
       THEN pc' = "acquire" /\ UNCHANGED cur
       ELSE pc' = "budget" /\ cur' = <<>>
  /\ UNCHANGED <<queueVars, seeds, used, exit, stats, taskVars, counters, db>>

\* The permit is granted; the URL is charged, marked visited and handed to a
\* new task.  The await between the first two and mark_visited is no
\* boundary: only the main loop reads the budget and takes permits.
Spawn(p) ==
  /\ pc = "acquire" /\ p \in permits
  /\ permits' = permits \ {p}
  /\ RecordFetch
  /\ Q!MarkVisited(cur.url)
  /\ Becomes(p, [phase |-> "fetch", url |-> cur.url, depth |-> cur.depth,
                 left |-> 0, found |-> 0, todo |-> {}])
  /\ cur' = <<>> /\ pc' = "budget"
  /\ UNCHANGED <<seeds, exit, stats, counters, db>>

\* Mutant: two counters change places in CrawlStats.
CountersSwapped == <<pages, errors, records, Cardinality(heap)>>

\* The fields of CrawlStats, in the order they are read.
Counters == <<pages, records, errors, Cardinality(heap)>>

\* After the loop the four fields are read one by one.
ReadStat ==
  /\ pc = "stats" /\ Len(stats) < 4
  /\ stats' = Append(stats, Counters[Len(stats) + 1])
  /\ UNCHANGED <<queueVars, pc, seeds, cur, used, exit, taskVars, counters, db>>

\* save_stats overwrites the row's counts; its error is ignored.  run returns.
SaveStats ==
  /\ pc = "stats" /\ Len(stats) = 4
  /\ db' \in {db, [db EXCEPT !.pages = stats[1], !.records = stats[2],
                             !.errors = stats[3]]}
  /\ pc' = "stopped"
  /\ UNCHANGED <<queueVars, seeds, cur, used, exit, stats, taskVars, counters>>

Main ==
  \/ \E u \in StartUrls : SeedUrl(u)
  \/ StartLoop
  \/ CheckBudget
  \/ PopSome
  \/ PopNone
  \/ CheckIdle
  \/ CheckUrl
  \/ \E p \in Permits : Spawn(p)
  \/ ReadStat
  \/ SaveStats

-----------------------------------------------------------------------------
(* The task that holds permit p.  Its `todo` is what it still has to push:  *)
(* the agent's next_urls in phase "enqueue", the page's links in "follow". *)

\* extract_links runs on the page when follow_links is set.  The link graph
\* is arbitrary: a page is fetched at most once.
ThenLinks(p) ==
  \E L \in SUBSET Urls :
    /\ FollowLinks \/ L = {}
    /\ Becomes(p, [task[p] EXCEPT !.phase = "follow",
                     !.todo = {[url |-> u, priority |-> 2] : u \in L}])

FetchOk(p) ==
  /\ In(p, "fetch")
  /\ pages' = pages + 1
  /\ Becomes(p, [task[p] EXCEPT !.phase = "store"])
  /\ UNCHANGED <<queueVars, mainVars, permits, records, errors, db>>

\* Mutant: a failed fetch goes uncounted.
FetchFailsSilently(p) ==
  /\ In(p, "fetch")
  /\ Becomes(p, [task[p] EXCEPT !.phase = "done"])
  /\ UNCHANGED <<queueVars, mainVars, permits, counters, db>>

FetchFails(p) ==
  /\ In(p, "fetch")
  /\ errors' = errors + 1
  /\ Becomes(p, [task[p] EXCEPT !.phase = "done"])
  /\ UNCHANGED <<queueVars, mainVars, permits, pages, records, db>>

\* Mutant: the page is counted before its URL is inserted.
VisitStoredLate(u) ==
  {db, [db EXCEPT !.pages = @ + 1], [db EXCEPT !.urls = @ \cup {u}, !.pages = @ + 1]}

\* What SqliteStorage::mark_visited may leave behind: it inserts the URL and
\* then counts the page, either statement may fail, and no transaction holds
\* the two together.
VisitStored(u) ==
  {db, [db EXCEPT !.urls = @ \cup {u}], [db EXCEPT !.urls = @ \cup {u}, !.pages = @ + 1]}

\* storage.mark_visited; its error is ignored.
StorePage(p) ==
  /\ In(p, "store")
  /\ db' \in VisitStored(task[p].url)
  /\ IF HasAgent THEN Becomes(p, [task[p] EXCEPT !.phase = "agent"])
                 ELSE ThenLinks(p)
  /\ UNCHANGED <<queueVars, mainVars, permits, counters>>

AgentReplies(p) ==
  /\ In(p, "agent")
  /\ \E r \in Replies :
       Becomes(p, [task[p] EXCEPT !.phase = "save", !.left = r.records,
                                  !.found = r.records, !.todo = r.next])
  /\ UNCHANGED <<queueVars, mainVars, permits, counters, db>>

AgentFails(p) ==
  /\ In(p, "agent")
  /\ errors' = errors + 1
  /\ ThenLinks(p)
  /\ UNCHANGED <<queueVars, mainVars, permits, pages, records, db>>

\* save_record, once per record: of the database only the row's count is
\* kept.  An error is logged and the record left out of the count.
SaveRecord(p) ==
  /\ In(p, "save") /\ task[p].left > 0
  /\ db' \in {db, [db EXCEPT !.records = @ + 1]}
  /\ Becomes(p, [task[p] EXCEPT !.left = @ - 1])
  /\ UNCHANGED <<queueVars, mainVars, permits, counters>>

\* The records are counted as extracted whether or not they were saved.
CountRecords(p) ==
  /\ In(p, "save") /\ task[p].left = 0
  /\ records' = records + task[p].found
  /\ Becomes(p, [task[p] EXCEPT !.phase = "enqueue"])
  /\ UNCHANGED <<queueVars, mainVars, permits, pages, errors, db>>

LinkDepth(d) == d + 1

PushFound(p) ==
  /\ In(p, "enqueue") \/ In(p, "follow")
  /\ \E n \in task[p].todo :
       /\ Enqueue(n.url, LinkDepth(task[p].depth), n.priority)
       /\ Becomes(p, [task[p] EXCEPT !.todo = @ \ {n}])
  /\ UNCHANGED <<mainVars, permits, counters, db>>

FollowPage(p) ==
  /\ In(p, "enqueue") /\ task[p].todo = {}
  /\ ThenLinks(p)
  /\ UNCHANGED <<queueVars, mainVars, permits, counters, db>>

\* Mutant: the early return of a failed fetch keeps its permit.
FinishLeaky(p) ==
  /\ In(p, "done") \/ (In(p, "follow") /\ task[p].todo = {})
  /\ Becomes(p, Idle)
  /\ permits' = IF In(p, "done") THEN permits ELSE permits \cup {p}
  /\ UNCHANGED <<queueVars, mainVars, counters, db>>

\* The task ends and drops its permit.
Finish(p) ==
  /\ In(p, "done") \/ (In(p, "follow") /\ task[p].todo = {})
  /\ Becomes(p, Idle)
  /\ permits' = permits \cup {p}
  /\ UNCHANGED <<queueVars, mainVars, counters, db>>

Task(p) ==
  \/ FetchOk(p)
  \/ FetchFails(p)
  \/ StorePage(p)
  \/ AgentReplies(p)
  \/ AgentFails(p)
  \/ SaveRecord(p)
  \/ CountRecords(p)
  \/ PushFound(p)
  \/ FollowPage(p)
  \/ Finish(p)

-----------------------------------------------------------------------------
\* run has returned and its detached tasks have ended.
Quiescent == pc = "stopped" /\ Busy = {}

Terminated == Quiescent /\ UNCHANGED vars

Next == Main \/ (\E p \in Permits : Task(p)) \/ Terminated

Spec == Init /\ [][Next]_vars

\* The runtime polls the main loop and every task.  A fetch, an agent call
\* and a database write are assumed to return, with a result or an error:
\* the agent's process and the HTTP client, unless it goes through a proxy,
\* run under a timeout.
FairSpec ==
  /\ Spec
  /\ WF_vars(Main)
  /\ \A p \in Permits : WF_vars(Task(p))

-----------------------------------------------------------------------------
Phases == {"fetch", "store", "agent", "save", "enqueue", "follow", "done"}

TaskState == [phase: Phases, url: Urls, depth: Nat, left: Nat, found: Nat,
              todo: SUBSET [url: Urls, priority: Priority]]

Row == [urls: SUBSET Urls, pages: Nat, records: Nat, errors: Nat]

TypeOK ==
  /\ Q!TypeOK /\ IsFiniteSet(heap)
  /\ pc \in {"seed", "budget", "pop", "empty", "check", "acquire", "stats", "stopped"}
  /\ seeds \subseteq StartUrls
  /\ pc \in {"check", "acquire"} => cur \in Q!QueuedUrl
  /\ used \in Nat /\ exit \in {"no", "budget", "idle"}
  /\ stats \in Seq(Nat) /\ Len(stats) <= 4
  /\ permits \subseteq Permits
  /\ task \in [Permits -> TaskState \cup {Idle}]
  /\ pages \in Nat /\ records \in Nat /\ errors \in Nat
  /\ db \in Row

\* No URL is fetched twice and no fetch goes uncharged: the page budget
\* counts exactly the URLs marked visited.  A task may push cur.url back
\* into the queue while the main loop waits for the rate limiter or a
\* permit; the second is_visited check must catch that copy.
BudgetCountsVisited == used = Cardinality(visited)

\* Two tasks are never at work on one URL.
TasksDisjoint ==
  \A p, q \in Busy : task[p].url = task[q].url => p = q

\* The page limit bounds the distinct URLs requested, however many tasks
\* run at once and whether or not their fetches succeed.
WithinPageLimit == MaxPages # None => Cardinality(visited) <= MaxPages

\* An entry at depth d lies behind a chain of d distinct fetched pages: the
\* recorded depth never exceeds what the crawl has earned, so on a finite
\* site it is bounded even with no max_depth.
DepthEarned == \A e \in heap : e.depth <= Cardinality(visited)

\* A permit is held exactly while its task lives.
PermitsHeldByTasks == \A p \in Permits : p \in permits <=> In(p, "idle")

\* Counting the free permits detects that no task is at work: when the loop
\* ends for want of URLs no task is left, although the queue was looked at
\* before the permits were.
IdleExitMeansNoTasks == exit = "idle" => Busy = {}

Fetching == {p \in Permits : In(p, "fetch")}

\* Every URL charged against the budget is in flight, counted as a page or
\* counted as an error; an agent failure counts its page twice.
EveryFetchCounted ==
  /\ pages + Cardinality(Fetching) <= used
  /\ used <= pages + errors + Cardinality(Fetching)

\* The statistics of a crawl that ended for want of URLs are final: the
\* counters and the queue they were read from never change again.
IdleStatsFinal ==
  exit = "idle" =>
    \A i \in DOMAIN stats :
      stats[i] = <<pages, records, errors, Cardinality(heap)>>[i]

\* The job's row never runs ahead of the crawl while its loop runs, nor
\* after an idle exit: the pages it counts were fetched and, until
\* save_stats overwrites the count, have their visited_urls row.  Of a
\* crawl that ends on its budget this is not claimed: a page counted in the
\* statistics but not yet stored is then counted in the row again.
RowKeepsUp ==
  /\ db.urls \subseteq visited /\ Cardinality(db.urls) <= pages
  /\ pc # "stopped" => db.pages <= Cardinality(db.urls)
  /\ exit = "idle" => db.pages <= pages

Storing == {p \in Permits : In(p, "store")}

\* What is still to be stored: the row of a URL is inserted once, and every
\* row is of a page counted before the one in a task's hands.
RowBehind ==
  /\ \A p \in Fetching \cup Storing : task[p].url \notin db.urls
  /\ Cardinality(db.urls) + Cardinality(Storing) <= pages

\* The loop charges the budget only after testing it.
TestedBeforeCharged == pc \in {"pop", "empty", "check", "acquire"} => ~ IsExhausted

\* The entry on its way to a task is not visited, and no deeper than allowed.
CurFresh ==
  pc = "acquire" => /\ cur.url \notin visited
                    /\ MaxDepth # None => cur.depth <= MaxDepth

\* The loop has ended just when `exit` says why; only then are there stats.
ExitCoherent ==
  /\ exit # "no" <=> pc \in {"stats", "stopped"}
  /\ exit = "no" => stats = <<>>

\* A task's URL is visited and its depth earned; so is the current entry's.
WorkEarned ==
  /\ \A p \in Busy :
       task[p].url \in visited /\ task[p].depth < Cardinality(visited)
  /\ pc \in {"check", "acquire"} => cur.depth <= Cardinality(visited)

\* The inductive invariant behind the safety properties.
IInv ==
  /\ TypeOK
  /\ Q!IInv
  /\ ExitCoherent
  /\ PermitsHeldByTasks
  /\ IdleExitMeansNoTasks
  /\ BudgetCountsVisited
  /\ TestedBeforeCharged
  /\ WithinPageLimit
  /\ CurFresh
  /\ WorkEarned
  /\ TasksDisjoint
  /\ DepthEarned
  /\ EveryFetchCounted
  /\ IdleStatsFinal
  /\ RowBehind
  /\ RowKeepsUp

\* The engine implements CrawlFrontier: an entry leaves the frontier only to
\* be fetched or, under a depth limit, to be dropped; the copies that tasks
\* push back while it is on its way are neither lost nor fetched again.
Frontier == (Q!UrlsOf(heap) \cup (IF pc \in {"check", "acquire"} THEN {cur.url} ELSE {})) \ visited

CF == INSTANCE CrawlFrontier WITH
        Concurrency <- Cardinality(Permits),
        frontier <- Frontier,
        fetched <- visited,
        working <- {task[p].url : p \in Busy},
        stopped <- exit # "no"
ImplementsFrontier == CF!Spec

\* The crawl ends: run returns and the tasks it leaves behind finish.
Termination == <>[]Quiescent

\* With no page limit every start URL is requested: each was pushed before
\* the loop began, and the loop ends on nothing but an empty queue.
StartUrlsFetched ==
  MaxPages = None =>
    \A u \in StartUrls : <>(\E p \in Permits : In(p, "fetch") /\ task[p].url = u)

-----------------------------------------------------------------------------
\* engine.rs:152, on leaving the loop with every permit free: "All permits
\* free = nothing in flight, we're done".  Nothing is in flight, but a task
\* may have pushed new URLs between the pop that found the queue empty and
\* this test: they are never fetched.
IdleMeansDone == exit = "idle" => Frontier = {}
=============================================================================
