# A verification project for dig2crawl

TLA+ models of [dig2crawl](../src/README.md), the TLC configurations that check
them on small instances, and TLAPS proofs of what holds for every instance.
`PROJECT.json` lists the components, the runs, the source lines behind every
definition, the hazards of the code and the theorems.

## 1. The system

dig2crawl is a Rust library and a command line program. The library holds a
crawl engine that walks a site with several tokio tasks; the program discovers
selectors for a site by talking to an agent, and extracts records with them.

| Component | State | Operations | What is hard about it | What makes it correct |
|---|---|---|---|---|
| URL queue (`core/queue.rs`) | a heap of `QueuedUrl`, the hash sets `visited` and `queued`, one mutex | push, push_batch, pop, is_visited, mark_visited, size | two sets index the heap, and pop and mark_visited both take a URL out of one of them | one waiting copy per URL, nothing visited comes back, priority then age |
| Crawl engine (`core/engine.rs`, `core/budget.rs`) | budget counter, semaphore, three atomic counters, the entry in hand | the main loop; per page a task: fetch, store, agent, save, enqueue, follow | the loop and the tasks interleave around the queue; idleness is inferred from two separate looks | each URL fetched once, limits kept, nothing lost, the statistics true, the crawl ends |
| Rate limiter (`core/scheduler.rs`) | a token bucket per domain | acquire: poll every 50 ms | fractional rates | a request only with a token |
| Storage (`storage/db.rs`) | tables crawl_jobs, visited_urls, records, site_memory | create_job, update_job_status, save_record, save_stats, mark_visited, is_visited, save_memory, load_memory | two statements and no transaction; foreign keys; counts that are both incremented and overwritten | the counters follow the tables, an acknowledged record stays |
| HTTP fetcher (`fetch/http.rs`, `cache.rs`, `retry.rs`, `proxy.rs`) | a bounded cache with expiry, a proxy index | fetch: look up, try and retry, store | concurrent misses, a cache full of stale entries, retries chosen by the error text | a fresh answer, at most max_retries + 1 tries |
| Browser fetcher (`fetch/browser.rs`, `interactive.rs`) | an external browser | navigate, execute actions | leaks on failure | pages are closed |
| Agent bridge (`agent/bridge.rs`, `memory.rs`, `spawn.rs`) | a memory per domain, a directory per task, the agent's process | process_page | memory read before the agent runs and overwritten after; a process that outlives its timeout | what is learned is lost by an overtaken snapshot or by the agent only |
| Agent session (`agent/session.rs`) | the session id to resume | send_prompt | a lossy broadcast channel under a deadline | the whole answer or an error |
| Commands (`main.rs`) | local to each command | discover, extract, collect-links, export-spec, fetch, test-selector | early returns that leave a browser or a directory behind, a page in hand that is not the page shown or acted on | a command that ends well has saved what it found and asked its browser to close; every command ends |
| Answer parsing (`main.rs`, `agent/spawn.rs`, `agent/visual.rs`) | none | finding and mending the JSON of an answer | prose, fences, bad escapes; three readers written apart | they find the same object |
| Page parsers (`parser/`, `core/extract.rs`) | none | selectors, JSON paths, JSON-LD, metadata, links, anti-bot patterns | two link extractors written apart; slices at byte offsets; numbers in prose | what each returns for its input |
| Configuration, export, protocol types, prompts | none | parsing and printing | | |

How they meet: the engine owns the queue, the budget, the rate limiter, the
fetcher, the storage and the agent behind the traits of `core/traits.rs`. Its
tasks share the queue through one mutex, the semaphore through permits that
each task holds until it ends, the counters through atomics and the database
through one connection. The program's commands use none of this engine: each is
one task that owns a fetcher, and discover a conversation with an agent. The
agent is an external process; the site is whatever the web returns.

## 2. The modules

```
DedupQueue      what a queue promises           CrawlFrontier   what a crawl promises
    ^ implements                                    ^ implements
UrlQueue        InMemoryQueue   <-- instance --  CrawlEngine     run, budget, tasks
    ^ extended by                                   ^ extended by
UrlQueueMC, UrlQueueProofs                      CrawlEngineMC, CrawlEngineProofs

ResponseCache   cache.rs        <-- instance --  HttpFetcher     fetch, retries
    ^ extended by                                   ^ extended by
ResponseCacheProofs   <-- instance --  HttpFetcherProofs;  HttpFetcherMC

SqliteStorage   db.rs, export.rs                AgentBridge     bridge, memory, spawn
    ^ extended by SqliteStorageMC,                  ^ extended by AgentBridgeMC,
      SqliteStorageProofs                             AgentBridgeProofs

Cli             what commands share             Selection       what loops keep
    ^ extended by                                   ^ extended by
Discover (also AgentSession), ExtractPages,     PageLinks  PageData  Profiles
CollectLinks, SinglePage                        AgentAnswer  BrowserActions
    ^ all extended by                               ^ all extended by
Commands        main;  CommandsMC, CommandsProofs Parsers       one call at a time
                                                    ^ extended by ParsersMC,
                                                      ParsersProofs
```

**UrlQueue** is `InMemoryQueue`. `heap` is the BinaryHeap's entries, `visited`
and `queued` the two hash sets, a URL standing for its hash (collisions of the
64-bit hash are left out). Every operation holds the mutex from its first read
to its last write, so each is one action: `Push`, `PushBatch`, `Pop`,
`MarkVisited`. `Greater` is HeapEntry's order; `Pop` takes any greatest entry,
since BinaryHeap is not stable. `queued_at` is a clock reading taken before the
lock: it may repeat or go back.

**DedupQueue** says what callers may rely on: a queue of entries and a set of
finished URLs. It has no `queued` index; `UrlQueue` implements it only because
`IndexCoherent` holds.

**CrawlEngine** is `CrawlEngine::run` with `CrawlBudget` and the shared queue
(`Q == INSTANCE UrlQueue`). The main loop's `pc` names the point it has reached:

| `pc` | engine.rs | action |
|---|---|---|
| seed | 133-136 | `SeedUrl`, `StartLoop` |
| budget | 139-144 | `CheckBudget` |
| pop | 147 | `PopSome`, `PopNone` |
| empty | 149-157 | `CheckIdle` |
| check | 160-168 | `CheckUrl` |
| acquire | 170-203 | `Spawn(p)`: permit, `RecordFetch`, `Q!MarkVisited`, new task |
| stats | 269-278 | `ReadStat`, `SaveStats` |

A task is named by the permit it holds. `task[p]` goes through the phases
fetch, store, agent, save, enqueue and follow; an early return goes to done.
A step is the code between two awaits, or a part of it that another thread can
see: the counters are atomics, so counting a page and storing it are two steps,
and so are the reads of the statistics. `Spawn` joins four calls in one step;
the only await between them is mark_visited's lock, and nothing but the main
loop reads the budget or takes permits. `db` is the job's row and its
visited_urls, of which each write may fail, silently, between its two
statements; the records table is not kept. A page's links are any set of URLs,
the agent's answer any of `Replies` or an error. The rate limiter's await is
part of the wait in `acquire`. `exit` records why the loop ended; it is a
history variable that no action reads.

**CrawlFrontier** says what a crawl promises: a frontier, the URLs fetched, the
URLs being worked on and whether the crawl has stopped. Under the mapping, the
frontier is what the queue and the main loop hold that is not visited, so a
copy of a URL that is pushed back while the loop holds it is no second promise,
and dropping the copy later breaks none.

**ResponseCache** is the map of `fetch/cache.rs` with all its operations. An
entry keeps the time it has left, so that no clock is needed; expired entries
stay, and count, until something removes them.

**HttpFetcher** is `fetch` with the retry loop, several callers sharing the
cache. A caller goes through lookup, try, sleep and store; what it does between
two awaits takes no time, so `Tick` waits until nothing is due. A page is its
status. The retry loop decides by searching the text of an error, which starts
with the URL, so `CodesIn` gives the codes each URL's text contains. A caller
whose timer has run out may still get its answer: which of the two comes first
is open. Proxies enter as `Proxied`: their client has no timeout. `spent` is a
history variable, stopped one above `WorstCase`.

**SqliteStorage** is `storage/db.rs` with `storage/export.rs`. The connection's
mutex is held for a whole method, so most operations are one action.
`save_record` and `mark_visited` make two statements outside a transaction:
`InsertRecord` and `InsertVisit` are the first, `CountRecord` and `CountVisit`
the second, `held` what is still owed between them. The second may fail
(`CountFails`), and the process may end at any time (`Reopen`). Foreign keys are
the guard `HasJob`. An export reads through a connection of its own: it sees the
rows of the moment its query starts, one `ExportRow` at a time, beside the
writers. Histories count the saves that were answered Ok, the visits that were
marked before and the calls that were cut.

**AgentBridge** is `process_page` with the memory of a domain and the spawner.
Every await and every separate taking of the memory's lock is a step; `pc` names
it, with its line. The agent is external, and nothing is assumed of what it
sends: `Answers` with any memory of `Sendable`, or without one, `AnswersBadly`,
or it hangs. `Fails` is any `?` before the process ends, its timeout included,
after which the process lives on until `OrphanEnds`. `stale` and `raced` record
which snapshots another call has overtaken, and whether one was written back;
`counted` is the pages the calls have counted, `shifted` what the agents have
made of the counts they were shown.

**Cli**, **AgentSession**, **Discover**, **ExtractPages**, **CollectLinks**,
**SinglePage** and **Commands** are the program. `Cli` has what the commands
share: the fetcher a command owns, the browser pages it opens, which close with
the browser only, and `exit`; `?` is `Exit("err")` wherever it stands. The
browser may refuse to close, an error that the code ignores (`Shutdown`). Each
command has a module with its own variables; `Commands` is `main`, which runs
one of them. `AgentSession` is `send_prompt` over gate4agent's broadcast channel:
the process emits start, texts and end, or dies, or hangs; what is emitted
before `Subscribe`, or into a full channel, is lost; `Deadline` cuts it.
`Discover` is `cmd_discover`, prompt by prompt: a page is the number of the
navigation that led to it, a profile the number of the prompt it came from, the
records their number. `CollectLinks` walks any site of `Sites`; of its
variables `fetched`, `failed` and `dist` are histories: the pages fetched, in
order, those that failed, and how many links from the seed each URL was found.
`ExtractPages` goes along any chain of next links; its output goes through a
`BufWriter` that is never flushed, so any part of the records may be in the file
when it ends well.

**AgentAnswer**, **PageLinks**, **PageData**, **BrowserActions** and **Profiles**
are functions: each module says how it abstracts a text, a URL or a page, mostly
as a sequence of marks; of a browser action only whether it was done, did nothing
for want of its element, or failed; **Selection** says what filters and loops keep of a
sequence: members, in the order in which they stand. **Parsers** calls one of the
functions at a time on every input of a bounded set; each property compares the
output with a definition that is written apart from the function, often from its
doc comment.

Definitions whose comment begins "Mutant:" are not part of any specification.
Each is a plausible bug; `PROJECT.json` says which definition it stands in for
and which property must then fail.

## 3. The runs

| Run | Instance | Asks |
|---|---|---|
| `url_queue` | 3 URLs, 3 priorities, 2 clock readings, batches of two | does the queue keep its books under every interleaving, and implement DedupQueue? |
| `engine_links` | 3 URLs, 2 of them starts, 2 permits, no limits, links only | is each URL fetched once, is none lost, does an idle exit mean that no task is at work, does every crawl end, and every start URL get its request? |
| `engine_limits` | 3 URLs, 2 permits, 2 pages, depth 1, agent and links | do limits, counters and the database row hold with failures? |
| `fetcher` | 2 callers, 2 URLs (one with 404 in its text), room for 1 page, 2 retries | are failures never pages, is giving up justified and in time, does the cache keep its promises, does every call return? |
| `storage` | 2 jobs, 2 rows for each, 1 URL, 1 memory | do the counters follow the tables, does every acknowledged record stay, is an export that succeeds whole? |
| `agent_bridge` | 2 calls for one domain, 1 fact, any memory sent of up to 2 pages and 1 record | what can be lost of a memory and how, who leaves a directory behind, does every call return? |
| `commands` | any command; answers of 2 texts over a channel of 1, 1 fault, 0 to 2 records, 2 navigations; 3 pages to extract; all sites of 3 pages with 5 lists of links, depth up to 2 | does every command end, what has one that ends well done, does a verdict stay with its profile, is the walk exact? |
| `parsers` | all answers and texts of up to 6 marks, prices of up to 5, paths of up to 5, pages of up to 3 links, 2 blocks, 2 containers, 3 actions | does each function return what its task says? |
| `fetcher_proxy` | 1 caller, the same, behind a proxy | a finding |
| `parsers_price` | as `parsers` | a finding |
| `url_queue_test` | as `url_queue` | a finding: see below |
| `engine_idle` | 2 URLs, 1 permit | a finding |

Bounds. No engine run bounds a counter: the crawl fetches each URL once, so `Urls`
bounds the state space. Three URLs are enough for a start page, a page linked
from it and pushed back to it while it is in hand, and a third that the other
task works on meanwhile; two permits for two tasks beside the main loop. With
three URLs and a limit of two pages the budget ends some crawls with URLs left
and a task at work. Entries carry one time stamp in the engine runs, so that
entries of equal priority are popped in any order, a superset of what clocks
allow. Permits are interchangeable, so `engine_limits` uses symmetry over them;
`engine_links`, which checks liveness, does not. It has no agent: what an agent
pushes, `engine_limits` shows, and to the loop a task that waits for one is a task
that waits for its page. The queue run needs no engine: callers may do
anything. Its depths are all 0, as the queue never reads them.

The fetcher's delays are 1 and 4, the latter clamped to 2, so the clamp and all
three tries matter; one place in the cache for two URLs makes it full, and a
lifetime of one tick lets entries expire while they hold it. Statuses are 200,
404 and 503: a page, an error page, a failure to retry.

Storage: two jobs, so that one can be created while rows refer to the other;
with two inserts for a job its one URL is marked twice, which is the case
`OR IGNORE` is about. `MaxRows` bounds the inserts. Bridge: the memory races need
two calls, and one fact that one of them learns; the memory that an agent sends is
any one of the fact, `MaxPages` and `MaxRecords`, so it may have more than it was
shown, or less. Commands: answers of two texts
over a channel of one place lose texts, the start or the end; `MaxFaults` bounds
the losses and deaths in all prompts of a run, and one is enough for a
conversation to lose its context; with two records wanted, none, one and two are
too few, too few after L2 and enough. The limit on navigation is the code's. The
seed of collect-links is spelled unlike any link, as a URL the user types may
be. `MaxPages` and `MaxDepth` bound what the user asks for. Parsers: six marks
hold an object in a fence with prose around it, two objects, or braces the wrong
way round; the widths and lengths that the code compares are scaled down with
the inputs (`HexDigits`, `MinPerBlock`, `Header`, `Mark`).

Several properties of one run are conjunctions of named parts, each with its own
comment: `WellFormed`, `DirsInOrder`, `OkMeansDone`, `AnswersKept`,
`WalkIsExact`, and four of `Parsers`. So are the `IInv`
of the queue, the engine and the commands, whose parts are `OneCopyPerUrl`,
`TasksDisjoint` and `DepthEarned`, or `BoundedWork`, `Account` and `WalkInv`,
among others. An `IInv` is checked by a run because a proof rests on it.

Fairness of the engine (`FairSpec`, used by `engine_links` only): weak fairness of
the main loop as a whole and of each task. Tokio polls every runnable task; the queue's
mutex and the semaphore are fair; the loop's sleep ends. It also assumes that a
fetch, an agent call and a database write return. The agent's process is under
a timeout of 120 s, and so is the HTTP client, 30 s, except that the client
built for a proxied request has none (`fetch/http.rs:167`): behind a proxy that
hangs, termination is not guaranteed. Which of success and failure a call
returns is never assumed.

Fairness of the fetcher: timers fire, code between awaits runs, and time passes
(strong fairness of `Tick`, since calls that take no time could disable it over
and over). Neither the site nor the network is assumed ever to answer.

Fairness of the bridge: each call's own steps, its timeout among them, since the
executor polls it. Fairness of the commands: the steps of the program, taken
together, as it is one task; this assumes that calls of the browser, the HTTP
client and the file system return. Nothing is assumed of the agent in either:
that every command ends rests on the deadline of every prompt (`Deadline`) and
on the bounds of its loops. A process that emits without end is left out, as an
answer of the model has a given length: the deadline of the code (`timeout_at`,
`session.rs:111`) looks for an event first and for the time only when there is
none, so that it may not end a stream that is always ahead of the reader.
Storage and parsers need none.

### What the runs find

- `url_queue_test`: the unit test `test_deduplication` (`core/queue.rs:212`)
  asserts that a URL marked visited no longer counts in `size()`. The code
  leaves the heap entry where it is, so the assertion of line 221 fails.
- `engine_idle`: "All permits free = nothing in flight, we're done"
  (`core/engine.rs:152`). Nothing is in flight, as `IdleExitMeansNoTasks` shows,
  but a task that pushed links and ended between the empty pop and the permit
  count leaves URLs in the queue that are never fetched. Testing the permits
  before the pop would close the gap.
- `fetcher_proxy`: the client built for a proxied request lacks the timeout, so
  a call may outlast any bound.
- `parsers_price`: `ParseNumber` keeps the full stop of a unit. The price 1 500,99
  with the Russian abbreviation of rouble, which ends in one, has two separators
  then, is no number and is dropped. The test `test_transform_parse_number`
  (`parser/selector.rs:269`) asserts 1500.99, and the comment at line 130 says the
  same.

Other divergences show in the definitions and have no run of their own:

- A network failure on a URL with 404 in its text is not retried, although
  `fetch/http.rs:101` lists network failures as transient; `GivesUpHonestly`
  states what does hold. The cache takes every status below 400, although
  `fetch/http.rs:232` says 2xx.
- After a budget exit `run` returns its statistics while tasks are at work, and
  logs "Crawl completed" (`core/engine.rs:287`).
- A separator of thousands is read as one of decimals: 1,500 is 1.500.
  `PricesAreRead` promises the digits of a price, and its value only where the
  text has no other reading.
- `send_prompt` returns "the full text response" (`agent/session.rs:69`, and line
  19: "Returns the collected text"), but when the receiver lags, or the process
  ends before its time, an answer with a part of the texts is Ok (`OkIsWhole`).
- `session_id` is that "from the last successful call" (`agent/session.rs:64`), but
  a prompt that times out leaves its own (`Deadline`, `ContextKept`).
- `extract_json_from_response` speaks of a direct parse that falls back to a fence
  or a span (`agent/visual.rs:64`), and returns any answer that begins with a
  brace as it is, with the prose after the object. `EveryReaderFindsIt` leaves
  that answer out.
- A repeated visit is counted again in `pages_fetched` (`storage/db.rs:262`).
  `CountersFollowTables` bounds the excess by the repeats; the repository does not
  say what the column counts. A second run of the engine over the same job, the
  likeliest source of repeats, is not modelled.
- `save_stats` and the counters that it overwrites: see the end of this section.
- A failed task leaves its directory (`agent/bridge.rs:99`), and a failed command
  its browser and its job directory (`main.rs:978`): `DirsInOrder` and
  `OkMeansDone` say who may, and permit it.
- The error of a browser that cannot be closed is ignored (`main.rs:368`), and so
  is one of the last write of `extract`, whose `BufWriter` is never flushed
  (`main.rs:1363`): the command ends well with a part of the records in the file.
  `OkMeansDone` claims that the browser was asked to close, and of `extract` that
  it read every page before it wrote.
- Clicking at a point, scrolling to an element, pressing a key and choosing an
  option do nothing, silently, without their element (`fetch/interactive.rs:52`,
  80, 161, 174): the caller is told of failures only.
- `summarize_spa_json` cuts "to max_chars total" (`parser/json_data.rs:126`), and
  adds its mark behind the cut; no command calls it.
- `AntiBotDetector::detect` prefers "first encountered" among equals
  (`parser/antibot.rs:129`), but walks a hash map: any of them.
- `extract_spa_json` returns the blocks pattern by pattern, not in the order of
  the page (`parser/json_data.rs:53`).
- `extract` looks for the next button's link inside an element that the same
  selector matches (`main.rs:1324`), so a selector of the link itself finds
  nothing and pagination ends at the first page. The model leaves open whether
  a link is found.
- L2 and L3 open the URL the command was given, although the agent may have
  navigated away from it (`main.rs:1100`, `main.rs:1187`).
- A visual Type is turned into a click and its text never typed
  (`agent/actions.rs:57`); a relative scroll becomes an absolute one.
- Slices at a byte offset panic inside a character (`main.rs:1166`,
  `main.rs:1541`, `agent/prompts.rs:459`, `parser/json_data.rs:143`), and one
  panics when the closing brace comes first, with something between the two
  (`agent/spawn.rs:107`): actions of the models end in
  `panic`, and `OkMeansDone` and `AnswersAreRead` say what is and is not lost.

`RowKeepsUp` is claimed of the running loop and of an idle exit only. After a
budget exit `save_stats` overwrites the row with counts that include pages
whose `mark_visited` is still to come, and each of those is then counted again.

## 4. The proofs

`UrlQueueProofs` (for any URLs, offers and batches): `QueueInvariant`,
`OneCopy`, `VisitedNeverReenters`, `QueueImplementsDedupQueue`. The invariant is
`IInv`: types, one copy per URL, and `IndexCoherent`. One copy alone is not
inductive, for `push` looks at the sets and not at the heap; coherence says
that a URL in the heap is in one of them.

`CrawlEngineProofs` (for any finite site, any finite number of permits, any
limits, replies and clock readings, links or agent on or off): `TypeCorrect`,
`EngineInvariant`, `FetchOnceWithinLimit`, `PageLimitHolds`, `IdleExitIsFinal`,
`IdleStatsStay`, `FetchesAccounted`, `RowNeverAhead`,
`EngineImplementsFrontier`. The assumptions are those named
in `CrawlEngine`. The argument has four layers, each using the ones before:

1. Types and the queue's invariant, the latter by citing `UrlQueueProofs`.
2. `Control`: a permit is free exactly when its task is idle; hence a loop that
   ends with every permit free ends with no task at work. `exit` is set exactly
   when the loop has ended. Past the budget test the budget is not exhausted,
   since only the main loop charges it.
3. `Budget`: `used` is the number of visited URLs. `CurFresh` is what makes it
   inductive: the entry waiting for a permit is still not visited, although
   tasks may have pushed it again, because only `Spawn` marks URLs.
4. `Work`: tasks work on distinct visited URLs, and the depth of an entry is at
   most the number of URLs visited, that of a task less than it.

On these rest the counting properties, `EveryFetchCounted`, `IdleStatsFinal` and
`RowKeepsUp`, and the refinement: each step of the main loop and of a task
is a step of CrawlFrontier or leaves the mapped variables alone.

`ResponseCacheProofs` (for any capacity and lifetime): the cache stays within its
capacity, and only clear drops a live page. `HttpFetcherProofs` (for any callers,
URLs, statuses, cache, retries and backoff): `FetcherInvariant`,
`NoFailureIsAPage`, `FailsAfterLastTry`, `CallsEndInTime`,
`CacheWithinCapacity`, `CachedPagesLast`. The cache's facts are cited through an
instance of `ResponseCacheProofs`: each step of the fetcher is one of its
operations. `CallsEndInTime` rests on `TimeLeft`, an account of each call: the
time spent and the running timer fit in one timeout and one sleep for every try
begun. `FetcherAssumption` says that the delays are natural numbers, for the
library has no facts about powers.

`SqliteStorageProofs` (for any jobs, URLs, memories and numbers of rows):
`ForeignKeysHold`, `CountersFollow`, `AckedRecordsAreKept`,
`ExportsAreWhole`. The second statement of a call checks no foreign key, so that
the holder of the mutex has a job is part of the invariant (`HolderHasAJob`). The
accounts are inductive with the types; that of the visits is exact
(`CountsAreExact`: rows and repeats are what was counted, is owed or was cut), and
needs that the rows of `visited_urls` are a finite set. An export's account
(`ExportAccount`) compares what it read with what its query saw, and that with
the rows there are now, which never become fewer.

`AgentBridgeProofs` (for any calls, domains and facts, and whatever the agents
send): `DirectoriesInOrder`, `EachPageCountedOnce`, `LossNeedsACause`. `DirInv` says which
calls have a directory and which may have a process. The heart of the other two
is `SnapshotIsMemory`: the snapshot of a call that has not updated yet is the
domain's memory, unless it is stale. So what an update from such a snapshot adds to
the page count, or takes from what is known, is the agent's own doing.

`CommandsProofs` (for any length of answers, capacity of the channel and number of
faults, any limit of navigation, any pages, sites and depths): `WorkIsBounded`,
`OkIsDone`, `AnswersAreKept`, `VerdictIsOwn`, `PoorResultTried`,
`WalkIsAlwaysExact`, from `CommandsInvariant`. `IInv` has a part for each command:

1. `CliInv`: only a browser has pages, open or lost, and a command past its
   shutdown has no browser of its own.
2. `SessionInv`, while a prompt is answered: what the process has still to emit,
   with what lies in the channel, is a piece of the script (start, texts, end) but
   for what was lost; `missed` counts those. So an answer that is returned lacks
   exactly the texts lost, and without a loss of `start` the session id is new.
   Every action of the process, the receiver and the deadline keeps the account.
3. `DiscoverInv`: how many prompts were sent and pages opened before each `pc`,
   whether there is a profile and whose verdict it carries, and which levels were
   tried. Each stage of discover is one lemma, L1, L2 and L3.
4. `ExtractInv` and `SingleInv`: what is read before what is written.
5. `WalkInv`, a breadth-first search. The queue and the pages fetched are in the
   order of their distance, each URL once (`InOrder`); a URL within the depth
   waits, was fetched or failed (`EachOnce`); nothing seen is more than one link
   further than the head of the queue (`Frontier`); every URL seen is a link of a
   page one link nearer, and the links of a fetched page are all seen
   (`LinkedTo`). `Frontier` is what makes the others inductive: a new link goes
   behind everything that is as far. Without the history `dist` none of this can
   be said, since the program forgets the depth of a URL that it does not queue.

`WalkIsExact` compares the walk with `Within`, and `NewLinks` says what a page adds;
both are recursive functions. The library states induction for an operator, which
these provers cannot take. `SetInduction` states it for a set of numbers, and is
proved from the well-founded order of the numbers, which the library states for
sets; `Recursion` follows from it: a function with given first value and steps
exists, so the CHOOSE behind a recursive definition has what it asks for. Then
`NewLinksAre` and `SeenIsReached` are inductions like any other.

`ParsersProofs` (for answers, texts, pages, paths and lists of any length): all five
properties of `Parsers`, by the theorems `AnswersStayRead`, `LinksFound`,
`PageDataStaysRead`, `RecordsStayOwn` and `NothingEverStops`. The invariant of a call
is that its output is what its function makes of its input, so what is proved is
about the functions. `ParsersAssumption` says what the inputs are: sequences of the
marks that the modules name, URLs whose page has a host, an agent's memory that is one
or none, and documents whose names hold none of the marks of a path, since for a name
with a dot in it no path can be written.

Most of the functions are folds, which the community modules define by a recursive
choice over the subsets of the places of a sequence. `SetRecursion` gives the
function that such a definition asks for, `FoldSteps` reads a fold as the values
after each member, and what is proved of them is an induction on the members.

1. `NothingEverStops`: after k actions the page has those of the first k that were
   done, and the failures are those of them that failed (`RunsDo`).
2. `ObjectsAreFound`, two of the three parts of `AnswersAreRead`. An object ends with
   a closing brace (`ObjectIs`, from the count of braces before it); so the first
   opening and the last closing brace of an answer in which it is alone are its own
   (`AloneIs`), and each reader finds it in a fence or between its braces, but for
   the answers that the property leaves out.
3. `AnswersStayRead` adds the mending of escapes. The invariant of the scan is
   `Mended`: the mode says whether a character is escaped and whether it is in a
   string, both of which `JsonText` counts from the beginning of the text; what is
   written is well quoted, has no bad escape but one that has just begun
   (`Mending`), and is longer than what was read by the escapes that were bad.
4. `LinksFound`. `Kept`, `Distinct` and `Present` lead back to places of the page
   that go up (`Runs`). The two extractors differ in the order of their steps only;
   a link of the page is found at the first of the places that yield it
   (`InternalLinks`, `SourcedIsExact`).
5. `RecordsStayOwn`: of a profile, its page type and selectors (`ProfileIs`); of the
   records, which containers they are of and from which fields (`RecordIs`,
   `RecordsAre`); of a price, its digits, and its separator where it has but one
   (`PriceIs`).
6. `PageDataStaysRead`. `SurestIsNamed`; `SummariesFit`, from the bytes of what is
   cut and put together; and `NodesAreReached`. A path is split at its dots, a segment
   at its brackets, and what was split is put together, so no part of a path has a
   meaning of its own. It is therefore read mark by mark: `InName` and `InIndex` say
   which steps are done and what has been read of the next, and six lemmas how each
   mark changes that (`NameGoesOn` to `IndexCloses`). The way to a node is then found
   step by step (`NodeIsReached`); and of a path whose brackets are closed, either
   the words read are the names of its steps, or a step is in no document, and such
   a step stays (`LeadsOn`, `OwnWords`).

Only model-checked: the liveness properties, `Termination`, `StartUrlsFetched`, both
`EveryCallReturns` and `CommandEnds`, since liveness under fairness is out of the
prover's reach; and what the four runs that expect a violation show.

## 5. Not modelled, and why

- One call of `run` on a fresh queue. The engine could be run again with the
  same queue and budget, its visited set would carry over; or over the same job
  with a new queue, its pages would be marked again.
- `queue.push(..).await?`, `pop` and `mark_visited` cannot fail with
  InMemoryQueue, and the semaphore is never closed, so the loop's error returns
  do not occur.
- The rate limiter: a poll of governor's limiter every 50 ms, which no other
  module of the program builds. The engine's progress log and elapsed time.
- Duplicate URLs in one answer of the agent: an answer is a set.
- The fetcher's choice of proxy, invalid proxy URLs, signing, and a poisoned cache
  lock. `retry_reqwest` has no caller.
- Storage: a loss of power (WAL with synchronous=NORMAL may then lose commits),
  first statements that fail, collisions of hashes; `hash_url` of `db.rs` uses a
  hasher whose values may differ between builds.
- The program's steps after a session's process is abandoned: gate4agent's own
  clean-up of processes is external.
- Discover: what is printed, the anti-bot report, the texts of prompts, and
  extraction by JSON paths, whose mode nothing sets.
- How CSS selectors match; `metadata.rs` and `jsonld.rs`, the skeleton of a JSON
  value; the visual session, which has no caller; the captcha solver, a stub.
- Configuration files, message types and the cookie tool: no state.

## 6. What is left

Every invariant and every action property that a passing run checks is stated by a
theorem; of the temporal properties the two refinements are. Left to do:

1. **CrawlEngine**: a property of the pages within max_depth. A URL first queued
   along a long path keeps its deep entry, as the queue ignores a shallower push
   (`core/engine.rs:161`); over a fixed link graph a run would show which pages are
   never fetched. The model takes the links of a page from any answer, so the
   distance of a page is not defined in it.
2. **Parsers**: the readers that section 5 names, `metadata.rs` and `jsonld.rs`.
