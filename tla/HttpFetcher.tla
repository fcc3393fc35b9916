---------------------------- MODULE HttpFetcher ----------------------------
(***************************************************************************)
(* HttpFetcher::fetch, src/src/fetch/http.rs, with the retry loop of       *)
(* retry.rs and the cache of cache.rs, called by several tasks at once.    *)
(*                                                                         *)
(* A caller's `pc` is where its call of fetch has got to:                  *)
(*   idle    no call made yet                                              *)
(*   lookup  before the cache is asked            http.rs:209              *)
(*   try     a request is on its way              http.rs:156-203          *)
(*   sleep   waiting before the next try          retry.rs:101             *)
(*   store   a page is there, not cached yet      http.rs:232              *)
(*   ok, err the call has returned                                         *)
(*                                                                         *)
(* A page is its status.  Time is counted in ticks by timers that run      *)
(* down.  Requests, sleeps and the cache's entries take time; the code     *)
(* between two awaits takes none.                                          *)
(***************************************************************************)
EXTENDS Integers, FiniteSets

CONSTANTS
  Callers,     \* the tasks that share the fetcher
  Urls,        \* the URLs they ask for
  CodesIn,     \* the status codes that occur in the text of each URL
  Statuses,    \* the statuses the site may answer with
  MaxSize,     \* capacity of the cache; 0 stands for no cache
  Ttl,         \* lifetime of a cached page
  Timeout,     \* the client's request timeout
  Proxied,     \* whether a proxy pool is configured
  Retrying,    \* whether a RetryConfig is configured; if so:
  MaxRetries,  \* max_retries
  InitialDelay, BackoffFactor, MaxDelay

Delay(k) == InitialDelay * BackoffFactor ^ k

ASSUME FetcherAssumption ==
  /\ CodesIn \in [Urls -> SUBSET Nat]
  /\ Statuses \subseteq Nat
  /\ {Proxied, Retrying} \subseteq BOOLEAN
  /\ {MaxSize, Ttl, Timeout, MaxRetries, MaxDelay} \subseteq Nat
  /\ \A k \in 0..MaxRetries : Delay(k) \in Nat

VARIABLES
  entries,  \* the response cache, shared behind a mutex
  pc,       \* where each caller is
  url,      \* what it asks for
  attempt,  \* the retry loop's counter
  timer,    \* what is left of the request's timeout or of the sleep
  page,     \* the status of the page it has got
  spent     \* history: how long the call has taken

calls == <<pc, url, attempt, timer, page, spent>>
vars == <<entries, pc, url, attempt, timer, page, spent>>

C == INSTANCE ResponseCache WITH Pages <- Statuses

\* is_retryable_status, and the codes the retry loop gives up on.
RetryableStatus == {429, 500, 502, 503, 504}
NonRetryableStatus == {400, 401, 403, 404}

\* The longest a call may take, if every try times out.
WorstCase == MaxRetries * (Timeout + MaxDelay) + Timeout

Init ==
  /\ C!Init
  /\ pc = [c \in Callers |-> "idle"]
  /\ url \in [Callers -> Urls]
  /\ attempt = [c \in Callers |-> 0]
  /\ timer = [c \in Callers |-> 0]
  /\ page \in [Callers -> Statuses]
  /\ spent = [c \in Callers |-> 0]

Goto(c, at) == pc' = [pc EXCEPT ![c] = at]

\* A caller that has no call under way makes one.
Call(c, u) ==
  /\ pc[c] \in {"idle", "ok", "err"}
  /\ Goto(c, "lookup")
  /\ url' = [url EXCEPT ![c] = u]
  /\ attempt' = [attempt EXCEPT ![c] = 0]
  /\ timer' = [timer EXCEPT ![c] = 0]
  /\ spent' = [spent EXCEPT ![c] = 0]
  /\ UNCHANGED <<entries, page>>

\* fetch_once begins.  The client it uses has a timeout, unless it was built
\* for a proxy.
Try(c, k) ==
  /\ Goto(c, "try")
  /\ attempt' = [attempt EXCEPT ![c] = k]
  /\ timer' = [timer EXCEPT ![c] = Timeout]

\* Step 1 of fetch: the cache.
Lookup(c) ==
  /\ pc[c] = "lookup"
  /\ C!Get(url[c])
  /\ IF C!Hit(url[c])
       THEN /\ Goto(c, "ok")
            /\ page' = [page EXCEPT ![c] = entries[url[c]].page]
            /\ UNCHANGED <<attempt, timer>>
       ELSE Try(c, 0) /\ UNCHANGED page
  /\ UNCHANGED <<url, spent>>

\* Mutant: the delay is not clamped.
BackoffUnclamped(k) == Delay(k)

\* backoff_delay.
Backoff(k) == IF Delay(k) < MaxDelay THEN Delay(k) ELSE MaxDelay

\* The retry loop decides by the text of the error, which begins with the
\* URL: `codes` are the status codes in it, `hasStatus` whether it has the
\* word "status ".
ShouldRetry(codes, hasStatus) ==
  \/ codes \cap RetryableStatus # {}
  \/ codes \cap NonRetryableStatus = {} /\ ~ hasStatus

\* Mutant: the first try counts as a retry.
FailedOneShort(c, codes, hasStatus) ==
  /\ IF Retrying /\ ShouldRetry(codes, hasStatus) /\ attempt[c] + 1 < MaxRetries
       THEN /\ Goto(c, "sleep")
            /\ timer' = [timer EXCEPT ![c] = Backoff(attempt[c])]
       ELSE Goto(c, "err") /\ UNCHANGED timer
  /\ UNCHANGED <<entries, url, attempt, page, spent>>

\* A try ended in an error.
Failed(c, codes, hasStatus) ==
  /\ IF Retrying /\ ShouldRetry(codes, hasStatus) /\ attempt[c] < MaxRetries
       THEN /\ Goto(c, "sleep")
            /\ timer' = [timer EXCEPT ![c] = Backoff(attempt[c])]
       ELSE Goto(c, "err") /\ UNCHANGED timer
  /\ UNCHANGED <<entries, url, attempt, page, spent>>

\* Connecting, sending or reading the body fails.
NetworkFails(c) ==
  /\ pc[c] = "try"
  /\ Failed(c, CodesIn[url[c]], FALSE)

\* The client gives up on the request.
TimesOut(c) ==
  /\ pc[c] = "try"
  /\ ~ Proxied
  /\ timer[c] = 0
  /\ Failed(c, CodesIn[url[c]], FALSE)

\* Mutant: every answer is a page.
AnswerUnchecked(c, s) ==
  /\ pc[c] = "try"
  /\ Goto(c, "store")
  /\ page' = [page EXCEPT ![c] = s]
  /\ UNCHANGED <<entries, url, attempt, timer, spent>>

\* The site answers.  With retries, some statuses count as errors.
Answer(c, s) ==
  /\ pc[c] = "try"
  /\ IF Retrying /\ s \in RetryableStatus
       THEN Failed(c, CodesIn[url[c]] \cup {s}, TRUE)
       ELSE /\ Goto(c, "store")
            /\ page' = [page EXCEPT ![c] = s]
            /\ UNCHANGED <<entries, url, attempt, timer, spent>>

\* Mutant: the loop forgets to count.
WakeUncounted(c) ==
  /\ pc[c] = "sleep"
  /\ timer[c] = 0
  /\ Try(c, attempt[c])
  /\ UNCHANGED <<entries, url, page, spent>>

\* The sleep between two tries ends.
Wake(c) ==
  /\ pc[c] = "sleep"
  /\ timer[c] = 0
  /\ Try(c, attempt[c] + 1)
  /\ UNCHANGED <<entries, url, page, spent>>

\* Mutant: every page is cached.
StoreAll(c) ==
  /\ pc[c] = "store"
  /\ C!Put(url[c], page[c])
  /\ Goto(c, "ok")
  /\ UNCHANGED <<url, attempt, timer, page, spent>>

\* Step 3 of fetch: the cache again, and return.
Store(c) ==
  /\ pc[c] = "store"
  /\ IF page[c] < 400 THEN C!Put(url[c], page[c]) ELSE UNCHANGED entries
  /\ Goto(c, "ok")
  /\ UNCHANGED <<url, attempt, timer, page, spent>>

\* What a caller waits for, and whether its time has come.
Waiting(c) == pc[c] = "sleep" \/ (pc[c] = "try" /\ ~ Proxied)
Due(c) == pc[c] \in {"lookup", "store"} \/ (Waiting(c) /\ timer[c] = 0)

\* One unit of time passes, once nothing is due.  `spent` stops just above
\* WorstCase: how much longer a call takes is of no interest.
Tick ==
  /\ \A c \in Callers : ~ Due(c)
  /\ C!Tick
  /\ timer' = [c \in Callers |-> IF Waiting(c) THEN timer[c] - 1 ELSE timer[c]]
  /\ spent' = [c \in Callers |->
                IF pc[c] \in {"try", "sleep"} /\ spent[c] <= WorstCase
                  THEN spent[c] + 1 ELSE spent[c]]
  /\ UNCHANGED <<pc, url, attempt, page>>

Next ==
  \/ \E c \in Callers :
       \/ \E u \in Urls : Call(c, u)
       \/ Lookup(c)
       \/ \E s \in Statuses : Answer(c, s)
       \/ NetworkFails(c)
       \/ TimesOut(c)
       \/ Wake(c)
       \/ Store(c)
  \/ Tick

Spec == Init /\ [][Next]_vars

\* Timers fire and tasks run between awaits.  The clock runs too, strongly
\* fair since calls that take no time disable Tick for a moment: time does
\* not stand still however many of them there are.  Neither the site nor the
\* network is assumed ever to answer.
FairSpec ==
  /\ Spec
  /\ SF_vars(Tick)
  /\ \A c \in Callers : WF_vars(Lookup(c) \/ TimesOut(c) \/ Wake(c) \/ Store(c))

-----------------------------------------------------------------------------
\* The cache and the calls keep their types.
TypeOK ==
  /\ C!TypeOK
  /\ pc \in [Callers -> {"idle", "lookup", "try", "sleep", "store", "ok", "err"}]
  /\ url \in [Callers -> Urls]
  /\ attempt \in [Callers -> 0..MaxRetries]
  /\ timer \in [Callers -> Nat]
  /\ page \in [Callers -> Statuses]
  /\ spent \in [Callers -> Nat]

\* No task is given a page whose status says "try again", be it the answer
\* to its own request or one that another task left in the cache; and the
\* cache holds no error page at all, whatever happens to the calls that fill
\* it.
FailuresAreNoPages ==
  /\ Retrying => \A c \in Callers :
                   pc[c] \in {"store", "ok"} => page[c] \notin RetryableStatus
  /\ \A u \in DOMAIN entries : entries[u].page < 400

\* With retries, a call fails only when all its tries are used up, or on a
\* URL whose own text has a non-retryable code in it and no retryable one.
GivesUpHonestly ==
  Retrying => \A c \in Callers :
    pc[c] = "err" =>
      \/ attempt[c] = MaxRetries
      \/ /\ CodesIn[url[c]] \cap NonRetryableStatus # {}
         /\ CodesIn[url[c]] \cap RetryableStatus = {}

\* What a call may still spend: the running timer, and for each try it has
\* begun a timeout and a sleep.
TimeLeft ==
  \A c \in Callers :
    /\ pc[c] \in {"idle", "lookup"} => spent[c] = 0
    /\ pc[c] = "try" =>
         spent[c] + timer[c] <= attempt[c] * (Timeout + MaxDelay) + Timeout
    /\ pc[c] = "sleep" =>
         spent[c] + timer[c] <= (attempt[c] + 1) * (Timeout + MaxDelay)
    /\ spent[c] <= WorstCase

\* Without proxies, a call takes at most the time of max_retries + 1
\* timeouts and of the sleeps between them, each at most max_delay: no task
\* keeps its permit longer than that for a fetch.
CallTimeBounded == ~ Proxied => \A c \in Callers : spent[c] <= WorstCase

IInv ==
  /\ TypeOK
  /\ FailuresAreNoPages
  /\ GivesUpHonestly
  /\ \A c \in Callers : pc[c] = "sleep" => attempt[c] < MaxRetries
  /\ ~ Proxied => TimeLeft

\* The shared cache is typed and within its capacity, whatever callers that
\* missed the same URL, or filled the last place, store one after another.
CacheBounded == C!IInv

\* A page in the cache lasts for its lifetime: no other lookup and no store
\* drops it, and a second store of its URL never shortens its life.
CacheKeepsLive == [][C!Tick \/ C!KeepsLive]_entries

\* Every call returns although the site may never answer: each try is cut
\* off, and there are finitely many.
EveryCallReturns ==
  \A c \in Callers : pc[c] = "lookup" ~> pc[c] \in {"ok", "err"}

-----------------------------------------------------------------------------
\* The builder's doc (http.rs:40) speaks of one request timeout.  The client
\* built for a proxied request does not get it, and a call may take longer
\* than its tries and sleeps together should.
TimeoutKept == \A c \in Callers : spent[c] <= WorstCase
=============================================================================
