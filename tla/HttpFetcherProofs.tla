------------------------- MODULE HttpFetcherProofs -------------------------
(***************************************************************************)
(* Proofs about HttpFetcher, for any callers, URLs, statuses and           *)
(* configuration of cache, proxies and retries.                            *)
(*                                                                         *)
(* What the calls do to the cache are operations of ResponseCache, so the  *)
(* cache's invariant is cited, not proved again.  The time a call takes is *)
(* bounded by an account: `spent` and the running timer fit in a timeout   *)
(* and a sleep for every try begun.                                        *)
(***************************************************************************)
EXTENDS HttpFetcher, TLAPS

CP == INSTANCE ResponseCacheProofs WITH Pages <- Statuses

\* Backoff delays are within the clamp.
LEMMA BackoffBounded ==
  ASSUME NEW k \in 0..MaxRetries
  PROVE  Backoff(k) \in 0..MaxDelay
BY FetcherAssumption DEF Backoff

\* A step of the fetcher looks up, stores, lets time pass, or leaves the
\* cache alone.
LEMMA StepUsesCache ==
  ASSUME TypeOK, [Next]_vars
  PROVE  \/ \E u \in Urls : C!Get(u)
         \/ \E u \in Urls, s \in Statuses : C!Put(u, s)
         \/ C!Tick
         \/ UNCHANGED entries
<1>1. ASSUME NEW c \in Callers, Lookup(c) PROVE \E u \in Urls : C!Get(u)
  BY <1>1 DEF TypeOK, Lookup
<1>2. ASSUME NEW c \in Callers, Store(c)
      PROVE  \/ \E u \in Urls, s \in Statuses : C!Put(u, s)
             \/ UNCHANGED entries
  BY <1>2 DEF TypeOK, Store
<1>3. ASSUME Tick PROVE C!Tick
  BY <1>3 DEF Tick
<1>4. ASSUME NEW c \in Callers,
             \/ \E u \in Urls : Call(c, u)
             \/ \E s \in Statuses : Answer(c, s)
             \/ NetworkFails(c)
             \/ TimesOut(c)
             \/ Wake(c)
      PROVE  UNCHANGED entries
  BY <1>4 DEF Call, Answer, NetworkFails, TimesOut, Wake, Failed
<1> QED
  BY <1>1, <1>2, <1>3, <1>4 DEF Next, vars

-----------------------------------------------------------------------------
\* A failed try keeps the types, whether or not it is retried.
LEMMA FailedTypes ==
  ASSUME TypeOK, NEW c \in Callers, NEW codes, NEW h, Failed(c, codes, h)
  PROVE  /\ pc' \in [Callers -> {"idle", "lookup", "try", "sleep", "store", "ok", "err"}]
         /\ timer' \in [Callers -> Nat]
         /\ UNCHANGED <<url, attempt, page, spent>>
<1>1. Backoff(attempt[c]) \in Nat
  BY BackoffBounded, FetcherAssumption DEF TypeOK
<1> QED
  BY <1>1 DEF Failed, Goto, TypeOK

\* The calls keep their types in every step; what a hit returns is a page
\* that the cache had.
LEMMA TypesKept ==
  ASSUME IInv, [Next]_vars, C!TypeOK'
  PROVE  TypeOK'
<1> USE DEF IInv
<1>1. ASSUME NEW c \in Callers, NEW u \in Urls, Call(c, u) PROVE TypeOK'
  BY <1>1, FetcherAssumption DEF TypeOK, Call, Goto
<1>2. ASSUME NEW c \in Callers, Lookup(c) PROVE TypeOK'
  <2>1. CASE C!Hit(url[c])
    <3>1. entries[url[c]].page \in Statuses
      BY <2>1 DEF TypeOK, C!TypeOK, C!Hit, C!Entry
    <3> QED
      BY <1>2, <2>1, <3>1 DEF TypeOK, Lookup, Goto
  <2>2. CASE ~ C!Hit(url[c])
    BY <1>2, <2>2, FetcherAssumption DEF TypeOK, Lookup, Try, Goto
  <2> QED
    BY <2>1, <2>2
<1>3. ASSUME NEW c \in Callers, NEW s \in Statuses, Answer(c, s) PROVE TypeOK'
  <2>1. CASE Retrying /\ s \in RetryableStatus
    BY <1>3, <2>1, FailedTypes DEF TypeOK, Answer
  <2>2. CASE ~ (Retrying /\ s \in RetryableStatus)
    BY <1>3, <2>2 DEF TypeOK, Answer, Goto
  <2> QED
    BY <2>1, <2>2
<1>4. ASSUME NEW c \in Callers, NetworkFails(c) \/ TimesOut(c) PROVE TypeOK'
  BY <1>4, FailedTypes DEF TypeOK, NetworkFails, TimesOut
<1>5. ASSUME NEW c \in Callers, Wake(c) PROVE TypeOK'
  <2>1. attempt[c] + 1 \in 0..MaxRetries
    BY <1>5, FetcherAssumption DEF TypeOK, Wake
  <2> QED
    BY <1>5, <2>1, FetcherAssumption DEF TypeOK, Wake, Try, Goto
<1>6. ASSUME NEW c \in Callers, Store(c) PROVE TypeOK'
  BY <1>6 DEF TypeOK, Store, Goto
<1>7. ASSUME Tick PROVE TypeOK'
  <2>1. \A c \in Callers : (IF Waiting(c) THEN timer[c] - 1 ELSE timer[c]) \in Nat
    BY <1>7 DEF TypeOK, Tick, Due
  <2>2. timer' \in [Callers -> Nat]
    BY <1>7, <2>1 DEF Tick
  <2>3. spent' \in [Callers -> Nat]
    BY <1>7 DEF TypeOK, Tick
  <2> QED
    BY <1>7, <2>2, <2>3 DEF TypeOK, Tick
<1>8. ASSUME UNCHANGED vars PROVE TypeOK'
  BY <1>8 DEF TypeOK, vars
<1> QED
  BY <1>1, <1>2, <1>3, <1>4, <1>5, <1>6, <1>7, <1>8 DEF Next

-----------------------------------------------------------------------------
\* An error page is neither cached nor, with retries, returned.
LEMMA FailuresKept ==
  ASSUME IInv, [Next]_vars
  PROVE  FailuresAreNoPages'
<1> USE DEF IInv
<1> DEFINE Good(e) == \A u \in DOMAIN e : e[u].page < 400
           Fine == Retrying => \A c \in Callers :
                     pc[c] \in {"store", "ok"} => page[c] \notin RetryableStatus
<1>0. Good(entries) /\ Fine
  BY DEF FailuresAreNoPages
<1>1. ASSUME NEW c \in Callers, NEW u \in Urls, Call(c, u) PROVE FailuresAreNoPages'
  BY <1>0, <1>1 DEF TypeOK, Call, Goto, FailuresAreNoPages
<1>2. ASSUME NEW c \in Callers, Lookup(c) PROVE FailuresAreNoPages'
  <2>1. Good(entries')
    BY <1>0, <1>2 DEF Lookup, C!Get, C!Keep
  <2>2. CASE C!Hit(url[c])
    <3>1. entries[url[c]].page < 400 /\ entries[url[c]].page \in Statuses
      BY <1>0, <2>2 DEF TypeOK, C!TypeOK, C!Hit, C!Entry
    <3>2. entries[url[c]].page \notin RetryableStatus
      BY <3>1, FetcherAssumption DEF RetryableStatus
    <3> QED
      BY <1>0, <1>2, <2>1, <2>2, <3>2 DEF TypeOK, Lookup, Goto, FailuresAreNoPages
  <2>3. CASE ~ C!Hit(url[c])
    BY <1>0, <1>2, <2>1, <2>3 DEF TypeOK, Lookup, Try, Goto, FailuresAreNoPages
  <2> QED
    BY <2>2, <2>3
<1>3. ASSUME NEW c \in Callers, NEW codes, NEW h, Failed(c, codes, h)
      PROVE  FailuresAreNoPages'
  BY <1>0, <1>3 DEF TypeOK, Failed, Goto, FailuresAreNoPages
<1>4. ASSUME NEW c \in Callers, NEW s \in Statuses, Answer(c, s) PROVE FailuresAreNoPages'
  <2>1. CASE Retrying /\ s \in RetryableStatus
    BY <1>3, <1>4, <2>1 DEF Answer
  <2>2. CASE ~ (Retrying /\ s \in RetryableStatus)
    BY <1>0, <1>4, <2>2 DEF TypeOK, Answer, Goto, FailuresAreNoPages
  <2> QED
    BY <2>1, <2>2
<1>5. ASSUME NEW c \in Callers, NetworkFails(c) \/ TimesOut(c) PROVE FailuresAreNoPages'
  BY <1>3, <1>5 DEF NetworkFails, TimesOut
<1>6. ASSUME NEW c \in Callers, Wake(c) PROVE FailuresAreNoPages'
  BY <1>0, <1>6 DEF TypeOK, Wake, Try, Goto, FailuresAreNoPages
<1>7. ASSUME NEW c \in Callers, Store(c) PROVE FailuresAreNoPages'
  <2>1. Good(entries')
    BY <1>0, <1>7 DEF Store, C!Put
  <2>2. Fine'
    BY <1>0, <1>7 DEF TypeOK, Store, Goto
  <2> QED
    BY <2>1, <2>2 DEF FailuresAreNoPages
<1>8. ASSUME Tick PROVE FailuresAreNoPages'
  BY <1>0, <1>8 DEF Tick, C!Tick, FailuresAreNoPages
<1>9. ASSUME UNCHANGED vars PROVE FailuresAreNoPages'
  BY <1>0, <1>9 DEF vars, FailuresAreNoPages
<1> HIDE DEF IInv, Good, Fine
<1> QED
  BY <1>1, <1>2, <1>4, <1>5, <1>6, <1>7, <1>8, <1>9 DEF Next

-----------------------------------------------------------------------------
\* A try that is not retried, although tries are left, has failed on a URL
\* whose text has a non-retryable code and no retryable one.
LEMMA FailedHonestly ==
  ASSUME IInv, NEW c \in Callers, pc[c] = "try",
         NEW codes, NEW h,
         Failed(c, codes, h),
         \/ codes = CodesIn[url[c]] /\ h = FALSE
         \/ codes \cap RetryableStatus # {}
  PROVE  /\ GivesUpHonestly'
         /\ \A d \in Callers : pc'[d] = "sleep" => attempt'[d] < MaxRetries
<1> USE DEF IInv
<1>1. CASE Retrying /\ ShouldRetry(codes, h) /\ attempt[c] < MaxRetries
  <2>1. GivesUpHonestly'
    BY <1>1 DEF TypeOK, Failed, Goto, GivesUpHonestly
  <2>2. \A d \in Callers : pc'[d] = "sleep" => attempt'[d] < MaxRetries
    BY <1>1 DEF TypeOK, Failed, Goto
  <2> QED
    BY <2>1, <2>2
<1>2. CASE ~ (Retrying /\ ShouldRetry(codes, h) /\ attempt[c] < MaxRetries)
  <2>1. pc' = [pc EXCEPT ![c] = "err"] /\ UNCHANGED <<url, attempt>>
    BY <1>2 DEF Failed, Goto
  <2>2. Retrying => \/ attempt[c] = MaxRetries
                    \/ /\ CodesIn[url[c]] \cap NonRetryableStatus # {}
                       /\ CodesIn[url[c]] \cap RetryableStatus = {}
    <3> SUFFICES ASSUME Retrying, attempt[c] # MaxRetries
                 PROVE  /\ CodesIn[url[c]] \cap NonRetryableStatus # {}
                        /\ CodesIn[url[c]] \cap RetryableStatus = {}
      OBVIOUS
    <3>1. attempt[c] < MaxRetries
      BY FetcherAssumption DEF TypeOK
    <3>2. ~ ShouldRetry(codes, h)
      BY <1>2, <3>1
    <3> QED
      BY <3>2 DEF ShouldRetry
  <2>3. GivesUpHonestly'
    BY <2>1, <2>2 DEF TypeOK, GivesUpHonestly
  <2>4. \A d \in Callers : pc'[d] = "sleep" => attempt'[d] < MaxRetries
    BY <2>1 DEF TypeOK
  <2> QED
    BY <2>3, <2>4
<1> QED
  BY <1>1, <1>2

\* No step gives up while it should go on, and a caller sleeps only if it
\* has a try left.
LEMMA HonestyKept ==
  ASSUME IInv, [Next]_vars
  PROVE  /\ GivesUpHonestly'
         /\ \A d \in Callers : pc'[d] = "sleep" => attempt'[d] < MaxRetries
<1> USE DEF IInv
<1> DEFINE Sleepers == \A d \in Callers : pc[d] = "sleep" => attempt[d] < MaxRetries
<1>0. Sleepers
  OBVIOUS
<1>1. ASSUME NEW c \in Callers, NEW u \in Urls, Call(c, u)
      PROVE  GivesUpHonestly' /\ Sleepers'
  BY <1>0, <1>1 DEF TypeOK, Call, Goto, GivesUpHonestly
<1>2. ASSUME NEW c \in Callers, Lookup(c)
      PROVE  GivesUpHonestly' /\ Sleepers'
  BY <1>0, <1>2 DEF TypeOK, Lookup, Try, Goto, GivesUpHonestly
<1>3. ASSUME NEW c \in Callers, NEW s \in Statuses, Answer(c, s)
      PROVE  GivesUpHonestly' /\ Sleepers'
  <2>1. CASE Retrying /\ s \in RetryableStatus
    <3> DEFINE codes == CodesIn[url[c]] \cup {s}
    <3>1. codes \cap RetryableStatus # {}
      BY <2>1
    <3>2. pc[c] = "try" /\ Failed(c, codes, TRUE)
      BY <1>3, <2>1 DEF Answer
    <3> HIDE DEF codes
    <3> QED
      BY <3>1, <3>2, FailedHonestly
  <2>2. CASE ~ (Retrying /\ s \in RetryableStatus)
    BY <1>0, <1>3, <2>2 DEF TypeOK, Answer, Goto, GivesUpHonestly
  <2> QED
    BY <2>1, <2>2
<1>4. ASSUME NEW c \in Callers, NetworkFails(c) \/ TimesOut(c)
      PROVE  GivesUpHonestly' /\ Sleepers'
  BY <1>4, FailedHonestly DEF NetworkFails, TimesOut
<1>5. ASSUME NEW c \in Callers, Wake(c)
      PROVE  GivesUpHonestly' /\ Sleepers'
  BY <1>0, <1>5 DEF TypeOK, Wake, Try, Goto, GivesUpHonestly
<1>6. ASSUME NEW c \in Callers, Store(c)
      PROVE  GivesUpHonestly' /\ Sleepers'
  BY <1>0, <1>6 DEF TypeOK, Store, Goto, GivesUpHonestly
<1>7. ASSUME Tick PROVE GivesUpHonestly' /\ Sleepers'
  BY <1>0, <1>7 DEF Tick, GivesUpHonestly
<1>8. ASSUME UNCHANGED vars PROVE GivesUpHonestly' /\ Sleepers'
  BY <1>0, <1>8 DEF vars, GivesUpHonestly
<1> HIDE DEF IInv, Sleepers
<1>9. GivesUpHonestly' /\ Sleepers'
  BY <1>1, <1>2, <1>3, <1>4, <1>5, <1>6, <1>7, <1>8 DEF Next
<1> QED
  BY <1>9 DEF Sleepers

-----------------------------------------------------------------------------
\* The allowance for k tries and their sleeps: linear in k, and at most that
\* of all retries.
LEMMA Allowance ==
  ASSUME NEW k \in 0..MaxRetries
  PROVE  LET K == Timeout + MaxDelay IN
         /\ k * K \in Nat
         /\ (k + 1) * K = k * K + K
         /\ k * K <= MaxRetries * K
         /\ k < MaxRetries => (k + 1) * K <= MaxRetries * K
         /\ WorstCase = MaxRetries * K + Timeout
<1> DEFINE K == Timeout + MaxDelay
<1>1. K \in Nat /\ k \in Nat /\ MaxRetries \in Nat /\ Timeout \in Nat
  BY FetcherAssumption
<1>2. WorstCase = MaxRetries * K + Timeout
  BY DEF WorstCase
<1> HIDE DEF K
<1>3. k * K \in Nat /\ (k + 1) * K = k * K + K
  BY <1>1
<1>4. \A m, n \in Nat : m <= n => m * K <= n * K
  BY <1>1
<1>5. k * K <= MaxRetries * K
  BY <1>1, <1>4
<1>6. k < MaxRetries => (k + 1) * K <= MaxRetries * K
  BY <1>1, <1>4
<1> QED
  BY <1>2, <1>3, <1>5, <1>6 DEF K

\* A failed try has used its timeout at most; the sleep that follows is
\* within the allowance, and giving up is within the worst case.
LEMMA FailedInTime ==
  ASSUME IInv, TimeLeft, NEW c \in Callers, pc[c] = "try",
         NEW codes, NEW h, Failed(c, codes, h)
  PROVE  TimeLeft'
<1> DEFINE k == attempt[c]
           K == Timeout + MaxDelay
<1>1. k \in 0..MaxRetries /\ timer[c] \in Nat /\ spent[c] \in Nat
  BY DEF IInv, TypeOK
<1>2. spent[c] + timer[c] <= k * K + Timeout /\ spent[c] <= WorstCase
  BY DEF TimeLeft
<1>3. Backoff(k) \in 0..MaxDelay
  BY <1>1, BackoffBounded
<1>4. (k + 1) * K = k * K + K /\ k * K \in Nat
  BY <1>1, Allowance
<1>5. k \in Int /\ Timeout \in Nat /\ MaxDelay \in Nat
  BY <1>1, FetcherAssumption
<1>6. spent[c] + Backoff(k) <= (k + 1) * K
  <2>1. spent[c] <= k * K + Timeout
    BY <1>1, <1>2, <1>4, <1>5
  <2> QED
    BY <1>1, <1>3, <1>4, <1>5, <2>1
<1>7. CASE pc' = [pc EXCEPT ![c] = "sleep"] /\ timer' = [timer EXCEPT ![c] = Backoff(k)]
  BY <1>2, <1>6, <1>7 DEF IInv, TypeOK, Failed, TimeLeft
<1>8. CASE pc' = [pc EXCEPT ![c] = "err"] /\ UNCHANGED timer
  BY <1>2, <1>8 DEF IInv, TypeOK, Failed, TimeLeft
<1> QED
  BY <1>7, <1>8 DEF Failed, Goto

\* Without proxies, no step spends more than the account allows: time passes
\* only while a timer runs that was paid for.
LEMMA TimeKept ==
  ASSUME IInv, ~ Proxied, [Next]_vars
  PROVE  TimeLeft'
<1> DEFINE K == Timeout + MaxDelay
<1>0. TypeOK /\ TimeLeft
  BY DEF IInv
<1>a. /\ Timeout \in Nat /\ MaxDelay \in Nat /\ MaxRetries \in Nat
      /\ \A c \in Callers : /\ attempt[c] \in 0..MaxRetries
                            /\ timer[c] \in Nat /\ spent[c] \in Nat
  BY <1>0, FetcherAssumption DEF TypeOK
<1>b. WorstCase \in Nat /\ WorstCase = MaxRetries * K + Timeout
  BY <1>a DEF WorstCase
<1>c. \A c \in Callers : attempt[c] * K \in Nat /\ attempt[c] * K <= MaxRetries * K
  BY <1>a, Allowance
<1>1. ASSUME NEW c \in Callers, NEW u \in Urls, Call(c, u) PROVE TimeLeft'
  BY <1>0, <1>1, <1>b DEF TypeOK, Call, Goto, TimeLeft
<1>2. ASSUME NEW c \in Callers, Lookup(c) PROVE TimeLeft'
  <2>1. spent[c] = 0
    BY <1>0, <1>2 DEF Lookup, TimeLeft
  <2>2. CASE C!Hit(url[c])
    BY <1>0, <1>2, <2>2 DEF TypeOK, Lookup, Goto, TimeLeft
  <2>3. CASE ~ C!Hit(url[c])
    <3>1. 0 + Timeout <= 0 * K + Timeout
      BY <1>a
    <3>2. /\ pc' = [pc EXCEPT ![c] = "try"] /\ attempt' = [attempt EXCEPT ![c] = 0]
          /\ timer' = [timer EXCEPT ![c] = Timeout] /\ spent' = spent
      BY <1>2, <2>3 DEF Lookup, Try, Goto
    <3> QED
      BY <1>0, <2>1, <3>1, <3>2 DEF TypeOK, TimeLeft
  <2> QED
    BY <2>2, <2>3
<1>3. ASSUME NEW c \in Callers, NEW s \in Statuses, Answer(c, s) PROVE TimeLeft'
  <2>1. CASE Retrying /\ s \in RetryableStatus
    BY <1>0, <1>3, <2>1, FailedInTime DEF Answer
  <2>2. CASE ~ (Retrying /\ s \in RetryableStatus)
    BY <1>0, <1>3, <2>2 DEF TypeOK, Answer, Goto, TimeLeft
  <2> QED
    BY <2>1, <2>2
<1>4. ASSUME NEW c \in Callers, NetworkFails(c) \/ TimesOut(c) PROVE TimeLeft'
  BY <1>0, <1>4, FailedInTime DEF NetworkFails, TimesOut
<1>5. ASSUME NEW c \in Callers, Wake(c) PROVE TimeLeft'
  <2>1. spent[c] + timer[c] <= (attempt[c] + 1) * K /\ timer[c] = 0
    BY <1>0, <1>5 DEF Wake, TimeLeft
  <2>2. spent[c] + Timeout <= (attempt[c] + 1) * K + Timeout
    <3>1. (attempt[c] + 1) * K = attempt[c] * K + K
      BY <1>a, Allowance
    <3> QED
      BY <1>a, <1>c, <2>1, <3>1
  <2>3. /\ pc' = [pc EXCEPT ![c] = "try"]
        /\ attempt' = [attempt EXCEPT ![c] = attempt[c] + 1]
        /\ timer' = [timer EXCEPT ![c] = Timeout] /\ spent' = spent
    BY <1>5 DEF Wake, Try, Goto
  <2> QED
    BY <1>0, <2>2, <2>3 DEF TypeOK, TimeLeft
<1>6. ASSUME NEW c \in Callers, Store(c) PROVE TimeLeft'
  BY <1>0, <1>6 DEF TypeOK, Store, Goto, TimeLeft
<1>7. ASSUME Tick PROVE TimeLeft'
  <2> SUFFICES ASSUME NEW c \in Callers
               PROVE  /\ pc[c] \in {"idle", "lookup"} => spent'[c] = 0
                      /\ pc[c] = "try" =>
                           spent'[c] + timer'[c] <= attempt[c] * K + Timeout
                      /\ pc[c] = "sleep" =>
                           spent'[c] + timer'[c] <= (attempt[c] + 1) * K
                      /\ spent'[c] <= WorstCase
    BY <1>7 DEF Tick, TimeLeft
  <2>1. CASE pc[c] \in {"try", "sleep"}
    <3>1. timer[c] > 0 /\ timer'[c] = timer[c] - 1
      BY <1>7, <1>a, <2>1 DEF Tick, Due, Waiting
    <3>2. spent'[c] \in {spent[c], spent[c] + 1}
      BY <1>7 DEF Tick
    <3>3. spent'[c] + timer'[c] <= spent[c] + timer[c] /\ spent'[c] <= spent[c] + timer[c]
      BY <1>a, <3>1, <3>2
    <3>4. spent'[c] \in Nat /\ timer'[c] \in Nat
      BY <1>a, <3>1, <3>2
    <3> DEFINE M == MaxRetries * K
    <3>5. M \in Nat /\ WorstCase = M + Timeout /\ Timeout \in Nat
      BY <1>a, <1>b, Allowance
    <3>6. CASE pc[c] = "try"
      <4> DEFINE A == attempt[c] * K
      <4>1. A \in Nat /\ A <= M
        BY <1>c
      <4>2. spent[c] + timer[c] <= A + Timeout
        BY <1>0, <3>6 DEF TimeLeft
      <4> HIDE DEF A, M
      <4>3. spent'[c] + timer'[c] <= A + Timeout /\ spent'[c] <= WorstCase
        BY <1>a, <3>3, <3>4, <3>5, <4>1, <4>2
      <4> QED
        BY <3>6, <4>3 DEF A
    <3>7. CASE pc[c] = "sleep"
      <4> DEFINE A == (attempt[c] + 1) * K
      <4>1. attempt[c] \in 0..MaxRetries /\ attempt[c] < MaxRetries
        BY <1>a, <3>7 DEF IInv
      <4>2. A <= M
        BY <4>1, Allowance
      <4>3. spent[c] + timer[c] <= A
        BY <1>0, <3>7 DEF TimeLeft
      <4>4. A \in Nat
        BY <1>a, <4>1
      <4> HIDE DEF A, M
      <4>5. spent'[c] + timer'[c] <= A /\ spent'[c] <= WorstCase
        BY <1>a, <3>3, <3>4, <3>5, <4>2, <4>3, <4>4
      <4> QED
        BY <3>7, <4>5 DEF A
    <3> QED
      BY <2>1, <3>6, <3>7
  <2>2. CASE pc[c] \notin {"try", "sleep"}
    <3>1. spent'[c] = spent[c]
      BY <1>7, <2>2 DEF Tick
    <3> QED
      BY <1>0, <2>2, <3>1 DEF TimeLeft
  <2> QED
    BY <2>1, <2>2
<1>8. ASSUME UNCHANGED vars PROVE TimeLeft'
  BY <1>0, <1>8 DEF vars, TimeLeft
<1> QED
  BY <1>1, <1>2, <1>3, <1>4, <1>5, <1>6, <1>7, <1>8 DEF Next

-----------------------------------------------------------------------------
\* The invariant holds at first.
LEMMA InvInitially == Init => IInv
<1> SUFFICES ASSUME Init PROVE IInv
  OBVIOUS
<1>1. DOMAIN entries = {} /\ C!TypeOK
  BY DEF Init, C!Init, C!TypeOK
<1>2. TypeOK
  BY <1>1, FetcherAssumption DEF Init, TypeOK
<1>3. WorstCase \in Nat
  BY FetcherAssumption DEF WorstCase
<1> QED
  BY <1>1, <1>2, <1>3 DEF Init, IInv, FailuresAreNoPages, GivesUpHonestly, TimeLeft

\* The fetcher's cache is a ResponseCache, of which ResponseCacheProofs
\* shows the invariant; the calls cite it for the pages they are given.
LEMMA CacheInitially == Init => CP!Inv
<1>1. Init => CP!Init
  BY DEF Init, C!Init, CP!Init
<1> QED
  BY <1>1, CP!InvInductive, FetcherAssumption DEF CP!CacheAssumption

\* Both instances of the cache count alike.
LEMMA SameCardinality == \A S : C!Cardinality(S) = CP!Cardinality(S)
BY DEF C!Cardinality, CP!Cardinality

\* The step as one of the instance that the cache's theorems are about; so
\* every step of the fetcher keeps the cache's invariant.
LEMMA CacheSteps ==
  ASSUME TypeOK, [Next]_vars
  PROVE  /\ [CP!Next]_entries
         /\ \/ \E u \in Urls : CP!Get(u)
            \/ \E u \in Urls, s \in Statuses : CP!Put(u, s)
            \/ CP!Tick
            \/ UNCHANGED entries
<1> USE DEF C!Keep, CP!Keep, C!Expired, CP!Expired
<1>1. \A u : C!RoomFor(u) <=> CP!RoomFor(u)
  BY SameCardinality DEF C!RoomFor, CP!RoomFor
<1>2. ASSUME NEW u \in Urls, C!Get(u) PROVE CP!Get(u)
  BY <1>2 DEF C!Get, CP!Get
<1>3. ASSUME NEW u \in Urls, NEW s \in Statuses, C!Put(u, s) PROVE CP!Put(u, s)
  BY <1>1, <1>3 DEF C!Put, CP!Put
<1>4. ASSUME C!Tick PROVE CP!Tick
  BY <1>4 DEF C!Tick, CP!Tick
<1>5. \/ \E u \in Urls : CP!Get(u)
      \/ \E u \in Urls, s \in Statuses : CP!Put(u, s)
      \/ CP!Tick
      \/ UNCHANGED entries
  BY <1>2, <1>3, <1>4, StepUsesCache
<1> QED
  BY <1>5 DEF CP!Next

\* Every step keeps the invariant of the cache.
LEMMA CacheKept ==
  ASSUME TypeOK, CP!Inv, [Next]_vars
  PROVE  CP!Inv' /\ C!TypeOK'
<1>1. CP!Inv'
  BY CacheSteps, CP!InvInductive, FetcherAssumption DEF CP!CacheAssumption
<1> QED
  BY <1>1 DEF CP!Inv, CP!IInv, CP!TypeOK, C!TypeOK, CP!Entry, C!Entry

\* The invariant of the fetcher: types, what is a page, when a call gives up,
\* and the account of the time, together with its cache's.
THEOREM FetcherInvariant == Spec => [](IInv /\ CP!Inv)
<1>1. Init => IInv /\ CP!Inv
  BY InvInitially, CacheInitially
<1>2. ASSUME IInv, CP!Inv, [Next]_vars PROVE IInv' /\ CP!Inv'
  <2>1. CP!Inv' /\ C!TypeOK'
    BY <1>2, CacheKept DEF IInv
  <2>2. TypeOK' /\ FailuresAreNoPages'
    BY <1>2, <2>1, TypesKept, FailuresKept
  <2>3. GivesUpHonestly' /\ \A c \in Callers : pc'[c] = "sleep" => attempt'[c] < MaxRetries
    BY <1>2, HonestyKept
  <2>4. ~ Proxied => TimeLeft'
    BY <1>2, TimeKept
  <2> QED
    BY <2>1, <2>2, <2>3, <2>4 DEF IInv
<1> QED
  BY <1>1, <1>2, PTL DEF Spec

\* A failed try is never handed out or cached as a page, however many
\* callers share the cache.
THEOREM NoFailureIsAPage == Spec => []FailuresAreNoPages
<1>1. IInv => FailuresAreNoPages
  BY DEF IInv
<1> QED
  BY <1>1, FetcherInvariant, PTL

\* With retries, a call fails after its last try only, or on a URL with a
\* non-retryable code in its text.
THEOREM FailsAfterLastTry == Spec => []GivesUpHonestly
<1>1. IInv => GivesUpHonestly
  BY DEF IInv
<1> QED
  BY <1>1, FetcherInvariant, PTL

\* Without proxies, no call takes longer than its timeouts and its sleeps,
\* for any timeout, number of retries and backoff.
THEOREM CallsEndInTime == Spec => []CallTimeBounded
<1>1. IInv => CallTimeBounded
  BY DEF IInv, TimeLeft, CallTimeBounded
<1> QED
  BY <1>1, FetcherInvariant, PTL

\* The fetcher never makes its cache outgrow its capacity: what its calls do
\* to the cache are operations of ResponseCache.
THEOREM CacheWithinCapacity == Spec => []CacheBounded
<1>1. CP!Inv => CacheBounded
  BY SameCardinality DEF CP!Inv, CP!IInv, CP!SizeBounded, CP!TypeOK, CP!Entry,
     CacheBounded, C!IInv, C!SizeBounded, C!TypeOK, C!Entry
<1> QED
  BY <1>1, FetcherInvariant, PTL

\* No call, however it interleaves with others, drops a cached page before
\* its time or shortens its life.
THEOREM CachedPagesLast == Spec => CacheKeepsLive
<1>1. ASSUME IInv, CP!Inv, [Next]_vars
      PROVE  [C!Tick \/ C!KeepsLive]_entries
  <2>1. CASE \/ \E u \in Urls : CP!Get(u)
             \/ \E u \in Urls, s \in Statuses : CP!Put(u, s)
    <3>1. CP!KeepsLive
      BY <1>1, <2>1, CP!OperationsKeepLive, FetcherAssumption DEF CP!CacheAssumption
    <3> QED
      BY <3>1 DEF CP!KeepsLive, C!KeepsLive, CP!Hit, C!Hit, CP!Expired, C!Expired
  <2>2. CASE CP!Tick
    BY <2>2 DEF C!Tick, CP!Tick, C!Expired, CP!Expired
  <2> QED
    BY <1>1, <2>1, <2>2, CacheSteps DEF IInv
<1> QED
  BY <1>1, FetcherInvariant, PTL DEF Spec, CacheKeepsLive
=============================================================================
