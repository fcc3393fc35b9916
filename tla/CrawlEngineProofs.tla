-------------------------- MODULE CrawlEngineProofs -------------------------
(***************************************************************************)
(* CrawlEngine for any finite site, any number of permits, any limits and  *)
(* any agent.  The invariant IInv is proved in layers, each assuming the   *)
(* ones before it: types and the queue, control, the budget, the tasks,    *)
(* the counters, the job's row.  The safety properties and the refinement  *)
(* follow.                                                                 *)
(***************************************************************************)
EXTENDS CrawlEngine, FiniteSetTheorems, SequenceTheorems, TLAPS

QP == INSTANCE UrlQueueProofs WITH Offers <- {}, Batches <- {}

-----------------------------------------------------------------------------
(* Types. *)

\* A task in a phase other than "idle" has all the fields of a task.
LEMMA BusyTaskType ==
  ASSUME TypeOK, NEW p \in Permits, ~ In(p, "idle")
  PROVE  task[p] \in TaskState
BY DEF TypeOK, In, Idle

\* Giving permit p's slot the value t changes that slot and no other.
LEMMA BecomesFacts ==
  ASSUME TypeOK, NEW p \in Permits, NEW t, Becomes(p, t)
  PROVE  /\ task'[p] = t
         /\ \A q \in Permits \ {p} : task'[q] = task[q]
         /\ t \in TaskState \cup {Idle} => task' \in [Permits -> TaskState \cup {Idle}]
BY DEF TypeOK, Becomes

\* Updating a task's phase, its records or its list of URLs to push leaves a
\* well-typed task at work on the same URL at the same depth.
LEMMA PhaseUpdate ==
  ASSUME NEW t \in TaskState, NEW ph \in Phases
  PROVE  /\ [t EXCEPT !.phase = ph] \in TaskState
         /\ [t EXCEPT !.phase = ph].phase = ph
         /\ [t EXCEPT !.phase = ph].url = t.url
         /\ [t EXCEPT !.phase = ph].depth = t.depth
BY DEF TaskState

\* A task that goes on to its links stays a task, on the same URL.
LEMMA FollowUpdate ==
  ASSUME NEW t \in TaskState, NEW S \in SUBSET [url: Urls, priority: Priority]
  PROVE  /\ [t EXCEPT !.phase = "follow", !.todo = S] \in TaskState
         /\ [t EXCEPT !.phase = "follow", !.todo = S].phase = "follow"
         /\ [t EXCEPT !.phase = "follow", !.todo = S].url = t.url
         /\ [t EXCEPT !.phase = "follow", !.todo = S].depth = t.depth
BY DEF TaskState, Phases

\* So does one that has one thing less to push,
LEMMA TodoUpdate ==
  ASSUME NEW t \in TaskState, NEW n
  PROVE  /\ [t EXCEPT !.todo = @ \ {n}] \in TaskState
         /\ [t EXCEPT !.todo = @ \ {n}].phase = t.phase
         /\ [t EXCEPT !.todo = @ \ {n}].url = t.url
         /\ [t EXCEPT !.todo = @ \ {n}].depth = t.depth
BY DEF TaskState

\* one that has a record less to save,
LEMMA LeftUpdate ==
  ASSUME NEW t \in TaskState, t.left > 0
  PROVE  /\ [t EXCEPT !.left = @ - 1] \in TaskState
         /\ [t EXCEPT !.left = @ - 1].phase = t.phase
         /\ [t EXCEPT !.left = @ - 1].url = t.url
         /\ [t EXCEPT !.left = @ - 1].depth = t.depth
BY DEF TaskState

\* and one that has got its answer.
LEMMA ReplyUpdate ==
  ASSUME NEW t \in TaskState, NEW r \in Replies
  PROVE  LET u == [t EXCEPT !.phase = "save", !.left = r.records,
                            !.found = r.records, !.todo = r.next]
         IN  u \in TaskState /\ u.phase = "save" /\ u.url = t.url /\ u.depth = t.depth
<1>1. r.records \in Nat /\ r.next \in SUBSET [url: Urls, priority: Priority]
  BY RepliesAssumption
<1>2. QED
  BY <1>1 DEF TaskState, Phases

\* What a step of a task that does not end it does to the tasks: the task
\* was busy and stays so, on the same URL at the same depth; it is no longer
\* fetching, and about to store its page only if it has just fetched it; no
\* other task is touched.
Advance(p) ==
  /\ task[p] \in TaskState /\ task'[p] \in TaskState
  /\ task'[p].phase # "fetch" /\ (task'[p].phase = "store" => FetchOk(p))
  /\ task'[p].url = task[p].url /\ task'[p].depth = task[p].depth
  /\ task' \in [Permits -> TaskState \cup {Idle}]
  /\ \A q \in Permits \ {p} : task'[q] = task[q]

\* A task that moves on with its URL and depth advances.
LEMMA AdvanceBy ==
  ASSUME TypeOK, NEW p \in Permits, ~ In(p, "idle"),
         NEW t \in TaskState, t.phase # "fetch", t.phase = "store" => FetchOk(p),
         t.url = task[p].url, t.depth = task[p].depth, Becomes(p, t)
  PROVE  Advance(p)
BY BusyTaskType, BecomesFacts DEF Advance

\* Going on to the links is such a move.
LEMMA ThenLinksAdvances ==
  ASSUME TypeOK, NEW p \in Permits, ~ In(p, "idle"), ThenLinks(p)
  PROVE  Advance(p)
<1> DEFINE t == task[p]
<1>1. PICK L \in SUBSET Urls :
        Becomes(p, [task[p] EXCEPT !.phase = "follow",
                     !.todo = {[url |-> u, priority |-> 2] : u \in L}])
  BY DEF ThenLinks
<1>2. {[url |-> u, priority |-> 2] : u \in L} \in SUBSET [url: Urls, priority: Priority]
  BY DEF Priority
<1>3. t \in TaskState
  BY BusyTaskType
<1> DEFINE S == {[url |-> u, priority |-> 2] : u \in L}
           new == [t EXCEPT !.phase = "follow", !.todo = S]
<1>4. new \in TaskState /\ new.phase = "follow" /\ new.url = t.url /\ new.depth = t.depth
  <2> HIDE DEF t, S
  <2>1. QED
    BY <1>2, <1>3, FollowUpdate DEF S
<1>5. Becomes(p, new)
  BY <1>1
<1> HIDE DEF new
<1>6. QED
  BY <1>4, <1>5, AdvanceBy

\* A step that gives a busy task the phase ph.
LEMMA PhaseAdvances ==
  ASSUME TypeOK, NEW p \in Permits, ~ In(p, "idle"),
         NEW ph \in Phases \ {"fetch"}, ph = "store" => FetchOk(p),
         Becomes(p, [task[p] EXCEPT !.phase = ph])
  PROVE  Advance(p)
<1> DEFINE t == task[p]
           new == [t EXCEPT !.phase = ph]
<1>1. t \in TaskState
  BY BusyTaskType
<1>2. new \in TaskState /\ new.phase = ph /\ new.url = t.url /\ new.depth = t.depth
  <2> HIDE DEF t
  <2>1. QED
    BY <1>1, PhaseUpdate
<1>3. Becomes(p, new)
  OBVIOUS
<1> HIDE DEF new
<1>4. QED
  BY <1>2, <1>3, AdvanceBy

\* Every step of a task but its last advances it.
LEMMA TaskAdvances ==
  ASSUME TypeOK, NEW p \in Permits, Task(p)
  PROVE  Finish(p) \/ Advance(p)
<1> DEFINE t == task[p]
<1>1. ASSUME ~ In(p, "idle") PROVE t \in TaskState
  BY <1>1, BusyTaskType
<1>2. CASE FetchOk(p)
  BY <1>2, PhaseAdvances DEF FetchOk, In, Phases
<1>3. CASE FetchFails(p)
  BY <1>3, PhaseAdvances DEF FetchFails, In, Phases
<1>4. CASE StorePage(p)
  BY <1>4, PhaseAdvances, ThenLinksAdvances DEF StorePage, In, Phases
<1>5. CASE AgentReplies(p)
  <2>1. PICK r \in Replies :
          Becomes(p, [task[p] EXCEPT !.phase = "save", !.left = r.records,
                                     !.found = r.records, !.todo = r.next])
    BY <1>5 DEF AgentReplies
  <2>2. ~ In(p, "idle") /\ t \in TaskState
    BY <1>1, <1>5 DEF AgentReplies, In
  <2> DEFINE new == [t EXCEPT !.phase = "save", !.left = r.records,
                              !.found = r.records, !.todo = r.next]
  <2>3. new \in TaskState /\ new.phase = "save" /\ new.url = t.url /\ new.depth = t.depth
    <3> HIDE DEF t
    <3>1. QED
      BY <2>2, ReplyUpdate
  <2>4. Becomes(p, new)
    BY <2>1
  <2> HIDE DEF new
  <2>5. QED
    BY <2>2, <2>3, <2>4, AdvanceBy
<1>6. CASE AgentFails(p)
  BY <1>6, ThenLinksAdvances DEF AgentFails, In
<1>7. CASE SaveRecord(p)
  <2>1. ~ In(p, "idle") /\ t \in TaskState /\ t.phase = "save" /\ t.left > 0
    BY <1>1, <1>7 DEF SaveRecord, In
  <2> DEFINE new == [t EXCEPT !.left = @ - 1]
  <2>2. new \in TaskState /\ new.phase = t.phase /\ new.url = t.url /\ new.depth = t.depth
    <3> HIDE DEF t
    <3>1. QED
      BY <2>1, LeftUpdate
  <2>3. Becomes(p, new)
    BY <1>7 DEF SaveRecord
  <2> HIDE DEF new
  <2>4. QED
    BY <2>1, <2>2, <2>3, AdvanceBy
<1>8. CASE CountRecords(p)
  BY <1>8, PhaseAdvances DEF CountRecords, In, Phases
<1>9. CASE PushFound(p)
  <2>1. ~ In(p, "idle") /\ t \in TaskState /\ t.phase \notin {"fetch", "store"}
    BY <1>1, <1>9 DEF PushFound, In
  <2>2. PICK n \in task[p].todo : Becomes(p, [task[p] EXCEPT !.todo = @ \ {n}])
    BY <1>9 DEF PushFound
  <2> DEFINE new == [t EXCEPT !.todo = @ \ {n}]
  <2>3. new \in TaskState /\ new.phase = t.phase /\ new.url = t.url /\ new.depth = t.depth
    <3> HIDE DEF t
    <3>1. QED
      BY <2>1, TodoUpdate
  <2>4. Becomes(p, new)
    BY <2>2
  <2> HIDE DEF new
  <2>5. QED
    BY <2>1, <2>3, <2>4, AdvanceBy
<1>10. CASE FollowPage(p)
  BY <1>10, ThenLinksAdvances DEF FollowPage, In
<1>11. QED
  BY <1>2, <1>3, <1>4, <1>5, <1>6, <1>7, <1>8, <1>9, <1>10 DEF Task

\* What the main loop and the tasks push are well-formed queue entries.
LEMMA EnqueueType ==
  ASSUME TypeOK, NEW u \in Urls, NEW d \in Nat, NEW pr \in Priority,
         Enqueue(u, d, pr)
  PROVE  Q!TypeOK' /\ IsFiniteSet(heap')
<1>1. PICK t \in Stamps :
        Q!Push([url |-> u, depth |-> d, priority |-> pr, queued_at |-> t])
  BY DEF Enqueue
<1>2. [url |-> u, depth |-> d, priority |-> pr, queued_at |-> t] \in Q!QueuedUrl
  BY StampsAssumption DEF Q!QueuedUrl, Q!Low, Q!Normal, Q!High, Priority
<1>3. heap' = heap \/ heap' = heap \cup
        {[url |-> u, depth |-> d, priority |-> pr, queued_at |-> t]}
  BY <1>1 DEF Q!Push
<1>4. IsFiniteSet(heap)
  BY DEF TypeOK
<1>5. IsFiniteSet(heap')
  BY <1>3, <1>4, FS_AddElement, Zenon
<1>6. QED
  BY <1>1, <1>2, <1>5 DEF TypeOK, Q!TypeOK, Q!Push

\* The writes to the job's row leave it well-typed.
LEMMA RowUpdates ==
  ASSUME NEW d \in Row, NEW u \in SUBSET Urls, NEW a \in Nat, NEW b \in Nat, NEW c \in Nat
  PROVE  /\ [d EXCEPT !.urls = @ \cup u] \in Row
         /\ [d EXCEPT !.urls = @ \cup u, !.pages = @ + 1] \in Row
         /\ [d EXCEPT !.records = @ + 1] \in Row
         /\ [d EXCEPT !.pages = a, !.records = b, !.errors = c] \in Row
<1>1. /\ [d EXCEPT !.urls = @ \cup u] \in Row
      /\ [d EXCEPT !.urls = @ \cup u, !.pages = @ + 1] \in Row
  <2>1. d.urls \cup u \in SUBSET Urls /\ d.pages + 1 \in Nat
    BY DEF Row
  <2>2. QED
    BY <2>1 DEF Row
<1>2. [d EXCEPT !.records = @ + 1] \in Row
  BY DEF Row
<1>3. [d EXCEPT !.pages = a, !.records = b, !.errors = c] \in Row
  BY DEF Row
<1>4. QED
  BY <1>1, <1>2, <1>3

\* The first state has its types.
LEMMA TypeInit == Init => TypeOK
BY UrlsAssumption, FS_EmptySet DEF Init, TypeOK, Q!Init, Q!TypeOK, Idle, Row

\* The main loop keeps the types.
LEMMA TypeMain == TypeOK /\ Main => TypeOK'
<1> SUFFICES ASSUME TypeOK, Main
             PROVE  TypeOK'
  OBVIOUS
<1> USE DEF taskVars, counters, queueVars
<1>1. ASSUME NEW u \in StartUrls, SeedUrl(u)
      PROVE  TypeOK'
  <2>1. Q!TypeOK' /\ IsFiniteSet(heap')
    BY <1>1, EnqueueType, UrlsAssumption DEF SeedUrl, Priority
  <2>2. QED
    BY <1>1, <2>1 DEF SeedUrl, TypeOK
<1>2. CASE StartLoop
  BY <1>2 DEF StartLoop, TypeOK, Q!TypeOK
<1>3. CASE CheckBudget
  BY <1>3 DEF CheckBudget, TypeOK, Q!TypeOK
<1>4. CASE PopSome
  <2>1. PICK e \in heap : heap' = heap \ {e} /\ Q!Pop(e) /\ cur' = e
    BY <1>4 DEF PopSome, Q!Pop
  <2>2. IsFiniteSet(heap')
    BY <2>1, FS_RemoveElement DEF TypeOK
  <2>3. QED
    BY <1>4, <2>1, <2>2 DEF PopSome, TypeOK, Q!TypeOK, Q!Pop
<1>5. CASE PopNone
  BY <1>5 DEF PopNone, TypeOK, Q!TypeOK
<1>6. CASE CheckIdle
  BY <1>6 DEF CheckIdle, TypeOK, Q!TypeOK
<1>7. CASE CheckUrl
  BY <1>7 DEF CheckUrl, TypeOK, Q!TypeOK
<1>8. ASSUME NEW p \in Permits, Spawn(p)
      PROVE  TypeOK'
  <2>1. cur.url \in Urls /\ cur.depth \in Nat
    BY <1>8 DEF Spawn, TypeOK, Q!QueuedUrl
  <2>2. Q!TypeOK' /\ IsFiniteSet(heap')
    BY <1>8, <2>1 DEF Spawn, Q!MarkVisited, TypeOK, Q!TypeOK
  <2>3. [phase |-> "fetch", url |-> cur.url, depth |-> cur.depth,
         left |-> 0, found |-> 0, todo |-> {}] \in TaskState
    BY <2>1 DEF TaskState, Phases
  <2>4. task' \in [Permits -> TaskState \cup {Idle}]
    BY <1>8, <2>3, BecomesFacts DEF Spawn
  <2>5. QED
    BY <1>8, <2>2, <2>4 DEF RecordFetch, Spawn, TypeOK
<1>9. CASE ReadStat
  <2>1. Cardinality(heap) \in Nat
    BY FS_CardinalityType DEF TypeOK
  <2>2. \A i \in 1..4 : <<pages, records, errors, Cardinality(heap)>>[i] \in Nat
    BY <2>1 DEF TypeOK
  <2>3. stats \in Seq(Nat) /\ Len(stats) \in 0..3 /\ Len(stats) + 1 \in 1..4
    <3>1. stats \in Seq(Nat)
      BY DEF TypeOK
    <3>2. Len(stats) < 4
      BY <1>9 DEF ReadStat
    <3>3. Len(stats) \in Nat
      BY <3>1, LenProperties
    <3> DEFINE n == Len(stats)
    <3>4. n \in Nat /\ n < 4
      BY <3>2, <3>3
    <3> HIDE DEF n
    <3>5. n \in 0..3 /\ n + 1 \in 1..4
      BY <3>4
    <3>6. QED
      BY <3>1, <3>5 DEF n
  <2>4. PICK v \in Nat : stats' = Append(stats, v)
    BY <1>9, <2>2, <2>3 DEF Counters, ReadStat
  <2>5. stats' \in Seq(Nat) /\ Len(stats') <= 4
    BY <2>3, <2>4
  <2>6. QED
    BY <1>9, <2>5 DEF ReadStat, TypeOK, Q!TypeOK
<1>10. CASE SaveStats
  <2>1. stats[1] \in Nat /\ stats[2] \in Nat /\ stats[3] \in Nat
    <3>1. stats \in Seq(Nat)
      BY DEF TypeOK
    <3>2. Len(stats) = 4
      BY <1>10 DEF SaveStats
    <3>3. 1 \in 1..Len(stats) /\ 2 \in 1..Len(stats) /\ 3 \in 1..Len(stats)
      BY <3>2
    <3>4. QED
      BY <3>1, <3>3, ElementOfSeq
  <2>2. db' = db \/ db' = [db EXCEPT !.pages = stats[1], !.records = stats[2],
                                    !.errors = stats[3]]
    BY <1>10, Zenon DEF SaveStats
  <2>3. db \in Row
    BY DEF TypeOK
  <2>4. db' \in Row
    <3> DEFINE d == db  a == stats[1]  b == stats[2]  c == stats[3]
    <3>1. d \in Row /\ a \in Nat /\ b \in Nat /\ c \in Nat
      BY <2>1, <2>3
    <3>2. db' = d \/ db' = [d EXCEPT !.pages = a, !.records = b, !.errors = c]
      BY <2>2
    <3> HIDE DEF d, a, b, c
    <3>3. [d EXCEPT !.pages = a, !.records = b, !.errors = c] \in Row
      BY <3>1, RowUpdates
    <3>4. QED
      BY <3>1, <3>2, <3>3
  <2>5. QED
    BY <1>10, <2>4 DEF SaveStats, TypeOK, Q!TypeOK
<1>11. QED
  BY <1>1, <1>2, <1>3, <1>4, <1>5, <1>6, <1>7, <1>8, <1>9, <1>10 DEF Main

\* A task keeps the types.
LEMMA TypeTask ==
  ASSUME TypeOK, NEW p \in Permits, Task(p)
  PROVE  TypeOK'
<1> USE DEF mainVars, counters, queueVars
<1>1. task' \in [Permits -> TaskState \cup {Idle}]
  BY TaskAdvances, BecomesFacts DEF Advance, Finish
<1>2. ASSUME ~ In(p, "idle")
      PROVE  task[p] \in TaskState
  BY <1>2, BusyTaskType
<1>3. CASE FetchOk(p)
  BY <1>1, <1>3 DEF FetchOk, TypeOK, Q!TypeOK
<1>4. CASE FetchFails(p)
  BY <1>1, <1>4 DEF FetchFails, TypeOK, Q!TypeOK
<1>5. CASE StorePage(p)
  <2>1. task[p].url \in Urls
    BY <1>2, <1>5 DEF StorePage, In, TaskState
  <2>2. \/ db' = db
        \/ db' = [db EXCEPT !.urls = @ \cup {task[p].url}]
        \/ db' = [db EXCEPT !.urls = @ \cup {task[p].url}, !.pages = @ + 1]
    BY <1>5, Zenon DEF StorePage, VisitStored
  <2>3. db \in Row
    BY DEF TypeOK
  <2>4. {task[p].url} \in SUBSET Urls
    BY <2>1
  <2>5. db' \in Row
    <3> DEFINE d == db
    <3>1. d \in Row
      BY <2>3
    <3> HIDE DEF d
    <3>2. /\ [d EXCEPT !.urls = @ \cup {task[p].url}] \in Row
          /\ [d EXCEPT !.urls = @ \cup {task[p].url}, !.pages = @ + 1] \in Row
      BY <2>4, <3>1, RowUpdates
    <3>3. QED
      BY <2>2, <2>3, <3>2 DEF d
  <2>6. QED
    BY <1>1, <1>5, <2>5 DEF StorePage, TypeOK, Q!TypeOK
<1>6. CASE AgentReplies(p)
  BY <1>1, <1>6 DEF AgentReplies, TypeOK, Q!TypeOK
<1>7. CASE AgentFails(p)
  BY <1>1, <1>7 DEF AgentFails, TypeOK, Q!TypeOK
<1>8. CASE SaveRecord(p)
  <2>1. db' = db \/ db' = [db EXCEPT !.records = @ + 1]
    BY <1>8, Zenon DEF SaveRecord
  <2>2. db' \in Row
    <3> DEFINE d == db
    <3>1. d \in Row
      BY DEF TypeOK
    <3> HIDE DEF d
    <3>2. [d EXCEPT !.records = @ + 1] \in Row
      BY <3>1 DEF Row
    <3>3. QED
      BY <2>1, <3>1, <3>2 DEF d
  <2>3. QED
    BY <1>1, <1>8, <2>2 DEF SaveRecord, TypeOK, Q!TypeOK
<1>9. CASE CountRecords(p)
  <2>1. task[p].found \in Nat
    BY <1>2, <1>9 DEF CountRecords, In, TaskState
  <2>2. QED
    BY <1>1, <1>9, <2>1 DEF CountRecords, TypeOK, Q!TypeOK
<1>10. CASE PushFound(p)
  <2>1. task[p] \in TaskState
    BY <1>2, <1>10 DEF PushFound, In
  <2>2. PICK n \in task[p].todo : Enqueue(n.url, LinkDepth(task[p].depth), n.priority)
    BY <1>10 DEF PushFound
  <2>3. n.url \in Urls /\ n.priority \in Priority /\ task[p].depth + 1 \in Nat
    BY <2>1, <2>2 DEF TaskState
  <2>4. Q!TypeOK' /\ IsFiniteSet(heap')
    BY <2>2, <2>3, EnqueueType DEF LinkDepth
  <2>5. QED
    BY <1>1, <1>10, <2>4 DEF PushFound, TypeOK
<1>11. CASE FollowPage(p)
  BY <1>1, <1>11 DEF FollowPage, TypeOK, Q!TypeOK
<1>12. CASE Finish(p)
  BY <1>1, <1>12 DEF Finish, TypeOK, Q!TypeOK
<1>13. QED
  BY <1>3, <1>4, <1>5, <1>6, <1>7, <1>8, <1>9, <1>10, <1>11, <1>12 DEF Task

\* Types hold in every reachable state: in particular every task keeps a
\* permit's slot and every queue entry a natural depth.
THEOREM TypeCorrect == Spec => []TypeOK
<1>1. TypeOK /\ UNCHANGED vars => TypeOK'
  BY DEF TypeOK, Q!TypeOK, vars, queueVars, mainVars, taskVars, counters
<1>2. TypeOK /\ [Next]_vars => TypeOK'
  BY <1>1, TypeMain, TypeTask DEF Next, Terminated
<1>3. QED
  BY <1>2, TypeInit, PTL DEF Spec

-----------------------------------------------------------------------------
(* The queue. *)

\* Whatever the engine does to its queue is one of the queue's operations.
LEMMA QueueStep ==
  ASSUME TypeOK, [Next]_vars
  PROVE  \/ UNCHANGED queueVars
         \/ \E e \in Q!QueuedUrl : Q!Push(e)
         \/ \E e \in heap : Q!Pop(e)
         \/ \E u \in Urls : Q!MarkVisited(u)
<1>1. ASSUME NEW u \in Urls, NEW d \in Nat, NEW pr \in Priority, Enqueue(u, d, pr)
      PROVE  \E e \in Q!QueuedUrl : Q!Push(e)
  <2>1. PICK t \in Stamps :
          Q!Push([url |-> u, depth |-> d, priority |-> pr, queued_at |-> t])
    BY <1>1 DEF Enqueue
  <2>2. [url |-> u, depth |-> d, priority |-> pr, queued_at |-> t] \in Q!QueuedUrl
    BY StampsAssumption DEF Q!QueuedUrl, Q!Low, Q!Normal, Q!High, Priority
  <2>3. QED
    BY <2>1, <2>2
<1>2. CASE Main
  <2>1. ASSUME NEW u \in StartUrls, SeedUrl(u)
        PROVE  \E e \in Q!QueuedUrl : Q!Push(e)
    BY <1>1, <2>1, UrlsAssumption DEF SeedUrl, Priority
  <2>2. CASE PopSome
    BY <2>2 DEF PopSome
  <2>3. ASSUME NEW p \in Permits, Spawn(p)
        PROVE  \E u \in Urls : Q!MarkVisited(u)
    BY <2>3 DEF Spawn, TypeOK, Q!QueuedUrl
  <2>4. QED
    BY <1>2, <2>1, <2>2, <2>3 DEF Main, StartLoop, CheckBudget, PopNone, CheckIdle,
       CheckUrl, ReadStat, SaveStats, queueVars
<1>3. ASSUME NEW p \in Permits, Task(p)
      PROVE  UNCHANGED queueVars \/ \E e \in Q!QueuedUrl : Q!Push(e)
  <2>1. CASE PushFound(p)
    <3>1. task[p] \in TaskState
      BY <2>1, BusyTaskType DEF PushFound, In
    <3>2. PICK n \in task[p].todo : Enqueue(n.url, LinkDepth(task[p].depth), n.priority)
      BY <2>1 DEF PushFound
    <3>3. n.url \in Urls /\ n.priority \in Priority /\ task[p].depth + 1 \in Nat
      BY <3>1, <3>2 DEF TaskState
    <3>4. QED
      BY <1>1, <3>2, <3>3 DEF LinkDepth
  <2>2. QED
    BY <1>3, <2>1 DEF Task, FetchOk, FetchFails, StorePage, AgentReplies, AgentFails,
       SaveRecord, CountRecords, FollowPage, Finish, queueVars
<1>4. QED
  BY <1>2, <1>3 DEF Next, Terminated, vars, queueVars

\* So the queue stays well-formed, by the lemmas of UrlQueueProofs.
LEMMA QueueNext ==
  ASSUME TypeOK, Q!IInv, [Next]_vars
  PROVE  Q!IInv'
<1> USE DEF Q!QueuedUrl, QP!QueuedUrl, Q!Low, QP!Low, Q!Normal, QP!Normal, Q!High, QP!High
<1>1. QP!IInv
  BY DEF Q!IInv, QP!IInv, Q!TypeOK, QP!TypeOK, Q!OneCopyPerUrl, QP!OneCopyPerUrl,
     Q!IndexCoherent, QP!IndexCoherent, Q!UrlsOf, QP!UrlsOf
<1>2. QP!IInv'
  <2>1. ASSUME NEW e \in Q!QueuedUrl, Q!Push(e)
        PROVE  QP!IInv'
    <3>1. e \in QP!QueuedUrl /\ QP!Push(e)
      BY <2>1 DEF Q!Push, QP!Push
    <3>2. QED
      BY <1>1, <3>1, QP!PushIInv
  <2>2. ASSUME NEW e \in heap, Q!Pop(e)
        PROVE  QP!IInv'
    <3>1. QP!Pop(e)
      BY <2>2 DEF Q!Pop, QP!Pop, Q!Greater, QP!Greater
    <3>2. QED
      BY <1>1, <3>1, QP!PopIInv
  <2>3. ASSUME NEW u \in Urls, Q!MarkVisited(u)
        PROVE  QP!IInv'
    <3>1. QP!MarkVisited(u)
      BY <2>3 DEF Q!MarkVisited, QP!MarkVisited
    <3>2. QED
      BY <1>1, <3>1, QP!MarkVisitedIInv
  <2>4. CASE UNCHANGED queueVars
    BY <1>1, <2>4 DEF queueVars, QP!IInv, QP!TypeOK, QP!OneCopyPerUrl,
       QP!IndexCoherent, QP!UrlsOf
  <2>5. QED
    BY <2>1, <2>2, <2>3, <2>4, QueueStep
<1>3. QED
  BY <1>2 DEF Q!IInv, QP!IInv, Q!TypeOK, QP!TypeOK, Q!OneCopyPerUrl, QP!OneCopyPerUrl,
     Q!IndexCoherent, QP!IndexCoherent, Q!UrlsOf, QP!UrlsOf

-----------------------------------------------------------------------------
(* Control: how the loop ends, and who holds the permits. *)

Control ==
  /\ ExitCoherent
  /\ PermitsHeldByTasks
  /\ IdleExitMeansNoTasks
  /\ TestedBeforeCharged

\* A task step leaves the main loop's state and the visited set alone, and
\* is taken by a busy task.
LEMMA TaskFrame ==
  ASSUME TypeOK, NEW p \in Permits, Task(p)
  PROVE  /\ ~ In(p, "idle")
         /\ UNCHANGED mainVars /\ visited' = visited
         /\ \/ Finish(p)
            \/ Advance(p) /\ permits' = permits
<1>1. Finish(p) \/ Advance(p)
  BY TaskAdvances
<1>2. CASE PushFound(p)
  <2>1. visited' = visited
    BY <1>2 DEF PushFound, Enqueue, Q!Push
  <2>2. QED
    BY <1>1, <1>2, <2>1 DEF PushFound, In
<1>3. CASE ~ PushFound(p)
  BY <1>1, <1>3 DEF Task, FetchOk, FetchFails, StorePage, AgentReplies, AgentFails,
     SaveRecord, CountRecords, FollowPage, Finish, In, queueVars
<1>4. QED
  BY <1>2, <1>3

\* Every step keeps permits, phases and the position of the loop in line.
LEMMA ControlNext ==
  ASSUME TypeOK, TypeOK', Control, [Next]_vars
  PROVE  Control'
<1> USE DEF Control, taskVars, counters, queueVars, mainVars
<1>1. ASSUME NEW p \in Permits, Task(p)
      PROVE  Control'
  <2>1. ~ In(p, "idle") /\ UNCHANGED mainVars
    BY <1>1, TaskFrame
  <2>2. ExitCoherent' /\ TestedBeforeCharged'
    BY <2>1 DEF ExitCoherent, TestedBeforeCharged, IsExhausted
  <2>3. exit # "idle"
    BY <2>1 DEF IdleExitMeansNoTasks, Busy
  <2>4. IdleExitMeansNoTasks'
    BY <2>1, <2>3 DEF IdleExitMeansNoTasks
  <2>5. PermitsHeldByTasks'
    <3>1. CASE Finish(p)
      <4>1. Becomes(p, Idle) /\ permits' = permits \cup {p}
        BY <3>1 DEF Finish
      <4>2. task'[p] = Idle /\ \A q \in Permits \ {p} : task'[q] = task[q]
        BY <4>1, BecomesFacts
      <4>3. QED
        BY <4>1, <4>2 DEF PermitsHeldByTasks, In, Idle
    <3>2. CASE Advance(p) /\ permits' = permits
      <4>1. task[p].phase # "idle" /\ task'[p].phase # "idle"
        BY <3>2 DEF Advance, TaskState, Phases
      <4>2. QED
        BY <3>2, <4>1 DEF Advance, PermitsHeldByTasks, In
    <3>3. QED
      BY <1>1, <3>1, <3>2, TaskFrame
  <2>6. QED
    BY <2>2, <2>4, <2>5
<1>2. ASSUME NEW p \in Permits, Spawn(p)
      PROVE  Control'
  <2>1. PermitsHeldByTasks'
    <3>1. \A q \in Permits \ {p} : task'[q] = task[q]
      BY <1>2, BecomesFacts DEF Spawn
    <3>2. task'[p].phase = "fetch"
      BY <1>2, BecomesFacts DEF Spawn
    <3>3. QED
      BY <1>2, <3>1, <3>2 DEF Spawn, PermitsHeldByTasks, In
  <2>2. QED
    BY <1>2, <2>1 DEF Spawn, ExitCoherent, IdleExitMeansNoTasks, TestedBeforeCharged, IsExhausted
<1>3. ASSUME NEW u \in StartUrls, SeedUrl(u)
      PROVE  Control'
  BY <1>3 DEF SeedUrl, ExitCoherent, PermitsHeldByTasks, IdleExitMeansNoTasks,
     TestedBeforeCharged, IsExhausted, In, Busy
<1>4. CASE CheckIdle
  <2>1. CASE permits = Permits
    <3>1. Busy = {}
      BY <2>1 DEF PermitsHeldByTasks, Busy
    <3>2. QED
      BY <1>4, <2>1, <3>1 DEF CheckIdle, ExitCoherent, PermitsHeldByTasks,
         IdleExitMeansNoTasks, TestedBeforeCharged, In, Busy
  <2>2. CASE permits # Permits
    BY <1>4, <2>2 DEF AllPermitsFree, CheckIdle, ExitCoherent, PermitsHeldByTasks,
       IdleExitMeansNoTasks, TestedBeforeCharged, In, Busy
  <2>3. QED
    BY <2>1, <2>2
<1>5. CASE StartLoop \/ CheckBudget \/ PopSome \/ PopNone \/ CheckUrl \/ ReadStat \/ SaveStats
  <2>1. UNCHANGED <<permits, task, used>>
    BY <1>5 DEF StartLoop, CheckBudget, PopSome, PopNone, CheckUrl, ReadStat, SaveStats
  <2>2. PermitsHeldByTasks' /\ Busy' = Busy
    BY <2>1 DEF PermitsHeldByTasks, In, Busy
  <2>3. ExitCoherent'
    BY <1>5 DEF StartLoop, CheckBudget, PopSome, PopNone, CheckUrl, ReadStat, SaveStats,
       ExitCoherent
  <2>4. exit' = "idle" => exit = "idle"
    BY <1>5 DEF StartLoop, CheckBudget, PopSome, PopNone, CheckUrl, ReadStat, SaveStats
  <2>5. TestedBeforeCharged'
    BY <1>5 DEF StartLoop, CheckBudget, PopSome, PopNone, CheckUrl, ReadStat, SaveStats,
       TestedBeforeCharged, IsExhausted
  <2>6. QED
    BY <2>2, <2>3, <2>4, <2>5 DEF IdleExitMeansNoTasks
<1>6. CASE UNCHANGED vars
  BY <1>6 DEF vars, ExitCoherent, PermitsHeldByTasks, IdleExitMeansNoTasks,
     TestedBeforeCharged, IsExhausted, In, Busy
<1>7. QED
  BY <1>1, <1>2, <1>3, <1>4, <1>5, <1>6 DEF Next, Main, Terminated

-----------------------------------------------------------------------------
(* The budget: every unit charged is one more URL visited. *)

Budget ==
  /\ BudgetCountsVisited
  /\ WithinPageLimit
  /\ CurFresh

\* The visited set is finite, and marking a fresh URL adds one to it.
LEMMA VisitedFinite ==
  ASSUME TypeOK
  PROVE  IsFiniteSet(visited) /\ Cardinality(visited) \in Nat
<1>1. visited \subseteq Urls
  BY DEF TypeOK, Q!TypeOK
<1>2. IsFiniteSet(visited)
  BY <1>1, UrlsAssumption, FS_Subset
<1>3. QED
  BY <1>2, FS_CardinalityType

\* A URL visited for the first time makes the visited URLs one more.
LEMMA VisitedGrows ==
  ASSUME TypeOK, NEW u, u \notin visited, visited' = visited \cup {u}
  PROVE  Cardinality(visited') = Cardinality(visited) + 1
BY VisitedFinite, FS_AddElement

\* Only a spawn charges the budget or marks a URL visited.
LEMMA OnlySpawnVisits ==
  ASSUME TypeOK, [Next]_vars, ~ \E p \in Permits : Spawn(p)
  PROVE  used' = used /\ visited' = visited
<1>1. CASE Main
  BY <1>1 DEF Main, SeedUrl, Enqueue, Q!Push, StartLoop, CheckBudget, PopSome, Q!Pop,
     PopNone, CheckIdle, CheckUrl, ReadStat, SaveStats, queueVars
<1>2. ASSUME NEW p \in Permits, Task(p)
      PROVE  used' = used /\ visited' = visited
  BY <1>2, TaskFrame DEF mainVars
<1>3. QED
  BY <1>1, <1>2 DEF Next, Terminated, vars, queueVars, mainVars

\* The entry bound for a task is still fresh after a step: CheckUrl saw it
\* unvisited and no task marks a URL visited.
LEMMA CurFreshNext ==
  ASSUME TypeOK, CurFresh, [Next]_vars
  PROVE  CurFresh'
<1>1. CASE CheckUrl
  <2>1. pc' = "acquire" =>
          cur' = cur /\ CanFetch(cur.depth) /\ cur.url \notin visited /\ visited' = visited
    BY <1>1 DEF Wanted, CheckUrl, queueVars
  <2>2. QED
    BY <2>1 DEF CurFresh, CanFetch
<1>2. CASE Main /\ ~ CheckUrl
  <2>1. pc' # "acquire"
    <3>1. CASE \E u \in StartUrls : SeedUrl(u)
      BY <3>1 DEF SeedUrl
    <3>2. CASE \E p \in Permits : Spawn(p)
      BY <3>2 DEF Spawn
    <3>3. CASE StartLoop \/ CheckBudget \/ PopSome \/ PopNone \/ CheckIdle
      BY <3>3 DEF StartLoop, CheckBudget, PopSome, PopNone, CheckIdle
    <3>4. CASE ReadStat \/ SaveStats
      BY <3>4 DEF ReadStat, SaveStats
    <3>5. QED
      BY <1>2, <3>1, <3>2, <3>3, <3>4 DEF Main
  <2>2. QED
    BY <2>1 DEF CurFresh
<1>3. CASE \E p \in Permits : Task(p)
  BY <1>3, TaskFrame DEF mainVars, CurFresh
<1>4. CASE UNCHANGED vars
  BY <1>4 DEF vars, mainVars, queueVars, CurFresh
<1>5. QED
  BY <1>1, <1>2, <1>3, <1>4 DEF Next, Terminated

\* Every step keeps the count of fetches the number of visited URLs.
LEMMA BudgetNext ==
  ASSUME TypeOK, Control, Budget, [Next]_vars
  PROVE  Budget'
<1>1. CurFresh'
  BY CurFreshNext DEF Budget
<1>2. ASSUME NEW p \in Permits, Spawn(p)
      PROVE  BudgetCountsVisited' /\ WithinPageLimit'
  <2>1. cur.url \notin visited /\ visited' = visited \cup {cur.url} /\ used' = used + 1
    BY <1>2 DEF RecordFetch, Spawn, Q!MarkVisited, Budget, CurFresh
  <2>2. Cardinality(visited') = Cardinality(visited) + 1
    BY <2>1, VisitedGrows
  <2>3. ~ IsExhausted
    BY <1>2 DEF Spawn, Control, TestedBeforeCharged
  <2>4. used = Cardinality(visited) /\ used \in Nat
    BY DEF Budget, BudgetCountsVisited, TypeOK
  <2>5. BudgetCountsVisited'
    BY <2>1, <2>2, <2>4 DEF BudgetCountsVisited
  <2>6. WithinPageLimit'
    BY <2>2, <2>3, <2>4, LimitsAssumption DEF WithinPageLimit, IsExhausted
  <2>7. QED
    BY <2>5, <2>6
<1>3. CASE ~ \E p \in Permits : Spawn(p)
  <2>1. used' = used /\ visited' = visited
    BY <1>3, OnlySpawnVisits
  <2>2. BudgetCountsVisited'
    BY <2>1 DEF Budget, BudgetCountsVisited
  <2>3. WithinPageLimit
    BY DEF Budget
  <2>4. WithinPageLimit'
    BY <2>1, <2>3 DEF WithinPageLimit
  <2>5. QED
    BY <1>1, <2>2, <2>4 DEF Budget
<1>4. QED
  BY <1>1, <1>2, <1>3 DEF Budget

-----------------------------------------------------------------------------
(* The tasks: distinct URLs, depths earned by fetched pages. *)

Work ==
  /\ WorkEarned
  /\ TasksDisjoint
  /\ DepthEarned

\* A new task works on a URL of its own.
LEMMA WorkSpawn ==
  ASSUME TypeOK, TypeOK', Control, Budget, Work, NEW p \in Permits, Spawn(p)
  PROVE  Work'
<1>1. /\ cur.url \notin visited /\ visited' = visited \cup {cur.url}
      /\ heap' = heap /\ pc' = "budget"
  BY DEF Spawn, Q!MarkVisited, Budget, CurFresh
<1>2. Cardinality(visited') = Cardinality(visited) + 1 /\ Cardinality(visited) \in Nat
  BY <1>1, VisitedGrows, VisitedFinite
<1>3. /\ task'[p] = [phase |-> "fetch", url |-> cur.url, depth |-> cur.depth,
                     left |-> 0, found |-> 0, todo |-> {}]
      /\ \A q \in Permits \ {p} : task'[q] = task[q]
  BY BecomesFacts DEF Spawn
<1>4. cur.depth \in Nat /\ cur.depth <= Cardinality(visited)
  BY DEF Spawn, TypeOK, Q!QueuedUrl, Work, WorkEarned
<1>5. \A q \in Busy' \ {p} : q \in Busy /\ task'[q] = task[q]
  BY <1>3 DEF Busy, In
<1>6. \A q \in Busy : /\ task[q].url \in visited /\ task[q].depth < Cardinality(visited)
                      /\ task[q].depth \in Nat
  BY BusyTaskType DEF Work, WorkEarned, Busy, TaskState
<1>7. WorkEarned'
  <2>1. ASSUME NEW q \in Busy'
        PROVE  task'[q].url \in visited' /\ task'[q].depth < Cardinality(visited')
    <3>1. CASE q = p
      BY <1>1, <1>2, <1>3, <1>4, <3>1
    <3>2. CASE q # p
      BY <1>1, <1>2, <1>5, <1>6, <3>2
    <3>3. QED
      BY <3>1, <3>2
  <2>2. QED
    BY <1>1, <2>1 DEF WorkEarned
<1>8. TasksDisjoint'
  <2>1. \A q \in Busy' \ {p} : task'[q].url # task'[p].url
    BY <1>1, <1>3, <1>5, <1>6
  <2>2. QED
    BY <1>5, <2>1 DEF Work, TasksDisjoint
<1>9. DepthEarned'
  <2>1. \A e \in heap : e.depth \in Nat
    BY DEF TypeOK, Q!TypeOK, Q!QueuedUrl
  <2>2. QED
    BY <1>1, <1>2, <2>1 DEF Work, DepthEarned
<1>10. QED
  BY <1>7, <1>8, <1>9 DEF Work

\* The tasks' part of Work survives any other step.
LEMMA WorkTask ==
  ASSUME TypeOK, TypeOK', Work, NEW p \in Permits, Task(p)
  PROVE  Work'
<1>1. visited' = visited /\ pc' = pc /\ cur' = cur /\ ~ In(p, "idle")
  BY TaskFrame DEF mainVars
<1>2. \A q \in Busy' : /\ q \in Busy
                       /\ task'[q].url = task[q].url /\ task'[q].depth = task[q].depth
  <2>1. CASE Finish(p)
    <3>1. task'[p] = Idle /\ \A q \in Permits \ {p} : task'[q] = task[q]
      BY <2>1, BecomesFacts DEF Finish
    <3>2. QED
      BY <3>1 DEF Busy, In, Idle
  <2>2. CASE Advance(p)
    BY <1>1, <2>2 DEF Advance, Busy, In
  <2>3. QED
    BY <2>1, <2>2, TaskAdvances
<1>3. WorkEarned' /\ TasksDisjoint'
  BY <1>1, <1>2 DEF Work, WorkEarned, TasksDisjoint
<1>4. DepthEarned'
  <2>1. CASE PushFound(p)
    <3>1. p \in Busy /\ task[p] \in TaskState
      BY <1>1, BusyTaskType DEF Busy
    <3>2. PICK n \in task[p].todo : Enqueue(n.url, LinkDepth(task[p].depth), n.priority)
      BY <2>1 DEF PushFound
    <3>3. PICK t \in Stamps :
            Q!Push([url |-> n.url, depth |-> task[p].depth + 1,
                    priority |-> n.priority, queued_at |-> t])
      BY <3>2 DEF LinkDepth, Enqueue
    <3>4. \A e \in heap' : e \in heap \/ e.depth = task[p].depth + 1
      BY <3>3 DEF Q!Push
    <3>5. task[p].depth + 1 <= Cardinality(visited)
      BY <3>1, VisitedFinite DEF Work, WorkEarned, TaskState
    <3>6. QED
      BY <1>1, <3>4, <3>5 DEF Work, DepthEarned
  <2>2. CASE ~ PushFound(p)
    <3>1. heap' = heap
      BY <2>2 DEF Task, FetchOk, FetchFails, StorePage, AgentReplies, AgentFails,
         SaveRecord, CountRecords, FollowPage, Finish, queueVars
    <3>2. QED
      BY <1>1, <3>1 DEF Work, DepthEarned
  <2>3. QED
    BY <2>1, <2>2
<1>5. QED
  BY <1>3, <1>4 DEF Work

\* Every step keeps the tasks on distinct visited URLs, and depths earned.
LEMMA WorkNext ==
  ASSUME TypeOK, TypeOK', Control, Budget, Work, [Next]_vars
  PROVE  Work'
<1> USE DEF taskVars, queueVars, mainVars
<1>1. ASSUME NEW u \in StartUrls, SeedUrl(u)
      PROVE  Work'
  <2>1. PICK t \in Stamps :
          Q!Push([url |-> u, depth |-> 0, priority |-> 2, queued_at |-> t])
    BY <1>1 DEF SeedUrl, Enqueue
  <2>2. visited' = visited /\ \A e \in heap' : e \in heap \/ e.depth = 0
    BY <2>1 DEF Q!Push
  <2>3. DepthEarned'
    BY <2>2, VisitedFinite DEF Work, DepthEarned
  <2>4. WorkEarned' /\ TasksDisjoint'
    BY <1>1, <2>2 DEF SeedUrl, Work, WorkEarned, TasksDisjoint, Busy, In
  <2>5. QED
    BY <2>3, <2>4 DEF Work
<1>2. CASE PopSome
  <2>1. PICK e \in heap : Q!Pop(e) /\ cur' = e
    BY <1>2 DEF PopSome
  <2>2. heap' = heap \ {e} /\ visited' = visited /\ task' = task /\ e.depth <= Cardinality(visited)
    BY <1>2, <2>1 DEF PopSome, Q!Pop, Work, DepthEarned
  <2>3. QED
    BY <2>1, <2>2 DEF Work, WorkEarned, TasksDisjoint, DepthEarned, Busy, In
<1>3. CASE CheckUrl
  <2>1. UNCHANGED <<heap, visited, task>> /\ (pc' \in {"check", "acquire"} => pc = "check" /\ cur' = cur)
    BY <1>3 DEF CheckUrl
  <2>2. QED
    BY <2>1 DEF Work, WorkEarned, TasksDisjoint, DepthEarned, Busy, In
<1>4. CASE StartLoop \/ CheckBudget \/ PopNone \/ CheckIdle \/ ReadStat \/ SaveStats
  <2>1. UNCHANGED <<heap, visited, task>> /\ pc' \notin {"check", "acquire"}
    BY <1>4 DEF StartLoop, CheckBudget, PopNone, CheckIdle, ReadStat, SaveStats
  <2>2. QED
    BY <2>1 DEF Work, WorkEarned, TasksDisjoint, DepthEarned, Busy, In
<1>5. CASE UNCHANGED vars
  BY <1>5 DEF vars, Work, WorkEarned, TasksDisjoint, DepthEarned, Busy, In
<1>6. QED
  BY <1>1, <1>2, <1>3, <1>4, <1>5, WorkSpawn, WorkTask DEF Next, Main, Terminated

-----------------------------------------------------------------------------
(* The counters: every fetch is in flight, a page or an error. *)

\* The fetching tasks are finitely many.
LEMMA FetchingFinite == IsFiniteSet(Fetching) /\ Cardinality(Fetching) \in Nat
<1>1. Fetching \subseteq Permits
  BY DEF Fetching
<1>2. IsFiniteSet(Fetching)
  BY <1>1, PermitsAssumption, FS_Subset
<1>3. QED
  BY <1>2, FS_CardinalityType

\* A fetch that ends, well or badly, takes its task out of Fetching.
LEMMA FetchEnds ==
  ASSUME TypeOK, NEW p \in Permits, FetchOk(p) \/ FetchFails(p)
  PROVE  Cardinality(Fetching') = Cardinality(Fetching) - 1
<1>1. In(p, "fetch") /\ Task(p) /\ ~ Finish(p)
  BY DEF FetchOk, FetchFails, Task, Finish, In
<1>2. Advance(p)
  BY <1>1, TaskAdvances
<1>3. p \in Fetching /\ Fetching' = Fetching \ {p}
  BY <1>1, <1>2 DEF Advance, Fetching, In
<1>4. QED
  BY <1>3, FetchingFinite, FS_RemoveElement

\* No other step of a task changes Fetching.
LEMMA FetchingStays ==
  ASSUME TypeOK, NEW p \in Permits, Task(p), ~ FetchOk(p), ~ FetchFails(p)
  PROVE  Fetching' = Fetching
<1>1. ~ In(p, "fetch")
  BY DEF Task, StorePage, AgentReplies, AgentFails, SaveRecord, CountRecords, PushFound,
     FollowPage, Finish, In
<1>2. CASE Finish(p)
  <2>1. task'[p] = Idle /\ \A q \in Permits \ {p} : task'[q] = task[q]
    BY <1>2, BecomesFacts DEF Finish
  <2>2. QED
    BY <1>1, <2>1 DEF Fetching, In, Idle
<1>3. CASE Advance(p)
  BY <1>1, <1>3 DEF Advance, Fetching, In
<1>4. QED
  BY <1>2, <1>3, TaskAdvances

\* Every step keeps each charged fetch accounted for.
LEMMA CountNext ==
  ASSUME TypeOK, TypeOK', Control, EveryFetchCounted, [Next]_vars
  PROVE  EveryFetchCounted'
<1> USE DEF EveryFetchCounted, mainVars, taskVars, counters
<1>0. used \in Nat /\ pages \in Nat /\ errors \in Nat /\ Cardinality(Fetching) \in Nat
  BY FetchingFinite DEF TypeOK
<1>1. ASSUME NEW p \in Permits, Spawn(p)
      PROVE  EveryFetchCounted'
  <2>1. p \notin Fetching
    BY <1>1 DEF Spawn, Control, PermitsHeldByTasks, Fetching, In
  <2>2. task'[p].phase = "fetch" /\ \A q \in Permits \ {p} : task'[q] = task[q]
    BY <1>1, BecomesFacts DEF Spawn
  <2>3. Fetching' = Fetching \cup {p}
    BY <2>2 DEF Fetching, In
  <2>4. Cardinality(Fetching') = Cardinality(Fetching) + 1
    BY <2>1, <2>3, FetchingFinite, FS_AddElement
  <2>5. QED
    BY <1>0, <1>1, <2>4 DEF RecordFetch, Spawn
<1>2. ASSUME NEW p \in Permits, Task(p)
      PROVE  EveryFetchCounted'
  <2>1. used' = used
    BY <1>2, TaskFrame
  <2>2. CASE FetchOk(p)
    <3>1. pages' = pages + 1 /\ errors' = errors
      BY <2>2 DEF FetchOk
    <3>2. QED
      BY <1>0, <2>1, <2>2, <3>1, FetchEnds
  <2>3. CASE FetchFails(p)
    <3>1. pages' = pages /\ errors' = errors + 1
      BY <2>3 DEF FetchFails
    <3>2. QED
      BY <1>0, <2>1, <2>3, <3>1, FetchEnds
  <2>4. CASE ~ FetchOk(p) /\ ~ FetchFails(p)
    <3>1. Fetching' = Fetching
      BY <1>2, <2>4, FetchingStays
    <3>2. pages' = pages /\ (errors' = errors \/ errors' = errors + 1)
      BY <1>2, <2>4 DEF Task, StorePage, AgentReplies, AgentFails, SaveRecord,
         CountRecords, PushFound, FollowPage, Finish
    <3>3. QED
      BY <1>0, <2>1, <3>1, <3>2
  <2>5. QED
    BY <2>2, <2>3, <2>4
<1>3. CASE Main /\ ~ \E p \in Permits : Spawn(p)
  <2>1. UNCHANGED <<task, pages, errors, used>>
    BY <1>3 DEF Main, SeedUrl, StartLoop, CheckBudget, PopSome, PopNone, CheckIdle,
       CheckUrl, ReadStat, SaveStats
  <2>2. QED
    BY <2>1 DEF Fetching, In
<1>4. CASE UNCHANGED vars
  BY <1>4 DEF vars, Fetching, In
<1>5. QED
  BY <1>1, <1>2, <1>3, <1>4 DEF Next, Terminated, Main

-----------------------------------------------------------------------------
(* The statistics of an idle exit. *)

Stat(i) == <<pages, records, errors, Cardinality(heap)>>[i]

\* Every step keeps the statistics of an idle exit those of the crawl.
LEMMA StatsNext ==
  ASSUME TypeOK, TypeOK', Control, IdleStatsFinal, [Next]_vars
  PROVE  IdleStatsFinal'
<1> USE DEF mainVars, taskVars, counters, queueVars
<1>1. ASSUME exit' = "idle", exit = "idle"
      PROVE  UNCHANGED <<pages, records, errors, heap>>
  <2>1. Busy = {} /\ pc \in {"stats", "stopped"}
    BY <1>1 DEF Control, IdleExitMeansNoTasks, ExitCoherent
  <2>2. ~ \E p \in Permits : Task(p)
    BY <2>1, TaskFrame DEF Busy
  <2>3. CASE Main
    BY <2>1, <2>3 DEF Main, SeedUrl, StartLoop, CheckBudget, PopSome, PopNone, CheckIdle,
       CheckUrl, Spawn, ReadStat, SaveStats
  <2>4. QED
    BY <2>2, <2>3 DEF Next, Terminated, vars
<1>2. CASE ReadStat
  <2>1. UNCHANGED <<pages, records, errors, heap, exit>>
    BY <1>2 DEF ReadStat
  <2>2. stats \in Seq(Nat) /\ Len(stats) \in Nat
    BY LenProperties DEF TypeOK
  <2>3. stats' = Append(stats, Stat(Len(stats) + 1))
    BY <1>2 DEF Counters, ReadStat, Stat
  <2>4. ASSUME NEW i \in DOMAIN stats'
        PROVE  \/ i \in DOMAIN stats /\ stats'[i] = stats[i]
               \/ i = Len(stats) + 1 /\ stats'[i] = Stat(i)
    BY <2>2, <2>3
  <2>5. QED
    BY <2>1, <2>4 DEF IdleStatsFinal, Stat
<1>3. CASE ~ ReadStat
  <2>1. stats' = stats
    <3>1. CASE Main
      BY <1>3, <3>1 DEF Main, SeedUrl, StartLoop, CheckBudget, PopSome, PopNone, CheckIdle,
         CheckUrl, Spawn, SaveStats
    <3>2. CASE \E p \in Permits : Task(p)
      BY <3>2, TaskFrame
    <3>3. QED
      BY <3>1, <3>2 DEF Next, Terminated, vars
  <2>2. CASE exit = "idle"
    BY <1>1, <2>1, <2>2 DEF IdleStatsFinal
  <2>3. CASE exit # "idle" /\ exit' = "idle"
    <3>1. CheckIdle
      <4>1. CASE Main
        BY <2>3, <4>1 DEF Main, SeedUrl, StartLoop, CheckBudget, PopSome, PopNone,
           CheckUrl, Spawn, ReadStat, SaveStats
      <4>2. QED
        BY <2>3, <4>1, TaskFrame DEF Next, Terminated, vars
    <3>2. stats = <<>>
      BY <3>1 DEF CheckIdle, Control, ExitCoherent
    <3>3. QED
      BY <2>1, <3>2 DEF IdleStatsFinal
  <2>4. QED
    BY <2>2, <2>3 DEF IdleStatsFinal
<1>4. QED
  BY <1>2, <1>3

-----------------------------------------------------------------------------
(* The job's row. *)

\* The URLs with a row, and the tasks about to write one, are finitely many.
LEMMA RowFinite ==
  ASSUME TypeOK
  PROVE  /\ IsFiniteSet(db.urls) /\ Cardinality(db.urls) \in Nat
         /\ IsFiniteSet(Storing) /\ Cardinality(Storing) \in Nat
<1>1. db.urls \subseteq Urls /\ Storing \subseteq Permits
  BY DEF TypeOK, Row, Storing
<1>2. IsFiniteSet(db.urls) /\ IsFiniteSet(Storing)
  BY <1>1, UrlsAssumption, PermitsAssumption, FS_Subset
<1>3. QED
  BY <1>2, FS_CardinalityType

\* A page that has been fetched is one more to be stored.
LEMMA FetchOkStores ==
  ASSUME TypeOK, NEW p \in Permits, FetchOk(p)
  PROVE  /\ Storing' = Storing \cup {p} /\ Fetching' = Fetching \ {p} /\ p \in Fetching
         /\ task'[p].url = task[p].url /\ \A q \in Permits \ {p} : task'[q] = task[q]
         /\ Cardinality(Storing') = Cardinality(Storing) + 1
<1> DEFINE t == task[p]
           new == [t EXCEPT !.phase = "store"]
<1>1. t.phase = "fetch" /\ t \in TaskState
  BY BusyTaskType DEF FetchOk, In
<1>2. new.phase = "store" /\ new.url = t.url /\ new \in TaskState
  <2> HIDE DEF t
  <2>1. QED
    BY <1>1, PhaseUpdate DEF Phases
<1>3. task'[p] = new /\ \A q \in Permits \ {p} : task'[q] = task[q]
  <2>1. Becomes(p, new)
    BY DEF FetchOk
  <2> HIDE DEF new
  <2>2. QED
    BY <1>2, <2>1, BecomesFacts
<1> HIDE DEF new
<1>4. Storing' = Storing \cup {p} /\ Fetching' = Fetching \ {p}
  BY <1>2, <1>3 DEF Storing, Fetching, In
<1>5. p \notin Storing /\ p \in Fetching
  BY <1>1 DEF Storing, Fetching, In
<1>6. QED
  BY <1>2, <1>3, <1>4, <1>5, RowFinite, FS_AddElement

\* A page that is stored is one less.
LEMMA StoreEnds ==
  ASSUME TypeOK, NEW p \in Permits, StorePage(p)
  PROVE  /\ p \in Storing /\ Storing' = Storing \ {p} /\ Fetching' = Fetching
         /\ \A q \in Permits \ {p} : task'[q] = task[q]
         /\ Cardinality(Storing') = Cardinality(Storing) - 1
         /\ Cardinality(Storing') \in Nat
<1>1. In(p, "store") /\ Task(p) /\ ~ Finish(p) /\ ~ FetchOk(p)
  BY DEF StorePage, Task, Finish, FetchOk, In
<1>2. Advance(p)
  BY <1>1, TaskAdvances
<1>3. p \in Storing /\ Storing' = Storing \ {p} /\ Fetching' = Fetching
  BY <1>1, <1>2 DEF Advance, Storing, Fetching, In
<1>4. IsFiniteSet(Storing') /\ Cardinality(Storing') = Cardinality(Storing) - 1
  BY <1>3, RowFinite, FS_RemoveElement
<1>5. QED
  BY <1>2, <1>3, <1>4, FS_CardinalityType DEF Advance

\* Any other step of a task leaves alone who has a page to store, the pages,
\* and the row's pages and URLs.
LEMMA RowFrame ==
  ASSUME TypeOK, NEW p \in Permits, Task(p), ~ FetchOk(p), ~ StorePage(p)
  PROVE  /\ Storing' = Storing /\ Fetching' \subseteq Fetching
         /\ \A q \in Fetching' \cup Storing : task'[q] = task[q]
         /\ pages' = pages
         /\ db'.urls = db.urls /\ db'.pages = db.pages
<1>1. ~ In(p, "store")
  BY DEF Task, FetchFails, AgentReplies, AgentFails, SaveRecord, CountRecords, PushFound,
     FollowPage, Finish, In
<1>2. \A q \in Permits \ {p} : task'[q] = task[q]
  BY TaskAdvances, BecomesFacts DEF Advance, Finish
<1>3. ~ In(p, "fetch")' /\ ~ In(p, "store")'
  <2>1. CASE Finish(p)
    BY <2>1, BecomesFacts DEF Finish, Idle, In
  <2>2. CASE Advance(p)
    BY <2>2 DEF Advance, In
  <2>3. QED
    BY <2>1, <2>2, TaskAdvances
<1>4. Storing' = Storing /\ Fetching' \subseteq Fetching \ {p} /\ p \notin Storing
  BY <1>1, <1>2, <1>3 DEF Storing, Fetching, In
<1>5. pages' = pages
  BY DEF Task, FetchFails, AgentReplies, AgentFails, SaveRecord, CountRecords, PushFound,
     FollowPage, Finish, counters
<1>6. db' = db \/ db' = [db EXCEPT !.records = @ + 1]
  BY DEF Task, FetchFails, AgentReplies, AgentFails, SaveRecord, CountRecords, PushFound,
     FollowPage, Finish
<1>7. db'.urls = db.urls /\ db'.pages = db.pages
  BY <1>6 DEF TypeOK, Row
<1>8. QED
  BY <1>2, <1>4, <1>5, <1>7 DEF Storing, Fetching

\* Storing a page adds its URL to the row, or nothing, and counts it only then.
LEMMA VisitStoredFacts ==
  ASSUME TypeOK, NEW u \in Urls, u \notin db.urls, db' \in VisitStored(u)
  PROVE  \/ db'.urls = db.urls /\ db'.pages = db.pages
         \/ /\ db'.urls = db.urls \cup {u} /\ db'.pages \in {db.pages, db.pages + 1}
            /\ Cardinality(db'.urls) = Cardinality(db.urls) + 1
<1>1. \/ db' = db
      \/ db' = [db EXCEPT !.urls = @ \cup {u}]
      \/ db' = [db EXCEPT !.urls = @ \cup {u}, !.pages = @ + 1]
  BY DEF VisitStored
<1>2. \/ db'.urls = db.urls /\ db'.pages = db.pages
      \/ db'.urls = db.urls \cup {u} /\ db'.pages \in {db.pages, db.pages + 1}
  BY <1>1 DEF TypeOK, Row
<1>3. Cardinality(db.urls \cup {u}) = Cardinality(db.urls) + 1
  BY RowFinite, FS_AddElement
<1>4. QED
  BY <1>2, <1>3

\* A step of a task keeps the row behind the crawl.
LEMMA RowTask ==
  ASSUME TypeOK, Control, Work, RowBehind, RowKeepsUp, NEW p \in Permits, Task(p)
  PROVE  RowBehind' /\ RowKeepsUp'
<1>0. /\ pages \in Nat /\ db.pages \in Nat
      /\ Cardinality(db.urls) \in Nat /\ Cardinality(Storing) \in Nat
  BY RowFinite DEF TypeOK, Row
<1>1. /\ visited' = visited /\ pc' = pc /\ exit' = exit
      /\ ~ In(p, "idle") /\ exit # "idle"
  BY TaskFrame DEF mainVars, Control, IdleExitMeansNoTasks, Busy
<1>2. CASE FetchOk(p)
  <2>1. db' = db /\ pages' = pages + 1
    BY <1>2 DEF FetchOk
  <2>2. RowBehind'
    BY <1>0, <1>2, <2>1, FetchOkStores DEF RowBehind, Storing, Fetching
  <2>3. QED
    BY <1>0, <1>1, <2>1, <2>2 DEF RowKeepsUp
<1>3. CASE StorePage(p)
  <2> DEFINE u == task[p].url
  <2>1. p \in Storing /\ db' \in VisitStored(u) /\ pages' = pages
    BY <1>3, StoreEnds DEF StorePage, counters
  <2>2. u \in Urls /\ u \notin db.urls /\ u \in visited
    BY <1>1, <2>1, BusyTaskType DEF RowBehind, Work, WorkEarned, Busy, TaskState
  <2>3. \A q \in (Fetching \cup Storing) \ {p} : task[q].url # u
    BY <1>1, <2>1 DEF Work, TasksDisjoint, Busy, Fetching, Storing, In
  <2>4. Cardinality(Storing') = Cardinality(Storing) - 1 /\ Cardinality(Storing') \in Nat
    BY <1>3, StoreEnds
  <2> HIDE DEF u
  <2>5. \/ db'.urls = db.urls /\ db'.pages = db.pages
        \/ /\ db'.urls = db.urls \cup {u} /\ db'.pages \in {db.pages, db.pages + 1}
           /\ Cardinality(db'.urls) = Cardinality(db.urls) + 1
    BY <2>1, <2>2, VisitStoredFacts
  <2>6. \A q \in Fetching' \cup Storing' :
          /\ q \in (Fetching \cup Storing) \ {p} /\ task'[q] = task[q]
    BY <1>3, <2>1, StoreEnds DEF StorePage, Fetching, Storing, In
  <2>7. \A q \in Fetching' \cup Storing' : task'[q].url \notin db'.urls
    BY <2>3, <2>5, <2>6 DEF RowBehind
  <2>8. RowBehind'
    BY <1>0, <2>1, <2>4, <2>5, <2>7 DEF RowBehind
  <2>9. Cardinality(db'.urls) <= pages /\ Cardinality(db'.urls) \in Nat
    BY <1>0, <2>1, <2>4, <2>5, <2>8 DEF RowBehind
  <2>10. QED
    BY <1>0, <1>1, <2>1, <2>2, <2>5, <2>8, <2>9 DEF RowKeepsUp
<1>4. CASE ~ FetchOk(p) /\ ~ StorePage(p)
  <2>1. RowBehind'
    BY <1>0, <1>4, RowFrame DEF RowBehind
  <2>2. QED
    BY <1>0, <1>1, <1>4, <2>1, RowFrame DEF RowKeepsUp
<1>5. QED
  BY <1>2, <1>3, <1>4

\* So does a step of the main loop.
LEMMA RowMain ==
  ASSUME TypeOK, Control, Budget, IdleStatsFinal, RowBehind, RowKeepsUp, Main
  PROVE  RowBehind' /\ RowKeepsUp'
<1>0. /\ pages \in Nat /\ db.pages \in Nat
      /\ Cardinality(db.urls) \in Nat /\ Cardinality(Storing) \in Nat
  BY RowFinite DEF TypeOK, Row
<1> USE DEF counters, taskVars, queueVars
<1>1. ASSUME NEW p \in Permits, Spawn(p)
      PROVE  RowBehind' /\ RowKeepsUp'
  <2>1. /\ task'[p].url = cur.url /\ task'[p].phase = "fetch"
        /\ \A q \in Permits \ {p} : task'[q] = task[q]
    BY <1>1, BecomesFacts DEF Spawn
  <2>2. /\ cur.url \notin db.urls /\ In(p, "idle") /\ visited \subseteq visited'
        /\ pc # "stopped" /\ UNCHANGED <<db, pages, exit>>
    BY <1>1 DEF Spawn, Q!MarkVisited, Budget, CurFresh, RowKeepsUp, Control, PermitsHeldByTasks
  <2>3. Storing' = Storing /\ Fetching' = Fetching \cup {p}
    BY <2>1, <2>2 DEF Storing, Fetching, In
  <2>4. RowBehind'
    BY <2>1, <2>2, <2>3 DEF RowBehind, Fetching, Storing
  <2>5. QED
    BY <2>2, <2>4 DEF RowKeepsUp
<1>2. CASE SaveStats
  <2>1. UNCHANGED <<visited, task, pages, exit, stats>> /\ Len(stats) = 4
    BY <1>2 DEF SaveStats
  <2>2. stats \in Seq(Nat)
    BY DEF TypeOK
  <2>3. exit = "idle" => stats[1] = pages
    BY <2>1, <2>2 DEF IdleStatsFinal
  <2>4. \/ db' = db
        \/ db' = [db EXCEPT !.pages = stats[1], !.records = stats[2], !.errors = stats[3]]
    BY <1>2, Zenon DEF SaveStats
  <2>5. db'.urls = db.urls /\ db'.pages \in {db.pages, stats[1]}
    <3> DEFINE d == db  a == stats[1]  b == stats[2]  c == stats[3]
    <3>1. d \in Row /\ (db' = d \/ db' = [d EXCEPT !.pages = a, !.records = b, !.errors = c])
      BY <2>4 DEF TypeOK
    <3> HIDE DEF d, a, b, c
    <3>2. db'.urls = d.urls /\ db'.pages \in {d.pages, a}
      BY <3>1 DEF Row
    <3>3. QED
      BY <3>2 DEF d, a
  <2>6. RowBehind'
    BY <2>1, <2>5 DEF RowBehind, Storing, Fetching, In
  <2>7. exit' = "idle" => db'.pages <= pages'
    BY <1>0, <2>1, <2>3, <2>5 DEF RowKeepsUp
  <2>8. pc' = "stopped"
    BY <1>2 DEF SaveStats
  <2>9. QED
    BY <2>1, <2>5, <2>6, <2>7, <2>8 DEF RowKeepsUp
<1>3. CASE Main /\ ~ SaveStats /\ ~ \E p \in Permits : Spawn(p)
  <2>1. UNCHANGED <<task, pages, db, visited>> /\ pc # "stopped"
    BY <1>3 DEF Main, SeedUrl, Enqueue, Q!Push, StartLoop, CheckBudget, PopSome, Q!Pop,
       PopNone, CheckIdle, CheckUrl, ReadStat
  <2>2. RowBehind'
    BY <2>1 DEF RowBehind, Storing, Fetching, In
  <2>3. db.pages <= pages
    BY <1>0, <2>1 DEF RowKeepsUp
  <2>4. QED
    BY <2>1, <2>2, <2>3 DEF RowKeepsUp
<1>4. QED
  BY <1>1, <1>2, <1>3 DEF Main

\* Every step keeps the row behind the crawl.
LEMMA RowNext ==
  ASSUME TypeOK, Control, Budget, Work, IdleStatsFinal, RowBehind, RowKeepsUp, [Next]_vars
  PROVE  RowBehind' /\ RowKeepsUp'
<1>1. CASE UNCHANGED vars
  BY <1>1 DEF vars, queueVars, mainVars, taskVars, counters, RowBehind, RowKeepsUp,
     Storing, Fetching, In
<1>2. QED
  BY <1>1, RowMain, RowTask DEF Next, Terminated

-----------------------------------------------------------------------------
(* The inductive invariant and what follows from it. *)

\* The invariant is the conjunction of its layers.
LEMMA Layers ==
  IInv <=> TypeOK /\ Q!IInv /\ Control /\ Budget /\ Work /\ EveryFetchCounted /\ IdleStatsFinal
           /\ RowBehind /\ RowKeepsUp
BY Zenon DEF IInv, Control, Budget, Work

\* The invariant holds at first.
LEMMA InitIInv == Init => IInv
<1> SUFFICES ASSUME Init
             PROVE  IInv
  OBVIOUS
<1>1. TypeOK
  BY TypeInit
<1>2. Q!IInv
  BY <1>1 DEF Init, Q!Init, Q!IInv, TypeOK, Q!OneCopyPerUrl, Q!IndexCoherent, Q!UrlsOf
<1>3. Busy = {} /\ Fetching = {}
  BY DEF Init, Busy, Fetching, In, Idle
<1>4. Control
  BY <1>3 DEF Init, Control, ExitCoherent, PermitsHeldByTasks, IdleExitMeansNoTasks,
     TestedBeforeCharged, In, Idle
<1>5. visited = {} /\ heap = {} /\ Cardinality({}) = 0
  BY FS_EmptySet DEF Init, Q!Init
<1>6. Budget
  BY <1>5, LimitsAssumption DEF Init, Budget, BudgetCountsVisited, WithinPageLimit, CurFresh
<1>7. Work
  BY <1>3, <1>5 DEF Init, Work, WorkEarned, TasksDisjoint, DepthEarned
<1>8. EveryFetchCounted
  BY <1>3, <1>5 DEF Init, EveryFetchCounted
<1>9. IdleStatsFinal
  BY DEF Init, IdleStatsFinal
<1>10. RowBehind /\ RowKeepsUp
  <2>1. db.urls = {} /\ db.pages = 0 /\ pages = 0 /\ Storing = {} /\ exit = "no"
    BY DEF Init, Storing, In, Idle
  <2>2. QED
    BY <1>3, <1>5, <2>1 DEF RowBehind, RowKeepsUp
<1>11. QED
  BY <1>1, <1>2, <1>4, <1>6, <1>7, <1>8, <1>9, <1>10, Layers

\* Every step keeps the invariant.
LEMMA NextIInv == IInv /\ [Next]_vars => IInv'
<1> SUFFICES ASSUME IInv, [Next]_vars
             PROVE  IInv'
  OBVIOUS
<1>1. /\ TypeOK /\ Q!IInv /\ Control /\ Budget /\ Work /\ EveryFetchCounted /\ IdleStatsFinal
      /\ RowBehind /\ RowKeepsUp
  BY Layers
<1>2. TypeOK'
  <2>1. TypeOK /\ UNCHANGED vars => TypeOK'
    BY DEF TypeOK, Q!TypeOK, vars, queueVars, mainVars, taskVars, counters
  <2>2. QED
    BY <1>1, <2>1, TypeMain, TypeTask DEF Next, Terminated
<1>3. Q!IInv' /\ Control' /\ Budget' /\ Work'
  BY <1>1, <1>2, QueueNext, ControlNext, BudgetNext, WorkNext
<1>4. EveryFetchCounted' /\ IdleStatsFinal'
  BY <1>1, <1>2, CountNext, StatsNext
<1>5. RowBehind' /\ RowKeepsUp'
  BY <1>1, RowNext
<1>6. QED
  BY <1>2, <1>3, <1>4, <1>5, Zenon DEF IInv, Control, Budget, Work

\* The inductive invariant holds in every reachable state.
THEOREM EngineInvariant == Spec => []IInv
BY InitIInv, NextIInv, PTL DEF Spec

\* No URL is fetched twice, no two tasks share a URL, and no more than
\* MaxPages URLs are ever requested.
THEOREM FetchOnceWithinLimit ==
  Spec => [](BudgetCountsVisited /\ TasksDisjoint /\ WithinPageLimit)
<1>1. IInv => BudgetCountsVisited /\ TasksDisjoint /\ WithinPageLimit
  BY DEF IInv
<1>2. QED
  BY <1>1, EngineInvariant, PTL

\* When the loop ends for want of URLs no task is at work, and from then on
\* the counters never move away from the statistics.
THEOREM IdleExitIsFinal == Spec => [](IdleExitMeansNoTasks /\ IdleStatsFinal)
<1>1. IInv => IdleExitMeansNoTasks /\ IdleStatsFinal
  BY DEF IInv
<1>2. QED
  BY <1>1, EngineInvariant, PTL

\* However many tasks run and whichever fetches fail, the page limit holds.
THEOREM PageLimitHolds == Spec => []WithinPageLimit
BY FetchOnceWithinLimit, PTL

\* The statistics of a crawl that ended for want of URLs are final.
THEOREM IdleStatsStay == Spec => []IdleStatsFinal
BY IdleExitIsFinal, PTL

\* The job's row never runs ahead of the crawl while its loop runs, nor after
\* an idle exit, whichever of its writes fail and however its tasks
\* interleave: a task's URL has no row before it stores its page, and each
\* task about to do so has been counted as a page already.
THEOREM RowNeverAhead == Spec => []RowKeepsUp
<1>1. IInv => RowKeepsUp
  BY DEF IInv
<1>2. QED
  BY <1>1, EngineInvariant, PTL

\* Every charged fetch is in flight, a page or an error, and the depth of a
\* queued URL never exceeds the number of pages fetched.
THEOREM FetchesAccounted == Spec => [](EveryFetchCounted /\ DepthEarned)
<1>1. IInv => EveryFetchCounted /\ DepthEarned
  BY DEF IInv
<1>2. QED
  BY <1>1, EngineInvariant, PTL

-----------------------------------------------------------------------------
(* The engine implements CrawlFrontier. *)

Working == {task[p].url : p \in Busy}

\* CrawlFrontier counts with its own instance of FiniteSets.
LEMMA SameCardinality == ASSUME NEW S PROVE CF!Cardinality(S) = Cardinality(S)
BY DEF CF!Cardinality, Cardinality

\* A free permit means fewer URLs at work than permits.
LEMMA RoomToWork ==
  ASSUME TypeOK, Control, NEW p \in permits
  PROVE  Cardinality(Working) < Cardinality(Permits)
<1>1. Busy \subseteq Permits \ {p} /\ p \in Permits
  BY DEF Control, PermitsHeldByTasks, Busy, TypeOK
<1>2. /\ IsFiniteSet(Permits \ {p})
      /\ Cardinality(Permits \ {p}) = Cardinality(Permits) - 1
      /\ Cardinality(Permits) \in Nat
  BY <1>1, PermitsAssumption, FS_RemoveElement, FS_CardinalityType
<1>3. IsFiniteSet(Busy) /\ Cardinality(Busy) <= Cardinality(Permits) - 1
  BY <1>1, <1>2, FS_Subset
<1> DEFINE f == [q \in Busy |-> task[q].url]
<1>4. f \in Surjection(Busy, Working)
  BY DEF Surjection, Working
<1>5. IsFiniteSet(Working) /\ Cardinality(Working) <= Cardinality(Busy)
  BY <1>3, <1>4, FS_Surjection
<1>6. Cardinality(Busy) \in Nat /\ Cardinality(Working) \in Nat
  BY <1>3, <1>5, FS_CardinalityType
<1>7. QED
  BY <1>2, <1>3, <1>5, <1>6

\* Pushing a URL discovers it, or changes nothing a caller can see.
LEMMA EnqueueDiscovers ==
  ASSUME NEW u, NEW d, NEW pr, Enqueue(u, d, pr), pc' = pc, cur' = cur
  PROVE  /\ visited' = visited
         /\ \/ Frontier' = Frontier
            \/ u \notin visited /\ Frontier' = Frontier \cup {u}
<1>1. PICK t \in Stamps :
        Q!Push([url |-> u, depth |-> d, priority |-> pr, queued_at |-> t])
  BY DEF Enqueue
<1>2. CASE u \in visited \cup queued
  BY <1>1, <1>2 DEF Q!Push, Frontier, Q!UrlsOf
<1>3. CASE u \notin visited \cup queued
  <2>1. visited' = visited /\ Q!UrlsOf(heap') = Q!UrlsOf(heap) \cup {u}
    BY <1>1, <1>3 DEF Q!Push, Q!UrlsOf
  <2>2. QED
    BY <1>3, <2>1 DEF Frontier
<1>4. QED
  BY <1>2, <1>3

\* The abstract budget is spent just when the engine's is exhausted.
LEMMA SpentIsExhausted ==
  ASSUME Budget
  PROVE  CF!Spent <=> IsExhausted
<1>1. used = Cardinality(visited)
  BY DEF Budget, BudgetCountsVisited
<1>2. QED
  BY <1>1, SameCardinality DEF CF!Spent, IsExhausted

\* A step of the main loop is a step of CrawlFrontier, or none.
LEMMA MainRefines ==
  ASSUME IInv, Main
  PROVE  CF!Next \/ UNCHANGED <<Frontier, visited, Working, exit # "no">>
<1> USE DEF taskVars, counters, queueVars
<1>0. TypeOK /\ Control /\ Budget
  BY Layers
<1>1. ASSUME NEW u \in StartUrls, SeedUrl(u)
      PROVE  CF!Next \/ UNCHANGED <<Frontier, visited, Working, exit # "no">>
  <2>1. Enqueue(u, 0, 2) /\ UNCHANGED <<pc, cur, exit, task>> /\ u \in Urls
    BY <1>1, UrlsAssumption DEF SeedUrl
  <2>2. Working' = Working
    BY <2>1 DEF Working, Busy, In
  <2>3. CASE Frontier' = Frontier
    BY <2>1, <2>2, <2>3, EnqueueDiscovers
  <2>4. CASE u \notin visited /\ Frontier' = Frontier \cup {u}
    <3>1. CF!Discover(u)
      BY <2>1, <2>2, <2>4, EnqueueDiscovers DEF CF!Discover, Working
    <3>2. QED
      BY <2>1, <3>1 DEF CF!Next
  <2>5. QED
    BY <2>1, <2>3, <2>4, EnqueueDiscovers
<1>2. CASE StartLoop \/ PopNone \/ ReadStat \/ SaveStats
  <2>1. /\ UNCHANGED <<heap, visited, task, exit>>
        /\ pc \notin {"check", "acquire"} /\ pc' \notin {"check", "acquire"}
    BY <1>2 DEF StartLoop, PopNone, ReadStat, SaveStats
  <2>2. QED
    BY <2>1 DEF Frontier, Q!UrlsOf, Working, Busy, In
<1>3. CASE CheckBudget \/ CheckIdle
  <2>1. /\ UNCHANGED <<heap, visited, task>>
        /\ pc \notin {"check", "acquire"} /\ pc' \notin {"check", "acquire"}
    BY <1>3 DEF CheckBudget, CheckIdle
  <2>2. UNCHANGED <<Frontier, visited, Working>>
    BY <2>1 DEF Frontier, Q!UrlsOf, Working, Busy, In
  <2>3. CASE exit' = exit
    BY <2>2, <2>3
  <2>4. CASE exit' # exit
    <3>1. CF!Spent \/ Working = {}
      <4>1. CASE CheckBudget
        <5>1. IsExhausted
          BY <2>4, <4>1 DEF CheckBudget
        <5>2. QED
          BY <1>0, <5>1, SpentIsExhausted
      <4>2. CASE CheckIdle
        BY <1>0, <2>4, <4>2 DEF AllPermitsFree, CheckIdle, Control, PermitsHeldByTasks, Working, Busy
      <4>3. QED
        BY <1>3, <4>1, <4>2
    <3>2. exit' # "no"
      BY <1>3, <2>4 DEF CheckBudget, CheckIdle
    <3>3. CF!Stop
      BY <2>2, <3>1, <3>2 DEF CF!Stop, Working
    <3>4. QED
      BY <3>3 DEF CF!Next
  <2>5. QED
    BY <2>3, <2>4
<1>4. CASE PopSome
  <2>1. PICK e \in heap : Q!Pop(e) /\ cur' = e
    BY <1>4 DEF PopSome
  <2>2. pc = "pop" /\ pc' = "check" /\ UNCHANGED <<visited, task, exit>> /\ heap' = heap \ {e}
    BY <1>4, <2>1 DEF PopSome, Q!Pop
  <2>3. Frontier' = Frontier
    BY <2>1, <2>2 DEF Frontier, Q!UrlsOf
  <2>4. QED
    BY <2>2, <2>3 DEF Working, Busy, In
<1>5. CASE CheckUrl
  <2>1. pc = "check" /\ UNCHANGED <<heap, visited, task, exit>>
    BY <1>5 DEF CheckUrl
  <2>2. Working' = Working
    BY <2>1 DEF Working, Busy, In
  <2>3. CASE pc' = "acquire" /\ cur' = cur
    BY <2>1, <2>2, <2>3 DEF Frontier, Q!UrlsOf
  <2>4. CASE pc' = "budget"
    <3>1. Frontier = (Q!UrlsOf(heap) \cup {cur.url}) \ visited /\ Frontier' = Q!UrlsOf(heap) \ visited
      BY <2>1, <2>4 DEF Frontier, Q!UrlsOf
    <3>2. CASE Frontier' = Frontier
      BY <2>1, <2>2, <3>2
    <3>3. CASE Frontier' # Frontier
      <4>1. cur.url \in Frontier /\ Frontier' = Frontier \ {cur.url}
        BY <3>1, <3>3
      <4>2. ~ CanFetch(cur.depth)
        BY <1>5, <2>4, <3>1, <4>1 DEF Wanted, CheckUrl
      <4>3. ~ IsExhausted /\ used \in Nat
        BY <1>0, <2>1 DEF Control, TestedBeforeCharged, TypeOK
      <4>4. MaxDepth # None
        BY <4>2, <4>3, LimitsAssumption DEF CanFetch, IsExhausted
      <4>5. exit = "no"
        BY <1>0, <2>1 DEF Control, ExitCoherent
      <4>6. CF!Drop(cur.url)
        BY <2>1, <2>2, <4>1, <4>4, <4>5 DEF CF!Drop, Working
      <4>7. QED
        BY <4>1, <4>6 DEF CF!Next
    <3>4. QED
      BY <3>2, <3>3
  <2>5. QED
    BY <1>5, <2>3, <2>4 DEF CheckUrl
<1>6. ASSUME NEW p \in Permits, Spawn(p)
      PROVE  CF!Next \/ UNCHANGED <<Frontier, visited, Working, exit # "no">>
  <2> DEFINE u == cur.url
  <2>1. /\ pc = "acquire" /\ pc' = "budget" /\ p \in permits /\ exit' = exit
        /\ heap' = heap /\ visited' = visited \cup {u}
    BY <1>6 DEF Spawn, Q!MarkVisited
  <2>2. u \in Urls /\ u \notin visited
    BY <1>0, <2>1 DEF TypeOK, Q!QueuedUrl, Budget, CurFresh
  <2>3. u \in Frontier /\ Frontier' = Frontier \ {u}
    BY <2>1, <2>2 DEF Frontier, Q!UrlsOf
  <2>4. task'[p].url = u /\ task'[p].phase = "fetch" /\ \A q \in Permits \ {p} : task'[q] = task[q]
    BY <1>0, <1>6, BecomesFacts DEF Spawn
  <2>5. In(p, "idle")
    BY <1>0, <2>1 DEF Control, PermitsHeldByTasks
  <2>6. Working' = Working \cup {u}
    BY <2>4, <2>5 DEF Working, Busy, In
  <2>7. exit = "no" /\ ~ CF!Spent
    <3>1. exit = "no" /\ ~ IsExhausted
      BY <1>0, <2>1 DEF Control, ExitCoherent, TestedBeforeCharged
    <3>2. QED
      BY <1>0, <3>1, SpentIsExhausted
  <2>8. CF!Cardinality(Working) < Cardinality(Permits)
    BY <1>0, <2>1, RoomToWork, SameCardinality
  <2>9. PICK c \in Urls : c = u
    BY <2>2
  <2>10. CF!Fetch(c)
    <3> HIDE DEF u
    <3>1. QED
      BY <2>1, <2>2, <2>3, <2>6, <2>7, <2>8, <2>9 DEF CF!Fetch, Working
  <2>11. QED
    BY <2>10 DEF CF!Next
<1>7. QED
  BY <1>1, <1>2, <1>3, <1>4, <1>5, <1>6 DEF Main

\* A step of a task is a step of CrawlFrontier, or none.
LEMMA TaskRefines ==
  ASSUME IInv, NEW p \in Permits, Task(p)
  PROVE  CF!Next \/ UNCHANGED <<Frontier, visited, Working, exit # "no">>
<1>0. TypeOK /\ Work
  BY Layers
<1>1. visited' = visited /\ UNCHANGED mainVars /\ ~ In(p, "idle")
  BY <1>0, TaskFrame
<1>2. CASE Finish(p)
  <2>1. task'[p] = Idle /\ \A q \in Permits \ {p} : task'[q] = task[q]
    BY <1>0, <1>2, BecomesFacts DEF Finish
  <2>2. Frontier' = Frontier
    BY <1>1, <1>2 DEF Finish, queueVars, mainVars, Frontier, Q!UrlsOf
  <2>3. Busy' = Busy \ {p} /\ p \in Busy
    BY <1>1, <2>1 DEF Busy, In, Idle
  <2>4. Working' = Working \ {task[p].url}
    BY <1>0, <2>1, <2>3 DEF Working, Work, TasksDisjoint, Busy
  <2>5. PICK u \in Working : u = task[p].url
    BY <2>3 DEF Working
  <2>6. CF!Finish(u)
    BY <1>1, <2>2, <2>4, <2>5 DEF CF!Finish, Working, mainVars
  <2>7. QED
    BY <2>6 DEF CF!Next, Working
<1>3. CASE Advance(p)
  <2>1. Busy' = Busy /\ p \in Busy
    BY <1>1, <1>3 DEF Advance, Busy, In, TaskState, Phases
  <2>2. Working' = Working
    BY <1>3, <2>1 DEF Advance, Working, Busy
  <2>3. CASE PushFound(p)
    <3>1. PICK n \in task[p].todo : Enqueue(n.url, LinkDepth(task[p].depth), n.priority)
      BY <2>3 DEF PushFound
    <3>2. n.url \in Urls
      BY <1>3, <3>1 DEF Advance, TaskState
    <3>3. CASE Frontier' = Frontier
      BY <1>1, <2>2, <3>3 DEF mainVars
    <3>4. CASE n.url \notin visited /\ Frontier' = Frontier \cup {n.url}
      <4>1. CF!Discover(n.url)
        BY <1>1, <2>1, <2>2, <3>4 DEF CF!Discover, Working, mainVars
      <4>2. QED
        BY <3>2, <4>1 DEF CF!Next
    <3>5. QED
      BY <1>1, <3>1, <3>3, <3>4, EnqueueDiscovers DEF mainVars
  <2>4. CASE ~ PushFound(p)
    <3>1. heap' = heap
      BY <2>4 DEF Task, FetchOk, FetchFails, StorePage, AgentReplies, AgentFails,
         SaveRecord, CountRecords, FollowPage, Finish, queueVars
    <3>2. QED
      BY <1>1, <2>2, <3>1 DEF mainVars, Frontier, Q!UrlsOf
  <2>5. QED
    BY <2>3, <2>4
<1>4. QED
  BY <1>0, <1>2, <1>3, TaskAdvances

\* Queue, permits, tasks and budget together do what CrawlFrontier says: no
\* discovered URL is lost before the crawl stops, except by the depth limit,
\* none is fetched twice, and the crawl stops only when its budget is spent
\* or nothing is being worked on.
THEOREM EngineImplementsFrontier == Spec => ImplementsFrontier
<1>1. Init => CF!Init
  BY DEF Init, Q!Init, CF!Init, Frontier, Q!UrlsOf, Busy, In, Idle
<1>2. IInv /\ [Next]_vars => [CF!Next]_<<Frontier, visited, Working, exit # "no">>
  <2>1. IInv /\ UNCHANGED vars => UNCHANGED <<Frontier, visited, Working, exit # "no">>
    BY DEF vars, queueVars, mainVars, taskVars, Frontier, Q!UrlsOf, Working, Busy, In
  <2>2. QED
    BY <2>1, MainRefines, TaskRefines DEF Next, Terminated
<1>3. QED
  BY <1>1, <1>2, EngineInvariant, PTL
     DEF Spec, ImplementsFrontier, CF!Spec, CF!fvars, Working

=============================================================================
