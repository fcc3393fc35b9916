------------------------ MODULE SqliteStorageProofs ------------------------
(***************************************************************************)
(* Proofs about SqliteStorage, for any jobs, URLs, memories, statistics    *)
(* and any number of rows: what the counters and the tables have to do     *)
(* with each other after failures and ends of the process, and that an     *)
(* export that succeeds is whole.                                          *)
(*                                                                         *)
(* The argument has four layers: the types; that whoever holds the mutex   *)
(* between two statements has a job, on which the foreign keys rest; the   *)
(* two accounts, of the counters and of the acknowledged records; and an   *)
(* account of the export, which rests on the last.                         *)
(***************************************************************************)
EXTENDS SqliteStorage, FiniteSetTheorems, TLAPS

\* An export under way, or over.
Exports == [pc: {"reading", "ok", "err"}, job: Jobs, format: Formats, rows: Nat,
            read: Nat, out: Nat, acked: Nat]

\* An export is none, or has the fields of one.
LEMMA ExportType == TypeOK => export = NoExport \/ export \in Exports
BY DEF TypeOK, Exports

\* Only a real export is being read.
LEMMA ReadingType == TypeOK /\ export.pc = "reading" => export \in Exports
BY ExportType DEF NoExport

\* The free mutex is no counter to be raised.
LEMMA FreeIsNoCounter == Free \notin Counters \X Jobs
BY DEF Free

\* What is given up is added to the account of cut calls.
LEMMA AbandonType ==
  ASSUME TypeOK, Abandon
  PROVE  /\ held' = Free
         /\ uncounted' \in [Counters \X Jobs -> Nat]
         /\ \A c \in Counters, j \in Jobs :
              uncounted'[<<c, j>>] = uncounted[<<c, j>>] + Owed(c, j)
<1>1. held' = Free
  BY DEF Abandon
<1>2. CASE held = Free
  <2>1. uncounted' = uncounted
    BY <1>2 DEF Abandon
  <2>2. \A c \in Counters, j \in Jobs : Owed(c, j) = 0
    BY <1>2 DEF Owed, Free
  <2>3. \A c \in Counters, j \in Jobs : uncounted[<<c, j>>] \in Nat
    BY DEF TypeOK
  <2> QED
    BY <1>1, <2>1, <2>2, <2>3 DEF TypeOK
<1>3. CASE held # Free
  <2>1. uncounted' = [uncounted EXCEPT ![held] = @ + 1]
    BY <1>3 DEF Abandon
  <2>2. held \in Counters \X Jobs
    BY <1>3 DEF TypeOK
  <2>3. uncounted' \in [Counters \X Jobs -> Nat]
    BY <2>1, <2>2 DEF TypeOK
  <2>4. ASSUME NEW c \in Counters, NEW j \in Jobs
        PROVE  uncounted'[<<c, j>>] = uncounted[<<c, j>>] + Owed(c, j)
    <3>1. uncounted[<<c, j>>] \in Nat
      BY DEF TypeOK
    <3>2. CASE held = <<c, j>>
      BY <2>1, <3>1, <3>2 DEF TypeOK, Owed
    <3>3. CASE held # <<c, j>>
      BY <2>1, <2>2, <3>1, <3>3 DEF TypeOK, Owed
    <3> QED
      BY <3>2, <3>3
  <2> QED
    BY <1>1, <2>3, <2>4
<1> QED
  BY <1>2, <1>3

----------------------------------------------------------------------------
(***************************************************************************)
(* Types.                                                                  *)
(***************************************************************************)
LEMMA TypeInit == Init => TypeOK
BY DEF Init, TypeOK, NoExport, Free

\* Every operation keeps the types.
LEMMA TypeStep ==
  ASSUME StorageAssumption, TypeOK, [Next]_vars
  PROVE  TypeOK'
<1>1. CASE UNCHANGED vars
  BY <1>1 DEF vars, row, history, TypeOK
<1>2. ASSUME NEW j \in Jobs, NEW s \in Statuses,
             CreateJob(j, s) \/ UpdateJobStatus(j, s)
      PROVE  TypeOK'
  <2>1. status' \in [Jobs -> Statuses \cup {"none"}]
    BY <1>2 DEF CreateJob, UpdateJobStatus, TypeOK
  <2> QED
    BY <1>2, <2>1 DEF CreateJob, UpdateJobStatus, TypeOK, history
<1>3. ASSUME NEW j \in Jobs, NEW d \in Domains, NEW m \in Memories,
             SaveMemory(j, d, m)
      PROVE  TypeOK'
  BY <1>3 DEF SaveMemory, TypeOK, row, history
<1>4. ASSUME NEW j \in Jobs, InsertRecord(j)
      PROVE  TypeOK'
  <2>1. /\ records' \in [Jobs -> Nat]
        /\ held' \in Counters \X Jobs
    BY <1>4 DEF InsertRecord, TypeOK, Counters
  <2> QED
    BY <1>4, <2>1 DEF InsertRecord, TypeOK, row, history
<1>5. ASSUME NEW j \in Jobs, CountRecord(j)
      PROVE  TypeOK'
  <2>1. found' \in [Jobs -> Nat] /\ saved' \in [Jobs -> Nat]
    BY <1>5 DEF CountRecord, TypeOK
  <2> QED
    BY <1>5, <2>1 DEF CountRecord, TypeOK
<1>6. ASSUME NEW j \in Jobs, CountVisit(j)
      PROVE  TypeOK'
  <2>1. pages' \in [Jobs -> Nat]
    BY <1>6 DEF CountVisit, TypeOK
  <2> QED
    BY <1>6, <2>1 DEF CountVisit, TypeOK, history
<1>7. ASSUME NEW j \in Jobs, NEW u \in Urls, InsertVisit(j, u)
      PROVE  TypeOK'
  <2>1. /\ repeats' \in [Jobs -> Nat]
        /\ visited' \in SUBSET (Jobs \X Urls)
        /\ held' \in Counters \X Jobs
    BY <1>7 DEF InsertVisit, TypeOK, Counters
  <2> QED
    BY <1>7, <2>1 DEF InsertVisit, TypeOK, row
<1>8. CASE CountFails
  BY <1>8, AbandonType DEF CountFails, TypeOK, row
<1>9. ASSUME NEW j \in Jobs, NEW s \in Stats, SaveStats(j, s)
      PROVE  TypeOK'
  <2>1. s.pages \in Nat /\ s.records \in Nat /\ s.errors \in Nat
    BY StorageAssumption DEF StorageAssumption
  <2>2. /\ pages' \in [Jobs -> Nat]
        /\ found' \in [Jobs -> Nat]
        /\ errors' \in [Jobs -> Nat]
    BY <1>9, <2>1 DEF SaveStats, TypeOK
  <2>3. restated' \in SUBSET Jobs
    BY <1>9 DEF SaveStats, TypeOK
  <2> QED
    BY <1>9, <2>2, <2>3 DEF SaveStats, TypeOK
<1>10. CASE Reopen
  BY <1>10, AbandonType DEF Reopen, TypeOK, row
<1>11. ASSUME UNCHANGED database, export' \in Exports
       PROVE  TypeOK'
  BY <1>11 DEF database, row, history, TypeOK, Exports
<1>12. ASSUME NEW j \in Jobs, NEW f \in Formats, ExportStart(j, f)
       PROVE  TypeOK'
  <2>1. export' \in Exports
    BY <1>12 DEF ExportStart, Exports, TypeOK
  <2> QED
    BY <1>11, <1>12, <2>1 DEF ExportStart
<1>13. CASE ExportRow
  <2> DEFINE out == IF export.format = "json" THEN export.out ELSE export.out + 1
  <2>1. export' \in Exports
    <3>1. export \in Exports
      BY <1>13, ReadingType DEF ExportRow
    <3>2. out \in Nat /\ export.read + 1 \in Nat
      BY <3>1 DEF Exports
    <3>3. export' = [export EXCEPT !.read = export.read + 1, !.out = out]
      BY <1>13 DEF ExportRow
    <3> HIDE DEF out
    <3> QED
      BY <3>1, <3>2, <3>3 DEF Exports
  <2> QED
    BY <1>11, <1>13, <2>1 DEF ExportRow
<1>14. CASE ExportEnds
  <2>1. export' \in Exports
    BY <1>14, ReadingType DEF ExportEnds, Exports
  <2> QED
    BY <1>11, <1>14, <2>1 DEF ExportEnds
<1>15. CASE ExportFails
  <2>1. export \in Exports
    BY <1>15, ReadingType DEF ExportFails
  <2>2. PICK n \in 0..export.read :
          export' = [export EXCEPT !.pc = "err", !.out = n]
    BY <1>15 DEF ExportFails
  <2>3. n \in Nat
    BY <2>1, <2>2 DEF Exports
  <2>4. export' \in Exports
    BY <2>1, <2>2, <2>3 DEF Exports
  <2> QED
    BY <1>11, <1>15, <2>4 DEF ExportFails
<1> QED
  BY <1>1, <1>2, <1>3, <1>4, <1>5, <1>6, <1>7, <1>8, <1>9, <1>10, <1>12, <1>13,
     <1>14, <1>15 DEF Next

\* Every reachable state has its types.
THEOREM StorageTypes == Spec => []TypeOK
<1>1. TypeOK /\ [Next]_vars => TypeOK'
  BY TypeStep, StorageAssumption
<1> QED
  BY TypeInit, <1>1, PTL DEF Spec

----------------------------------------------------------------------------
(***************************************************************************)
(* Foreign keys.  The second statement of a call checks nothing, so that   *)
(* whoever is about to make it has a job is part of the invariant.         *)
(***************************************************************************)
HolderHasAJob == held # Free => HasJob(held[2])

KeysInv == TypeOK /\ RowsHaveAJob /\ HolderHasAJob

\* An empty database refers to nothing.
LEMMA KeysInit == Init => KeysInv
BY TypeInit DEF Init, KeysInv, RowsHaveAJob, HolderHasAJob, HasJob, IsVisited,
   LoadMemory

\* No operation takes a job away.
LEMMA JobsStay ==
  ASSUME TypeOK, [Next]_vars, NEW j \in Jobs, HasJob(j)
  PROVE  HasJob(j)'
<1>1. "none" \notin Statuses
  BY StorageAssumption DEF StorageAssumption
<1>2. ASSUME NEW k \in Jobs, NEW s \in Statuses,
             CreateJob(k, s) \/ UpdateJobStatus(k, s)
      PROVE  HasJob(j)'
  BY <1>1, <1>2 DEF CreateJob, UpdateJobStatus, HasJob, TypeOK
<1>3. ASSUME status' = status
      PROVE  HasJob(j)'
  BY <1>3 DEF HasJob
<1> QED
  BY <1>2, <1>3 DEF Next, vars, row, database, SaveMemory, InsertRecord,
     CountRecord, CountVisit, InsertVisit, CountFails, SaveStats, Reopen,
     ExportStart, ExportRow, ExportEnds, ExportFails

\* Every operation keeps the foreign keys.
LEMMA KeysStep ==
  ASSUME KeysInv, [Next]_vars
  PROVE  KeysInv'
<1> USE DEF KeysInv
<1>1. TypeOK'
  BY TypeStep, StorageAssumption
<1>2. \A j \in Jobs : HasJob(j) => HasJob(j)'
  BY JobsStay
<1>3. ASSUME held' \in {held, Free}
      PROVE  HolderHasAJob'
  <2>1. held # Free => held \in Counters \X Jobs
    BY DEF TypeOK
  <2> QED
    BY <1>2, <1>3, <2>1 DEF HolderHasAJob
<1>4. ASSUME UNCHANGED <<pages, found, visited, records, memory>>
      PROVE  RowsHaveAJob'
  BY <1>2, <1>4 DEF RowsHaveAJob, IsVisited, LoadMemory
<1>5. ASSUME NEW j \in Jobs, HasJob(j), NEW c \in Counters, held' = <<c, j>>
      PROVE  HolderHasAJob'
  BY <1>2, <1>5 DEF HolderHasAJob
<1>6. ASSUME NEW j \in Jobs, NEW d \in Domains, NEW m \in Memories,
             SaveMemory(j, d, m)
      PROVE  RowsHaveAJob' /\ HolderHasAJob'
  <2>1. HolderHasAJob'
    BY <1>3, <1>6 DEF SaveMemory
  <2>2. RowsHaveAJob'
    <3>1. ASSUME NEW k \in Jobs, k # j, NEW e \in Domains
          PROVE  memory'[<<k, e>>] = memory[<<k, e>>]
      BY <1>6, <3>1 DEF SaveMemory, TypeOK
    <3>2. HasJob(j)
      BY <1>6 DEF SaveMemory
    <3> QED
      BY <1>2, <1>6, <3>1, <3>2
         DEF SaveMemory, row, RowsHaveAJob, IsVisited, LoadMemory
  <2> QED
    BY <2>1, <2>2
<1>7. ASSUME NEW j \in Jobs, InsertRecord(j)
      PROVE  RowsHaveAJob' /\ HolderHasAJob'
  <2>1. HolderHasAJob'
    BY <1>5, <1>7 DEF InsertRecord, Counters
  <2>2. RowsHaveAJob'
    BY <1>2, <1>7
       DEF InsertRecord, TypeOK, row, RowsHaveAJob, IsVisited, LoadMemory
  <2> QED
    BY <2>1, <2>2
<1>8. ASSUME NEW j \in Jobs, NEW u \in Urls, InsertVisit(j, u)
      PROVE  RowsHaveAJob' /\ HolderHasAJob'
  <2>1. HolderHasAJob'
    BY <1>5, <1>8 DEF InsertVisit, Counters
  <2>2. \A k \in Jobs, v \in Urls : k # j => (IsVisited(k, v)' <=> IsVisited(k, v))
    BY <1>8 DEF InsertVisit, IsVisited
  <2>3. HasJob(j)
    BY <1>8 DEF InsertVisit
  <2>4. RowsHaveAJob'
    BY <1>2, <1>8, <2>2, <2>3
       DEF InsertVisit, row, RowsHaveAJob, LoadMemory
  <2> QED
    BY <2>1, <2>4
<1>9. ASSUME NEW j \in Jobs, CountRecord(j) \/ CountVisit(j)
      PROVE  RowsHaveAJob' /\ HolderHasAJob'
  <2>1. HolderHasAJob'
    BY <1>3, <1>9 DEF CountRecord, CountVisit
  <2>2. HasJob(j)
    BY <1>9 DEF CountRecord, CountVisit, HolderHasAJob, Free
  <2>3. RowsHaveAJob'
    BY <1>2, <1>9, <2>2
       DEF CountRecord, CountVisit, TypeOK, RowsHaveAJob, IsVisited, LoadMemory
  <2> QED
    BY <2>1, <2>3
<1>10. ASSUME NEW j \in Jobs, NEW s \in Stats, SaveStats(j, s)
       PROVE  RowsHaveAJob' /\ HolderHasAJob'
  <2>1. HolderHasAJob'
    BY <1>3, <1>10 DEF SaveStats
  <2>2. RowsHaveAJob'
    BY <1>2, <1>10
       DEF SaveStats, TypeOK, RowsHaveAJob, IsVisited, LoadMemory
  <2> QED
    BY <2>1, <2>2
<1>11. ASSUME \/ \E j \in Jobs, s \in Statuses : CreateJob(j, s) \/ UpdateJobStatus(j, s)
              \/ CountFails \/ Reopen
              \/ UNCHANGED database
       PROVE  RowsHaveAJob' /\ HolderHasAJob'
  BY <1>3, <1>4, <1>11 DEF CreateJob, UpdateJobStatus, CountFails, Reopen,
     Abandon, database, row
<1>12. UNCHANGED vars => UNCHANGED database
  BY DEF vars, database
<1>13. \/ \E j \in Jobs, f \in Formats : ExportStart(j, f)
       \/ ExportRow \/ ExportEnds \/ ExportFails
       => UNCHANGED database
  BY DEF ExportStart, ExportRow, ExportEnds, ExportFails
<1> QED
  BY <1>1, <1>6, <1>7, <1>8, <1>9, <1>10, <1>11, <1>12, <1>13 DEF Next

\* Whatever fails and whenever the process ends, no row and no counter refers
\* to a job that is not there.
THEOREM ForeignKeysHold == Spec => []WellFormed
<1>1. KeysInv /\ [Next]_vars => KeysInv'
  BY KeysStep
<1>2. KeysInv => WellFormed
  BY DEF KeysInv, WellFormed
<1> QED
  BY KeysInit, <1>1, <1>2, PTL DEF Spec

----------------------------------------------------------------------------
(***************************************************************************)
(* The accounts.  Each insert owes its counter, and a debt is either paid  *)
(* or recorded as cut.  A visit is a row of visited_urls, or a repeat.     *)
(***************************************************************************)
CountsAreExact ==
  \A j \in Jobs \ restated :
    /\ found[j] + uncounted[<<"found", j>>] + Owed("found", j) = records[j]
    /\ pages[j] + uncounted[<<"pages", j>>] + Owed("pages", j) = Visits(j) + repeats[j]

Accounts == TypeOK /\ IsFiniteSet(visited) /\ CountsAreExact /\ AckedRecordsStay

\* A job has a number of rows.
LEMMA VisitsType ==
  ASSUME IsFiniteSet(visited), NEW j \in Jobs
  PROVE  IsFiniteSet(VisitsOf(j)) /\ Visits(j) \in Nat
<1>1. VisitsOf(j) \in SUBSET visited
  BY DEF VisitsOf
<1>2. IsFiniteSet(VisitsOf(j))
  BY <1>1, FS_Subset
<1> QED
  BY <1>2, FS_CardinalityType DEF Visits

\* A visit marked is one row or one repeat more for its job, and nothing for
\* the others.
LEMMA VisitIsOneMore ==
  ASSUME TypeOK, IsFiniteSet(visited), NEW j \in Jobs, NEW u \in Urls, InsertVisit(j, u)
  PROVE  /\ IsFiniteSet(visited')
         /\ Visits(j)' + repeats'[j] = Visits(j) + repeats[j] + 1
         /\ \A k \in Jobs \ {j} : Visits(k)' = Visits(k) /\ repeats'[k] = repeats[k]
<1> DEFINE v == <<j, u>>
<1>1. /\ visited' = visited \cup {v} /\ v[1] = j
      /\ repeats' = [repeats EXCEPT ![j] = IF v \in visited THEN @ + 1 ELSE @]
      /\ repeats \in [Jobs -> Nat]
  BY DEF InsertVisit, TypeOK
<1> HIDE DEF v
<1>2. IsFiniteSet(visited')
  BY <1>1, FS_AddElement
<1>3. VisitsOf(j)' = VisitsOf(j) \cup {v} /\ (v \in VisitsOf(j) <=> v \in visited)
  BY <1>1 DEF VisitsOf
<1>4. /\ Visits(j)' = IF v \in visited THEN Visits(j) ELSE Visits(j) + 1
      /\ Visits(j) \in Nat
  BY <1>3, VisitsType, FS_AddElement DEF Visits
<1>5. ASSUME NEW k \in Jobs \ {j}
      PROVE  Visits(k)' = Visits(k) /\ repeats'[k] = repeats[k]
  <2>1. VisitsOf(k)' = VisitsOf(k)
    BY <1>1, <1>5 DEF VisitsOf
  <2> QED
    BY <1>1, <2>1 DEF Visits
<1>6. Visits(j)' + repeats'[j] = Visits(j) + repeats[j] + 1
  BY <1>1, <1>4
<1> QED
  BY <1>2, <1>5, <1>6

\* An empty database owes nothing.
LEMMA AccountsInit == Init => Accounts
<1> SUFFICES ASSUME Init PROVE Accounts
  OBVIOUS
<1>1. IsFiniteSet(visited) /\ \A j \in Jobs : Visits(j) = 0
  BY FS_EmptySet DEF Init, Visits, VisitsOf
<1> QED
  BY <1>1, TypeInit DEF Init, Accounts, CountsAreExact, AckedRecordsStay, Owed, Free,
     Counters

\* Every operation keeps both accounts.
LEMMA AccountsStep ==
  ASSUME Accounts, [Next]_vars
  PROVE  Accounts'
<1> USE DEF Accounts
<1>1. TypeOK'
  BY TypeStep, StorageAssumption
<1>2. /\ "found" \in Counters /\ "pages" \in Counters
      /\ \A j \in Jobs : /\ found[j] \in Nat /\ pages[j] \in Nat
                         /\ records[j] \in Nat /\ repeats[j] \in Nat
                         /\ saved[j] \in Nat /\ Visits(j) \in Nat
      /\ \A c \in Counters, j \in Jobs : uncounted[<<c, j>>] \in Nat
  BY VisitsType DEF TypeOK, Counters
<1>v. ASSUME UNCHANGED visited
      PROVE  IsFiniteSet(visited') /\ \A j \in Jobs : Visits(j)' = Visits(j)
  BY <1>v DEF Visits, VisitsOf
<1>3. held = Free => \A c \in Counters, j \in Jobs : Owed(c, j) = 0
  BY DEF Owed, Free
<1>4. ASSUME UNCHANGED <<pages, found, records, held, saved, repeats, uncounted,
                         restated>>, UNCHANGED visited
      PROVE  IsFiniteSet(visited') /\ CountsAreExact' /\ AckedRecordsStay'
  BY <1>4, <1>v DEF CountsAreExact, AckedRecordsStay, Owed
<1>5. ASSUME NEW j \in Jobs, InsertRecord(j)
      PROVE  IsFiniteSet(visited') /\ CountsAreExact' /\ AckedRecordsStay'
  <2>1. \A k \in Jobs : /\ Owed("found", k)' = IF k = j THEN 1 ELSE 0
                        /\ Owed("pages", k)' = 0
                        /\ records'[k] = IF k = j THEN records[k] + 1 ELSE records[k]
    BY <1>5 DEF InsertRecord, Owed, TypeOK
  <2>2. held = Free /\ UNCHANGED visited
    BY <1>5 DEF InsertRecord
  <2> QED
    BY <1>2, <1>v, <1>3, <1>5, <2>1, <2>2
       DEF InsertRecord, row, history, CountsAreExact, AckedRecordsStay
<1>6. ASSUME NEW j \in Jobs, NEW u \in Urls, InsertVisit(j, u)
      PROVE  IsFiniteSet(visited') /\ CountsAreExact' /\ AckedRecordsStay'
  <2>1. \A k \in Jobs : /\ Owed("pages", k)' = IF k = j THEN 1 ELSE 0
                        /\ Owed("found", k)' = 0
    BY <1>6 DEF InsertVisit, Owed
  <2>2. held = Free
    BY <1>6 DEF InsertVisit
  <2>3. /\ IsFiniteSet(visited')
        /\ \A k \in Jobs : Visits(k)' + repeats'[k] =
                            IF k = j THEN Visits(k) + repeats[k] + 1
                                     ELSE Visits(k) + repeats[k]
    BY <1>6, VisitIsOneMore
  <2> QED
    BY <1>2, <1>3, <1>6, <2>1, <2>2, <2>3
       DEF InsertVisit, row, CountsAreExact, AckedRecordsStay
<1>7. ASSUME NEW j \in Jobs, CountRecord(j)
      PROVE  IsFiniteSet(visited') /\ CountsAreExact' /\ AckedRecordsStay'
  <2>1. \A k \in Jobs : /\ Owed("found", k) = IF k = j THEN 1 ELSE 0
                        /\ Owed("pages", k) = 0
                        /\ Owed("found", k)' = 0
                        /\ Owed("pages", k)' = 0
    BY <1>7 DEF CountRecord, Owed, Free
  <2>2. \A k \in Jobs : /\ found'[k] = IF k = j THEN found[k] + 1 ELSE found[k]
                        /\ saved'[k] = IF k = j THEN saved[k] + 1 ELSE saved[k]
    BY <1>7 DEF CountRecord, TypeOK
  <2>3. UNCHANGED visited
    BY <1>7 DEF CountRecord
  <2> QED
    BY <1>2, <1>v, <1>7, <2>1, <2>2, <2>3
       DEF CountRecord, CountsAreExact, AckedRecordsStay
<1>8. ASSUME NEW j \in Jobs, CountVisit(j)
      PROVE  IsFiniteSet(visited') /\ CountsAreExact' /\ AckedRecordsStay'
  <2>1. \A k \in Jobs : /\ Owed("pages", k) = IF k = j THEN 1 ELSE 0
                        /\ Owed("found", k) = 0
                        /\ Owed("found", k)' = 0
                        /\ Owed("pages", k)' = 0
    BY <1>8 DEF CountVisit, Owed, Free
  <2>2. \A k \in Jobs : pages'[k] = IF k = j THEN pages[k] + 1 ELSE pages[k]
    BY <1>8 DEF CountVisit, TypeOK
  <2>3. UNCHANGED visited
    BY <1>8 DEF CountVisit
  <2> QED
    BY <1>2, <1>v, <1>8, <2>1, <2>2, <2>3
       DEF CountVisit, history, CountsAreExact, AckedRecordsStay
<1>9. ASSUME CountFails \/ Reopen
      PROVE  IsFiniteSet(visited') /\ CountsAreExact' /\ AckedRecordsStay'
  <2>1. Abandon
    BY <1>9 DEF CountFails, Reopen
  <2>2. \A c \in Counters, j \in Jobs :
          /\ uncounted'[<<c, j>>] = uncounted[<<c, j>>] + Owed(c, j)
          /\ Owed(c, j)' = 0
    <3>1. held' = Free
      BY <2>1 DEF Abandon
    <3>2. \A c \in Counters, j \in Jobs : Owed(c, j)' = 0
      BY <3>1 DEF Owed, Free
    <3> QED
      BY <2>1, <3>2, AbandonType
  <2>3. \A c \in Counters, j \in Jobs : Owed(c, j) \in Nat
    BY DEF Owed
  <2>4. UNCHANGED visited
    BY <1>9 DEF CountFails, Reopen
  <2> QED
    BY <1>2, <1>v, <1>9, <2>2, <2>3, <2>4
       DEF CountFails, Reopen, row, CountsAreExact, AckedRecordsStay
<1>10. ASSUME NEW j \in Jobs, NEW s \in Stats, SaveStats(j, s)
       PROVE  IsFiniteSet(visited') /\ CountsAreExact' /\ AckedRecordsStay'
  <2>1. \A k \in Jobs \ restated' :
          k \notin restated /\ found'[k] = found[k] /\ pages'[k] = pages[k]
    BY <1>10 DEF SaveStats, TypeOK
  <2>2. UNCHANGED visited
    BY <1>10 DEF SaveStats
  <2> QED
    BY <1>10, <1>v, <2>1, <2>2 DEF SaveStats, CountsAreExact, AckedRecordsStay, Owed
<1>11. ASSUME \/ \E j \in Jobs, s \in Statuses : CreateJob(j, s) \/ UpdateJobStatus(j, s)
              \/ \E j \in Jobs, d \in Domains, m \in Memories : SaveMemory(j, d, m)
              \/ UNCHANGED database
       PROVE  IsFiniteSet(visited') /\ CountsAreExact' /\ AckedRecordsStay'
  BY <1>4, <1>11 DEF CreateJob, UpdateJobStatus, SaveMemory, database, row,
     history
<1>12. UNCHANGED vars => UNCHANGED database
  BY DEF vars, database
<1>13. \/ \E j \in Jobs, f \in Formats : ExportStart(j, f)
       \/ ExportRow \/ ExportEnds \/ ExportFails
       => UNCHANGED database
  BY DEF ExportStart, ExportRow, ExportEnds, ExportFails
<1> QED
  BY <1>1, <1>5, <1>6, <1>7, <1>8, <1>9, <1>10, <1>11, <1>12, <1>13 DEF Next

\* Counters, acknowledged records and tables agree up to what was cut.
THEOREM AccountsHold == Spec => []Accounts
<1>1. Accounts /\ [Next]_vars => Accounts'
  BY AccountsStep
<1> QED
  BY AccountsInit, <1>1, PTL DEF Spec

\* Until save_stats overwrites them, the counters of a job follow its tables:
\* records_found lacks exactly the rows whose save was cut between its two
\* statements, pages_fetched at most those whose mark was, and pages_fetched
\* is above the rows of visited_urls at most by the repeated visits.
THEOREM CountersFollow == Spec => []CountersFollowTables
<1>1. Accounts => CountersFollowTables
  <2> SUFFICES ASSUME Accounts, NEW j \in Jobs \ restated
               PROVE  /\ found[j] + uncounted[<<"found", j>>] + Owed("found", j) = records[j]
                      /\ Visits(j) <= pages[j] + uncounted[<<"pages", j>>] + Owed("pages", j)
                      /\ pages[j] <= Visits(j) + repeats[j]
    BY DEF CountersFollowTables
  <2>1. /\ Visits(j) \in Nat /\ repeats[j] \in Nat /\ pages[j] \in Nat
        /\ uncounted[<<"pages", j>>] \in Nat /\ Owed("pages", j) \in Nat
    BY VisitsType DEF Accounts, TypeOK, Counters, Owed
  <2> QED
    BY <2>1 DEF Accounts, CountsAreExact
<1> QED
  BY <1>1, AccountsHold, PTL

\* A record whose save was answered Ok is never lost again.
THEOREM AckedRecordsAreKept == Spec => []AckedRecordsStay
<1>1. Accounts => AckedRecordsStay
  BY DEF Accounts
<1> QED
  BY <1>1, AccountsHold, PTL

----------------------------------------------------------------------------
(***************************************************************************)
(* Exports.  What one has read is part of what its query saw, what it saw  *)
(* is part of what is there now, and no record acknowledged before it      *)
(* began is missing from either.                                           *)
(***************************************************************************)
ExportAccount ==
  export.pc # "idle" =>
    /\ export.read <= export.rows
    /\ export.acked <= export.rows
    /\ export.rows <= records[export.job]
    /\ export.pc = "ok" => export.out = export.rows

\* A record that was acknowledged is there.
LEMMA AckedAreThere == Accounts => \A j \in Jobs : saved[j] <= records[j]
<1> SUFFICES ASSUME Accounts, NEW j \in Jobs
             PROVE  saved[j] <= records[j]
  OBVIOUS
<1>1. /\ saved[j] \in Nat /\ records[j] \in Nat
      /\ uncounted[<<"found", j>>] \in Nat /\ Owed("found", j) \in Nat
  BY DEF Accounts, TypeOK, Counters, Owed
<1> QED
  BY <1>1 DEF Accounts, AckedRecordsStay

\* No operation takes a record away.
LEMMA RecordsStay ==
  ASSUME TypeOK, [Next]_vars, NEW j \in Jobs
  PROVE  records[j] <= records'[j]
<1>1. records[j] \in Nat
  BY DEF TypeOK
<1>2. ASSUME NEW k \in Jobs, InsertRecord(k)
      PROVE  records[j] <= records'[j]
  BY <1>1, <1>2 DEF InsertRecord, TypeOK
<1>3. ASSUME records' = records
      PROVE  records[j] <= records'[j]
  BY <1>1, <1>3
<1> QED
  BY <1>2, <1>3 DEF Next, vars, database, CreateJob, UpdateJobStatus,
     SaveMemory, CountRecord, CountVisit, InsertVisit, CountFails, SaveStats,
     Reopen, ExportStart, ExportRow, ExportEnds, ExportFails

\* Every operation, of the export and beside it, keeps its account.
LEMMA ExportStep ==
  ASSUME Accounts, ExportAccount, [Next]_vars
  PROVE  ExportAccount'
<1>1. TypeOK
  BY DEF Accounts
<1>2. \A j \in Jobs : records[j] \in Nat /\ records'[j] \in Nat /\ records[j] <= records'[j]
  <2>1. TypeOK'
    BY <1>1, TypeStep, StorageAssumption
  <2> QED
    BY <1>1, <2>1, RecordsStay DEF TypeOK
<1>3. ASSUME export' = export
      PROVE  ExportAccount'
  <2>1. CASE export = NoExport
    BY <1>3, <2>1 DEF ExportAccount, NoExport
  <2>2. CASE export \in Exports
    BY <1>2, <1>3, <2>2 DEF ExportAccount, Exports
  <2> QED
    BY <1>1, <2>1, <2>2, ExportType
<1>4. ASSUME NEW j \in Jobs, NEW f \in Formats, ExportStart(j, f)
      PROVE  ExportAccount'
  <2>1. /\ export'.read = 0 /\ export'.rows = records[j] /\ export'.job = j
        /\ export'.acked = saved[j] /\ export'.pc = "reading"
        /\ records' = records
    BY <1>4 DEF ExportStart, database
  <2>2. saved[j] <= records[j] /\ records[j] \in Nat
    BY <1>2, AckedAreThere
  <2> QED
    BY <2>1, <2>2 DEF ExportAccount
<1>5. CASE ExportRow
  <2>1. export \in Exports /\ export.pc = "reading" /\ export.read < export.rows
    BY <1>1, <1>5, ReadingType DEF ExportRow
  <2>2. /\ export'.pc = "reading" /\ export'.read = export.read + 1
        /\ export'.rows = export.rows /\ export'.job = export.job
        /\ export'.acked = export.acked /\ records' = records
    BY <1>5, <2>1 DEF ExportRow, Exports, database
  <2> QED
    BY <2>1, <2>2 DEF ExportAccount, Exports
<1>6. CASE ExportEnds
  <2>1. export \in Exports /\ export.pc = "reading" /\ export.read = export.rows
    BY <1>1, <1>6, ReadingType DEF ExportEnds
  <2>2. /\ export'.pc = "ok" /\ export'.read = export.read
        /\ export'.rows = export.rows /\ export'.job = export.job
        /\ export'.acked = export.acked /\ export'.out = export.read
        /\ records' = records
    BY <1>6, <2>1 DEF ExportEnds, Exports, database
  <2> QED
    BY <2>1, <2>2 DEF ExportAccount, Exports
<1>7. CASE ExportFails
  <2>1. export \in Exports /\ export.pc = "reading"
    BY <1>1, <1>7, ReadingType DEF ExportFails
  <2>2. PICK n \in 0..export.read :
          export' = [export EXCEPT !.pc = "err", !.out = n]
    BY <1>7 DEF ExportFails
  <2>3. /\ export'.pc = "err" /\ export'.read = export.read
        /\ export'.rows = export.rows /\ export'.job = export.job
        /\ export'.acked = export.acked
    BY <2>1, <2>2 DEF Exports
  <2>4. records' = records
    BY <1>7 DEF ExportFails, database
  <2> QED
    BY <2>1, <2>3, <2>4 DEF ExportAccount, Exports
<1>8. CASE Reopen
  BY <1>8 DEF Reopen, NoExport, ExportAccount
<1> QED
  BY <1>3, <1>4, <1>5, <1>6, <1>7, <1>8 DEF Next, vars, history, CreateJob,
     UpdateJobStatus, SaveMemory, InsertRecord, InsertVisit, CountRecord,
     CountVisit, CountFails, SaveStats

\* An export that returns Ok has written every row its query saw, and with
\* them every record acknowledged before it began, whatever is written to the
\* database meanwhile.
THEOREM ExportsAreWhole == Spec => []ExportIsWhole
<1>1. Init => ExportAccount
  BY DEF Init, NoExport, ExportAccount
<1>2. Accounts /\ ExportAccount /\ [Next]_vars => ExportAccount'
  BY ExportStep
<1>3. Accounts /\ ExportAccount => ExportIsWhole
  <2> SUFFICES ASSUME Accounts, ExportAccount, export.pc = "ok"
               PROVE  ExportIsWhole
    BY DEF ExportIsWhole
  <2>1. export \in Exports
    BY ExportType DEF Accounts, NoExport
  <2> QED
    BY <2>1 DEF ExportIsWhole, ExportAccount, Exports
<1> QED
  BY <1>1, <1>2, <1>3, AccountsHold, PTL DEF Spec
=============================================================================
