--------------------------- MODULE SqliteStorage ---------------------------
(***************************************************************************)
(* SqliteStorage, src/src/storage/db.rs, and the exports of                *)
(* src/src/storage/export.rs, which read the same database through a       *)
(* connection of their own.                                                *)
(*                                                                         *)
(* The connection is behind one mutex, and a method holds it for all its   *)
(* statements.  save_record and mark_visited make two, an insert and the   *)
(* counter that goes with it, outside any transaction: `held` is the       *)
(* counter still to be raised.  A statement may fail, and the process may  *)
(* end between the two; what is committed then stays (WAL).  A first       *)
(* statement that fails changes nothing and has no action.                 *)
(*                                                                         *)
(* A record is counted, not looked into; a URL stands for its hash.        *)
(***************************************************************************)
EXTENDS Integers, FiniteSets

CONSTANTS
  Jobs,        \* ids of crawl jobs
  Statuses,    \* the job statuses that are written
  Urls,        \* URLs that are marked visited
  Domains,     \* domains a memory is kept for
  Memories,    \* site memories
  NoMemory,    \* what load_memory returns when there is no row
  Stats,       \* the triples pages, records, errors that save_stats is given
  MaxRows      \* bound: records inserted and visits marked, per job

ASSUME StorageAssumption ==
  /\ Statuses \subseteq {"pending", "running", "completed", "failed", "cancelled"}
  /\ NoMemory \notin Memories
  /\ Stats \subseteq [pages: Nat, records: Nat, errors: Nat]
  /\ MaxRows \in Nat

VARIABLES
  status,     \* crawl_jobs.status, or "none" when there is no row
  pages,      \* crawl_jobs.pages_fetched
  found,      \* crawl_jobs.records_found
  errors,     \* crawl_jobs.errors
  visited,    \* the rows of visited_urls
  records,    \* how many rows of records each job has
  memory,     \* the rows of site_memory
  held,       \* what the holder of the mutex has still to do
  export,     \* the export under way, or the last one
  saved,      \* history: records whose save was answered Ok
  repeats,    \* history: inserts into visited_urls that found the row there
  uncounted,  \* history: inserts whose counter was never raised, <<which, job>>
  restated    \* history: the jobs that save_stats has given its own numbers

row == <<status, pages, found, errors>>
history == <<saved, repeats, uncounted, restated>>
vars == <<row, visited, records, memory, held, export, history>>

Counters == {"pages", "found"}

\* Nobody holds the mutex.
Free == <<>>

Formats == {"jsonl", "json", "csv"}
NoExport == [pc |-> "idle"]

Init ==
  /\ status = [j \in Jobs |-> "none"]
  /\ pages = [j \in Jobs |-> 0]
  /\ found = [j \in Jobs |-> 0]
  /\ errors = [j \in Jobs |-> 0]
  /\ visited = {}
  /\ records = [j \in Jobs |-> 0]
  /\ memory = [jd \in Jobs \X Domains |-> NoMemory]
  /\ held = Free
  /\ export = NoExport
  /\ saved = [j \in Jobs |-> 0]
  /\ repeats = [j \in Jobs |-> 0]
  /\ uncounted = [c \in Counters \X Jobs |-> 0]
  /\ restated = {}

\* The rows of visited_urls a job has.
VisitsOf(j) == {v \in visited : v[1] = j}
Visits(j) == Cardinality(VisitsOf(j))

\* Bound: what has been saved and marked for a job.
MayInsert(j) == records[j] + Visits(j) + repeats[j] < MaxRows

\* With foreign_keys = ON a row that refers to a job needs the job's row.
HasJob(j) == status[j] # "none"

\* create_job fails on a second row with the same id.
CreateJob(j, s) ==
  /\ held = Free
  /\ ~ HasJob(j)
  /\ status' = [status EXCEPT ![j] = s]
  /\ UNCHANGED <<pages, found, errors, visited, records, memory, held, export,
                 history>>

\* update_job_status: for an unknown job no row changes, and the answer is Ok.
UpdateJobStatus(j, s) ==
  /\ held = Free
  /\ status' = [status EXCEPT ![j] = IF HasJob(j) THEN s ELSE @]
  /\ UNCHANGED <<pages, found, errors, visited, records, memory, held, export,
                 history>>

SaveMemory(j, d, m) ==
  /\ held = Free
  /\ HasJob(j)
  /\ memory' = [memory EXCEPT ![<<j, d>>] = m]
  /\ UNCHANGED <<row, visited, records, held, export, history>>

\* What load_memory returns.
LoadMemory(j, d) == memory[<<j, d>>]

\* Mutant: a connection that was opened without foreign_keys = ON.
InsertUnchecked(j) ==
  /\ held = Free
  /\ MayInsert(j)
  /\ records' = [records EXCEPT ![j] = @ + 1]
  /\ held' = <<"found", j>>
  /\ UNCHANGED <<row, visited, memory, export, history>>

\* save_record: the insert.
InsertRecord(j) ==
  /\ held = Free
  /\ HasJob(j)
  /\ MayInsert(j)
  /\ records' = [records EXCEPT ![j] = @ + 1]
  /\ held' = <<"found", j>>
  /\ UNCHANGED <<row, visited, memory, export, history>>

\* mark_visited: the insert, ignored when the row is there.
InsertVisit(j, u) ==
  /\ held = Free
  /\ HasJob(j)
  /\ MayInsert(j)
  /\ repeats' = [repeats EXCEPT ![j] = IF <<j, u>> \in visited THEN @ + 1 ELSE @]
  /\ visited' = visited \cup {<<j, u>>}
  /\ held' = <<"pages", j>>
  /\ UNCHANGED <<row, records, memory, export, saved, uncounted, restated>>

\* What is_visited returns.
IsVisited(j, u) == <<j, u>> \in visited

\* The second statement of save_record, then Ok.
CountRecord(j) ==
  /\ held = <<"found", j>>
  /\ found' = [found EXCEPT ![j] = @ + 1]
  /\ saved' = [saved EXCEPT ![j] = @ + 1]
  /\ held' = Free
  /\ UNCHANGED <<status, pages, errors, visited, records, memory, export,
                 repeats, uncounted, restated>>

\* Mutant: an UPDATE without WHERE counts the visit for every job.
CountVisitOfAll(j) ==
  /\ held = <<"pages", j>>
  /\ pages' = [k \in Jobs |-> IF HasJob(k) THEN pages[k] + 1 ELSE pages[k]]
  /\ held' = Free
  /\ UNCHANGED <<status, found, errors, visited, records, memory, export,
                 history>>

\* The second statement of mark_visited, then Ok, whether the insert made a
\* row or found it there.
CountVisit(j) ==
  /\ held = <<"pages", j>>
  /\ pages' = [pages EXCEPT ![j] = @ + 1]
  /\ held' = Free
  /\ UNCHANGED <<status, found, errors, visited, records, memory, export,
                 history>>

\* What is held back is never done: the insert stays without its count.
Abandon ==
  /\ uncounted' = IF held = Free THEN uncounted
                                 ELSE [uncounted EXCEPT ![held] = @ + 1]
  /\ held' = Free

\* The second statement fails: the answer is an error.
CountFails ==
  /\ held # Free
  /\ Abandon
  /\ UNCHANGED <<row, visited, records, memory, export, saved, repeats,
                 restated>>

\* save_stats puts the caller's numbers in the place of the row's.
SaveStats(j, s) ==
  /\ held = Free
  /\ pages' = [pages EXCEPT ![j] = IF HasJob(j) THEN s.pages ELSE @]
  /\ found' = [found EXCEPT ![j] = IF HasJob(j) THEN s.records ELSE @]
  /\ errors' = [errors EXCEPT ![j] = IF HasJob(j) THEN s.errors ELSE @]
  /\ restated' = IF HasJob(j) THEN restated \cup {j} ELSE restated
  /\ UNCHANGED <<status, visited, records, memory, held, export, saved,
                 repeats, uncounted>>

\* Mutant: opening creates the tables anew.
ReopenEmpty ==
  /\ Abandon
  /\ records' = [j \in Jobs |-> 0]
  /\ export' = NoExport
  /\ UNCHANGED <<row, visited, memory, saved, repeats, restated>>

\* The process ends, with whatever it had under way, and opens the database
\* again: IF NOT EXISTS keeps the tables.
Reopen ==
  /\ Abandon
  /\ export' = NoExport
  /\ UNCHANGED <<row, visited, records, memory, saved, repeats, restated>>

database == <<row, visited, records, memory, held, history>>

\* export_jsonl, export_json, export_csv: the SELECT sees the rows there are
\* now.  `acked` is history.
ExportStart(j, f) ==
  /\ export.pc # "reading"
  /\ export' = [pc |-> "reading", job |-> j, format |-> f, rows |-> records[j],
                read |-> 0, out |-> 0, acked |-> saved[j]]
  /\ UNCHANGED database

\* Reading a row; jsonl and csv write it, json keeps it.
ExportRow ==
  /\ export.pc = "reading"
  /\ export.read < export.rows
  /\ export' = [export EXCEPT !.read = @ + 1,
                              !.out = IF export.format = "json" THEN @ ELSE @ + 1]
  /\ UNCHANGED database

\* Mutant: a row that cannot be read ends the loop.
ExportEndsEarly ==
  /\ export.pc = "reading"
  /\ export' = [export EXCEPT !.pc = "ok", !.out = export.read]
  /\ UNCHANGED database

\* After the last row json is written, csv flushed.
ExportEnds ==
  /\ export.pc = "reading"
  /\ export.read = export.rows
  /\ export' = [export EXCEPT !.pc = "ok", !.out = export.read]
  /\ UNCHANGED database

\* A row cannot be read or written; what was written so far, or of csv a part
\* of it, is left behind.
ExportFails ==
  /\ export.pc = "reading"
  /\ \E n \in 0..export.read :
       /\ export.format = "jsonl" => n = export.out
       /\ export.format = "json" /\ export.read < export.rows => n = 0
       /\ export' = [export EXCEPT !.pc = "err", !.out = n]
  /\ UNCHANGED database

Next ==
  \/ \E j \in Jobs, s \in Statuses : CreateJob(j, s) \/ UpdateJobStatus(j, s)
  \/ \E j \in Jobs, d \in Domains, m \in Memories : SaveMemory(j, d, m)
  \/ \E j \in Jobs : InsertRecord(j) \/ CountRecord(j) \/ CountVisit(j)
  \/ \E j \in Jobs, u \in Urls : InsertVisit(j, u)
  \/ CountFails
  \/ \E j \in Jobs, s \in Stats : SaveStats(j, s)
  \/ Reopen
  \/ \E j \in Jobs, f \in Formats : ExportStart(j, f)
  \/ ExportRow \/ ExportEnds \/ ExportFails

Spec == Init /\ [][Next]_vars

----------------------------------------------------------------------------
\* One if the mutex's holder has still to raise counter c of job j.
Owed(c, j) == IF held = <<c, j>> THEN 1 ELSE 0

(***************************************************************************)
(* Types.                                                                  *)
(***************************************************************************)
TypeOK ==
  /\ status \in [Jobs -> Statuses \cup {"none"}]
  /\ pages \in [Jobs -> Nat]
  /\ found \in [Jobs -> Nat]
  /\ errors \in [Jobs -> Nat]
  /\ visited \in SUBSET (Jobs \X Urls)
  /\ records \in [Jobs -> Nat]
  /\ memory \in [Jobs \X Domains -> Memories \cup {NoMemory}]
  /\ held \in {Free} \cup (Counters \X Jobs)
  /\ export \in {NoExport} \cup
       [pc: {"reading", "ok", "err"}, job: Jobs, format: Formats, rows: Nat,
        read: Nat, out: Nat, acked: Nat]
  /\ saved \in [Jobs -> Nat]
  /\ repeats \in [Jobs -> Nat]
  /\ uncounted \in [Counters \X Jobs -> Nat]
  /\ restated \in SUBSET Jobs

(***************************************************************************)
(* Everything that refers to a job has a job to refer to: rows of records, *)
(* visited_urls and site_memory, and counters that were raised.            *)
(***************************************************************************)
RowsHaveAJob ==
  \A j \in Jobs : ~ HasJob(j) =>
    /\ records[j] = 0 /\ pages[j] = 0 /\ found[j] = 0
    /\ \A u \in Urls : ~ IsVisited(j, u)
    /\ \A d \in Domains : LoadMemory(j, d) = NoMemory

\* Types and foreign keys.
WellFormed == TypeOK /\ RowsHaveAJob

(***************************************************************************)
(* Until save_stats replaces them, the counters of crawl_jobs follow the   *)
(* tables.  records_found is the number of the job's records, less those   *)
(* whose save_record was cut between its two statements.  pages_fetched    *)
(* lacks no row of visited_urls but those whose mark_visited was cut so,   *)
(* and exceeds the rows only by visits that were marked before; that it    *)
(* does exceed them, mark_visited counting every call, no doc denies.      *)
(***************************************************************************)
CountersFollowTables ==
  \A j \in Jobs \ restated :
    /\ found[j] + uncounted[<<"found", j>>] + Owed("found", j) = records[j]
    /\ Visits(j) <= pages[j] + uncounted[<<"pages", j>>] + Owed("pages", j)
    /\ pages[j] <= Visits(j) + repeats[j]

(***************************************************************************)
(* A record whose save was answered Ok is in the database for good, over   *)
(* failures of later calls and ends of the process; a row nobody was       *)
(* promised is one whose call was cut short.                               *)
(***************************************************************************)
AckedRecordsStay ==
  \A j \in Jobs :
    saved[j] + uncounted[<<"found", j>>] + Owed("found", j) = records[j]

(***************************************************************************)
(* An export that returns Ok has written every row its query saw, and that *)
(* includes every record that was acknowledged before the export began,    *)
(* whatever the crawl did meanwhile.  One that fails returns an error.     *)
(***************************************************************************)
ExportIsWhole ==
  export.pc = "ok" =>
    /\ export.out = export.rows
    /\ export.acked <= export.out
    /\ export.out <= records[export.job]
=============================================================================
