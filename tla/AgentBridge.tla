---------------------------- MODULE AgentBridge ----------------------------
(***************************************************************************)
(* AgentBridge::process_page, src/src/agent/bridge.rs, with the spawner it *)
(* invokes (spawn.rs) and the per-domain memory it shares between calls    *)
(* (memory.rs).  The crawl engine makes such calls from several tasks.     *)
(*                                                                         *)
(* A call's `pc`:                                                          *)
(*   idle      not made yet                                                *)
(*   snapshot  has its memory object, before reading it    bridge.rs:62    *)
(*   mkdir     before its task directory is there          bridge.rs:67    *)
(*   html      before page.html is written                 bridge.rs:73    *)
(*   request   before request.json is written              spawn.rs:47     *)
(*   spawn     before the process is started               spawn.rs:58     *)
(*   agent     waiting for the process                     spawn.rs:55     *)
(*   apply, pages, records   updating the memory           bridge.rs:102   *)
(*   clean     before the directory is removed             bridge.rs:137   *)
(*   ok, err, panic   the call has ended                                   *)
(*                                                                         *)
(* The agent is external, and nothing is assumed of what it sends: any     *)
(* memory, or none.  The prompt (prompts.rs:40) shows it a memory with     *)
(* counts of its own and does not ask it to keep what it was given.        *)
(***************************************************************************)
EXTENDS Integers

CONSTANTS
  Calls,      \* calls of process_page, each with a task id of its own
  Domains,    \* hosts of the pages
  DomainOf,   \* the host of each call's page
  Facts,      \* what can be learned about a domain
  MaxPages,   \* bound: the page count of a memory that the agent sends
  MaxRecords  \* bound: records in one answer, or counted in such a memory

ASSUME BridgeAssumption ==
  /\ DomainOf \in [Calls -> Domains]
  /\ MaxPages \in Nat
  /\ MaxRecords \in Nat

VARIABLES
  memories,   \* the memory of each domain
  pc,         \* where each call is
  snapshot,   \* the memory each call has read
  answer,     \* the agent's answer: its memory if it has one, its records
  dirs,       \* the calls whose task directory exists
  procs,      \* the calls whose agent process runs
  stale,      \* history: calls whose snapshot is no longer the memory
  raced,      \* history: domains where an update from a stale snapshot was applied
  counted,    \* history: pages counted for each domain
  shifted,    \* history: what the memories that were put in a domain's place
              \* had added to the page counts their agents were shown
  stuck       \* history: calls whose directory could not be removed

vars == <<memories, pc, snapshot, answer, dirs, procs,
          stale, raced, counted, shifted, stuck>>
local == <<memories, snapshot, answer, stale, raced, counted, shifted, stuck>>

Memory == [facts: SUBSET Facts, pages: Nat, records: Nat]
Empty == [facts |-> {}, pages |-> 0, records |-> 0]
NoAnswer == [memory |-> {}, records |-> 0]
Ended == {"ok", "err", "panic"}

\* get_or_create_memory makes a domain's memory when it is first asked for.
Init ==
  /\ memories = [d \in Domains |-> Empty]
  /\ pc = [c \in Calls |-> "idle"]
  /\ snapshot = [c \in Calls |-> Empty]
  /\ answer = [c \in Calls |-> NoAnswer]
  /\ dirs = {}
  /\ procs = {}
  /\ stale = {}
  /\ raced = {}
  /\ counted = [d \in Domains |-> 0]
  /\ shifted = [d \in Domains |-> 0]
  /\ stuck = {}

Step(c, from, to) == pc[c] = from /\ pc' = [pc EXCEPT ![c] = to]

Begin(c) ==
  /\ Step(c, "idle", "snapshot")
  /\ UNCHANGED <<local, dirs, procs>>

\* Mutant: a memory is made for the call, not kept in the map.
SnapshotOfNew(c) ==
  /\ Step(c, "snapshot", "mkdir")
  /\ snapshot' = [snapshot EXCEPT ![c] = Empty]
  /\ UNCHANGED <<memories, answer, dirs, procs, stale, raced, counted, shifted,
                 stuck>>

\* DomainMemory::snapshot.
Snapshot(c) ==
  /\ Step(c, "snapshot", "mkdir")
  /\ snapshot' = [snapshot EXCEPT ![c] = memories[DomainOf[c]]]
  /\ UNCHANGED <<memories, answer, dirs, procs, stale, raced, counted, shifted,
                 stuck>>

MakeDir(c) ==
  /\ Step(c, "mkdir", "html")
  /\ dirs' = dirs \cup {c}
  /\ UNCHANGED <<local, procs>>

WriteHtml(c) ==
  /\ Step(c, "html", "request")
  /\ UNCHANGED <<local, dirs, procs>>

WriteRequest(c) ==
  /\ Step(c, "request", "spawn")
  /\ UNCHANGED <<local, dirs, procs>>

Spawn(c) ==
  /\ Step(c, "spawn", "agent")
  /\ procs' = procs \cup {c}
  /\ UNCHANGED <<local, dirs>>

\* Mutant: the directory is removed on every way out.
FailsAndCleans(c) ==
  /\ \/ \E from \in {"mkdir", "html", "request", "spawn"} : Step(c, from, "err")
     \/ Step(c, "agent", "err")
  /\ dirs' = dirs \ {c}
  /\ UNCHANGED <<local, procs>>

\* Mutant: the process is waited for without a timeout.
FailsUntimed(c) ==
  /\ \E from \in {"mkdir", "html", "request", "spawn"} : Step(c, from, "err")
  /\ UNCHANGED <<local, dirs, procs>>

\* What comes before the process's end fails; or the process is given up
\* after timeout_secs, and runs on.  `?` returns past the clean-up.
Fails(c) ==
  /\ \E from \in {"mkdir", "html", "request", "spawn", "agent"} :
       Step(c, from, "err")
  /\ UNCHANGED <<local, dirs, procs>>

\* What an agent may send for a memory: any, up to the bounds.
Sendable == [facts: SUBSET Facts, pages: 0..MaxPages, records: 0..MaxRecords]

\* The process ends in time, with an answer that has a memory or none.
Answers(c, sent, records) ==
  /\ Step(c, "agent", "apply")
  /\ answer' = [answer EXCEPT ![c] = [memory |-> sent, records |-> records]]
  /\ procs' = procs \ {c}
  /\ UNCHANGED <<memories, snapshot, dirs, stale, raced, counted, shifted,
                 stuck>>

\* The process ends in time with a failure or with text in which
\* parse_response finds no answer.  A text whose first opening brace comes
\* after its last closing one, and not right after it, makes the slice of
\* spawn.rs:107 panic.
AnswersBadly(c) ==
  /\ \E to \in {"err", "panic"} : Step(c, "agent", to)
  /\ procs' = procs \ {c}
  /\ UNCHANGED <<local, dirs>>

\* A process that nobody waits for ends.
OrphanEnds(c) ==
  /\ c \in procs
  /\ pc[c] # "agent"
  /\ procs' = procs \ {c}
  /\ UNCHANGED <<local, pc, dirs>>

\* The memory of a domain is written: the others' snapshots of it are stale.
Write(c, m) ==
  /\ memories' = [memories EXCEPT ![DomainOf[c]] = m]
  /\ stale' = stale \cup {o \in Calls \ {c} :
       DomainOf[o] = DomainOf[c] /\ pc[o] \notin {"idle", "snapshot"} \cup Ended}

\* DomainMemory::apply_update puts the agent's memory, whatever it is, in the
\* place of the domain's.
Apply(c) ==
  /\ Step(c, "apply", "pages")
  /\ IF answer[c].memory = {}
       THEN UNCHANGED <<memories, stale, raced, shifted>>
       ELSE \E m \in answer[c].memory :
              /\ Write(c, m)
              /\ raced' = IF c \in stale THEN raced \cup {DomainOf[c]} ELSE raced
              /\ shifted' = [shifted EXCEPT
                   ![DomainOf[c]] = @ + m.pages - snapshot[c].pages]
  /\ UNCHANGED <<snapshot, answer, dirs, procs, counted, stuck>>

\* Mutant: the page is counted where the answer brought no memory only.
CountPageUnlessSent(c) ==
  /\ Step(c, "pages", "records")
  /\ LET m == memories[DomainOf[c]] IN
       Write(c, IF answer[c].memory = {} THEN [m EXCEPT !.pages = @ + 1] ELSE m)
  /\ counted' = [counted EXCEPT ![DomainOf[c]] = @ + 1]
  /\ UNCHANGED <<snapshot, answer, dirs, procs, raced, shifted, stuck>>

\* DomainMemory::increment_pages, on what the memory is by now.
CountPage(c) ==
  /\ Step(c, "pages", "records")
  /\ Write(c, [memories[DomainOf[c]] EXCEPT !.pages = @ + 1])
  /\ counted' = [counted EXCEPT ![DomainOf[c]] = @ + 1]
  /\ UNCHANGED <<snapshot, answer, dirs, procs, raced, shifted, stuck>>

\* DomainMemory::add_records.
CountRecords(c) ==
  /\ Step(c, "records", "clean")
  /\ Write(c, [memories[DomainOf[c]] EXCEPT !.records = @ + answer[c].records])
  /\ UNCHANGED <<snapshot, answer, dirs, procs, raced, counted, shifted,
                 stuck>>

\* The directory is removed if that can be done, and the result returned.
Clean(c) ==
  /\ Step(c, "clean", "ok")
  /\ \/ dirs' = dirs \ {c} /\ UNCHANGED stuck
     \/ stuck' = stuck \cup {c} /\ UNCHANGED dirs
  /\ UNCHANGED <<memories, snapshot, answer, procs, stale, raced, counted,
                 shifted>>

Call(c) ==
  \/ Snapshot(c) \/ MakeDir(c) \/ WriteHtml(c) \/ WriteRequest(c) \/ Spawn(c)
  \/ Fails(c) \/ Apply(c) \/ CountPage(c) \/ CountRecords(c) \/ Clean(c)

Agent(c) ==
  \/ \E n \in 0..MaxRecords :
       \/ Answers(c, {}, n)
       \/ \E m \in Sendable : Answers(c, {m}, n)
  \/ AnswersBadly(c)
  \/ OrphanEnds(c)

Next == \E c \in Calls : Begin(c) \/ Call(c) \/ Agent(c)

Spec == Init /\ [][Next]_vars

\* The tasks that make the calls are run by a fair executor, which also
\* fires the timeout.  Nothing is assumed of the agent.
FairSpec == Spec /\ \A c \in Calls : WF_vars(Call(c))
----------------------------------------------------------------------------
(***************************************************************************)
(* Types.                                                                  *)
(***************************************************************************)
TypeOK ==
  /\ memories \in [Domains -> Memory]
  /\ pc \in [Calls -> {"idle", "snapshot", "mkdir", "html", "request", "spawn",
             "agent", "apply", "pages", "records", "clean"} \cup Ended]
  /\ snapshot \in [Calls -> Memory]
  /\ answer \in [Calls -> [memory: SUBSET Memory, records: Nat]]
  /\ dirs \in SUBSET Calls
  /\ procs \in SUBSET Calls
  /\ stale \in SUBSET Calls
  /\ raced \in SUBSET Domains
  /\ counted \in [Domains -> Nat]
  /\ shifted \in [Domains -> Int]
  /\ stuck \in SUBSET Calls

(***************************************************************************)
(* An agent's task directory, its working directory and where its          *)
(* page.html is, exists as long as the agent's process runs, even when the *)
(* call that started it has timed out and returned.                        *)
(***************************************************************************)
AgentKeepsItsDir == procs \subseteq dirs

(***************************************************************************)
(* The task directories left behind are those of calls that failed after   *)
(* making one and those that could not be removed: a call that returns a   *)
(* result cleans up.                                                       *)
(***************************************************************************)
OnlyFailuresLeaveDirs ==
  \A c \in dirs \ stuck : pc[c] \notin {"idle", "snapshot", "mkdir", "ok"}

\* Types, and whose directories exist.
DirsInOrder == TypeOK /\ AgentKeepsItsDir /\ OnlyFailuresLeaveDirs

(***************************************************************************)
(* The count of pages is the program's own: as long as no update computed  *)
(* from an overtaken snapshot was written, a domain's memory counts every  *)
(* page once, and is off by what the agents themselves made of the count   *)
(* they were shown, and by nothing else; other calls may be at any point   *)
(* between their update and their count.                                   *)
(***************************************************************************)
PagesCountedOnce ==
  \A d \in Domains \ raced : memories[d].pages = counted[d] + shifted[d]

\* Memory m has all that memory k has.
Keeps(m, k) ==
  /\ k.facts \subseteq m.facts
  /\ k.pages <= m.pages
  /\ k.records <= m.records

(***************************************************************************)
(* What is known of a domain is lost in two ways only, both when a call    *)
(* puts its agent's memory in the place of the domain's: another call has  *)
(* overtaken the snapshot that the agent was shown, or the agent left out  *)
(* what it was shown.  Calls that do not overlap, with agents that keep    *)
(* what they are told, only add to the memory.                             *)
(***************************************************************************)
LossHasACause ==
  [][ \A d \in Domains :
        \/ Keeps(memories'[d], memories[d])
        \/ \E c \in Calls :
             /\ DomainOf[c] = d /\ pc[c] = "apply" /\ pc'[c] = "pages"
             /\ c \in stale \/ \E m \in answer[c].memory : ~Keeps(m, snapshot[c])
    ]_vars

(***************************************************************************)
(* Every call returns, whatever the agent does: the timeout of the spawner *)
(* sees to it.                                                             *)
(***************************************************************************)
EveryCallReturns == \A c \in Calls : pc[c] = "snapshot" ~> pc[c] \in Ended
=============================================================================
