------------------------- MODULE AgentBridgeProofs -------------------------
(***************************************************************************)
(* Proofs about AgentBridge, for any calls for any domains and any answers *)
(* of the agent: which task directories exist, what a memory counts, and   *)
(* how what is known of a domain is lost.                                  *)
(*                                                                         *)
(* The argument has three layers: the types; DirInv, which ties the        *)
(* directories and processes to where the calls are; and MemoryInv, whose  *)
(* heart is that a snapshot that is not stale is the memory itself.        *)
(***************************************************************************)
EXTENDS AgentBridge, TLAPS

Phases == {"idle", "snapshot", "mkdir", "html", "request", "spawn", "agent",
           "apply", "pages", "records", "clean", "ok", "err", "panic"}

\* A call goes from one point to another, and no other call moves.
LEMMA StepMoves ==
  ASSUME TypeOK, NEW c \in Calls, NEW from \in Phases, NEW to \in Phases,
         Step(c, from, to)
  PROVE  /\ pc[c] = from /\ pc'[c] = to
         /\ \A o \in Calls : o # c => pc'[o] = pc[o]
         /\ pc' \in [Calls -> Phases]
BY DEF Step, TypeOK, Phases, Ended

\* A page or n records more leave the rest of a memory as it was.
LEMMA MemoryGrows ==
  ASSUME NEW m \in Memory, NEW n \in Nat
  PROVE  /\ [m EXCEPT !.pages = m.pages + 1] \in Memory
         /\ [m EXCEPT !.pages = m.pages + 1].facts = m.facts
         /\ [m EXCEPT !.pages = m.pages + 1].pages = m.pages + 1
         /\ [m EXCEPT !.pages = m.pages + 1].records = m.records
         /\ [m EXCEPT !.records = m.records + n] \in Memory
         /\ [m EXCEPT !.records = m.records + n].facts = m.facts
         /\ [m EXCEPT !.records = m.records + n].pages = m.pages
         /\ [m EXCEPT !.records = m.records + n].records = m.records + n
BY DEF Memory

\* The points between reading the memory and updating it.
Reading == {"mkdir", "html", "request", "spawn", "agent", "apply"}

\* A write changes one domain's memory, and overtakes every other call that
\* has read it.
LEMMA WriteOvertakes ==
  ASSUME TypeOK, NEW c \in Calls, NEW m \in Memory, Write(c, m)
  PROVE  /\ memories' \in [Domains -> Memory]
         /\ memories'[DomainOf[c]] = m
         /\ \A d \in Domains : d # DomainOf[c] => memories'[d] = memories[d]
         /\ stale' \in SUBSET Calls
         /\ stale \subseteq stale'
         /\ \A o \in Calls : o # c /\ DomainOf[o] = DomainOf[c] /\ pc[o] \in Reading
                               => o \in stale'
<1>1. DomainOf[c] \in Domains
  BY BridgeAssumption DEF BridgeAssumption
<1>2. /\ memories' = [memories EXCEPT ![DomainOf[c]] = m]
      /\ memories \in [Domains -> Memory]
  BY DEF Write, TypeOK
<1>3. stale' = stale \cup {o \in Calls \ {c} : DomainOf[o] = DomainOf[c] /\
                             pc[o] \notin {"idle", "snapshot"} \cup Ended}
  BY DEF Write
<1>4. stale \in SUBSET Calls
  BY DEF TypeOK
<1>5. \A o \in Calls : pc[o] \in Reading => pc[o] \notin {"idle", "snapshot"} \cup Ended
  BY DEF Reading, Ended
<1>6. \A o \in Calls : o # c /\ DomainOf[o] = DomainOf[c] /\ pc[o] \in Reading
                         => o \in stale'
  BY <1>3, <1>5
<1> QED
  BY <1>1, <1>2, <1>3, <1>4, <1>6

\* Where a domain's memory is found.
LEMMA DomainsTyped ==
  ASSUME TypeOK, NEW c \in Calls
  PROVE  DomainOf[c] \in Domains /\ memories[DomainOf[c]] \in Memory
BY BridgeAssumption DEF BridgeAssumption, TypeOK

\* The updates of a memory as writes.
LEMMA UpdatesWrite ==
  ASSUME TypeOK, NEW c \in Calls
  PROVE  LET m == memories[DomainOf[c]] IN
         /\ CountPage(c) => Write(c, [m EXCEPT !.pages = m.pages + 1])
         /\ CountRecords(c) => Write(c, [m EXCEPT !.records = m.records + answer[c].records])
         /\ answer[c] \in [memory: SUBSET Memory, records: Nat]
         /\ answer[c].records \in Nat
         /\ answer[c].memory \in SUBSET Memory
BY DEF CountPage, CountRecords, TypeOK

\* What applying the answer of c does, if m is the memory it has.
Applies(c, m) ==
  LET d == DomainOf[c] IN
  /\ m \in answer[c].memory /\ m \in Memory
  /\ Write(c, m)
  /\ raced' = IF c \in stale THEN raced \cup {d} ELSE raced
  /\ shifted' \in [Domains -> Int]
  /\ shifted'[d] = shifted[d] + m.pages - snapshot[c].pages
  /\ \A o \in Domains : o # d => shifted'[o] = shifted[o]

\* An answer with a memory is applied.
LEMMA AnswerApplies ==
  ASSUME TypeOK, NEW c \in Calls, Apply(c), answer[c].memory # {}
  PROVE  \E m : Applies(c, m)
<1>1. PICK m \in answer[c].memory :
        /\ Write(c, m)
        /\ raced' = IF c \in stale THEN raced \cup {DomainOf[c]} ELSE raced
        /\ shifted' = [shifted EXCEPT ![DomainOf[c]] = @ + m.pages - snapshot[c].pages]
  BY DEF Apply
<1>2. m \in Memory /\ DomainOf[c] \in Domains
  BY <1>1, UpdatesWrite, DomainsTyped
<1>3. /\ shifted \in [Domains -> Int]
      /\ m.pages \in Nat /\ snapshot[c].pages \in Nat
  BY <1>2 DEF TypeOK, Memory
<1>4. /\ shifted' \in [Domains -> Int]
      /\ shifted'[DomainOf[c]] = shifted[DomainOf[c]] + m.pages - snapshot[c].pages
      /\ \A o \in Domains : o # DomainOf[c] => shifted'[o] = shifted[o]
  BY <1>1, <1>2, <1>3
<1>5. Applies(c, m)
  BY <1>1, <1>2, <1>4 DEF Applies
<1> QED
  BY <1>5

----------------------------------------------------------------------------
(***************************************************************************)
(* Types.                                                                  *)
(***************************************************************************)
Answer == [memory: SUBSET Memory, records: Nat]

\* What the agent does: whatever it answers, its memory is one.
LEMMA AgentActs ==
  ASSUME NEW c \in Calls, Agent(c)
  PROVE  \/ \E sent \in SUBSET Memory, n \in Nat : Answers(c, sent, n)
         \/ AnswersBadly(c)
         \/ OrphanEnds(c)
<1>1. 0..MaxPages \subseteq Nat /\ 0..MaxRecords \subseteq Nat
  BY BridgeAssumption DEF BridgeAssumption
<1>2. ASSUME NEW n \in 0..MaxRecords, NEW m \in Sendable, Answers(c, {m}, n)
      PROVE  \E sent \in SUBSET Memory, k \in Nat : Answers(c, sent, k)
  <2>1. {m} \in SUBSET Memory
    BY <1>1 DEF Sendable, Memory
  <2> QED
    BY <1>1, <1>2, <2>1
<1>3. ASSUME NEW n \in 0..MaxRecords, Answers(c, {}, n)
      PROVE  \E sent \in SUBSET Memory, k \in Nat : Answers(c, sent, k)
  BY <1>1, <1>3
<1> QED
  BY <1>2, <1>3 DEF Agent

\* The first state has its types.
LEMMA TypeInit == Init => TypeOK
<1>1. Empty \in Memory
  BY DEF Empty, Memory
<1>2. NoAnswer \in Answer
  BY DEF NoAnswer, Answer
<1> QED
  BY <1>1, <1>2 DEF Init, TypeOK, Answer, Ended

\* Every step keeps the types.
LEMMA TypeStep ==
  ASSUME TypeOK, [Next]_vars
  PROVE  TypeOK'
<1>1. CASE UNCHANGED vars
  BY <1>1 DEF vars, TypeOK
<1>2. ASSUME NEW c \in Calls, Begin(c) \/ WriteHtml(c) \/ WriteRequest(c) \/ Fails(c)
      PROVE  TypeOK'
  <2>1. pc' \in [Calls -> Phases]
    BY <1>2, StepMoves DEF Begin, WriteHtml, WriteRequest, Fails, Phases
  <2> QED
    BY <1>2, <2>1 DEF Begin, WriteHtml, WriteRequest, Fails, local, TypeOK,
       Phases, Ended
<1>3. ASSUME NEW c \in Calls, Snapshot(c)
      PROVE  TypeOK'
  <2>1. pc' \in [Calls -> Phases]
    BY <1>3, StepMoves DEF Snapshot, Phases
  <2>2. snapshot' \in [Calls -> Memory]
    BY <1>3, DomainsTyped DEF Snapshot, TypeOK
  <2> QED
    BY <1>3, <2>1, <2>2 DEF Snapshot, TypeOK, Phases, Ended
<1>4. ASSUME NEW c \in Calls, MakeDir(c) \/ Spawn(c) \/ AnswersBadly(c)
      PROVE  TypeOK'
  <2>1. pc' \in [Calls -> Phases]
    BY <1>4, StepMoves DEF MakeDir, Spawn, AnswersBadly, Phases
  <2>2. dirs' \in SUBSET Calls /\ procs' \in SUBSET Calls
    BY <1>4 DEF MakeDir, Spawn, AnswersBadly, TypeOK
  <2> QED
    BY <1>4, <2>1, <2>2 DEF MakeDir, Spawn, AnswersBadly, local, TypeOK,
       Phases, Ended
<1>5. ASSUME NEW c \in Calls, NEW sent \in SUBSET Memory, NEW n \in Nat,
             Answers(c, sent, n)
      PROVE  TypeOK'
  <2> DEFINE a == [memory |-> sent, records |-> n]
  <2>1. pc' \in [Calls -> Phases]
    BY <1>5, StepMoves DEF Answers, Phases
  <2>2. a \in Answer
    BY DEF Answer
  <2>3. answer' = [answer EXCEPT ![c] = a]
    BY <1>5 DEF Answers
  <2> HIDE DEF a
  <2>4. answer' \in [Calls -> Answer]
    BY <2>2, <2>3 DEF TypeOK, Answer
  <2>5. procs' \in SUBSET Calls
    BY <1>5 DEF Answers, TypeOK
  <2> QED
    BY <1>5, <2>1, <2>4, <2>5 DEF Answers, TypeOK, Phases, Ended, Answer
<1>6. ASSUME NEW c \in Calls, OrphanEnds(c)
      PROVE  TypeOK'
  BY <1>6 DEF OrphanEnds, local, TypeOK
<1>7. ASSUME NEW c \in Calls, Apply(c)
      PROVE  TypeOK'
  <2>1. pc' \in [Calls -> Phases]
    BY <1>7, StepMoves DEF Apply, Phases
  <2>2. CASE answer[c].memory = {}
    BY <1>7, <2>1, <2>2 DEF Apply, TypeOK, Phases, Ended
  <2>3. CASE answer[c].memory # {}
    <3>1. PICK m : Applies(c, m)
      BY <1>7, <2>3, AnswerApplies
    <3>2. m \in Memory /\ Write(c, m) /\ DomainOf[c] \in Domains
      BY <3>1, DomainsTyped DEF Applies
    <3>3. memories' \in [Domains -> Memory] /\ stale' \in SUBSET Calls
      BY <3>2, WriteOvertakes
    <3>4. raced' \in SUBSET Domains /\ shifted' \in [Domains -> Int]
      BY <3>1, <3>2 DEF Applies, TypeOK
    <3> QED
      BY <1>7, <2>1, <3>3, <3>4 DEF Apply, TypeOK, Phases, Ended
  <2> QED
    BY <2>2, <2>3
<1>8. ASSUME NEW c \in Calls, CountPage(c)
      PROVE  TypeOK'
  <2>1. pc' \in [Calls -> Phases]
    BY <1>8, StepMoves DEF CountPage, Phases
  <2>2. memories' \in [Domains -> Memory] /\ stale' \in SUBSET Calls
    BY <1>8, UpdatesWrite, DomainsTyped, MemoryGrows, WriteOvertakes
  <2>3. counted' \in [Domains -> Nat]
    BY <1>8, DomainsTyped DEF CountPage, TypeOK
  <2> QED
    BY <1>8, <2>1, <2>2, <2>3 DEF CountPage, TypeOK, Phases, Ended
<1>9. ASSUME NEW c \in Calls, CountRecords(c)
      PROVE  TypeOK'
  <2>1. pc' \in [Calls -> Phases]
    BY <1>9, StepMoves DEF CountRecords, Phases
  <2>2. memories' \in [Domains -> Memory] /\ stale' \in SUBSET Calls
    <3> DEFINE m == memories[DomainOf[c]]
               r == answer[c].records
    <3>1. m \in Memory /\ r \in Nat
      BY DomainsTyped, UpdatesWrite
    <3>2. Write(c, [m EXCEPT !.records = m.records + r])
      BY <1>9, UpdatesWrite
    <3> HIDE DEF m, r
    <3>3. [m EXCEPT !.records = m.records + r] \in Memory
      BY <3>1, MemoryGrows
    <3> QED
      BY <3>2, <3>3, WriteOvertakes
  <2> QED
    BY <1>9, <2>1, <2>2 DEF CountRecords, TypeOK, Phases, Ended
<1>10. ASSUME NEW c \in Calls, Clean(c)
       PROVE  TypeOK'
  <2>1. pc' \in [Calls -> Phases]
    BY <1>10, StepMoves DEF Clean, Phases
  <2>2. dirs' \in SUBSET Calls /\ stuck' \in SUBSET Calls
    BY <1>10 DEF Clean, TypeOK
  <2> QED
    BY <1>10, <2>1, <2>2 DEF Clean, TypeOK, Phases, Ended
<1> QED
  BY <1>1, <1>2, <1>3, <1>4, <1>5, <1>6, <1>7, <1>8, <1>9, <1>10, AgentActs
     DEF Next, Call

\* Every reachable state has its types.
THEOREM BridgeTypes == Spec => []TypeOK
<1>1. TypeOK /\ [Next]_vars => TypeOK'
  BY TypeStep
<1> QED
  BY TypeInit, <1>1, PTL DEF Spec

----------------------------------------------------------------------------
(***************************************************************************)
(* Directories.  Between making and removing its directory a call has one, *)
(* and a process runs only while its call waits for it or has given it up. *)
(***************************************************************************)
HasDir == {"html", "request", "spawn", "agent", "apply", "pages", "records",
           "clean"}

DirInv ==
  /\ \A c \in Calls : pc[c] \in HasDir => c \in dirs
  /\ \A c \in procs : c \in dirs /\ pc[c] \in {"agent", "err"}
  /\ OnlyFailuresLeaveDirs

\* At first no call has a directory.
LEMMA DirInit == Init => DirInv
BY DEF Init, DirInv, HasDir, OnlyFailuresLeaveDirs

\* Every step keeps directories and processes in line with the calls.
LEMMA DirStep ==
  ASSUME TypeOK, DirInv, [Next]_vars
  PROVE  DirInv'
<1> USE DEF DirInv, HasDir, OnlyFailuresLeaveDirs
<1>1. dirs \in SUBSET Calls /\ procs \in SUBSET Calls /\ stuck \in SUBSET Calls
  BY DEF TypeOK
<1>2. CASE UNCHANGED vars
  BY <1>2 DEF vars
<1>3. ASSUME NEW c \in Calls,
             \/ Begin(c) \/ Snapshot(c)
             \/ WriteHtml(c) \/ WriteRequest(c)
             \/ Apply(c) \/ CountPage(c) \/ CountRecords(c)
      PROVE  DirInv'
  <2>1. \E from \in Phases, to \in Phases :
          /\ Step(c, from, to)
          /\ from \notin {"agent", "err"}
          /\ to \in HasDir => from \in HasDir
          /\ from \in {"idle", "snapshot"} \/ to \in HasDir
    BY <1>3 DEF Begin, Snapshot, WriteHtml, WriteRequest, Apply, CountPage,
       CountRecords, Phases
  <2>2. UNCHANGED <<dirs, procs, stuck>>
    BY <1>3 DEF Begin, Snapshot, WriteHtml, WriteRequest, Apply, CountPage,
       CountRecords, local
  <2> QED
    BY <1>1, <2>1, <2>2, StepMoves
<1>4. ASSUME NEW c \in Calls, MakeDir(c)
      PROVE  DirInv'
  <2>1. pc[c] = "mkdir" /\ pc'[c] = "html" /\ \A o \in Calls : o # c => pc'[o] = pc[o]
    BY <1>4, StepMoves DEF MakeDir, Phases
  <2> QED
    BY <1>1, <1>4, <2>1 DEF MakeDir, local
<1>5. ASSUME NEW c \in Calls, Spawn(c)
      PROVE  DirInv'
  <2>1. pc[c] = "spawn" /\ pc'[c] = "agent" /\ \A o \in Calls : o # c => pc'[o] = pc[o]
    BY <1>5, StepMoves DEF Spawn, Phases
  <2> QED
    BY <1>1, <1>5, <2>1 DEF Spawn, local
<1>6. ASSUME NEW c \in Calls, Fails(c)
      PROVE  DirInv'
  <2>1. pc'[c] = "err" /\ \A o \in Calls : o # c => pc'[o] = pc[o]
    BY <1>6, StepMoves DEF Fails, Phases
  <2> QED
    BY <1>1, <1>6, <2>1 DEF Fails, local
<1>7. ASSUME NEW c \in Calls, NEW sent \in SUBSET Memory, NEW n \in Nat,
             Answers(c, sent, n)
      PROVE  DirInv'
  <2>1. pc[c] = "agent" /\ pc'[c] = "apply" /\ \A o \in Calls : o # c => pc'[o] = pc[o]
    BY <1>7, StepMoves DEF Answers, Phases
  <2>2. procs' = procs \ {c} /\ UNCHANGED <<dirs, stuck>>
    BY <1>7 DEF Answers
  <2> QED
    BY <1>1, <2>1, <2>2
<1>8. ASSUME NEW c \in Calls, AnswersBadly(c)
      PROVE  DirInv'
  <2>1. pc[c] = "agent" /\ pc'[c] \in {"err", "panic"} /\ \A o \in Calls : o # c => pc'[o] = pc[o]
    BY <1>8, StepMoves DEF AnswersBadly, Phases
  <2> QED
    BY <1>1, <1>8, <2>1 DEF AnswersBadly, local
<1>9. ASSUME NEW c \in Calls, OrphanEnds(c)
      PROVE  DirInv'
  BY <1>1, <1>9 DEF OrphanEnds, local
<1>10. ASSUME NEW c \in Calls, Clean(c)
       PROVE  DirInv'
  <2>1. pc[c] = "clean" /\ pc'[c] = "ok" /\ \A o \in Calls : o # c => pc'[o] = pc[o]
    BY <1>10, StepMoves DEF Clean, Phases
  <2>2. procs' = procs
    BY <1>10 DEF Clean
  <2>3. CASE dirs' = dirs \ {c} /\ UNCHANGED stuck
    BY <1>1, <2>1, <2>2, <2>3
  <2>4. CASE stuck' = stuck \cup {c} /\ UNCHANGED dirs
    BY <1>1, <2>1, <2>2, <2>4
  <2> QED
    BY <1>10, <2>3, <2>4 DEF Clean
<1> QED
  BY <1>2, <1>3, <1>4, <1>5, <1>6, <1>7, <1>8, <1>9, <1>10, AgentActs
     DEF Next, Call

\* A call has its directory between making and removing it, and only a
\* process that is waited for, or was given up, runs.
THEOREM BridgeDirs == Spec => [](TypeOK /\ DirInv)
<1>1. TypeOK /\ DirInv /\ [Next]_vars => DirInv'
  BY DirStep
<1> QED
  BY DirInit, <1>1, BridgeTypes, PTL DEF Spec

\* A running agent has its directory, and a call that returns a result leaves
\* none that could be removed.
THEOREM DirectoriesInOrder == Spec => []DirsInOrder
<1>1. TypeOK /\ DirInv => DirsInOrder
  BY DEF DirInv, DirsInOrder, AgentKeepsItsDir
<1> QED
  BY <1>1, BridgeDirs, PTL

----------------------------------------------------------------------------
(***************************************************************************)
(* Memories.  A snapshot that no write has overtaken is the memory, so     *)
(* that an update written over it loses only what the agent left out.      *)
(***************************************************************************)
SnapshotIsMemory ==
  \A c \in Calls : pc[c] \in Reading /\ c \notin stale
                     => snapshot[c] = memories[DomainOf[c]]

MemoryInv == TypeOK /\ SnapshotIsMemory /\ PagesCountedOnce

\* At first no snapshot has been taken.
LEMMA MemoryInit == Init => MemoryInv
<1>1. Init => PagesCountedOnce
  BY DEF Init, PagesCountedOnce, Empty
<1> QED
  BY <1>1, TypeInit DEF Init, MemoryInv, SnapshotIsMemory, Reading

\* After a write by a call that leaves Reading, the snapshots that are not
\* stale are those of other domains.
LEMMA WriteKeepsSnapshots ==
  ASSUME MemoryInv, NEW c \in Calls, NEW m \in Memory, Write(c, m),
         NEW from \in Phases, NEW to \in Phases \ Reading, Step(c, from, to),
         snapshot' = snapshot
  PROVE  SnapshotIsMemory'
<1>1. TypeOK
  BY DEF MemoryInv
<1>2. /\ pc'[c] = to
      /\ \A o \in Calls : o # c => pc'[o] = pc[o]
  BY <1>1, StepMoves
<1>3. ASSUME NEW o \in Calls, pc'[o] \in Reading, o \notin stale'
      PROVE  snapshot'[o] = memories'[DomainOf[o]]
  <2>1. o # c /\ pc[o] \in Reading
    BY <1>2, <1>3
  <2>2. o \notin stale /\ DomainOf[o] # DomainOf[c]
    BY <1>1, <1>3, <2>1, WriteOvertakes
  <2>3. memories'[DomainOf[o]] = memories[DomainOf[o]]
    BY <1>1, <2>2, WriteOvertakes, DomainsTyped
  <2> QED
    BY <2>1, <2>2, <2>3 DEF MemoryInv, SnapshotIsMemory
<1> QED
  BY <1>3 DEF SnapshotIsMemory

\* A call that moves on without touching a memory.
LEMMA ReadersStay ==
  ASSUME MemoryInv,
         UNCHANGED <<memories, snapshot, stale, raced, counted, shifted>>,
         NEW c \in Calls, NEW from \in Phases, NEW to \in Phases,
         Step(c, from, to), to \in Reading => from \in Reading
  PROVE  SnapshotIsMemory' /\ PagesCountedOnce'
<1>1. /\ pc[c] = from /\ pc'[c] = to
      /\ \A o \in Calls : o # c => pc'[o] = pc[o]
  BY StepMoves DEF MemoryInv
<1>2. SnapshotIsMemory'
  BY <1>1 DEF MemoryInv, SnapshotIsMemory
<1>3. PagesCountedOnce'
  BY DEF MemoryInv, PagesCountedOnce
<1> QED
  BY <1>2, <1>3

\* Every step keeps fresh snapshots, answers and the account of pages.
LEMMA MemoryStep ==
  ASSUME MemoryInv, [Next]_vars
  PROVE  SnapshotIsMemory' /\ PagesCountedOnce'
<1>1. TypeOK
  BY DEF MemoryInv
<1>2. ASSUME UNCHANGED <<pc, memories, snapshot, stale, raced, counted, shifted>>
      PROVE  SnapshotIsMemory' /\ PagesCountedOnce'
  BY <1>2 DEF MemoryInv, SnapshotIsMemory, PagesCountedOnce
<1>3. ASSUME NEW c \in Calls,
             \/ Begin(c) \/ MakeDir(c) \/ WriteHtml(c) \/ WriteRequest(c)
             \/ Spawn(c) \/ Fails(c) \/ AnswersBadly(c) \/ Clean(c)
      PROVE  SnapshotIsMemory' /\ PagesCountedOnce'
  <2>1. PICK from \in Phases, to \in Phases :
          /\ Step(c, from, to)
          /\ to \in Reading => from \in Reading
    BY <1>3 DEF Begin, MakeDir, WriteHtml, WriteRequest, Spawn, Fails,
       AnswersBadly, Clean, Phases, Reading
  <2>2. UNCHANGED <<memories, snapshot, stale, raced, counted, shifted>>
    BY <1>3 DEF Begin, MakeDir, WriteHtml, WriteRequest, Spawn, Fails,
       AnswersBadly, Clean, local
  <2> QED
    BY <2>1, <2>2, ReadersStay
<1>4. ASSUME NEW c \in Calls, Snapshot(c)
      PROVE  SnapshotIsMemory' /\ PagesCountedOnce'
  <2>1. pc'[c] = "mkdir" /\ \A o \in Calls : o # c => pc'[o] = pc[o]
    BY <1>1, <1>4, StepMoves DEF Snapshot, Phases
  <2>2. /\ snapshot'[c] = memories[DomainOf[c]]
        /\ \A o \in Calls : o # c => snapshot'[o] = snapshot[o]
    BY <1>1, <1>4 DEF Snapshot, TypeOK
  <2>3. UNCHANGED <<memories, stale, raced, counted, shifted>>
    BY <1>4 DEF Snapshot
  <2>4. SnapshotIsMemory'
    BY <2>1, <2>2, <2>3 DEF MemoryInv, SnapshotIsMemory
  <2>5. PagesCountedOnce'
    BY <2>3 DEF MemoryInv, PagesCountedOnce
  <2> QED
    BY <2>4, <2>5
<1>5. ASSUME NEW c \in Calls, NEW sent \in SUBSET Memory, NEW n \in Nat,
             Answers(c, sent, n)
      PROVE  SnapshotIsMemory' /\ PagesCountedOnce'
  <2>1. Step(c, "agent", "apply")
    BY <1>5 DEF Answers
  <2>2. UNCHANGED <<memories, snapshot, stale, raced, counted, shifted>>
    BY <1>5 DEF Answers
  <2> QED
    BY <2>1, <2>2, ReadersStay DEF Phases, Reading
<1>6. ASSUME NEW c \in Calls, Apply(c)
      PROVE  SnapshotIsMemory' /\ PagesCountedOnce'
  <2>1. pc[c] = "apply" /\ Step(c, "apply", "pages")
    BY <1>6 DEF Apply, Step
  <2>2. CASE answer[c].memory = {}
    <3>1. UNCHANGED <<memories, snapshot, stale, raced, counted, shifted>>
      BY <1>6, <2>2 DEF Apply
    <3> QED
      BY <2>1, <3>1, ReadersStay DEF Phases, Reading
  <2>3. CASE answer[c].memory # {}
    <3>1. PICK m : Applies(c, m)
      BY <1>1, <1>6, <2>3, AnswerApplies
    <3>2. m \in Memory /\ Write(c, m) /\ DomainOf[c] \in Domains
      BY <1>1, <3>1, DomainsTyped DEF Applies
    <3>3. SnapshotIsMemory'
      BY <1>6, <2>1, <3>2, WriteKeepsSnapshots DEF Apply, Phases, Reading
    <3>4. ASSUME NEW d \in Domains, d \notin raced'
          PROVE  memories'[d].pages = counted'[d] + shifted'[d]
      <4>1. /\ raced' = IF c \in stale THEN raced \cup {DomainOf[c]} ELSE raced
            /\ counted' = counted
        BY <1>6, <3>1 DEF Applies, Apply
      <4>2. d \notin raced /\ memories[d].pages = counted[d] + shifted[d]
        BY <3>4, <4>1 DEF MemoryInv, PagesCountedOnce
      <4>3. CASE d = DomainOf[c]
        <5>1. snapshot[c] = memories[d]
          BY <2>1, <3>4, <4>1, <4>3 DEF MemoryInv, SnapshotIsMemory, Reading
        <5>2. memories'[d] = m
          BY <1>1, <3>2, <4>3, WriteOvertakes
        <5>3. shifted'[d] = shifted[d] + m.pages - snapshot[c].pages
          BY <3>1, <4>3 DEF Applies
        <5>4. /\ shifted[d] \in Int /\ counted[d] \in Nat
              /\ m.pages \in Nat /\ memories[d].pages \in Nat
          BY <1>1, <3>2 DEF TypeOK, Memory
        <5> QED
          BY <4>1, <4>2, <5>1, <5>2, <5>3, <5>4
      <4>4. CASE d # DomainOf[c]
        <5>1. memories'[d] = memories[d]
          BY <1>1, <3>2, <4>4, WriteOvertakes
        <5>2. shifted'[d] = shifted[d]
          BY <3>1, <4>4 DEF Applies
        <5> QED
          BY <4>1, <4>2, <5>1, <5>2
      <4> QED
        BY <4>3, <4>4
    <3> QED
      BY <3>3, <3>4 DEF PagesCountedOnce
  <2> QED
    BY <2>2, <2>3
<1>7. ASSUME NEW c \in Calls, CountPage(c)
      PROVE  SnapshotIsMemory' /\ PagesCountedOnce'
  <2> DEFINE m == memories[DomainOf[c]]
             n == [m EXCEPT !.pages = m.pages + 1]
  <2>1. DomainOf[c] \in Domains /\ m \in Memory
    BY <1>1, DomainsTyped
  <2>2. Write(c, n)
    BY <1>1, <1>7, UpdatesWrite
  <2>3. n \in Memory /\ n.pages = m.pages + 1
    <3> HIDE DEF m
    <3> QED
      BY <2>1, MemoryGrows
  <2> HIDE DEF n
  <2>4. SnapshotIsMemory'
    BY <1>7, <2>2, <2>3, WriteKeepsSnapshots DEF CountPage, Phases, Reading
  <2>5. ASSUME NEW d \in Domains, d \notin raced'
        PROVE  memories'[d].pages = counted'[d] + shifted'[d]
    <3>1. /\ raced' = raced /\ shifted' = shifted
          /\ counted' = [counted EXCEPT ![DomainOf[c]] = @ + 1]
      BY <1>7 DEF CountPage
    <3>2. memories[d].pages = counted[d] + shifted[d]
      BY <2>5, <3>1 DEF MemoryInv, PagesCountedOnce
    <3>3. counted[d] \in Nat /\ shifted[d] \in Int
      BY <1>1 DEF TypeOK
    <3>4. CASE d = DomainOf[c]
      <4>1. memories'[d] = n
        BY <1>1, <2>2, <2>3, <3>4, WriteOvertakes
      <4>2. counted'[d] = counted[d] + 1
        BY <1>1, <3>1, <3>4 DEF TypeOK
      <4> QED
        BY <2>3, <3>1, <3>2, <3>3, <3>4, <4>1, <4>2
    <3>5. CASE d # DomainOf[c]
      <4>1. memories'[d] = memories[d]
        BY <1>1, <2>2, <2>3, <3>5, WriteOvertakes
      <4>2. counted'[d] = counted[d]
        BY <1>1, <3>1, <3>5 DEF TypeOK
      <4> QED
        BY <3>1, <3>2, <4>1, <4>2
    <3> QED
      BY <3>4, <3>5
  <2> QED
    BY <2>4, <2>5 DEF PagesCountedOnce
<1>8. ASSUME NEW c \in Calls, CountRecords(c)
      PROVE  SnapshotIsMemory' /\ PagesCountedOnce'
  <2> DEFINE m == memories[DomainOf[c]]
             r == answer[c].records
             n == [m EXCEPT !.records = m.records + r]
  <2>1. DomainOf[c] \in Domains /\ m \in Memory /\ r \in Nat
    BY <1>1, DomainsTyped, UpdatesWrite
  <2>2. Write(c, n)
    BY <1>1, <1>8, UpdatesWrite
  <2>3. n \in Memory /\ n.pages = m.pages
    <3> HIDE DEF m, r
    <3> QED
      BY <2>1, MemoryGrows
  <2> HIDE DEF n
  <2>4. SnapshotIsMemory'
    BY <1>8, <2>2, <2>3, WriteKeepsSnapshots DEF CountRecords, Phases, Reading
  <2>5. \A d \in Domains : memories'[d].pages = memories[d].pages
    BY <1>1, <2>2, <2>3, WriteOvertakes
  <2>6. UNCHANGED <<raced, counted, shifted>>
    BY <1>8 DEF CountRecords
  <2> QED
    BY <2>4, <2>5, <2>6 DEF MemoryInv, PagesCountedOnce
<1>9. ASSUME NEW c \in Calls, OrphanEnds(c)
      PROVE  SnapshotIsMemory' /\ PagesCountedOnce'
  BY <1>2, <1>9 DEF OrphanEnds, local
<1>10. CASE UNCHANGED vars
  BY <1>2, <1>10 DEF vars
<1> QED
  BY <1>3, <1>4, <1>5, <1>6, <1>7, <1>8, <1>9, <1>10, AgentActs DEF Next, Call

\* In every reachable state a snapshot that no write has overtaken is the
\* memory.
THEOREM MemoriesKept == Spec => []MemoryInv
<1>1. MemoryInv /\ [Next]_vars => MemoryInv'
  BY MemoryStep, TypeStep DEF MemoryInv
<1> QED
  BY MemoryInit, <1>1, PTL DEF Spec

\* Whatever the agents send, a memory into which no stale update has been
\* written counts each page once, and is off by nothing but what the agents
\* made of the counts they were shown.
THEOREM EachPageCountedOnce == Spec => []PagesCountedOnce
<1>1. MemoryInv => PagesCountedOnce
  BY DEF MemoryInv
<1> QED
  BY <1>1, MemoriesKept, PTL

\* Whatever the agents send, nothing known of a domain is lost but by a call
\* that writes an answer which was overtaken or leaves out what was shown.
THEOREM LossNeedsACause == Spec => LossHasACause
<1> DEFINE Grows(d) == Keeps(memories'[d], memories[d])
           Lost(d) == \E c \in Calls :
              /\ DomainOf[c] = d /\ pc[c] = "apply" /\ pc'[c] = "pages"
              /\ c \in stale \/ \E m \in answer[c].memory : ~Keeps(m, snapshot[c])
<1>1. ASSUME MemoryInv, [Next]_vars
      PROVE  \A d \in Domains : Grows(d) \/ Lost(d)
  <2>1. TypeOK
    BY <1>1 DEF MemoryInv
  <2>2. \A d \in Domains : memories[d].pages \in Nat /\ memories[d].records \in Nat
    BY <2>1 DEF TypeOK, Memory
  <2>3. ASSUME memories' = memories
        PROVE  \A d \in Domains : Grows(d)
    BY <2>2, <2>3 DEF Keeps
  <2>4. ASSUME NEW c \in Calls, NEW m \in Memory, Write(c, m),
               Keeps(m, memories[DomainOf[c]])
        PROVE  \A d \in Domains : Grows(d)
    <3>1. /\ memories'[DomainOf[c]] = m
          /\ \A d \in Domains : d # DomainOf[c] => memories'[d] = memories[d]
      BY <2>1, <2>4, WriteOvertakes
    <3> QED
      BY <2>2, <2>4, <3>1 DEF Keeps
  <2>5. ASSUME NEW c \in Calls, Apply(c)
        PROVE  \A d \in Domains : Grows(d) \/ Lost(d)
    <3>1. CASE answer[c].memory = {}
      BY <2>3, <2>5, <3>1 DEF Apply
    <3>2. CASE answer[c].memory # {}
      <4>1. PICK m : Applies(c, m)
        BY <2>1, <2>5, <3>2, AnswerApplies
      <4>2. m \in Memory /\ m \in answer[c].memory /\ Write(c, m)
        BY <4>1 DEF Applies
      <4>3. pc[c] = "apply" /\ pc'[c] = "pages"
        BY <2>1, <2>5, StepMoves DEF Apply, Phases
      <4>4. CASE c \in stale \/ ~Keeps(m, snapshot[c])
        <5>1. \A d \in Domains : d # DomainOf[c] => memories'[d] = memories[d]
          BY <2>1, <4>2, WriteOvertakes
        <5> QED
          BY <2>2, <4>2, <4>3, <4>4, <5>1 DEF Keeps
      <4>5. CASE c \notin stale /\ Keeps(m, snapshot[c])
        <5>1. snapshot[c] = memories[DomainOf[c]]
          BY <1>1, <4>3, <4>5 DEF MemoryInv, SnapshotIsMemory, Reading
        <5> QED
          BY <2>4, <4>2, <4>5, <5>1
      <4> QED
        BY <4>4, <4>5
    <3> QED
      BY <3>1, <3>2
  <2>6. ASSUME NEW c \in Calls, CountPage(c) \/ CountRecords(c)
        PROVE  \A d \in Domains : Grows(d)
    <3> DEFINE m == memories[DomainOf[c]]
               r == answer[c].records
               p == [m EXCEPT !.pages = m.pages + 1]
               q == [m EXCEPT !.records = m.records + r]
    <3>1. m \in Memory /\ r \in Nat /\ m.pages \in Nat /\ m.records \in Nat
      BY <2>1, DomainsTyped, UpdatesWrite DEF Memory
    <3>2. Write(c, p) \/ Write(c, q)
      BY <2>1, <2>6, UpdatesWrite
    <3>3. /\ p \in Memory /\ p.facts = m.facts /\ p.pages = m.pages + 1
          /\ p.records = m.records
          /\ q \in Memory /\ q.facts = m.facts /\ q.pages = m.pages
          /\ q.records = m.records + r
      <4> HIDE DEF m, r
      <4> QED
        BY <3>1, MemoryGrows
    <3>4. Keeps(p, m) /\ Keeps(q, m)
      <4> HIDE DEF p, q, m, r
      <4> QED
        BY <3>1, <3>3 DEF Keeps
    <3> HIDE DEF p, q, r
    <3> QED
      BY <2>4, <3>2, <3>3, <3>4
  <2>7. CASE \/ UNCHANGED vars
             \/ \E c \in Calls :
                  \/ Begin(c) \/ Snapshot(c) \/ MakeDir(c) \/ WriteHtml(c)
                  \/ WriteRequest(c) \/ Spawn(c) \/ Fails(c) \/ Clean(c)
                  \/ Agent(c)
    <3>1. memories' = memories
      BY <2>7 DEF vars, local, Begin, Snapshot, MakeDir, WriteHtml,
         WriteRequest, Spawn, Fails, Clean, Agent, Answers, AnswersBadly,
         OrphanEnds
    <3> QED
      BY <2>3, <3>1
  <2> QED
    BY <1>1, <2>5, <2>6, <2>7 DEF Next, Call
<1>2. MemoryInv /\ [Next]_vars =>
        [ \A d \in Domains :
            \/ Keeps(memories'[d], memories[d])
            \/ \E c \in Calls :
                 /\ DomainOf[c] = d /\ pc[c] = "apply" /\ pc'[c] = "pages"
                 /\ c \in stale \/ \E m \in answer[c].memory : ~Keeps(m, snapshot[c])
        ]_vars
  BY <1>1
<1> QED
  BY <1>2, MemoriesKept, PTL DEF Spec, LossHasACause
=============================================================================
