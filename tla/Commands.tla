------------------------------ MODULE Commands ------------------------------
(***************************************************************************)
(* The dig2crawl program, main of src/src/main.rs: one of the commands is  *)
(* run, with its own state, and the process ends with it.                  *)
(***************************************************************************)
EXTENDS Discover, ExtractPages, CollectLinks, SinglePage

vars == <<cli, session, discovery, extraction, collection, output>>

\* The arguments of the other commands are not given; they have some value.
OtherArguments ==
  /\ command # "discover" => maxLevel = 1
  /\ command # "extract" =>
       maxPages = 0 /\ ~ pagination /\ nextPage = CHOOSE p \in Pages : TRUE
  /\ command # "collect-links" => depth = 0 /\ site = CHOOSE s \in Sites : TRUE

Init ==
  /\ CliInit
  /\ DiscoverInit
  /\ ExtractInit
  /\ CollectInit
  /\ SingleInit
  /\ OtherArguments

\* Nothing happens after the end.
Done == exit # "running" /\ UNCHANGED vars

Discovering(step) == step /\ UNCHANGED <<extraction, collection, output>>
Extracting == ExtractNext /\ UNCHANGED <<session, discovery, collection, output>>
Collecting == CollectNext /\ UNCHANGED <<session, discovery, extraction, output>>
Single == SingleNext /\ UNCHANGED <<session, discovery, extraction, collection>>

Command == Discovering(DiscoverStep) \/ Extracting \/ Collecting \/ Single

Next == Command \/ Discovering(DiscoverNext) \/ Done

Spec == Init /\ [][Next]_vars

\* The program runs; calls of the browser, the HTTP client and the file
\* system return.  Nothing is assumed of the agent.
FairSpec == Spec /\ WF_vars(Command)

----------------------------------------------------------------------------
(***************************************************************************)
(* Types, and the bounds of what one run of discover does: the agent       *)
(* cannot keep it sending prompts and opening pages.                       *)
(***************************************************************************)
TypeOK ==
  /\ CliTypeOK
  /\ DiscoverTypeOK
  /\ BoundedWork

(***************************************************************************)
(* What it says that a command ended well: it has asked its browser to     *)
(* close whatever path it took; discover has saved the profile and asked   *)
(* for its job directory to be removed; extract has read all it was sent   *)
(* to; fetch and export-spec have written all they were to write.  Errors  *)
(* of the two requests are ignored, and so is one of extract's last write. *)
(* The other ends, `?` and a panic, leave browser and directory behind.    *)
(***************************************************************************)
OkMeansDone ==
  /\ OkAsksToClose
  /\ OkIsSaved
  /\ ExtractReadsThenWrites
  /\ OkIsWritten

\* The inductive invariant behind the safety properties of the commands.
IInv ==
  /\ TypeOK
  /\ CliInv
  /\ SessionInv
  /\ DiscoverInv
  /\ ExtractInv
  /\ WalkInv
  /\ SingleInv

(***************************************************************************)
(* Every command ends, whatever the agent answers or does not answer and   *)
(* however the pages link to one another.                                  *)
(***************************************************************************)
CommandEnds == <>(exit # "running")
=============================================================================
