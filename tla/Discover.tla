------------------------------ MODULE Discover ------------------------------
(***************************************************************************)
(* The discover command, cmd_discover of src/src/main.rs:764-1284: a page  *)
(* is fetched, an agent asked for selectors, the records they extract      *)
(* judged by the agent, and the result improved by browser actions (L2)    *)
(* and by a look at a screenshot (L3).                                     *)
(*                                                                         *)
(* A profile is the prompt whose answer it was built from.  Of a page only *)
(* the number of records counts that selectors extract there, of a         *)
(* confidence whether it reaches min_confidence.                           *)
(***************************************************************************)
EXTENDS Cli, AgentSession

CONSTANTS
  Found,      \* the numbers of records a page's selectors may extract
  MinRecords, \* --min-records
  MaxNav      \* the limit on navigation, main.rs:936

ASSUME DiscoverAssumption ==
  /\ Found \subseteq Nat
  /\ {MinRecords, MaxNav} \subseteq Nat

VARIABLES
  maxLevel,   \* --max-level
  jobDir,     \* the job directory: "none", "there", "gone", or "stuck"
  navs,       \* nav_count
  asked,      \* what the running prompt is for
  records,    \* the number of extracted_records
  profile,    \* [from, confident, validated]; from = 0: none yet
  level,      \* the levels tried
  saved,      \* whether profile.json is written
  judged      \* history: the profile whose records passed the validation

discovery == <<maxLevel, jobDir, navs, asked, records, profile, level, saved,
               judged>>

NoProfile == [from |-> 0, confident |-> FALSE, validated |-> FALSE]

DiscoverInit ==
  /\ SessionInit
  /\ maxLevel \in 1..3
  /\ jobDir = "none"
  /\ navs = 0
  /\ asked = "nothing"
  /\ records = 0
  /\ profile = NoProfile
  /\ level = {}
  /\ saved = FALSE
  /\ judged = 0

D(p) == At("discover", p)

\* A step that changes nothing of the discovery's state.
Same == UNCHANGED <<session, discovery>>

DiscoverStart ==
  /\ D("start")
  /\ MakeFetcher(browser, "fetch")
  /\ Same

\* Steps 1 to 3: the page; anti-bot check, SPA blocks, JSON-LD and metadata
\* are read from it.
DiscoverFetch ==
  /\ D("fetch")
  /\ \/ Fetched /\ Goto("files")
     \/ FetchFails /\ Exit("err")
  /\ Same

\* Step 4: the session's working directory, the job directory, the SPA file
\* and page.html.  A file may fail when the directory is there.
DiscoverFiles ==
  /\ D("files")
  /\ \/ jobDir' = "there" /\ (Goto("discovery") \/ Exit("err"))
     \/ UNCHANGED jobDir /\ Exit("err")
  /\ Fetcher
  /\ UNCHANGED <<session, maxLevel, navs, asked, records, profile, level,
                 saved, judged>>

\* A prompt for `what` is sent from step p.
Ask(p, what) ==
  /\ D(p)
  /\ SendPrompt
  /\ asked' = what
  /\ Goto("answer")
  /\ Fetcher
  /\ UNCHANGED <<maxLevel, jobDir, navs, records, profile, level, saved,
                 judged>>

\* send_prompt has returned an answer, or an error.
Answered(what) == D("answer") /\ asked = what /\ turn = "ok"
Unanswered(what) == D("answer") /\ asked = what /\ turn = "err"

AskDiscovery == Ask("discovery", "discovery")

\* The first discovery prompt fails: `?`.
DiscoveryFails ==
  /\ Unanswered("discovery")
  /\ Exit("err")
  /\ Fetcher /\ Same

\* Mutant: navigation is counted from one.
NavigateOneMore ==
  /\ Answered("discovery") \/ Answered("again")
  /\ text > 0
  /\ IF navs > MaxNav
       THEN Exit("err") /\ UNCHANGED navs
       ELSE Goto("navigate") /\ navs' = navs + 1
  /\ Fetcher
  /\ UNCHANGED <<session, maxLevel, jobDir, asked, records, profile, level,
                 saved, judged>>

\* The answer is a navigate object.  At the limit the loop ends with that
\* answer in hand, which does not parse as an AgentResponse: `?`.
Navigate ==
  /\ Answered("discovery") \/ Answered("again")
  /\ text > 0
  /\ IF navs >= MaxNav
       THEN Exit("err") /\ UNCHANGED navs
       ELSE Goto("navigate") /\ navs' = navs + 1
  /\ Fetcher
  /\ UNCHANGED <<session, maxLevel, jobDir, asked, records, profile, level,
                 saved, judged>>

\* The target is fetched and its HTML written over page.html, an error of
\* the write ignored.  When the fetch fails the navigate object is all there
\* is to parse.  The SPA blocks stay those of the first page.
NavFetch ==
  /\ D("navigate")
  /\ \/ Fetched /\ Goto("again")
     \/ FetchFails /\ Exit("err")
  /\ Same

AskAgain == Ask("again", "again")

\* The prompt for the new page fails: again only the navigate object is left.
AgainFails ==
  /\ Unanswered("again")
  /\ Exit("err")
  /\ Fetcher /\ Same

\* The answer is no AgentResponse: `?`.
DiscoveryUnparsed ==
  /\ Answered("discovery") \/ Answered("again")
  /\ Exit("err")
  /\ Fetcher /\ Same

\* The answer gives a profile, and the profile n records of the page in hand.
\* Always by CSS selectors: AgentResponse keeps no extraction_mode for
\* extract_json_path_mode to find.
Discovered(n, confident) ==
  /\ Answered("discovery") \/ Answered("again")
  /\ text > 0
  /\ profile' = [from |-> sent, confident |-> confident, validated |-> FALSE]
  /\ records' = n
  /\ level' = {1}
  /\ Goto(IF n > 0 THEN "validate" ELSE "L2")
  /\ Fetcher
  /\ UNCHANGED <<session, maxLevel, jobDir, navs, asked, saved, judged>>

AskValidation == Ask("validate", "validation")

\* The verdict sets `validated`, and the confidence if it is above zero.
Validated(passed, conf) ==
  /\ Answered("validation")
  /\ text > 0
  /\ profile' = [profile EXCEPT !.validated = passed,
                   !.confident = IF conf = "zero" THEN @ ELSE conf = "high"]
  /\ judged' = IF passed THEN profile.from ELSE judged
  /\ Goto("L2")
  /\ Fetcher
  /\ UNCHANGED <<session, maxLevel, jobDir, navs, asked, records, level,
                 saved>>

\* No answer, or none with a validation_result: the command goes on.
NotValidated ==
  /\ Answered("validation") \/ Unanswered("validation")
  /\ Goto("L2")
  /\ Fetcher /\ Same

\* should_escalate.
ShouldEscalate == records < MinRecords \/ ~ profile.confident

\* ---- L2

MayActL2 == browser /\ maxLevel >= 2 /\ ShouldEscalate

SkipL2 ==
  /\ D("L2")
  /\ ~ MayActL2
  /\ Goto("L3")
  /\ Fetcher /\ Same

AskActions ==
  /\ MayActL2
  /\ D("L2")
  /\ SendPrompt
  /\ asked' = "actions"
  /\ level' = level \cup {2}
  /\ Goto("answer")
  /\ Fetcher
  /\ UNCHANGED <<maxLevel, jobDir, navs, records, profile, saved, judged>>

\* The session fails, or the answer is empty, or it does not parse, or it
\* has no actions.  An answer that does not parse is printed up to byte 500:
\* a panic when that is inside a character.
NoActions ==
  /\ \/ Unanswered("actions") /\ Goto("L3")
     \/ Answered("actions") /\ text = 0 /\ Goto("L3")
     \/ Answered("actions") /\ text > 0 /\ (Goto("L3") \/ Exit("panic"))
  /\ Fetcher /\ Same

\* The actions are executed, on a new page for the URL the command was given,
\* wherever the agent had navigated to; n records are found there.
Act(n) ==
  /\ Answered("actions")
  /\ text > 0
  /\ Fetched
  /\ records' = IF n > records THEN n ELSE records
  /\ Goto(IF n > records THEN "L3" ELSE "reextract")
  /\ UNCHANGED <<session, maxLevel, jobDir, navs, asked, profile, level,
                 saved, judged>>

ActFails ==
  /\ Answered("actions")
  /\ text > 0
  /\ FetchFails
  /\ Goto("L3")
  /\ Same

AskReextract == Ask("reextract", "reextract")

\* Mutant: the new profile takes the verdict over from the old one.
ReextractedValid(n, confident) ==
  /\ Answered("reextract")
  /\ text > 0
  /\ records' = IF n > records THEN n ELSE records
  /\ profile' = IF n > records
                  THEN [from |-> sent, confident |-> confident,
                        validated |-> profile.validated]
                  ELSE profile
  /\ Goto("L3")
  /\ Fetcher
  /\ UNCHANGED <<session, maxLevel, jobDir, navs, asked, level, saved,
                 judged>>

\* New selectors from the page after the actions give n records there.
Reextracted(n, confident) ==
  /\ Answered("reextract")
  /\ text > 0
  /\ records' = IF n > records THEN n ELSE records
  /\ profile' = IF n > records
                  THEN [from |-> sent, confident |-> confident,
                        validated |-> FALSE]
                  ELSE profile
  /\ Goto("L3")
  /\ Fetcher
  /\ UNCHANGED <<session, maxLevel, jobDir, navs, asked, level, saved,
                 judged>>

\* No answer, or none with field_configs.
NotReextracted ==
  /\ Answered("reextract") \/ Unanswered("reextract")
  /\ Goto("L3")
  /\ Fetcher /\ Same

\* ---- L3

\* Mutant: a run that has been at L2 does not go on to L3.
MayLookAfterL2 == browser /\ maxLevel >= 3 /\ 2 \notin level /\ ShouldEscalate

MayLook == browser /\ maxLevel >= 3 /\ ShouldEscalate

SkipL3 ==
  /\ D("L3")
  /\ ~ MayLook
  /\ Goto("close")
  /\ Fetcher /\ Same

\* A page is opened for the command's URL, and its screenshot written to a
\* file; no page or an empty screenshot: L3 is over.  The write's error is
\* not caught: `?`.
Look ==
  /\ D("L3")
  /\ MayLook
  /\ level' = level \cup {3}
  /\ \/ FetchFails /\ Goto("close")
     \/ Fetched /\ (Goto("visual") \/ Goto("close") \/ Exit("err"))
  /\ UNCHANGED <<session, maxLevel, jobDir, navs, asked, records, profile,
                 saved, judged>>

\* build_visual_prompt puts the body of the page in hand into the prompt up
\* to byte 2000: a panic when that is inside a character.
AskVisual ==
  \/ Ask("visual", "visual")
  \/ D("visual") /\ Exit("panic") /\ Fetcher /\ Same

\* The visual actions are executed on the open page; n records are found.
ActVisually(n) ==
  /\ Answered("visual")
  /\ text > 0
  /\ records' = IF n > records THEN n ELSE records
  /\ Goto("close")
  /\ Fetcher
  /\ UNCHANGED <<session, maxLevel, jobDir, navs, asked, profile, level,
                 saved, judged>>

\* No answer, no actions, or an execution that fails.
NoVisual ==
  /\ Answered("visual") \/ Unanswered("visual")
  /\ Goto("close")
  /\ Fetcher /\ Same

\* ---- the end

\* session.close, handle.shutdown, and the job directory, if it lets itself
\* be removed.
CloseAll ==
  /\ D("close")
  /\ Shutdown
  /\ jobDir' \in {"gone", "stuck"}
  /\ Goto("save")
  /\ UNCHANGED <<session, maxLevel, navs, asked, records, profile, level,
                 saved, judged>>

\* The output directory and profile.json.
SaveProfile ==
  /\ D("save")
  /\ \/ saved' = TRUE /\ Exit("ok")
     \/ UNCHANGED saved /\ Exit("err")
  /\ Fetcher
  /\ UNCHANGED <<session, maxLevel, jobDir, navs, asked, records, profile,
                 level, judged>>

\* The command waits in send_prompt.
Waiting(step) ==
  /\ D("answer")
  /\ step
  /\ UNCHANGED <<cli, discovery>>

L1 ==
  \/ DiscoverStart \/ DiscoverFetch \/ DiscoverFiles
  \/ AskDiscovery \/ DiscoveryFails \/ DiscoveryUnparsed
  \/ Navigate \/ NavFetch \/ AskAgain \/ AgainFails
  \/ \E n \in Found, confident \in BOOLEAN : Discovered(n, confident)
  \/ AskValidation \/ NotValidated
  \/ \E passed \in BOOLEAN, conf \in {"zero", "low", "high"} :
       Validated(passed, conf)

L2 ==
  \/ SkipL2 \/ AskActions \/ NoActions \/ ActFails
  \/ \E n \in Found : Act(n)
  \/ AskReextract \/ NotReextracted
  \/ \E n \in Found, confident \in BOOLEAN : Reextracted(n, confident)

L3 ==
  \/ SkipL3 \/ Look \/ AskVisual \/ NoVisual
  \/ \E n \in Found : ActVisually(n)

\* The program's own steps, and the agent's.
DiscoverStep == L1 \/ L2 \/ L3 \/ CloseAll \/ SaveProfile \/ Waiting(Receiver)

DiscoverNext == DiscoverStep \/ Waiting(Agent)

----------------------------------------------------------------------------
DiscoverTypeOK ==
  /\ SessionTypeOK
  /\ maxLevel \in 1..3
  /\ jobDir \in {"none", "there", "gone", "stuck"}
  /\ navs \in 0..MaxNav
  /\ records \in Found \cup {0}
  /\ profile \in [from: 0..sent, confident: BOOLEAN, validated: BOOLEAN]
  /\ level \subseteq 1..3
  /\ saved \in BOOLEAN
  /\ judged \in 0..sent

(***************************************************************************)
(* A profile that says it is validated is the one whose records the agent  *)
(* was shown and passed, not one that replaced it afterwards (L2).         *)
(***************************************************************************)
ValidatedWasJudged == profile.validated => judged = profile.from

(***************************************************************************)
(* If discover ends well with fewer records or less confidence than asked  *)
(* for, it has tried every level that --max-level and the browser allow.   *)
(***************************************************************************)
PoorResultTriedAll ==
  command = "discover" /\ exit = "ok" /\ browser /\ ShouldEscalate =>
    \A l \in 1..3 : l <= maxLevel => l \in level

(***************************************************************************)
(* One run sends at most five prompts besides those for navigation, and    *)
(* opens at most three pages besides: the agent cannot keep it going.      *)
(***************************************************************************)
BoundedWork ==
  command = "discover" => sent <= MaxNav + 5 /\ tabs <= MaxNav + 3

(***************************************************************************)
(* Ending well means that the profile is on disk, and that the job         *)
(* directory was asked to be removed before it was written; whether it     *)
(* could be is ignored.                                                    *)
(***************************************************************************)
OkIsSaved ==
  command = "discover" /\ exit = "ok" => saved /\ jobDir \in {"gone", "stuck"}

\* The command is at one of the steps, or waits for the answer to a prompt
\* for one of `waits`.
Between(steps, waits) == pc \in steps \/ (pc = "answer" /\ asked \in waits)

\* The prompts sent so far, besides one per navigation.
PromptsSoFar ==
  /\ Between({"start", "fetch", "files", "discovery", "navigate", "again"}, {})
       => sent <= navs
  /\ Between({"validate"}, {"discovery", "again"}) => sent <= navs + 1
  /\ Between({"L2"}, {"validation"}) => sent <= navs + 2
  /\ Between({"reextract"}, {"actions"}) => sent <= navs + 3
  /\ Between({"L3", "visual"}, {"reextract"}) => sent <= navs + 4
  /\ sent <= navs + 5

\* The pages opened so far, besides one per navigation.
TabsSoFar ==
  /\ exit = "running" =>
       /\ pc \in {"start", "fetch", "navigate"} => tabs <= navs
       /\ Between({"files", "discovery", "again", "validate", "L2"},
                  {"discovery", "again", "validation", "actions"}) => tabs <= navs + 1
       /\ Between({"L3", "reextract"}, {"reextract"}) => tabs <= navs + 2
  /\ tabs <= navs + 3

\* There is a profile after the first parsed answer and not before.
ProfileFound ==
  /\ Between({"start", "fetch", "files", "discovery", "navigate", "again"},
             {"discovery", "again"}) => profile.from = 0
  /\ Between({"validate", "L2", "reextract", "L3", "visual", "close", "save"},
             {"validation", "actions", "reextract", "visual"}) => 1 \in level

\* Each level is tried where it is called for, and the records and the
\* profile change after it only so that it was called for before as well.
LevelsTried ==
  /\ Between({"reextract"}, {"actions", "reextract"}) => 2 \in level
  /\ Between({"L3", "visual", "close", "save"}, {"visual"}) =>
       (browser /\ maxLevel >= 2 /\ ShouldEscalate => 2 \in level)
  /\ Between({"visual"}, {"visual"}) => 3 \in level
  /\ pc \in {"close", "save"} =>
       (browser /\ maxLevel >= 3 /\ ShouldEscalate => 3 \in level)

\* The command saves the profile when all else is put away.
Closing ==
  /\ pc = "save" => jobDir \in {"gone", "stuck"} /\ handle # "browser"
  /\ exit = "ok" => pc = "save" /\ saved

\* The invariant behind the properties above.
DiscoverInv ==
  /\ DiscoverTypeOK
  /\ ValidatedWasJudged
  /\ IF command = "discover"
       THEN PromptsSoFar /\ TabsSoFar /\ ProfileFound /\ LevelsTried /\ Closing
       ELSE profile.from = 0
=============================================================================
