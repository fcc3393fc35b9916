---------------------------- MODULE ExtractPages ----------------------------
(***************************************************************************)
(* The extract command, cmd_extract of src/src/main.rs:1286-1378: a saved  *)
(* profile is applied to a page and to those its next button leads to.     *)
(*                                                                         *)
(* Links between pages are chosen as they are read: a next link may lead   *)
(* to any page, one that was read before included.                         *)
(***************************************************************************)
EXTENDS Cli, Sequences

CONSTANTS
  Pages,     \* pages of the site
  MaxPages   \* bound on --max-pages

ASSUME ExtractAssumption == MaxPages \in Nat

VARIABLES
  maxPages,   \* --max-pages
  pages,      \* pages extracted from so far, in order
  nextPage,   \* current_url
  pagination, \* whether the profile has a NextButton
  written     \* pages whose records have got to the output

extraction == <<maxPages, pages, nextPage, pagination, written>>

ExtractInit ==
  /\ maxPages \in 0..MaxPages
  /\ pages = <<>>
  /\ nextPage \in Pages
  /\ pagination \in BOOLEAN
  /\ written = 0

X(p) == At("extract", p)

\* The profile is read and parsed.  One that requires a browser gets one
\* even with --http-only.
ExtractStart ==
  /\ X("start")
  /\ \/ \E required \in BOOLEAN : MakeFetcher(browser \/ required, "page")
     \/ Exit("err") /\ Fetcher
  /\ UNCHANGED extraction

\* A page is fetched and its records kept.  A page that cannot be fetched
\* ends the command, and the records of the pages before are lost.
ExtractPage ==
  /\ X("page")
  /\ Len(pages) < maxPages
  /\ \/ Fetched /\ Goto("next") /\ pages' = Append(pages, nextPage)
     \/ FetchFails /\ Exit("err") /\ UNCHANGED pages
  /\ UNCHANGED <<maxPages, nextPage, pagination, written>>

\* The next button's href, if one is found, is joined to the URL; an href
\* that cannot be joined ends the command.
FollowNext ==
  /\ X("next")
  /\ \/ /\ pagination /\ Len(pages) < maxPages
        /\ \/ \E p \in Pages : nextPage' = p /\ Goto("page")
           \/ Exit("err") /\ UNCHANGED nextPage
     \/ Goto("output") /\ UNCHANGED nextPage
  /\ Fetcher
  /\ UNCHANGED <<maxPages, pages, pagination, written>>

\* With --max-pages 0 the loop is not entered.
NoPages ==
  /\ X("page")
  /\ maxPages = 0
  /\ Goto("output")
  /\ Fetcher
  /\ UNCHANGED extraction

\* The browser is shut down, then the records are written.  To a file, by a
\* BufWriter that is never flushed: its last buffer is written when it is
\* dropped, and an error then is ignored, so that the command may end well
\* with part of them.  An error before ends it by `?`, one of standard
\* output by a panic.
ExtractOutput ==
  /\ X("output")
  /\ Shutdown
  /\ written' \in 0..Len(pages)
  /\ \E how \in {"ok", "err", "panic"} : Exit(how)
  /\ UNCHANGED <<maxPages, pages, nextPage, pagination>>

ExtractNext ==
  \/ ExtractStart \/ ExtractPage \/ FollowNext \/ NoPages \/ ExtractOutput

----------------------------------------------------------------------------
(***************************************************************************)
(* extract reads at most --max-pages pages, however the next buttons link, *)
(* in circles for instance; and before anything is written, or it ends     *)
(* well, it has read every page it was sent to, the last one included: an  *)
(* output never comes of a walk that a failed fetch cut short.  That the   *)
(* output is whole is not said: see ExtractOutput.                         *)
(***************************************************************************)
ExtractReadsThenWrites ==
  command = "extract" =>
    /\ written <= Len(pages) /\ Len(pages) <= maxPages
    /\ (exit = "ok" \/ written > 0) /\ pages # <<>> => nextPage = pages[Len(pages)]

\* The page the command is sent to is read before it looks for the next.
ExtractInv ==
  /\ maxPages \in Nat /\ pages \in Seq(Pages) /\ nextPage \in Pages /\ written \in Nat
  /\ command = "extract" /\ pc \in {"next", "output"} /\ pages # <<>> =>
       nextPage = pages[Len(pages)]
  /\ written > 0 => command = "extract" /\ pc = "output"
  /\ ExtractReadsThenWrites
=============================================================================
