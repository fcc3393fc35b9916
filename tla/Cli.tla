-------------------------------- MODULE Cli --------------------------------
(***************************************************************************)
(* What the commands of the dig2crawl program, src/src/main.rs, have in    *)
(* common: the fetcher a command owns (make_fetcher, FetcherHandle), the   *)
(* browser pages it opens (src/src/fetch/browser.rs) and the way it ends.  *)
(*                                                                         *)
(* A command is one task: its `pc` names the await or the fallible call it *)
(* has got to.  `?` ends it at once, past the shutdown further down.       *)
(*                                                                         *)
(* The browser is external: a call of it, or of the HTTP client, succeeds  *)
(* or fails.  Its pages are closed only with the browser itself.           *)
(***************************************************************************)
EXTENDS Integers

VARIABLES
  command,  \* the subcommand
  browser,  \* not --http-only
  pc,       \* where the command is
  handle,   \* the fetcher: "none", "http", "browser", or what became of the
            \* browser: "closed", or "lost" when it could not be closed
  tabs,     \* browser pages opened and not closed
  exit      \* "running", or how the process ended: "ok", "err", "panic"

cli == <<command, browser, pc, handle, tabs, exit>>

CommandNames == {"discover", "extract", "export-spec", "fetch",
                 "test-selector", "collect-links"}

CliInit ==
  /\ command \in CommandNames
  /\ browser \in BOOLEAN
  /\ pc = "start"
  /\ handle = "none"
  /\ tabs = 0
  /\ exit = "running"

\* Command c is at step p, and running.
At(c, p) == exit = "running" /\ command = c /\ pc = p

\* The flags do not change.
Flags == UNCHANGED <<command, browser>>

Goto(p) == pc' = p /\ Flags /\ UNCHANGED exit
Exit(how) == exit' = how /\ Flags /\ UNCHANGED pc

\* make_fetcher.  `needed` is whether the command wants a browser.
MakeFetcher(needed, next) ==
  /\ \/ handle' = (IF needed THEN "browser" ELSE "http") /\ Goto(next)
     \/ Exit("err") /\ UNCHANGED handle
  /\ UNCHANGED tabs

\* A page of the browser is opened, by BrowserFetcher::navigate_once or
\* open_page; the HTTP client opens none.
NewTab == tabs' = IF handle = "browser" THEN tabs + 1 ELSE tabs

\* A fetch that succeeds, and one that fails: before a page is there, or
\* after, at set_extra_http_headers, goto, the wait, html or screenshot.
Fetched == NewTab /\ UNCHANGED handle
FetchFails == (NewTab \/ UNCHANGED tabs) /\ UNCHANGED handle

\* FetcherHandle::shutdown gives the browser up and asks it to close, its
\* pages with it.  An error is ignored: what runs then still runs.
Shutdown ==
  \/ handle # "browser" /\ UNCHANGED <<handle, tabs>>
  \/ handle = "browser" /\ handle' = "closed" /\ tabs' = 0
  \/ handle = "browser" /\ handle' = "lost" /\ UNCHANGED tabs

Fetcher == UNCHANGED <<handle, tabs>>

----------------------------------------------------------------------------
(***************************************************************************)
(* A command that ends well has asked its browser to close: whatever path  *)
(* it took, it passed the shutdown, and pages are open then only in a      *)
(* browser whose close failed.  A command that ends by `?` or by a panic   *)
(* leaves its browser without asking.                                      *)
(***************************************************************************)
OkAsksToClose == exit = "ok" => handle # "browser" /\ (tabs > 0 => handle = "lost")

CliTypeOK ==
  /\ command \in CommandNames
  /\ browser \in BOOLEAN
  /\ handle \in {"none", "http", "browser", "closed", "lost"}
  /\ tabs \in Nat
  /\ exit \in {"running", "ok", "err", "panic"}

\* Only a browser has pages, there is none before the first step, and a
\* command that has none left to shut down stays without.
CliInv ==
  /\ CliTypeOK
  /\ tabs > 0 => handle \in {"browser", "lost"}
  /\ pc = "start" /\ exit = "running" => handle = "none"
  /\ exit = "ok" => handle # "browser"
=============================================================================
