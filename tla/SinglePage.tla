----------------------------- MODULE SinglePage -----------------------------
(***************************************************************************)
(* The commands of src/src/main.rs that look at one page or at none:       *)
(* fetch (1422-1495), test-selector (1497-1578) and export-spec            *)
(* (1380-1420).                                                            *)
(***************************************************************************)
EXTENDS Cli

VARIABLES
  output   \* the output file: "none", "whole", or "part"; or "printed" when
           \* it is standard output

SingleInit == output = "none"

\* std::fs::write, which may fail with part of the file written, or print!,
\* which panics when it fails.
WriteOutput ==
  \/ output' \in {"whole", "printed"} /\ Goto("shutdown")
  \/ output' \in {"none", "part"} /\ Exit("err")
  \/ UNCHANGED output /\ Exit("panic")

\* ---- fetch

F(p) == At("fetch", p)

FetchStart == F("start") /\ MakeFetcher(browser, "page") /\ UNCHANGED output

FetchPage ==
  /\ F("page")
  /\ \/ Fetched /\ Goto("write")
     \/ FetchFails /\ Exit("err")
  /\ UNCHANGED output

\* The reports asked for, then the body, to the file or to standard output.
FetchWrite == F("write") /\ WriteOutput /\ Fetcher

FetchEnd == F("shutdown") /\ Shutdown /\ Exit("ok") /\ UNCHANGED output

\* ---- test-selector

T(p) == At("test-selector", p)

TestStart == T("start") /\ MakeFetcher(browser, "page") /\ UNCHANGED output

TestPage ==
  /\ T("page")
  /\ \/ Fetched /\ (Goto("matches") \/ Goto("records"))
     \/ FetchFails /\ Exit("err")
  /\ UNCHANGED output

\* Mutant: the list of matches returns where it stands.
TestMatchesReturn ==
  /\ T("matches")
  /\ \/ Fetcher /\ Exit("ok")
     \/ Fetcher /\ (Exit("err") \/ Exit("panic"))
  /\ UNCHANGED output

\* Without fields the matches are listed.  A selector that does not parse is
\* an error; a text over 200 bytes is cut at byte 200, a panic inside a
\* character.
TestMatches ==
  /\ T("matches")
  /\ \/ Shutdown /\ Exit("ok")
     \/ Fetcher /\ (Exit("err") \/ Exit("panic"))
  /\ UNCHANGED output

\* With fields the records are; the extractor takes a selector that does not
\* parse for one that matches nothing.
TestRecords == T("records") /\ Shutdown /\ Exit("ok") /\ UNCHANGED output

\* ---- export-spec

\* The profile is read, and the spec written as TOML or JSON.
ExportSpec ==
  /\ At("export-spec", "start")
  /\ \/ output' = "whole" /\ Exit("ok")
     \/ output' \in {"none", "part"} /\ Exit("err")
  /\ Fetcher

SingleNext ==
  \/ FetchStart \/ FetchPage \/ FetchWrite \/ FetchEnd
  \/ TestStart \/ TestPage \/ TestMatches \/ TestRecords
  \/ ExportSpec

----------------------------------------------------------------------------
(***************************************************************************)
(* fetch and export-spec end well only when the file they were asked for   *)
(* is written, all of it; fetch without a file when print! has returned.   *)
(***************************************************************************)
OkIsWritten ==
  exit = "ok" => /\ command = "fetch" => output \in {"whole", "printed"}
                 /\ command = "export-spec" => output = "whole"

\* The file is there before the browser is shut down.
SingleInv ==
  /\ command = "fetch" /\ pc = "shutdown" => output \in {"whole", "printed"}
  /\ OkIsWritten
=============================================================================
