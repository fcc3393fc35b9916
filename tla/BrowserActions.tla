--------------------------- MODULE BrowserActions ---------------------------
(***************************************************************************)
(* execute_actions of src/src/fetch/interactive.rs.  An action is [kind,   *)
(* outcome].  The kinds: "do" (click, type, scroll by pixels or down, wait *)
(* for an element); "try" (click at a point, scroll to an element, press a *)
(* key, choose an option), whose script does nothing without its element;  *)
(* "dismiss" an overlay; "look" (take a screenshot); "sleep".  The         *)
(* outcomes: "done"; "nothing", no element and no error; "failed", a call  *)
(* returns an error.  The page is the number of actions done on it: what a *)
(* failed one did before it failed is left out.                            *)
(***************************************************************************)
EXTENDS Integers, SequencesExt

OnPage == {"do", "try", "dismiss"}

\* A sleep does not fail.
Actions ==
  [kind : {"try"}, outcome : {"done", "nothing", "failed"}]
  \cup [kind : {"do", "dismiss", "look"}, outcome : {"done", "failed"}]
  \cup [kind : {"sleep"}, outcome : {"done"}]

\* Mutant: what follows a failed action is not run.
RunStops(state, action) ==
  LET i == state.done + 1
      next == [state EXCEPT !.done = i]
  IN IF state.failed # <<>> THEN next
     ELSE CASE action.outcome = "failed" /\ action.kind # "dismiss" ->
            [next EXCEPT !.failed = Append(@, i)]
       [] action.outcome = "done" /\ action.kind \in OnPage -> [next EXCEPT !.page = @ + 1]
       [] action.outcome = "done" /\ action.kind = "look" -> [next EXCEPT !.seen = {state.page}]
       [] OTHER -> next

\* One action.  The failure to dismiss an overlay is ignored.
Run(state, action) ==
  LET i == state.done + 1
      next == [state EXCEPT !.done = i]
  IN CASE action.outcome = "failed" /\ action.kind # "dismiss" ->
            [next EXCEPT !.failed = Append(@, i)]
       [] action.outcome = "done" /\ action.kind \in OnPage -> [next EXCEPT !.page = @ + 1]
       [] action.outcome = "done" /\ action.kind = "look" -> [next EXCEPT !.seen = {state.page}]
       [] OTHER -> next

\* The outcome, as a set of one, or none when the page cannot be read;
\* `shoots`: the final screenshot succeeds.
ExecuteActions(actions, reads, shoots) ==
  LET end == FoldLeft(Run, [done |-> 0, page |-> 0, failed |-> <<>>, seen |-> {}],
                      actions)
  IN IF ~ reads THEN {}
     ELSE {[html |-> end.page,
            screenshot |-> IF shoots THEN {end.page} ELSE end.seen,
            failed |-> end.failed,
            total |-> Len(actions)]}
=============================================================================
