----------------------------- MODULE AgentAnswer -----------------------------
(***************************************************************************)
(* How the JSON object in an agent's answer is found and mended:           *)
(* extract_json_block and sanitize_json_escapes of src/src/main.rs,        *)
(* parse_response of src/src/agent/spawn.rs, extract_json_from_response of *)
(* src/src/agent/visual.rs.                                                *)
(*                                                                         *)
(* An answer is a sequence of marks: "{", "}", "fence" (```), "json"       *)
(* (```json) and "word" for anything else.  White space is left out, and   *)
(* with it every trim; between "}" and "{" it is a word.                   *)
(***************************************************************************)
EXTENDS Integers, FiniteSets, SequencesExt, FiniteSetsExt

CONSTANT HexDigits  \* of a \u escape: 4 in the code

ASSUME AgentAnswerAssumption == HexDigits \in Nat

Fences == {"fence", "json"}
Marks == {"{", "}", "word"} \cup Fences

\* Where one of the marks T is in s.
Places(s, T) == {i \in DOMAIN s : s[i] \in T}

\* What is between the first of the marks T and the next fence, if anything:
\* a set of one sequence or none.
Fenced(s, T) ==
  LET from == Places(s, T)
      to == {j \in Places(s, Fences) : \E i \in from : i < j}
  IN IF to = {} THEN {}
     ELSE {SubSeq(s, Min(from) + 1, Min({j \in to : j > Min(from)}) - 1)}

\* Mutant: the first closing brace ends the object.
BracedFirst(s) ==
  LET from == Places(s, {"{"})
      to == Places(s, {"}"})
  IN IF from = {} \/ to = {} \/ Min(from) > Min(to) THEN {}
     ELSE {SubSeq(s, Min(from), Min(to))}

\* From the first opening brace to the last closing one.
Braced(s) ==
  LET from == Places(s, {"{"})
      to == Places(s, {"}"})
  IN IF from = {} \/ to = {} \/ Min(from) > Max(to) THEN {}
     ELSE {SubSeq(s, Min(from), Max(to))}

\* The first of the ways in `ways` that finds something, or s as it is.
FirstFound(ways, s) ==
  LET found == {k \in DOMAIN ways : ways[k] # {}}
  IN IF found = {} THEN s ELSE CHOOSE t \in ways[Min(found)] : TRUE

ExtractJsonBlock(s) ==
  FirstFound(<<Fenced(s, {"json"}), Fenced(s, Fences), Braced(s)>>, s)

BeginsWithBrace(t) == t # <<>> /\ t[1] = "{"

ExtractJsonFromResponse(s) ==
  IF BeginsWithBrace(s) THEN s
  ELSE FirstFound(<<Fenced(s, {"json"}),
                    {t \in Fenced(s, Fences) : BeginsWithBrace(t)},
                    Braced(s)>>, s)

\* s is one JSON object.
IsObject(s) ==
  LET depth(i) == Cardinality({k \in 1..i : s[k] = "{"})
                    - Cardinality({k \in 1..i : s[k] = "}"})
  IN /\ BeginsWithBrace(s)
     /\ Places(s, Fences) = {}
     /\ \A i \in DOMAIN s : depth(i) > 0 <=> i < Len(s)
     /\ depth(Len(s)) = 0

\* ClaudeSpawner::parse_response on the text in the `result` of the envelope:
\* the object, an error, or a panic when the slice's end is before its start.
\* A closing brace right before the opening one makes an empty slice.
ParseResponse(s) ==
  IF IsObject(s) THEN s
  ELSE IF Places(s, {"{"}) = {} \/ Places(s, {"}"}) = {} THEN <<"err">>
  ELSE IF Max(Places(s, {"}"})) < Min(Places(s, {"{"})) - 1 THEN <<"panic">>
  ELSE IF \E t \in Braced(s) : IsObject(t) THEN CHOOSE t \in Braced(s) : TRUE
  ELSE <<"err">>

----------------------------------------------------------------------------
(***************************************************************************)
(* For sanitize_json_escapes a text is a sequence of "quote", "slash" (a   *)
(* backslash), "u", "n" (any other valid escape), and "d", a hexadecimal   *)
(* digit that is no escape.                                                *)
(***************************************************************************)
ValidEscape == {"quote", "slash", "u", "n"}
Chars == ValidEscape \cup {"d"}

\* One character.  `slash`: a backslash has been read and waits for what
\* follows it; `hex`: digits of \u that are passed through, whatever they are.
Scan(scan, c) ==
  IF scan.hex > 0
    THEN [scan EXCEPT !.hex = @ - 1, !.out = Append(@, c)]
  ELSE IF scan.mode = "slash"
    THEN [mode |-> "string",
          hex |-> IF c = "u" THEN HexDigits ELSE 0,
          out |-> scan.out \o (IF c \in ValidEscape THEN <<"slash", c>>
                                                  ELSE <<"slash", "slash", c>>)]
  ELSE IF c = "slash" /\ scan.mode = "string"
    THEN [scan EXCEPT !.mode = "slash"]
  ELSE [mode |-> IF c # "quote" THEN scan.mode
                 ELSE IF scan.mode = "text" THEN "string" ELSE "text",
        hex |-> 0, out |-> Append(scan.out, c)]

SanitizeJsonEscapes(s) ==
  LET end == FoldLeft(Scan, [mode |-> "text", hex |-> 0, out |-> <<>>], s)
  IN IF end.mode = "slash" THEN Append(end.out, "slash") ELSE end.out

----------------------------------------------------------------------------
\* How many backslashes stand right before place i.
Slashes(s, i) ==
  Max({k \in 0..(i - 1) : \A j \in (i - k)..(i - 1) : s[j] = "slash"})

Escaped(s, i) == Slashes(s, i) % 2 = 1

Quotes(s, i) == Cardinality({j \in 1..i : s[j] = "quote" /\ ~ Escaped(s, j)})

\* s is JSON but for invalid escapes: strings are closed, backslashes are in
\* strings only, and \u has its digits.
JsonText(s) ==
  /\ Quotes(s, Len(s)) % 2 = 0
  /\ \A i \in DOMAIN s : s[i] = "slash" => Quotes(s, i) % 2 = 1
  /\ \A i \in DOMAIN s : s[i] = "u" /\ Escaped(s, i) =>
       \A j \in (i + 1)..(i + HexDigits) : j \in DOMAIN s /\ s[j] = "d"

\* The escapes of s that JSON does not have.
BadEscapes(s) == {i \in DOMAIN s : s[i] = "d" /\ Escaped(s, i)}
=============================================================================
