------------------------------- MODULE PageData -------------------------------
(***************************************************************************)
(* What a page holds besides its markup: AntiBotDetector of                *)
(* src/src/parser/antibot.rs, and the data of single page applications of  *)
(* src/src/parser/json_data.rs.                                            *)
(***************************************************************************)
EXTENDS Selection, FiniteSetsExt

CONSTANTS
  MinPerBlock,  \* bytes of a block that are always shown: 200 in the code
  Header,       \* bytes of a block's header
  Mark          \* the widths of the characters of "... (truncated)"

ASSUME PageDataAssumption ==
  MinPerBlock \in Nat /\ Header \in Nat /\ Mark \in Seq(1..4)

----------------------------------------------------------------------------
\* found: the patterns of the page, as a set of [provider, high].  A
\* provider is sure when one of its patterns is.
Seen(found) ==
  [p \in {q.provider : q \in found} |->
     \E q \in found : q.provider = p /\ q.high]

\* Any of the surest may be named: the map is walked in no fixed order.
Detect(found) ==
  {p \in DOMAIN Seen(found) :
     \A q \in DOMAIN Seen(found) : Seen(found)[q] => Seen(found)[p]}

----------------------------------------------------------------------------
\* The kinds of block, in the order of the patterns.
Sources == <<"next", "nuxt", "window", "state">>

\* A script of the page is [source, valid, skeleton].  The blocks come
\* pattern by pattern, not in the order of the page.
ExtractSpaJson(page) ==
  Flat([k \in DOMAIN Sources |->
          Kept(page, {b \in ToSet(page) : b.source = Sources[k] /\ b.valid})])

\* A text is the sequence of its characters' widths in bytes.
Bytes(text) == FoldLeft(LAMBDA n, w : n + w, 0, text)

\* The first n bytes, or nothing (the code panics) when n is inside a
\* character.
Cut(text, n) ==
  {t \in Prefixes(text) : Bytes(t) = n}

Shortened(text, n) ==
  IF Bytes(text) <= n THEN {text} ELSE {t \o Mark : t \in Cut(text, n)}

Shown(block, perBlock) ==
  {[i \in 1..Header |-> 1] \o t \o <<1>> : t \in Shortened(block.skeleton, perBlock)}

\* summarize_spa_json: a text, or nothing when a cut panics.
Summarize(blocks, max) ==
  LET perBlock == Max({max \div Len(blocks), MinPerBlock})
      parts == [i \in DOMAIN blocks |-> Shown(blocks[i], perBlock)]
  IN IF blocks = <<>> THEN {<<>>}
     ELSE IF \E i \in DOMAIN parts : parts[i] = {} THEN {}
     ELSE Shortened(Flat([i \in DOMAIN parts |-> CHOOSE t \in parts[i] : TRUE]), max)

----------------------------------------------------------------------------
(***************************************************************************)
(* navigate_json_path.  A path is a sequence of marks: ".", "[", "]" and   *)
(* words of one byte, of which Digits are numbers.  A document is the set  *)
(* of its nodes; a node is the way to it from the root, by steps           *)
(* [name, index].                                                          *)
(***************************************************************************)
CONSTANT Digits

PathMarks == {".", "[", "]"}

\* The parts of s between the marks m.
Split(s, m) ==
  FoldLeft(LAMBDA parts, c :
             IF c = m THEN Append(parts, <<>>)
             ELSE [parts EXCEPT ![Len(parts)] = Append(@, c)],
           <<<<>>>>, s)

ByName(n) == [name |-> n, index |-> FALSE]
ByIndex(d) == [name |-> d, index |-> TRUE]
NoStep == ByName("none")

\* The nodes that paths can be written for: a name that holds a mark is in no
\* path, and "none" stands for a word that no document has.
IsNode(node) ==
  /\ IsSequence(node)
  /\ \A i \in DOMAIN node : LET n == node[i].name IN
       /\ n \notin PathMarks \cup {"none"}
       /\ node[i] = ByName(n) \/ (node[i] = ByIndex(n) /\ n \in Digits)

\* Mutant: only the first index of a segment is followed.
StepsFirst(seg) ==
  LET opens == {i \in DOMAIN seg : seg[i] = "["}
      at == IF opens = {} THEN Len(seg) + 1 ELSE Min(opens)
      chunks == Front(Split(SubSeq(seg, at, Len(seg)), "]"))
  IN [i \in 1..Min({1, at - 1}) |-> ByName(seg[i])]
       \o [i \in 1..Min({1, Len(chunks)}) |->
            IF Len(chunks[i]) = 2 /\ chunks[i][2] \in Digits
              THEN ByIndex(chunks[i][2]) ELSE NoStep]

\* The steps of a segment: its name, then what is before each "]", of which
\* the first byte is skipped unseen.  What follows the last "]" is ignored.
Steps(seg) ==
  LET opens == {i \in DOMAIN seg : seg[i] = "["}
      at == IF opens = {} THEN Len(seg) + 1 ELSE Min(opens)
      name == SubSeq(seg, 1, at - 1)
      chunks == Front(Split(SubSeq(seg, at, Len(seg)), "]"))
  IN (IF name = <<>> THEN <<>>
      ELSE <<IF Len(name) = 1 THEN ByName(name[1]) ELSE NoStep>>)
       \o [i \in DOMAIN chunks |->
            IF Len(chunks[i]) = 2 /\ chunks[i][2] \in Digits
              THEN ByIndex(chunks[i][2]) ELSE NoStep]

\* The node the path leads to, or nothing.
Navigate(doc, path) ==
  LET segs == Split(path, ".")
      way == Flat([i \in DOMAIN segs |-> Steps(segs[i])])
  IN {way} \cap doc

\* The path that leads to a node.
Spell(way) ==
  LET text == [i \in DOMAIN way |->
        IF way[i].index THEN <<"[", way[i].name, "]">>
        ELSE IF i = 1 THEN <<way[i].name>> ELSE <<".", way[i].name>>]
  IN Flat(text)
=============================================================================
