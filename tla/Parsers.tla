-------------------------------- MODULE Parsers --------------------------------
(***************************************************************************)
(* The functions that read what the agent and the web return, called one   *)
(* at a time on any input of a bounded set; each property compares what    *)
(* one of them returns with a definition of its own of what it should.     *)
(***************************************************************************)
EXTENDS AgentAnswer, PageLinks, PageData, BrowserActions, Profiles, TLC

CONSTANTS
  Answers,     \* what the agent may answer, see AgentAnswer
  Texts,       \* JSON texts with and without bad escapes
  Pages,       \* pages with links, see PageLinks
  Domains,     \* lists of allowed domains
  Patterns,    \* patterns of anti-bot systems
  Scripts,     \* pages as sequences of data scripts, see PageData
  Limits,      \* lengths asked of a summary
  Documents,   \* JSON documents, as sets of nodes
  Paths,       \* JSON paths
  Responses,   \* answers to a discovery, see Profiles
  Containers,  \* pages as sequences of containers
  Plans,       \* sequences of browser actions
  Prices       \* texts of marks

ASSUME ParsersAssumption ==
  /\ Answers \subseteq Seq(Marks)
  /\ Texts \subseteq Seq(Chars)
  /\ Pages \subseteq WebPages
  /\ \A p \in Pages : p.url.host # <<>>
  /\ Limits \subseteq Nat
  /\ \A page \in Scripts :
       IsSequence(page) /\ \A b \in ToSet(page) : b.skeleton \in Seq(1..4)
  /\ \A doc \in Documents : \A node \in doc : IsNode(node)
  /\ \A path \in Paths : IsSequence(path)
  /\ \A r \in Responses :
       /\ IsSequence(r.configs)
       /\ \A m1, m2 \in r.memory : m1 = m2
       /\ \A m \in r.memory : \A t \in DOMAIN m : IsFiniteSet(m[t].fields)
  /\ \A containers \in Containers : IsSequence(containers)
  /\ Plans \subseteq Seq(Actions)
  /\ Prices \subseteq Seq(PriceMarks)

VARIABLES
  call,    \* the function called, "none" between two calls
  input,
  output

vars == <<call, input, output>>

Init ==
  /\ call = "none"
  /\ input = <<>>
  /\ output = <<>>

\* f is called on x and returns y.
Call(f, x, y) ==
  /\ call' = f
  /\ input' = x
  /\ output' = y

Return ==
  /\ call # "none"
  /\ call' = "none"
  /\ input' = <<>>
  /\ output' = <<>>

ReadAnswer ==
  \E s \in Answers :
    Call("answer", s, [block |-> ExtractJsonBlock(s),
                       visual |-> ExtractJsonFromResponse(s),
                       parsed |-> ParseResponse(s)])

Sanitize == \E s \in Texts : Call("sanitize", s, SanitizeJsonEscapes(s))

ReadLinks ==
  \E p \in Pages, ds \in Domains :
    Call("links", [page |-> p, domains |-> ds],
         [engine |-> ExtractLinks(p, ds),
          parser |-> Extract(p, [domains |-> IF ds = {} THEN {} ELSE {ds},
                                 patterns |-> {}, strip |-> FALSE, httpOnly |-> FALSE]),
          internal |-> ExtractInternal(p)])

DetectAntiBot ==
  \E found \in SUBSET Patterns : \E p \in Detect(found) : Call("antibot", found, p)

Summary ==
  \E page \in Scripts, max \in Limits :
    Call("summary", [page |-> page, max |-> max], Summarize(ExtractSpaJson(page), max))

NavigatePath ==
  \E doc \in Documents, path \in Paths :
    Call("navigate", [doc |-> doc, path |-> path], Navigate(doc, path))

\* A profile from an answer, and records with it.
Extraction ==
  \E r \in Responses, containers \in Containers :
    \E type \in UNION {DOMAIN m : m \in r.memory} \cup {"none"} :
      LET profile == BuildSiteProfile(r, type)
      IN /\ type = "none" => \A m \in r.memory : DOMAIN m = {}
         /\ Call("extract", [response |-> r, type |-> type, containers |-> containers],
                 [profile |-> profile,
                  records |-> ExtractRecords(containers, profile.fields)])

ReadPrice == \E text \in Prices : Call("price", text, ParseNumber(text))

Interact ==
  \E actions \in Plans, reads, shoots \in BOOLEAN :
    Call("interact", [actions |-> actions, shoots |-> shoots],
         ExecuteActions(actions, reads, shoots))

Read ==
  /\ call = "none"
  /\ \/ ReadAnswer
     \/ Sanitize
     \/ ReadLinks
     \/ DetectAntiBot
     \/ Summary
     \/ NavigatePath
     \/ Extraction
     \/ ReadPrice
     \/ Interact

Next == Read \/ Return

Spec == Init /\ [][Next]_vars

----------------------------------------------------------------------------
\* What stands between i and j is all there is of braces, and is either in no
\* fence or in one of its own.
Alone(s, i, j) ==
  LET outside == DOMAIN s \ (i..j)
      fences == {k \in outside : s[k] \in Fences}
  IN /\ \A k \in outside : s[k] \notin {"{", "}"}
     /\ fences = {} \/ (fences = {i - 1, j + 1} /\ s[j + 1] = "fence")

(***************************************************************************)
(* The three ways the code has to find the object in an answer (main.rs    *)
(* 503, visual.rs 64, spawn.rs 86) agree: an object that is alone, bare,   *)
(* in prose or in a fence of its own, is found by each.  Left open is what *)
(* visual.rs makes of an answer that begins with the object and goes on    *)
(* after it: it returns that answer as it is, where its doc speaks of a    *)
(* direct parse first, and of falling back from it.                        *)
(***************************************************************************)
EveryReaderFindsIt ==
  call = "answer" =>
    \A i, j \in DOMAIN input :
      LET object == SubSeq(input, i, j)
      IN IsObject(object) /\ Alone(input, i, j) =>
           /\ output.block = object
           /\ output.parsed = object
           /\ i > 1 \/ j = Len(input) => output.visual = object

(***************************************************************************)
(* parse_response slices the answer from its first opening brace to its    *)
(* last closing one and panics when these are the wrong way round with     *)
(* something in between (spawn.rs 107): that never loses an object.  What  *)
(* it returns otherwise is an object of the answer.                        *)
(***************************************************************************)
NoObjectIsLostToAPanic ==
  call = "answer" =>
    LET objects == {o \in SubSeqs(input) : IsObject(o)}
    IN /\ output.parsed = <<"panic">> => objects = {}
       /\ output.parsed \in objects \cup {<<"err">>, <<"panic">>}

(***************************************************************************)
(* sanitize_json_escapes (main.rs 432) doubles the backslash of every      *)
(* escape whose letter JSON does not know, and changes nothing else: the   *)
(* text stays well quoted, and one that needs no mending comes back as it  *)
(* was.  The text is one in which every \u has its digits: what is made of *)
(* a \u without them is left open.                                         *)
(***************************************************************************)
SanitizeMendsEscapes ==
  call = "sanitize" /\ JsonText(input) =>
    /\ JsonText(output)
    /\ BadEscapes(output) = {}
    /\ Len(output) = Len(input) + Cardinality(BadEscapes(input))
    /\ BadEscapes(input) = {} => output = input

(***************************************************************************)
(* The two link extractors, written apart (core/extract.rs 29, links.rs    *)
(* 57), find the same links, in the same order, on a page without          *)
(* <base href> whose links are neither anchors of the page nor addresses   *)
(* of another kind.                                                        *)
(***************************************************************************)
SameLinks ==
  /\ call = "links"
  /\ input.page.base = {}
  /\ \A i \in DOMAIN input.page.hrefs : input.page.hrefs[i].form \notin {"anchor", "mail"}
  => output.engine = output.parser

(***************************************************************************)
(* extract_internal (links.rs 106) gives the http links of the page to its *)
(* host and the hosts below it, without fragments, each once although      *)
(* links may differ in their fragments only, and in the order of the page. *)
(* collect-links calls extract itself (main.rs 1611), on pages of the      *)
(* seed's host with this filter when it is to stay in the seed's domain.   *)
(***************************************************************************)
InternalLinksExact ==
  call = "links" =>
    LET page == input.page
        links(i) == {u \in {Stripped(u) : u \in Join(Base(page), page.hrefs[i])} :
                       u.scheme = "http" /\ IsSuffix(page.url.host, u.host)}
        first(u) == Min({i \in DOMAIN page.hrefs : u \in links(i)})
        found == output.internal
    IN /\ ToSet(found) = UNION {links(i) : i \in DOMAIN page.hrefs}
       /\ \A i, j \in DOMAIN found : i < j => first(found[i]) < first(found[j])

(***************************************************************************)
(* Whatever order the providers are walked in, the one that detect names   *)
(* (antibot.rs 106) has a sure pattern on the page when any provider has.  *)
(***************************************************************************)
SurestProvider ==
  call = "antibot" =>
    \E q \in input :
      /\ q.provider = output
      /\ q.high \/ \A r \in input : ~ r.high

(***************************************************************************)
(* A summary of the page's data (json_data.rs 129) is never more than its  *)
(* mark longer than asked, and cutting it, which panics inside a character,*)
(* succeeds when a single block of single bytes is cut.  With several      *)
(* blocks the second cut may fall into the first one's own mark.           *)
(***************************************************************************)
SummaryBounded ==
  call = "summary" =>
    /\ \A t \in output : Bytes(t) <= input.max + Bytes(Mark)
    /\ Len(input.page) = 1 /\ ToSet(input.page[1].skeleton) \subseteq {1} => output # {}

(***************************************************************************)
(* The path a node is spelled with leads to it and to no other, and a path *)
(* of which every bracket is closed, and followed by a dot or a bracket,   *)
(* leads nowhere but along its own words: navigate_json_path               *)
(* (json_data.rs 209) ignores parts of other paths.                        *)
(***************************************************************************)
EveryNodeHasItsPath ==
  call = "navigate" =>
    LET p == input.path
        closed == \A i \in DOMAIN p :
          /\ p[i] = "[" => i + 2 <= Len(p) /\ p[i + 2] = "]"
          /\ p[i] = "]" => i = Len(p) \/ p[i + 1] \in {".", "["}
    IN /\ \A node \in input.doc : p = Spell(node) => output = {node}
       /\ closed =>
            \A node \in output : [i \in DOMAIN node |-> node[i].name] =
              Kept(p, {c \in ToSet(p) : c \notin PathMarks})

(***************************************************************************)
(* A profile built from the agent's memory (main.rs 572) has the container *)
(* and the fields of one page type, however the memory's map is walked,    *)
(* and every field of a profile has a selector.                            *)
(***************************************************************************)
ProfileIsOfOnePageType ==
  call = "extract" =>
    LET p == output.profile
    IN /\ \A i \in DOMAIN p.fields : p.fields[i].selector # {}
       /\ input.response.configs = <<>> /\ p.fields # <<>> =>
            \E m \in input.response.memory : \E t \in DOMAIN m :
              /\ ToSet(p.fields) \subseteq m[t].fields
              /\ IF m[t].container = {} THEN p.container = "div"
                                       ELSE p.container \in m[t].container

\* Records are of the containers in which a field finds something, in their
\* order, and have values of their own containers.
Own(records, containers, fields) ==
  LET found(c) == {f \in ToSet(fields) : ExtractField(c, f) # {}}
      full == Kept(containers, {c \in ToSet(containers) : found(c) # {}})
  IN /\ Len(records) = Len(full)
     /\ \A k \in DOMAIN full :
          /\ DOMAIN records[k] = {f.name : f \in found(full[k])}
          /\ \A f \in found(full[k]) :
               \E g \in found(full[k]) :
                 g.name = f.name /\ records[k][f.name] \in ExtractField(full[k], g)

(***************************************************************************)
(* extract (selector.rs 27) returns the containers in which a field finds  *)
(* something, in the order of the page; each value of a record was found   *)
(* in its own container by a field of that name.                           *)
(***************************************************************************)
NoRecordBorrows ==
  call = "extract" => Own(output.records, input.containers, output.profile.fields)

\* What ParseNumber keeps of a text, and where its separators are.
Kernel(text) == Kept(text, PriceMarks \ {"x"})
Cuts(text) == {i \in DOMAIN text : text[i] \in {".", ","}}

\* A number: digits, at most one separator, between two of them, and at most
\* a sign in front.
PlainNumber(text) ==
  /\ "1" \in ToSet(text)
  /\ "-" \notin ToSet(Tail(text))
  /\ \A i, j \in Cuts(text) : i = j
  /\ \A i \in Cuts(text) : {i - 1, i + 1} \subseteq {k \in DOMAIN text : text[k] = "1"}

(***************************************************************************)
(* What comes out of a price (selector.rs 128) is a number with the digits *)
(* of the text, none more or less; and a text that has but one number, its *)
(* separator a comma or a full stop, gives it, the separator between the   *)
(* same digits.  A separator of thousands is taken for a decimal one.      *)
(***************************************************************************)
PricesAreRead ==
  call = "price" =>
    LET kept == Kernel(input)
    IN /\ \A t \in output : IsFloat(t) /\ Count(t, "1") = Count(kept, "1")
       /\ PlainNumber(kept) =>
            \E t \in output : Len(t) = Len(kept) /\ Cuts(t) = Cuts(kept)

(***************************************************************************)
(* The unit behind a price is no part of it, whatever full stop the unit   *)
(* ends in: "1 500,99 rub." is read as 1500.99 (test_transform_parse_number*)
(* of selector.rs, line 269).                                              *)
(***************************************************************************)
UnitIsNoPartOfPrice ==
  call = "price" =>
    \A k \in DOMAIN input :
      LET price == SubSeq(input, 1, k)
      IN /\ "," \in ToSet(price) /\ PlainNumber(Kernel(price))
         /\ SubSeq(input, k + 1, Len(input)) = <<"x", ".">>
         => output = ParseNumber(price)

(***************************************************************************)
(* No failure stops the actions that follow it (interactive.rs 22): every  *)
(* action done is in the page that is returned, those of which a call      *)
(* failed are reported, and no others, but for the dismissing of overlays, *)
(* and a screenshot of an earlier page is returned only when the last one  *)
(* fails.  An action of whose element there is none (click at, scroll to,  *)
(* key, option) is not among either: the caller is not told.               *)
(***************************************************************************)
NothingStopsActions ==
  call = "interact" =>
    LET a == input.actions
    IN \A o \in output :
         /\ o.html = Cardinality({i \in DOMAIN a : a[i].outcome = "done" /\ a[i].kind \in OnPage})
         /\ ToSet(o.failed) = {i \in DOMAIN a : a[i].outcome = "failed" /\ a[i].kind # "dismiss"}
         /\ \A p \in o.screenshot : p # o.html => ~ input.shoots

----------------------------------------------------------------------------
\* The agent's answer: finding the object in it, and mending its escapes.
AnswersAreRead ==
  EveryReaderFindsIt /\ NoObjectIsLostToAPanic /\ SanitizeMendsEscapes

\* The links of a page, by both extractors.
LinksAreFound == SameLinks /\ InternalLinksExact

\* Anti-bot systems, summaries and paths into the data of a page.
PageDataIsRead == SurestProvider /\ SummaryBounded /\ EveryNodeHasItsPath

\* From the agent's answer to the values of records.
RecordsAreOwn == ProfileIsOfOnePageType /\ NoRecordBorrows /\ PricesAreRead
=============================================================================
