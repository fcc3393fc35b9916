------------------------------ MODULE ParsersMC ------------------------------
(***************************************************************************)
(* Every input of a few marks; documents, pages and profiles as rich as    *)
(* the properties can tell apart.                                          *)
(***************************************************************************)
EXTENDS Parsers

MCAnswers == BoundedSeq(Marks, 6)
MCTexts == BoundedSeq({"quote", "slash", "u", "n", "d"}, 6)
MCPrices == BoundedSeq({"1", ".", ",", "-", "x"}, 5)

Url(scheme, host, path, fragment) ==
  [scheme |-> scheme, host |-> host, path |-> path, fragment |-> fragment]
Site == <<"com">>
Below == <<"sub", "com">>
Other == <<"org">>

MCHrefs ==
  {[form |-> "absolute", url |-> u] :
     u \in {Url("http", Site, "p", ""), Url("http", Site, "p", "f"),
            Url("http", Below, "q", ""), Url("http", Other, "p", ""),
            Url("ftp", Site, "p", "")}}
  \cup {[form |-> f, url |-> Url("http", Site, "q", "f")] :
          f \in {"relative", "anchor", "bad"}}
  \cup {[form |-> "mail", url |-> Url("mail", <<>>, "q", "")]}

MCPages ==
  [url : {Url("http", Site, "p", "")},
   base : {{}, {Url("http", Other, "p", "")}},
   hrefs : BoundedSeq(MCHrefs, 3)]

MCDomains == {{}, {Site}, {Below, Other}}

MCPatterns == [provider : {"cloudflare", "akamai", "imperva"}, high : BOOLEAN]

MCMark == <<3, 1>>
MCScripts ==
  BoundedSeq([source : {"next", "nuxt"}, valid : {TRUE}, skeleton : BoundedSeq({1, 2}, 3)]
             \cup {[source |-> "next", valid |-> FALSE, skeleton |-> <<>>]}, 2)
MCLimits == 0..7

MCDigits == {"0"}
\* {"a": [[0]]} and [{"a": {"0": 0}}].
MCDocuments ==
  {Prefixes(<<ByName("a"), ByIndex("0"), ByIndex("0")>>),
   Prefixes(<<ByIndex("0"), ByName("a"), ByName("0")>>)}
MCPaths ==
  {p \in BoundedSeq({".", "[", "]", "a", "0"}, 5) :
     \A i \in 1..(Len(p) - 1) : ~ {p[i], p[i + 1]} \subseteq {"a", "0"}}
  \cup {Spell(node) : node \in UNION MCDocuments}

Field(name, selector, prefix, transform) ==
  [name |-> name, selector |-> selector, prefix |-> prefix, transform |-> transform]
Title == Field("title", {"s1"}, <<>>, "same")
Link == Field("title", {"s2"}, <<"x">>, "same")
Price == Field("price", {"s2"}, <<>>, "number")
Nothing == Field("price", {}, <<>>, "same")

MCMemories ==
  {{}, {<<>>},
   {[t1 |-> [container |-> {"c1"}, fields |-> {Title}],
     t2 |-> [container |-> {}, fields |-> {Price, Nothing}]]},
   {[t1 |-> [container |-> {"c1"}, fields |-> {Title, Price}],
     t2 |-> [container |-> {"c2"}, fields |-> {Title}]]}}
MCResponses ==
  [configs : {<<>>, <<Title, Link, Price>>, <<Nothing>>}, memory : MCMemories]

MCContainers ==
  BoundedSeq(UNION {[S -> {<<>>, <<"1", "x">>, <<"h">>}] : S \in SUBSET {"s1", "s2"}}, 2)

MCPlans == BoundedSeq(Actions, 3)
=============================================================================
