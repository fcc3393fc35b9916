---------------------------- MODULE CommandsMC ----------------------------
(***************************************************************************)
(* Two records are wanted, a page has none, one or two.  An extract reads  *)
(* up to three pages.  The sites of collect-links are all those of three   *)
(* pages with the lists of links below; the seed is one of the pages under *)
(* another spelling.                                                       *)
(***************************************************************************)
EXTENDS Commands, TLC

CONSTANTS typed, home, a, b, first, second

MCFound == {0, 1, 2}
MCPages == {first, second}
MCLinks == {home, a, b}
MCLists == {<<>>, <<a>>, <<b, a>>, <<home, a>>, <<a, b, a>>}
MCSites == {[u \in MCLinks \cup {typed} |-> s[IF u = typed THEN home ELSE u]] :
              s \in [MCLinks -> MCLists]}
=============================================================================
