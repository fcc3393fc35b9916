---------------------------- MODULE CrawlEngineMC ---------------------------
(***************************************************************************)
(* CrawlEngine on a site of three URLs, one or two of them starts.         *)
(* Every page may link to any set of URLs, itself included; all entries    *)
(* carry one time stamp, so that equally urgent ones are popped in any     *)
(* order.                                                                  *)
(***************************************************************************)
EXTENDS CrawlEngine, TLC

CONSTANTS u1, u2, u3, p1, p2

TwoUrls == {u1, u2}
ThreeUrls == {u1, u2, u3}
OneStart == {u1}
OnePermit == {p1}
TwoPermits == {p1, p2}
OneStamp == {0}

\* The agent finds nothing, a record and an urgent URL, or two URLs and no
\* record.
MCReplies ==
  {[records |-> 0, next |-> {}],
   [records |-> 1, next |-> {[url |-> u2, priority |-> 3]}],
   [records |-> 0, next |-> {[url |-> u1, priority |-> 2], [url |-> u2, priority |-> 1]}]}

NoReplies == {}

PermitSymmetry == Permutations(Permits)
=============================================================================
