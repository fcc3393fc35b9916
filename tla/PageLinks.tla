------------------------------ MODULE PageLinks ------------------------------
(***************************************************************************)
(* The two extractors of a page's links: LinkExtractor of                  *)
(* src/src/parser/links.rs, which collect-links uses, and                  *)
(* HtmlLinkExtractor of src/src/core/extract.rs, which is the engine's.    *)
(*                                                                         *)
(* A URL is [scheme, host, path, fragment]; a host is the sequence of its  *)
(* labels, "http" stands for https as well.  An href is                    *)
(* [form, url]: "absolute"; "relative", of which the path and the fragment *)
(* count; "anchor", of which the fragment does; "mail" (and javascript:)   *)
(* and "other" for the schemes without a host; "bad", which does not       *)
(* parse.  A page is [url, base, hrefs], the base being that of the first  *)
(* <base href>, as a set of one or none.                                   *)
(***************************************************************************)
EXTENDS Selection

Urls == [scheme : STRING, host : Seq(STRING), path : STRING, fragment : STRING]
Hrefs == [form : {"absolute", "relative", "anchor", "mail", "other", "bad"}, url : Urls]
WebPages == [url : Urls, base : SUBSET Urls, hrefs : Seq(Hrefs)]

Join(base, h) ==
  CASE h.form = "bad" -> {}
    [] h.form = "anchor" -> {[base EXCEPT !.fragment = h.url.fragment]}
    [] h.form = "relative" -> {[base EXCEPT !.path = h.url.path,
                                            !.fragment = h.url.fragment]}
    [] OTHER -> {h.url}

\* is_same_or_subdomain.
InDomain(host, domain) == host = domain \/ (domain # <<>> /\ IsSuffix(domain, host))

Stripped(u) == [u EXCEPT !.fragment = ""]

\* What the filter lets through.  Its domains, and its patterns, are a set of
\* one set or none; a pattern matches the paths that have it.
Passes(u, filter) ==
  /\ filter.httpOnly => u.scheme = "http"
  /\ \A ds \in filter.domains : \E d \in ds : InDomain(u.host, d)
  /\ \A ps \in filter.patterns : u.path \in ps

\* The page's own address, or that of its <base>.
Base(page) == IF page.base = {} THEN page.url ELSE CHOOSE b \in page.base : TRUE

\* Mutant: the fragment is stripped after the duplicates are dropped.
ExtractStripsLast(page, filter) ==
  LET all == Present([i \in DOMAIN page.hrefs |-> Join(Base(page), page.hrefs[i])])
      kept == Kept(Distinct(all), {u \in ToSet(all) : Passes(u, filter)})
  IN [i \in DOMAIN kept |-> IF filter.strip THEN Stripped(kept[i]) ELSE kept[i]]

\* LinkExtractor::extract.
Extract(page, filter) ==
  LET all == Present([i \in DOMAIN page.hrefs |-> Join(Base(page), page.hrefs[i])])
      cut == [i \in DOMAIN all |-> IF filter.strip THEN Stripped(all[i]) ELSE all[i]]
  IN Distinct(Kept(cut, {u \in ToSet(cut) : Passes(u, filter)}))

ExtractInternal(page) ==
  Extract(page, [domains |-> {{page.url.host}}, patterns |-> {},
                 strip |-> TRUE, httpOnly |-> TRUE])

IsAllowed(u, domains) == domains = {} \/ \E d \in domains : InDomain(u.host, d)

\* HtmlLinkExtractor::extract_links: no <base>, no pattern, no test of the
\* scheme, and fragments stay.
ExtractLinks(page, domains) ==
  LET hrefs == Kept(page.hrefs, {h \in ToSet(page.hrefs) : h.form \notin {"anchor", "mail"}})
      all == Present([i \in DOMAIN hrefs |-> Join(page.url, hrefs[i])])
  IN Distinct(Kept(all, {u \in ToSet(all) : IsAllowed(u, domains)}))
=============================================================================
