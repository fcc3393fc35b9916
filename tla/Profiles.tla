------------------------------- MODULE Profiles -------------------------------
(***************************************************************************)
(* From the agent's answer to records: build_site_profile of               *)
(* src/src/main.rs and SelectorExtractor of src/src/parser/selector.rs.    *)
(*                                                                         *)
(* A text is a sequence of marks: "1" is a digit, "h" the beginning of an  *)
(* absolute URL, "." "," and "-" themselves, "x" anything else.  What may  *)
(* be missing is a set of one or none.                                     *)
(***************************************************************************)
EXTENDS Selection, FiniteSetsExt

\* type: the page type that comes first in the memory's map, whose order is
\* not fixed.
BuildSiteProfile(response, type) ==
  LET first == UNION {{m[t] : t \in DOMAIN m \cap {type}} : m \in response.memory}
      container == UNION {s.container : s \in first}
  IN [container |-> IF container = {} THEN "div" ELSE CHOOSE c \in container : TRUE,
      fields |-> IF response.configs # <<>>
                   THEN Kept(response.configs,
                             {f \in ToSet(response.configs) : f.selector # {}})
                   ELSE SetToSeq({f \in UNION {s.fields : s \in first} : f.selector # {}})]

----------------------------------------------------------------------------
PriceMarks == {"1", ".", ",", "-", "x"}

Count(text, m) == Cardinality({i \in DOMAIN text : text[i] = m})

\* What f64 reads.
IsFloat(text) ==
  /\ Count(text, "1") > 0
  /\ Count(text, ".") <= 1
  /\ \A i \in DOMAIN text : text[i] = "-" => i = 1

\* Transform::ParseNumber: every "." of the text stays, that of "rub." too.
ParseNumber(text) ==
  LET kept == Kept(text, {"1", ".", ",", "-"})
      dotted == [i \in DOMAIN kept |-> IF kept[i] = "," THEN "." ELSE kept[i]]
  IN {t \in {dotted} : IsFloat(t)}

\* "same" is Trim and the like; "match" a regular expression with the
\* group "1".
ApplyTransform(text, transform) ==
  CASE transform = "number" -> ParseNumber(text)
    [] transform = "match" -> IF Count(text, "1") > 0 THEN {<<"1">>} ELSE {}
    [] OTHER -> {text}

\* A container maps the selectors that find something in it to the text
\* they find.  A selector that does not parse finds nothing.
ExtractField(container, field) ==
  {t \in UNION {ApplyTransform(
                  IF field.prefix # <<>> /\ ~ IsPrefix(<<"h">>, container[s])
                    THEN field.prefix \o container[s] ELSE container[s],
                  field.transform) : s \in field.selector \cap DOMAIN container} :
     t # <<>>}

\* The later of two fields of one name wins, if it finds something.
RecordOf(container, fields) ==
  LET found == {i \in DOMAIN fields : ExtractField(container, fields[i]) # {}}
      last(name) == Max({i \in found : fields[i].name = name})
  IN [name \in {fields[i].name : i \in found} |->
        CHOOSE t \in ExtractField(container, fields[last(name)]) : TRUE]

\* Mutant: the object is not a new one for every container.
ExtractRecordsShared(containers, fields) ==
  FoldLeft(LAMBDA rs, c :
             LET r == RecordOf(c, fields) @@ (IF rs = <<>> THEN <<>> ELSE Last(rs))
             IN IF DOMAIN r = {} THEN rs ELSE Append(rs, r),
           <<>>, containers)

\* SelectorExtractor::extract.
ExtractRecords(containers, fields) ==
  LET all == [i \in DOMAIN containers |-> RecordOf(containers[i], fields)]
  IN Kept(all, {r \in ToSet(all) : DOMAIN r # {}})
=============================================================================
