----------------------------- MODULE Correlate ------------------------------
(* M2-post (m2_post/correlator.py, m2_post/token.py): the entities of the  *)
(* BIBFRAME graph of a record are given tokens that name the fields they   *)
(* were made from; a subject, whose URI other records may share, gets an   *)
(* rdf:Statement of its own that carries the token.                        *)
EXTENDS RdfGraph

CONSTANT Raw            \* local name of a raw bib URI -> [bib, kind, tag, ord] of its fragment

Token(bib, f) == bib \o ":" \o f.tag \o ":" \o ToString(f.ord)

\* The fields of a record in document order, numbered within their tags.
Index(fields) ==
  [i \in DOMAIN fields |-> [tag |-> fields[i].tag, subs |-> fields[i].subs,
                            ord |-> Cardinality({k \in 1..i : fields[k].tag = fields[i].tag})]]

\* The text of the first subfield with the code.
SubfieldValue(f, code) ==
  LET with == SelectSeq(f.subs, LAMBDA s : s[1] = code) IN IF with = <<>> THEN "" ELSE with[1][2]

Norm(x) == Spell("norm", x)
Joined(sep, parts) ==
  FoldLeft(LAMBDA x, part : IF x = "" THEN part ELSE IF part = "" THEN x ELSE x \o sep \o part, "", parts)

\* The first field of the pool that passes, if any, gives n its token and
\* leaves the pool.  A state is [g, bib, pool].
Give(s, n, found) ==
  IF found = <<>> THEN s
  ELSE [s EXCEPT !.g = @ \cup {<<n, "prov:fromMarcField", Lit(Token(s.bib, found[1]))>>},
                 !.pool = SelectSeq(@, LAMBDA f : f # found[1])]

-----------------------------------------------------------------------------
(* Entities with a bflc:marcKey.                                           *)

\* The same codes, each as often.
SameCodes(subs, others) ==
  LET times(seq, c) == Cardinality({i \in DOMAIN seq : seq[i][1] = c})
      codes(seq) == {seq[i][1] : i \in DOMAIN seq}
  IN \A c \in codes(subs) \cup codes(others) : times(subs, c) = times(others, c)

\* A field with the subfields of the key, else one with its codes.
FindMatch(pool, key) ==
  LET bucket == SelectSeq(pool, LAMBDA f : f.tag = key.tag)
      exact == SelectSeq(bucket, LAMBDA f : f.subs = key.subs)
  IN Only(IF exact # <<>> THEN exact ELSE SelectSeq(bucket, LAMBDA f : SameCodes(f.subs, key.subs)))

\* The keys are taken by tag and text: here in the fixed order.  A malformed
\* one is not among MarcKeys.
KeyEntities(s) ==
  FoldSet(LAMBDA t, acc : Give(acc, t[1], FindMatch(acc.pool, MarcKeys[Text(t[3])])),
          s, {t \in Links(s.g, "bflc:marcKey") : Text(t[3]) \in DOMAIN MarcKeys})

-----------------------------------------------------------------------------
(* Entities of one record that repeat the text of a field.                 *)

\* type: of the entities; needs: one of these predicates has to be there;
\* predicates: whose texts make the value; sources: the fields to try.
Shape(type, needs, predicates, sources) ==
  [type |-> Bf(type), needs |-> needs, predicates |-> predicates, sources |-> sources]
From(tag, codes) == [tag |-> tag, codes |-> codes, sep |-> " ", what |-> "norm"]
NoteTags == <<"500", "505", "504", "520", "546", "563", "586">>

Shapes ==
  LET single(type, p, sources) == Shape(type, {p}, <<p>>, sources)
      abc == <<"a", "b", "c">>
      simple == <<"bflc:simplePlace", "bflc:simpleAgent", "bflc:simpleDate">>
  IN <<single("Isbn", "rdf:value", <<[From("020", <<"a">>) EXCEPT !.what = "isbn"]>>),
       single("AudioIssueNumber", "rdf:value", <<From("028", <<"a">>)>>),
       single("Local", "rdf:value", <<From("035", <<"a">>)>>),
       Shape("Title", {"bf:mainTitle"}, <<"bf:mainTitle", "bf:subtitle">>,
             <<From("245", <<"a", "b">>), From("240", <<"a", "n", "p", "l">>),
               [From("730", <<"a", "g">>) EXCEPT !.sep = " / "],
               [From("740", <<"a", "g">>) EXCEPT !.sep = " / "]>>),
       single("VariantTitle", "bf:mainTitle", <<From("246", <<"a">>)>>),
       single("Extent", "rdfs:label", <<From("300", abc)>>),
       single("Note", "rdfs:label", [i \in DOMAIN NoteTags |-> From(NoteTags[i], <<"a">>)]),
       Shape("ProvisionActivity", Range(simple), simple, <<From("264", abc), From("260", abc)>>)>>

EntityValue(g, n, shape) ==
  Joined(" ", [i \in DOMAIN shape.predicates |->
                 LET texts == Texts(Objects(g, n, shape.predicates[i]))
                 IN IF texts = {} THEN "" ELSE Norm(The(texts))])
FieldValue(f, source) ==
  Joined(source.sep, [i \in DOMAIN source.codes |-> Spell(source.what, SubfieldValue(f, source.codes[i]))])

\* The first field of the first tag that has the value.
MatchFlatLiteral(pool, value, sources) ==
  FoldLeft(LAMBDA found, source :
             IF found # <<>> THEN found
             ELSE Only(SelectSeq(pool, LAMBDA f : f.tag = source.tag /\ FieldValue(f, source) = value)),
           <<>>, sources)

\* Entities that have a token by now are left alone.
FlatLiteralEntities(s) ==
  LET tokenised == {t[1] : t \in Links(s.g, "prov:fromMarcField")}
      entities(shape) == {n \in Subjects(s.g, "rdf:type", shape.type) \ tokenised :
                            \E p \in shape.needs : Texts(Objects(s.g, n, p)) # {}}
      give(acc, shape) ==
        FoldSet(LAMBDA n, a : Give(a, n, MatchFlatLiteral(a.pool, EntityValue(s.g, n, shape), shape.sources)),
                acc, entities(shape))
  IN FoldLeft(give, s, Shapes)

-----------------------------------------------------------------------------
(* Subjects.                                                               *)

SubjectTags == <<"600", "610", "611", "630", "648", "650", "651", "655">>

\* A Work no other resource is related to, else any.
PrimaryWork(g) ==
  LET works == Subjects(g, "rdf:type", Bf("Work"))
  IN OrElse(Maybe(works \ {t[3] : t \in Links(g, "bf:associatedResource")}), Maybe(works))

Free(g, work, f, used) == Objects(g, work, IF f.tag = "655" THEN "bf:genreForm" ELSE "bf:subject") \ used
Named(g, free, f) == {o \in free : \E x \in Texts(Objects(g, o, "rdfs:label")) : Norm(x) = Norm(SubfieldValue(f, "a"))}
OfTag(free, f) == {o \in free : In("raw", o) /\ Raw[Text(o)].tag = f.tag}
Identified(free, f) == {o \in free : IsUri(o) /\ SubfieldValue(f, "0") = o[2] \o ":" \o Text(o)}

\* Mutant: a target may be found again.
FindSubjectTargetAgain(g, work, f, used) ==
  LET free == Free(g, work, f, {})
  IN FirstOf(<<Maybe(Identified(free, f)), Maybe(Named(g, free, f)), Maybe(OfTag(free, f))>>)

\* By $0, by $a, else whatever has the tag in its URI; each target once.
FindSubjectTarget(g, work, f, used) ==
  LET free == Free(g, work, f, used)
  IN FirstOf(<<Maybe(Identified(free, f)), Maybe(Named(g, free, f)), Maybe(OfTag(free, f))>>)

StatementTriples(bib, work, f, target) ==
  LET statement == Uri("statement", Token(bib, f))
  IN {<<statement, "rdf:type", Uri("rdf", "Statement")>>, <<statement, "rdf:subject", work>>,
      <<statement, "rdf:predicate", Bffi("subject")>>, <<statement, "rdf:object", target>>,
      <<statement, "prov:fromMarcField", Lit(Token(bib, f))>>}

\* All fields of the record, whatever is left of the pool.
SubjectLinks(g, bib, index) ==
  LET mint(work, acc, f) ==
        LET target == FindSubjectTarget(g, work, f, acc.used)
        IN [used |-> acc.used \cup target,
            triples |-> acc.triples \cup UNION {StatementTriples(bib, work, f, o) : o \in target}]
      of(tag) == SelectSeq(index, LAMBDA f : f.tag = tag)
      fields == FoldLeft(LAMBDA seq, tag : seq \o of(tag), <<>>, SubjectTags)
  IN UNION {FoldLeft(LAMBDA acc, f : mint(work, acc, f), [used |-> {}, triples |-> {}], fields).triples :
              work \in PrimaryWork(g)}

-----------------------------------------------------------------------------

\* The graph of the record, enriched.
Correlated(g, bib, fields) ==
  LET index == Index(fields)
      flat == FlatLiteralEntities(KeyEntities([g |-> g, bib |-> bib, pool |-> index])).g
  IN flat \cup SubjectLinks(flat, bib, index)

\* What M3 makes of the tokens: a flat copy of them, and the statements, about
\* the Work whose URI is the hash of the one in BIBFRAME.
PassedByM3(g) ==
  Links(g, "prov:fromMarcField")
  \cup {<<t[1], t[2], IF t[2] = "rdf:subject" THEN Uri("m3", Text(t[3])) ELSE t[3]>> :
          t \in {t \in g : HasType(g, t[1], Uri("rdf", "Statement"))}}
=============================================================================
