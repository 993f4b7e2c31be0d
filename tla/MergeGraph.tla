----------------------------- MODULE MergeGraph -----------------------------
(* The graphs of M8 (m8/graph_extract.py, m8/mint.py): what the merge reads *)
(* of the Works in the corpus graph g that M3 wrote, the canonical Works    *)
(* it builds from scratch, and what it copies into canonical.ttl as it is.  *)
(* Which Works are merged is the business of MergeGroups.  A hash in a URI  *)
(* or in the id of a bnode is the text it is taken of.                      *)
EXTENDS RdfGraph

CONSTANTS Variants      \* contribution variants: [work, label, variant]

IsRaw(t) == In("raw", t)
Helmet == Uri("source", "helmet")
Type(n, c) == <<n, "rdf:type", Bffi(c)>>
Each(s, p, S) == {<<s, p, o>> : o \in S}
LabelIn(g, n) == Maybe(Texts(Objects(g, n, "rdfs:label")))
PrefLabels(g, n) == Literals(Objects(g, n, "skos:prefLabel"))
OrEmpty(m) == IF m = {} THEN "" ELSE The(m)
Hash(parts) == FoldLeft(LAMBDA id, part : id \o "|" \o part, "", parts)

-----------------------------------------------------------------------------
(* What is read of a raw Work w.                                           *)

Expressions(g, w) == Uris(Objects(g, w, "bffi:hasExpression"))
Contributions(g, s) == Objects(g, s, "bffi:contribution")
IsPrimary(g, c) == HasType(g, c, Bffi("PrimaryContribution"))
PrimaryContributions(g, w) == {c \in Contributions(g, w) : IsPrimary(g, c)}
Agents(g, c) == Objects(g, c, "bffi:agent")
PrimaryAgent(g, w) == Maybe(UNION {Uris(Agents(g, c)) : c \in PrimaryContributions(g, w)})

IsTranslator(g, c) ==
  \E r \in Objects(g, c, "bffi:role") :
    r = Uri("relators", "trl") \/ \E l \in Texts(Objects(g, r, "rdfs:label")) : Found("translator", l) # {}

\* The least of the agents of the Work and its Expressions who did not
\* translate it; which is the least is fixed.
FirstContributor(g, w) ==
  LET of(s) == UNION {Maybe(Uris(Agents(g, c))) : c \in {c \in Contributions(g, s) : ~IsTranslator(g, c)}}
  IN Maybe(of(w) \cup UNION {of(e) : e \in Expressions(g, w)})

\* Of a Work nobody contributed to: its title, content type and language.
AnonymousAnchor(g, w) ==
  LET of(p) == Maybe(UNION {Uris(Objects(g, e, p)) : e \in Expressions(g, w)})
      key(m) == OrEmpty({t[2] \o Text(t) : t \in m})
  IN {Uri("anonymous", Hash(<<Spell("folded", Text(l)), key(of("bffi:content")), key(of("bffi:language"))>>)) :
        l \in Maybe(PrefLabels(g, w))}

\* The creator a Work is minted under, and which slot it came from.
MintAnchor(g, w) ==
  LET slot(kind, m) == {[kind |-> kind, creator |-> u] : u \in m}
  IN FirstOf(<<slot("primary", PrimaryAgent(g, w)), slot("first-contributor", FirstContributor(g, w)),
               slot("anonymous-work", AnonymousAnchor(g, w))>>)

RoleUri(g, c) == Maybe(Uris(Objects(g, c, "bffi:role")))
RoleLabel(g, c) == Maybe(UNION {LabelIn(g, r) : r \in {r \in Objects(g, c, "bffi:role") : ~IsUri(r)}})

\* Primary agents need a URI and a label.
ContributionTargets(g, w) ==
  UNION {{[agent |-> a, label |-> The(LabelIn(g, a)), role |-> RoleUri(g, c), roleLabel |-> RoleLabel(g, c)] :
            a \in {a \in Uris(Agents(g, c)) : LabelIn(g, a) # {}}} : c \in PrimaryContributions(g, w)}

\* The other contributions, on the Expressions: a URI or a label will do.
ExpressionContributions(g, w) ==
  LET agent(c) == Maybe(Agents(g, c))
      of(e, c) == [expression |-> e, agent |-> Uris(agent(c)), label |-> UNION {LabelIn(g, a) : a \in agent(c)},
                   role |-> RoleUri(g, c), roleLabel |-> RoleLabel(g, c)]
      all == UNION {{of(e, c) : c \in {c \in Contributions(g, e) : ~IsPrimary(g, c)}} : e \in Expressions(g, w)}
  IN {x \in all : x.agent # {} \/ x.label # {}}

SourceOf(g, t) == Maybe({s \in Objects(g, t, "bf:source") : ~IsBnode(s)})

\* The bib ids of the Manifestations of the Work.
HelmetIds(g, w) ==
  LET manifestations == UNION {Subjects(g, "bffi:expressionManifested", e) : e \in Objects(g, w, "bffi:hasExpression")}
      idents == {i \in UNION {Objects(g, m, "bffi:identifiedBy") : m \in manifestations} :
                   Helmet \in Objects(g, i, "bf:source")}
  IN UNION {Maybe(Texts(Objects(g, i, "rdf:value"))) : i \in idents}

-----------------------------------------------------------------------------
(* The canonical Work w of the Works ws, the anchor first.                 *)

MintWorkUri(creator, title) == Uri("work", Hash(<<Text(creator), Spell("folded", title)>>))

MintExpressions(g, w, ws) ==
  LET own == UNION {{<<w, "bffi:hasExpression", e>>, <<e, "bffi:expressionOf", w>>, Type(e, "Expression")}
                    \cup Each(e, "skos:prefLabel", PrefLabels(g, e)) : e \in UNION {Expressions(g, x) : x \in ws}}
      credit(x) ==
        LET key == Hash(<<Text(x.expression), OrEmpty({Text(a) : a \in x.agent}), OrEmpty(x.label),
                          OrEmpty({Text(r) : r \in x.role}), OrEmpty(x.roleLabel)>>)
            c == Bnode("econ" \o key)
            role == Bnode("erol" \o key)
            agent == IF x.agent # {} THEN The(x.agent) ELSE Bnode("eag" \o key)
        IN {<<x.expression, "bffi:contribution", c>>, Type(c, "Contribution"), <<c, "bffi:agent", agent>>}
           \cup Each(c, "bffi:role", x.role) \cup {<<agent, "rdfs:label", Lit(l)>> : l \in x.label}
           \cup (IF x.agent = {} THEN {Type(agent, "Agent")} ELSE {})
           \cup UNION {{<<c, "bffi:role", role>>, Type(role, "Role"), <<role, "rdfs:label", Lit(l)>>} : l \in x.roleLabel}
  IN own \cup UNION {UNION {credit(x) : x \in ExpressionContributions(g, r)} : r \in ws}

\* A URI once; bnodes once for each label and source they have.
MintSubjects(g, w, ws, p) ==
  LET targets == UNION {Objects(g, x, p) : x \in ws}
      sourced(n, t) == {<<n, "bf:source", IF IsUri(t) THEN s ELSE Lit(Text(s))>> : s \in SourceOf(g, t)}
      labelled(n, t) == {<<n, "rdfs:label", Lit(l)>> : l \in LabelIn(g, t)}
      node(t) == IF IsUri(t) THEN t
                 ELSE Bnode("sub" \o Hash(<<Text(w), p, OrEmpty(LabelIn(g, t)), OrEmpty({Text(s) : s \in SourceOf(g, t)})>>))
      kept == {t \in targets : IsUri(t) \/ LabelIn(g, t) # {} \/ SourceOf(g, t) # {}}
  IN UNION {{<<w, p, node(t)>>} \cup labelled(node(t), t) \cup sourced(node(t), t) : t \in kept}

\* Each agent once, with the role of the first Work that names it.
MintPrimaryContributions(g, w, ws) ==
  LET first(seen, x) == IF \E i \in DOMAIN seen : seen[i].agent = x.agent THEN seen ELSE Append(seen, x)
      targets == FoldLeft(LAMBDA seen, x : FoldSet(LAMBDA t, s : first(s, t), seen, ContributionTargets(g, x)), <<>>, ws)
      credit(x) ==
        LET key == Hash(<<Text(w), Text(x.agent)>>)
            c == Bnode("con" \o key)
            role == Bnode("role" \o key)
        IN {<<w, "bffi:contribution", c>>, Type(c, "PrimaryContribution"), <<c, "bffi:agent", x.agent>>,
            <<x.agent, "rdfs:label", Lit(x.label)>>}
           \cup Each(c, "bffi:role", x.role)
           \cup UNION {{<<c, "bffi:role", role>>, Type(role, "Role"), <<role, "rdfs:label", Lit(l)>>} : l \in x.roleLabel}
  IN UNION {credit(x) : x \in ToSet(targets)}

AdminMetadataUri(w) == Uri("adminmeta", Text(w))
MintAdminMetadata(g, w, ws) ==
  LET admin == AdminMetadataUri(w)
  IN {<<w, "bffi:adminMetadata", admin>>, Type(admin, "AdminMetadata"), <<admin, "bffi:adminMetadataFor", w>>,
      <<admin, "bffi:descriptionAuthentication", Uri("auth", "auto-merged")>>}
     \cup {<<admin, "bffi:sourceMetadata", Uri("helmet", b)>> : b \in UNION {HelmetIds(g, x) : x \in ws}}

\* _emit_canonical_work
CanonicalWork(g, seq, anchor, w) ==
  LET ws == ToSet(seq)
  IN {Type(w, "Work"), <<w, "rdf:type", Uri("skos", "Concept")>>, <<w, "bffi-prov:mintAnchor", Uri("anchor", anchor.kind)>>}
     \cup Each(w, "skos:prefLabel", UNION {PrefLabels(g, x) : x \in ws})
     \cup Each(w, "prov:wasDerivedFrom", ws)
     \cup MintExpressions(g, w, ws) \cup MintAdminMetadata(g, w, ws) \cup MintPrimaryContributions(g, w, seq)
     \cup MintSubjects(g, w, ws, "bffi:subject") \cup MintSubjects(g, w, ws, "bffi:genreForm")

\* The merges [work, from, triples] of the groups [members, conflict]: none of
\* a group flagged for review, nor of one whose anchor lacks a creator or a title.
Minted(g, groups) ==
  LET one(seq) ==
        {[work |-> MintWorkUri(a.creator, Text(l)), from |-> ToSet(seq),
          triples |-> CanonicalWork(g, seq, a, MintWorkUri(a.creator, Text(l)))] :
           a \in MintAnchor(g, Head(seq)), l \in Maybe(PrefLabels(g, Head(seq)))}
  IN UNION {one(x.members) : x \in {x \in groups : ~x.conflict}}

-----------------------------------------------------------------------------
(* What is copied from the corpus graph.                                   *)

Followed(t) == IsBnode(t) \/ IsRaw(t)

\* The nodes reached from S over bnodes and raw URIs.
Reached(g, S) ==
  LET reach[nodes \in SUBSET (S \cup {t[3] : t \in g})] ==
        LET next == nodes \cup {t[3] : t \in {t \in g : t[1] \in nodes /\ Followed(t[3])}}
        IN IF next = nodes THEN nodes ELSE reach[next]
  IN reach[S]
Subgraph(g, S) == LET nodes == Reached(g, S) IN {t \in g : t[1] \in nodes}

PropagateManifestations(g) ==
  LET ms == {m \in Subjects(g, "rdf:type", Bffi("Manifestation")) : ~IsLit(m)}
  IN Subgraph(g, ms)
     \cup {<<t[3], "bffi:manifestationOfExpression", t[1]>> :
             t \in {t \in Links(g, "bffi:expressionManifested") : t[1] \in ms}}

ExpressionPassthrough ==
  {"bffi:language", "bffi:content", "bffi:note", "bffi:title", "bffi:summary", "bffi:classification", "bffi:marcKey",
   "rdf:type", "bffi:aggregates", "bffi:aggregatedBy", "skos:prefLabel", "bflc:marcKey"}

\* The components of an aggregate left without theirs.
PropagateExpressionsBare(g) ==
  LET own == {t \in g : t[1] \in Uris(Subjects(g, "rdf:type", Bffi("Expression"))) /\ t[2] \in ExpressionPassthrough}
  IN own \cup Subgraph(g, {t[3] : t \in {t \in own : Followed(t[3])}})

\* Contributions are rebuilt, except those of the components of an aggregate.
PropagateExpressions(g) ==
  LET passed(e) == ExpressionPassthrough \cup (IF Has(g, e, "bffi:aggregatedBy") THEN {"bffi:contribution"} ELSE {})
      own == UNION {{t \in g : t[1] = e /\ t[2] \in passed(e)} : e \in Uris(Subjects(g, "rdf:type", Bffi("Expression")))}
  IN own \cup Subgraph(g, {t[3] : t \in {t \in own : Followed(t[3])}})

PropagateAgentIdentifiers(g) ==
  LET own == {t \in Links(g, "bffi:identifiedBy") : IsRaw(t[1])}
      nodes == {t[3] : t \in {t \in own : IsBnode(t[3])}}
      bnodes == {t \in g : IsBnode(t[1])}
  IN own \cup {t \in bnodes : t[1] \in Reached({t2 \in bnodes : ~IsRaw(t2[3])}, nodes)}

\* The vocabularies of id.loc.gov.
LocVocabularies == {"relators", "contentTypes", "mediaTypes", "carriers", "languages", "countries", "issuance",
                    "organizations", "descriptionConventions", "resourceComponents", "mnotetype", "mstatus",
                    "menclvl", "mcolor", "mrecmedium", "mplayspeed", "mplayback", "relationship"}
PropagateLocLabels(g) ==
  {t \in Links(g, "rdfs:label") : IsUri(t[1]) /\ t[1][2] \in LocVocabularies /\ IsLit(t[3])}

SubjectTypes == {Bffi(c) : c \in {"Topic", "Place", "Temporal", "Person", "Organization", "Meeting"}}
PropagateSubjectTyping(g) ==
  LET subjects == Uris({t[3] : t \in Links(g, "bffi:subject")})
  IN {t \in Links(g, "rdf:type") : t[1] \in subjects /\ t[3] \in SubjectTypes}

PropagateFromMarcField(g) == Links(g, "prov:fromMarcField")
PropagateMarcKey(g) == Links(g, "bflc:marcKey")

Statement == Uri("rdf", "Statement")
PropagateSubjectLinks(g) ==
  LET statements == Subjects(g, "rdf:type", Statement)
  IN {t \in g : t[1] \in statements
                /\ (t[2] \in {"rdf:subject", "rdf:predicate", "rdf:object"} \/ (t[2] = "rdf:type" /\ t[3] = Statement))}

\* Only the types of the BFFI namespace.
PropagateWorkTyping(g, minted) ==
  UNION {UNION {Each(e.work, "rdf:type", {t \in Types(g, r) : In("bffi", t)} \ {Bffi("Work")}) : r \in e.from} :
           e \in minted}

PropagateClassifications(g, minted) ==
  LET own == UNION {UNION {Each(e.work, "bffi:classification", Objects(g, r, "bffi:classification")) : r \in e.from} :
                      e \in minted}
  IN own \cup Subgraph(g, {t[3] : t \in {t \in own : Followed(t[3])}})

-----------------------------------------------------------------------------

\* The variant names a cascade found, on the agents so labelled.
WithVariants(graph, minted) ==
  LET works(x) == {e.work : e \in {e \in minted : x.work \in e.from}}
      credits(w) == UNION {Contributions(graph, s) : s \in {w} \cup Objects(graph, w, "bffi:hasExpression")}
      named(x) == {a \in UNION {UNION {Agents(graph, c) : c \in credits(w)} : w \in works(x)} :
                     <<a, "rdfs:label", Lit(x.label)>> \in graph}
  IN graph \cup UNION {{<<a, "skos:altLabel", Lit(x.variant)>> : a \in named(x)} : x \in Variants}

\* canonical.ttl
Merged(g, groups) ==
  LET all(minted) ==
        UNION {e.triples : e \in minted}
        \cup PropagateManifestations(g) \cup PropagateExpressions(g) \cup PropagateAgentIdentifiers(g)
        \cup PropagateLocLabels(g) \cup PropagateSubjectTyping(g) \cup PropagateFromMarcField(g)
        \cup PropagateMarcKey(g) \cup PropagateSubjectLinks(g) \cup PropagateWorkTyping(g, minted)
        \cup PropagateClassifications(g, minted)
  IN CHOOSE graph \in {WithVariants(all(minted), minted) : minted \in {Minted(g, groups)}} : TRUE
=============================================================================
