------------------------------ MODULE Skosify -------------------------------
(* stages/m10/skosify_run.py: the passes that turn canonical.ttl into      *)
(* canonical-skosified.ttl.  Each is an operator from the graph it finds   *)
(* to the graph it leaves; run() applies them in the order of Passes.      *)
EXTENDS RdfGraph

CONSTANTS MtsRoles,     \* <<term, axis>> -> concept: the fi labels of the four collections
          Bridges       \* the triples of the three LoC bridge files

Concept == Uri("skos", "Concept")
RawBib(t) == In("raw", t)

BestLabel(g, n) ==
  LET titles == {c[3] : c \in {c \in Chains(g, "bffi:title", "bffi:mainTitle") : c[1] = n}}
  IN FirstOf(<<Preferred(<<"fi", "sv", "en", "">>, Objects(g, n, "skos:prefLabel"), {}),
               Maybe(Texts(Objects(g, n, "rdfs:label"))),
               Maybe(Texts(Objects(g, n, "skos:altLabel"))),
               Maybe(Texts(titles))>>)

LabelOf(g, S) == Maybe(UNION {BestLabel(g, n) : n \in S})

Unlabelled(g, n) == ~Has(g, n, "skos:prefLabel")

\* m's text, then sep and n's where both are there
Concatenated(m, sep, n) == IF m # {} /\ n # {} THEN {The(m) \o sep \o The(n)} ELSE OrElse(m, n)
\* x, and y in parentheses where there is one
WithNote(x, y) == IF y = {} THEN x ELSE x \o " (" \o The(y) \o ")"

-----------------------------------------------------------------------------
(* The flatteners.                                                         *)

\* What the overlay lets follow: the entities are concepts, one broader than
\* another.
Inferred(g) ==
  LET sub == <<Bffi("Work"), Bffi("Expression"), Bffi("Manifestation"), Bffi("AdminMetadata")>>
      below == Links(g, "bffi:hasExpression") \cup Links(g, "bffi:manifestationOfExpression")
               \cup {<<t[3], t[2], t[1]>> : t \in Links(g, "bffi:expressionOf")
                                                  \cup Links(g, "bffi:expressionManifested")}
  IN g \cup {<<t[1], "rdf:type", Concept>> : t \in {t \in Links(g, "rdf:type") : t[3] \in ToSet(sub)}}
       \cup {<<t[1], "skos:narrower", t[3]>> : t \in below}
       \cup {<<t[3], "skos:broader", t[1]>> : t \in below}

\* default_language = fi
WithLanguage(g) ==
  LET bare == {t \in g : t[2] \in {"rdfs:label", "skos:prefLabel", "skos:altLabel", "skos:hiddenLabel"}
                         /\ IsLit(t[3]) /\ Lang(t[3]) = ""}
  IN (g \ bare) \cup {<<t[1], t[2], LitIn("fi", Text(t[3]))>> : t \in bare}

\* The labels of the resource of the prefLabel t in its language.
Rivals(g, t) == {u \in Links(g, "skos:prefLabel") : u[1] = t[1] /\ IsLit(u[3]) /\ Lang(u[3]) = Lang(t[3])}

\* preflabel_policy = shortest: the others become altLabels.  Of several as
\* short one is fixed.
OnePrefLabel(g) ==
  LET shortest(S) == CHOOSE u \in S : \A v \in S : Len(Text(u[3])) <= Len(Text(v[3]))
      surplus == {t \in Links(g, "skos:prefLabel") : IsLit(t[3]) /\ shortest(Rivals(g, t)) # t}
  IN (g \ surplus) \cup {<<t[1], "skos:altLabel", t[3]>> : t \in surplus}

\* A label is in one of the two.
OneKindOfLabel(g) == g \ {t \in Links(g, "skos:altLabel") : <<t[1], "skos:prefLabel", t[3]>> \in g}

\* What the skosify package does with bffi.cfg and the overlay.  The concept
\* scheme, its top concepts and the broader links it breaks a cycle at are
\* left out: no later pass and no reader of a record looks at them.
SkosifyTool(g) == OneKindOfLabel(OnePrefLabel(WithLanguage(Inferred(g))))

KeySubfields(text, code) == SelectSeq(MarcKeys[text].subs, LAMBDA s : s[1] = code)
KeySubfield(text, code) ==
  IF KeySubfields(text, code) = <<>> THEN {}
  ELSE {Spell("trimmed", KeySubfields(text, code)[1][2])} \ {""}

ComponentPrefLabels(g) ==
  LET titles(c) == Maybe(UNION {OrElse(KeySubfield(k, "a"), KeySubfield(k, "t")) :
                                  k \in Texts(Objects(g, c, "bflc:marcKey"))})
  IN g \cup UNION {{<<c, "skos:prefLabel", Lit(t)>> : t \in titles(c)} :
                     c \in {c \in Subjects(g, "rdf:type", Bffi("Expression")) : Unlabelled(g, c)}}

ProvisionLabel(g, pa) ==
  LET said(p) == Maybe(Texts(Objects(g, pa, p)))
      country == Maybe({The(OrElse(BestLabel(g, c), {Text(c)})) : c \in Uris(Objects(g, pa, "bf:place"))})
      place == OrElse(said("bflc:simplePlace"), country)
      date == OrElse(said("bflc:simpleDate"), said("bf:date"))
  IN Concatenated(Concatenated(place, " : ", said("bflc:simpleAgent")), ", ", date)

ProvisionDisplay(g) ==
  LET lift(p, q) == {<<c[1], q, c[3]>> : c \in Chains(g, "bffi:provisionActivity", p)}
      bare == {pa \in {t[3] : t \in Links(g, "bffi:provisionActivity")} : Unlabelled(g, pa)}
  IN g \cup lift("bflc:simpleAgent", "dct:publisher")
       \cup lift("bflc:simpleDate", "dct:date") \cup lift("bf:date", "dct:date")
       \cup lift("bflc:simplePlace", "dct:spatial") \cup lift("bf:place", "dct:spatial")
       \cup UNION {{<<pa, "skos:prefLabel", LitIn("fi", l)>> : l \in ProvisionLabel(g, pa)} : pa \in bare}

TitleAltLabels(g) ==
  g \cup {<<c[1], "skos:altLabel", c[3]>> :
            c \in {c \in Chains(g, "bffi:title", "bffi:mainTitle") :
                     <<c[1], "skos:prefLabel", c[3]>> \notin g}}

TitlePartDisplay(g) ==
  g \cup UNION {{<<c[1], p, c[3]>> : c \in {c \in Chains(g, "bffi:title", p) : IsLit(c[3])}} :
                  p \in {"bffi:partNumber", "bffi:partName"}}

SeriesMembership(g) == g \cup {<<t[1], "dct:isPartOf", t[3]>> : t \in Links(g, "bf:hasSeries")}

AdminMetadataPrefLabels(g) ==
  LET name(parent) == OrElse(BestLabel(g, parent), Maybe(Texts(Objects(g, parent, "dct:identifier"))))
      axis(parent) == Maybe({Text(t) : t \in Types(g, parent)
                                 \cap {Bffi("Work"), Bffi("Expression"), Bffi("Manifestation")}})
      label(parent, lang) == LitIn(lang, The(OrElse(axis(parent), {"?"})) \o " - " \o The(name(parent)))
      bare == {t \in Links(g, "bffi:adminMetadata") : Unlabelled(g, t[3]) /\ name(t[1]) # {}}
  IN g \cup {<<t[3], "skos:prefLabel", label(t[1], lang)>> : t \in bare, lang \in {"fi", "sv", "en"}}
       \cup {<<t[3], "skos:altLabel", LitIn("fi", The(name(t[1])))>> : t \in bare}

\* A target that is both is Temporal only.
TypedSubjectDisplay(g) ==
  LET to(P(_)) == {t \in Links(g, "bffi:subject") : IsUri(t[3]) /\ P(t[3])}
      temporal(x) == HasType(g, x, Bffi("Temporal"))
      place(x) == HasType(g, x, Bffi("Place")) /\ ~temporal(x)
  IN g \cup {<<t[1], "dct:temporal", t[3]>> : t \in to(temporal)}
       \cup {<<t[1], "bffi:geographicCoverage", t[3]>> : t \in to(place)}

SubjectLike == {"bffi:subject", "bffi:genreForm", "bffi:geographicCoverage", "dct:temporal"}

\* The check for the twin left at "the entity has some authority".
TwinsLoose(g, t) == {a \in Uris(Objects(g, t[1], t[2])) : ~RawBib(a)}

\* The authorities a raw subject is bound to and the same entity has too.
Twins(g, t) == {a \in Uris(Objects(g, t[3], "skos:exactMatch")) :
                  ~RawBib(a) /\ <<t[1], t[2], a>> \in g}

PruneRedundantRaws(g) ==
  g \ {t \in g : t[2] \in SubjectLike /\ RawBib(t[3]) /\ Twins(g, t) # {}}

ClassificationDisplay(g) ==
  LET code(cls) == Maybe({Text(c[3]) : c \in {c \in Chains(g, "bf:source", "bffi:code") :
                                                c[1] = cls /\ IsLit(c[3])}})
  IN g \cup {<<c[1], "bffi:classificationPortion", Lit(WithNote(Text(c[3]), code(c[2])))>> :
               c \in {c \in Chains(g, "bffi:classification", "bffi:classificationPortion") : IsLit(c[3])}}

BnodeLabelPredicates ==
  {"bffi:note", "bf:note", "bffi:extent", "bffi:tableOfContents", "bf:hasSeries", "dct:isPartOf",
   "bf:language", "bffi:language", "bffi:role", "bffi:subject", "bffi:content", "bffi:relationship"}

BnodePrefLabelMirrors(g) ==
  LET bare == {n \in {t[3] : t \in {t \in g : t[2] \in BnodeLabelPredicates}} :
                 ~IsLit(n) /\ Unlabelled(g, n)}
  IN g \cup UNION {{<<n, "skos:prefLabel", l>> : l \in Literals(Objects(g, n, "rdfs:label"))} : n \in bare}

MainTitlePrefLabel(g) ==
  LET bare == {n \in {t[1] : t \in Links(g, "bffi:mainTitle")} : IsBnode(n) /\ Unlabelled(g, n)}
  IN g \cup UNION {{<<n, "skos:prefLabel", l>> : l \in Maybe(Literals(Objects(g, n, "bffi:mainTitle")))} :
                     n \in bare}

RelatedResourceDisplay(g) ==
  g \cup {<<c[1], "dct:relation", c[3]>> :
            c \in {c \in Chains(g, "bffi:relation", "bffi:associatedResource") : IsUri(c[3])}}

\* One pass: a node whose only value it removes is left with none.
PruneEmptyBnodeValues(g) ==
  LET visible(n) == \E t \in g : t[1] = n /\ t[2] # "prov:fromMarcField"
      empty == {t[3] : t \in {t \in g : IsBnode(t[3]) /\ ~visible(t[3])}}
  IN {t \in g : t[3] \notin empty /\ t[1] \notin empty}

-----------------------------------------------------------------------------
(* Labels composed from other labels, and what the vocabularies add.       *)

EntityAxis(g, s) ==
  FirstOf([i \in 1..4 |-> LET axis == <<"Work", "Expression", "Manifestation", "Item">>[i]
                          IN IF HasType(g, s, Bffi(axis)) THEN {axis} ELSE {}])

RoleUri(term, axis) ==
  LET on == [i \in 1..4 |-> <<term, <<"Work", "Expression", "Manifestation", "Item">>[i]>>]
      found(k) == IF k \in DOMAIN MtsRoles THEN {MtsRoles[k]} ELSE {}
  IN OrElse(UNION {found(<<term, x>>) : x \in axis}, FirstOf([i \in 1..4 |-> found(on[i])]))

RoleMtsUris(g) ==
  LET uris(entity, role) == Maybe(UNION {RoleUri(Spell("lower", l), EntityAxis(g, entity)) :
                                           l \in Texts(Objects(g, role, "rdfs:label")) \ {""}})
  IN g \cup UNION {{<<c[2], "bffi:role", u>> : u \in uris(c[1], c[3])} :
                     c \in {c \in Chains(g, "bffi:contribution", "bffi:role") : ~IsUri(c[3])}}

\* Every node under `link': its prefLabels as rdf:value, or a label composed
\* of what it is about and how: label, a function on nodes.
LabelNodes(g, nodes, label) ==
  LET new(n) == {LitIn("fi", l) : l \in IF Unlabelled(g, n) THEN label[n] ELSE {}}
  IN g \cup UNION {{<<n, "rdf:value", l>> : l \in Objects(g, n, "skos:prefLabel") \cup new(n)} : n \in nodes}
       \cup UNION {{<<n, "skos:prefLabel", l>> : l \in new(n)} : n \in nodes}

ContributionLabels(g) ==
  LET roles(c) == Objects(g, c, "bffi:role")
      role(c) == OrElse(LabelOf(g, roles(c) \ Uris(roles(c))), LabelOf(g, Uris(roles(c))))
      nodes == {t[3] : t \in Links(g, "bffi:contribution")}
  IN LabelNodes(g, nodes, [c \in nodes |-> {WithNote(a, role(c)) : a \in LabelOf(g, Objects(g, c, "bffi:agent"))}])

RelationLabels(g) ==
  LET name(r) == OrElse(BestLabel(g, r), IF IsUri(r) THEN {Text(r)} ELSE {})
      kind(n) == Maybe(UNION {name(r) : r \in Objects(g, n, "bffi:relationship")})
      nodes == {t[3] : t \in Links(g, "bffi:relation")}
  IN LabelNodes(g, nodes, [n \in nodes |->
                             {WithNote(r, kind(n)) : r \in LabelOf(g, Objects(g, n, "bffi:associatedResource"))}])

IdentifierPredicates(g) ==
  LET flat == [Isbn |-> "bf:isbn", Issn |-> "bf:issn", Ean |-> "bf:ean",
               AudioIssueNumber |-> "bf:audioIssueNumber", SystemNumber |-> "bf:systemNumber"]
      pred(n) == Maybe({flat[c] : c \in {c \in DOMAIN flat : HasType(g, n, Bf(c))}})
  IN g \cup UNION {{<<c[1], p, c[3]>> : p \in pred(c[2])} : c \in Chains(g, "bffi:identifiedBy", "rdf:value")}

LocBridge(g, ns) ==
  LET named == {t[3] : t \in {t \in g : In(ns, t[3])}}
  IN g \cup {t \in Bridges : t[1] \in named /\ t[2] \in {"skos:prefLabel", "skos:exactMatch", "skos:notation"}}

NoteLanguageLabels(g) ==
  LET bare == {n \in {t[3] : t \in Links(g, "bffi:note")} :
                 IsBnode(n) /\ Unlabelled(g, n) /\ ~Has(g, n, "rdfs:label")}
      component(n) == Maybe({Text(t) : t \in {t \in Types(g, n) : In("resourceComponents", t)}})
      label(n, l) == The(OrElse(component(n), {"language"})) \o ": "
                     \o The(OrElse(BestLabel(g, l), {Text(l)}))
  IN g \cup UNION {{<<n, "skos:prefLabel", LitIn("fi", label(n, l))>> :
                      l \in Maybe(Uris(Objects(g, n, "bffi:language")))} : n \in bare}

RoutableTypes == {Bffi(c) : c \in {"Topic", "Place", "Temporal", "Person", "Organization", "Meeting"}}

\* Only the entities themselves typed: what M8 can do before M9 has run.
PropagateNothing(g) == g

PropagateSubjectTyping(g) ==
  g \cup {<<c[2], "rdf:type", c[1]>> :
            c \in UNION {{<<t[3], a>> : a \in Uris(Objects(g, t[1], "skos:exactMatch"))} :
                           t \in {t \in Links(g, "rdf:type") : IsUri(t[1]) /\ t[3] \in RoutableTypes}}}

-----------------------------------------------------------------------------
Passes == <<"skosify", "component_pref_labels", "provision_display", "title_alt_labels",
            "title_part_display", "series_membership", "admin_metadata_pref_labels",
            "typed_subject_display", "prune_redundant_raw_subject_references",
            "classification_display", "bnode_prefLabel_mirrors", "main_title_pref_label",
            "related_resource_display", "prune_empty_bnode_values", "role_mts_uri",
            "contribution_labels", "relation_labels", "identifier_predicates", "countries",
            "languages", "note_language_labels", "issuance", "subject_typing">>

Apply(pass, g) ==
  CASE pass = "skosify" -> SkosifyTool(g)
    [] pass = "component_pref_labels" -> ComponentPrefLabels(g)
    [] pass = "provision_display" -> ProvisionDisplay(g)
    [] pass = "title_alt_labels" -> TitleAltLabels(g)
    [] pass = "title_part_display" -> TitlePartDisplay(g)
    [] pass = "series_membership" -> SeriesMembership(g)
    [] pass = "admin_metadata_pref_labels" -> AdminMetadataPrefLabels(g)
    [] pass = "typed_subject_display" -> TypedSubjectDisplay(g)
    [] pass = "prune_redundant_raw_subject_references" -> PruneRedundantRaws(g)
    [] pass = "classification_display" -> ClassificationDisplay(g)
    [] pass = "bnode_prefLabel_mirrors" -> BnodePrefLabelMirrors(g)
    [] pass = "main_title_pref_label" -> MainTitlePrefLabel(g)
    [] pass = "related_resource_display" -> RelatedResourceDisplay(g)
    [] pass = "prune_empty_bnode_values" -> PruneEmptyBnodeValues(g)
    [] pass = "role_mts_uri" -> RoleMtsUris(g)
    [] pass = "contribution_labels" -> ContributionLabels(g)
    [] pass = "relation_labels" -> RelationLabels(g)
    [] pass = "identifier_predicates" -> IdentifierPredicates(g)
    [] pass \in {"countries", "languages", "issuance"} -> LocBridge(g, pass)
    [] pass = "note_language_labels" -> NoteLanguageLabels(g)
    [] pass = "subject_typing" -> PropagateSubjectTyping(g)
=============================================================================
