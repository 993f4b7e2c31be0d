----------------------------- MODULE BindGraph ------------------------------
(* M9 and its graphs: the entity requests it finds in canonical.ttl        *)
(* (m9/requests.py), the lookup of a literal in the vocabulary graphs of   *)
(* Fuseki (m9/local_concept_resolver.py), and the triples that bind an     *)
(* authority (m9/graph_mutate.py).  Tiers, picks and caches are Reconcile's. *)
EXTENDS RdfGraph

CONSTANTS Dumps,        \* named graph -> the triples of its vocabulary
          Services      \* <<kind, literal>> -> [uri, review]: the authority found by services and picker

IsRaw(t) == In("raw", t)
LabelIn(g, n) == Maybe(Texts(Objects(g, n, "rdfs:label")))
Works(g) == Uris(Subjects(g, "rdf:type", Bffi("Work")))
IsPrimary(g, c) == HasType(g, c, Bffi("PrimaryContribution"))

-----------------------------------------------------------------------------
(* Entity requests; predicate {} for a creator.                            *)

Request(w, literal, kind, predicate) == [work |-> w, literal |-> literal, kind |-> kind, predicate |-> predicate]

\* A request for every labelled one of the agents.
PersonRequests(g, w, agents) ==
  ForEach(agents, LAMBDA a : ForEach(LabelIn(g, a), LAMBDA l : <<Request(w, l, "person", {})>>))

\* The primary agents that have a URI, then the agents of components.
CreatorRequests(g) ==
  LET primary(w) == {c \in Objects(g, w, "bffi:contribution") : IsPrimary(g, c)}
      components(w) == UNION {Objects(g, e, "bffi:aggregates") : e \in Objects(g, w, "bffi:hasExpression")}
      credits(w) == UNION {Objects(g, x, "bffi:contribution") : x \in components(w)}
  IN ForEach(Works(g), LAMBDA w :
       ForEach(primary(w), LAMBDA c : PersonRequests(g, w, Uris(Objects(g, c, "bffi:agent"))))
       \o ForEach(credits(w), LAMBDA c : PersonRequests(g, w, Objects(g, c, "bffi:agent"))))

SubjectPredicates == {"bffi:subject", "bffi:genreForm", "bffi:musicMedium", "bffi:intendedAudience",
                      "bffi:creatorCharacteristic", "bffi:originPlace"}

\* A target in a vocabulary graph is bound already.
IsAuthority(t) == IsUri(t) /\ t[2] \in DOMAIN Dumps

SourceKind(source) == The(OrElse(UNION {Found("kind of source", s) : s \in source}, {"subject"}))

AgentFragment(t) == IF IsRaw(t) THEN Found("agent fragment", Text(t)) ELSE {}

SubjectKind(target, source, literal, predicate) ==
  IF predicate = "bffi:musicMedium" THEN "music_form"
  ELSE IF Found("fictional", literal) # {} THEN "fictional_character"
  ELSE The(OrElse(AgentFragment(target), {SourceKind(source)}))

SubjectRequests(g) ==
  LET source(t) == Maybe({Text(s) : s \in {s \in Objects(g, t, "bf:source") : ~IsBnode(s)}})
      of(w, p, t) == ForEach(LabelIn(g, t), LAMBDA l : <<Request(w, l, SubjectKind(t, source(t), l, p), {p})>>)
  IN ForEach(Works(g), LAMBDA w : ForEach(SubjectPredicates, LAMBDA p :
       ForEach({t \in Objects(g, w, p) : ~IsAuthority(t)}, LAMBDA t : of(w, p, t))))

Requests(g) == CreatorRequests(g) \o SubjectRequests(g)

-----------------------------------------------------------------------------
(* The lookup in Fuseki: the concept with exactly this prefLabel.          *)

GraphsOf == [subject |-> <<"yso", "allars", "lcsh", "childrensSubjects", "mts">>,
             genre_form |-> <<"kauno", "slm", "kaunokki", "lcgft", "yso">>,
             music_form |-> <<"muso", "seko", "lcmpt">>]

Triples(graph) == IF graph \in DOMAIN Dumps THEN Dumps[graph] ELSE {}
Rank(seq, x) == IF x \in ToSet(seq) THEN 1 + Len(seq) - Min({i \in DOMAIN seq : seq[i] = x}) ELSE 0
FinnishFirst == <<"fi", "sv", "en">>

\* ORDER BY DESC(language) DESC(graph) LIMIT 1, of [uri, lang, graph].
Best(S, langs, graphs) ==
  LET score(x) == 10 * Rank(langs, x.lang) + Rank(graphs, x.graph)
  IN Maybe({x.uri : x \in {x \in S : \A y \in S : score(y) <= score(x)}})

Labelled(graph, literal) ==
  {[uri |-> t[1], lang |-> Lang(t[3]), graph |-> graph] :
     t \in {t \in Links(Triples(graph), "skos:prefLabel") : Text(t[3]) = literal}}

ExactMatch(literal, kind) ==
  Best(UNION {Labelled(graph, literal) : graph \in ToSet(GraphsOf[kind])}, FinnishFirst, GraphsOf[kind])

\* What a concept of a legacy graph leads to over one of the predicates.
Bridged(graph, uri, predicates) == UNION {Objects(Triples(graph), uri, p) : p \in predicates}
Matches == {"skos:exactMatch", "skos:closeMatch"}

LegacyMatch(literal) ==
  LET via(graph, onward(_)) == UNION {{[x EXCEPT !.uri = u] : u \in onward(x.uri)} : x \in Labelled(graph, literal)}
      throughYsa(u) == UNION {Bridged("ysa", y, Matches) : y \in Bridged("musa", u, {"dct:isReplacedBy"})}
      all == via("ysa", LAMBDA u : Bridged("ysa", u, Matches)) \cup via("musa", throughYsa)
             \cup via("allars", LAMBDA u : Bridged("allars", u, Matches))
  IN Best({x \in all : In("yso", x.uri)}, FinnishFirst, <<>>)

\* A hit in a legacy graph is swapped for the concept it is bridged to.
Redirect(hit, from, predicates, to, langs) ==
  LET labels(u) == {Lang(l) : l \in Objects(Triples(to), u, "skos:prefLabel")} \cup {""}
      targets(u) == {t \in Bridged(from, u, predicates) : In(to, t)}
      ranked(u) == UNION {{[uri |-> t, lang |-> l, graph |-> to] : l \in labels(t)} : t \in targets(u)}
  IN UNION {IF In(from, u) THEN OrElse(Best(ranked(u), langs, <<>>), {u}) ELSE {u} : u \in hit}

\* FusekiConceptResolver.resolve when Fuseki answers every query.
LocalConcept(literal, kind) ==
  LET hit == ExactMatch(literal, kind)
  IN CASE kind \notin DOMAIN GraphsOf -> {}
       [] kind = "subject" -> IF hit = {} THEN LegacyMatch(literal)
                              ELSE Redirect(hit, "allars", Matches, "yso", FinnishFirst)
       [] kind = "genre_form" -> Redirect(hit, "kauno", Matches \cup {"dct:isReplacedBy"}, "yso", FinnishFirst)
       [] kind = "music_form" -> Redirect(hit, "seko", Matches, "lcmpt", <<"en", "fi", "sv">>)

\* What the services find for a request, if anything.
Service(r) == IF <<r.kind, r.literal>> \in DOMAIN Services THEN {Services[<<r.kind, r.literal>>]} ELSE {}

-----------------------------------------------------------------------------
(* Binding an authority.                                                   *)

LinkCreator(g, w, auth) ==
  LET primary == {c \in Objects(g, w, "bffi:contribution") : IsPrimary(g, c)}
      agents == UNION {Uris(Objects(g, c, "bffi:agent")) : c \in primary}
  IN g \cup {<<w, "bffi:creator", auth>>} \cup {<<a, "prov:specializationOf", auth>> : a \in agents \ {auth}}

\* Every target of the predicate with the label of the request is the authority.
LinkSubject(g, w, p, literal, auth) ==
  LET linked == g \cup {<<w, p, auth>>}
      alike == {t \in Objects(linked, w, p) : literal \in Texts(Objects(g, t, "rdfs:label"))}
  IN linked \cup {<<t, "skos:exactMatch", auth>> : t \in {t \in alike : IsRaw(t) /\ t # auth}}
            \cup {<<t, "prov:specializationOf", auth>> : t \in {t \in alike : ~IsUri(t)}}

\* The first AdminMetadata of the Work names its source and who must review it.
BumpAdminMetadata(g, w, auth, review) ==
  LET blocks == Maybe(Uris(Objects(g, w, "bffi:adminMetadata")))
      authenticated(b) == {<<b, "bffi:descriptionAuthentication", o>> : o \in Objects(g, b, "bffi:descriptionAuthentication")}
      stale == IF review THEN UNION {authenticated(b) : b \in blocks} ELSE {}
      flagged == IF review THEN {<<b, "bffi:descriptionAuthentication", Uri("auth", "needs-review")>> : b \in blocks} ELSE {}
  IN (g \ stale) \cup flagged \cup {<<b, "bffi:sourceConsulted", auth>> : b \in blocks}

\* An outcome [request, found: Maybe [uri, review]] applied to the graph.
Bound(g, o) ==
  LET r == o.request
      link(auth) == IF r.predicate = {} THEN LinkCreator(g, r.work, auth)
                    ELSE LinkSubject(g, r.work, The(r.predicate), r.literal, auth)
  IN UNION {BumpAdminMetadata(link(x.uri), r.work, x.uri, x.review) : x \in o.found}
            \cup (IF o.found = {} THEN g ELSE {})
=============================================================================
