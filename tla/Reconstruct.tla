---------------------------- MODULE Reconstruct -----------------------------
(* marc_roundtrip/converter.py: the MARC record reconstructed from one     *)
(* Manifestation of the graph.  A context c is [g: graph, m:               *)
(* manifestation, ranks: the legacy lineage of raw URIs].  An _emit_*      *)
(* method is an operator that gives the rows it adds, in order.            *)
EXTENDS RdfGraph

CONSTANTS Raw,          \* local name of a raw bib URI -> [bib, kind, tag, ord] of its fragment
          Tokens        \* text of a bffi-prov:fromMarcField -> [bib, tag, ord]

Row(tag, ind, subs, src, bypass) ==
  [tag |-> tag, ind |-> ind, subs |-> SelectSeq(subs, LAMBDA s : s[2] # ""), src |-> src, bypass |-> bypass]
Plain(tag, ind, subs, src) == Row(tag, ind, subs, src, FALSE)
Sub(code, text) == IF text = {} THEN <<>> ELSE <<<<code, The(text)>>>>

Values(c, s, p) == Objects(c.g, s, p)
Said(c, s, p) == Maybe(Texts(Values(c, s, p)))
IsA(c, n, type) == HasType(c.g, n, type)
Across(c, S, p) == UNION {Values(c, s, p) : s \in S}

Expression(c) == Maybe(Uris(Values(c, c.m, "bffi:expressionManifested")))
WorkOf(c) == Maybe(Uris(Across(c, Expression(c), "bffi:expressionOf")))
BibId(c) == Maybe(Texts(Values(c, c.m, "dct:identifier")))

IsRaw(t) == In("raw", t)
RawKind(t, kind, tag) == IsRaw(t) /\ Raw[Text(t)].kind = kind /\ Raw[Text(t)].tag = tag

FirstLabel(c, n) == OrElse(Said(c, n, "rdfs:label"), Said(c, n, "skos:prefLabel"))
LocLabel(c, n, langs) == Preferred(langs, Values(c, n, "skos:prefLabel"), Values(c, n, "rdfs:label"))
LocCode(n, ns) == IF In(ns, n) THEN {Text(n)} ELSE {}

-----------------------------------------------------------------------------
(* Lineage: the field a row came from.                                     *)

LineageKinds == {"Topic", "Place", "Agent", "Hub", "Work", "MusicMedium", "IntendedAudience",
                 "CreatorCharacteristic"}

\* Raw URIs ranked by the ordinal of their fragment, per record and tag.
LineageRanks(g) ==
  LET nodes == {n \in {t[1] : t \in g} \cup {t[3] : t \in g} : IsRaw(n) /\ Raw[Text(n)].kind \in LineageKinds}
      r(n) == Raw[Text(n)]
      upTo(n) == {k \in nodes : r(k).bib = r(n).bib /\ r(k).tag = r(n).tag /\ r(k).ord <= r(n).ord}
  IN [n \in nodes |-> [bib |-> "", tag |-> r(n).tag, ord |-> Cardinality(upTo(n))]]

Lineage(c, n) ==
  OrElse({Tokens[t] : t \in Said(c, n, "prov:fromMarcField")},
         IF n \in DOMAIN c.ranks THEN {c.ranks[n]} ELSE {})
LineageOf(c, S) == UNION {Lineage(c, n) : n \in S}

-----------------------------------------------------------------------------
(* marcKey: the field as the cataloguer typed it.                          *)

KeyTexts(c, n) == Texts(Values(c, n, "bflc:marcKey"))

\* The first subfield of each code.
KeySubs(text) ==
  FoldLeft(LAMBDA kept, s : IF \E i \in DOMAIN kept : kept[i][1] = s[1] THEN kept ELSE Append(kept, s),
           <<>>, MarcKeys[text].subs)
Without(codes, subs) == SelectSeq(subs, LAMBDA s : s[1] \notin codes)

NameSubs(c, n) ==
  Maybe({Without({"e", "4", "0", "2"}, KeySubs(k)) : k \in {k \in KeyTexts(c, n) : KeySubs(k) # <<>>}})

-----------------------------------------------------------------------------
(* Leader and 008.                                                         *)

Admin(c, p, ns) == {t \in Across(c, Values(c, c.m, "bffi:adminMetadata"), p) : In(ns, t)}
Char(S) == Maybe({Text(t) : t \in {t \in S : Len(Text(t)) = 1}})

TypeCodes == <<<<"MusicAudio", "j">>, <<"NotatedMusic", "c">>, <<"NotatedMovement", "c">>,
               <<"Cartography", "e">>, <<"MovingImage", "g">>, <<"StillImage", "k">>, <<"Audio", "i">>,
               <<"Multimedia", "m">>, <<"Dataset", "m">>, <<"Object", "r">>, <<"MixedMaterial", "p">>,
               <<"Text", "a">>>>
LevelCodes == [mono |-> "m", serial |-> "s", integrating |-> "i", single |-> "a", multi |-> "m"]

RecordType(c) ==
  LET hits == SelectSeq(TypeCodes, LAMBDA k : \E w \in WorkOf(c) : IsA(c, w, Bf(k[1])))
  IN IF hits = <<>> THEN "a" ELSE hits[1][2]

Leader(c) ==
  LET levels == {LevelCodes[Text(t)] :
                   t \in {t \in Values(c, c.m, "bf:issuance") : In("issuance", t) /\ Text(t) \in DOMAIN LevelCodes}}
      dacs == \E t \in Admin(c, "bffi:descriptionConventions", "descriptionConventions") : Text(t) = "dacs"
  IN <<The(OrElse(Char(Admin(c, "bffi:status", "mstatus")), {"n"})),
       RecordType(c),
       The(OrElse(Maybe(levels), {"m"})),
       IF dacs THEN "a" ELSE " ",
       The(OrElse(Char(Admin(c, "bffi:encodingLevel", "menclvl")), {" "}))>>

FixedField(c) ==
  LET provisions == Values(c, c.m, "bffi:provisionActivity")
      form(what, S) == Maybe(UNION {Found(what, x) : x \in Texts(S)})
      entered == form("yymmdd", Across(c, Values(c, c.m, "bffi:adminMetadata"), "bffi:changeDate"))
      year == OrElse(form("leading year", Across(c, provisions, "bf:date")),
                     form("first digits", Across(c, provisions, "bflc:simpleDate")))
      country == {t \in Across(c, provisions, "bf:place") : In("countries", t)}
      languages == {t \in Across(c, Expression(c), "bffi:language") : In("languages", t)}
      code(S) == OrElse(Maybe({Text(t) : t \in S}), {""})
  IN <<The(OrElse(entered, {""})), The(OrElse(year, {""})), The(code(country)), The(code(languages))>>

Control(tag, value) == [tag |-> tag, value |-> value]
ControlFields(c) ==
  <<Control("LDR", Leader(c))>>
  \o ForEach(BibId(c), LAMBDA b : <<Control("001", <<b>>), Control("003", <<"FI-HELME">>)>>)
  \o <<Control("008", FixedField(c))>>

-----------------------------------------------------------------------------
(* Identifiers and the record's own fields.                                *)

Qualifiers(c, n) == ForEach(Texts(Values(c, n, "bffi:qualifier")), LAMBDA q : <<<<"q", q>>>>)

\* $q is of 020 alone.
Identifiers(c, type, tag, ind) ==
  LET qualifiers(n) == IF tag = "020" THEN Qualifiers(c, n) ELSE <<>>
      rows(n) == ForEach(Texts(Values(c, n, "rdf:value")),
                         LAMBDA v : <<Plain(tag, ind, <<<<"a", v>>>> \o qualifiers(n), Lineage(c, n))>>)
  IN ForEach({n \in Values(c, c.m, "bffi:identifiedBy") : IsA(c, n, type)}, rows)

Isbns(c) == Identifiers(c, Bf("Isbn"), "020", "  ")
Issns(c) == Identifiers(c, Bf("Issn"), "022", "  ")
PublisherNumbers(c) == Identifiers(c, Bf("AudioIssueNumber"), "028", "0 ")
\* Other-identifiers that are Eans too are counted as Eans.
OtherStdIdentifiers(c) ==
  LET eans == {n \in Values(c, c.m, "bffi:identifiedBy") : IsA(c, n, Bf("Ean"))}
  IN Identifiers(c, Bf("Ean"), "024", "3 ")
     \o Identifiers([c EXCEPT !.g = {t \in @ : t[1] \notin eans}], Bf("OtherIdentifier"), "024", "8 ")

ClassificationTags == [ykl |-> "084", udc |-> "080", dewey |-> "082", ddc |-> "082", lcc |-> "050"]
Classifications(c) ==
  LET code(n) == Maybe({Spell("lower", x) : x \in Texts(Across(c, Values(c, n, "bf:source"), "bffi:code"))})
      rows(n) == IF Said(c, n, "bffi:classificationPortion") = {} \/ code(n) = {}
                      \/ ~code(n) \subseteq DOMAIN ClassificationTags THEN <<>>
                 ELSE <<Plain(ClassificationTags[The(code(n))], "  ",
                              Sub("a", Said(c, n, "bffi:classificationPortion")) \o Sub("2", code(n)),
                              Lineage(c, n))>>
  IN ForEach(Across(c, WorkOf(c), "bffi:classification"), rows)

AssignerCode(c, a) ==
  IF IsUri(a) THEN IF In("organizations", a) THEN {Spell("organization", Text(a))} ELSE {}
  ELSE Said(c, a, "bffi:code")
SystemControlNumbers(c) ==
  LET assigner(n) == Maybe(Values(c, n, "bffi:assigner"))
      code(n) == UNION {AssignerCode(c, a) : a \in assigner(n)}
      prefix(n) == IF code(n) = {} THEN "" ELSE "(" \o The(code(n)) \o ")"
  IN ForEach({n \in Values(c, c.m, "bffi:identifiedBy") : IsA(c, n, Bffi("Local")) /\ assigner(n) # {}},
             LAMBDA n : ForEach(Said(c, n, "rdf:value"),
                          LAMBDA v : <<Plain("035", "  ", <<<<"a", prefix(n) \o v>>>>, Lineage(c, n))>>))

\* The row that marks the record as reconstructed.
SourceMarker(c) ==
  LET admin == Maybe(Values(c, c.m, "bffi:adminMetadata"))
      agency == Maybe(Texts(Across(c, Across(c, admin, "bf:agent"), "bffi:code")))
      one(p, ns) == Maybe({Text(t) : t \in {t \in Across(c, admin, p) : In(ns, t)}})
  IN <<Plain("040", "  ",
             (IF agency # {} THEN Sub("a", agency) ELSE <<>>)
             \o Sub("b", one("bffi:descriptionLanguage", "languages"))
             \o Sub("e", one("bffi:descriptionConventions", "descriptionConventions"))
             \o (IF agency = {} THEN <<<<"a", "FI-HELME">>>> ELSE <<>>)
             \o <<<<"d", "FI-HELME/bffi-roundtrip">>>>, {})>>

Languages(c) ==
  LET codes == {Text(t) : t \in {t \in Across(c, Expression(c), "bffi:language") : In("languages", t)}}
  IN IF codes = {} THEN <<>> ELSE <<Plain("041", "  ", Sub("a", Maybe(codes)), {})>>

-----------------------------------------------------------------------------
(* Agents.                                                                 *)

\* The name as typed, else the label; none where there is neither.
Name(c, n) == OrElse(NameSubs(c, n), {Sub("a", {l}) : l \in FirstLabel(c, n) \ {""}})

RoleSubs(c, contrib) ==
  LET roles == Values(c, contrib, "bffi:role")
      uriLabel == Maybe(UNION {LocLabel(c, r, <<"fi", "sv", "en">>) : r \in Uris(roles)})
      bnodeLabel == Maybe(UNION {FirstLabel(c, r) : r \in roles \ Uris(roles)})
  IN Sub("4", Maybe({Text(r) : r \in {r \in roles : In("relators", r)}})) \o Sub("e", OrElse(bnodeLabel, uriLabel))

AgentIds(c, agent) ==
  LET code(n) == Maybe(Texts(Across(c, Values(c, n, "bf:source"), "bffi:code")))
      prefix(n) == IF code(n) = {} THEN "" ELSE "(" \o The(code(n)) \o ")"
  IN ForEach(Values(c, agent, "bffi:identifiedBy"),
             LAMBDA n : ForEach(Said(c, n, "rdf:value"), LAMBDA v : <<<<"0", prefix(n) \o v>>>>))

IsPrimary(c, contrib) == IsA(c, contrib, Bffi("PrimaryContribution"))
AddedEntryTag(a) == IF RawKind(a, "Agent", "710") THEN "710" ELSE IF RawKind(a, "Agent", "711") THEN "711" ELSE "700"

\* The row of the primary contribution has no lineage.
AgentRows(c, contrib) ==
  LET primary == IsPrimary(c, contrib)
      row(a, name) == Row(IF primary THEN "100" ELSE AddedEntryTag(a), "1 ",
                          name \o RoleSubs(c, contrib) \o AgentIds(c, a),
                          IF primary THEN {} ELSE Lineage(c, a), NameSubs(c, a) # {})
  IN ForEach(Values(c, contrib, "bffi:agent"), LAMBDA a : ForEach(Name(c, a), LAMBDA name : <<row(a, name)>>))

PrimaryContribution(c) ==
  Only(ForEach({n \in Across(c, WorkOf(c), "bffi:contribution") : IsPrimary(c, n)},
               LAMBDA n : AgentRows(c, n)))

AddedEntries(c) ==
  ForEach({n \in Across(c, Expression(c), "bffi:contribution") : ~IsPrimary(c, n)},
          LAMBDA n : AgentRows(c, n))

\* Keeps the first of the rows with one $a.
FirstOfEach(rows) ==
  FlattenSeq([i \in DOMAIN rows |-> IF \E k \in 1..i - 1 : rows[k].subs[1] = rows[i].subs[1] THEN <<>> ELSE <<rows[i]>>])

AnalyticalEntries(c) ==
  LET agents(component) == Across(c, Values(c, component, "bffi:contribution"), "bffi:agent")
  IN FirstOfEach(ForEach(Across(c, Expression(c), "bffi:aggregates"),
       LAMBDA k : ForEach(agents(k), LAMBDA a : ForEach(FirstLabel(c, a) \ {""},
                    LAMBDA l : <<Plain("700", "12", <<<<"a", l>>>>, Lineage(c, k))>>))))

-----------------------------------------------------------------------------
(* Titles.                                                                 *)

\* $n and $p of the first title of a hub that has either.
TitleParts(c, hub) ==
  Only(ForEach(Values(c, hub, "bffi:title"),
         LAMBDA t : LET parts == Sub("n", Said(c, t, "bffi:partNumber")) \o Sub("p", Said(c, t, "bffi:partName"))
                    IN IF parts = <<>> THEN <<>> ELSE <<parts>>))
Structured(c, hub) == FlattenSeq(TitleParts(c, hub))

\* What the structured properties say in place of a subfield of the marcKey.
Override(c, hub, code) ==
  LET via == [l |-> "bf:language", m |-> "bf:musicMedium", r |-> "bf:keyMode"]
  IN CASE code \in DOMAIN via -> Maybe(Texts(Across(c, Values(c, hub, via[code]), "rdfs:label")))
       [] code = "s" -> Said(c, hub, "bffi:version")
       [] OTHER -> {}

\* The structured parts stand before the first $g or $l, or at the end.
Merged(base, parts) ==
  LET at == {i \in DOMAIN base : base[i][1] \in {"g", "l"}}
      cut == IF at = {} THEN Len(base) ELSE Min(at) - 1
  IN SubSeq(base, 1, cut) \o parts \o SubSeq(base, cut + 1, Len(base))

OneByOne(seq, f(_)) == FoldLeft(LAMBDA done, s : Append(done, f(s)), <<>>, seq)

KeyTitle(c, hub, subs) ==
  LET parts == Structured(c, hub)
      coded(code) == \E i \in DOMAIN parts : parts[i][1] = code
      kept == SelectSeq(Without({"0", "2", "4", "5", "6", "9"}, subs),
                        LAMBDA s : ~(s[1] \in {"n", "p"} /\ coded(s[1])))
  IN OneByOne(kept, LAMBDA s : <<s[1], The(OrElse(Override(c, hub, s[1]), {s[2]}))>>)

\* From $t on, which becomes $a.
UniformSubs(c, hub, key) ==
  LET subs == KeySubs(key)
      t == {i \in DOMAIN subs : subs[i][1] = "t"}
      base == KeyTitle(c, hub, SubSeq(subs, Min(t), Len(subs)))
  IN IF t = {} THEN <<>>
     ELSE Merged(OneByOne(base, LAMBDA s : IF s[1] = "t" THEN <<"a", s[2]>> ELSE s), Structured(c, hub))

HubTitle(c, hub) ==
  LET language == Maybe(Texts(Across(c, Values(c, hub, "bf:language"), "rdfs:label")))
      main == Maybe(Texts(Across(c, Values(c, hub, "bffi:title"), "bffi:mainTitle")))
      cut == {The(OrElse(UNION {Found("without " \o l, t) : l \in language}, {t})) : t \in main}
  IN Sub("a", cut) \o Sub("l", language)

UniformTitle(c) ==
  LET row(hub, subs, bypass) ==
        IF subs = <<>> THEN <<>>
        ELSE IF RawKind(hub, "Hub", "130") THEN <<Row("130", "0 ", subs, Lineage(c, hub), bypass)>>
        ELSE <<Row("240", "10", subs, Lineage(c, hub), bypass)>>
      keyed(hub) == ForEach(Maybe(KeyTexts(c, hub)), LAMBDA k : row(hub, UniformSubs(c, hub, k), TRUE))
      rows(hub) == IF keyed(hub) # <<>> THEN keyed(hub)
                   ELSE IF Structured(c, hub) # <<>> THEN <<>> ELSE row(hub, HubTitle(c, hub), FALSE)
  IN Only(ForEach({n \in Across(c, Expression(c), "bffi:title") : IsA(c, n, Bf("Hub"))}, rows))

\* The first title node with a main title.
Title(c) ==
  LET nodes == {n \in Values(c, c.m, "bffi:title") : Said(c, n, "bffi:mainTitle") # {}}
      node == Maybe(nodes)
      main == OrElse(UNION {Said(c, n, "bffi:mainTitle") : n \in node},
                     UNION {FirstLabel(c, w) : w \in WorkOf(c)})
  IN IF main \ {""} = {} THEN <<>>
     ELSE <<Plain("245", "10", Sub("a", main) \o Sub("b", UNION {Said(c, n, "bffi:subtitle") : n \in node})
                               \o Sub("c", Said(c, c.m, "bffi:responsibilityStatement")),
                  LineageOf(c, node))>>

VariantTitle(c) ==
  ForEach({n \in Across(c, Expression(c), "bffi:title") : IsA(c, n, Bf("VariantTitle"))},
          LAMBDA n : ForEach(Said(c, n, "bffi:mainTitle"),
                             LAMBDA t : <<Plain("246", "3 ", <<<<"a", t>>>>, Lineage(c, n))>>))

\* A 700 with second indicator 2 comes back as it was typed.
Analytical(c, hub) ==
  ForEach({k \in Maybe(KeyTexts(c, hub)) : MarcKeys[k].tag = "700" /\ MarcKeys[k].ind2 = "2"},
          LAMBDA k : LET subs == Without({"6", "9"}, KeySubs(k))
                     IN IF subs = <<>> THEN <<>>
                        ELSE <<Row("700", MarcKeys[k].ind1 \o "2", subs, Lineage(c, hub), TRUE)>>)

\* <<subfields, from a marcKey>>
RelatedSubs(c, hub) ==
  LET keyed == Maybe({KeyTitle(c, hub, KeySubs(k)) : k \in KeyTexts(c, hub)} \ {<<>>})
      main == Maybe(Texts(Across(c, Values(c, hub, "bffi:title"), "bffi:mainTitle")))
      split(t) == <<<<"a", Spell("head", t)>>>> \o Sub("g", Found("responsibility", t))
      base == OrElse(keyed, {split(t) : t \in main})
  IN <<IF base = {} THEN Structured(c, hub) ELSE Merged(The(base), Structured(c, hub)), keyed # {}>>

RelatedTitles(c) ==
  LET tag(n) == IF IsA(c, n, Bf("Hub")) THEN {"730"} ELSE IF IsA(c, n, Bf("Work")) THEN {"740"} ELSE {}
      row(n, subs) == IF subs[1] = <<>> THEN <<>>
                      ELSE ForEach(tag(n), LAMBDA t : <<Row(t, "0 ", subs[1], Lineage(c, n), subs[2])>>)
      rows(n) == IF IsA(c, n, Bf("Hub")) /\ Analytical(c, n) # <<>> THEN Analytical(c, n)
                 ELSE ForEach({RelatedSubs(c, n)}, LAMBDA subs : row(n, subs))
  IN ForEach(Values(c, c.m, "bffi:relation"),
             LAMBDA rel : ForEach(Values(c, rel, "bffi:associatedResource"), rows))

-----------------------------------------------------------------------------
(* Publication, description, series, notes.                                *)

ProvisionKinds == [Production |-> "0", Publication |-> "1", Distribution |-> "2", Manufacture |-> "3",
                   Copyright |-> "4"]
PublicationStatement(c) ==
  LET subs(n) == Sub("a", Said(c, n, "bflc:simplePlace")) \o Sub("b", Said(c, n, "bflc:simpleAgent"))
                 \o Sub("c", Said(c, n, "bflc:simpleDate"))
      kind(n) == Maybe({ProvisionKinds[k] : k \in {k \in DOMAIN ProvisionKinds : IsA(c, n, Bf(k))}})
      row(n) == IF subs(n) = <<>> THEN <<>>
                ELSE <<Plain("264", " " \o The(OrElse(kind(n), {"1"})), subs(n), Lineage(c, n))>>
      structured == ForEach({n \in Values(c, c.m, "bffi:provisionActivity") : ~IsLit(n)}, row)
      inLabel == UNION {Found("in parentheses", t) : t \in Texts(Values(c, c.m, "skos:prefLabel"))}
      flat == OrElse(Said(c, c.m, "bffi:publicationStatement"), Maybe(inLabel))
  IN IF structured # <<>> THEN structured ELSE ForEach(flat, LAMBDA t : <<Plain("264", " 1", <<<<"c", t>>>>, {})>>)

EditionStatement(c) ==
  ForEach(Texts(Values(c, c.m, "bffi:editionStatement")), LAMBDA t : <<Plain("250", "  ", <<<<"a", t>>>>, {})>>)

IsNote(c, n, type) == IsA(c, n, Uri("mnotetype", type))
\* A literal's own text, else the node's label.
TextOrLabel(c, n) == IF IsLit(n) THEN {Text(n)} ELSE FirstLabel(c, n)

Extent(c) ==
  LET extent == Maybe(Values(c, c.m, "bffi:extent"))
      node == {n \in extent : ~IsLit(n)}
      labels(S) == Maybe(UNION {FirstLabel(c, n) : n \in S})
      physical == {n \in Across(c, node, "bf:note") : IsNote(c, n, "physical")}
      accmat == {n \in Values(c, c.m, "bffi:note") : IsNote(c, n, "accmat")}
      subs == Sub("a", UNION {TextOrLabel(c, n) : n \in extent}) \o Sub("b", labels(physical))
              \o Sub("c", UNION {TextOrLabel(c, n) : n \in Maybe(Values(c, c.m, "bffi:dimensions"))})
              \o Sub("e", labels(accmat))
  IN IF subs = <<>> THEN <<>> ELSE <<Plain("300", "  ", subs, LineageOf(c, node))>>

SeriesStatement(c) ==
  LET tag(n) == IF RawKind(n, "Hub", "830") THEN "830" ELSE "490"
  IN ForEach(Values(c, c.m, "bf:hasSeries"),
             LAMBDA n : ForEach(FirstLabel(c, n) \ {""},
                                LAMBDA l : <<Plain(tag(n), "0 ", <<<<"a", l>>>>, Lineage(c, n))>>))

NoteTags == [biblio |-> "504", thesis |-> "502", creditNote |-> "508", participants |-> "511",
             typeOfReport |-> "513", summary |-> "520", language |-> "546", provenance |-> "561",
             awards |-> "586", accessRestrict |-> "506", orig |-> "534", descsource |-> "588"]
Notes(c) ==
  LET shown(n) == IsLit(n) \/ ~(IsNote(c, n, "physical") \/ IsNote(c, n, "accmat"))
      text(n) == IF IsLit(n) THEN {Text(n)} ELSE OrElse(Said(c, n, "rdf:value"), Said(c, n, "rdfs:label"))
      tag(n) == The(OrElse(Maybe({NoteTags[k] : k \in {k \in DOMAIN NoteTags : IsNote(c, n, k)}}), {"500"}))
      row(n) == ForEach(text(n) \ {""}, LAMBDA t : <<Plain(tag(n), "  ", <<<<"a", t>>>>, Lineage(c, n))>>)
      of(S) == ForEach({n \in Across(c, S, "bffi:note") : shown(n)}, row)
  IN FirstOfEach(of(Expression(c)) \o of({c.m}))

TableOfContents(c) ==
  ForEach(Values(c, c.m, "bffi:tableOfContents"),
          LAMBDA n : ForEach(TextOrLabel(c, n) \ {""}, LAMBDA t : <<Plain("505", "0 ", <<<<"a", t>>>>, Lineage(c, n))>>))

\* 336, 337 and 338; 344, 346 and 347.
Coded(c, S, tag, ns, source) ==
  ForEach(S, LAMBDA n : <<Plain(tag, "  ", Sub("a", LocLabel(c, n, <<"fi", "en">>)) \o Sub("b", LocCode(n, ns))
                                            \o <<<<"2", source>>>>, {})>>)
ContentType(c) == Coded(c, Uris(Across(c, Expression(c), "bffi:content")), "336", "contentTypes", "rdacontent")
MediaType(c) == Coded(c, Values(c, c.m, "bffi:media"), "337", "mediaTypes", "rdamedia")
CarrierType(c) == Coded(c, Values(c, c.m, "bffi:carrier"), "338", "carriers", "rdacarrier")

Named(c, n, tag, code) == <<Plain(tag, "  ", Sub(code, LocLabel(c, n, <<"en">>)), {})>>
SoundCode(n) == IF In("mrecmedium", n) THEN "h" ELSE IF In("mplayspeed", n) THEN "e"
                ELSE IF In("mplayback", n) THEN "g" ELSE "a"
DigitalCharacteristic(c) ==
  ForEach(Values(c, c.m, "bffi:digitalCharacteristic"), LAMBDA n : Named(c, n, "347", "b"))
SoundCharacteristic(c) ==
  ForEach(Values(c, c.m, "bffi:soundCharacteristic"), LAMBDA n : Named(c, n, "344", SoundCode(n)))
ColorContent(c) == ForEach(Values(c, c.m, "bffi:colorContent"), LAMBDA n : Named(c, n, "346", "a"))

Skipped(c) == {"852"} \cup IF Expression(c) # {} /\ ContentType(c) = <<>> THEN {"336"} ELSE {}

-----------------------------------------------------------------------------
(* Subjects and genres.                                                    *)

SubjectTypeTags == [Person |-> "600", Organization |-> "610", Meeting |-> "611", Temporal |-> "648",
                    Place |-> "651", Topic |-> "650"]
TypeTag(c, t) == Maybe({SubjectTypeTags[k] : k \in {k \in DOMAIN SubjectTypeTags : IsA(c, t, Bffi(k))}})

\* No authority has the "/finaf/" of the personal names in its URI.
UriTag(t) ==
  FirstOf(<<IF RawKind(t, "Agent", "600") THEN {"600"} ELSE {},
            IF RawKind(t, "Agent", "610") THEN {"610"} ELSE {},
            IF RawKind(t, "Agent", "611") THEN {"611"} ELSE {},
            IF RawKind(t, "Topic", "648") \/ In("yso-aika", t) THEN {"648"} ELSE {},
            IF RawKind(t, "Place", "651") \/ In("yso-paikat", t) THEN {"651"} ELSE {}>>)

\* The authorities on the entity, and the raw URIs still on it bound to one.
Authorities(c, work, p) == {a \in Uris(Across(c, work, p)) : ~IsRaw(a)}
RawsOf(c, a) == {r \in Subjects(c.g, "skos:exactMatch", a) : IsRaw(r)}
Origin(c, work, p, a) == IF IsUri(a) /\ ~IsRaw(a) THEN Maybe(RawsOf(c, a) \cap Across(c, work, p)) ELSE {}

SubjectTag(c, work, t) ==
  IF ~IsUri(t) THEN "650"
  ELSE The(FirstOf(<<TypeTag(c, t), UriTag(t),
                     UNION {UriTag(r) : r \in Origin(c, work, "bffi:subject", t)}, {"650"}>>))

SubjectLineage(c, work, p, t) == OrElse(Lineage(c, t), LineageOf(c, Origin(c, work, p, t)))

SourceOfNamespace == [yso |-> "yso", slm |-> "slm", kauno |-> "kauno", musa |-> "musa", lcsh |-> "lcsh"]
Source(c, t) ==
  IF IsUri(t) /\ t[2] \in {"yso-paikat", "yso-aika"} THEN {"yso"}
  ELSE IF IsUri(t) /\ t[2] \in DOMAIN SourceOfNamespace THEN {SourceOfNamespace[t[2]]}
  ELSE Maybe({Text(v) : v \in {v \in Values(c, t, "bf:source") : ~IsBnode(v)}})

\* The typed name where it has a subfield left, else the label.
Heading(name, label) == IF name # {} /\ The(name) # <<>> THEN The(name) ELSE Sub("a", label)
Subject(subs, name) == IF subs = <<>> THEN {} ELSE {[subs |-> subs, bypass |-> name # {}]}

RawSubjectRow(c, t, authorities) ==
  LET label == FirstLabel(c, t)
      bound == \E a \in Values(c, t, "skos:exactMatch") : IsUri(a) /\ ~IsRaw(a)
      same == \E a \in authorities : label # {} /\ label \subseteq
                Texts(Values(c, a, "rdfs:label")) \cup Texts(Values(c, a, "skos:prefLabel"))
  IN IF bound \/ same THEN {}
     ELSE Subject(Heading(NameSubs(c, t), label) \o Sub("2", Source(c, t)), NameSubs(c, t))

AuthoritySubjectRow(c, t) ==
  LET raws == IF IsUri(t) THEN RawsOf(c, t) ELSE {}
      name == OrElse(NameSubs(c, t), Maybe(UNION {NameSubs(c, r) : r \in raws}))
      label == OrElse(LocLabel(c, t, <<"fi", "sv", "en">>), Maybe(UNION {FirstLabel(c, r) : r \in raws}))
      id == IF IsUri(t) THEN <<<<"0", t[2] \o ":" \o Text(t)>>>> ELSE <<>>
  IN Subject(Heading(name, label) \o Sub("2", Source(c, t)) \o id, name)

SubjectRow(c, t, authorities) ==
  IF IsRaw(t) THEN RawSubjectRow(c, t, authorities) ELSE AuthoritySubjectRow(c, t)

\* The reified occurrences of a subject: rdf:Statements about the Work or a
\* raw Work it was derived from.
Anchors(c, work) == work \cup Uris(Across(c, work, "prov:wasDerivedFrom"))
Statements(c, work) ==
  {s \in UNION {Subjects(c.g, "rdf:subject", a) : a \in Anchors(c, work)} : IsA(c, s, Uri("rdf", "Statement"))}

\* First by the statements, then by the flat links none of them was about.
SubjectRows(c) ==
  LET work == WorkOf(c)
      authorities == Authorities(c, work, "bffi:subject")
      genres == Across(c, work, "bffi:genreForm")
      about(s) == Maybe(Values(c, s, "rdf:object"))
      occurrence(s) == ForEach(about(s) \ genres, LAMBDA t : <<[target |-> t, stmt |-> {s}]>>)
      occurrences ==
        ForEach({s \in Statements(c, work) : <<s, "rdf:predicate", Bffi("subject")>> \in c.g}, occurrence)
      flat == ForEach(Across(c, work, "bffi:subject"), LAMBDA t : <<[target |-> t, stmt |-> {}]>>)
      all == occurrences \o flat
      row(x) == ForEach(SubjectRow(c, x.target, authorities),
                        LAMBDA r : <<Row(SubjectTag(c, work, x.target), " 7", r.subs,
                                         OrElse(LineageOf(c, x.stmt), SubjectLineage(c, work, "bffi:subject", x.target)),
                                         r.bypass)>>)
  IN FlattenSeq([i \in DOMAIN all |->
                   IF \E k \in 1..i - 1 : all[k].target = all[i].target THEN <<>> ELSE row(all[i])])

\* The statement about the target, else about the raw URI it was bound from.
StatementFor(c, work, t) ==
  LET about(S) == Maybe({s \in Statements(c, work) : Values(c, s, "rdf:object") \cap S # {}})
  IN OrElse(about({t}), OrElse(about(Origin(c, work, "bffi:genreForm", t)), about(RawsOf(c, t))))

GenreForms(c) ==
  LET work == WorkOf(c)
      authorities == Authorities(c, work, "bffi:genreForm")
      src(t) == OrElse(LineageOf(c, StatementFor(c, work, t)), SubjectLineage(c, work, "bffi:genreForm", t))
  IN ForEach(Across(c, work, "bffi:genreForm"),
             LAMBDA t : ForEach(SubjectRow(c, t, authorities),
                                LAMBDA r : <<Row("655", " 7", r.subs, src(t), r.bypass)>>))

-----------------------------------------------------------------------------
(* 880, and the record.                                                    *)

\* A text in another script is a language-tagged literal beside one with no
\* language.
Vernacular(c) ==
  LET other(tag, n, p) ==
        IF TextsIn("", Values(c, n, p)) = {} THEN <<>>
        ELSE ForEach({v \in Literals(Values(c, n, p)) : Lang(v) # ""},
                     LAMBDA v : <<[tag |-> tag, text |-> Text(v), of |-> n]>>)
      each(tag, S, p) == ForEach(S, LAMBDA n : other(tag, n, p))
      agents(S) == Across(c, S, "bffi:agent")
      credited(S, P(_)) == agents({n \in Across(c, S, "bffi:contribution") : P(n)})
      pas == Values(c, c.m, "bffi:provisionActivity")
      found == each("245", Values(c, c.m, "bffi:title"), "bffi:mainTitle")
               \o other("245", c.m, "bffi:responsibilityStatement")
               \o other("264", c.m, "bffi:publicationStatement")
               \o ForEach(pas, LAMBDA n : other("264", n, "bflc:simplePlace")
                                          \o other("264", n, "bflc:simpleAgent")
                                          \o other("264", n, "bflc:simpleDate"))
               \o each("100", credited(WorkOf(c), LAMBDA n : IsPrimary(c, n)), "rdfs:label")
               \o each("700", credited(Expression(c), LAMBDA n : ~IsPrimary(c, n)), "rdfs:label")
      link(i) == found[i].tag \o "-" \o ToString(i) \o "/" \o The(OrElse(Found("script", found[i].text), {"(B"}))
  IN [i \in DOMAIN found |-> Plain("880", "  ", <<<<"6", link(i)>>, <<"a", found[i].text>>>>, Lineage(c, found[i].of))]

\* build(): the record's rows in the order it appends them.
DataFields(c) ==
  Isbns(c) \o Issns(c) \o OtherStdIdentifiers(c) \o Classifications(c) \o PublisherNumbers(c)
  \o SystemControlNumbers(c) \o SourceMarker(c) \o Languages(c) \o PrimaryContribution(c)
  \o UniformTitle(c) \o Title(c) \o VariantTitle(c) \o EditionStatement(c) \o PublicationStatement(c)
  \o Extent(c) \o ContentType(c) \o MediaType(c) \o CarrierType(c) \o DigitalCharacteristic(c)
  \o SoundCharacteristic(c) \o ColorContent(c) \o SeriesStatement(c) \o Notes(c) \o TableOfContents(c)
  \o SubjectRows(c) \o GenreForms(c) \o AddedEntries(c) \o AnalyticalEntries(c) \o RelatedTitles(c)
  \o Vernacular(c) \o ForEach(BibId(c), LAMBDA b : <<Plain("907", "  ", <<<<"a", "." \o b>>>>, {})>>)

Record(c) == [bib |-> BibId(c), controls |-> ControlFields(c), fields |-> DataFields(c), skipped |-> Skipped(c)]
=============================================================================
