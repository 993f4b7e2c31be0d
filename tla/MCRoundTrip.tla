---------------------------- MODULE MCRoundTrip -----------------------------
(* Two records, b1 and b2, of one Work or of two.  b1 has some of the      *)
(* subject fields below, or one of the other groups of fields; b2 has one  *)
(* of the subject fields or none.  Each field comes with the triples M3    *)
(* has made of it in the corpus; the BIBFRAME they were made of is the     *)
(* same nodes and texts under the names M2-post knows.                     *)
EXTENDS RoundTrip

MCBibs == {"b1", "b2"}

-----------------------------------------------------------------------------
(* Subject fields.                                                         *)

SubjectField(tag, kind, type, label, vocab, preds, key) ==
  [tag |-> tag, kind |-> kind, type |-> type, label |-> label, vocab |-> vocab, preds |-> preds, key |-> key]

Kissa == Uri("yso", "kissa")
Tampere == Uri("yso", "tampere")
Jannitys == Uri("slm", "jannitys")
Virtanen == Uri("finaf", "virtanen")
Luku1910 == Uri("yso-aika", "1910")

About == {"bffi:subject"}
Genre == {"bffi:genreForm"}
MCSubjects ==
  <<SubjectField("650", "Topic", "Topic", "kissat", {"yso"}, About, {}),
    SubjectField("650", "Topic", "Topic", "koirat", {}, About, {}),
    SubjectField("651", "Place", "Place", "Tampere", {"yso"}, About, {}),
    SubjectField("650", "Topic", "Topic", "Tammerfors", {"yso"}, About, {}),
    SubjectField("650", "Topic", "Topic", "kissa", {}, About, {}),
    SubjectField("655", "GenreForm", "GenreForm", "trilleri", {"slm"}, Genre, {}),
    SubjectField("600", "Agent", "Person", "Virtanen", {}, About, {"600 Virtanen"}),
    SubjectField("648", "Temporal", "Temporal", "1910-luku", {"yso"}, About, {}),
    SubjectField("655", "GenreForm", "GenreForm", "runot", {"slm"}, Genre, {}),
    \* terms of the retired vocabularies, and a fictional character
    SubjectField("650", "Topic", "Topic", "katt", {"allars"}, About, {}),
    SubjectField("655", "GenreForm", "GenreForm", "romaani", {"kaunokki"}, Genre, {}),
    SubjectField("650", "Topic", "Topic", "huilu", {"seko"}, About, {}),
    SubjectField("650", "Topic", "Topic", "kalakissat", {"ysa"}, About, {}),
    SubjectField("650", "Topic", "Topic", "kissalaulut", {"musa"}, About, {}),
    SubjectField("600", "Agent", "Person", "Muumi (fiktiivinen hahmo)", {}, About, {})>>
Current == 1..9
Retired == 10..15
\* A subdivision, $x, is part of the label in BIBFRAME; $a alone is not.
HeadingSubs(i) ==
  IF i = 4 THEN <<<<"a", "Tammer">>, <<"x", "fors">>>> ELSE <<<<"a", MCSubjects[i].label>>>>

RawName(b, kind, tag, ord) == b \o "#" \o kind \o tag \o "-" \o ToString(ord)
RawParts == {[bib |-> b, kind |-> MCSubjects[i].kind, tag |-> MCSubjects[i].tag, ord |-> i] :
               b \in MCBibs, i \in DOMAIN MCSubjects}
            \cup {[bib |-> b, kind |-> k[1], tag |-> k[2], ord |-> 20] :
                    b \in MCBibs, k \in {<<"Hub", "240">>, <<"Hub", "130">>, <<"Hub", "700">>,
                                         <<"Hub", "730">>, <<"Work", "740">>, <<"Hub", "830">>, <<"Agent", "100">>,
                                         <<"Agent", "700">>, <<"Agent", "710">>, <<"Agent", "711">>,
                                         <<"MusicMedium", "382">>}}
MCRaw == [id \in {RawName(r.bib, r.kind, r.tag, r.ord) : r \in RawParts} |->
            CHOOSE r \in RawParts : RawName(r.bib, r.kind, r.tag, r.ord) = id]
RawNode(b, kind, tag, ord) == Uri("raw", RawName(b, kind, tag, ord))

TokenText(b, tag, rank) == b \o ":" \o tag \o ":" \o ToString(rank)
TokenParts == {[bib |-> b, tag |-> tag, ord |-> n] :
                 b \in MCBibs, n \in 1..3,
                 tag \in {MCSubjects[i].tag : i \in DOMAIN MCSubjects}
                         \cup {"020", "028", "035", "100", "240", "245", "246", "264", "300", "500", "730", "740"}}
MCTokens == [t \in {TokenText(p.bib, p.tag, p.ord) : p \in TokenParts} |->
               CHOOSE p \in TokenParts : TokenText(p.bib, p.tag, p.ord) = t]

MCMarcKeys ==
  LET key(tag, ind2, subs) == [tag |-> tag, ind1 |-> "1", ind2 |-> ind2, subs |-> subs]
  IN "600 Virtanen" :> key("600", " ", <<<<"a", "Virtanen, Ville">>, <<"e", "aihe">>>>)
     @@ "100 Virtanen" :> key("100", " ", <<<<"a", "Virtanen, Ville">>, <<"d", "1900">>, <<"4", "aut">>>>)
     @@ "240 Sinfonia" :> key("240", " ", <<<<"a", "Elgar">>, <<"t", "Sinfonia">>, <<"n", "1">>, <<"l", "sv">>, <<"n", "2">>>>)
     @@ "700 Laulu" :> key("700", "2", <<<<"a", "Elgar">>, <<"t", "Laulu">>>>)
     @@ "730 Kalevala" :> key("730", "0", <<<<"a", "Kalevala /">>, <<"g", "Elgar">>, <<"s", "vanha">>, <<"0", "x">>>>)

MCSpelling ==
  <<"trimmed", "Kalevala /">> :> "Kalevala" @@ <<"lower", "Kirjoittaja">> :> "kirjoittaja"
  @@ <<"yymmdd", "2020-01-02">> :> "200102" @@ <<"leading year", "1999">> :> "1999"
  @@ <<"first digits", "c1998.">> :> "1998" @@ <<"organization", "fihelme">> :> "FI-HELME"
  @@ <<"without suomi", "Kirja, suomi">> :> "Kirja," @@ <<"script", "Voina">> :> "(N"
  @@ <<"head", "Oopus / Elgar">> :> "Oopus /" @@ <<"responsibility", "Oopus / Elgar">> :> "Elgar"
  @@ <<"in parentheses", "Nimi (WSOY 1999)">> :> "WSOY 1999" @@ <<"in parentheses", "Toinen (osa 1)">> :> "osa 1"
  @@ <<"translator", "Kaantaja">> :> "kaantaja" @@ <<"folded", "Kirja">> :> "kirja"
  @@ <<"kind of source", "slm">> :> "genre_form" @@ <<"kind of source", "kaunokki">> :> "genre_form"
  @@ <<"kind of source", "seko">> :> "music_form" @@ <<"fictional", "Muumi (fiktiivinen hahmo)">> :> "Muumi"
  @@ [x \in {<<"agent fragment", n>> : n \in {n \in DOMAIN MCRaw : MCRaw[n].tag = "600"}} |-> "person"]

MCMtsRoles == <<"kirjoittaja", "Work">> :> Uri("mts", "m1") @@ <<"kuvittaja", "Item">> :> Uri("mts", "m2")

Prefers(c, lang, text) == <<c, "skos:prefLabel", LitIn(lang, text)>>
MCDumps ==
  LET allars == Uri("allars", "katt")
      kauno == Uri("kauno", "romaani")
      seko == Uri("seko", "huilu")
      ysa(x) == Uri("ysa", x)
  IN [yso |-> {Prefers(Kissa, "fi", "kissa"), Prefers(Kissa, "sv", "katter"), Prefers(Tampere, "sv", "Tammerfors"),
               Prefers(Luku1910, "fi", "1910-luku"), Prefers(Uri("yso", "romaanit"), "fi", "romaanit")},
      slm |-> {Prefers(Jannitys, "fi", "trilleri")},
      allars |-> {Prefers(allars, "sv", "katt"), <<allars, "skos:exactMatch", Kissa>>},
      kauno |-> {Prefers(kauno, "fi", "romaani"), <<kauno, "dct:isReplacedBy", Uri("yso", "romaanit")>>},
      seko |-> {Prefers(seko, "fi", "huilu"), <<seko, "skos:closeMatch", Uri("lcmpt", "flute")>>},
      lcmpt |-> {Prefers(Uri("lcmpt", "flute"), "en", "flute")},
      ysa |-> {Prefers(ysa("kalakissat"), "fi", "kalakissat"), <<ysa("kalakissat"), "skos:closeMatch", Kissa>>,
               <<ysa("laulut"), "skos:exactMatch", Kissa>>},
      musa |-> {Prefers(Uri("musa", "kissalaulut"), "fi", "kissalaulut"),
                <<Uri("musa", "kissalaulut"), "dct:isReplacedBy", ysa("laulut")>>},
      finaf |-> {Prefers(Virtanen, "fi", "Virtanen, V.")}]
MCServices ==
  LET authority(uri, review) == [uri |-> uri, review |-> review]
  IN <<"subject", "kissat">> :> authority(Kissa, FALSE) @@ <<"subject", "Tampere">> :> authority(Tampere, TRUE)
     @@ <<"genre_form", "runot">> :> authority(Jannitys, FALSE) @@ <<"person", "Virtanen">> :> authority(Virtanen, FALSE)
     @@ <<"person", "Elgar">> :> authority(Uri("finaf", "elgar"), TRUE)

MCVocabulary ==
  UNION {MCDumps[name] : name \in {"yso", "slm", "finaf"}}
  \cup {Prefers(Uri("mts", "m1"), "fi", "tekija"), Prefers(Uri("relators", "aut"), "en", "author"),
        Prefers(Uri("mediaTypes", "n"), "en", "unmediated")}
MCBridges ==
  {<<Uri("countries", "fi"), "skos:prefLabel", LitIn("fi", "Suomi")>>,
   <<Uri("languages", "fin"), "skos:prefLabel", LitIn("fi", "suomi")>>,
   <<Uri("languages", "fin"), "skos:exactMatch", Uri("lexvo", "fin")>>,
   <<Uri("issuance", "mono"), "skos:prefLabel", LitIn("en", "single unit")>>}

-----------------------------------------------------------------------------
(* The graph of the corpus.                                                *)

Manif(b) == Uri("manifestation", b)
Expr(b) == Uri("expression", b)
RawWork(b) == Uri("m3", b)
Are(s, p, S) == {<<s, p, o>> : o \in S}
Typed(n, c) == <<n, "rdf:type", c>>
B(b, id) == Bnode(b \o id)
MCVariants == {[work |-> RawWork("b1"), label |-> "Virtanen", variant |-> "Wirtanen"]}

\* Every Manifestation has the identifier of its Helmet record, and a label
\* for every title of the record, a variant or one in another script too.
Frame(b, title, labels) ==
  LET w == RawWork(b)
  IN {Typed(Manif(b), Bffi("Manifestation")), Typed(Expr(b), Bffi("Expression")), Typed(w, Bffi("Work")),
      Typed(w, Bffi("Text")), Typed(w, Bf("Text")), <<Manif(b), "bffi:expressionManifested", Expr(b)>>,
      <<Expr(b), "bffi:expressionOf", w>>, <<w, "bffi:hasExpression", Expr(b)>>, <<Manif(b), "dct:identifier", Lit(b)>>,
      <<Manif(b), "bffi:identifiedBy", B(b, "helmet")>>, <<B(b, "helmet"), "bf:source", Uri("source", "helmet")>>,
      <<B(b, "helmet"), "rdf:value", Lit(b)>>, <<w, "skos:prefLabel", Lit(title)>>,
      <<Manif(b), "bffi:title", B(b, "title")>>, <<B(b, "title"), "bffi:mainTitle", Lit(title)>>}
     \cup {<<Manif(b), "skos:prefLabel", Lit(l)>> : l \in labels}
FrameFields(title) == <<Original("245", "10", <<<<"a", title>>>>)>>

\* Field i of MCSubjects in record b.
SubjectTriples(b, i) ==
  LET f == MCSubjects[i]
      raw == RawNode(b, f.kind, f.tag, i)
  IN {Typed(raw, Bffi(f.type)), <<raw, "rdfs:label", Lit(f.label)>>}
     \cup {<<RawWork(b), p, raw>> : p \in f.preds}
     \cup {<<raw, "bf:source", Lit(x)>> : x \in f.vocab}
     \cup {<<raw, "bflc:marcKey", Lit(k)>> : k \in f.key}

SubjectsGraph(b, S) == UNION {SubjectTriples(b, i) : i \in S}
\* Members of a set of numbers, in order.
Ascending(S) == SelectSeq([i \in 1..Max(S \cup {0}) |-> i], LAMBDA i : i \in S)
SubjectFields(S) ==
  [n \in 1..Cardinality(S) |->
     LET i == Ascending(S)[n]
     IN Original(MCSubjects[i].tag, " 7",
                 HeadingSubs(i) \o IF MCSubjects[i].tag = "655" THEN <<<<"2", "slm">>, <<"0", "slm:jannitys">>>>
                               ELSE <<<<"2", "yso">>>>)]

-----------------------------------------------------------------------------
(* The other groups.                                                       *)

Titles(b, w) ==
  LET hub == RawNode(b, "Hub", "240", 20)
      hub130 == RawNode(b, "Hub", "130", 20)
      rel(k) == B(b, "rel" \o k)
      related(k, r) == {<<Manif(b), "bffi:relation", rel(k)>>, <<rel(k), "bffi:associatedResource", r>>,
                        <<rel(k), "bffi:relationship", Uri("relationship", "relatedwork")>>}
  IN {<<Expr(b), "bffi:title", hub>>, Typed(hub, Bf("Hub")), <<hub, "bflc:marcKey", Lit("240 Sinfonia")>>,
      <<hub, "bffi:title", B(b, "part")>>, <<B(b, "part"), "bffi:partNumber", Lit("1")>>,
      <<B(b, "part"), "bffi:partName", Lit("Allegro")>>, <<hub, "bf:language", B(b, "lang")>>,
      <<B(b, "lang"), "rdfs:label", Lit("suomi")>>,
      <<Expr(b), "bffi:title", B(b, "variant")>>, Typed(B(b, "variant"), Bf("VariantTitle")),
      <<B(b, "variant"), "bffi:mainTitle", Lit("Toinen (osa 1)")>>,
      <<B(b, "title"), "bffi:mainTitle", LitIn("ru", "Voina")>>, <<B(b, "title"), "bffi:subtitle", Lit("romaani")>>,
      <<Manif(b), "bf:hasSeries", B(b, "series")>>, <<B(b, "series"), "rdfs:label", Lit("Sarja")>>,
      <<Manif(b), "bf:hasSeries", B(b, "series2")>>, <<B(b, "series2"), "bffi:mainTitle", Lit("Toinen sarja")>>,
      <<RawNode(b, "Hub", "700", 20), "bflc:marcKey", Lit("700 Laulu")>>, Typed(RawNode(b, "Hub", "700", 20), Bf("Hub")),
      <<RawNode(b, "Hub", "730", 20), "bflc:marcKey", Lit("730 Kalevala")>>, Typed(RawNode(b, "Hub", "730", 20), Bf("Hub")),
      <<RawNode(b, "Hub", "730", 20), "bffi:version", Lit("uusi")>>,
      <<Expr(b), "bffi:aggregates", Expr("laulu")>>, <<Expr(b), "bffi:aggregates", Expr("kalevala")>>,
      <<Expr("laulu"), "bflc:marcKey", Lit("700 Laulu")>>, <<Expr("kalevala"), "bflc:marcKey", Lit("730 Kalevala")>>,
      <<Expr("kalevala"), "bffi:contribution", B(b, "kc")>>, Typed(B(b, "kc"), Bffi("Contribution")),
      <<B(b, "kc"), "bffi:agent", B(b, "ka")>>, <<B(b, "ka"), "rdfs:label", Lit("Elgar")>>,
      Typed(RawNode(b, "Work", "740", 20), Bf("Work")), <<RawNode(b, "Work", "740", 20), "bffi:title", B(b, "740")>>,
      <<B(b, "740"), "bffi:mainTitle", Lit("Oopus / Elgar")>>}
     \cup {Typed(Expr(k), Bffi("Expression")) : k \in {"laulu", "kalevala"}}
     \cup {<<Expr(k), "bffi:aggregatedBy", Expr(b)>> : k \in {"laulu", "kalevala"}}
     \cup related("1", RawNode(b, "Hub", "700", 20)) \cup related("2", RawNode(b, "Hub", "730", 20))
     \cup related("3", RawNode(b, "Work", "740", 20))

Songs(b, w) ==
  LET hub == RawNode(b, "Hub", "130", 20)
  IN {<<Expr(b), "bffi:title", hub>>, Typed(hub, Bf("Hub")), <<hub, "bffi:title", B(b, "main")>>,
      <<B(b, "main"), "bffi:mainTitle", Lit("Kirja, suomi")>>, <<hub, "bf:language", B(b, "lang")>>,
      <<B(b, "lang"), "rdfs:label", Lit("suomi")>>,
      <<Manif(b), "bf:hasSeries", RawNode(b, "Hub", "830", 20)>>,
      <<RawNode(b, "Hub", "830", 20), "rdfs:label", Lit("Sarja")>>,
      <<w, "bffi:musicMedium", RawNode(b, "MusicMedium", "382", 20)>>,
      <<RawNode(b, "MusicMedium", "382", 20), "rdfs:label", Lit("huilu")>>,
      Typed(w, Bf("MusicAudio"))}
     \cup Are(Manif(b), "bffi:soundCharacteristic", {Uri("mplayspeed", "x"), Uri("mrecmedium", "opt")})

Agents(b, w) ==
  LET a100 == RawNode(b, "Agent", "100", 20)
      contribution(s, id, agent, roles) ==
        {<<s, "bffi:contribution", B(b, id)>>, <<B(b, id), "bffi:agent", agent>>} \cup Are(B(b, id), "bffi:role", roles)
  IN contribution(w, "c1", a100, {B(b, "role"), Uri("relators", "aut")})
     \cup contribution(Expr(b), "c2", RawNode(b, "Agent", "710", 20), {Uri("relators", "aut")})
     \cup contribution(Expr(b), "c3", B(b, "anon"), {B(b, "empty")})
     \cup {Typed(B(b, "c1"), Bffi("PrimaryContribution")), <<B(b, "role"), "rdfs:label", Lit("Kirjoittaja")>>,
           <<a100, "rdfs:label", Lit("Virtanen")>>, <<a100, "bflc:marcKey", Lit("100 Virtanen")>>,
           <<a100, "bffi:identifiedBy", B(b, "isni")>>, <<B(b, "isni"), "rdf:value", Lit("1")>>,
           <<B(b, "isni"), "bf:source", B(b, "isnis")>>, <<B(b, "isnis"), "bffi:code", Lit("isni")>>,
           <<RawNode(b, "Agent", "710", 20), "rdfs:label", Lit("Yhtye")>>,
           <<RawNode(b, "Agent", "710", 20), "rdfs:label", LitIn("ru", "Voina")>>,
           <<B(b, "anon"), "rdfs:label", Lit("Nimeton")>>}

\* Nobody but contributors to the Expression, one of them its translator.
Editors(b, w) ==
  LET contribution(id, agent, label) ==
        {<<Expr(b), "bffi:contribution", B(b, id)>>, <<B(b, id), "bffi:agent", agent>>, <<agent, "rdfs:label", Lit(label)>>}
  IN contribution("c1", RawNode(b, "Agent", "700", 20), "Suomentaja")
     \cup contribution("c2", RawNode(b, "Agent", "711", 20), "Kokous")
     \cup {<<B(b, "c1"), "bffi:role", B(b, "role")>>, <<B(b, "role"), "rdfs:label", Lit("Kaantaja")>>,
           <<B(b, "c2"), "bffi:role", Uri("relators", "edt")>>, <<Uri("relators", "edt"), "rdfs:label", LitIn("en", "editor")>>}

Notes2(b, w) ==
  LET note(id) == B(b, "note" \o id)
      of(s, id, S) == {<<s, "bffi:note", note(id)>>} \cup Are(note(id), "rdf:type", S)
      pa == B(b, "pa")
  IN of(Expr(b), "1", {Uri("resourceComponents", "otx")}) \cup {<<note("1"), "bffi:language", Uri("languages", "fin")>>}
     \cup of(Expr(b), "2", {Uri("mnotetype", "summary")}) \cup {<<note("2"), "rdfs:label", Lit("tiivistelma")>>}
     \cup of(Manif(b), "3", {Uri("mnotetype", "accmat")}) \cup {<<note("3"), "rdfs:label", Lit("liite")>>}
     \cup of(Manif(b), "4", {Bf("Note")}) \cup {<<note("4"), "rdfs:label", Lit("alkusanat")>>}
     \cup {<<Manif(b), "bffi:note", Lit("huomautus")>>,
           <<Manif(b), "bffi:extent", B(b, "ext")>>, <<B(b, "ext"), "rdfs:label", Lit("200 s.")>>,
           Typed(B(b, "ext"), Bf("Extent")), <<B(b, "ext"), "bf:note", note("5")>>,
           Typed(note("5"), Uri("mnotetype", "physical")), <<note("5"), "rdfs:label", Lit("kuvitettu")>>,
           <<Manif(b), "bffi:dimensions", Lit("20 cm")>>, <<Manif(b), "bffi:tableOfContents", B(b, "toc")>>,
           <<B(b, "toc"), "rdfs:label", Lit("sisallys")>>, <<Manif(b), "bffi:editionStatement", Lit("2. painos")>>,
           <<Expr(b), "bffi:language", Uri("languages", "fin")>>, <<Expr(b), "bffi:content", Uri("contentTypes", "txt")>>,
           <<Manif(b), "bffi:media", Uri("mediaTypes", "n")>>, <<Manif(b), "bffi:carrier", Uri("carriers", "nc")>>,
           <<Manif(b), "bffi:provisionActivity", pa>>, Typed(pa, Bf("Publication")), <<pa, "bflc:simpleAgent", Lit("WSOY")>>,
           <<pa, "bflc:simpleDate", Lit("c1998.")>>, <<pa, "bf:date", Lit("1999")>>, <<pa, "bf:place", Uri("countries", "fi")>>,
           Typed(pa, Bf("ProvisionActivity")), <<Manif(b), "bffi:responsibilityStatement", Lit("V. Virtanen")>>}

Ids(b, w) ==
  LET id(k, type, value) == {<<Manif(b), "bffi:identifiedBy", B(b, k)>>, Typed(B(b, k), type), <<B(b, k), "rdf:value", Lit(value)>>}
      adm == B(b, "admin")
  IN id("isbn", Bf("Isbn"), "951") \cup id("issn", Bf("Issn"), "0000") \cup id("ean", Bf("Ean"), "640")
     \cup id("other", Bf("OtherIdentifier"), "x1") \cup id("issue", Bf("AudioIssueNumber"), "CD1")
     \cup id("local", Bffi("Local"), "123") \cup id("local2", Bffi("Local"), "456")
     \cup {<<B(b, "isbn"), "bffi:qualifier", Lit("sid.")>>,
           <<B(b, "local"), "bffi:assigner", Uri("organizations", "fihelme")>>,
           <<w, "bffi:classification", B(b, "cls")>>, <<B(b, "cls"), "bffi:classificationPortion", Lit("78")>>,
           <<B(b, "cls"), "bf:source", B(b, "clss")>>, <<B(b, "clss"), "bffi:code", Lit("ykl")>>,
           <<w, "bffi:adminMetadata", B(b, "wadmin")>>, Typed(B(b, "wadmin"), Bffi("AdminMetadata")),
           <<Manif(b), "bffi:adminMetadata", adm>>, Typed(adm, Bffi("AdminMetadata")),
           <<adm, "bffi:status", Uri("mstatus", "c")>>, <<adm, "bffi:encodingLevel", Uri("menclvl", "3")>>,
           <<adm, "bffi:descriptionConventions", Uri("descriptionConventions", "dacs")>>,
           <<adm, "bffi:descriptionLanguage", Uri("languages", "fin")>>, <<adm, "bffi:changeDate", Lit("2020-01-02")>>,
           <<adm, "bf:agent", B(b, "agency")>>, <<B(b, "agency"), "bffi:code", Lit("FI-HELME")>>,
           <<Manif(b), "bf:issuance", Uri("issuance", "mono")>>, <<Manif(b), "bffi:colorContent", Uri("mcolor", "mul")>>}

Group(name, b, w) ==
  CASE name = "none" -> {} [] name = "titles" -> Titles(b, w) [] name = "songs" -> Songs(b, w)
    [] name = "agents" -> Agents(b, w) [] name = "editors" -> Editors(b, w) [] name = "notes" -> Notes2(b, w) [] name = "ids" -> Ids(b, w)

\* Fields of the originals of each group: enough for every way of pairing.
GroupFields(name) ==
  CASE name = "titles" -> <<Original("240", "10", MCMarcKeys["240 Sinfonia"].subs), Original("880", "  ", <<<<"a", "Voina">>>>),
                            Original("246", "3 ", <<<<"a", "Toinen (osa 1)">>>>), Original("490", "0 ", <<<<"a", "Sarja">>>>),
                            Original("740", "0 ", <<<<"a", "Oopus">>, <<"g", "Elgar">>>>)>>
    [] name = "agents" -> <<Original("100", "1 ", <<<<"a", "Virtanen, V.">>, <<"4", "aut">>, <<"d", "1900">>>>),
                            Original("710", "1 ", <<<<"a", "Yhtye">>>>)>>
    [] name = "notes" -> <<Original("264", " 1", <<<<"b", "WSOY">>, <<"c", "c1998.">>>>), Original("300", "  ", <<<<"a", "200 s.">>>>),
                           Original("500", "  ", <<<<"a", "alkusanat">>>>), Original("336", "  ", <<<<"b", "txt">>>>)>>
    [] name = "ids" -> <<Original("020", "  ", <<<<"a", "951">>>>), Original("028", "01", <<<<"a", "CD1">>>>),
                         Original("035", "  ", <<<<"a", "(FI-HELME)123">>>>), Original("852", "  ", <<<<"a", "Helmet">>>>)>>
    [] name = "none" -> <<>>
    [] OTHER -> <<Original("336", "  ", <<<<"b", "txt">>>>)>>

OriginalControls(b) ==
  <<[tag |-> "001", value |-> <<b>>], [tag |-> "003", value |-> <<"FI-HELME">>],
    [tag |-> "007", value |-> <<"t">>], [tag |-> "007", value |-> <<"s">>]>>

\* What M2-post reads of the BIBFRAME that the triples of M3 were made of.
BfWork(b) == Uri("bf", b)
InBibframe(b, made) ==
  LET named(t) == CASE t[2] = "bffi:mainTitle" -> <<t[1], "bf:mainTitle", t[3]>>
                    [] t[2] = "bffi:subtitle" -> <<t[1], "bf:subtitle", t[3]>>
                    [] t[2] = "bffi:subject" -> <<BfWork(b), "bf:subject", t[3]>>
                    [] t[2] = "bffi:genreForm" -> <<BfWork(b), "bf:genreForm", t[3]>>
                    [] t[2] = "bffi:associatedResource" -> <<t[1], "bf:associatedResource", t[3]>>
                    [] OTHER -> t
  IN {named(t) : t \in {t \in made : t[1] # RawWork(b) \/ t[2] \in {"bffi:subject", "bffi:genreForm"}}}
     \cup {Typed(BfWork(b), Bf("Work")), Typed(B(b, "title"), Bf("Title"))}

\* groupOf and subjects of each record; merged: they are judged to be of one
\* Work, which has two titles where one is a record of songs; conflict: the cascade flagged the
\* group; located, found: the records whose MARCXML M2-post and the round trip
\* have.
Case(merged, conflict, groupOf, subjects, located, found, outages) ==
  LET title(b) == IF groupOf[b] = "songs" THEN "Nimi (WSOY 1999)"
                  ELSE IF b = "b1" \/ merged THEN "Kirja" ELSE "Toinen kirja"
      labels(b) == {title(b)} \cup IF groupOf[b] = "titles" THEN {"Voina", "Toinen (osa 1)"} ELSE {}
      made == [b \in MCBibs |-> Frame(b, title(b), labels(b)) \cup Group(groupOf[b], b, RawWork(b)) \cup SubjectsGraph(b, subjects[b])]
      record(b) == [controls |-> OriginalControls(b),
                    fields |-> FrameFields(title(b)) \o GroupFields(groupOf[b]) \o SubjectFields(subjects[b])]
  IN [bibframe |-> [b \in MCBibs |-> InBibframe(b, made[b])],
      sources |-> [b \in located |-> record(b)],
      corpus |-> {Typed(Manif("unnamed"), Bffi("Manifestation"))} \cup UNION {made[b] : b \in MCBibs},
      groups |-> {[members |-> seq, conflict |-> conflict] :
                    seq \in IF merged THEN {<<RawWork("b1"), RawWork("b2")>>} ELSE {<<RawWork(b)>> : b \in MCBibs}},
      originals |-> [b \in found |-> record(b)],
      outages |-> outages]

OnSubjects(merged, S1, S2, located, outages) ==
  Case(merged, FALSE, [b \in MCBibs |-> "none"], [b1 |-> S1, b2 |-> S2], located, MCBibs, outages)

UpTo(n, S) == {T \in SUBSET S : Cardinality(T) <= n}
Groups == {"none", "titles", "songs", "agents", "editors", "notes", "ids"}
MCCases ==
  {Case(merged, FALSE, [b1 |-> g1, b2 |-> g2], [b \in MCBibs |-> {}], MCBibs, {"b1"}, 0) :
     merged \in BOOLEAN, g1, g2 \in Groups}
  \cup {OnSubjects(FALSE, S1, S2, MCBibs, 0) : S1, S2 \in UpTo(1, Current)}
  \cup {OnSubjects(TRUE, S1, S2, {"b1"}, 0) : S1 \in UpTo(2, Current), S2 \in UpTo(1, {1, 3, 4})}
  \cup {OnSubjects(merged, {i}, {}, {}, 0) : merged \in BOOLEAN, i \in Retired}
  \cup {OnSubjects(TRUE, {4, 5}, {5}, MCBibs, 1), OnSubjects(TRUE, {1, 2}, {}, {}, 0),
        Case(TRUE, TRUE, [b \in MCBibs |-> "agents"], [b \in MCBibs |-> {3}], MCBibs, MCBibs, 0)}
=============================================================================
