----------------------------- MODULE RoundTrip ------------------------------
(* From the records to the corpus and back: M2-post enriches the BIBFRAME  *)
(* file of every record in place; M8 writes canonical.ttl from the graph   *)
(* of the corpus, M9 binds authorities in it; skosify turns it into        *)
(* canonical-skosified.ttl, pass by pass.  Each writes a file in one       *)
(* replace at the end.  marc-roundtrip reconstructs the MARC record of     *)
(* every Manifestation and compares it with the original.                  *)
EXTENDS Skosify, Reconstruct, MarcDiff

CONSTANTS Variants, Dumps, Services,
          Vocabulary,   \* the triples of the vocabulary dumps the round trip merges
          Cases         \* [bibframe: bib -> graph, sources: bib -> record, corpus: graph, groups,
                        \*  originals: bib -> record, outages]

\* A field of an original record.
Controls == [tag : STRING, value : Seq(STRING)]
Fields == [tag : STRING, ind : STRING, subs : Seq(STRING \X STRING), src : {{}}, bypass : {FALSE}]

ASSUME VocabularyAssumption == IsFiniteSet(Vocabulary)

ASSUME CasesAssumption ==
  \A c \in Cases : \A b \in DOMAIN c.originals :
    c.originals[b].controls \in Seq(Controls) /\ c.originals[b].fields \in Seq(Fields)

M2Post == INSTANCE Correlate
M8 == INSTANCE MergeGraph
M9 == INSTANCE BindGraph

VARIABLES case,         \* the corpus; never written.  A record not in its originals cannot be compared
          bibframe,     \* bib -> the graph of its .rdf file
          correlated,   \* M2-post has been through all of them
          canonical,    \* canonical.ttl, {} where there is none
          reconciled,   \* M9 has written it
          skosified,    \* canonical-skosified.ttl, {} where there is none
          at,           \* what runs: "none", "m2post", "m9", "skosify", "roundtrip"
          graph,        \* the graph in the memory of skosify and the round trip
          done,         \* passes applied
          source,       \* the file the round trip reads
          queue,        \* files, requests or manifestations to come
          outcomes,     \* M9: what the requests were resolved to
          failed,       \* M9: <<kind, literal>> whose lookup in Fuseki failed
          reports,      \* file -> bib -> [record, diff], diff {} where there was no original
          summary       \* file -> the counts of summary.json

m9 == <<outcomes, failed>>
m2post == <<bibframe, correlated>>
files == <<canonical, reconciled, skosified>>
results == <<source, reports, summary>>
roundTrip == <<case, m2post, files, at, graph, done, queue, m9, results>>

originals == case.originals

\* The graph M3 makes of the files.
corpusGraph == case.corpus \cup UNION {M2Post!PassedByM3(bibframe[b]) : b \in DOMAIN bibframe}

Files == {"canonical", "skosified"}
NoCounts == [manifestations |-> 0, reconstructed |-> 0, diffed |-> 0, missing |-> 0,
             statuses |-> [s \in Statuses |-> 0]]

RoundTripInit ==
  /\ case \in Cases
  /\ bibframe = case.bibframe /\ correlated = FALSE
  /\ canonical = {} /\ reconciled = FALSE /\ skosified = {}
  /\ at = "none" /\ graph = {} /\ done = 0 /\ queue = <<>> /\ outcomes = <<>> /\ failed = {}
  /\ source = "canonical"
  /\ reports = [f \in Files |-> <<>>]
  /\ summary = [f \in Files |-> NoCounts]

-----------------------------------------------------------------------------
(* M2-post.                                                                *)

StartM2Post ==
  /\ at = "none" /\ ~correlated
  /\ at' = "m2post" /\ queue' = SetToSeq(DOMAIN bibframe)
  /\ UNCHANGED <<case, m2post, files, graph, done, m9, results>>

\* The next file is enriched and replaced, whether it was before or not; one
\* whose MARCXML is missing or does not parse is left as it is.
Correlate ==
  /\ at = "m2post" /\ queue # <<>>
  /\ LET b == Head(queue)
     IN IF b \in DOMAIN case.sources
          THEN bibframe' = [bibframe EXCEPT ![b] = M2Post!Correlated(@, b, case.sources[b].fields)]
          ELSE UNCHANGED bibframe
  /\ queue' = Tail(queue)
  /\ UNCHANGED <<case, correlated, files, at, graph, done, m9, results>>

EndM2Post ==
  /\ at = "m2post" /\ queue = <<>>
  /\ at' = "none" /\ correlated' = TRUE
  /\ UNCHANGED <<case, bibframe, files, graph, done, queue, m9, results>>

-----------------------------------------------------------------------------
(* M8 and M9.                                                              *)

Merge ==
  /\ at = "none" /\ correlated /\ canonical = {}
  /\ \E g \in {corpusGraph} : canonical' = M8!Merged(g, case.groups)
  /\ UNCHANGED <<case, m2post, reconciled, skosified, at, graph, done, queue, m9, results>>

\* M9 runs once, before skosify and the round trip.
StartM9 ==
  /\ at = "none" /\ canonical # {} /\ ~reconciled
  /\ at' = "m9" /\ queue' = M9!Requests(canonical)
  /\ UNCHANGED <<case, m2post, files, graph, done, m9, results>>

\* A fictional character is left unbound; a hit in Fuseki ends the search.
Resolved(r, local) ==
  LET found == OrElse({[uri |-> u, review |-> FALSE] : u \in local}, M9!Service(r))
  IN [request |-> r, found |-> IF r.kind = "fictional_character" THEN {} ELSE found]

\* The next request: Fuseki answers, or fails and is taken to know nothing,
\* which is remembered of that literal and kind but by threads that ask at once.
Resolve ==
  /\ at = "m9" /\ queue # <<>>
  /\ LET r == Head(queue)
         key == <<r.kind, r.literal>>
         local == M9!LocalConcept(r.literal, r.kind)
     IN \/ outcomes' = Append(outcomes, Resolved(r, local)) /\ UNCHANGED failed
        \/ /\ local # {} /\ (key \in failed \/ Cardinality(failed) < case.outages)
           /\ outcomes' = Append(outcomes, Resolved(r, {})) /\ failed' = failed \cup {key}
  /\ queue' = Tail(queue)
  /\ UNCHANGED <<case, m2post, files, at, graph, done, results>>

\* The outcomes are applied in the order of the requests.
Bind ==
  /\ at = "m9" /\ queue = <<>>
  /\ canonical' = FoldLeft(M9!Bound, canonical, outcomes)
  /\ reconciled' = TRUE /\ at' = "none" /\ outcomes' = <<>> /\ failed' = {}
  /\ UNCHANGED <<case, m2post, skosified, graph, done, queue, results>>

-----------------------------------------------------------------------------
(* Skosify.                                                                *)

StartSkosify ==
  /\ at = "none" /\ reconciled /\ skosified = {}
  /\ at' = "skosify" /\ graph' = canonical /\ done' = 0
  /\ UNCHANGED <<case, m2post, files, queue, m9, results>>

Pass ==
  /\ at = "skosify" /\ done < Len(Passes)
  /\ graph' = Apply(Passes[done + 1], graph) /\ done' = done + 1
  /\ UNCHANGED <<case, m2post, files, at, queue, m9, results>>

Serialize ==
  /\ at = "skosify" /\ done = Len(Passes)
  /\ skosified' = graph /\ at' = "none" /\ graph' = {} /\ done' = 0
  /\ UNCHANGED <<case, m2post, canonical, reconciled, queue, m9, results>>

-----------------------------------------------------------------------------
(* The round trip.                                                         *)

Manifestations(g) == Uris(Subjects(g, "rdf:type", Bffi("Manifestation")))

StartRoundTrip ==
  /\ at = "none" /\ reconciled
  /\ source' = IF skosified # {} THEN "skosified" ELSE "canonical"
  /\ reports[source'] = <<>>
  /\ graph' = Vocabulary \cup (IF skosified # {} THEN skosified ELSE canonical)
  /\ at' = "roundtrip"
  /\ queue' = SetToSeq(Manifestations(graph'))
  /\ summary' = [summary EXCEPT ![source'].manifestations = Cardinality(Manifestations(graph'))]
  /\ UNCHANGED <<case, m2post, files, done, m9, reports>>

\* The triples of g, the vocabularies among them, and the manifestation m.
Context(g, m) == [g |-> g \cup Vocabulary, m |-> m, ranks |-> LineageRanks(g)]

Recorded(of, b, report) == [x \in {b} \cup DOMAIN of |-> IF x = b THEN report ELSE of[x]]
Tallied(counts, diff, found) ==
  [counts EXCEPT !.reconstructed = @ + 1, !.diffed = @ + found, !.missing = @ + 1 - found,
                 !.statuses = [s \in Statuses |-> @[s] + Summary(diff)[s]]]

\* A Manifestation with no bib id is passed over.
Reconstructed ==
  /\ at = "roundtrip" /\ queue # <<>>
  /\ queue' = Tail(queue)
  /\ \E c \in {Context(graph, Head(queue))} : \E record \in {Record(c)} :
       \/ /\ record.bib = {}
          /\ UNCHANGED <<reports, summary>>
       \/ \E b \in record.bib :
            \E diff \in {IF b \in DOMAIN originals THEN Diff(originals[b], record, record.skipped) ELSE {}} :
              LET found == IF b \in DOMAIN originals THEN 1 ELSE 0
              IN /\ reports' = [reports EXCEPT ![source] = Recorded(@, b, [record |-> record, diff |-> diff])]
                 /\ summary' = [summary EXCEPT ![source] = Tallied(@, diff, found)]
  /\ UNCHANGED <<case, m2post, files, at, graph, done, m9, source>>

EndRoundTrip ==
  /\ at = "roundtrip" /\ queue = <<>>
  /\ at' = "none" /\ graph' = {}
  /\ UNCHANGED <<case, m2post, files, done, queue, m9, results>>

\* A stage dies: nothing of the file it would have written is there.
Dies ==
  /\ at \in {"m2post", "m9", "skosify"}
  /\ at' = "none" /\ graph' = {} /\ done' = 0 /\ queue' = <<>> /\ outcomes' = <<>> /\ failed' = {}
  /\ UNCHANGED <<case, m2post, files, results>>

RoundTripNext == StartM2Post \/ Correlate \/ EndM2Post \/ Merge \/ StartM9 \/ Resolve \/ Bind \/ StartSkosify \/ Pass
        \/ Serialize \/ StartRoundTrip \/ Reconstructed \/ EndRoundTrip \/ Dies

RoundTripSpec == RoundTripInit /\ [][RoundTripNext]_roundTrip
-----------------------------------------------------------------------------
(* Properties.                                                             *)

Complete(f) == at = "none" /\ reports[f] # <<>>
IsSubject(r) == r.tag \in {"600", "610", "611", "648", "650", "651", "655"}

\* A row without its lineage, a subject row without its tag.
Shown(r) == [tag |-> IF IsSubject(r) THEN IF r.tag = "655" THEN "655" ELSE "6XX" ELSE r.tag,
             ind |-> r.ind, subs |-> r.subs, bypass |-> r.bypass]
\* How many there are of each of the rows, those without P.
ShownRows(rows, P(_)) ==
  LET kept == SelectSeq(rows, LAMBDA r : ~P(r))
  IN [x \in {Shown(kept[i]) : i \in DOMAIN kept} |-> Cardinality({i \in DOMAIN kept : Shown(kept[i]) = x})]

\* The canonical prefLabels that skosify has to choose from: a label with no
\* language is Finnish.
Crowded ==
  LET lang(l) == IF Lang(l) = "" THEN "fi" ELSE Lang(l)
      labels == {t \in Links(canonical, "skos:prefLabel") : IsLit(t[3])}
  IN {t[3] : t \in {t \in labels : \E u \in labels : u # t /\ u[1] = t[1] /\ lang(u[3]) = lang(t[3])}}

\* The rows skosify may change: a 490, which a series with a title and no
\* label gains, and a 264 read from the end of one of several labels.
Displayed(r) ==
  \/ r.tag = "490"
  \/ r.tag = "264" /\ r.src = {}
     /\ First(r, "c") \in {Found("in parentheses", Text(l)) : l \in Crowded}

Label(g, n) == Maybe(Texts(Objects(g, n, "rdfs:label")))
\* The raw subjects of the record with that tag, in the order of its fields.
RawSubjects(b, tag) ==
  {o \in {t[3] : t \in {t \in bibframe[b] : t[2] \in {"bf:subject", "bf:genreForm"}}} : IsRaw(o) /\ Raw[Text(o)].tag = tag}
PlaceAmong(S, o) == Cardinality({n \in S : Raw[Text(n)].ord <= Raw[Text(o)].ord})

(* marc2bibframe2 numbers the subjects it makes by the place of the field  *)
(* in the record, M2-post numbers the fields within their tag and finds    *)
(* the subjects again by what they say.  Where every heading is its $a, no *)
(* two alike, the statement about a subject names the field it was made    *)
(* from; and no two statements name one field or are about one subject.    *)
StatementsNameTheirFields ==
  at = "m2post" => \A b \in DOMAIN case.sources :
    \A g \in {bibframe[b]} :
      LET statements == Subjects(g, "rdf:type", Uri("rdf", "Statement"))
          about(s) == Maybe(Objects(g, s, "rdf:object"))
          fields == case.sources[b].fields
          headings(tag) == {i \in FieldsWith(fields, tag) : \E o \in RawSubjects(b, tag) : First(fields[i], "a") = Label(g, o)}
          plain(tag) == headings(tag) = FieldsWith(fields, tag)
                        /\ \A i, k \in headings(tag) : First(fields[i], "a") = First(fields[k], "a") => i = k
      IN \A s \in statements :
           /\ \A t \in statements : about(s) = about(t) \/ Objects(g, s, "prov:fromMarcField") = Objects(g, t, "prov:fromMarcField") => s = t
           /\ \A o \in about(s) : \A x \in {Tokens[y] : y \in Texts(Objects(g, s, "prov:fromMarcField"))} :
                IsRaw(o) /\ plain(x.tag) => Raw[Text(o)].tag = x.tag /\ PlaceAmong(RawSubjects(b, x.tag), o) = x.ord

(* The passes of skosify are for the reader of Skosmos: they add and prune *)
(* triples, tag labels with a language and demote all prefLabels but the   *)
(* shortest, of a merged Work too, and yet the record reconstructed from   *)
(* the skosified graph has the rows and the control fields of the one      *)
(* reconstructed from the canonical graph, but for those of Displayed.     *)
DisplayKeepsRows ==
  (Complete("canonical") /\ Complete("skosified")) =>
    /\ DOMAIN reports["canonical"] = DOMAIN reports["skosified"]
    /\ \A b \in DOMAIN reports["canonical"] :
         LET before == reports["canonical"][b]
             after == reports["skosified"][b]
         IN ShownRows(before.record.fields, Displayed) = ShownRows(after.record.fields, Displayed)
            /\ before.record.controls = after.record.controls

\* The rows M8 has to carry over: M9 changes the subjects, of the creators of
\* records of one Work only the first comes back, and names in another script
\* stay behind with the other labels of an agent.
Carried(record, alone) ==
  ShownRows(record.fields, LAMBDA r : IsSubject(r) \/ r.tag = "880" \/ (r.tag = "100" /\ ~alone))

(* M8 builds the Works and their contributions anew and copies the rest by *)
(* lists of predicates, for all records at once.  Still every row that the *)
(* record of a merged Work would have had in the corpus comes back from    *)
(* the canonical graph, and no row but a classification of another record  *)
(* of its Work is added.                                                   *)
MergeKeepsRows ==
  Complete("canonical") =>
    \A g \in {corpusGraph} : \A group \in {x \in case.groups : ~x.conflict} :
      \A w \in ToSet(group.members) : \A e \in Objects(g, w, "bffi:hasExpression") :
        \A m \in Subjects(g, "bffi:expressionManifested", e) :
          \E c \in {Context(g, m)} : \E own \in {Record(c)} :
            \A b \in own.bib :
              LET before == Carried(own, Len(group.members) = 1)
                  after == Carried(reports["canonical"][b].record, Len(group.members) = 1)
              IN /\ DOMAIN before \subseteq DOMAIN after
                 /\ \A x \in DOMAIN after :
                      IF x.tag \in {"050", "080", "082", "084"} THEN x \in DOMAIN before => after[x] >= before[x]
                      ELSE x \in DOMAIN before /\ after[x] = before[x]

(* A subject that M9 bound to an authority comes back from the skosified   *)
(* graph under the tag of one of the fields it was bound from, in whatever *)
(* record: the type of the raw subject reaches the authority although its  *)
(* raw twins are pruned from the Work.                                     *)
TagsFromOrigins ==
  Complete("skosified") =>
    \A b \in DOMAIN reports["skosified"] :
      \A r \in ToSet(reports["skosified"][b].record.fields) :
        LET bound == {t \in Links(canonical, "skos:exactMatch") : First(r, "0") = {t[3][2] \o ":" \o Text(t[3])}}
        IN IsSubject(r) /\ bound # {} => r.tag = "655" \/ r.tag \in {Raw[Text(t[1])].tag : t \in bound}

(* Every data field of the original and of the reconstructed record is in  *)
(* one pair of the diff and in no other, though lineage, $a and order each *)
(* pair some of them and records that share a Work name each other's       *)
(* fields; and the summary counts what the reports hold.                   *)
DiffAccounts ==
  \A f \in Files :
    LET compared == {b \in DOMAIN reports[f] : b \in DOMAIN originals}
        data(b) == {d \in reports[f][b].diff : ~d.control}
    IN /\ \A b \in compared :
            /\ \A i \in DOMAIN originals[b].fields : Cardinality({d \in data(b) : d.orig = i}) = 1
            /\ \A i \in DOMAIN reports[f][b].record.fields : Cardinality({d \in data(b) : d.recon = i}) = 1
       /\ \A s \in Statuses :
            summary[f].statuses[s]
              = Cardinality(UNION {{<<b, d>> : d \in {d \in reports[f][b].diff : d.status = s}} : b \in compared})
=============================================================================
