------------------------------ MODULE RdfGraph ------------------------------
(* An rdflib Graph: a set of <<subject, predicate, object>>.  A term is a  *)
(* triple of strings: <<"uri", namespace, local name>>, where a prefix     *)
(* test of the code is a test of the namespace, <<"bnode", "", id>> or     *)
(* <<"lit", language, text>>, whose language is "" when it has none.       *)
(* rdflib answers a query in an order of its own: here a fixed one.        *)
(* "Maybe" a value is a set of at most one.                                *)
EXTENDS Naturals, Sequences, FiniteSets, SequencesExt, FiniteSetsExt

CONSTANTS Spelling,     \* <<what, text>> -> text: what the string operations make of a text
          MarcKeys      \* text of a bflc:marcKey -> [tag, ind1, ind2, subs: seq of <<code, value>>]

Spell(what, x) == IF <<what, x>> \in DOMAIN Spelling THEN Spelling[<<what, x>>] ELSE x
Found(what, x) == IF <<what, x>> \in DOMAIN Spelling THEN {Spelling[<<what, x>>]} ELSE {}

Uri(ns, id) == <<"uri", ns, id>>
Bnode(id) == <<"bnode", "", id>>
LitIn(lang, text) == <<"lit", lang, text>>
Lit(text) == LitIn("", text)

IsUri(t) == t[1] = "uri"
IsBnode(t) == t[1] = "bnode"
IsLit(t) == t[1] = "lit"
In(ns, t) == IsUri(t) /\ t[2] = ns
Lang(t) == t[2]
Text(t) == t[3]

Bffi(c) == Uri("bffi", c)
Bf(c) == Uri("bf", c)

Objects(g, s, p) == {t[3] : t \in {t \in g : t[1] = s /\ t[2] = p}}
Subjects(g, p, o) == {t[1] : t \in {t \in g : t[2] = p /\ t[3] = o}}
Types(g, s) == Objects(g, s, "rdf:type")
HasType(g, s, c) == <<s, "rdf:type", c>> \in g
Links(g, p) == {t \in g : t[2] = p}
Has(g, s, p) == \E t \in g : t[1] = s /\ t[2] = p

\* s -p-> m -q-> v, as <<s, m, v>>
Chains(g, p, q) == {<<c[1][1], c[1][3], c[2][3]>> :
                      c \in {c \in Links(g, p) \X Links(g, q) : c[1][3] = c[2][1]}}

Literals(S) == {t \in S : IsLit(t)}
Uris(S) == {t \in S : IsUri(t)}
Texts(S) == {Text(t) : t \in Literals(S)}
TextsIn(lang, S) == {Text(t) : t \in {t \in Literals(S) : Lang(t) = lang}}

Maybe(S) == IF S = {} THEN {} ELSE {CHOOSE x \in S : TRUE}
The(m) == CHOOSE x \in m : TRUE
OrElse(m, n) == IF m # {} THEN m ELSE n
FirstOf(seq) == FoldLeft(OrElse, {}, seq)

\* f of each member of S, the sequences it gives one after another
Chained(f) == FoldSet(LAMBDA x, seq : seq \o f[x], <<>>, DOMAIN f)
ForEach(S, f(_)) == Chained([x \in S |-> f(x)])
Only(seq) == IF seq = <<>> THEN <<>> ELSE <<Head(seq)>>

\* The text of the first language of langs that has one, a label of
\* `pref' before one of `alt'; failing that any.
Preferred(langs, pref, alt) ==
  LET in == [i \in DOMAIN langs |-> OrElse(Maybe(TextsIn(langs[i], pref)),
                                           Maybe(TextsIn(langs[i], alt)))]
  IN OrElse(FirstOf(in), OrElse(Maybe(Texts(pref)), Maybe(Texts(alt))))
=============================================================================
