---------------------------- MODULE MergeGroups ----------------------------
(***************************************************************************)
(* M8's merge step (m8/apply.py, m8/decisions.py): the decision rows of M6 *)
(* become union-find groups, contradicted groups are flagged for review,   *)
(* and every other group is minted as one canonical Work under a URI made  *)
(* of its anchor's creator and title.  Works are numbers in the order of   *)
(* their URIs.  The union-find is taken by what UnionFind implements: the  *)
(* groups of Partition.                                                    *)
(***************************************************************************)
EXTENDS Partition, Sequences

CONSTANTS
  Models,         \* models a row can name as the one that decided
  Converter,      \* the marc2bibframe2 agent
  Keys,           \* (creator, title) pairs, as mint_work_uri normalises them
  NoKey,          \* an anchor without creator or title
  DecisionFiles,  \* judge-decisions.jsonl files: sequences of rows
  Corpora,        \* sets of Works M3 may have written
  MintKeys        \* what those Works' creators and titles may be

Verdicts == {"same_work", "different_work", "uncertain"}

Decision == [a : Works, b : Works, verdict : Verdicts, model : Models]

ASSUME MergeAssumption ==
  /\ NoKey \notin Keys
  /\ Converter \notin Models
  /\ DecisionFiles \subseteq Seq(Decision)
  /\ Corpora \subseteq SUBSET Works
  /\ MintKeys \subseteq [Works -> Keys \cup {NoKey}]

VARIABLES
  decisions, corpus, mintKey,   \* what the stage reads; never written
  pc,                           \* "load", "union", "emit" or "done"
  next,                         \* the decision row the union loop is at
  conflicts,                    \* GroupConflicts
  todo,                         \* roots the emit loop has not reached
  entries,                      \* CanonicalEntries, each with its description modifier
  failures                      \* MintFailures

inputs == <<decisions, corpus, mintKey>>
output == <<conflicts, entries, failures>>
vars == <<inputs, pc, next, nodes, rep, todo, output>>

Rows == DOMAIN decisions
Same(i) == decisions[i].verdict = "same_work"
Different(i) == decisions[i].verdict = "different_work"

\* same_work_edges
SamePairs == {<<decisions[i].a, decisions[i].b>> : i \in {j \in Rows : Same(j)}}

TypeOK ==
  /\ decisions \in DecisionFiles /\ corpus \in Corpora /\ mintKey \in MintKeys
  /\ pc \in {"load", "union", "emit", "done"}
  /\ next \in 1..(Len(decisions) + 1)
  /\ nodes \subseteq Works
  /\ rep \in [Works -> Works]
  /\ pc \in {"load", "union"} => output = <<{}, {}, {}>> /\ todo = {}
  /\ \A w \in todo : w \in nodes /\ rep[w] = w
  /\ \A c \in conflicts : /\ c.members \subseteq nodes
                          /\ c.pair \in Works \X Works
                          /\ c.path \subseteq SamePairs
  /\ \A e \in entries : /\ e.uri \in Keys
                        /\ e.members \subseteq corpus /\ e.members # {}
                        /\ e.modifier \in Models \cup {Converter}
  /\ \A f \in failures : f.members \subseteq nodes /\ f.anchor \in f.members \cap corpus

Init ==
  /\ decisions \in DecisionFiles /\ corpus \in Corpora /\ mintKey \in MintKeys
  /\ pc = "load"
  /\ next = 1
  /\ nodes = {}
  /\ rep = [w \in Works |-> w]
  /\ conflicts = {} /\ todo = {} /\ entries = {} /\ failures = {}

-----------------------------------------------------------------------------
(* Grouping *)

\* Mutant of LoadCorpus: only the works the decision rows name are grouped.
LoadNothing ==
  /\ pc = "load"
  /\ pc' = "union"
  /\ UNCHANGED <<inputs, next, nodes, rep, todo, output>>

\* Every Work of the corpus is a group of its own to begin with.
LoadCorpus ==
  /\ pc = "load"
  /\ pc' = "union"
  /\ nodes' = corpus
  /\ UNCHANGED <<inputs, next, rep, todo, output>>

\* The next row, when it is a same_work row: union adds works the corpus lacks.
UnionRow ==
  /\ pc = "union" /\ next \in Rows /\ Same(next)
  /\ next' = next + 1
  /\ nodes' = nodes \cup {decisions[next].a, decisions[next].b}
  /\ rep' = Joined(decisions[next].a, decisions[next].b)
  /\ UNCHANGED <<inputs, pc, todo, output>>

\* Rows of the other verdicts are not in same_work_edges.
PassRow ==
  /\ pc = "union" /\ next \in Rows /\ ~Same(next)
  /\ next' = next + 1
  /\ UNCHANGED <<inputs, pc, nodes, rep, todo, output>>

Roots == {w \in nodes : rep[w] = w}

GroupOf(r) == {w \in nodes : rep[w] = r}

\* different_work rows whose works are both in the group.
Contradictions(r) ==
  {i \in Rows : Different(i) /\ decisions[i].a \in GroupOf(r) /\ decisions[i].b \in GroupOf(r)}

\* The GroupConflict of a contradicted group: its first contradiction and the
\* same_work rows that start in the group.
ConflictOf(r) ==
  LET row == decisions[CHOOSE i \in Contradictions(r) : IsLeast(i, Contradictions(r))]
  IN  [members |-> GroupOf(r),
       pair |-> <<row.a, row.b>>,
       path |-> {e \in SamePairs : e[1] \in GroupOf(r)}]

DetectConflicts ==
  /\ pc = "union" /\ next \notin Rows
  /\ pc' = "emit"
  /\ conflicts' = {ConflictOf(r) : r \in {q \in Roots : Contradictions(q) # {}}}
  /\ todo' = Roots
  /\ UNCHANGED <<inputs, next, nodes, rep, entries, failures>>

-----------------------------------------------------------------------------
(* Minting *)

\* Mutant of Flagged: the works of a conflict's pair are looked up as roots.
FlaggedByPair(group) ==
  \E c \in conflicts, r \in group : IsLeast(r, group) /\ r \in {c.pair[1], c.pair[2]}

\* The group's first member is the first member of a conflict.
Flagged(group) ==
  \E c \in conflicts, r \in group : IsLeast(r, group) /\ IsLeast(r, c.members)

\* The emit loop takes the roots in order.
TakeRoot(r) ==
  /\ pc = "emit"
  /\ IsLeast(r, todo)
  /\ todo' = todo \ {r}
  /\ UNCHANGED <<inputs, pc, next, nodes, rep, conflicts>>

\* "Flagged for review; do not silently merge."
SkipConflict(r) ==
  /\ TakeRoot(r)
  /\ Flagged(GroupOf(r))
  /\ UNCHANGED <<entries, failures>>

\* No member of the group is in the corpus.
SkipAbsent(r) ==
  /\ TakeRoot(r)
  /\ ~Flagged(GroupOf(r))
  /\ GroupOf(r) \cap corpus = {}
  /\ UNCHANGED <<entries, failures>>

\* members[0]: the first member of the group that the corpus has.
Anchor(w, r) == IsLeast(w, GroupOf(r) \cap corpus)

\* The anchor has no creator or no title.
RefuseMint(r) ==
  /\ TakeRoot(r)
  /\ ~Flagged(GroupOf(r))
  /\ GroupOf(r) \cap corpus # {}
  /\ \E w \in Works :
       /\ Anchor(w, r)
       /\ mintKey[w] = NoKey
       /\ failures' = failures \cup {[members |-> GroupOf(r), anchor |-> w]}
  /\ UNCHANGED entries

\* Rows that decide the pair, in either direction; decisions_by_pair keeps the
\* last of them.
RowsOf(a, b) ==
  {i \in Rows : {decisions[i].a, decisions[i].b} = {a, b}}

\* Pairs of members whose last row is a same_work row.
DecidedSame(members) ==
  {p \in members \X members :
     /\ p[1] < p[2]
     /\ \E i \in RowsOf(p[1], p[2]) : Same(i) /\ \A j \in RowsOf(p[1], p[2]) : j <= i}

\* _select_description_modifier: the model of the first such pair's last row.
Modifier(members, m) ==
  \/ DecidedSame(members) = {} /\ m = Converter
  \/ \E p \in DecidedSame(members) :
       /\ \A q \in DecidedSame(members) : p[1] < q[1] \/ (p[1] = q[1] /\ p[2] <= q[2])
       /\ \E i \in RowsOf(p[1], p[2]) :
            /\ \A j \in RowsOf(p[1], p[2]) : j <= i
            /\ m = decisions[i].model

Mint(r) ==
  /\ TakeRoot(r)
  /\ ~Flagged(GroupOf(r))
  /\ GroupOf(r) \cap corpus # {}
  /\ \E w \in Works, m \in Models \cup {Converter} :
       /\ Anchor(w, r)
       /\ mintKey[w] # NoKey
       /\ Modifier(GroupOf(r) \cap corpus, m)
       /\ entries' = entries \cup {[uri |-> mintKey[w],
                                    members |-> GroupOf(r) \cap corpus,
                                    modifier |-> m]}
  /\ UNCHANGED failures

\* The files are written and the stage ends.
Finish ==
  /\ pc = "emit" /\ todo = {}
  /\ pc' = "done"
  /\ UNCHANGED <<inputs, next, nodes, rep, todo, output>>

Next ==
  \/ LoadCorpus \/ UnionRow \/ PassRow \/ DetectConflicts
  \/ \E r \in Works : SkipConflict(r) \/ SkipAbsent(r) \/ RefuseMint(r) \/ Mint(r)
  \/ Finish

Spec == Init /\ [][Next]_vars

-----------------------------------------------------------------------------
(* What a merge must do *)

\* The class of a work under all same_work rows.
Class(w) == {v \in Works : Together(Works, SamePairs, w, v)}

\* Both works of a different_work row are among the works.
Contradicted(works) ==
  \E i \in Rows : Different(i) /\ decisions[i].a \in works /\ decisions[i].b \in works

\* "Flagged for review; do not silently merge": no canonical Work and no mint
\* failure holds both works of a different_work row, wherever that row stands in
\* the file and however long the same_work chain between the two.
NoContradictionMerged ==
  /\ \A e \in entries : ~Contradicted(e.members)
  /\ \A f \in failures : ~Contradicted(f.members)

\* A canonical Work is a whole class of the same_work rows as far as the corpus
\* has it, minted from its least member there, whatever the order of the rows
\* and the works outside the corpus that join its members.
EntriesAreClasses ==
  \A e \in entries :
    \E w \in e.members :
      /\ e.members = Class(w) \cap corpus
      /\ IsLeast(w, e.members)
      /\ e.uri = mintKey[w]

\* A cataloguer can see why a group is a conflict: the same_work rows of its
\* path alone connect the two works of its different_work row.
ConflictExplained ==
  \A c \in conflicts :
    /\ \E i \in Rows : Different(i) /\ c.pair = <<decisions[i].a, decisions[i].b>>
    /\ Together(Works, c.path, c.pair[1], c.pair[2])

\* Nothing is lost and nothing is published twice: when the stage ends, every
\* Work of the corpus is in exactly one canonical Work, mint failure or conflict.
Homes(w) ==
  {<<"entry", e.members>> : e \in {x \in entries : w \in x.members}}
  \cup {<<"failure", f.members>> : f \in {x \in failures : w \in x.members}}
  \cup {<<"conflict", c.members>> : c \in {x \in conflicts : w \in x.members}}

EveryWorkAccounted ==
  pc = "done" => \A w \in corpus : \E h \in Homes(w) : Homes(w) = {h}
=============================================================================
