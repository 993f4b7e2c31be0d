------------------------- MODULE CorpusProofs ------------------------------
(***************************************************************************)
(* Proofs about what becomes of the corpus: the groups M8 merges, for      *)
(* every corpus, every decision file and every mint key; the union-find    *)
(* that forms them, for every set of works and of unions; and the diff of  *)
(* the round trip, for every graph and every original record.              *)
(***************************************************************************)
EXTENDS MergeGroups, UnionFind, RoundTrip, WellFoundedInduction, FiniteSetTheorems, TLAPS

\* The name of a class is its least member, and classes are told apart by name.
LEMMA NamesAreLeast ==
  ASSUME NEW works \in SUBSET Nat, NEW pairs \in SUBSET (works \X works),
         NEW label \in [works -> works], Names(works, pairs, label)
  PROVE  /\ \A w \in works : LeastOfClass(works, pairs, w, label[w])
         /\ \A v, w \in works : Together(works, pairs, v, w) <=> label[v] = label[w]
  <1>1. ASSUME NEW v \in works, NEW w \in works, Together(works, pairs, v, w)
        PROVE  label[v] = label[w]
    <2> DEFINE S == {u \in works : label[u] = label[v]}
    <2>1. \A e \in pairs : e[1] \in works /\ e[2] \in works
      OBVIOUS
    <2>2. S \in SUBSET works /\ Closed(S, pairs) /\ v \in S
      BY <2>1 DEF Closed, Names, Respects
    <2> HIDE DEF S
    <2>3. w \in S
      BY <1>1, <2>2 DEF Together
    <2> QED BY <2>3 DEF S
  <1>2. ASSUME NEW v \in works, NEW w \in works, label[v] = label[w]
        PROVE  Together(works, pairs, v, w)
    BY <1>2 DEF Together, Names
  <1>3. ASSUME NEW v \in works PROVE LeastOfClass(works, pairs, v, label[v])
    <2>1. Together(works, pairs, v, label[v])
      BY DEF Names
    <2>2. ASSUME NEW w \in works, Together(works, pairs, v, w) PROVE label[v] <= w
      BY <1>1, <2>2 DEF Names
    <2> QED BY <2>1, <2>2 DEF LeastOfClass
  <1> QED BY <1>1, <1>2, <1>3

\* Joining the classes of a and b under the lesser name names the classes of one
\* pair more.
LEMMA JoinedNames ==
  ASSUME NEW works \in SUBSET Nat, NEW pairs \in SUBSET (works \X works),
         NEW label \in [works -> works], Names(works, pairs, label),
         NEW e \in works \X works, NEW lo \in works, NEW hi \in works, lo <= hi,
         \/ label[e[1]] = lo /\ label[e[2]] = hi
         \/ label[e[1]] = hi /\ label[e[2]] = lo,
         NEW joined \in [works -> works],
         \A w \in works : joined[w] = IF label[w] = hi THEN lo ELSE label[w]
  PROVE  Names(works, pairs \cup {e}, joined)
  <1>1. Respects(joined, pairs \cup {e})
    BY DEF Respects, Names
  <1>2. ASSUME NEW w \in works PROVE joined[w] <= w
    BY DEF Names
  <1>3. ASSUME NEW w \in works PROVE Together(works, pairs \cup {e}, w, joined[w])
    <2> SUFFICES ASSUME NEW S \in SUBSET works, Closed(S, pairs \cup {e})
                 PROVE  w \in S <=> joined[w] \in S
      BY DEF Together
    <2>1. Closed(S, pairs) /\ (e[1] \in S <=> e[2] \in S)
      BY DEF Closed
    <2>2. \A v \in works : v \in S <=> label[v] \in S
      BY <2>1 DEF Names, Together
    <2>3. lo \in S <=> hi \in S
      BY <2>1, <2>2
    <2> QED BY <2>2, <2>3
  <1> QED BY <1>1, <1>2, <1>3 DEF Names

-----------------------------------------------------------------------------

\* The well-ordering of Nat: a set of numbers has a least member.
LEMMA LeastExists ==
  ASSUME NEW S, S \subseteq Nat, S # {}
  PROVE  \E r \in S : IsLeast(r, S)
  <1>1. PICK r \in S : \A w \in S : <<w, r>> \notin OpToRel(<, Nat)
    BY NatLessThanWellFounded, WFMin, Zenon
  <1>2. ASSUME NEW w \in S PROVE r <= w
    <2>1. ~(w < r)
      BY <1>1, <1>2 DEF OpToRel
    <2> QED BY <1>2, <2>1
  <1> QED BY <1>2 DEF IsLeast

-----------------------------------------------------------------------------
(* Types *)

LEMMA RowTypes ==
  ASSUME TypeOK
  PROVE  /\ Rows = 1..Len(decisions) /\ Len(decisions) \in Nat /\ Works \subseteq Nat
         /\ \A i \in Rows : decisions[i].a \in Works /\ decisions[i].b \in Works
         /\ SamePairs \subseteq Works \X Works
         /\ corpus \subseteq Works /\ mintKey \in [Works -> Keys \cup {NoKey}]
  <1>1. decisions \in Seq(Decision)
    BY MergeAssumption DEF TypeOK
  <1>2. \A i \in Rows : decisions[i] \in Decision
    BY <1>1 DEF Rows
  <1> QED BY <1>1, <1>2, MergeAssumption, WorksAssumption DEF TypeOK, Rows, Decision, SamePairs

LEMMA JoinedType ==
  ASSUME NEW a \in Works, NEW b \in Works, rep \in [Works -> Works]
  PROVE  Joined(a, b) \in [Works -> Works]
  BY DEF Joined

LEMMA ConflictType ==
  ASSUME TypeOK, NEW r, Contradictions(r) # {}
  PROVE  /\ ConflictOf(r).members = GroupOf(r)
         /\ ConflictOf(r).path = {e \in SamePairs : e[1] \in GroupOf(r)}
         /\ \E i \in Contradictions(r) : ConflictOf(r).pair = <<decisions[i].a, decisions[i].b>>
  <1>1. Contradictions(r) \subseteq Nat
    BY RowTypes DEF Contradictions
  <1>2. \E i \in Contradictions(r) : IsLeast(i, Contradictions(r))
    BY <1>1, LeastExists
  <1>3. PICK i \in Contradictions(r) :
          i = CHOOSE j \in Contradictions(r) : IsLeast(j, Contradictions(r))
    BY <1>2
  <1> QED BY <1>3 DEF ConflictOf

\* TYPE CORRECTNESS of the merge: groups, conflicts, canonical entries and mint
\* failures are made of known works, roots name themselves.
THEOREM TypeCorrect == Spec => []TypeOK
  <1>1. Init => TypeOK
    <2> SUFFICES ASSUME Init PROVE TypeOK
      OBVIOUS
    <2>1. decisions \in Seq(Decision)
      BY MergeAssumption DEF Init
    <2>2. Len(decisions) \in Nat
      BY <2>1
    <2> QED BY <2>2 DEF Init, TypeOK, output
  <1>2. TypeOK /\ [Next]_vars => TypeOK'
    <2> SUFFICES ASSUME TypeOK, [Next]_vars PROVE TypeOK'
      OBVIOUS
    <2>0. /\ Rows = 1..Len(decisions) /\ Len(decisions) \in Nat
          /\ \A i \in Rows : decisions[i].a \in Works /\ decisions[i].b \in Works
          /\ corpus \subseteq Works /\ mintKey \in [Works -> Keys \cup {NoKey}]
      BY RowTypes
    <2>1. CASE UNCHANGED vars
      BY <2>1 DEF vars, inputs, output, TypeOK, SamePairs, Rows, Same
    <2>2. CASE LoadCorpus
      BY <2>2, <2>0 DEF LoadCorpus, inputs, output, TypeOK, SamePairs, Rows, Same
    <2>3. CASE UnionRow
      BY <2>3, <2>0, JoinedType DEF UnionRow, inputs, output, TypeOK, SamePairs, Rows, Same
    <2>4. CASE PassRow
      BY <2>4, <2>0 DEF PassRow, inputs, output, TypeOK, SamePairs, Rows, Same
    <2>5. CASE DetectConflicts
      <3>1. /\ todo' = Roots /\ nodes' = nodes /\ rep' = rep /\ next' = next
            /\ conflicts' = {ConflictOf(r) : r \in {q \in Roots : Contradictions(q) # {}}}
            /\ entries' = {} /\ failures' = {} /\ pc' = "emit"
            /\ decisions' = decisions /\ corpus' = corpus /\ mintKey' = mintKey
        BY <2>5 DEF DetectConflicts, inputs, output, TypeOK
      <3>2. \A w \in todo' : w \in nodes' /\ rep'[w] = w
        BY <3>1 DEF Roots
      <3>3. ASSUME NEW c \in conflicts'
            PROVE  /\ c.members \subseteq nodes /\ c.pair \in Works \X Works
                   /\ c.path \subseteq SamePairs
        <4>1. PICK r \in Roots : Contradictions(r) # {} /\ c = ConflictOf(r)
          BY <3>1, <3>3
        <4>2. \A i \in Contradictions(r) : decisions[i].a \in Works /\ decisions[i].b \in Works
          BY <2>0 DEF Contradictions
        <4>3. /\ c.members = GroupOf(r)
              /\ c.path = {e \in SamePairs : e[1] \in GroupOf(r)}
              /\ \E i \in Contradictions(r) : c.pair = <<decisions[i].a, decisions[i].b>>
          BY <4>1, ConflictType
        <4> QED BY <4>2, <4>3 DEF GroupOf
      <3> QED BY <3>1, <3>2, <3>3 DEF TypeOK, SamePairs, Rows, Same
    <2>6. ASSUME NEW r \in Works, SkipConflict(r) \/ SkipAbsent(r) PROVE TypeOK'
      BY <2>6 DEF SkipConflict, SkipAbsent, TakeRoot, inputs, TypeOK, SamePairs, Rows, Same
    <2>7. ASSUME NEW r \in Works, RefuseMint(r) PROVE TypeOK'
      BY <2>7 DEF RefuseMint, TakeRoot, Anchor, IsLeast, GroupOf,
                  inputs, TypeOK, SamePairs, Rows, Same
    <2>8. ASSUME NEW r \in Works, Mint(r) PROVE TypeOK'
      BY <2>8, <2>0 DEF Mint, TakeRoot, inputs, TypeOK, SamePairs, Rows, Same
    <2>9. CASE Finish
      BY <2>9 DEF Finish, inputs, output, TypeOK, SamePairs, Rows, Same
    <2> QED
      BY <2>1, <2>2, <2>3, <2>4, <2>5, <2>6, <2>7, <2>8, <2>9 DEF Next
  <1> QED BY <1>1, <1>2, PTL DEF Spec

-----------------------------------------------------------------------------
(* Groups *)

\* same_work rows the union loop has passed.
SoFar == {<<decisions[i].a, decisions[i].b>> : i \in {j \in Rows : j < next /\ Same(j)}}

\* The roots name the classes of the rows so far; every node's root is a
\* node, and other works are on their own.
Grouped ==
  /\ Names(Works, SoFar, rep)
  /\ \A w \in nodes : rep[w] \in nodes
  /\ \A w \in Works \ nodes : rep[w] = w
  /\ pc = "load" => nodes = {}
  /\ pc # "load" => corpus \subseteq nodes

LEMMA GroupedInit == Init => Grouped
  <1> SUFFICES ASSUME Init PROVE Grouped
    OBVIOUS
  <1>1. SoFar = {} /\ \A w \in Works : w <= w
    <2>1. decisions \in Seq(Decision)
      BY MergeAssumption DEF Init
    <2> QED BY <2>1, MergeAssumption DEF Init, SoFar, Rows
  <1>2. Names(Works, SoFar, rep)
    BY <1>1 DEF Init, Names, Respects, Together
  <1> QED BY <1>2 DEF Init, Grouped

LEMMA GroupedStep ==
  ASSUME TypeOK, TypeOK', Grouped, [Next]_vars
  PROVE  Grouped'
  <1>0. /\ Rows = 1..Len(decisions) /\ Len(decisions) \in Nat /\ Works \subseteq Nat
        /\ \A i \in Rows : decisions[i].a \in Works /\ decisions[i].b \in Works
        /\ rep \in [Works -> Works] /\ next \in Nat
    BY RowTypes DEF TypeOK
  \* Only the union loop changes the rows so far or the roots.
  <1>1. ASSUME decisions' = decisions, next' = next, rep' = rep
        PROVE  Names(Works, SoFar, rep)'
    BY <1>1 DEF Grouped, Names, SoFar, Rows, Same
  <1>2. CASE UNCHANGED <<decisions, corpus, next, rep, nodes>> /\ (pc' = "load" => pc = "load")
                                                             /\ (pc' # "load" => pc # "load")
    BY <1>1, <1>2 DEF Grouped
  <1>3. CASE LoadCorpus
    BY <1>1, <1>3, RowTypes DEF LoadCorpus, inputs, Grouped
  <1>4. CASE PassRow
    <2>1. SoFar' = SoFar
      BY <1>0, <1>4 DEF PassRow, inputs, SoFar, Rows, Same
    <2> QED BY <1>4, <2>1 DEF PassRow, inputs, Grouped, Names
  <1>5. CASE UnionRow
    <2>1. PICK a \in Works, b \in Works : a = decisions[next].a /\ b = decisions[next].b
      BY <1>0, <1>5 DEF UnionRow
    <2>2. SoFar' = SoFar \cup {<<a, b>>}
      BY <1>0, <1>5, <2>1 DEF UnionRow, inputs, SoFar, Rows, Same
    <2>3. rep' = Joined(a, b) /\ nodes' = nodes \cup {a, b} /\ corpus' = corpus
          /\ pc = "union" /\ pc' = "union"
      BY <1>5, <2>1 DEF UnionRow, inputs
    <2>4. PICK lo \in Works, hi \in Works :
            /\ lo <= hi
            /\ \/ rep[a] = lo /\ rep[b] = hi
               \/ rep[a] = hi /\ rep[b] = lo
            /\ rep' = [w \in Works |-> IF rep[w] = hi THEN lo ELSE rep[w]]
      <3>0. rep[a] \in Works /\ rep[b] \in Works /\ rep[a] \in Nat /\ rep[b] \in Nat
        BY <1>0
      <3>1. CASE rep[a] <= rep[b]
        <4>1. rep' = [w \in Works |-> IF rep[w] = rep[b] THEN rep[a] ELSE rep[w]]
          BY <2>3, <3>1 DEF Joined
        <4> QED BY <3>0, <3>1, <4>1
      <3>2. CASE ~(rep[a] <= rep[b])
        <4>1. rep' = [w \in Works |-> IF rep[w] = rep[a] THEN rep[b] ELSE rep[w]]
          BY <2>3, <3>2 DEF Joined
        <4>2. rep[b] <= rep[a]
          BY <3>0, <3>2
        <4> QED BY <3>0, <4>1, <4>2
      <3> QED BY <3>1, <3>2
    <2>5. SoFar \in SUBSET (Works \X Works)
      BY <1>0 DEF SoFar
    <2>6. PICK joined \in [Works -> Works] :
            /\ joined = rep'
            /\ \A w \in Works : joined[w] = IF rep[w] = hi THEN lo ELSE rep[w]
      <3>1. rep' \in [Works -> Works]
        BY DEF TypeOK
      <3>2. \A w \in Works : rep'[w] = IF rep[w] = hi THEN lo ELSE rep[w]
        BY <2>4
      <3> QED BY <3>1, <3>2
    <2>7. PICK e \in Works \X Works : e = <<a, b>>
      OBVIOUS
    <2>8. Names(Works, SoFar \cup {e}, joined)
      <3>1. Names(Works, SoFar, rep)
        BY DEF Grouped
      <3>2. \/ rep[e[1]] = lo /\ rep[e[2]] = hi
            \/ rep[e[1]] = hi /\ rep[e[2]] = lo
        BY <2>4, <2>7
      <3>3. Works \in SUBSET Nat /\ lo <= hi /\ rep \in [Works -> Works]
        BY <1>0, <2>4
      <3>4. \A w \in Works : joined[w] = IF rep[w] = hi THEN lo ELSE rep[w]
        BY <2>6
      <3> HIDE DEF SoFar
      <3> QED BY ONLY <2>5, <3>1, <3>2, <3>3, <3>4, JoinedNames
    <2>9. Names(Works, SoFar, rep)'
      BY <2>2, <2>6, <2>7, <2>8 DEF Names
    <2>10. \A w \in Works : rep'[w] = IF rep[w] = hi THEN lo ELSE rep[w]
      BY <2>6
    <2>11. nodes \subseteq Works /\ rep[a] \in nodes' /\ rep[b] \in nodes'
      BY <2>3 DEF Grouped, TypeOK
    <2>12. lo \in nodes' /\ hi \in nodes'
      BY <2>4, <2>11
    <2>13. \A w \in nodes' : rep'[w] \in nodes'
      BY <2>3, <2>10, <2>11, <2>12 DEF Grouped
    <2>14. \A w \in Works \ nodes' : rep'[w] = w
      BY <2>3, <2>10, <2>12 DEF Grouped
    <2>15. (pc = "load" => nodes = {})' /\ (pc # "load" => corpus \subseteq nodes)'
      BY <2>3 DEF Grouped
    <2> QED BY <2>9, <2>13, <2>14, <2>15 DEF Grouped
  <1>6. CASE DetectConflicts \/ Finish \/ UNCHANGED vars
    BY <1>2, <1>6 DEF DetectConflicts, Finish, vars, inputs
  <1>7. ASSUME NEW r \in Works, SkipConflict(r) \/ SkipAbsent(r) \/ RefuseMint(r) \/ Mint(r)
        PROVE  Grouped'
    BY <1>2, <1>7 DEF SkipConflict, SkipAbsent, RefuseMint, Mint, TakeRoot, inputs
  <1> QED BY <1>3, <1>4, <1>5, <1>6, <1>7 DEF Next

-----------------------------------------------------------------------------
(* What the emit loop writes *)

\* The emit loop begins after the last row, with every contradicted group flagged.
Detected ==
  pc \in {"emit", "done"} =>
    /\ next \notin Rows
    /\ conflicts = {ConflictOf(r) : r \in {q \in Roots : Contradictions(q) # {}}}

\* Entries and failures are of groups without a contradiction.
Minted ==
  /\ \A e \in entries :
       \E r \in Roots : /\ Contradictions(r) = {}
                       /\ e.members = GroupOf(r) \cap corpus
                       /\ \E w \in Works : Anchor(w, r) /\ e.uri = mintKey[w]
  /\ \A f \in failures :
       \E r \in Roots : /\ Contradictions(r) = {}
                       /\ f.members = GroupOf(r)
                       /\ GroupOf(r) \cap corpus # {}

\* A group that is not flagged has no contradiction.
LEMMA UnflaggedIsClean ==
  ASSUME TypeOK, Grouped, Detected, pc = "emit", NEW r \in Roots, ~Flagged(GroupOf(r))
  PROVE  Contradictions(r) = {}
  <1> SUFFICES ASSUME Contradictions(r) # {} PROVE FALSE
    OBVIOUS
  <1>1. ConflictOf(r) \in conflicts /\ ConflictOf(r).members = GroupOf(r)
    BY ConflictType DEF Detected
  <1>2. IsLeast(r, GroupOf(r))
    <2>1. r \in GroupOf(r) /\ GroupOf(r) \subseteq Works
      BY DEF Roots, GroupOf, TypeOK
    <2>2. \A w \in GroupOf(r) : r <= w
      BY <2>1 DEF GroupOf, Grouped, Names
    <2> QED BY <2>1, <2>2 DEF IsLeast
  <1> QED BY <1>1, <1>2 DEF Flagged, IsLeast

\* A step that keeps the groups keeps what is said of them.
LEMMA SameGroups ==
  ASSUME UNCHANGED <<decisions, corpus, mintKey, nodes, rep>>
  PROVE  /\ Roots' = Roots /\ Rows' = Rows
         /\ \A r : GroupOf(r)' = GroupOf(r) /\ Contradictions(r)' = Contradictions(r)
         /\ \A r : ConflictOf(r)' = ConflictOf(r)
         /\ \A w, r : Anchor(w, r)' = Anchor(w, r)
  <1>1. Roots' = Roots /\ Rows' = Rows /\ SamePairs' = SamePairs
    BY DEF Roots, Rows, SamePairs, Same
  <1>2. \A r : GroupOf(r)' = GroupOf(r)
    BY DEF GroupOf
  <1>3. \A r : Contradictions(r)' = Contradictions(r)
    BY <1>1, <1>2 DEF Contradictions, Different
  <1>4. \A r : ConflictOf(r)' = ConflictOf(r)
    BY <1>1, <1>2, <1>3 DEF ConflictOf
  <1>5. \A w, r : Anchor(w, r)' = Anchor(w, r)
    BY <1>2 DEF Anchor, IsLeast
  <1> QED BY <1>1, <1>2, <1>3, <1>4, <1>5

LEMMA MintedStep ==
  ASSUME TypeOK, Grouped, Detected, Minted, [Next]_vars
  PROVE  Detected' /\ Minted'
  \* The loop's groups and conflicts stay as they were detected.
  <1>1. ASSUME UNCHANGED <<inputs, next, nodes, rep, conflicts>>, pc \in {"emit", "done"}
        PROVE  Detected'
    BY <1>1, SameGroups DEF inputs, Detected
  <1>2. ASSUME UNCHANGED <<inputs, nodes, rep, entries, failures>>
        PROVE  Minted'
    BY <1>2, SameGroups DEF inputs, Minted
  <1>3. CASE UNCHANGED vars
    BY <1>2, <1>3, SameGroups DEF vars, inputs, output, Detected
  <1>4. CASE LoadCorpus \/ UnionRow \/ PassRow
    BY <1>4 DEF LoadCorpus, UnionRow, PassRow, output, TypeOK, Detected, Minted
  <1>5. CASE DetectConflicts
    <2>1. Detected'
      BY <1>5, SameGroups DEF DetectConflicts, inputs, Detected
    <2> QED BY <1>2, <1>5, <2>1 DEF DetectConflicts
  <1>6. CASE Finish
    BY <1>1, <1>2, <1>6 DEF Finish, output
  <1>7. ASSUME NEW r \in Works, SkipConflict(r) \/ SkipAbsent(r)
        PROVE  Detected' /\ Minted'
    BY <1>1, <1>2, <1>7 DEF SkipConflict, SkipAbsent, TakeRoot
  <1>8. ASSUME NEW r \in Works, RefuseMint(r) \/ Mint(r)
        PROVE  Detected' /\ Minted'
    <2>1. /\ UNCHANGED <<inputs, next, nodes, rep, conflicts>> /\ pc = "emit"
          /\ r \in todo /\ ~Flagged(GroupOf(r)) /\ GroupOf(r) \cap corpus # {}
      BY <1>8 DEF RefuseMint, Mint, TakeRoot, IsLeast
    <2>2. r \in Roots /\ Contradictions(r) = {}
      BY <2>1, UnflaggedIsClean DEF TypeOK, Roots
    <2>3. CASE RefuseMint(r)
      <3>1. entries' = entries
        BY <2>3 DEF RefuseMint
      <3>2. ASSUME NEW f \in failures'
            PROVE  f \in failures \/ f.members = GroupOf(r)
        BY <2>3, <3>2 DEF RefuseMint
      <3>3. Minted'
        BY <2>1, <2>2, <3>1, <3>2, SameGroups DEF inputs, Minted
      <3> QED BY <1>1, <2>1, <3>3
    <2>4. CASE Mint(r)
      <3>1. failures' = failures
        BY <2>4 DEF Mint
      <3>2. ASSUME NEW e \in entries'
            PROVE  \/ e \in entries
                   \/ /\ e.members = GroupOf(r) \cap corpus
                      /\ \E w \in Works : Anchor(w, r) /\ e.uri = mintKey[w]
        BY <2>4, <3>2 DEF Mint
      <3>3. Minted'
        BY <2>1, <2>2, <3>1, <3>2, SameGroups DEF inputs, Minted
      <3> QED BY <1>1, <2>1, <3>3
    <2> QED BY <1>8, <2>3, <2>4
  <1> QED BY <1>3, <1>4, <1>5, <1>6, <1>7, <1>8 DEF Next

\* The inductive invariant of both theorems below.
Inv == TypeOK /\ Grouped /\ Detected /\ Minted

LEMMA InvHolds == Spec => []Inv
  <1>1. Init => Grouped /\ Detected /\ Minted
    <2>1. Init => Detected /\ Minted
      BY DEF Init, Detected, Minted
    <2> QED BY <2>1, GroupedInit
  <1>2. TypeOK /\ TypeOK' /\ (Grouped /\ Detected /\ Minted) /\ [Next]_vars
          => (Grouped /\ Detected /\ Minted)'
    BY GroupedStep, MintedStep
  <1> QED BY <1>1, <1>2, TypeCorrect, PTL DEF Spec, Inv

\* NO CONTRADICTION IS MERGED: whatever the decision file says and in whatever
\* order, no canonical Work and no mint failure holds both works of a
\* different_work row.
THEOREM ContradictionsStayOut == Spec => []NoContradictionMerged
  <1>1. Inv => NoContradictionMerged
    <2> SUFFICES ASSUME Inv PROVE NoContradictionMerged
      OBVIOUS
    <2>1. ASSUME NEW r, Contradictions(r) = {} PROVE ~Contradicted(GroupOf(r))
      BY <2>1 DEF Contradictions, Contradicted
    <2> QED BY <2>1 DEF Inv, Minted, NoContradictionMerged, Contradicted
  <1> QED BY <1>1, InvHolds, PTL

\* CANONICAL WORKS ARE CLASSES: the members of an entry are all the corpus has of
\* one class of the same_work rows, and its URI is made of the least of them.
THEOREM EntriesAreWholeClasses == Spec => []EntriesAreClasses
  <1>1. Inv => EntriesAreClasses
    <2> SUFFICES ASSUME Inv, NEW e \in entries
                 PROVE  \E w \in e.members : /\ e.members = Class(w) \cap corpus
                                             /\ IsLeast(w, e.members)
                                             /\ e.uri = mintKey[w]
      BY DEF EntriesAreClasses
    <2>1. PICK r \in Roots, w \in Works : /\ e.members = GroupOf(r) \cap corpus
                                          /\ Anchor(w, r) /\ e.uri = mintKey[w]
      BY DEF Inv, Minted
    <2>2. IsLeast(w, e.members) /\ w \in e.members /\ rep[w] = r
      BY <2>1 DEF Anchor, IsLeast, GroupOf
    <2>3. pc \in {"emit", "done"} /\ corpus \subseteq nodes /\ corpus \subseteq Works
      BY RowTypes DEF Inv, TypeOK, output, Grouped
    <2>4. SoFar = SamePairs
      <3>1. \A i \in Rows : i < next
        BY <2>3, RowTypes DEF Inv, TypeOK, Detected
      <3> QED BY <3>1 DEF SoFar, SamePairs
    <2>5. \A v \in Works : Together(Works, SamePairs, w, v) <=> rep[w] = rep[v]
      <3>1. Names(Works, SamePairs, rep) /\ rep \in [Works -> Works]
        BY <2>4 DEF Inv, Grouped, TypeOK
      <3>2. Works \in SUBSET Nat /\ SamePairs \in SUBSET (Works \X Works)
        BY RowTypes DEF Inv
      <3> QED BY <3>1, <3>2, NamesAreLeast
    <2>6. e.members = Class(w) \cap corpus
      BY <2>1, <2>2, <2>3, <2>5 DEF Class, GroupOf
    <2> QED BY <2>1, <2>2, <2>6
  <1> QED BY <1>1, InvHolds, PTL

\* CONFLICTS ARE EXPLAINED: the pair of a conflict is a different_work row, and the
\* same_work rows of its path connect the pair without any other row.
THEOREM ConflictsExplained == Spec => []ConflictExplained
  <1>1. Inv => ConflictExplained
    <2> SUFFICES ASSUME Inv, NEW c \in conflicts
                 PROVE  /\ \E i \in Rows : Different(i) /\ c.pair = <<decisions[i].a, decisions[i].b>>
                        /\ Together(Works, c.path, c.pair[1], c.pair[2])
      BY DEF ConflictExplained
    <2>1. pc \in {"emit", "done"}
      BY DEF Inv, TypeOK, output
    <2>2. PICK r \in Roots : Contradictions(r) # {} /\ c = ConflictOf(r)
      BY <2>1 DEF Inv, Detected
    <2>3. c.path = {e \in SamePairs : e[1] \in GroupOf(r)}
      BY <2>2, ConflictType DEF Inv
    <2>4. PICK i \in Contradictions(r) : c.pair = <<decisions[i].a, decisions[i].b>>
      BY <2>2, ConflictType DEF Inv
    <2>5. PICK a \in Works, b \in Works : /\ a = decisions[i].a /\ b = decisions[i].b
                                        /\ rep[a] = r /\ rep[b] = r
      BY <2>4, RowTypes DEF Inv, Contradictions, GroupOf
    <2>6. SoFar = SamePairs
      <3>1. \A j \in Rows : j < next
        BY <2>1, RowTypes DEF Inv, TypeOK, Detected
      <3> QED BY <3>1 DEF SoFar, SamePairs
    <2>7. \A v \in Works : v \in GroupOf(r) <=> rep[v] = r
      BY <2>2 DEF Inv, Grouped, GroupOf, Roots
    <2>8. Names(Works, SamePairs, rep) /\ SamePairs \subseteq Works \X Works
      BY <2>6, RowTypes DEF Inv, Grouped
    <2>9. Together(Works, SamePairs, a, b)
      <3>1. Works \in SUBSET Nat /\ SamePairs \in SUBSET (Works \X Works)
        BY <2>8, RowTypes DEF Inv
      <3>2. rep \in [Works -> Works] /\ rep[a] = rep[b]
        BY <2>5 DEF Inv, TypeOK
      <3> QED BY <2>8, <3>1, <3>2, NamesAreLeast
    <2>10. ASSUME NEW S \in SUBSET Works, Closed(S, c.path)
           PROVE  a \in S <=> b \in S
      <3>1. PICK T \in SUBSET Works : T = {v \in S : rep[v] = r}
        OBVIOUS
      <3>2. ASSUME NEW e \in SamePairs PROVE e[1] \in T <=> e[2] \in T
        <4>1. e[1] \in Works /\ e[2] \in Works /\ rep[e[1]] = rep[e[2]]
          BY <2>8 DEF Names, Respects
        <4>2. rep[e[1]] = r => (e[1] \in S <=> e[2] \in S)
          BY <2>3, <2>7, <2>10, <4>1 DEF Closed
        <4> QED BY <3>1, <4>1, <4>2
      <3>3. a \in T <=> b \in T
        BY <2>9, <3>2 DEF Closed, Together
      <3> QED BY <2>5, <3>1, <3>3
    <2>11. Together(Works, c.path, a, b)
      BY <2>10 DEF Together
    <2> QED BY <2>4, <2>5, <2>11 DEF Contradictions
  <1> QED BY <1>1, InvHolds, PTL

-----------------------------------------------------------------------------
(* Nothing is lost *)

\* What became of a root.
Outcome(r) ==
  \/ r \in todo
  \/ Contradictions(r) # {}
  \/ GroupOf(r) \cap corpus = {}
  \/ \E e \in entries : e.members = GroupOf(r) \cap corpus
  \/ \E f \in failures : f.members = GroupOf(r)

\* Roots the loop has passed have their outcome, and only those have one.
Accounted ==
  /\ pc = "done" => todo = {}
  /\ pc \in {"emit", "done"} => \A r \in Roots : Outcome(r)
  /\ \A e \in entries : \A w \in e.members : rep[w] \notin todo
  /\ \A f \in failures : \A w \in f.members : rep[w] \notin todo
  /\ \A e \in entries, f \in failures : e.members \cap f.members = {}

LEMMA FlaggedIsContradicted ==
  ASSUME TypeOK, Detected, pc = "emit", NEW r \in Roots, Flagged(GroupOf(r))
  PROVE  Contradictions(r) # {}
  <1>1. PICK c \in conflicts, q \in GroupOf(r) : q \in c.members
    BY DEF Flagged, IsLeast
  <1>2. PICK p \in Roots : Contradictions(p) # {} /\ c = ConflictOf(p)
    BY <1>1 DEF Detected
  <1>3. c.members = GroupOf(p)
    BY <1>2, ConflictType
  <1> QED BY <1>1, <1>2, <1>3 DEF GroupOf

LEMMA AccountedStep ==
  ASSUME TypeOK, Detected, Accounted, [Next]_vars
  PROVE  Accounted'
  <1>1. CASE UNCHANGED vars
    BY <1>1, SameGroups DEF vars, inputs, output, Accounted, Outcome
  <1>2. CASE LoadCorpus \/ UnionRow \/ PassRow
    BY <1>2 DEF LoadCorpus, UnionRow, PassRow, output, TypeOK, Accounted
  <1>3. CASE DetectConflicts
    <2>1. Roots' = Roots /\ todo' = Roots /\ entries' = {} /\ failures' = {} /\ pc' = "emit"
      BY <1>3, SameGroups DEF DetectConflicts, inputs, output, TypeOK
    <2> QED BY <2>1 DEF Accounted, Outcome
  <1>4. CASE Finish
    BY <1>4, SameGroups DEF Finish, inputs, output, Accounted, Outcome
  <1>5. ASSUME NEW r \in Works, SkipConflict(r) \/ SkipAbsent(r) \/ RefuseMint(r) \/ Mint(r)
        PROVE  Accounted'
    <2>1. /\ UNCHANGED <<decisions, corpus, mintKey, nodes, rep>>
          /\ pc = "emit" /\ pc' = "emit" /\ r \in todo /\ todo' = todo \ {r}
      BY <1>5 DEF SkipConflict, SkipAbsent, RefuseMint, Mint, TakeRoot, IsLeast, inputs
    <2>2. r \in Roots /\ \A w \in GroupOf(r) : rep[w] = r
      BY <2>1 DEF TypeOK, Roots, GroupOf
    <2>3. /\ Roots' = Roots
          /\ \A q : GroupOf(q)' = GroupOf(q) /\ Contradictions(q)' = Contradictions(q)
      BY <2>1, SameGroups
    <2>4. CASE SkipConflict(r) \/ SkipAbsent(r)
      <3>1. Contradictions(r) # {} \/ GroupOf(r) \cap corpus = {}
        BY <2>1, <2>2, <2>4, FlaggedIsContradicted DEF SkipConflict, SkipAbsent
      <3>2. entries' = entries /\ failures' = failures
        BY <2>4 DEF SkipConflict, SkipAbsent
      <3> QED BY <2>1, <2>3, <3>1, <3>2 DEF Accounted, Outcome
    <2>5. CASE RefuseMint(r)
      <3>0. PICK w \in Works :
              failures' = failures \cup {[members |-> GroupOf(r), anchor |-> w]}
        BY <2>5 DEF RefuseMint
      <3>1. PICK g : failures' = failures \cup {g} /\ g.members = GroupOf(r)
        <4>1. [members |-> GroupOf(r), anchor |-> w].members = GroupOf(r)
          OBVIOUS
        <4> QED BY <3>0, <4>1
      <3>2. entries' = entries
        BY <2>5 DEF RefuseMint
      <3>3. \A e \in entries : e.members \cap g.members = {}
        BY <2>1, <2>2, <3>1 DEF Accounted
      <3>4. \A f \in failures' : \A v \in f.members : rep'[v] \notin todo'
        BY <2>1, <2>2, <3>1 DEF Accounted
      <3>5. \A e \in entries' : \A v \in e.members : rep'[v] \notin todo'
        BY <2>1, <3>2 DEF Accounted
      <3>6. \A e \in entries', f \in failures' : e.members \cap f.members = {}
        BY <3>1, <3>2, <3>3 DEF Accounted
      <3>7. ASSUME NEW q \in Roots PROVE Outcome(q)'
        <4>1. GroupOf(q)' = GroupOf(q) /\ Contradictions(q)' = Contradictions(q)
          BY <2>3
        <4>2. CASE q = r
          BY <3>1, <4>1, <4>2 DEF Outcome
        <4>3. CASE q # r
          <5>1. Outcome(q)
            BY <2>1 DEF Accounted
          <5> QED BY <2>1, <3>1, <3>2, <4>1, <4>3, <5>1 DEF Outcome
        <4> QED BY <4>2, <4>3
      <3> QED BY <2>1, <2>3, <3>4, <3>5, <3>6, <3>7 DEF Accounted
    <2>6. CASE Mint(r)
      <3>0. PICK w \in Works, m \in Models \cup {Converter} :
              entries' = entries \cup {[uri |-> mintKey[w],
                                        members |-> GroupOf(r) \cap corpus, modifier |-> m]}
        BY <2>6 DEF Mint
      <3>1. PICK g : entries' = entries \cup {g} /\ g.members = GroupOf(r) \cap corpus
        <4>1. [uri |-> mintKey[w], members |-> GroupOf(r) \cap corpus, modifier |-> m].members
                = GroupOf(r) \cap corpus
          OBVIOUS
        <4> QED BY <3>0, <4>1
      <3>2. failures' = failures
        BY <2>6 DEF Mint
      <3>3. \A f \in failures : g.members \cap f.members = {}
        BY <2>1, <2>2, <3>1 DEF Accounted
      <3> QED BY <2>1, <2>2, <2>3, <3>1, <3>2, <3>3 DEF Accounted, Outcome
    <2> QED BY <1>5, <2>4, <2>5, <2>6
  <1> QED BY <1>1, <1>2, <1>3, <1>4, <1>5 DEF Next

\* NOTHING IS LOST OR PUBLISHED TWICE: when M8 ends, every Work of the corpus is
\* in exactly one canonical Work, mint failure or conflict.
THEOREM NothingLost == Spec => []EveryWorkAccounted
  <1>1. Init => Accounted
    BY DEF Init, Accounted
  <1>2. Inv /\ Accounted /\ [Next]_vars => Accounted'
    BY AccountedStep DEF Inv
  <1>3. Inv /\ Accounted => EveryWorkAccounted
    <2> SUFFICES ASSUME Inv, Accounted, pc = "done", NEW w \in corpus
                 PROVE  \E h \in Homes(w) : Homes(w) = {h}
      BY DEF EveryWorkAccounted
    <2>1. PICK r \in Works : r = rep[w]
      BY RowTypes DEF Inv, TypeOK
    <2>2. r \in Roots /\ w \in GroupOf(r)
      <3>1. w \in nodes /\ w \in Works /\ r \in nodes
        BY <2>1, RowTypes DEF Inv, Grouped
      <3>2. rep[r] = r
        <4>1. Works \in SUBSET Nat /\ SoFar \in SUBSET (Works \X Works)
          BY RowTypes DEF Inv, SoFar
        <4>2. Names(Works, SoFar, rep) /\ rep \in [Works -> Works]
          BY DEF Inv, Grouped, TypeOK
        <4>3. Together(Works, SoFar, w, rep[w])
          BY <3>1, <4>2 DEF Names
        <4> QED BY <2>1, <3>1, <4>1, <4>2, <4>3, NamesAreLeast
      <3> QED BY <2>1, <3>1, <3>2 DEF Roots, GroupOf
    <2>3. ASSUME NEW q \in Roots, w \in GroupOf(q) PROVE q = r
      BY <2>1, <2>3 DEF GroupOf
    <2>4. ASSUME NEW e \in entries, w \in e.members
          PROVE  e.members = GroupOf(r) \cap corpus /\ Contradictions(r) = {}
      BY <2>3, <2>4 DEF Inv, Minted
    <2>5. ASSUME NEW f \in failures, w \in f.members
          PROVE  f.members = GroupOf(r) /\ Contradictions(r) = {}
      BY <2>3, <2>5 DEF Inv, Minted
    <2>6. ASSUME NEW c \in conflicts, w \in c.members
          PROVE  c.members = GroupOf(r) /\ Contradictions(r) # {}
      <3>1. PICK q \in Roots : Contradictions(q) # {} /\ c = ConflictOf(q)
        BY <2>6 DEF Inv, Detected
      <3>2. c.members = GroupOf(q)
        BY <3>1, ConflictType DEF Inv
      <3> QED BY <2>3, <2>6, <3>1, <3>2
    <2>7. CASE Contradictions(r) # {}
      <3>1. ConflictOf(r) \in conflicts /\ ConflictOf(r).members = GroupOf(r)
        BY <2>2, <2>7, ConflictType DEF Inv, Detected
      <3>2. Homes(w) = {<<"conflict", GroupOf(r)>>}
        BY <2>2, <2>4, <2>5, <2>6, <2>7, <3>1 DEF Homes
      <3> QED BY <3>2
    <2>8. CASE Contradictions(r) = {} /\ \E f \in failures : f.members = GroupOf(r)
      <3>1. PICK f \in failures : f.members = GroupOf(r)
        BY <2>8
      <3>2. \A e \in entries : w \notin e.members
        BY <2>2, <3>1 DEF Accounted
      <3>3. Homes(w) = {<<"failure", GroupOf(r)>>}
        BY <2>2, <2>5, <2>6, <2>8, <3>1, <3>2 DEF Homes
      <3> QED BY <3>3
    <2>9. CASE Contradictions(r) = {} /\ ~\E f \in failures : f.members = GroupOf(r)
      <3>1. PICK e \in entries : e.members = GroupOf(r) \cap corpus
        BY <2>2, <2>9 DEF Accounted, Outcome
      <3>2. Homes(w) = {<<"entry", GroupOf(r) \cap corpus>>}
        BY <2>2, <2>4, <2>5, <2>6, <2>9, <3>1 DEF Homes
      <3> QED BY <3>2
    <2> QED BY <2>7, <2>8, <2>9
  <1> QED BY <1>1, <1>2, <1>3, InvHolds, PTL DEF Spec

-----------------------------------------------------------------------------
(***************************************************************************)
(* UnionFind, whose labels the merge step takes: its theorems, for every   *)
(* set of works and for unions of any of them.  The argument needs no      *)
(* induction along parent chains: it carries, under an existential         *)
(* quantifier, a labelling of every work with the root of its tree.        *)
(* Climbing and compressing keep it; linking merges two of its labels.     *)
(***************************************************************************)
\* TYPE CORRECTNESS of the union-find and of the loops' program counter.
THEOREM UnionFindTypeCorrect == UnionFindSpec => []UnionFindTypeOK
  <1> USE WorksAssumption, EdgesAssumption
  <1>1. UnionFindInit => UnionFindTypeOK
    BY DEF UnionFindInit, UnionFindTypeOK
  <1>2. UnionFindTypeOK /\ [UnionFindNext]_unionFind => UnionFindTypeOK'
    <2> SUFFICES ASSUME UnionFindTypeOK, [UnionFindNext]_unionFind PROVE UnionFindTypeOK'
      OBVIOUS
    <2>1. CASE UNCHANGED unionFind
      BY <2>1 DEF unionFind, UnionFindTypeOK
    <2>2. ASSUME NEW w \in Works, Add(w) PROVE UnionFindTypeOK'
      BY <2>2 DEF Add, UnionFindTypeOK
    <2>3. ASSUME NEW w \in Works, Find(w) PROVE UnionFindTypeOK'
      BY <2>3 DEF Find, StartFind, UnionFindTypeOK
    <2>4. ASSUME NEW e \in Edges, Union(e) PROVE UnionFindTypeOK'
      BY <2>4 DEF Union, StartFind, UnionFindTypeOK
    <2>5. CASE Climb
      BY <2>5 DEF Climb, UnionFindTypeOK
    <2>6. CASE AtRoot
      BY <2>6 DEF AtRoot, UnionFindTypeOK
    <2>7. CASE Compress
      BY <2>7 DEF Compress, UnionFindTypeOK
    <2>8. CASE Return
      BY <2>8 DEF Return, EndCall, StartFind, UnionFindTypeOK, Unset
    <2>9. CASE Link
      BY <2>9 DEF Link, EndCall, UnionFindTypeOK, Unset
    <2> QED
      BY <2>1, <2>2, <2>3, <2>4, <2>5, <2>6, <2>7, <2>8, <2>9 DEF UnionFindNext, Step
  <1> QED BY <1>1, <1>2, PTL DEF UnionFindSpec

-----------------------------------------------------------------------------
(* The forest and the labelling of its trees *)

\* label labels every work with the root of its tree.
Labelled(label) ==
  /\ \A w \in Works : parent[w] <= w
  /\ \A w \in Works : label[parent[w]] = label[w]
  /\ \A w \in Works : parent[w] = w => label[w] = w

\* What the loops know about their locals.
Located(label) ==
  /\ loop # "idle" => label[node] = label[root]
  /\ loop \in {"compress", "link"} => parent[root] = root
  /\ job = "first" => label[node] = label[arg[1]]
  /\ job = "second" => /\ label[node] = label[arg[2]]
                       /\ rx = label[arg[1]] /\ parent[rx] = rx

\* The trees are the classes the unions generate.
Trees ==
  \E label \in [Works -> Works] :
    Labelled(label) /\ Names(Works, unions, label) /\ Located(label)

\* A call that is under way has a first or a second find, or is a find.
Busy == job # "find" => loop # "idle"

LEMMA TreesInit == UnionFindInit => Trees /\ Busy
  <1> SUFFICES ASSUME UnionFindInit PROVE Trees /\ Busy
    OBVIOUS
  <1>1. parent \in [Works -> Works] /\ (\A w \in Works : parent[w] = w)
    BY DEF UnionFindInit
  <1>2. Labelled(parent)
    BY <1>1, WorksAssumption DEF Labelled
  <1>3. Names(Works, unions, parent)
    BY <1>1, WorksAssumption DEF UnionFindInit, Names, Respects, Together
  <1>4. Located(parent) /\ Busy
    BY DEF UnionFindInit, Located, Busy
  <1> QED BY <1>1, <1>2, <1>3, <1>4 DEF Trees

LEMMA TreesStep ==
  ASSUME UnionFindTypeOK, UnionFindTypeOK', Trees, Busy, [UnionFindNext]_unionFind
  PROVE  Trees' /\ Busy'
  <1> USE WorksAssumption, EdgesAssumption
  <1> PICK label \in [Works -> Works] : Labelled(label) /\ Names(Works, unions, label) /\ Located(label)
    BY DEF Trees
  \* A step that changes neither the forest nor the unions keeps the labelling.
  <1>0. ASSUME parent' = parent, unions' = unions, Located(label)'
        PROVE  Trees'
    BY <1>0 DEF Trees, Labelled, Names
  <1>1. CASE UNCHANGED unionFind
    BY <1>0, <1>1 DEF unionFind, Located, Busy
  <1>2. ASSUME NEW w \in Works, Add(w) PROVE Trees' /\ Busy'
    BY <1>0, <1>2 DEF Add, Located, Busy
  <1>3. ASSUME NEW w \in Works, Find(w) PROVE Trees' /\ Busy'
    BY <1>0, <1>3 DEF Find, StartFind, Located, Busy
  <1>4. ASSUME NEW e \in Edges, Union(e) PROVE Trees' /\ Busy'
    BY <1>0, <1>4 DEF Union, StartFind, Located, Busy
  <1>5. CASE Climb
    <2>1. label[root'] = label[root]
      BY <1>5 DEF Climb, Labelled, UnionFindTypeOK
    <2> QED BY <1>0, <1>5, <2>1 DEF Climb, Located, Busy
  <1>6. CASE AtRoot
    BY <1>0, <1>6 DEF AtRoot, Located, Busy
  <1>7. CASE Compress
    <2>1. /\ node \in Works /\ root \in Works /\ parent \in [Works -> Works]
          /\ parent' = [parent EXCEPT ![node] = root] /\ node' = parent[node] /\ root' = root
          /\ loop' = loop /\ job' = job /\ arg' = arg /\ rx' = rx /\ unions' = unions
          /\ loop = "compress" /\ parent[node] # root
      BY <1>7 DEF Compress, UnionFindTypeOK
    <2>2. label[root] = root /\ label[node] = root /\ parent[root] = root
      BY <2>1 DEF Located, Labelled
    <2>3. parent[node] # node /\ root # node
      BY <2>1, <2>2 DEF Labelled
    <2>4. Labelled(label)'
      BY <2>1, <2>2, <2>3 DEF Labelled, Names
    <2>5. Names(Works, unions, label)'
      BY <2>1 DEF Names
    <2>6. label[node'] = label[node] /\ node' \in Works
      BY <2>1 DEF Labelled
    <2>7. \A w \in Works : parent[w] = w => parent'[w] = w
      BY <2>1, <2>3
    <2>8. Located(label)'
      BY <2>1, <2>2, <2>6, <2>7 DEF Located, UnionFindTypeOK
    <2> QED BY <2>1, <2>4, <2>5, <2>8 DEF Trees, Busy
  <1>8. CASE Return
    <2>1. CASE job = "find"
      BY <1>0, <1>8, <2>1 DEF Return, EndCall, Located, Busy
    <2>2. CASE job = "first"
      <3>1. /\ node \in Works /\ root \in Works /\ loop = "compress" /\ rx' = root
            /\ parent' = parent /\ unions' = unions /\ arg' = arg
            /\ loop' = "climb" /\ job' = "second" /\ node' = arg[2] /\ root' = arg[2]
        BY <1>8, <2>2 DEF Return, StartFind, UnionFindTypeOK
      <3>2. root = label[arg[1]] /\ parent[root] = root
        BY <2>2, <3>1 DEF Located, Labelled
      <3> QED BY <1>0, <3>1, <3>2 DEF Located, Busy
    <2>3. CASE job = "second"
      BY <1>0, <1>8, <2>3 DEF Return, Located, Busy
    <2> QED BY <2>1, <2>2, <2>3 DEF UnionFindTypeOK
  <1>9. CASE Link
    <2>1. /\ loop = "link" /\ job = "second" /\ arg \in Works \X Works
          /\ node \in Works /\ root \in Works /\ rx \in Works
          /\ parent \in [Works -> Works] /\ arg[1] \in Works /\ arg[2] \in Works
      BY <1>9 DEF Link, UnionFindTypeOK
    <2>2. /\ rx = label[arg[1]] /\ parent[rx] = rx /\ label[rx] = rx
          /\ root = label[arg[2]] /\ parent[root] = root /\ label[root] = root
      BY <2>1 DEF Located, Labelled
    <2>3. PICK lo \in Works, hi \in Works :
            /\ lo <= hi
            /\ \/ label[arg[1]] = lo /\ label[arg[2]] = hi
               \/ label[arg[1]] = hi /\ label[arg[2]] = lo
            /\ parent' = [parent EXCEPT ![hi] = lo]
      <3>1. CASE rx < root
        <4>1. rx <= root /\ parent' = [parent EXCEPT ![root] = rx]
          BY <1>9, <2>1, <3>1 DEF Link
        <4> QED BY <2>1, <2>2, <4>1
      <3>2. CASE ~(rx < root)
        <4>1. root <= rx /\ parent' = [parent EXCEPT ![rx] = root]
          BY <1>9, <2>1, <3>2 DEF Link
        <4> QED BY <2>1, <2>2, <4>1
      <3> QED BY <3>1, <3>2
    <2>4. unions' = unions \cup {arg} /\ loop' = "idle" /\ job' = "find"
      BY <1>9 DEF Link, EndCall
    <2>5. PICK joined \in [Works -> Works] :
            \A w \in Works : joined[w] = IF label[w] = hi THEN lo ELSE label[w]
      <3>1. [w \in Works |-> IF label[w] = hi THEN lo ELSE label[w]] \in [Works -> Works]
        OBVIOUS
      <3> QED BY <3>1
    <2>6. Names(Works, unions \cup {arg}, joined)
      <3>1. /\ Works \in SUBSET Nat /\ arg \in Works \X Works
            /\ unions \in SUBSET (Works \X Works)
        BY <2>1 DEF UnionFindTypeOK
      <3>2. Names(Works, unions, label)
        OBVIOUS
      <3> QED BY <2>3, <2>5, <3>1, <3>2, JoinedNames
    <2>6a. label[lo] = lo /\ label[hi] = hi /\ parent[lo] = lo /\ parent[hi] = hi
      BY <2>2, <2>3
    <2>7. Labelled(joined)'
      <3> SUFFICES ASSUME NEW w \in Works
                   PROVE  /\ parent'[w] <= w
                          /\ joined[parent'[w]] = joined[w]
                          /\ parent'[w] = w => joined[w] = w
        BY DEF Labelled
      <3>1. CASE w = hi
        BY <2>1, <2>3, <2>5, <2>6, <2>6a, <3>1
      <3>2. CASE w # hi
        BY <2>1, <2>3, <2>5, <2>6, <2>6a, <3>2 DEF Labelled
      <3> QED BY <3>1, <3>2
    <2>8. Names(Works, unions, joined)'
      BY <2>4, <2>6
    <2>9. Located(joined)' /\ Busy'
      BY <2>4 DEF Located, Busy
    <2> QED BY <2>6, <2>7, <2>8, <2>9 DEF Trees
  <1> QED
    BY <1>1, <1>2, <1>3, <1>4, <1>5, <1>6, <1>7, <1>8, <1>9 DEF UnionFindNext, Step

\* FIND RETURNS THE LEAST MEMBER: whatever the unions, their order, and the
\* finds and compressions between them, the root that find climbs to is the
\* lexicographically least member of the class the unions generate.
THEOREM FindReturnsLeast == UnionFindSpec => []FindsLeast
  <1>1. UnionFindInit => UnionFindTypeOK /\ Trees /\ Busy
    <2>1. UnionFindInit => UnionFindTypeOK
      BY WorksAssumption DEF UnionFindInit, UnionFindTypeOK
    <2> QED BY <2>1, TreesInit
  <1>2. UnionFindTypeOK /\ UnionFindTypeOK' /\ Trees /\ Busy /\ [UnionFindNext]_unionFind => Trees' /\ Busy'
    BY TreesStep
  <1>3. UnionFindTypeOK /\ Trees => FindsLeast
    <2> SUFFICES ASSUME UnionFindTypeOK, Trees, loop = "compress"
                 PROVE  LeastOfClass(Works, unions, node, root)
      BY DEF FindsLeast, LeastOfClass, Together, Closed
    <2> PICK label \in [Works -> Works] : Labelled(label) /\ Names(Works, unions, label) /\ Located(label)
      BY DEF Trees
    <2>1. node \in Works /\ root \in Works
      BY DEF UnionFindTypeOK
    <2>2. root = label[node]
      BY <2>1 DEF Located, Labelled
    <2>3. Works \in SUBSET Nat /\ unions \in SUBSET (Works \X Works)
      BY WorksAssumption, EdgesAssumption DEF UnionFindTypeOK
    <2>4. Names(Works, unions, label)
      OBVIOUS
    <2> QED BY <2>1, <2>2, <2>3, <2>4, NamesAreLeast
  <1> QED BY <1>1, <1>2, <1>3, UnionFindTypeCorrect, PTL DEF UnionFindSpec

-----------------------------------------------------------------------------
(* The forest *)

\* Only works that were added have parents or children, and find's locals are
\* works that were added.
Added ==
  /\ \A w \in Works : w \notin known => parent[w] = w
  /\ \A w \in Works : w \in known => parent[w] \in known
  /\ loop # "idle" => node \in known /\ root \in known
  /\ job = "second" => rx \in known

LEMMA AddedStep ==
  ASSUME UnionFindTypeOK, Added, Busy, [UnionFindNext]_unionFind
  PROVE  Added'
  <1>1. CASE UNCHANGED unionFind
    BY <1>1 DEF unionFind, Added
  <1>2. ASSUME NEW w \in Works, Add(w) PROVE Added'
    BY <1>2 DEF Add, Added, UnionFindTypeOK
  <1>3. ASSUME NEW w \in Works, Find(w) PROVE Added'
    BY <1>3 DEF Find, StartFind, Added, UnionFindTypeOK
  <1>4. ASSUME NEW e \in Edges, Union(e) PROVE Added'
    BY <1>4, WorksAssumption DEF Union, StartFind, Added, UnionFindTypeOK
  <1>5. CASE Climb \/ AtRoot
    BY <1>5 DEF Climb, AtRoot, Added, UnionFindTypeOK
  <1>6. CASE Compress
    BY <1>6 DEF Compress, Added, UnionFindTypeOK
  <1>7. CASE Return
    BY <1>7, WorksAssumption DEF Return, EndCall, StartFind, Added, UnionFindTypeOK
  <1>8. CASE Link
    BY <1>8 DEF Link, EndCall, Added, UnionFindTypeOK
  <1> QED
    BY <1>1, <1>2, <1>3, <1>4, <1>5, <1>6, <1>7, <1>8 DEF UnionFindNext, Step

\* NO CYCLES: a parent is never a later work than its child, so climbing ends.
THEOREM ForestKept == UnionFindSpec => []Forest
  <1>1. UnionFindInit => UnionFindTypeOK /\ Trees /\ Busy /\ Added
    <2>1. UnionFindInit => UnionFindTypeOK /\ Added
      BY WorksAssumption DEF UnionFindInit, UnionFindTypeOK, Added
    <2> QED BY <2>1, TreesInit
  <1>2. UnionFindTypeOK /\ UnionFindTypeOK' /\ Trees /\ Busy /\ Added /\ [UnionFindNext]_unionFind => Trees' /\ Busy' /\ Added'
    BY TreesStep, AddedStep
  <1>3. UnionFindTypeOK /\ Trees /\ Added => Forest
    BY DEF Trees, Labelled, Added, Forest
  <1> QED BY <1>1, <1>2, <1>3, UnionFindTypeCorrect, PTL DEF UnionFindSpec

-----------------------------------------------------------------------------
(* The union-find implements the partition the merge step works with *)

\* Along parents every work reaches the root its label names.
LEMMA RootIsLabel ==
  ASSUME NEW label \in [Works -> Works], parent \in [Works -> Works], Labelled(label)
  PROVE  Root = label
  <1> DEFINE Climbed(f) == f = [w \in Works |-> IF parent[w] = w THEN w ELSE f[parent[w]]]
  <1>1. Root = CHOOSE f : Climbed(f)
    BY DEF Root
  <1>2. Climbed(label)
    <2>1. \A w \in Works : label[w] = IF parent[w] = w THEN w ELSE label[parent[w]]
      BY DEF Labelled
    <2> QED BY <2>1
  <1>3. ASSUME NEW f, Climbed(f) PROVE f = label
    <2> DEFINE apart == {w \in Works : f[w] # label[w]}
    <2>1. ASSUME apart # {} PROVE FALSE
      <3>0. apart \subseteq Nat
        BY WorksAssumption
      <3>1. PICK w \in apart : \A v \in apart : w <= v
        <4> HIDE DEF apart
        <4> QED BY <2>1, <3>0, LeastExists DEF IsLeast
      <3>2. w \in Works /\ parent[w] \in Works /\ parent[w] <= w
        BY <3>1 DEF Labelled
      <3>3. f[w] = IF parent[w] = w THEN w ELSE f[parent[w]]
        BY <1>3, <3>2
      <3>4. label[w] = IF parent[w] = w THEN w ELSE label[parent[w]]
        BY <1>2, <3>2
      <3>5. parent[w] # w /\ parent[w] \in apart
        BY <3>1, <3>2, <3>3, <3>4
      <3>6. w <= parent[w] /\ w \in Nat /\ parent[w] \in Nat
        BY <3>1, <3>2, <3>5, WorksAssumption
      <3> QED BY <3>2, <3>5, <3>6
    <2>2. f = [w \in Works |-> f[w]]
      BY <1>3
    <2> QED BY <2>1, <2>2
  <1> HIDE DEF Climbed
  <1> QED BY <1>1, <1>2, <1>3

\* Labellings that name the same classes are the same.
LEMMA OneNaming ==
  ASSUME NEW pairs \in SUBSET (Works \X Works),
         NEW f \in [Works -> Works], Names(Works, pairs, f),
         NEW g \in [Works -> Works], Names(Works, pairs, g)
  PROVE  f = g
  <1>1. Works \in SUBSET Nat
    BY WorksAssumption
  <1>2. ASSUME NEW w \in Works PROVE f[w] = g[w]
    <2>1. LeastOfClass(Works, pairs, w, f[w]) /\ LeastOfClass(Works, pairs, w, g[w])
      BY <1>1, NamesAreLeast
    <2>2. f[w] \in Works /\ g[w] \in Works /\ f[w] \in Nat /\ g[w] \in Nat
      BY <1>1
    <2>3. f[w] <= g[w]
      BY <2>1, <2>2, Zenon DEF LeastOfClass
    <2>4. g[w] <= f[w]
      BY <2>1, <2>2, Zenon DEF LeastOfClass
    <2> QED BY <2>2, <2>3, <2>4
  <1> QED BY <1>2

\* The arguments of a union whose finds have begun are works it knows.
Met ==
  /\ job = "first" => arg[1] \in known
  /\ job = "second" => arg[1] \in known /\ arg[2] \in known

LEMMA MetStep ==
  ASSUME UnionFindTypeOK, Met, [UnionFindNext]_unionFind
  PROVE  Met'
  <1>1. CASE UNCHANGED unionFind
    BY <1>1 DEF unionFind, Met
  <1>2. ASSUME NEW w \in Works, Add(w) \/ Find(w) PROVE Met'
    BY <1>2 DEF Add, Find, StartFind, Met
  <1>3. ASSUME NEW e \in Edges, Union(e) PROVE Met'
    BY <1>3 DEF Union, StartFind, Met
  <1>4. CASE Climb \/ AtRoot \/ Compress
    BY <1>4 DEF Climb, AtRoot, Compress, Met
  <1>5. CASE Return
    BY <1>5 DEF Return, EndCall, StartFind, Met
  <1>6. CASE Link
    BY <1>6 DEF Link, EndCall, Met
  <1> QED
    BY <1>1, <1>2, <1>3, <1>4, <1>5, <1>6 DEF UnionFindNext, Step

\* Roots are the labels of the trees, before a step and after it.
LEMMA RootNames ==
  ASSUME UnionFindTypeOK, Trees
  PROVE  /\ Root \in [Works -> Works] /\ Labelled(Root)
         /\ Names(Works, unions, Root) /\ Located(Root)
         /\ unions \in SUBSET (Works \X Works)
  <1>1. PICK label \in [Works -> Works] :
          Labelled(label) /\ Names(Works, unions, label) /\ Located(label)
    BY DEF Trees
  <1>2. parent \in [Works -> Works] /\ unions \in SUBSET (Works \X Works)
    BY EdgesAssumption DEF UnionFindTypeOK
  <1>3. Root = label
    BY <1>1, <1>2, RootIsLabel
  <1> QED BY <1>1, <1>2, <1>3

\* A step maps to at most one work admitted, or to the whole union it ends.
LEMMA StepImplements ==
  ASSUME UnionFindTypeOK, UnionFindTypeOK', Trees, Trees', Met, [UnionFindNext]_unionFind
  PROVE  [\E w \in Works : Groups!Admit(w) \/ \E v \in Works : Groups!Join(v, w)]_<<known, Root>>
  <1>1. /\ Root \in [Works -> Works] /\ Names(Works, unions, Root)
        /\ Located(Root) /\ Labelled(Root) /\ unions \in SUBSET (Works \X Works)
    BY RootNames
  <1>2. /\ Root' \in [Works -> Works] /\ Names(Works, unions', Root')
        /\ unions' \in SUBSET (Works \X Works)
    <2>1. (/\ Root \in [Works -> Works] /\ Names(Works, unions, Root)
           /\ unions \in SUBSET (Works \X Works))'
      BY RootNames, PTL
    <2> QED BY <2>1 DEF Names, Respects, Together, Closed
  \* While the unions stay, so do the roots, whatever find does to the parents.
  <1>3. ASSUME unions' = unions PROVE Root' = Root
    BY <1>1, <1>2, <1>3, OneNaming
  <1>4. ASSUME NEW w \in Works, known' = known \cup {w}, unions' = unions
        PROVE  Groups!Admit(w)
    BY <1>3, <1>4 DEF Groups!Admit
  <1>5. CASE known' = known /\ unions' = unions
    BY <1>3, <1>5
  <1>6. CASE Link
    <2>1. /\ loop = "link" /\ job = "second" /\ arg \in Works \X Works
          /\ known' = known /\ unions' = unions \cup {arg}
      BY <1>6, EdgesAssumption DEF Link, EndCall, UnionFindTypeOK
    <2>2. arg[1] \in Works /\ arg[2] \in Works /\ arg[1] \in known /\ arg[2] \in known
      BY <2>1 DEF Met
    <2> DEFINE joined == Groups!Joined(arg[1], arg[2])
    <2>3. joined \in [Works -> Works]
      BY <1>1, <2>2 DEF Groups!Joined
    <2>4. PICK lo \in Works, hi \in Works :
            /\ lo <= hi
            /\ \/ Root[arg[1]] = lo /\ Root[arg[2]] = hi
               \/ Root[arg[1]] = hi /\ Root[arg[2]] = lo
            /\ joined = [w \in Works |-> IF Root[w] = hi THEN lo ELSE Root[w]]
      <3>1. Root[arg[1]] \in Nat /\ Root[arg[2]] \in Nat
        BY <1>1, <2>2, WorksAssumption
      <3>2. CASE Root[arg[1]] <= Root[arg[2]]
        BY <1>1, <2>2, <3>2 DEF Groups!Joined
      <3>3. CASE ~(Root[arg[1]] <= Root[arg[2]])
        BY <1>1, <2>2, <3>1, <3>3 DEF Groups!Joined
      <3> QED BY <3>2, <3>3
    <2> HIDE DEF joined
    <2>5. Names(Works, unions', joined)
      <3>1. Works \in SUBSET Nat
        BY WorksAssumption
      <3>2. \A w \in Works : joined[w] = IF Root[w] = hi THEN lo ELSE Root[w]
        BY <2>4
      <3> QED BY <1>1, <2>1, <2>3, <2>4, <3>1, <3>2, JoinedNames
    <2>6. Root' = joined
      BY <1>2, <2>3, <2>5, OneNaming
    <2>7. Groups!Join(arg[1], arg[2])
      BY <2>1, <2>2, <2>6 DEF joined, Groups!Join
    <2> QED BY <2>2, <2>7
  <1>7. ASSUME NEW w \in Works, Add(w) \/ Find(w) PROVE Groups!Admit(w)
    BY <1>4, <1>7 DEF Add, Find, StartFind
  <1>8. ASSUME NEW e \in Edges, Union(e) PROVE Groups!Admit(e[1])
    BY <1>4, <1>8, EdgesAssumption DEF Union, StartFind
  <1>9. CASE Return
    <2>1. CASE job = "first"
      <3>1. arg[2] \in Works
        BY <2>1, EdgesAssumption DEF UnionFindTypeOK
      <3> QED BY <1>4, <1>9, <2>1, <3>1 DEF Return, StartFind
    <2>2. CASE job # "first"
      BY <1>5, <1>9, <2>2 DEF Return, EndCall
    <2> QED BY <2>1, <2>2
  <1>10. CASE Climb \/ AtRoot \/ Compress \/ UNCHANGED unionFind
    BY <1>5, <1>10 DEF Climb, AtRoot, Compress, unionFind
  <1>11. \A e \in Edges : e[1] \in Works
    BY EdgesAssumption
  <1> QED
    BY <1>6, <1>7, <1>8, <1>9, <1>10, <1>11 DEF UnionFindNext, Step

\* ONE STEP PER UNION: the path-compressed forest, loop by loop, implements the
\* partition of which M8's merge is made, in which a union is one step.
THEOREM UnionFindImplementsPartition == UnionFindSpec => ImplementsPartition
  <1>1. UnionFindInit => UnionFindTypeOK /\ Trees /\ Busy /\ Met
    <2>1. UnionFindInit => UnionFindTypeOK /\ Met
      BY WorksAssumption DEF UnionFindInit, UnionFindTypeOK, Met
    <2> QED BY <2>1, TreesInit
  <1>2. UnionFindTypeOK /\ UnionFindTypeOK' /\ Trees /\ Busy /\ Met /\ [UnionFindNext]_unionFind
          => Trees' /\ Busy' /\ Met'
    BY TreesStep, MetStep
  <1>3. UnionFindInit => Groups!NoGroups
    <2> SUFFICES ASSUME UnionFindInit PROVE Root = [w \in Works |-> w]
      BY DEF UnionFindInit, Groups!NoGroups
    <2>1. /\ parent \in [Works -> Works] /\ parent = [w \in Works |-> w]
          /\ Labelled(parent)
      BY WorksAssumption DEF UnionFindInit, Labelled
    <2> QED BY <2>1, RootIsLabel
  <1>4. UnionFindTypeOK /\ UnionFindTypeOK' /\ Trees /\ Trees' /\ Met /\ [UnionFindNext]_unionFind
          => [\E w \in Works : Groups!Admit(w) \/ \E v \in Works : Groups!Join(v, w)]_<<known, Root>>
    BY StepImplements
  <1> QED
    BY <1>1, <1>2, <1>3, <1>4, UnionFindTypeCorrect, PTL
       DEF UnionFindSpec, ImplementsPartition, Groups!PartitionSpec

-----------------------------------------------------------------------------
(* The diff of two records *)

\* Places tell the members of a finite set of numbers apart.
LEMMA PlacesDiffer ==
  ASSUME NEW S \in SUBSET Nat, IsFiniteSet(S)
  PROVE  \A i, k \in S : Place(S, i) = Place(S, k) => i = k
  <1>1. ASSUME NEW i \in S, NEW k \in S, i < k PROVE Place(S, i) < Place(S, k)
    <2> DEFINE I == {n \in S : n <= i}
               K == {n \in S : n <= k}
    <2>1. IsFiniteSet(K) /\ Cardinality(K) \in Nat
      BY FS_Subset, FS_CardinalityType
    <2>2. I \in SUBSET K /\ k \in K /\ k \notin I
      <3>1. i \in Nat /\ k \in Nat /\ (\A n \in S : n \in Nat)
        OBVIOUS
      <3>2. \A n \in S : n <= i => n <= k
        BY <1>1, <3>1
      <3>3. ~(k <= i)
        BY <1>1, <3>1
      <3>4. I \subseteq K
        BY <3>2
      <3>5. k \in K
        BY <3>1
      <3>6. k \notin I
        BY <3>3
      <3> QED BY <3>4, <3>5, <3>6
    <2> HIDE DEF I, K
    <2>3. Cardinality(I) \in Nat /\ Cardinality(I) <= Cardinality(K) /\ IsFiniteSet(I)
      BY <2>1, <2>2, FS_Subset, FS_CardinalityType
    <2>4. Cardinality(I) # Cardinality(K)
      BY <2>1, <2>2, FS_Subset
    <2>5. Cardinality(I) < Cardinality(K)
      BY <2>1, <2>3, <2>4
    <2> QED BY <2>5 DEF I, K, Place
  <1>2. ASSUME NEW i \in S PROVE Place(S, i) \in Nat
    <2>1. IsFiniteSet({n \in S : n <= i})
      BY FS_Subset
    <2> QED BY <2>1, FS_CardinalityType DEF Place
  <1> QED
    <2> SUFFICES ASSUME NEW i \in S, NEW k \in S, Place(S, i) = Place(S, k), i # k PROVE FALSE
      OBVIOUS
    <2>1. i < k \/ k < i
      OBVIOUS
    <2>2. Place(S, i) \in Nat /\ Place(S, k) \in Nat
      BY <1>2
    <2>3. Place(S, i) < Place(S, k) \/ Place(S, k) < Place(S, i)
      BY <1>1, <2>1
    <2> QED BY <2>2, <2>3


\* P pairs originals of os with reconstructed fields of rs, each with one.
Matching(P, os, rs) ==
  /\ \A p \in P : p.orig \in os /\ p.recon \in rs
  /\ \A p, q \in P : p.orig = q.orig \/ p.recon = q.recon => p = q

\* Every one of os and of rs is in one pair of P and in no other; the others of
\* a pair are 0.
Covers(P, os, rs) ==
  /\ \A p \in P : p.orig \in os \cup {0} /\ p.recon \in rs \cup {0}
  /\ \A p \in P : p.orig # 0 \/ p.recon # 0
  /\ \A i \in os : \E p \in P : p.orig = i
  /\ \A i \in rs : \E p \in P : p.recon = i
  /\ \A p, q \in P : \/ p.orig = q.orig /\ p.orig # 0
                     \/ p.recon = q.recon /\ p.recon # 0
                     => p = q

Numbers(S) == S \in SUBSET Nat /\ IsFiniteSet(S) /\ 0 \notin S

\* A part of the numbers of a record's fields.
LEMMA NumbersWithin ==
  ASSUME NEW S, Numbers(S), NEW T \in SUBSET S
  PROVE  Numbers(T)
  BY FS_Subset DEF Numbers

\* A matching and pairs of what it leaves cover everything.
LEMMA MatchedFirst ==
  ASSUME NEW os, NEW rs, Numbers(os), Numbers(rs),
         NEW M, Matching(M, os, rs),
         NEW C, Covers(C, os \ {p.orig : p \in M}, rs \ {p.recon : p \in M})
  PROVE  Covers(M \cup C, os, rs)
  <1>1. ASSUME NEW p \in M, NEW q \in C
        PROVE  (p.orig # q.orig \/ q.orig = 0) /\ (p.recon # q.recon \/ q.recon = 0)
    BY DEF Covers
  <1>2. 0 \notin os /\ 0 \notin rs
    BY DEF Numbers
  <1>3. \A p \in M \cup C : p.orig \in os \cup {0} /\ p.recon \in rs \cup {0}
    BY DEF Covers, Matching
  <1>3a. \A p \in M \cup C : p.orig # 0 \/ p.recon # 0
    BY <1>2 DEF Covers, Matching
  <1>4. ASSUME NEW i \in os PROVE \E p \in M \cup C : p.orig = i
    <2>1. CASE \E p \in M : p.orig = i
      BY <2>1
    <2>2. CASE i \in os \ {p.orig : p \in M}
      BY <2>2 DEF Covers
    <2> QED BY <2>1, <2>2
  <1>5. ASSUME NEW i \in rs PROVE \E p \in M \cup C : p.recon = i
    <2>1. CASE \E p \in M : p.recon = i
      BY <2>1
    <2>2. CASE i \in rs \ {p.recon : p \in M}
      BY <2>2 DEF Covers
    <2> QED BY <2>1, <2>2
  <1>6. ASSUME NEW p \in M \cup C, NEW q \in M \cup C,
               \/ p.orig = q.orig /\ p.orig # 0
               \/ p.recon = q.recon /\ p.recon # 0
        PROVE  p = q
    <2>1. CASE p \in M /\ q \in M
      BY <1>6, <2>1 DEF Matching
    <2>2. CASE p \in C /\ q \in C
      BY <1>6, <2>2 DEF Covers
    <2>3. CASE p \in M /\ q \in C
      BY <1>1, <1>6, <2>3
    <2>4. CASE p \in C /\ q \in M
      BY <1>1, <1>6, <2>4
    <2> QED BY <2>1, <2>2, <2>3, <2>4
  <1> QED BY <1>3, <1>3a, <1>4, <1>5, <1>6 DEF Covers

\* In order, and what is left over alone.
LEMMA LeftoversCovered ==
  ASSUME NEW os, NEW rs, Numbers(os), Numbers(rs)
  PROVE  Covers(LeftoverPairs(os, rs), os, rs)
  <1> DEFINE places == {Place(os, i) : i \in os} \cup {Place(rs, i) : i \in rs}
             nth(S, n) == IF \E i \in S : Place(S, i) = n THEN CHOOSE i \in S : Place(S, i) = n ELSE 0
  <1>1. LeftoverPairs(os, rs) = {Pair(nth(os, n), nth(rs, n)) : n \in places}
    BY DEF LeftoverPairs
  <1>2. ASSUME NEW S, Numbers(S), NEW n
        PROVE  /\ nth(S, n) \in S \cup {0}
               /\ nth(S, n) # 0 => Place(S, nth(S, n)) = n
               /\ \A i \in S : Place(S, i) = n => nth(S, n) = i
    <2>1. CASE \E i \in S : Place(S, i) = n
      <3>1. nth(S, n) \in S /\ Place(S, nth(S, n)) = n
        BY <2>1
      <3>2. \A i, k \in S : Place(S, i) = Place(S, k) => i = k
        BY <1>2, PlacesDiffer DEF Numbers
      <3> QED BY <3>1, <3>2
    <2>2. CASE ~\E i \in S : Place(S, i) = n
      BY <2>2
    <2> QED BY <2>1, <2>2
  <1> HIDE DEF nth
  <1>3. \A p \in LeftoverPairs(os, rs) :
          \E n \in places : p = Pair(nth(os, n), nth(rs, n)) /\ p.orig = nth(os, n) /\ p.recon = nth(rs, n)
    BY <1>1 DEF Pair
  <1>4. \A n \in places : Pair(nth(os, n), nth(rs, n)) \in LeftoverPairs(os, rs)
                          /\ Pair(nth(os, n), nth(rs, n)).orig = nth(os, n)
                          /\ Pair(nth(os, n), nth(rs, n)).recon = nth(rs, n)
    BY <1>1 DEF Pair
  <1>5. \A i \in os : Place(os, i) \in places /\ nth(os, Place(os, i)) = i
    BY <1>2
  <1>6. \A i \in rs : Place(rs, i) \in places /\ nth(rs, Place(rs, i)) = i
    BY <1>2
  <1>7. ASSUME NEW p \in LeftoverPairs(os, rs), NEW q \in LeftoverPairs(os, rs),
               \/ p.orig = q.orig /\ p.orig # 0
               \/ p.recon = q.recon /\ p.recon # 0
        PROVE  p = q
    <2>1. PICK n \in places : p = Pair(nth(os, n), nth(rs, n)) /\ p.orig = nth(os, n) /\ p.recon = nth(rs, n)
      BY <1>3
    <2>2. PICK k \in places : q = Pair(nth(os, k), nth(rs, k)) /\ q.orig = nth(os, k) /\ q.recon = nth(rs, k)
      BY <1>3
    <2>3. n = k
      BY <1>2, <1>7, <2>1, <2>2
    <2> QED BY <2>1, <2>2, <2>3
  <1>8. ASSUME NEW p \in LeftoverPairs(os, rs) PROVE p.orig # 0 \/ p.recon # 0
    <2>1. PICK n \in places : p.orig = nth(os, n) /\ p.recon = nth(rs, n)
      BY <1>3
    <2>2. CASE \E i \in os : n = Place(os, i)
      BY <1>5, <2>1, <2>2 DEF Numbers
    <2>3. CASE \E i \in rs : n = Place(rs, i)
      BY <1>6, <2>1, <2>3 DEF Numbers
    <2> QED BY <2>2, <2>3
  <1> HIDE DEF places
  <1> QED BY <1>2, <1>3, <1>4, <1>5, <1>6, <1>7, <1>8 DEF Covers

\* The nth original of an $a and the nth reconstructed field of it.
LEMMA TitlesMatched ==
  ASSUME NEW orig, NEW recon, NEW os, NEW rs, Numbers(os), Numbers(rs)
  PROVE  Matching(SameTitlePairs(orig, recon, os, rs), os, rs)
  <1> DEFINE same(i, k, a) ==
               /\ i \in os /\ k \in rs /\ First(orig[i], "a") = a /\ First(recon[k], "a") = a
               /\ Place(Beginning(orig, os, a), i) = Place(Beginning(recon, rs, a), k)
  <1>1. ASSUME NEW p \in SameTitlePairs(orig, recon, os, rs)
        PROVE  \E i \in os, k \in rs : \E a : same(i, k, a) /\ p = Pair(i, k) /\ p.orig = i /\ p.recon = k
    <2>1. PICK x \in os \X rs :
            /\ First(recon[x[2]], "a") = First(orig[x[1]], "a")
            /\ Place(Beginning(orig, os, First(orig[x[1]], "a")), x[1])
                 = Place(Beginning(recon, rs, First(orig[x[1]], "a")), x[2])
            /\ p = Pair(x[1], x[2])
      BY DEF SameTitlePairs
    <2>2. x[1] \in os /\ x[2] \in rs /\ p.orig = x[1] /\ p.recon = x[2]
      BY <2>1 DEF Pair
    <2>3. same(x[1], x[2], First(orig[x[1]], "a"))
      BY <2>1, <2>2
    <2> HIDE DEF same
    <2> QED BY <2>1, <2>2, <2>3
  <1>2. ASSUME NEW i \in os, NEW k \in rs, NEW a, same(i, k, a),
               NEW j \in os, NEW l \in rs, NEW b, same(j, l, b), i = j \/ k = l
        PROVE  i = j /\ k = l
    <2>1. a = b
      BY <1>2
    <2> DEFINE S == Beginning(orig, os, a)
               T == Beginning(recon, rs, a)
    <2>2. Numbers(S) /\ Numbers(T)
      BY NumbersWithin DEF Beginning
    <2>3. i \in S /\ j \in S /\ k \in T /\ l \in T
      BY <1>2, <2>1 DEF Beginning
    <2>4. Place(S, i) = Place(T, k) /\ Place(S, j) = Place(T, l)
      BY <1>2, <2>1
    <2> HIDE DEF S, T
    <2>5. /\ \A m, n \in S : Place(S, m) = Place(S, n) => m = n
          /\ \A m, n \in T : Place(T, m) = Place(T, n) => m = n
      BY <2>2, PlacesDiffer DEF Numbers
    <2> QED BY <1>2, <2>3, <2>4, <2>5
  <1> HIDE DEF same
  <1> QED BY <1>1, <1>2 DEF Matching

\* A tag's fields that no lineage paired.
LEMMA BucketCovered ==
  ASSUME NEW orig, NEW recon, NEW os, NEW rs, Numbers(os), Numbers(rs)
  PROVE  Covers(BucketPairs(orig, recon, os, rs), os, rs)
  <1> DEFINE same == SameTitlePairs(orig, recon, os, rs)
             o == os \ {p.orig : p \in same}
             r == rs \ {p.recon : p \in same}
  <1>1. Matching(same, os, rs)
    BY TitlesMatched
  <1>2. Numbers(o) /\ Numbers(r)
    BY NumbersWithin
  <1>3. Covers(LeftoverPairs(o, r), o, r)
    BY <1>2, LeftoversCovered
  <1> HIDE DEF same
  <1>4. Covers(same \cup LeftoverPairs(o, r), os, rs)
    BY <1>1, <1>3, MatchedFirst
  <1> QED BY <1>4 DEF BucketPairs, same

AList(f) == \E n \in Nat : DOMAIN f = 1..n
OneOrigin(fields) == \A r \in DOMAIN fields : \A t, u \in fields[r].src : t = u

\* The numbers of a list.
LEMMA ListNumbers ==
  ASSUME NEW f, AList(f)
  PROVE  Numbers(DOMAIN f)
  <1>1. PICK n \in Nat : DOMAIN f = 1..n
    BY DEF AList
  <1>2. IsFiniteSet(1..n)
    BY <1>1, FS_Interval
  <1>3. DOMAIN f \in SUBSET Nat /\ 0 \notin DOMAIN f
    BY <1>1
  <1> QED BY <1>1, <1>2, <1>3 DEF Numbers

\* A reconstructed field has the field of its one origin, unless an earlier one has it.
LEMMA LineageMatched ==
  ASSUME NEW orig, AList(orig), NEW recon, AList(recon), OneOrigin(recon)
  PROVE  Matching(LineagePairs(orig, recon), DOMAIN orig, DOMAIN recon)
  <1> DEFINE first(i, r) == /\ i \in DOMAIN orig /\ r \in DOMAIN recon
                            /\ i \in NamedBy(orig, recon[r])
                            /\ \A e \in 1..r - 1 : i \notin NamedBy(orig, recon[e])
  <1>1. ASSUME NEW p \in LineagePairs(orig, recon)
        PROVE  \E i \in DOMAIN orig, r \in DOMAIN recon :
                 first(i, r) /\ p = Pair(i, r) /\ p.orig = i /\ p.recon = r
    <2>1. PICK x \in (DOMAIN orig) \X (DOMAIN recon) :
            /\ x[1] \in NamedBy(orig, recon[x[2]])
            /\ \A e \in 1..x[2] - 1 : x[1] \notin NamedBy(orig, recon[e])
            /\ p = Pair(x[1], x[2])
      BY DEF LineagePairs
    <2>2. x[1] \in DOMAIN orig /\ x[2] \in DOMAIN recon /\ p.orig = x[1] /\ p.recon = x[2]
      BY <2>1 DEF Pair
    <2>3. first(x[1], x[2])
      BY <2>1, <2>2
    <2> HIDE DEF first
    <2> QED BY <2>1, <2>2, <2>3
  <1>2. ASSUME NEW i \in DOMAIN orig, NEW r \in DOMAIN recon, first(i, r),
               NEW l \in DOMAIN recon, first(i, l)
        PROVE  r = l
    <2>1. r \in Nat /\ l \in Nat /\ r >= 1 /\ l >= 1
      BY DEF AList
    <2>2. ~(r < l)
      <3>1. r < l => r \in 1..l - 1
        BY <2>1
      <3> QED BY <1>2, <3>1
    <2>3. ~(l < r)
      <3>1. l < r => l \in 1..r - 1
        BY <2>1
      <3> QED BY <1>2, <3>1
    <2> QED BY <2>1, <2>2, <2>3
  <1>3. ASSUME NEW i \in DOMAIN orig, NEW r \in DOMAIN recon, first(i, r),
               NEW j \in DOMAIN orig, first(j, r)
        PROVE  i = j
    <2>1. PICK t \in recon[r].src : orig[i].tag = t.tag /\ Rank(orig, i) = t.ord
      BY <1>3 DEF NamedBy
    <2>2. PICK u \in recon[r].src : orig[j].tag = u.tag /\ Rank(orig, j) = u.ord
      BY <1>3 DEF NamedBy
    <2>3. t = u
      BY <2>1, <2>2 DEF OneOrigin
    <2> DEFINE S == FieldsWith(orig, t.tag)
    <2>4. Numbers(S)
      BY ListNumbers, NumbersWithin DEF FieldsWith
    <2>5. i \in S /\ j \in S
      BY <2>1, <2>2, <2>3 DEF FieldsWith
    <2>6. Place(S, i) = Place(S, j)
      BY <2>1, <2>2, <2>3 DEF Rank
    <2> HIDE DEF S
    <2> QED BY <2>4, <2>5, <2>6, PlacesDiffer DEF Numbers
  <1> HIDE DEF first
  <1> QED BY <1>1, <1>2, <1>3 DEF Matching

\* Pairs of the buckets of some tags cover the fields with those tags.
LEMMA BucketsCovered ==
  ASSUME NEW orig, NEW recon, NEW os, NEW rs, Numbers(os), Numbers(rs),
         os \subseteq DOMAIN orig, rs \subseteq DOMAIN recon,
         NEW tags, \A i \in os : orig[i].tag \in tags, \A i \in rs : recon[i].tag \in tags,
         NEW all,
         \A p : p \in all <=> \E tag \in tags :
                  p \in BucketPairs(orig, recon, os \cap FieldsWith(orig, tag), rs \cap FieldsWith(recon, tag))
  PROVE  Covers(all, os, rs)
  <1> DEFINE bucket(tag) == BucketPairs(orig, recon, os \cap FieldsWith(orig, tag), rs \cap FieldsWith(recon, tag))
  <1>1. ASSUME NEW tag \in tags
        PROVE  Covers(bucket(tag), os \cap FieldsWith(orig, tag), rs \cap FieldsWith(recon, tag))
    <2>1. Numbers(os \cap FieldsWith(orig, tag)) /\ Numbers(rs \cap FieldsWith(recon, tag))
      BY NumbersWithin
    <2> QED BY <2>1, BucketCovered
  <1>2. 0 \notin os /\ 0 \notin rs
    BY DEF Numbers
  <1>3. /\ \A tag : \A i \in os \cap FieldsWith(orig, tag) : orig[i].tag = tag
        /\ \A tag : \A i \in rs \cap FieldsWith(recon, tag) : recon[i].tag = tag
        /\ \A i \in os : i \in os \cap FieldsWith(orig, orig[i].tag)
        /\ \A i \in rs : i \in rs \cap FieldsWith(recon, recon[i].tag)
    BY DEF FieldsWith
  <1>4. \A p \in all : \E tag \in tags : p \in bucket(tag)
    OBVIOUS
  <1>5. \A tag \in tags : bucket(tag) \subseteq all
    OBVIOUS
  <1> HIDE DEF bucket
  <1>6. ASSUME NEW p \in all, NEW q \in all,
               \/ p.orig = q.orig /\ p.orig # 0
               \/ p.recon = q.recon /\ p.recon # 0
        PROVE  p = q
    <2>1. PICK a \in tags : p \in bucket(a)
      BY <1>4
    <2>2. PICK b \in tags : q \in bucket(b)
      BY <1>4
    <2>3. Covers(bucket(a), os \cap FieldsWith(orig, a), rs \cap FieldsWith(recon, a))
      BY <1>1
    <2>4. Covers(bucket(b), os \cap FieldsWith(orig, b), rs \cap FieldsWith(recon, b))
      BY <1>1
    <2>5. p.orig \in (os \cap FieldsWith(orig, a)) \cup {0} /\ p.recon \in (rs \cap FieldsWith(recon, a)) \cup {0}
      BY <2>1, <2>3 DEF Covers
    <2>6. q.orig \in (os \cap FieldsWith(orig, b)) \cup {0} /\ q.recon \in (rs \cap FieldsWith(recon, b)) \cup {0}
      BY <2>2, <2>4 DEF Covers
    <2>7. a = b
      BY <1>3, <1>6, <2>5, <2>6
    <2> QED BY <1>6, <2>1, <2>2, <2>3, <2>7 DEF Covers
  <1>7. ASSUME NEW p \in all
        PROVE  /\ p.orig \in os \cup {0} /\ p.recon \in rs \cup {0}
               /\ (p.orig # 0 \/ p.recon # 0)
    <2>1. PICK a \in tags : p \in bucket(a)
      BY <1>4
    <2> QED BY <1>1, <2>1 DEF Covers
  <1>8. ASSUME NEW i \in os PROVE \E p \in all : p.orig = i
    BY <1>1, <1>3, <1>5 DEF Covers
  <1>9. ASSUME NEW i \in rs PROVE \E p \in all : p.recon = i
    BY <1>1, <1>3, <1>5 DEF Covers
  <1> QED BY <1>6, <1>7, <1>8, <1>9 DEF Covers

\* Every data field is in one pair.
LEMMA DataCovered ==
  ASSUME NEW orig, AList(orig), NEW recon, AList(recon), OneOrigin(recon)
  PROVE  Covers(DataPairs(orig, recon), DOMAIN orig, DOMAIN recon)
  <1> DEFINE named == LineagePairs(orig, recon)
             os == DOMAIN orig \ {p.orig : p \in named}
             rs == DOMAIN recon \ {p.recon : p \in named}
             tags == {orig[i].tag : i \in os} \cup {recon[i].tag : i \in rs}
             rest == UNION {BucketPairs(orig, recon, os \cap FieldsWith(orig, tag), rs \cap FieldsWith(recon, tag)) : tag \in tags}
  <1>1. Matching(named, DOMAIN orig, DOMAIN recon)
    BY LineageMatched
  <1>2. Numbers(DOMAIN orig) /\ Numbers(DOMAIN recon)
    BY ListNumbers
  <1>3. Numbers(os) /\ Numbers(rs)
    BY <1>2, NumbersWithin
  <1>4. DataPairs(orig, recon) = named \cup rest
    BY DEF DataPairs
  <1>5. Covers(rest, os, rs)
    <2>1. os \subseteq DOMAIN orig /\ rs \subseteq DOMAIN recon
      OBVIOUS
    <2>2. (\A i \in os : orig[i].tag \in tags) /\ (\A i \in rs : recon[i].tag \in tags)
      OBVIOUS
    <2>3. \A p : p \in rest <=> \E tag \in tags :
                   p \in BucketPairs(orig, recon, os \cap FieldsWith(orig, tag), rs \cap FieldsWith(recon, tag))
      OBVIOUS
    <2> HIDE DEF named, os, rs, tags, rest
    <2> QED BY <1>3, <2>1, <2>2, <2>3, BucketsCovered
  <1> HIDE DEF named, rest
  <1>6. Covers(named \cup rest, DOMAIN orig, DOMAIN recon)
    BY <1>1, <1>2, <1>5, MatchedFirst
  <1> QED BY <1>4, <1>6

\* The rows of a record: lists, of rows with one origin or none.
IsRow(f) == DOMAIN f = {"tag", "ind", "subs", "src", "bypass"} /\ \A t, u \in f.src : t = u
IsRecord(record) ==
  /\ AList(record.controls) /\ AList(record.fields)
  /\ \A r \in DOMAIN record.fields : IsRow(record.fields[r])

\* A diff is an entry for every pair.
Entries(diff, original, record, P, entry, T, other) ==
  /\ Covers(P, DOMAIN original.fields, DOMAIN record.fields)
  /\ \A p \in P : entry[p].control = FALSE /\ entry[p].orig = p.orig /\ entry[p].recon = p.recon
  /\ \A t \in T : other[t].control = TRUE
  /\ diff = {other[t] : t \in T} \cup {entry[p] : p \in P}
  /\ T = ControlPairs(original.controls, record.controls)

\* The diff is made of entries for the pairs of data fields, each of one pair, and
\* of entries for the control fields.
LEMMA DiffEntries ==
  ASSUME NEW original, AList(original.controls), AList(original.fields),
         NEW record, IsRecord(record), NEW skipped
  PROVE  \E P, entry, T, other : Entries(Diff(original, record, skipped), original, record, P, entry, T, other)
  <1> DEFINE fields == [i \in DOMAIN record.fields |-> Stripped(record.fields[i])]
             P == DataPairs(original.fields, fields)
             T == ControlPairs(original.controls, record.controls)
             tag(p, os, rs) == IF p.orig = 0 THEN rs[p.recon].tag ELSE os[p.orig].tag
             entry == [p \in P |->
               [tag |-> tag(p, original.fields, fields), orig |-> p.orig, recon |-> p.recon, control |-> FALSE,
                status |-> IF 0 \in {p.orig, p.recon} THEN Unpaired(tag(p, original.fields, fields), p.orig, skipped)
                           ELSE DataStatus(original.fields[p.orig], fields[p.recon])]]
             other == [p \in T |->
               [tag |-> tag(p, original.controls, record.controls), orig |-> p.orig, recon |-> p.recon, control |-> TRUE,
                status |-> IF 0 \in {p.orig, p.recon} THEN Unpaired(tag(p, original.controls, record.controls), p.orig, skipped)
                           ELSE ControlStatus(original.controls[p.orig], record.controls[p.recon])]]
  <1>1. AList(fields) /\ OneOrigin(fields) /\ DOMAIN fields = DOMAIN record.fields
    <2>1. ASSUME NEW r \in DOMAIN record.fields
          PROVE  fields[r].src = record.fields[r].src
      BY DEF Stripped, IsRecord, IsRow
    <2>2. OneOrigin(fields)
      BY <2>1 DEF OneOrigin, IsRecord, IsRow
    <2> QED BY <2>2 DEF AList, IsRecord
  <1>2. Covers(P, DOMAIN original.fields, DOMAIN record.fields)
    BY <1>1, DataCovered
  <1>3. Diff(original, record, skipped) = {other[t] : t \in T} \cup {entry[p] : p \in P}
    BY DEF Diff
  <1>4. /\ \A p \in P : entry[p].control = FALSE /\ entry[p].orig = p.orig /\ entry[p].recon = p.recon
        /\ \A t \in T : other[t].control = TRUE
    OBVIOUS
  <1> HIDE DEF P, T, entry, other
  <1>5. Entries(Diff(original, record, skipped), original, record, P, entry, T, other)
    BY <1>2, <1>3, <1>4 DEF T, Entries
  <1> QED BY <1>5

\* The values of a function of finite domain.
LEMMA ImageFinite ==
  ASSUME NEW S, IsFiniteSet(S), NEW f, DOMAIN f = S
  PROVE  IsFiniteSet({f[x] : x \in S})
  <1> DEFINE T == {f[x] : x \in S}
             g == [x \in S |-> f[x]]
  <1>1. g \in Surjection(S, T)
    BY DEF Surjection
  <1> QED BY <1>1, FS_Surjection

\* Pairs of the fields of two records are finitely many.
LEMMA CoverFinite ==
  ASSUME NEW P, NEW os, NEW rs, Numbers(os), Numbers(rs), Covers(P, os, rs)
  PROVE  IsFiniteSet(P)
  <1> DEFINE O == {p \in P : p.orig # 0}
             R == {p \in P : p.recon # 0}
  <1>1. IsFiniteSet(O)
    <2> DEFINE f == [p \in O |-> p.orig]
    <2>1. f \in Injection(O, os)
      BY DEF Injection, IsInjective, Covers
    <2> HIDE DEF f, O
    <2> QED BY <2>1, FS_Injection DEF Numbers
  <1>2. IsFiniteSet(R)
    <2> DEFINE f == [p \in R |-> p.recon]
    <2>1. f \in Injection(R, rs)
      BY DEF Injection, IsInjective, Covers
    <2> HIDE DEF f, R
    <2> QED BY <2>1, FS_Injection DEF Numbers
  <1>3. P = O \cup R
    BY DEF Covers
  <1> HIDE DEF O, R
  <1> QED BY <1>1, <1>2, <1>3, FS_Union

\* So are those of their control fields.
LEMMA ControlsFinite ==
  ASSUME NEW orig, AList(orig), NEW recon, AList(recon)
  PROVE  IsFiniteSet(ControlPairs(orig, recon))
  <1> DEFINE tags == {orig[i].tag : i \in DOMAIN orig} \cup {recon[i].tag : i \in DOMAIN recon}
             pair == [tag \in tags |-> Pair(LastWith(orig, tag), LastWith(recon, tag))]
  <1>1. IsFiniteSet({orig[i].tag : i \in DOMAIN orig}) /\ IsFiniteSet({recon[i].tag : i \in DOMAIN recon})
    <2> DEFINE o == [i \in DOMAIN orig |-> orig[i].tag]
               r == [i \in DOMAIN recon |-> recon[i].tag]
    <2>1. IsFiniteSet(DOMAIN orig) /\ IsFiniteSet(DOMAIN recon)
      BY ListNumbers DEF Numbers
    <2>2. IsFiniteSet({o[i] : i \in DOMAIN orig}) /\ IsFiniteSet({r[i] : i \in DOMAIN recon})
      BY <2>1, ImageFinite
    <2> QED BY <2>2
  <1>2. IsFiniteSet(tags)
    BY <1>1, FS_Union
  <1>3. IsFiniteSet({pair[tag] : tag \in tags})
    BY <1>2, ImageFinite
  <1>4. {pair[tag] : tag \in tags} = ControlPairs(orig, recon)
    BY DEF ControlPairs
  <1> QED BY <1>3, <1>4

\* EVERY FIELD ONCE: however diff_records pairs them, by lineage, by $a or by
\* order, a data field of either record is in exactly one entry of the diff.
THEOREM FieldsOnce ==
  ASSUME NEW original, AList(original.controls), AList(original.fields),
         NEW record, IsRecord(record), NEW skipped,
         NEW diff, diff = Diff(original, record, skipped)
  PROVE  /\ IsFiniteSet(diff)
         /\ \A i \in DOMAIN original.fields : Cardinality({d \in {d \in diff : ~d.control} : d.orig = i}) = 1
         /\ \A i \in DOMAIN record.fields : Cardinality({d \in {d \in diff : ~d.control} : d.recon = i}) = 1
  <1>0. PICK P, entry, T, other : Entries(diff, original, record, P, entry, T, other)
    BY DiffEntries
  <1>1. /\ Covers(P, DOMAIN original.fields, DOMAIN record.fields)
        /\ \A p \in P : entry[p].control = FALSE /\ entry[p].orig = p.orig /\ entry[p].recon = p.recon
        /\ \A t \in T : other[t].control = TRUE
        /\ diff = {other[t] : t \in T} \cup {entry[p] : p \in P}
        /\ T = ControlPairs(original.controls, record.controls)
    BY <1>0 DEF Entries
  <1>2. Numbers(DOMAIN original.fields) /\ Numbers(DOMAIN record.fields)
    BY ListNumbers DEF IsRecord
  <1>3. IsFiniteSet(diff)
    <2> DEFINE e == [p \in P |-> entry[p]]
               o == [t \in T |-> other[t]]
    <2>1. IsFiniteSet(P) /\ IsFiniteSet(T)
      BY <1>1, <1>2, CoverFinite, ControlsFinite DEF IsRecord
    <2>2. IsFiniteSet({e[p] : p \in P}) /\ IsFiniteSet({o[t] : t \in T})
      BY <2>1, ImageFinite
    <2>3. diff = {o[t] : t \in T} \cup {e[p] : p \in P}
      BY <1>1
    <2> HIDE DEF e, o
    <2> QED BY <2>2, <2>3, FS_Union
  <1>4. ASSUME NEW i \in DOMAIN original.fields
        PROVE  Cardinality({d \in {d \in diff : ~d.control} : d.orig = i}) = 1
    <2>1. PICK p \in P : p.orig = i
      BY <1>1 DEF Covers
    <2>2. \A q \in P : q.orig = i => q = p
      BY <1>1, <1>2, <2>1 DEF Covers, Numbers
    <2>3. {d \in {d \in diff : ~d.control} : d.orig = i} = {entry[p]}
      BY <1>1, <2>1, <2>2
    <2> QED BY <2>3, FS_Singleton
  <1>5. ASSUME NEW i \in DOMAIN record.fields
        PROVE  Cardinality({d \in {d \in diff : ~d.control} : d.recon = i}) = 1
    <2>1. PICK p \in P : p.recon = i
      BY <1>1 DEF Covers
    <2>2. \A q \in P : q.recon = i => q = p
      BY <1>1, <1>2, <2>1 DEF Covers, Numbers
    <2>3. {d \in {d \in diff : ~d.control} : d.recon = i} = {entry[p]}
      BY <1>1, <2>1, <2>2
    <2> QED BY <2>3, FS_Singleton
  <1> QED BY <1>3, <1>4, <1>5

-----------------------------------------------------------------------------
(* What the converter makes: lists of rows, each said to come from at most one field *)

\* A list, and a list of rows.
IsList(s) == \E R : s \in Seq(R)
IsRows(s) == \E R : s \in Seq(R) /\ \A r \in R : IsRow(r)

\* Lists chained are a list of what they were lists of.
LEMMA ChainedLists ==
  ASSUME NEW f, IsFiniteSet(DOMAIN f), NEW R, \A x \in DOMAIN f : f[x] \in Seq(R)
  PROVE  Chained(f) \in Seq(R)
  <1> DEFINE S == DOMAIN f
             pick(T) == CHOOSE x \in T : TRUE
             after(h, T) == IF T = {} THEN <<>> ELSE h[T \ {pick(T)}] \o f[pick(T)]
             Small(n) == {T \in SUBSET S : Cardinality(T) <= n}
             Solves(h, n) == h = [T \in Small(n) |-> after(h, T)]
             whole == CHOOSE h : h = [T \in SUBSET S |-> after(h, T)]
  <1>1. Chained(f) = whole[S]
    BY DEF Chained, FoldSet, MapThenFoldSet
  <1>2. \A T \in SUBSET S : IsFiniteSet(T) /\ Cardinality(T) \in Nat
    BY FS_Subset, FS_CardinalityType
  <1>3. \A T \in SUBSET S : T # {} => /\ pick(T) \in T /\ pick(T) \in S /\ T \ {pick(T)} \in SUBSET S
                                      /\ Cardinality(T \ {pick(T)}) = Cardinality(T) - 1
    BY <1>2, FS_RemoveElement
  <1> HIDE DEF pick
  <1>4. ASSUME NEW n \in Nat, NEW h, Solves(h, n)
        PROVE  \E k : Solves(k, n + 1)
    <2> DEFINE k == [T \in Small(n + 1) |-> after(h, T)]
    <2>1. \A T \in Small(n) : T \in Small(n + 1)
      BY <1>2
    <2>2. \A T \in Small(n) : k[T] = h[T]
      BY <1>4, <2>1
    <2>3. \A T \in Small(n + 1) : T # {} => T \ {pick(T)} \in Small(n)
      BY <1>2, <1>3
    <2>4. \A T \in Small(n + 1) : after(k, T) = after(h, T)
      <3> HIDE DEF k, Small
      <3> QED BY <2>2, <2>3
    <2>5. Solves(k, n + 1)
      <3> HIDE DEF after
      <3> QED BY <2>4
    <2> QED BY <2>5
  <1>5. \E h : Solves(h, 0)
    <2> DEFINE h == [T \in Small(0) |-> <<>>]
    <2>1. \A T \in Small(0) : T = {}
      BY <1>2, FS_EmptySet
    <2>2. Solves(h, 0)
      BY <2>1
    <2> QED BY <2>2
  <1> HIDE DEF Solves
  <1>6. \A n \in Nat : \E h : Solves(h, n)
    <2> DEFINE Bad == {n \in Nat : ~\E h : Solves(h, n)}
    <2> SUFFICES ASSUME Bad # {} PROVE FALSE
      OBVIOUS
    <2>1. PICK n \in Bad : \A k \in Bad : n <= k
      BY LeastExists DEF IsLeast
    <2>2. n - 1 \in Nat /\ n - 1 \notin Bad /\ (n - 1) + 1 = n
      BY <1>5, <2>1
    <2> QED BY <1>4, <2>1, <2>2
  <1>7. PICK h : h = [T \in SUBSET S |-> after(h, T)]
    <2>1. Small(Cardinality(S)) = SUBSET S
      BY <1>2, FS_Subset
    <2>2. PICK h : Solves(h, Cardinality(S))
      BY <1>2, <1>6
    <2> QED BY <2>1, <2>2 DEF Solves
  <1>8. whole = [T \in SUBSET S |-> after(whole, T)]
    BY <1>7
  <1> HIDE DEF whole
  <1>9. \A T \in SUBSET S : whole[T] \in Seq(R)
    <2> DEFINE Bad == {n \in Nat : \E T \in SUBSET S : Cardinality(T) = n /\ whole[T] \notin Seq(R)}
    <2> SUFFICES ASSUME Bad # {} PROVE FALSE
      BY <1>2
    <2>1. PICK n \in Bad : \A k \in Bad : n <= k
      BY LeastExists DEF IsLeast
    <2>2. PICK T \in SUBSET S : Cardinality(T) = n /\ whole[T] \notin Seq(R)
      BY <2>1
    <2>3. whole[T] = after(whole, T)
      BY <1>8
    <2>4. T # {}
      BY <2>2, <2>3
    <2>5. whole[T \ {pick(T)}] \in Seq(R)
      <3>1. Cardinality(T \ {pick(T)}) < n /\ T \ {pick(T)} \in SUBSET S /\ Cardinality(T \ {pick(T)}) \in Nat
        BY <1>2, <1>3, <2>2, <2>4
      <3> QED BY <2>1, <3>1
    <2> QED BY <1>3, <2>2, <2>3, <2>4, <2>5
  <1> QED BY <1>1, <1>9

\* A list of lists, too, whatever FlattenSeq's recursion goes through.
LEMMA FlattenedLists ==
  ASSUME NEW R, NEW s \in Seq(Seq(R))
  PROVE  FlattenSeq(s) \in Seq(R)
  <1> DEFINE N == Len(s)
             after(h, i) == IF i = 1 THEN s[i] ELSE h[i - 1] \o s[i]
             Solves(h, n) == h = [i \in 1..n |-> after(h, i)]
             whole == CHOOSE h : h = [i \in 1..N |-> after(h, i)]
  <1>1. FlattenSeq(s) = IF N = 0 THEN s ELSE whole[N]
    BY DEF FlattenSeq
  <1>2. N \in Nat /\ \A i \in 1..N : s[i] \in Seq(R)
    OBVIOUS
  <1>3. CASE N = 0
    BY <1>1, <1>3
  <1>4. CASE N # 0
    <2>1. ASSUME NEW n \in Nat, NEW h, Solves(h, n)
          PROVE  \E k : Solves(k, n + 1)
      <3> DEFINE k == [i \in 1..n + 1 |-> after(h, i)]
      <3>1. \A i \in 1..n : k[i] = h[i]
        <4>1. \A i \in 1..n : h[i] = after(h, i)
          BY <2>1
        <4>2. \A i \in 1..n : i \in 1..n + 1
          OBVIOUS
        <4> HIDE DEF after
        <4> QED BY <4>1, <4>2
      <3>2. \A i \in 1..n + 1 : i # 1 => i - 1 \in 1..n
        OBVIOUS
      <3>3. \A i \in 1..n + 1 : after(k, i) = after(h, i)
        <4> HIDE DEF k
        <4> QED BY <3>1, <3>2
      <3>4. Solves(k, n + 1)
        <4> HIDE DEF after
        <4> QED BY <3>3
      <3> QED BY <3>4
    <2>2. \E h : Solves(h, 0)
      <3> DEFINE h == [i \in 1..0 |-> <<>>]
      <3>1. Solves(h, 0)
        OBVIOUS
      <3> QED BY <3>1
    <2> HIDE DEF Solves
    <2>3. \A n \in Nat : \E h : Solves(h, n)
      <3> DEFINE Bad == {n \in Nat : ~\E h : Solves(h, n)}
      <3> SUFFICES ASSUME Bad # {} PROVE FALSE
        OBVIOUS
      <3>1. PICK n \in Bad : \A k \in Bad : n <= k
        BY LeastExists DEF IsLeast
      <3>2. n \in Nat /\ n # 0
        BY <2>2, <3>1
      <3>3. n - 1 \in Nat /\ ~(n <= n - 1) /\ (n - 1) + 1 = n
        BY <3>2
      <3>4. \E h : Solves(h, n - 1)
        BY <3>1, <3>3
      <3> QED BY <2>1, <3>1, <3>3, <3>4
    <2>4. PICK h : h = [i \in 1..N |-> after(h, i)]
      BY <1>2, <2>3 DEF Solves
    <2>5. whole = [i \in 1..N |-> after(whole, i)]
      BY <2>4
    <2> HIDE DEF whole
    <2>6. \A i \in 1..N : whole[i] \in Seq(R)
      <3> DEFINE Bad == {i \in 1..N : whole[i] \notin Seq(R)}
      <3> SUFFICES ASSUME Bad # {} PROVE FALSE
        OBVIOUS
      <3>0. Bad \subseteq Nat
        BY <1>2
      <3>1. PICK n \in Bad : \A k \in Bad : n <= k
        BY <3>0, LeastExists DEF IsLeast
      <3>2. whole[n] = after(whole, n) /\ n \in 1..N
        BY <2>5, <3>1
      <3>3. n # 1
        BY <1>2, <3>1, <3>2
      <3>4. n - 1 \in 1..N /\ ~(n <= n - 1)
        BY <1>2, <3>2, <3>3
      <3>5. whole[n - 1] \in Seq(R)
        BY <3>1, <3>4
      <3>6. after(whole, n) = whole[n - 1] \o s[n]
        BY <3>3
      <3> HIDE DEF after
      <3>7. whole[n] \in Seq(R)
        BY <1>2, <3>2, <3>5, <3>6
      <3> QED BY <3>1, <3>7
    <2> QED BY <1>1, <1>2, <1>4, <2>6
  <1> QED BY <1>3, <1>4

\* Joining lists of rows.
LEMMA RowsJoin ==
  /\ IsRows(<<>>)
  /\ \A r : IsRow(r) => IsRows(<<r>>)
  /\ \A s, t : IsRows(s) /\ IsRows(t) => IsRows(s \o t)
  <1>1. IsRows(<<>>)
    <2> DEFINE none == {}
    <2>1. <<>> \in Seq(none) /\ \A r \in none : IsRow(r)
      OBVIOUS
    <2> HIDE DEF none
    <2> QED BY <2>1, Zenon DEF IsRows
  <1>2. ASSUME NEW r, IsRow(r) PROVE IsRows(<<r>>)
    <2> DEFINE one == {r}
    <2>1. <<r>> \in Seq(one) /\ \A x \in one : IsRow(x)
      BY <1>2
    <2> HIDE DEF one
    <2> QED BY <2>1, Zenon DEF IsRows
  <1>3. ASSUME NEW s, NEW t, IsRows(s), IsRows(t) PROVE IsRows(s \o t)
    <2>1. PICK R : s \in Seq(R) /\ \A r \in R : IsRow(r)
      BY <1>3 DEF IsRows
    <2>2. PICK T : t \in Seq(T) /\ \A r \in T : IsRow(r)
      BY <1>3 DEF IsRows
    <2>3. s \in Seq(R \cup T) /\ t \in Seq(R \cup T)
      BY <2>1, <2>2
    <2>4. s \o t \in Seq(R \cup T) /\ \A r \in R \cup T : IsRow(r)
      BY <2>1, <2>2, <2>3
    <2> QED BY <2>4 DEF IsRows
  <1> QED BY <1>1, <1>2, <1>3

\* The rows of each member of a finite set.
LEMMA RowsChained ==
  ASSUME NEW f, IsFiniteSet(DOMAIN f), \A x \in DOMAIN f : IsRows(f[x])
  PROVE  IsRows(Chained(f))
  <1> DEFINE R == UNION {{f[x][i] : i \in DOMAIN f[x]} : x \in DOMAIN f}
  <1>1. ASSUME NEW x \in DOMAIN f
        PROVE  f[x] \in Seq(R) /\ \A i \in DOMAIN f[x] : IsRow(f[x][i])
    <2>1. PICK T : f[x] \in Seq(T) /\ \A r \in T : IsRow(r)
      BY <1>1 DEF IsRows
    <2>2. \A i \in DOMAIN f[x] : f[x][i] \in R
      OBVIOUS
    <2> HIDE DEF R
    <2>3. f[x] \in Seq(R)
      BY <2>1, <2>2
    <2> QED BY <2>1, <2>3
  <1>2. \A r \in R : IsRow(r)
    BY <1>1
  <1> HIDE DEF R
  <1>3. Chained(f) \in Seq(R)
    BY <1>1, ChainedLists
  <1> QED BY <1>2, <1>3 DEF IsRows

AtMostOne(S) == \A t, u \in S : t = u

\* What _emit_datafield writes is a row.
LEMMA RowMade ==
  \A tag, ind, subs, src, bypass : AtMostOne(src) => IsRow(Row(tag, ind, subs, src, bypass))
  BY DEF Row, IsRow, AtMostOne

LEMMA PlainMade ==
  /\ \A tag, ind, subs, src : AtMostOne(src) => IsRow(Plain(tag, ind, subs, src))
  /\ \A tag, ind, subs : IsRow(Plain(tag, ind, subs, {}))
  BY RowMade DEF Plain, AtMostOne

\* What a row can be said to come from.
LEMMA OneLineage ==
  /\ \A S : AtMostOne(Maybe(S)) /\ IsFiniteSet(Maybe(S)) /\ Maybe(S) \subseteq S
  /\ \A S, T : AtMostOne(S) /\ AtMostOne(T) => AtMostOne(OrElse(S, T))
  /\ \A c, n : AtMostOne(Lineage(c, n))
  /\ \A c, S : AtMostOne(S) => AtMostOne(LineageOf(c, S))
  <1>1. \A S : AtMostOne(Maybe(S)) /\ Maybe(S) \subseteq S
    BY DEF Maybe, AtMostOne
  <1>2. \A S : IsFiniteSet(Maybe(S))
    BY FS_EmptySet, FS_Singleton DEF Maybe
  <1>3. \A S, T : AtMostOne(S) /\ AtMostOne(T) => AtMostOne(OrElse(S, T))
    BY DEF OrElse
  <1>4. ASSUME NEW c, NEW n PROVE AtMostOne(Lineage(c, n))
    <2>1. AtMostOne({Tokens[t] : t \in Said(c, n, "prov:fromMarcField")})
      BY <1>1 DEF Said, AtMostOne
    <2>2. AtMostOne(IF n \in DOMAIN c.ranks THEN {c.ranks[n]} ELSE {})
      BY DEF AtMostOne
    <2> QED BY <1>3, <2>1, <2>2 DEF Lineage
  <1>5. ASSUME NEW c, NEW S, AtMostOne(S) PROVE AtMostOne(LineageOf(c, S))
    BY <1>4, <1>5 DEF LineageOf, AtMostOne
  <1> QED BY <1>1, <1>2, <1>3, <1>4, <1>5

\* A context of a finite graph, and what is finite in it.
InGraph(c) == DOMAIN c = {"g", "m", "ranks"} /\ IsFiniteSet(c.g)

\* What a finite graph says of a node is finite.
LEMMA FiniteThere ==
  ASSUME NEW c, InGraph(c)
  PROVE  /\ \A n, p : IsFiniteSet(Values(c, n, p))
         /\ \A S, p : IsFiniteSet(Across(c, S, p))
         /\ \A p, o : IsFiniteSet(Subjects(c.g, p, o))
         /\ \A n, p : IsFiniteSet(Said(c, n, p))
         /\ \A n : IsFiniteSet(FirstLabel(c, n))
  <1> DEFINE first == {t[1] : t \in c.g}
             third == {t[3] : t \in c.g}
  <1>1. IsFiniteSet(first)
    <2> DEFINE f == [t \in c.g |-> t[1]]
    <2>1. IsFiniteSet({f[t] : t \in c.g})
      BY ImageFinite DEF InGraph
    <2> QED BY <2>1
  <1>2. IsFiniteSet(third)
    <2> DEFINE f == [t \in c.g |-> t[3]]
    <2>1. IsFiniteSet({f[t] : t \in c.g})
      BY ImageFinite DEF InGraph
    <2> QED BY <2>1
  <1>3. \A n, p : Values(c, n, p) \subseteq third
    BY DEF Values, Objects
  <1>4. \A S, p : Across(c, S, p) \subseteq third
    BY <1>3 DEF Across
  <1>5. \A p, o : Subjects(c.g, p, o) \subseteq first
    BY DEF Subjects
  <1> HIDE DEF first, third
  <1>6. \A n, p : IsFiniteSet(Said(c, n, p))
    BY OneLineage DEF Said
  <1>7. \A n : IsFiniteSet(FirstLabel(c, n))
    BY <1>6 DEF FirstLabel, OrElse
  <1> QED BY <1>1, <1>2, <1>3, <1>4, <1>5, <1>6, <1>7, FS_Subset

LEMMA FiniteParts ==
  /\ \A S : IsFiniteSet(S) => IsFiniteSet(Texts(S)) /\ IsFiniteSet(Uris(S)) /\ IsFiniteSet(Literals(S))
  /\ \A S, T : IsFiniteSet(S) => IsFiniteSet(S \ T)
  /\ \A S, T : IsFiniteSet(S) /\ IsFiniteSet(T) => IsFiniteSet(OrElse(S, T))
  <1>1. ASSUME NEW S, IsFiniteSet(S)
        PROVE  IsFiniteSet(Texts(S)) /\ IsFiniteSet(Uris(S)) /\ IsFiniteSet(Literals(S))
    <2>1. IsFiniteSet(Uris(S)) /\ IsFiniteSet(Literals(S))
      BY <1>1, FS_Subset DEF Uris, Literals
    <2> DEFINE f == [t \in Literals(S) |-> Text(t)]
    <2>2. IsFiniteSet({f[t] : t \in Literals(S)})
      BY <2>1, ImageFinite
    <2> QED BY <2>1, <2>2 DEF Texts
  <1>2. \A S, T : IsFiniteSet(S) => IsFiniteSet(S \ T)
    BY FS_Difference
  <1> QED BY <1>1, <1>2 DEF OrElse

\* Emitters of the converter, one by one: each makes a list of rows.
LEMMA IdentifierRows ==
  ASSUME NEW c, InGraph(c), NEW type, NEW tag, NEW ind
  PROVE  IsRows(Identifiers(c, type, tag, ind))
  <1> DEFINE S == {n \in Values(c, c.m, "bffi:identifiedBy") : IsA(c, n, type)}
             rows(n) == ForEach(Texts(Values(c, n, "rdf:value")),
                                LAMBDA v : <<Plain(tag, ind, <<<<"a", v>>>> \o (IF tag = "020" THEN Qualifiers(c, n) ELSE <<>>), Lineage(c, n))>>)
  <1>1. IsFiniteSet(S)
    BY FiniteThere, FS_Subset
  <1>2. \A n \in S : IsRows(rows(n))
    BY FiniteThere, FiniteParts, RowsChained, RowsJoin, PlainMade, OneLineage DEF ForEach
  <1> HIDE DEF rows, S
  <1>3. IsRows(ForEach(S, rows))
    BY <1>1, <1>2, RowsChained DEF ForEach
  <1> QED BY <1>3 DEF Identifiers, S, rows

LEMMA NumberRows ==
  ASSUME NEW c, InGraph(c)
  PROVE  /\ IsRows(Isbns(c)) /\ IsRows(Issns(c)) /\ IsRows(PublisherNumbers(c)) /\ IsRows(OtherStdIdentifiers(c))
  <1> DEFINE eans == {n \in Values(c, c.m, "bffi:identifiedBy") : IsA(c, n, Bf("Ean"))}
             rest == [c EXCEPT !.g = {t \in @ : t[1] \notin eans}]
  <1>1. InGraph(rest)
    <2>1. DOMAIN rest = DOMAIN c /\ rest.g = {t \in c.g : t[1] \notin eans}
      BY DEF InGraph
    <2> HIDE DEF eans, rest
    <2> QED BY <2>1, FS_Subset DEF InGraph
  <1>2. IsRows(Identifiers(rest, Bf("OtherIdentifier"), "024", "8 "))
    <2> HIDE DEF rest
    <2> QED BY <1>1, IdentifierRows
  <1>3. IsRows(OtherStdIdentifiers(c))
    BY <1>2, IdentifierRows, RowsJoin DEF OtherStdIdentifiers
  <1> QED BY <1>3, IdentifierRows DEF Isbns, Issns, PublisherNumbers

LEMMA ClassificationRows ==
  ASSUME NEW c, InGraph(c)
  PROVE  IsRows(Classifications(c))
  <1> DEFINE code(n) == Maybe({Spell("lower", x) : x \in Texts(Across(c, Values(c, n, "bf:source"), "bffi:code"))})
             rows(n) == IF Said(c, n, "bffi:classificationPortion") = {} \/ code(n) = {}
                             \/ ~code(n) \subseteq DOMAIN ClassificationTags THEN <<>>
                        ELSE <<Plain(ClassificationTags[The(code(n))], "  ",
                                     Sub("a", Said(c, n, "bffi:classificationPortion")) \o Sub("2", code(n)),
                                     Lineage(c, n))>>
  <1>1. \A n : IsRows(rows(n))
    <2> HIDE DEF code
    <2> QED BY RowsJoin, PlainMade, OneLineage
  <1> HIDE DEF rows
  <1>2. IsRows(ForEach(Across(c, WorkOf(c), "bffi:classification"), rows))
    BY <1>1, FiniteThere, RowsChained DEF ForEach
  <1> QED BY <1>2 DEF Classifications, rows, code

LEMMA SystemNumberRows ==
  ASSUME NEW c, InGraph(c)
  PROVE  IsRows(SystemControlNumbers(c))
  <1> DEFINE assigner(n) == Maybe(Values(c, n, "bffi:assigner"))
             code(n) == UNION {AssignerCode(c, a) : a \in assigner(n)}
             prefix(n) == IF code(n) = {} THEN "" ELSE "(" \o The(code(n)) \o ")"
             row(n, v) == Plain("035", "  ", <<<<"a", prefix(n) \o v>>>>, Lineage(c, n))
             rows(n) == ForEach(Said(c, n, "rdf:value"), LAMBDA v : <<row(n, v)>>)
             S == {n \in Values(c, c.m, "bffi:identifiedBy") : IsA(c, n, Bffi("Local")) /\ assigner(n) # {}}
  <1>1. \A n, v : IsRow(row(n, v))
    BY PlainMade, OneLineage
  <1>2. IsFiniteSet(S)
    BY FiniteThere, FS_Subset
  <1>3. SystemControlNumbers(c) = ForEach(S, rows)
    BY DEF SystemControlNumbers
  <1> HIDE DEF row, S
  <1>4. \A n : IsRows(rows(n))
    BY <1>1, FiniteThere, RowsChained, RowsJoin DEF ForEach
  <1> HIDE DEF rows
  <1> QED BY <1>2, <1>3, <1>4, RowsChained DEF ForEach

LEMMA OwnRows ==
  ASSUME NEW c, InGraph(c)
  PROVE  IsRows(SourceMarker(c)) /\ IsRows(Languages(c)) /\ IsRows(EditionStatement(c))
  <1>1. IsRows(SourceMarker(c))
    BY RowsJoin, PlainMade DEF SourceMarker
  <1>2. IsRows(Languages(c))
    BY RowsJoin, PlainMade DEF Languages
  <1>3. IsRows(EditionStatement(c))
    BY FiniteThere, FiniteParts, RowsChained, RowsJoin, PlainMade DEF EditionStatement, ForEach
  <1> QED BY <1>1, <1>2, <1>3

\* The first row alone.
LEMMA RowsOnly ==
  ASSUME NEW s, IsRows(s)
  PROVE  IsRows(Only(s))
  <1>1. PICK R : s \in Seq(R) /\ \A r \in R : IsRow(r)
    BY DEF IsRows
  <1>2. CASE s # <<>>
    <2>1. IsRow(Head(s))
      <3> HIDE DEF IsRow
      <3> QED BY <1>1, <1>2
    <2> QED BY <1>2, <2>1, RowsJoin DEF Only
  <1>3. CASE s = <<>>
    BY <1>3, RowsJoin DEF Only
  <1> QED BY <1>2, <1>3

\* The rows of agents and of their contributions.
LEMMA AgentRowsMade ==
  ASSUME NEW c, InGraph(c), NEW contrib
  PROVE  IsRows(AgentRows(c, contrib))
  <1> DEFINE primary == IsPrimary(c, contrib)
             row(a, name) == Row(IF primary THEN "100" ELSE AddedEntryTag(a), "1 ",
                                 name \o RoleSubs(c, contrib) \o AgentIds(c, a),
                                 IF primary THEN {} ELSE Lineage(c, a), NameSubs(c, a) # {})
             rows(a) == ForEach(Name(c, a), LAMBDA name : <<row(a, name)>>)
  <1>1. \A a, name : IsRow(row(a, name))
    BY RowMade, OneLineage DEF AtMostOne
  <1>2. \A a : IsFiniteSet(Name(c, a))
    <2> SUFFICES ASSUME NEW a PROVE IsFiniteSet(Name(c, a))
      OBVIOUS
    <2> DEFINE f == [l \in FirstLabel(c, a) \ {""} |-> Sub("a", {l})]
    <2>1. IsFiniteSet(FirstLabel(c, a) \ {""})
      BY FiniteThere, FiniteParts
    <2>2. IsFiniteSet({f[l] : l \in FirstLabel(c, a) \ {""}})
      BY <2>1, ImageFinite
    <2>3. IsFiniteSet(NameSubs(c, a))
      BY OneLineage DEF NameSubs
    <2> QED BY <2>2, <2>3, FiniteParts DEF Name
  <1>3. AgentRows(c, contrib) = ForEach(Values(c, contrib, "bffi:agent"), rows)
    BY DEF AgentRows
  <1> HIDE DEF row
  <1>4. \A a : IsRows(rows(a))
    BY <1>1, <1>2, RowsChained, RowsJoin DEF ForEach
  <1> HIDE DEF rows
  <1> QED BY <1>3, <1>4, FiniteThere, RowsChained DEF ForEach

LEMMA ContributionRows ==
  ASSUME NEW c, InGraph(c)
  PROVE  IsRows(PrimaryContribution(c)) /\ IsRows(AddedEntries(c))
  <1> DEFINE S == {n \in Across(c, WorkOf(c), "bffi:contribution") : IsPrimary(c, n)}
             T == {n \in Across(c, Expression(c), "bffi:contribution") : ~IsPrimary(c, n)}
  <1>1. IsFiniteSet(S) /\ IsFiniteSet(T)
    BY FiniteThere, FS_Subset
  <1>2. PrimaryContribution(c) = Only(ForEach(S, LAMBDA n : AgentRows(c, n))) /\ AddedEntries(c) = ForEach(T, LAMBDA n : AgentRows(c, n))
    BY DEF PrimaryContribution, AddedEntries
  <1> HIDE DEF S, T
  <1>3. IsRows(ForEach(S, LAMBDA n : AgentRows(c, n))) /\ IsRows(ForEach(T, LAMBDA n : AgentRows(c, n)))
    BY <1>1, AgentRowsMade, RowsChained DEF ForEach
  <1> QED BY <1>2, <1>3, RowsOnly

\* A list of lists of rows made one.
LEMMA RowsFlattened ==
  ASSUME NEW s, AList(s), NEW f, f = [i \in DOMAIN s |-> f[i]], \A i \in DOMAIN s : IsRows(f[i])
  PROVE  IsRows(FlattenSeq(f))
  <1> DEFINE R == UNION {{f[i][k] : k \in DOMAIN f[i]} : i \in DOMAIN s}
  <1>1. ASSUME NEW i \in DOMAIN s
        PROVE  f[i] \in Seq(R) /\ \A k \in DOMAIN f[i] : IsRow(f[i][k])
    <2>1. PICK T : f[i] \in Seq(T) /\ \A r \in T : IsRow(r)
      BY <1>1 DEF IsRows
    <2>2. \A k \in DOMAIN f[i] : f[i][k] \in R
      OBVIOUS
    <2> HIDE DEF R
    <2>3. f[i] \in Seq(R)
      BY <2>1, <2>2
    <2> QED BY <2>1, <2>3
  <1>2. \A r \in R : IsRow(r)
    BY <1>1
  <1> HIDE DEF R
  <1>3. f \in Seq(Seq(R))
    <2>1. PICK n \in Nat : DOMAIN s = 1..n
      BY DEF AList
    <2>2. f \in [1..n -> Seq(R)]
      BY <1>1, <2>1
    <2> QED BY <2>2
  <1>4. FlattenSeq(f) \in Seq(R)
    BY <1>3, FlattenedLists
  <1> QED BY <1>2, <1>4 DEF IsRows

\* Rows are numbered from 1.
LEMMA RowsAreAList ==
  ASSUME NEW s, IsRows(s)
  PROVE  AList(s) /\ \A i \in DOMAIN s : IsRow(s[i])
  <1>1. PICK R : s \in Seq(R) /\ \A r \in R : IsRow(r)
    BY DEF IsRows
  <1> HIDE DEF IsRow
  <1> QED BY <1>1 DEF AList

\* The entries of components without their repetitions.
LEMMA FirstRows ==
  ASSUME NEW rows, IsRows(rows)
  PROVE  IsRows(FirstOfEach(rows))
  <1> DEFINE f == [i \in DOMAIN rows |->
                     IF \E k \in 1..i - 1 : rows[k].subs[1] = rows[i].subs[1] THEN <<>> ELSE <<rows[i]>>]
  <1>1. AList(rows) /\ \A i \in DOMAIN rows : IsRow(rows[i])
    BY RowsAreAList
  <1>2. f = [i \in DOMAIN rows |-> f[i]] /\ \A i \in DOMAIN rows : IsRows(f[i])
    BY <1>1, RowsJoin
  <1> HIDE DEF f
  <1>3. IsRows(FlattenSeq(f))
    BY <1>1, <1>2, RowsFlattened
  <1> QED BY <1>3 DEF FirstOfEach, f

LEMMA AnalyticalRows ==
  ASSUME NEW c, InGraph(c)
  PROVE  IsRows(AnalyticalEntries(c))
  <1> DEFINE agents(component) == Across(c, Values(c, component, "bffi:contribution"), "bffi:agent")
             row(k, l) == Plain("700", "12", <<<<"a", l>>>>, Lineage(c, k))
             of(k, a) == ForEach(FirstLabel(c, a) \ {""}, LAMBDA l : <<row(k, l)>>)
             rows(k) == ForEach(agents(k), LAMBDA a : of(k, a))
  <1>1. \A k, l : IsRow(row(k, l))
    BY PlainMade, OneLineage
  <1>2. AnalyticalEntries(c) = FirstOfEach(ForEach(Across(c, Expression(c), "bffi:aggregates"), rows))
    BY DEF AnalyticalEntries
  <1> HIDE DEF row
  <1>3. \A k, a : IsRows(of(k, a))
    BY <1>1, FiniteThere, FiniteParts, RowsChained, RowsJoin DEF ForEach
  <1> HIDE DEF of
  <1>4. \A k : IsRows(rows(k))
    BY <1>3, FiniteThere, RowsChained DEF ForEach
  <1> HIDE DEF rows
  <1>5. IsRows(ForEach(Across(c, Expression(c), "bffi:aggregates"), rows))
    BY <1>4, FiniteThere, RowsChained DEF ForEach
  <1> QED BY <1>2, <1>5, FirstRows

\* The titles.
LEMMA UniformTitleRows ==
  ASSUME NEW c, InGraph(c)
  PROVE  IsRows(UniformTitle(c))
  <1> DEFINE row(hub, subs, bypass) ==
               IF subs = <<>> THEN <<>>
               ELSE IF RawKind(hub, "Hub", "130") THEN <<Row("130", "0 ", subs, Lineage(c, hub), bypass)>>
               ELSE <<Row("240", "10", subs, Lineage(c, hub), bypass)>>
             keyed(hub) == ForEach(Maybe(KeyTexts(c, hub)), LAMBDA k : row(hub, UniformSubs(c, hub, k), TRUE))
             rows(hub) == IF keyed(hub) # <<>> THEN keyed(hub)
                          ELSE IF Structured(c, hub) # <<>> THEN <<>> ELSE row(hub, HubTitle(c, hub), FALSE)
             S == {n \in Across(c, Expression(c), "bffi:title") : IsA(c, n, Bf("Hub"))}
  <1>1. \A hub, subs, bypass : IsRows(row(hub, subs, bypass))
    BY RowsJoin, RowMade, OneLineage
  <1>2. IsFiniteSet(S)
    BY FiniteThere, FS_Subset
  <1>3. UniformTitle(c) = Only(ForEach(S, rows))
    BY DEF UniformTitle
  <1> HIDE DEF row, S
  <1>4. \A hub : IsRows(keyed(hub))
    BY <1>1, OneLineage, RowsChained DEF ForEach
  <1> HIDE DEF keyed
  <1>5. \A hub : IsRows(rows(hub))
    BY <1>1, <1>4, RowsJoin
  <1> HIDE DEF rows
  <1>6. IsRows(ForEach(S, rows))
    BY <1>2, <1>5, RowsChained DEF ForEach
  <1> QED BY <1>3, <1>6, RowsOnly

LEMMA TitleRows ==
  ASSUME NEW c, InGraph(c)
  PROVE  IsRows(Title(c)) /\ IsRows(VariantTitle(c))
  <1>1. IsRows(Title(c))
    BY RowsJoin, PlainMade, OneLineage DEF Title
  <1>2. IsRows(VariantTitle(c))
    <2> DEFINE S == {n \in Across(c, Expression(c), "bffi:title") : IsA(c, n, Bf("VariantTitle"))}
               rows(n) == ForEach(Said(c, n, "bffi:mainTitle"),
                                  LAMBDA t : <<Plain("246", "3 ", <<<<"a", t>>>>, Lineage(c, n))>>)
    <2>1. IsFiniteSet(S)
      BY FiniteThere, FS_Subset
    <2>2. \A n : IsRows(rows(n))
      BY FiniteThere, RowsChained, RowsJoin, PlainMade, OneLineage DEF ForEach
    <2>3. VariantTitle(c) = ForEach(S, rows)
      BY DEF VariantTitle
    <2> HIDE DEF S, rows
    <2> QED BY <2>1, <2>2, <2>3, RowsChained DEF ForEach
  <1> QED BY <1>1, <1>2

LEMMA RelatedRows ==
  ASSUME NEW c, InGraph(c)
  PROVE  IsRows(RelatedTitles(c))
  <1> DEFINE tag(n) == IF IsA(c, n, Bf("Hub")) THEN {"730"} ELSE IF IsA(c, n, Bf("Work")) THEN {"740"} ELSE {}
             row(n, subs) == IF subs[1] = <<>> THEN <<>>
                             ELSE ForEach(tag(n), LAMBDA t : <<Row(t, "0 ", subs[1], Lineage(c, n), subs[2])>>)
             related(n) == ForEach({RelatedSubs(c, n)}, LAMBDA subs : row(n, subs))
             rows(n) == IF IsA(c, n, Bf("Hub")) /\ Analytical(c, n) # <<>> THEN Analytical(c, n) ELSE related(n)
             all(rel) == ForEach(Values(c, rel, "bffi:associatedResource"), rows)
  <1>1. \A n : IsFiniteSet(tag(n))
    BY FS_EmptySet, FS_Singleton
  <1>2. RelatedTitles(c) = ForEach(Values(c, c.m, "bffi:relation"), all)
    BY DEF RelatedTitles
  <1> HIDE DEF tag
  <1>3. \A n, subs : IsRows(row(n, subs))
    BY <1>1, RowsChained, RowsJoin, RowMade, OneLineage DEF ForEach
  <1> HIDE DEF row
  <1>4. \A n : IsRows(related(n))
    BY <1>3, FS_Singleton, RowsChained DEF ForEach
  <1>5. ASSUME NEW n PROVE IsRows(Analytical(c, n))
    <2> DEFINE made(k) == LET subs == Without({"6", "9"}, KeySubs(k))
                          IN IF subs = <<>> THEN <<>>
                             ELSE <<Row("700", MarcKeys[k].ind1 \o "2", subs, Lineage(c, n), TRUE)>>
               S == {k \in Maybe(KeyTexts(c, n)) : MarcKeys[k].tag = "700" /\ MarcKeys[k].ind2 = "2"}
    <2>1. IsFiniteSet(S)
      BY OneLineage, FS_Subset
    <2>2. \A k : IsRows(made(k))
      BY RowsJoin, RowMade, OneLineage
    <2>3. Analytical(c, n) = ForEach(S, made)
      BY DEF Analytical
    <2> HIDE DEF S, made
    <2> QED BY <2>1, <2>2, <2>3, RowsChained DEF ForEach
  <1> HIDE DEF related
  <1>6. \A n : IsRows(rows(n))
    BY <1>4, <1>5
  <1> HIDE DEF rows
  <1>7. \A rel : IsRows(all(rel))
    BY <1>6, FiniteThere, RowsChained DEF ForEach
  <1> HIDE DEF all
  <1> QED BY <1>2, <1>7, FiniteThere, RowsChained DEF ForEach

\* The emitters of a Manifestation's description.
LEMMA PublicationRows ==
  ASSUME NEW c, InGraph(c)
  PROVE  IsRows(PublicationStatement(c))
  <1> DEFINE subs(n) == Sub("a", Said(c, n, "bflc:simplePlace")) \o Sub("b", Said(c, n, "bflc:simpleAgent"))
                        \o Sub("c", Said(c, n, "bflc:simpleDate"))
             kind(n) == Maybe({ProvisionKinds[k] : k \in {k \in DOMAIN ProvisionKinds : IsA(c, n, Bf(k))}})
             row(n) == IF subs(n) = <<>> THEN <<>>
                       ELSE <<Plain("264", " " \o The(OrElse(kind(n), {"1"})), subs(n), Lineage(c, n))>>
             S == {n \in Values(c, c.m, "bffi:provisionActivity") : ~IsLit(n)}
             structured == ForEach(S, row)
             inLabel == UNION {Found("in parentheses", t) : t \in Texts(Values(c, c.m, "skos:prefLabel"))}
             flat == OrElse(Said(c, c.m, "bffi:publicationStatement"), Maybe(inLabel))
             whole == ForEach(flat, LAMBDA t : <<Plain("264", " 1", <<<<"c", t>>>>, {})>>)
  <1>1. IsFiniteSet(S)
    BY FiniteThere, FS_Subset
  <1>2. IsFiniteSet(flat)
    <2> HIDE DEF inLabel
    <2> QED BY FiniteThere, FiniteParts, OneLineage
  <1>3. \A n : IsRows(row(n))
    <2> HIDE DEF subs, kind
    <2> QED BY RowsJoin, PlainMade, OneLineage
  <1>4. PublicationStatement(c) = IF structured # <<>> THEN structured ELSE whole
    BY DEF PublicationStatement
  <1> HIDE DEF S, row, flat
  <1>5. IsRows(structured)
    BY <1>1, <1>3, RowsChained DEF ForEach
  <1>6. IsRows(whole)
    BY <1>2, RowsChained, RowsJoin, PlainMade DEF ForEach
  <1> HIDE DEF structured, whole
  <1> QED BY <1>4, <1>5, <1>6

LEMMA ExtentRows ==
  ASSUME NEW c, InGraph(c)
  PROVE  IsRows(Extent(c))
  <1> DEFINE extent == Maybe(Values(c, c.m, "bffi:extent"))
             inner == {n \in extent : ~IsLit(n)}
             labels(S) == Maybe(UNION {FirstLabel(c, n) : n \in S})
             physical == {n \in Across(c, inner, "bf:note") : IsNote(c, n, "physical")}
             accmat == {n \in Values(c, c.m, "bffi:note") : IsNote(c, n, "accmat")}
             subs == Sub("a", UNION {TextOrLabel(c, n) : n \in extent}) \o Sub("b", labels(physical))
                     \o Sub("c", UNION {TextOrLabel(c, n) : n \in Maybe(Values(c, c.m, "bffi:dimensions"))})
                     \o Sub("e", labels(accmat))
  <1>1. AtMostOne(inner)
    BY OneLineage DEF AtMostOne
  <1>2. Extent(c) = IF subs = <<>> THEN <<>> ELSE <<Plain("300", "  ", subs, LineageOf(c, inner))>>
    BY DEF Extent
  <1> HIDE DEF subs, inner
  <1> QED BY <1>1, <1>2, RowsJoin, PlainMade, OneLineage

LEMMA SeriesRows ==
  ASSUME NEW c, InGraph(c)
  PROVE  IsRows(SeriesStatement(c))
  <1> DEFINE row(n, l) == Plain(IF RawKind(n, "Hub", "830") THEN "830" ELSE "490", "0 ", <<<<"a", l>>>>, Lineage(c, n))
             rows(n) == ForEach(FirstLabel(c, n) \ {""}, LAMBDA l : <<row(n, l)>>)
  <1>1. \A n, l : IsRow(row(n, l))
    BY PlainMade, OneLineage
  <1>2. SeriesStatement(c) = ForEach(Values(c, c.m, "bf:hasSeries"), rows)
    BY DEF SeriesStatement
  <1> HIDE DEF row
  <1>3. \A n : IsRows(rows(n))
    BY <1>1, FiniteThere, FiniteParts, RowsChained, RowsJoin DEF ForEach
  <1> HIDE DEF rows
  <1> QED BY <1>2, <1>3, FiniteThere, RowsChained DEF ForEach

LEMMA NoteRows ==
  ASSUME NEW c, InGraph(c)
  PROVE  IsRows(Notes(c))
  <1> DEFINE shown(n) == IsLit(n) \/ ~(IsNote(c, n, "physical") \/ IsNote(c, n, "accmat"))
             text(n) == IF IsLit(n) THEN {Text(n)} ELSE OrElse(Said(c, n, "rdf:value"), Said(c, n, "rdfs:label"))
             tag(n) == The(OrElse(Maybe({NoteTags[k] : k \in {k \in DOMAIN NoteTags : IsNote(c, n, k)}}), {"500"}))
             one(n, t) == Plain(tag(n), "  ", <<<<"a", t>>>>, Lineage(c, n))
             row(n) == ForEach(text(n) \ {""}, LAMBDA t : <<one(n, t)>>)
             noted(S) == {n \in Across(c, S, "bffi:note") : shown(n)}
             of(S) == ForEach(noted(S), row)
  <1>1. \A n, t : IsRow(one(n, t))
    <2> HIDE DEF tag
    <2> QED BY PlainMade, OneLineage
  <1>2. \A n : IsFiniteSet(text(n) \ {""})
    BY FiniteThere, FiniteParts, FS_Singleton
  <1>3. \A S : IsFiniteSet(noted(S))
    BY FiniteThere, FS_Subset
  <1>4. Notes(c) = FirstOfEach(of(Expression(c)) \o of({c.m}))
    BY DEF Notes
  <1> HIDE DEF one, text, noted
  <1>5. \A n : IsRows(row(n))
    BY <1>1, <1>2, RowsChained, RowsJoin DEF ForEach
  <1> HIDE DEF row
  <1>6. \A S : IsRows(of(S))
    BY <1>3, <1>5, RowsChained DEF ForEach
  <1> HIDE DEF of
  <1> QED BY <1>4, <1>6, RowsJoin, FirstRows

LEMMA ContentsRows ==
  ASSUME NEW c, InGraph(c)
  PROVE  IsRows(TableOfContents(c))
  <1> DEFINE row(n, t) == Plain("505", "0 ", <<<<"a", t>>>>, Lineage(c, n))
             rows(n) == ForEach(TextOrLabel(c, n) \ {""}, LAMBDA t : <<row(n, t)>>)
  <1>1. \A n, t : IsRow(row(n, t))
    BY PlainMade, OneLineage
  <1>2. \A n : IsFiniteSet(TextOrLabel(c, n) \ {""})
    BY FiniteThere, FiniteParts, FS_Singleton DEF TextOrLabel
  <1>3. TableOfContents(c) = ForEach(Values(c, c.m, "bffi:tableOfContents"), rows)
    BY DEF TableOfContents
  <1> HIDE DEF row
  <1>4. \A n : IsRows(rows(n))
    BY <1>1, <1>2, RowsChained, RowsJoin DEF ForEach
  <1> HIDE DEF rows
  <1> QED BY <1>3, <1>4, FiniteThere, RowsChained DEF ForEach

LEMMA CodedRows ==
  ASSUME NEW c, InGraph(c)
  PROVE  IsRows(ContentType(c)) /\ IsRows(MediaType(c)) /\ IsRows(CarrierType(c))
  <1>1. ASSUME NEW S, IsFiniteSet(S), NEW tag, NEW ns, NEW src
        PROVE  IsRows(Coded(c, S, tag, ns, src))
    <2> DEFINE subs(n) == Sub("a", LocLabel(c, n, <<"fi", "en">>)) \o Sub("b", LocCode(n, ns)) \o <<<<"2", src>>>>
    <2>1. Coded(c, S, tag, ns, src) = ForEach(S, LAMBDA n : <<Plain(tag, "  ", subs(n), {})>>)
      BY DEF Coded
    <2> HIDE DEF subs
    <2> QED BY <1>1, <2>1, RowsChained, RowsJoin, PlainMade DEF ForEach
  <1> QED BY <1>1, FiniteThere, FiniteParts DEF ContentType, MediaType, CarrierType

LEMMA NamedRows ==
  ASSUME NEW c, InGraph(c)
  PROVE  IsRows(DigitalCharacteristic(c)) /\ IsRows(SoundCharacteristic(c)) /\ IsRows(ColorContent(c))
  <1>1. \A n, tag, code : IsRows(Named(c, n, tag, code))
    BY RowsJoin, PlainMade DEF Named
  <1> QED BY <1>1, FiniteThere, RowsChained DEF DigitalCharacteristic, SoundCharacteristic, ColorContent, ForEach

\* A subject row names the field of its statement, else of one raw origin.
LEMMA SubjectLineageOne ==
  \A c, work, p, t : AtMostOne(SubjectLineage(c, work, p, t))
  <1>1. \A c, work, p, t : AtMostOne(Origin(c, work, p, t))
    BY OneLineage DEF Origin, AtMostOne
  <1> QED BY <1>1, OneLineage DEF SubjectLineage

\* A subject makes at most one row.
LEMMA SubjectRowFinite ==
  ASSUME NEW c, NEW t, NEW authorities
  PROVE  IsFiniteSet(SubjectRow(c, t, authorities))
  <1>1. \A subs, name : IsFiniteSet(Subject(subs, name))
    BY FS_EmptySet, FS_Singleton DEF Subject
  <1>2. IsFiniteSet(RawSubjectRow(c, t, authorities))
    BY <1>1, FS_EmptySet DEF RawSubjectRow
  <1>3. IsFiniteSet(AuthoritySubjectRow(c, t))
    BY <1>1 DEF AuthoritySubjectRow
  <1> QED BY <1>2, <1>3 DEF SubjectRow

\* The statements about the subjects of a Work.
LEMMA StatementsFinite ==
  ASSUME NEW c, InGraph(c), NEW work
  PROVE  IsFiniteSet(Statements(c, work))
  <1> DEFINE first == {t[1] : t \in c.g}
             f == [t \in c.g |-> t[1]]
  <1>1. IsFiniteSet({f[t] : t \in c.g})
    BY ImageFinite DEF InGraph
  <1>2. Statements(c, work) \subseteq {f[t] : t \in c.g}
    BY DEF Statements, Subjects
  <1> QED BY <1>1, <1>2, FS_Subset

\* The subject rows: of the statements, or flat.
LEMMA SubjectRowsMade ==
  ASSUME NEW c, InGraph(c)
  PROVE  IsRows(SubjectRows(c))
  <1> DEFINE work == WorkOf(c)
             authorities == Authorities(c, work, "bffi:subject")
             genres == Across(c, work, "bffi:genreForm")
             about(s) == Maybe(Values(c, s, "rdf:object"))
             occurrence(s) == ForEach(about(s) \ genres, LAMBDA t : <<[target |-> t, stmt |-> {s}]>>)
             S == {s \in Statements(c, work) : <<s, "rdf:predicate", Bffi("subject")>> \in c.g}
             occurrences == ForEach(S, occurrence)
             flat == ForEach(Across(c, work, "bffi:subject"), LAMBDA t : <<[target |-> t, stmt |-> {}]>>)
             all == occurrences \o flat
             made(x, r) == Row(SubjectTag(c, work, x.target), " 7", r.subs,
                               OrElse(LineageOf(c, x.stmt), SubjectLineage(c, work, "bffi:subject", x.target)),
                               r.bypass)
             row(x) == ForEach(SubjectRow(c, x.target, authorities), LAMBDA r : <<made(x, r)>>)
             f == [i \in DOMAIN all |->
                     IF \E k \in 1..i - 1 : all[k].target = all[i].target THEN <<>> ELSE row(all[i])]
             linked == Across(c, work, "bffi:subject")
             stated == UNION {about(s) : s \in S}
             targets == stated \cup linked
             R == {[target |-> x[1], stmt |-> x[2]] : x \in targets \X ({{}} \cup {{s} : s \in S})}
  <1>1. SubjectRows(c) = FlattenSeq(f)
    BY DEF SubjectRows
  <1>2. \A s \in S : occurrence(s) \in Seq(R)
    <2> SUFFICES ASSUME NEW s \in S PROVE occurrence(s) \in Seq(R)
      OBVIOUS
    <2> DEFINE T == about(s) \ genres
               g == [t \in T |-> <<[target |-> t, stmt |-> {s}]>>]
    <2>1. IsFiniteSet(T)
      BY OneLineage, FiniteParts
    <2>2. \A t \in T : t \in targets
      OBVIOUS
    <2>3. \A t \in T : [target |-> t, stmt |-> {s}] \in R
      <3> HIDE DEF T, targets, S
      <3>1. \A t \in T : <<t, {s}>> \in targets \X ({{}} \cup {{z} : z \in S})
        BY <2>2
      <3> QED BY <3>1
    <2>4. occurrence(s) = Chained(g)
      BY DEF ForEach
    <2> HIDE DEF T, R
    <2>5. \A t \in DOMAIN g : g[t] \in Seq(R)
      BY <2>3
    <2> QED BY <2>1, <2>4, <2>5, ChainedLists
  <1>3. flat \in Seq(R)
    <2> DEFINE T == linked
               none == {}
               g == [t \in T |-> <<[target |-> t, stmt |-> none]>>]
    <2>1. IsFiniteSet(T)
      BY FiniteThere
    <2>2. \A t \in T : t \in targets
      <3> HIDE DEF stated, linked
      <3> QED OBVIOUS
    <2>3. \A t \in T : [target |-> t, stmt |-> none] \in R
      <3> HIDE DEF T, targets, S
      <3>1. \A t \in T : <<t, none>> \in targets \X ({{}} \cup {{z} : z \in S})
        BY <2>2
      <3> QED BY <3>1
    <2>4. flat = Chained(g)
      BY DEF ForEach
    <2> HIDE DEF T, R, none
    <2>5. \A t \in DOMAIN g : g[t] \in Seq(R)
      BY <2>3
    <2> QED BY <2>1, <2>4, <2>5, ChainedLists
  <1>4. \A x \in R : AtMostOne(x.stmt)
    <2> HIDE DEF targets, S
    <2>1. \A x \in R : \E y \in targets \X ({{}} \cup {{s} : s \in S}) : x.stmt = y[2]
      OBVIOUS
    <2>2. \A z \in {{}} \cup {{s} : s \in S} : AtMostOne(z)
      BY DEF AtMostOne
    <2> QED BY <2>1, <2>2
  <1>5. IsFiniteSet(S)
    BY StatementsFinite, FS_Subset
  <1>6. occurrences \in Seq(R)
    <2> DEFINE g == [s \in S |-> occurrence(s)]
    <2>1. occurrences = Chained(g)
      BY DEF ForEach
    <2> HIDE DEF occurrence, S, R
    <2> QED BY <1>2, <1>5, <2>1, ChainedLists
  <1> HIDE DEF occurrences, flat, R
  <1>7. all \in Seq(R)
    BY <1>3, <1>6
  <1>8. \A x \in R : \A r : IsRow(made(x, r))
    <2> HIDE DEF work
    <2> QED BY <1>4, RowMade, OneLineage, SubjectLineageOne
  <1> HIDE DEF made, authorities, all
  <1>9. \A x \in R : IsRows(row(x))
    BY <1>8, SubjectRowFinite, RowsChained, RowsJoin DEF ForEach
  <1> HIDE DEF row
  <1>10. AList(all) /\ \A i \in DOMAIN all : all[i] \in R
    BY <1>7 DEF AList
  <1>11. f = [i \in DOMAIN all |-> f[i]] /\ \A i \in DOMAIN all : IsRows(f[i])
    BY <1>9, <1>10, RowsJoin
  <1> HIDE DEF f
  <1> QED BY <1>1, <1>10, <1>11, RowsFlattened

\* The genre rows.
LEMMA GenreRows ==
  ASSUME NEW c, InGraph(c)
  PROVE  IsRows(GenreForms(c))
  <1> DEFINE work == WorkOf(c)
             authorities == Authorities(c, work, "bffi:genreForm")
             src(t) == OrElse(LineageOf(c, StatementFor(c, work, t)), SubjectLineage(c, work, "bffi:genreForm", t))
             made(t, r) == Row("655", " 7", r.subs, src(t), r.bypass)
             rows(t) == ForEach(SubjectRow(c, t, authorities), LAMBDA r : <<made(t, r)>>)
  <1>1. \A t : AtMostOne(StatementFor(c, work, t))
    <2> DEFINE about(S) == Maybe({s \in Statements(c, work) : Values(c, s, "rdf:object") \cap S # {}})
    <2>1. \A S : AtMostOne(about(S))
      BY OneLineage
    <2>2. \A t : StatementFor(c, work, t)
                   = OrElse(about({t}), OrElse(about(Origin(c, work, "bffi:genreForm", t)), about(RawsOf(c, t))))
      BY DEF StatementFor
    <2> HIDE DEF about
    <2> QED BY <2>1, <2>2, OneLineage
  <1> HIDE DEF work
  <1>2. \A t, r : IsRow(made(t, r))
    BY <1>1, OneLineage, SubjectLineageOne, RowMade
  <1>3. GenreForms(c) = ForEach(Across(c, work, "bffi:genreForm"), rows)
    BY DEF GenreForms, work
  <1> HIDE DEF made, authorities
  <1>4. \A t : IsRows(rows(t))
    BY <1>2, SubjectRowFinite, RowsChained, RowsJoin DEF ForEach
  <1> HIDE DEF rows
  <1> QED BY <1>3, <1>4, FiniteThere, RowsChained DEF ForEach

\* Lists of whatever they hold.
LEMMA ListsMade ==
  /\ IsList(<<>>)
  /\ \A x : IsList(<<x>>)
  /\ \A s, t : IsList(s) /\ IsList(t) => IsList(s \o t)
  /\ \A f : IsFiniteSet(DOMAIN f) /\ (\A x \in DOMAIN f : IsList(f[x])) => IsList(Chained(f))
  <1>1. IsList(<<>>)
    <2> DEFINE none == {}
    <2>1. <<>> \in Seq(none)
      OBVIOUS
    <2> HIDE DEF none
    <2> QED BY <2>1, Zenon DEF IsList
  <1>2. ASSUME NEW x PROVE IsList(<<x>>)
    <2> DEFINE one == {x}
    <2>1. <<x>> \in Seq(one)
      OBVIOUS
    <2> HIDE DEF one
    <2> QED BY <2>1, Zenon DEF IsList
  <1>3. ASSUME NEW s, NEW t, IsList(s), IsList(t) PROVE IsList(s \o t)
    <2>1. PICK R : s \in Seq(R)
      BY <1>3 DEF IsList
    <2>2. PICK T : t \in Seq(T)
      BY <1>3 DEF IsList
    <2>3. s \in Seq(R \cup T) /\ t \in Seq(R \cup T)
      BY <2>1, <2>2
    <2>4. s \o t \in Seq(R \cup T)
      BY <2>3
    <2> QED BY <2>4 DEF IsList
  <1>4. ASSUME NEW f, IsFiniteSet(DOMAIN f), \A x \in DOMAIN f : IsList(f[x])
        PROVE  IsList(Chained(f))
    <2> DEFINE R == UNION {{f[x][i] : i \in DOMAIN f[x]} : x \in DOMAIN f}
    <2>1. ASSUME NEW x \in DOMAIN f PROVE f[x] \in Seq(R)
      <3>1. PICK T : f[x] \in Seq(T)
        BY <1>4, <2>1 DEF IsList
      <3>2. \A i \in DOMAIN f[x] : f[x][i] \in R
        OBVIOUS
      <3> HIDE DEF R
      <3> QED BY <3>1, <3>2
    <2> HIDE DEF R
    <2>2. Chained(f) \in Seq(R)
      BY <1>4, <2>1, ChainedLists
    <2> QED BY <2>2 DEF IsList
  <1> QED BY <1>1, <1>2, <1>3, <1>4

\* The 880s, of rows made before.
LEMMA VernacularRows ==
  ASSUME NEW c, InGraph(c)
  PROVE  IsRows(Vernacular(c))
  <1> DEFINE text(tag, n, v) == [tag |-> tag, text |-> Text(v), of |-> n]
             others(n, p) == {v \in Literals(Values(c, n, p)) : Lang(v) # ""}
             other(tag, n, p) ==
               IF TextsIn("", Values(c, n, p)) = {} THEN <<>>
               ELSE ForEach(others(n, p), LAMBDA v : <<text(tag, n, v)>>)
             each(tag, S, p) == ForEach(S, LAMBDA n : other(tag, n, p))
             agents(S) == Across(c, S, "bffi:agent")
             primary == agents({n \in Across(c, WorkOf(c), "bffi:contribution") : IsPrimary(c, n)})
             added == agents({n \in Across(c, Expression(c), "bffi:contribution") : ~IsPrimary(c, n)})
             pas == Values(c, c.m, "bffi:provisionActivity")
             ofPublication(n) == other("264", n, "bflc:simplePlace") \o other("264", n, "bflc:simpleAgent")
                                 \o other("264", n, "bflc:simpleDate")
             published == ForEach(pas, ofPublication)
             found == each("245", Values(c, c.m, "bffi:title"), "bffi:mainTitle")
                      \o other("245", c.m, "bffi:responsibilityStatement")
                      \o other("264", c.m, "bffi:publicationStatement")
                      \o published
                      \o each("100", primary, "rdfs:label")
                      \o each("700", added, "rdfs:label")
             link(i) == found[i].tag \o "-" \o ToString(i) \o "/" \o The(OrElse(Found("script", found[i].text), {"(B"}))
             row(i) == Plain("880", "  ", <<<<"6", link(i)>>, <<"a", found[i].text>>>>, Lineage(c, found[i].of))
  <1>1. Vernacular(c) = [i \in DOMAIN found |-> row(i)]
    BY DEF Vernacular
  <1>2. \A n, p : IsFiniteSet(others(n, p))
    BY FiniteThere, FiniteParts, FS_Subset
  <1>3. IsFiniteSet(primary) /\ IsFiniteSet(added) /\ IsFiniteSet(pas) /\ IsFiniteSet(Values(c, c.m, "bffi:title"))
    BY FiniteThere
  <1> HIDE DEF text, others
  <1>4. \A tag, n, p : IsList(other(tag, n, p))
    BY <1>2, ListsMade DEF ForEach
  <1> HIDE DEF other, primary, added, pas
  <1>5. \A tag, S, p : IsFiniteSet(S) => IsList(each(tag, S, p))
    BY <1>4, ListsMade DEF ForEach
  <1>6. IsList(published)
    <2>1. \A n : IsList(ofPublication(n))
      BY <1>4, ListsMade
    <2> HIDE DEF ofPublication
    <2> QED BY <1>3, <2>1, ListsMade DEF ForEach
  <1> HIDE DEF each, published
  <1>7. IsList(found)
    BY <1>3, <1>4, <1>5, <1>6, ListsMade
  <1> HIDE DEF found
  <1>8. \A i : IsRow(row(i))
    <2> HIDE DEF link
    <2> QED BY PlainMade, OneLineage
  <1> HIDE DEF row
  <1>9. [i \in DOMAIN found |-> row(i)] \in Seq({row(i) : i \in DOMAIN found})
    <2>1. PICK R : found \in Seq(R)
      BY <1>7 DEF IsList
    <2>2. DOMAIN found = 1..Len(found) /\ Len(found) \in Nat
      BY <2>1
    <2> QED BY <2>2
  <1>10. \A r \in {row(i) : i \in DOMAIN found} : IsRow(r)
    BY <1>8
  <1> QED BY <1>1, <1>9, <1>10 DEF IsRows

\* All data fields in the order of build().
LEMMA DataRows ==
  ASSUME NEW c, InGraph(c)
  PROVE  IsRows(DataFields(c))
  <1> DEFINE local == ForEach(BibId(c), LAMBDA b : <<Plain("907", "  ", <<<<"a", "." \o b>>>>, {})>>)
  <1>1. IsRows(local)
    BY OneLineage, RowsChained, RowsJoin, PlainMade DEF BibId, ForEach
  <1>2. DataFields(c) =
          Isbns(c) \o Issns(c) \o OtherStdIdentifiers(c) \o Classifications(c) \o PublisherNumbers(c)
          \o SystemControlNumbers(c) \o SourceMarker(c) \o Languages(c) \o PrimaryContribution(c)
          \o UniformTitle(c) \o Title(c) \o VariantTitle(c) \o EditionStatement(c) \o PublicationStatement(c)
          \o Extent(c) \o ContentType(c) \o MediaType(c) \o CarrierType(c) \o DigitalCharacteristic(c)
          \o SoundCharacteristic(c) \o ColorContent(c) \o SeriesStatement(c) \o Notes(c) \o TableOfContents(c)
          \o SubjectRows(c) \o GenreForms(c) \o AddedEntries(c) \o AnalyticalEntries(c) \o RelatedTitles(c)
          \o Vernacular(c) \o local
    BY DEF DataFields
  <1> HIDE DEF local
  <1>3. /\ IsRows(Isbns(c)) /\ IsRows(Issns(c)) /\ IsRows(OtherStdIdentifiers(c)) /\ IsRows(PublisherNumbers(c))
        /\ IsRows(Classifications(c)) /\ IsRows(SystemControlNumbers(c)) /\ IsRows(SourceMarker(c))
        /\ IsRows(Languages(c)) /\ IsRows(EditionStatement(c))
        /\ IsRows(PrimaryContribution(c)) /\ IsRows(AddedEntries(c))
    BY NumberRows, ClassificationRows, SystemNumberRows, OwnRows, ContributionRows
  <1>4. /\ IsRows(UniformTitle(c)) /\ IsRows(Title(c)) /\ IsRows(VariantTitle(c)) /\ IsRows(AnalyticalEntries(c))
        /\ IsRows(RelatedTitles(c)) /\ IsRows(PublicationStatement(c)) /\ IsRows(Extent(c))
    BY UniformTitleRows, TitleRows, AnalyticalRows, RelatedRows, PublicationRows, ExtentRows
  <1>5. /\ IsRows(ContentType(c)) /\ IsRows(MediaType(c)) /\ IsRows(CarrierType(c))
        /\ IsRows(DigitalCharacteristic(c)) /\ IsRows(SoundCharacteristic(c)) /\ IsRows(ColorContent(c))
        /\ IsRows(SeriesStatement(c)) /\ IsRows(Notes(c)) /\ IsRows(TableOfContents(c))
    BY CodedRows, NamedRows, SeriesRows, NoteRows, ContentsRows
  <1>6. IsRows(SubjectRows(c)) /\ IsRows(GenreForms(c)) /\ IsRows(Vernacular(c))
    BY SubjectRowsMade, GenreRows, VernacularRows
  <1> QED BY <1>1, <1>2, <1>3, <1>4, <1>5, <1>6, RowsJoin

\* RECORDS ARE LISTS OF ROWS: of a finite graph and any Manifestation in it
\* reconstruct_marc makes a list of rows, each of which names at most one field it
\* comes from; on this the pairing by lineage rests.
THEOREM RecordMade ==
  ASSUME NEW g, IsFiniteSet(g), IsFiniteSet(Vocabulary), NEW m
  PROVE  IsRecord(Record(Context(g, m)))
  <1> DEFINE c == Context(g, m)
  <1>1. InGraph(c)
    <2>1. IsFiniteSet(g \cup Vocabulary)
      BY FS_Union
    <2> QED BY <2>1 DEF InGraph, Context
  <1> HIDE DEF c
  <1>2. Record(c).fields = DataFields(c) /\ Record(c).controls = ControlFields(c)
    BY DEF Record
  <1>3. AList(DataFields(c)) /\ \A i \in DOMAIN DataFields(c) : IsRow(DataFields(c)[i])
    BY <1>1, DataRows, RowsAreAList
  <1>4. AList(ControlFields(c))
    <2> DEFINE own == ForEach(BibId(c), LAMBDA b : <<Control("001", <<b>>), Control("003", <<"FI-HELME">>)>>)
    <2>1. ASSUME NEW x, NEW y PROVE IsList(<<x, y>>)
      <3> DEFINE two == {x, y}
      <3>1. <<x, y>> \in Seq(two)
        OBVIOUS
      <3> HIDE DEF two
      <3> QED BY <3>1, Zenon DEF IsList
    <2>2. IsList(own)
      BY <2>1, OneLineage, ListsMade DEF BibId, ForEach
    <2>3. ControlFields(c) = <<Control("LDR", Leader(c))>> \o own \o <<Control("008", FixedField(c))>>
      BY DEF ControlFields
    <2> HIDE DEF own
    <2>4. IsList(ControlFields(c))
      BY <2>2, <2>3, ListsMade
    <2> QED BY <2>4 DEF IsList, AList
  <1> QED BY <1>2, <1>3, <1>4 DEF IsRecord, c

-----------------------------------------------------------------------------
(* The reports of a round trip *)

\* A set listed: each of its members once.
LEMMA Listed ==
  ASSUME NEW S, IsFiniteSet(S)
  PROVE  SetToSeq(S) \in [1..Cardinality(S) -> S] /\ IsInjective(SetToSeq(S)) /\ Cardinality(S) \in Nat
  <1>1. PICK f \in Bijection(1..Cardinality(S), S) : TRUE
    BY FS_CardinalityType DEF ExistsBijection
  <1>2. f \in [1..Cardinality(S) -> S] /\ IsInjective(f)
    BY <1>1 DEF Bijection, Injection
  <1>3. Cardinality(S) \in Nat
    BY FS_CardinalityType
  <1> QED BY <1>2, <1>3 DEF SetToSeq

\* A finite graph has finitely many Manifestations.
LEMMA ManifestationsFinite ==
  ASSUME NEW g, IsFiniteSet(g)
  PROVE  IsFiniteSet(Manifestations(g))
  <1> DEFINE f == [t \in g |-> t[1]]
  <1>1. IsFiniteSet({f[t] : t \in g})
    BY ImageFinite
  <1>2. Manifestations(g) \subseteq {f[t] : t \in g}
    BY DEF Manifestations, Uris, Subjects
  <1> QED BY <1>1, <1>2, FS_Subset

\* What a round trip reads: a finite graph, in which no two Manifestations have one
\* bib id, as the reports are files named by it.
RoundTripInput ==
  at = "roundtrip" =>
    /\ IsFiniteSet(graph)
    /\ \A m, n \in Manifestations(graph) :
         BibId(Context(graph, m)) \cap BibId(Context(graph, n)) # {} => m = n

\* The entries with a status, each with its record.
Counted(f, s) ==
  UNION {{<<b, d>> : d \in {d \in reports[f][b].diff : d.status = s}} :
           b \in {b \in DOMAIN reports[f] : b \in DOMAIN originals}}

\* A report is the diff of a record with the original.
Reported ==
  /\ DOMAIN reports = Files
  /\ \A f \in Files : \A b \in DOMAIN reports[f] : b \in DOMAIN originals =>
       \E record : /\ IsRecord(record) /\ reports[f][b].record = record
                   /\ reports[f][b].diff = Diff(originals[b], record, record.skipped)

\* The summary has counted them.
Summed ==
  /\ DOMAIN summary = Files
  /\ \A f \in Files :
       /\ DOMAIN summary[f] = {"manifestations", "reconstructed", "diffed", "missing", "statuses"}
       /\ \A s \in Statuses : /\ IsFiniteSet(Counted(f, s))
                              /\ summary[f].statuses[s] = Cardinality(Counted(f, s))

\* The manifestations to come are of other records.
Ahead ==
  at = "roundtrip" =>
    /\ queue \in Seq(Manifestations(graph))
    /\ \A i, k \in 1..Len(queue) : queue[i] = queue[k] => i = k
    /\ \A i \in 1..Len(queue) : BibId(Context(graph, queue[i])) \cap DOMAIN reports[source] = {}

RoundTripInv == case \in Cases /\ source \in Files /\ Reported /\ Summed /\ Ahead

\* The originals of a case are lists of fields.
LEMMA OriginalsAreLists ==
  ASSUME case \in Cases, NEW b \in DOMAIN originals
  PROVE  AList(originals[b].controls) /\ AList(originals[b].fields)
  <1>1. originals[b].controls \in Seq(Controls) /\ originals[b].fields \in Seq(Fields)
    BY CasesAssumption DEF originals
  <1>2. ASSUME NEW S, NEW f \in Seq(S) PROVE AList(f)
    BY DEF AList
  <1> QED BY <1>1, <1>2

\* Before any stage there are no reports.
LEMMA RoundTripInvInit == RoundTripInit => RoundTripInv
  <1> SUFFICES ASSUME RoundTripInit PROVE RoundTripInv
    OBVIOUS
  <1>1. \A f \in Files : DOMAIN reports[f] = {}
    BY DEF RoundTripInit
  <1>2. Reported
    BY <1>1 DEF RoundTripInit, Reported
  <1>3. \A f \in Files, s \in Statuses : Counted(f, s) = {}
    BY <1>1 DEF Counted
  <1>4. Summed
    BY <1>3, FS_EmptySet DEF RoundTripInit, Summed, NoCounts
  <1> QED BY <1>2, <1>4 DEF RoundTripInv, Ahead, RoundTripInit, Files

\* A step that leaves the results as they are.
LEMMA ResultsKept ==
  ASSUME RoundTripInv, UNCHANGED <<case, results>>, at' # "roundtrip"
  PROVE  RoundTripInv'
  <1>1. case' = case /\ source' = source /\ reports' = reports /\ summary' = summary
    BY DEF results
  <1>2. Reported'
    BY <1>1 DEF RoundTripInv, Reported, originals
  <1>3. \A f, s : Counted(f, s)' = Counted(f, s)
    BY <1>1 DEF Counted, originals
  <1>4. Summed'
    BY <1>1, <1>3 DEF RoundTripInv, Summed
  <1> QED BY <1>1, <1>2, <1>4 DEF RoundTripInv, Ahead

\* A round trip starts with an empty directory of reports.
LEMMA StartKept ==
  ASSUME RoundTripInv, RoundTripInput', StartRoundTrip
  PROVE  RoundTripInv'
  <1>1. case' = case /\ reports' = reports /\ at' = "roundtrip" /\ source' \in Files
    BY DEF StartRoundTrip, Files
  <1>2. Reported'
    BY <1>1 DEF RoundTripInv, Reported, originals
  <1>3. \A f, s : Counted(f, s)' = Counted(f, s)
    BY <1>1 DEF Counted, originals
  <1>4. PICK n : summary' = [summary EXCEPT ![source'].manifestations = n]
    BY DEF StartRoundTrip
  <1>5. Summed'
    <2>1. DOMAIN summary' = Files
      BY <1>4 DEF RoundTripInv, Summed
    <2>2. ASSUME NEW f \in Files
          PROVE  DOMAIN summary'[f] = DOMAIN summary[f] /\ summary'[f].statuses = summary[f].statuses
      BY <1>1, <1>4 DEF RoundTripInv, Summed
    <2> QED BY <1>3, <2>1, <2>2 DEF RoundTripInv, Summed
  <1>6. Ahead'
    <2> DEFINE S == Manifestations(graph')
    <2>1. queue' = SetToSeq(S) /\ DOMAIN reports'[source'] = {}
      BY <1>1 DEF StartRoundTrip
    <2>2. IsFiniteSet(S)
      BY <1>1, ManifestationsFinite DEF RoundTripInput
    <2> HIDE DEF S
    <2>3. queue' \in [1..Cardinality(S) -> S] /\ IsInjective(queue') /\ Cardinality(S) \in Nat
      BY <2>1, <2>2, Listed
    <2>4. queue' \in Seq(S) /\ Len(queue') = Cardinality(S)
      BY <2>3
    <2>5. \A i, k \in 1..Len(queue') : queue'[i] = queue'[k] => i = k
      BY <2>3, <2>4 DEF IsInjective
    <2> QED BY <2>1, <2>4, <2>5 DEF Ahead, S
  <1> QED BY <1>1, <1>2, <1>5, <1>6 DEF RoundTripInv

\* As many pairs with b as there are entries.
LEMMA TaggedCount ==
  ASSUME NEW D, IsFiniteSet(D), NEW b
  PROVE  IsFiniteSet({<<b, d>> : d \in D}) /\ Cardinality({<<b, d>> : d \in D}) = Cardinality(D)
  <1> DEFINE T == {<<b, d>> : d \in D}
             f == [d \in D |-> <<b, d>>]
  <1>1. f \in Bijection(D, T)
    <2>1. f \in [D -> T]
      OBVIOUS
    <2>2. \A x, y \in D : f[x] = f[y] => x = y
      OBVIOUS
    <2>3. \A t \in T : \E d \in D : f[d] = t
      OBVIOUS
    <2> HIDE DEF f, T
    <2> QED BY <2>1, <2>2, <2>3 DEF Bijection, Injection, Surjection, IsInjective
  <1>2. ExistsBijection(D, T)
    BY <1>1 DEF ExistsBijection
  <1> HIDE DEF T
  <1>3. IsFiniteSet(T) /\ Cardinality(T) = Cardinality(D)
    BY <1>2, FS_Bijection
  <1> QED BY <1>3 DEF T

\* One report more, of a record that had none.
LEMMA ReportAdded ==
  ASSUME RoundTripInv, NEW b, b \notin DOMAIN reports[source], NEW e,
         reports' = [reports EXCEPT ![source] = Recorded(@, b, e)]
  PROVE  /\ DOMAIN reports' = Files
         /\ \A f \in Files : f # source => reports'[f] = reports[f]
         /\ DOMAIN reports'[source] = {b} \cup DOMAIN reports[source]
         /\ reports'[source][b] = e
         /\ \A x \in DOMAIN reports[source] : reports'[source][x] = reports[source][x]
  <1> DEFINE old == reports[source]
             new == Recorded(old, b, e)
  <1>2. DOMAIN new = {b} \cup DOMAIN old /\ new[b] = e /\ \A x \in DOMAIN old : new[x] = old[x]
    BY DEF Recorded
  <1>3. DOMAIN reports = Files /\ source \in Files
    BY DEF RoundTripInv, Reported
  <1>4. reports' = [reports EXCEPT ![source] = new]
    OBVIOUS
  <1> HIDE DEF new
  <1>5. DOMAIN reports' = Files /\ reports'[source] = new /\ \A f \in Files : f # source => reports'[f] = reports[f]
    BY <1>3, <1>4
  <1> QED BY <1>2, <1>5

\* A record more: its report is new, so that the summary grows by the entries of it.
LEMMA ReconstructedKept ==
  ASSUME RoundTripInv, RoundTripInput, Reconstructed
  PROVE  RoundTripInv'
  <1> DEFINE m == Head(queue)
  <1>1. /\ case' = case /\ source' = source /\ graph' = graph /\ at = "roundtrip" /\ at' = at
        /\ queue # <<>> /\ queue' = Tail(queue)
    BY DEF Reconstructed
  <1>2. queue \in Seq(Manifestations(graph)) /\ m = queue[1] /\ 1 \in 1..Len(queue) /\ m \in Manifestations(graph)
    BY <1>1 DEF RoundTripInv, Ahead
  <1> DEFINE adds(b, record, diff, found) ==
               /\ reports' = [reports EXCEPT ![source] = Recorded(@, b, [record |-> record, diff |-> diff])]
               /\ summary' = [summary EXCEPT ![source] = Tallied(@, diff, found)]
             record == Record(Context(graph, m))
             compared(b) == IF b \in DOMAIN originals THEN Diff(originals[b], record, record.skipped) ELSE {}
  <1>3. \/ record.bib = {} /\ UNCHANGED <<reports, summary>>
        \/ \E b \in record.bib : \E diff, found : diff = compared(b) /\ adds(b, record, diff, found)
    <2>1. \E c \in {Context(graph, Head(queue))} : \E r \in {Record(c)} :
            \/ r.bib = {} /\ UNCHANGED <<reports, summary>>
            \/ \E b \in r.bib :
                 \E diff \in {IF b \in DOMAIN originals THEN Diff(originals[b], r, r.skipped) ELSE {}} :
                   adds(b, r, diff, IF b \in DOMAIN originals THEN 1 ELSE 0)
      BY DEF Reconstructed
    <2> HIDE DEF adds
    <2> QED BY <2>1
  <1> HIDE DEF adds, record
  <1> HIDE DEF m
  <1>4. IsRecord(record) /\ record.bib = BibId(Context(graph, m))
    BY <1>1, VocabularyAssumption, RecordMade DEF RoundTripInput, Record, record
  <1>5. ASSUME DOMAIN reports'[source] \subseteq record.bib \cup DOMAIN reports[source]
        PROVE  Ahead'
    <2>1. queue' \in Seq(Manifestations(graph))
      BY <1>1, <1>2
    <2>2. Len(queue') \in Nat /\ \A i \in 1..Len(queue') : queue'[i] = queue[i + 1] /\ i + 1 \in 1..Len(queue) /\ i + 1 # 1
      BY <1>1, <1>2
    <2>3. \A i, k \in 1..Len(queue) : queue[i] = queue[k] => i = k
      BY <1>1 DEF RoundTripInv, Ahead
    <2>4. \A i, k \in 1..Len(queue') : queue'[i] = queue'[k] => i = k
      <3>1. \A i, k \in 1..Len(queue') : i + 1 = k + 1 => i = k
        OBVIOUS
      <3> QED BY <2>2, <2>3, <3>1
    <2>5. ASSUME NEW i \in 1..Len(queue')
          PROVE  BibId(Context(graph, queue'[i])) \cap DOMAIN reports'[source] = {}
      <3>1. queue'[i] = queue[i + 1] /\ i + 1 \in 1..Len(queue) /\ queue[i + 1] # m /\ queue[i + 1] \in Manifestations(graph)
        <4>1. queue[i + 1] # queue[1]
          BY <1>2, <2>2, <2>3
        <4> QED BY <1>2, <2>2, <4>1
      <3>2. BibId(Context(graph, queue[i + 1])) \cap record.bib = {}
        BY <1>1, <1>2, <1>4, <3>1 DEF RoundTripInput
      <3>3. BibId(Context(graph, queue[i + 1])) \cap DOMAIN reports[source] = {}
        BY <1>1, <3>1 DEF RoundTripInv, Ahead
      <3> QED BY <1>5, <3>1, <3>2, <3>3
    <2> QED BY <1>1, <2>1, <2>4, <2>5 DEF Ahead
  <1>6. CASE record.bib = {} /\ UNCHANGED <<reports, summary>>
    <2>1. Reported'
      BY <1>1, <1>6 DEF RoundTripInv, Reported, originals
    <2>2. \A f, s : Counted(f, s)' = Counted(f, s)
      BY <1>1, <1>6 DEF Counted, originals
    <2>3. Summed'
      BY <1>6, <2>2 DEF RoundTripInv, Summed
    <2>4. Ahead'
      BY <1>5, <1>6
    <2> QED BY <1>1, <2>1, <2>3, <2>4 DEF RoundTripInv
  <1>7. ASSUME NEW b \in record.bib, NEW diff, NEW found, diff = compared(b), adds(b, record, diff, found)
        PROVE  RoundTripInv'
    <2> DEFINE e == [record |-> record, diff |-> diff]
    <2>1. b \notin DOMAIN reports[source]
      BY <1>1, <1>2, <1>4 DEF RoundTripInv, Ahead
    <2>2. /\ DOMAIN reports' = Files
          /\ \A f \in Files : f # source => reports'[f] = reports[f]
          /\ DOMAIN reports'[source] = {b} \cup DOMAIN reports[source]
          /\ reports'[source][b] = e
          /\ \A x \in DOMAIN reports[source] : reports'[source][x] = reports[source][x]
      BY <1>7, <2>1, ReportAdded DEF adds
    <2>3. e.record = record /\ e.diff = diff
      OBVIOUS
    <2> HIDE DEF e
    <2>4. originals' = originals
      BY <1>1 DEF originals
    <2>5. Reported'
      <3> SUFFICES ASSUME NEW f \in Files, NEW x \in DOMAIN reports'[f], x \in DOMAIN originals
                   PROVE  \E r : IsRecord(r) /\ reports'[f][x].record = r
                                 /\ reports'[f][x].diff = Diff(originals[x], r, r.skipped)
        BY <2>2, <2>4 DEF Reported
      <3>1. CASE f = source /\ x = b
        BY <1>4, <1>7, <2>2, <2>3, <3>1
      <3>2. CASE x \in DOMAIN reports[f] /\ reports'[f][x] = reports[f][x]
        BY <3>2 DEF RoundTripInv, Reported
      <3> QED BY <2>2, <3>1, <3>2
    <2>6. IsFiniteSet(diff) /\ (b \notin DOMAIN originals => diff = {})
      <3>1. CASE b \in DOMAIN originals
        <4>1. AList(originals[b].controls) /\ AList(originals[b].fields)
          BY <3>1, OriginalsAreLists DEF RoundTripInv
        <4> QED BY <1>4, <1>7, <3>1, <4>1, FieldsOnce
      <3>2. CASE b \notin DOMAIN originals
        BY <1>7, <3>2, FS_EmptySet
      <3> QED BY <3>1, <3>2
    <2>7. \A f \in Files : \A s : f # source => Counted(f, s)' = Counted(f, s)
      BY <2>2, <2>4 DEF Counted
    <2>8. ASSUME NEW s \in Statuses
          PROVE  /\ IsFiniteSet(Counted(source, s)')
                 /\ Cardinality(Counted(source, s)') = Cardinality(Counted(source, s)) + Summary(diff)[s]
      <3> DEFINE D == {d \in diff : d.status = s}
                 New == {<<b, d>> : d \in D}
      <3>1. IsFiniteSet(D) /\ Summary(diff)[s] = Cardinality(D) /\ Cardinality(D) \in Nat
        BY <2>6, FS_Subset, FS_CardinalityType DEF Summary
      <3> HIDE DEF D
      <3>2. IsFiniteSet(New) /\ Cardinality(New) = Cardinality(D)
        BY <3>1, TaggedCount
      <3>3. IsFiniteSet(Counted(source, s)) /\ Cardinality(Counted(source, s)) \in Nat
        BY FS_CardinalityType DEF RoundTripInv, Summed
      <3>4. \A y \in Counted(source, s) : y[1] \in DOMAIN reports[source]
        BY DEF Counted
      <3>5. Counted(source, s) \cap New = {}
        BY <2>1, <3>4
      <3>6. Counted(source, s)' = Counted(source, s) \cup New
        <4> DEFINE old == {x \in DOMAIN reports[source] : x \in DOMAIN originals}
                   of(x) == {<<x, d>> : d \in {d \in reports[source][x].diff : d.status = s}}
                   ofNew(x) == {<<x, d>> : d \in {d \in reports'[source][x].diff : d.status = s}}
        <4>1. Counted(source, s) = UNION {of(x) : x \in old}
          BY DEF Counted
        <4>2. Counted(source, s)' = UNION {ofNew(x) : x \in {x \in {b} \cup DOMAIN reports[source] : x \in DOMAIN originals}}
          BY <1>1, <2>2, <2>4 DEF Counted
        <4>3. \A x \in old : ofNew(x) = of(x)
          BY <2>2
        <4>4. ofNew(b) = New
          BY <2>2, <2>3 DEF D
        <4>5. CASE b \in DOMAIN originals
          <5>1. {x \in {b} \cup DOMAIN reports[source] : x \in DOMAIN originals} = {b} \cup old
            BY <4>5
          <5> HIDE DEF old, of, ofNew, New
          <5> QED BY <4>1, <4>2, <4>3, <4>4, <5>1
        <4>6. CASE b \notin DOMAIN originals
          <5>1. {x \in {b} \cup DOMAIN reports[source] : x \in DOMAIN originals} = old
            BY <4>6
          <5>2. New = {}
            BY <2>6, <4>6 DEF D
          <5> HIDE DEF old, of, ofNew, New
          <5> QED BY <4>1, <4>2, <4>3, <5>1, <5>2
        <4> QED BY <4>5, <4>6
      <3> HIDE DEF New
      <3>7. Cardinality(Counted(source, s) \cap New) = 0
        BY <3>5, FS_EmptySet
      <3>8. /\ IsFiniteSet(Counted(source, s) \cup New)
            /\ Cardinality(Counted(source, s) \cup New)
                 = Cardinality(Counted(source, s)) + Cardinality(New) - Cardinality(Counted(source, s) \cap New)
        BY <3>2, <3>3, FS_Union
      <3>9. Cardinality(Counted(source, s)) + Cardinality(New) - 0 = Cardinality(Counted(source, s)) + Summary(diff)[s]
        BY <3>1, <3>2, <3>3
      <3> QED BY <3>6, <3>7, <3>8, <3>9
    <2>9. Summed'
      <3>1. /\ DOMAIN summary' = Files
            /\ \A f \in Files : f # source => summary'[f] = summary[f]
            /\ DOMAIN summary'[source] = DOMAIN summary[source]
            /\ \A s \in Statuses : summary'[source].statuses[s] = summary[source].statuses[s] + Summary(diff)[s]
        <4> DEFINE old == summary[source]
                   new == Tallied(old, diff, found)
        <4>1. summary' = [summary EXCEPT ![source] = new]
          BY <1>7 DEF adds
        <4>2. /\ DOMAIN old = {"manifestations", "reconstructed", "diffed", "missing", "statuses"}
              /\ DOMAIN summary = Files /\ source \in Files
          BY DEF RoundTripInv, Summed
        <4>3. DOMAIN new = DOMAIN old /\ \A s \in Statuses : new.statuses[s] = old.statuses[s] + Summary(diff)[s]
          BY <4>2 DEF Tallied
        <4> HIDE DEF new
        <4>5. DOMAIN summary' = Files /\ summary'[source] = new /\ \A f \in Files : f # source => summary'[f] = summary[f]
          BY <4>1, <4>2
        <4> QED BY <4>3, <4>5
      <3> QED BY <1>1, <2>7, <2>8, <3>1 DEF RoundTripInv, Summed
    <2>10. Ahead'
      BY <1>5, <2>2
    <2> QED BY <1>1, <2>5, <2>9, <2>10 DEF RoundTripInv
  <1> HIDE DEF compared
  <1> QED BY <1>3, <1>6, <1>7

\* The other stages leave the reports alone.
LEMMA RoundTripInvStep ==
  ASSUME RoundTripInv, RoundTripInput, RoundTripInput', [RoundTripNext]_roundTrip
  PROVE  RoundTripInv'
  <1>1. CASE StartRoundTrip
    BY <1>1, StartKept
  <1>2. CASE Reconstructed
    BY <1>2, ReconstructedKept
  <1>3. CASE UNCHANGED roundTrip
    <2>1. case' = case /\ source' = source /\ reports' = reports /\ summary' = summary
          /\ at' = at /\ queue' = queue /\ graph' = graph
      BY <1>3 DEF roundTrip, results
    <2>2. \A f, s : Counted(f, s)' = Counted(f, s)
      BY <2>1 DEF Counted, originals
    <2>3. Reported' /\ Summed'
      BY <2>1, <2>2 DEF RoundTripInv, Reported, Summed, originals
    <2> QED BY <2>1, <2>3 DEF RoundTripInv, Ahead
  <1>4. CASE \/ StartM2Post \/ Correlate \/ EndM2Post \/ Merge \/ StartM9 \/ Resolve \/ Bind
             \/ StartSkosify \/ Pass \/ Serialize \/ EndRoundTrip \/ Dies
    <2>1. case' = case /\ UNCHANGED results
      BY <1>4 DEF StartM2Post, Correlate, EndM2Post, Merge, StartM9, Resolve, Bind, StartSkosify, Pass, Serialize,
                  EndRoundTrip, Dies
    <2>2. at' # "roundtrip"
      BY <1>4 DEF StartM2Post, Correlate, EndM2Post, Merge, StartM9, Resolve, Bind, StartSkosify, Pass, Serialize,
                  EndRoundTrip, Dies
    <2> QED BY <2>1, <2>2, ResultsKept
  <1> QED BY <1>1, <1>2, <1>3, <1>4 DEF RoundTripNext

\* What the invariant says of every field and every count.
LEMMA InvAccounts == RoundTripInv => DiffAccounts
  <1> SUFFICES ASSUME RoundTripInv, NEW f \in Files
               PROVE  /\ \A b \in {b \in DOMAIN reports[f] : b \in DOMAIN originals} :
                           /\ \A i \in DOMAIN originals[b].fields :
                                Cardinality({d \in {d \in reports[f][b].diff : ~d.control} : d.orig = i}) = 1
                           /\ \A i \in DOMAIN reports[f][b].record.fields :
                                Cardinality({d \in {d \in reports[f][b].diff : ~d.control} : d.recon = i}) = 1
                      /\ \A s \in Statuses : summary[f].statuses[s] = Cardinality(Counted(f, s))
    BY DEF DiffAccounts, Counted
  <1>1. ASSUME NEW b \in DOMAIN reports[f], b \in DOMAIN originals
        PROVE  /\ \A i \in DOMAIN originals[b].fields :
                    Cardinality({d \in {d \in reports[f][b].diff : ~d.control} : d.orig = i}) = 1
               /\ \A i \in DOMAIN reports[f][b].record.fields :
                    Cardinality({d \in {d \in reports[f][b].diff : ~d.control} : d.recon = i}) = 1
    <2>1. PICK r : IsRecord(r) /\ reports[f][b].record = r /\ reports[f][b].diff = Diff(originals[b], r, r.skipped)
      BY <1>1 DEF RoundTripInv, Reported
    <2>2. AList(originals[b].controls) /\ AList(originals[b].fields)
      BY <1>1, OriginalsAreLists DEF RoundTripInv
    <2> QED BY <2>1, <2>2, FieldsOnce
  <1>2. \A s \in Statuses : summary[f].statuses[s] = Cardinality(Counted(f, s))
    BY DEF RoundTripInv, Summed
  <1> QED BY <1>1, <1>2

\* EVERY FIELD ACCOUNTED: where no two Manifestations of a graph have one bib id,
\* each report of marc-roundtrip has every data field of the original and of the
\* reconstructed record in one entry, and the summary counts the entries of all
\* reports, whatever was merged, bound, skosified or killed before.
THEOREM EveryFieldAccounted == RoundTripSpec /\ []RoundTripInput => []DiffAccounts
  <1>1. RoundTripSpec /\ []RoundTripInput => []RoundTripInv
    BY RoundTripInvInit, RoundTripInvStep, PTL DEF RoundTripSpec
  <1> QED BY <1>1, InvAccounts, PTL
=============================================================================
