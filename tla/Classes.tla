------------------------------ MODULE Classes ------------------------------
(***************************************************************************)
(* The classes a set of merges generates, without saying how they are      *)
(* computed: two works belong together when no set of works that is closed *)
(* under the merges holds one without the other.  What M8's union-find     *)
(* (UnionFind) and its merge step (MergeGroups) are measured against.      *)
(***************************************************************************)
EXTENDS Integers

CONSTANT Works   \* the raw Works of the corpus and of the decision rows, in the order of their URIs

ASSUME WorksAssumption == Works \subseteq Nat \ {0}

\* A set of works is closed under a set of merged pairs.
Closed(S, pairs) == \A e \in pairs : e[1] \in S <=> e[2] \in S

\* w is in the class of v under the pairs.
Together(works, pairs, v, w) ==
  \A S \in SUBSET works : Closed(S, pairs) => (v \in S <=> w \in S)

\* The least member of a set of works.
IsLeast(r, S) == r \in S /\ \A w \in S : r <= w

\* r is the least member of the class of v.
LeastOfClass(works, pairs, v, r) ==
  /\ Together(works, pairs, v, r)
  /\ \A w \in works : Together(works, pairs, v, w) => r <= w

\* A labelling of the works does not tell merged works apart.
Respects(label, pairs) == \A e \in pairs : label[e[1]] = label[e[2]]

\* A labelling names every class of the pairs by a member no later than any
\* other.
Names(works, pairs, rep) ==
  /\ Respects(rep, pairs)
  /\ \A w \in works : rep[w] <= w /\ Together(works, pairs, w, rep[w])
=============================================================================
