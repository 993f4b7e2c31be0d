----------------------------- MODULE Partition -----------------------------
(***************************************************************************)
(* What M8 takes of its union-find: the works it knows are in groups named *)
(* by their least members, and a union is one step.  UnionFind implements  *)
(* it; MergeGroups makes its groups with it.                               *)
(***************************************************************************)
EXTENDS Classes

VARIABLES
  nodes,   \* works the union-find knows
  rep      \* the root of each work; a work it does not know is its own

\* Mutant of Joined: only the second work changes its group, not its members.
JoinedLeaf(a, b) == [rep EXCEPT ![b] = rep[a]]

\* The groups of a and b under the lesser of their roots.
Joined(a, b) ==
  LET lo == IF rep[a] <= rep[b] THEN rep[a] ELSE rep[b]
      hi == IF rep[a] <= rep[b] THEN rep[b] ELSE rep[a]
  IN  [w \in Works |-> IF rep[w] = hi THEN lo ELSE rep[w]]

NoGroups ==
  /\ nodes = {}
  /\ rep = [w \in Works |-> w]

\* add, and what find and union do to works they meet first.
Admit(w) ==
  /\ nodes' = nodes \cup {w}
  /\ UNCHANGED rep

Join(a, b) ==
  /\ a \in nodes /\ b \in nodes
  /\ rep' = Joined(a, b)
  /\ UNCHANGED nodes

PartitionSpec ==
  NoGroups /\ [][\E w \in Works : Admit(w) \/ \E v \in Works : Join(v, w)]_<<nodes, rep>>
=============================================================================
