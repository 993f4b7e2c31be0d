----------------------------- MODULE UnionFind -----------------------------
(***************************************************************************)
(* M8's path-compressed union-find (m8/union_find.py), loop iteration by   *)
(* loop iteration, under any sequence of find and union calls.  Works are  *)
(* numbers in the lexicographic order of their URIs.  A work that was      *)
(* never added is its own parent here; the code has no entry for it.       *)
(***************************************************************************)
EXTENDS Classes

CONSTANT Edges   \* the pairs union may be called with: the same_work rows

ASSUME EdgesAssumption == Edges \subseteq Works \X Works

VARIABLES
  known,    \* the keys of _parent
  parent,   \* _parent
  loop,     \* the loop that runs: "idle", "climb", "compress" or "link"
  job,      \* the find that runs: a call of its own, or union's first or second
  arg,      \* union's arguments x and y
  node, root,  \* find's locals x and root
  rx,       \* the root of union's first argument
  unions    \* history: the pairs union was called with

unionFind == <<known, parent, loop, job, arg, node, root, rx, unions>>

\* Locals outside a call.
Unset == <<0, 0>>

UnionFindTypeOK ==
  /\ known \subseteq Works
  /\ parent \in [Works -> Works]
  /\ loop \in {"idle", "climb", "compress", "link"}
  /\ job \in {"find", "first", "second"}
  /\ arg \in Edges \cup {Unset}
  /\ node \in Works \cup {0} /\ root \in Works \cup {0} /\ rx \in Works \cup {0}
  /\ loop \in {"climb", "compress", "link"} => node # 0 /\ root # 0
  /\ job # "find" => arg \in Edges
  /\ job = "second" => rx # 0
  /\ loop = "link" => job = "second"
  /\ unions \subseteq Edges

UnionFindInit ==
  /\ known = {}
  /\ parent = [w \in Works |-> w]
  /\ loop = "idle"
  /\ job = "find"
  /\ arg = Unset
  /\ node = 0 /\ root = 0 /\ rx = 0
  /\ unions = {}

\* find(w) adds w and starts to climb from it.
StartFind(w) ==
  /\ known' = known \cup {w}
  /\ loop' = "climb"
  /\ node' = w /\ root' = w

Add(w) ==
  /\ loop = "idle"
  /\ known' = known \cup {w}
  /\ UNCHANGED <<parent, loop, job, arg, node, root, rx, unions>>

\* A find on its own, as in groups().
Find(w) ==
  /\ loop = "idle"
  /\ StartFind(w)
  /\ job' = "find"
  /\ UNCHANGED <<parent, arg, rx, unions>>

Union(e) ==
  /\ loop = "idle"
  /\ StartFind(e[1])
  /\ job' = "first"
  /\ arg' = e
  /\ UNCHANGED <<parent, rx, unions>>

\* while self._parent[root] != root
Climb ==
  /\ loop = "climb"
  /\ parent[root] # root
  /\ root' = parent[root]
  /\ UNCHANGED <<known, parent, loop, job, arg, node, rx, unions>>

AtRoot ==
  /\ loop = "climb"
  /\ parent[root] = root
  /\ loop' = "compress"
  /\ UNCHANGED <<known, parent, job, arg, node, root, rx, unions>>

\* while self._parent[x] != root: point x at the root, go on with its old parent.
Compress ==
  /\ loop = "compress"
  /\ parent[node] # root
  /\ parent' = [parent EXCEPT ![node] = root]
  /\ node' = parent[node]
  /\ UNCHANGED <<known, loop, job, arg, root, rx, unions>>

\* The call ends.
EndCall ==
  /\ loop' = "idle"
  /\ job' = "find"
  /\ arg' = Unset
  /\ node' = 0 /\ root' = 0 /\ rx' = 0
  /\ UNCHANGED known

\* Mutant of Return: union links its second argument without finding its root.
ReturnNoSecondFind ==
  /\ loop = "compress"
  /\ parent[node] = root
  /\ \/ /\ job = "find"
        /\ EndCall
     \/ /\ job = "first"
        /\ rx' = root
        /\ root' = arg[2]
        /\ loop' = "link"
        /\ known' = known \cup {arg[2]}
        /\ UNCHANGED <<job, arg, node>>
  /\ UNCHANGED <<parent, unions>>

\* find returns root; union's first find is followed by its second.
Return ==
  /\ loop = "compress"
  /\ parent[node] = root
  /\ \/ /\ job = "find"
        /\ EndCall
     \/ /\ job = "first"
        /\ rx' = root
        /\ job' = "second"
        /\ StartFind(arg[2])
        /\ UNCHANGED arg
     \/ /\ job = "second"
        /\ loop' = "link"
        /\ UNCHANGED <<known, job, arg, node, root, rx>>
  /\ UNCHANGED <<parent, unions>>

\* The lexicographically smaller root wins; equal roots are left alone.
Link ==
  /\ loop = "link"
  /\ parent' = IF rx < root THEN [parent EXCEPT ![root] = rx]
               ELSE [parent EXCEPT ![rx] = root]
  /\ unions' = unions \cup {arg}
  /\ EndCall

\* The loops, once a call has begun.
Step == Climb \/ AtRoot \/ Compress \/ Return \/ Link

UnionFindNext ==
  \/ \E w \in Works : Add(w) \/ Find(w)
  \/ \E e \in Edges : Union(e)
  \/ Step

UnionFindSpec == UnionFindInit /\ [][UnionFindNext]_unionFind

-----------------------------------------------------------------------------
\* "Lex-smallest root wins on union so two runs that see decisions in different
\* orders produce the same group representatives": once find's climb has ended
\* its root is the least member of the class the unions generate, whatever the
\* order of the calls and the shape the compressions left.
FindsLeast ==
  loop = "compress" => LeastOfClass(Works, unions, node, root)

\* Compression and linking never close a cycle, so every climb has an end: a
\* parent is a smaller work, and a work outside _parent has none and is none.
Forest ==
  /\ \A w \in Works : parent[w] <= w
  /\ \A w \in Works \ known : parent[w] = w /\ (\A v \in Works : parent[v] = w => v = w)

\* The root each work's parents lead to.
Root == LET top[w \in Works] == IF parent[w] = w THEN w ELSE top[parent[w]] IN top

\* The callers see one union as one step: whatever find does to the parents in
\* between, the groups change only when union links, and then as Joined says.
Groups == INSTANCE Partition WITH nodes <- known, rep <- Root
ImplementsPartition == Groups!PartitionSpec
=============================================================================
