--------------------------- MODULE PublishProofs ---------------------------
(***************************************************************************)
(* Proofs about Publish, for any number of loaders and refreshers, any     *)
(* smoke queries, vocabularies and graphs, and any number of starts,       *)
(* rebuilds and failures.                                                  *)
(***************************************************************************)
EXTENDS Publish, FiniteSetTheorems, SequenceTheorems, TLAPS

(* Types.                                                                  *)

\* Only a skosified corpus answers an ASK.
Contents == {x \in [file : Files, ver : Nat, ok : SUBSET Asked] : x.file # "skosified" => x.ok = {}}
Request == [graph : Graphs, file : Files, verb : {"PUT", "POST"}]
Vocabulary == [id : VocabIds, graph : VocabGraphs]
Todos == Seq(Request) \cup Seq(Base) \cup Seq(Asked) \cup Seq(Vocabulary)

Process == [cmd : {"none", "load", "clear", "finto"}, mode : ClearModes \cup {"", "dry", "strict", "force"},
            at : {"idle", "enumerate", "drop", "files", "upload", "smoke", "download"},
            todo : Todos, put : SUBSET (Graphs \X Contents), passed : BOOLEAN, alone : BOOLEAN]

\* Of the store, the files and the processes.
Typed ==
  /\ store \in [Graphs -> SUBSET Contents]
  /\ disk \in [Files -> Contents \cup {None}]
  /\ \A f \in Files : disk[f] # None => disk[f].file = f
  /\ disk["admin"] # None
  /\ builds \in Nat
  /\ client \in [Clients -> Process]

TypeOK ==
  /\ Typed
  /\ stale \subseteq VocabIds
  /\ served = None \/ served \in [put : SUBSET (Graphs \X Contents)]
  /\ torn \subseteq {"load", "clear", "finto"}
  /\ starts \in Nat /\ faults \in Nat

\* The requests of a load: the corpus is PUT, the admin vocabulary follows it.
LoadRequests(t) ==
  /\ t \in Seq(Request) /\ t # <<>>
  /\ \A i \in DOMAIN t :
       /\ t[i].graph \in {"works", "provenance"}
       /\ t[i].graph = "works" => t[i].file \in {"skosified", "admin"}
       /\ t[i].graph = "provenance" => t[i].file = "provenance" /\ t[i].verb = "PUT" /\ i = Len(t)
       /\ t[i].file = "skosified" =>
            i = 1 /\ t[i].verb = "PUT" /\ Len(t) >= 2 /\ t[2].graph = "works" /\ t[2].file = "admin"
       /\ i > 1 /\ t[i].graph = "works" => i = 2 /\ t[1].graph = "works" /\ t[i].verb = "POST"

VocabRequests(t) ==
  /\ t \in Seq(Request) /\ t # <<>>
  /\ \A i \in DOMAIN t : t[i].graph \in VocabGraphs

\* What each step of a process finds to do.
Shape(c) ==
  /\ At(c, "idle") <=> client[c].cmd = "none"
  /\ c \in Loaders => client[c].cmd # "finto"
  /\ c \in Refreshers => client[c].cmd \in {"none", "finto"} /\ client[c].at \in {"idle", "download", "upload"}
  /\ client[c].at \in {"files", "upload", "smoke"} => client[c].cmd # "clear"
  /\ At(c, "drop") => Todo(c) \in Seq(Base) /\ Todo(c) # <<>>
  /\ At(c, "upload") /\ c \in Loaders => LoadRequests(Todo(c))
  /\ At(c, "upload") /\ c \in Refreshers => VocabRequests(Todo(c))
  /\ At(c, "smoke") => Todo(c) \in Seq(Asked)
  /\ At(c, "download") => c \in Refreshers /\ Todo(c) \in Seq(Vocabulary) /\ Todo(c) # <<>>

Shapes == Typed /\ \A c \in Clients : Shape(c)

\* What is to do stays a list of something to do.
LEMMA TodoTypes ==
  /\ <<>> \in Todos /\ Vocabs \in Todos /\ Queries \in Todos
  /\ \A t \in Todos : t # <<>> => Tail(t) \in Todos
  /\ Seq(Request) \subseteq Todos /\ Seq(Base) \subseteq Todos /\ Seq(Asked) \subseteq Todos
  /\ Seq(Vocabulary) \subseteq Todos
  BY PublishAssumption DEF Todos, Vocabulary

\* A process that goes on, one that ends, one that starts.
LEMMA Going ==
  ASSUME Typed, NEW c \in Clients, NEW todo \in Todos,
         NEW at \in {"idle", "enumerate", "drop", "files", "upload", "smoke", "download"}, Go(c, at, todo)
  PROVE  /\ client' \in [Clients -> Process]
         /\ client'[c].at = at /\ client'[c].todo = todo
         /\ client'[c].cmd = client[c].cmd /\ client'[c].put = client[c].put
         /\ client'[c].passed = client[c].passed /\ client'[c].alone = client[c].alone
         /\ client'[c].mode = client[c].mode
         /\ \A d \in Clients \ {c} : client'[d] = client[d]
  <1>1. client[c] \in Process
    BY DEF Typed
  <1> DEFINE p == [client[c] EXCEPT !.at = at, !.todo = todo]
  <1>2. p \in Process
    BY <1>1 DEF Process
  <1>3. client' = [client EXCEPT ![c] = p]
    BY DEF Go
  <1> QED BY <1>1, <1>2, <1>3 DEF Typed, Process

LEMMA Ending ==
  ASSUME Typed, NEW c \in Clients, Ended(c)
  PROVE  /\ client' \in [Clients -> Process] /\ client'[c] = Idle
         /\ client'[c].at = "idle" /\ client'[c].cmd = "none"
         /\ \A d \in Clients \ {c} : client'[d] = client[d]
  <1>1. /\ Idle.at = "idle" /\ Idle.cmd = "none"
    BY DEF Idle
  <1>3. Idle \in Process
    <2>1. <<>> \in Todos
      BY TodoTypes
    <2> QED BY <2>1 DEF Idle, Process
  <1>2. client' = [client EXCEPT ![c] = Idle] /\ client \in [Clients -> Process]
    BY DEF Ended, Typed
  <1> QED BY <1>1, <1>2, <1>3

\* What a process that starts does to it and to the others.
Begun(c, cmd, at, todo) ==
  /\ client' \in [Clients -> Process] /\ client[c].at = "idle"
  /\ client'[c].at = at /\ client'[c].todo = todo /\ client'[c].cmd = cmd /\ client'[c].put = {}
  /\ client'[c].alone <=> \A d \in Loaders \ {c} : ~Writing(d)
  /\ \A d \in Clients \ {c} :
       /\ client'[d].at = client[d].at /\ client'[d].todo = client[d].todo
       /\ client'[d].cmd = client[d].cmd /\ client'[d].put = client[d].put
       /\ client'[d].passed = client[d].passed
       /\ client'[d].alone <=> client[d].alone /\ ~(d \in Loaders /\ Writing(d))

LEMMA Starting ==
  ASSUME Typed, NEW c \in Clients, NEW todo \in Todos, NEW mode \in ClearModes \cup {"", "dry", "strict", "force"},
         NEW cmd \in {"load", "clear", "finto"}, NEW at \in {"enumerate", "files", "download"},
         Started(c, cmd, mode, at, todo)
  PROVE  Begun(c, cmd, at, todo)
  <1> DEFINE others == {d \in Loaders \ {c} : Writing(d)}
             p == [Idle EXCEPT !.cmd = cmd, !.mode = mode, !.at = at, !.todo = todo, !.alone = others = {}]
  <1>1. /\ p \in Process /\ p.at = at /\ p.todo = todo /\ p.cmd = cmd /\ p.put = {}
        /\ p.alone = (others = {})
    BY DEF Idle, Process
  <1>2. client' = [d \in Clients |-> IF d = c THEN p
                                     ELSE IF d \in others THEN [client[d] EXCEPT !.alone = FALSE] ELSE client[d]]
    BY DEF Started
  <1> HIDE DEF p
  <1>3. ASSUME NEW d \in Clients
        PROVE  /\ client[d] \in Process /\ [client[d] EXCEPT !.alone = FALSE] \in Process
               /\ [client[d] EXCEPT !.alone = FALSE].alone = FALSE
               /\ [client[d] EXCEPT !.alone = FALSE].at = client[d].at
               /\ [client[d] EXCEPT !.alone = FALSE].todo = client[d].todo
               /\ [client[d] EXCEPT !.alone = FALSE].cmd = client[d].cmd
               /\ [client[d] EXCEPT !.alone = FALSE].put = client[d].put
               /\ [client[d] EXCEPT !.alone = FALSE].passed = client[d].passed
    <2>1. client[d] \in Process
      BY DEF Typed
    <2> QED BY ONLY <2>1 DEF Process
  <1>4. client' \in [Clients -> Process]
    BY <1>1, <1>2, <1>3
  <1>5. client'[c] = p
    BY <1>2
  <1>6. ASSUME NEW d \in Clients \ {c}
        PROVE  /\ client'[d].at = client[d].at /\ client'[d].todo = client[d].todo
               /\ client'[d].cmd = client[d].cmd /\ client'[d].put = client[d].put
               /\ client'[d].passed = client[d].passed
               /\ client'[d].alone <=> client[d].alone /\ ~(d \in Loaders /\ Writing(d))
    <2>1. CASE d \in others
      BY <1>2, <1>3, <2>1
    <2>2. CASE d \notin others
      <3>1. client'[d] = client[d] /\ ~(d \in Loaders /\ Writing(d)) /\ client[d].alone \in BOOLEAN
        BY <1>2, <1>3, <2>2 DEF Process
      <3> QED BY <3>1
    <2> QED BY <2>1, <2>2
  <1>7. client[c].at = "idle"
    BY DEF Started, At
  <1> QED BY <1>1, <1>4, <1>5, <1>6, <1>7 DEF Begun

\* A step of one process leaves what the others find.
LEMMA ShapeOthers ==
  ASSUME Shapes, NEW c \in Clients, Shape(c)',
         \A d \in Clients \ {c} : /\ client'[d].at = client[d].at /\ client'[d].todo = client[d].todo
                                  /\ client'[d].cmd = client[d].cmd
  PROVE  \A d \in Clients : Shape(d)'
  <1>1. ASSUME NEW d \in Clients \ {c} PROVE Shape(d)'
    BY <1>1 DEF Shapes, Shape, At, Todo
  <1> QED BY <1>1

LEMMA ClientsOf == Loaders \subseteq Clients /\ Refreshers \subseteq Clients
  BY DEF Clients

\* What a process that ends leaves behind.
LEMMA ShapeEnds ==
  ASSUME Shapes, NEW c \in Clients, Ended(c)
  PROVE  client' \in [Clients -> Process] /\ \A d \in Clients : Shape(d)'
  <1>0. Typed
    BY DEF Shapes
  <1>1. Shape(c)'
    BY <1>0, Ending DEF Shape, At
  <1> QED BY <1>0, <1>1, Ending, ShapeOthers

\* The files that a process finds.
LEMMA FilesThere ==
  ASSUME Typed, NEW f \in Files, disk[f] # None
  PROVE  disk[f] \in Contents /\ disk[f].file = f
  BY DEF Typed

\* What FindFiles plans.
LEMMA OneFile ==
  ASSUME NEW f \in Files
  PROVE  /\ Present(f) \in Seq(Files)
         /\ disk[f] = None => Len(Present(f)) = 0
         /\ disk[f] # None => Len(Present(f)) = 1 /\ Present(f)[1] = f
  BY DEF Present

\* There is always an admin vocabulary; it comes last.
LEMMA WorksPlanned ==
  ASSUME Typed
  PROVE  LET works == Present("skosified") \o Present("admin")
         IN  /\ works \in Seq(Files)
             /\ \/ Len(works) = 1 /\ works[1] = "admin"
                \/ Len(works) = 2 /\ works[1] = "skosified" /\ works[2] = "admin"
  <1> DEFINE a == Present("skosified")
             b == Present("admin")
  <1>1. disk["admin"] # None /\ "admin" \in Files /\ "skosified" \in Files
    BY DEF Typed, Files
  <1>2. b \in Seq(Files) /\ Len(b) = 1 /\ b[1] = "admin"
    BY <1>1, OneFile
  <1>3. a \in Seq(Files) /\ (Len(a) = 0 \/ (Len(a) = 1 /\ a[1] = "skosified"))
    BY <1>1, OneFile
  <1> HIDE DEF a, b
  <1>4. /\ a \o b \in Seq(Files) /\ Len(a \o b) = Len(a) + Len(b)
        /\ \A i \in 1 .. Len(a \o b) : (a \o b)[i] = IF i <= Len(a) THEN a[i] ELSE b[i - Len(a)]
    BY <1>2, <1>3, ConcatProperties
  <1>5. CASE Len(a) = 0
    BY <1>2, <1>4, <1>5 DEF a, b
  <1>6. CASE Len(a) = 1
    BY <1>2, <1>3, <1>4, <1>6 DEF a, b
  <1> QED BY <1>3, <1>5, <1>6

\* upload_graph, request by request.
LEMMA Uploads ==
  ASSUME NEW files \in Seq(Files), NEW g \in Graphs
  PROVE  /\ UploadGraph(g, files) \in Seq(Request) /\ Len(UploadGraph(g, files)) = Len(files)
         /\ \A i \in 1 .. Len(files) : /\ UploadGraph(g, files)[i].graph = g
                                       /\ UploadGraph(g, files)[i].file = files[i]
                                       /\ UploadGraph(g, files)[i].verb = IF i = 1 THEN "PUT" ELSE "POST"
  <1>1. DOMAIN files = 1 .. Len(files) /\ Len(files) \in Nat /\ \A i \in 1 .. Len(files) : files[i] \in Files
    OBVIOUS
  <1>2. UploadGraph(g, files) \in [1 .. Len(files) -> Request]
    BY <1>1 DEF UploadGraph, Request
  <1> QED BY <1>1, <1>2 DEF UploadGraph

\* What FindFiles plans is the requests of a load.
LEMMA LoadPlanned ==
  ASSUME Typed
  PROVE  LET works == Present("skosified") \o Present("admin")
             t == UploadGraph("works", works) \o UploadGraph("provenance", Present("provenance"))
         IN  works # <<>> /\ LoadRequests(t) /\ t[1].verb = "PUT"
  <1> DEFINE works == Present("skosified") \o Present("admin")
             up == UploadGraph("works", works)
             pr == UploadGraph("provenance", Present("provenance"))
             t == up \o pr
  <1>1. /\ works \in Seq(Files)
        /\ \/ Len(works) = 1 /\ works[1] = "admin"
           \/ Len(works) = 2 /\ works[1] = "skosified" /\ works[2] = "admin"
    BY WorksPlanned
  <1>2. "provenance" \in Files /\ "works" \in Graphs /\ "provenance" \in Graphs
    BY DEF Files, Graphs
  <1>5. works # <<>>
    BY <1>1
  <1> HIDE DEF works
  <1>3. /\ up \in Seq(Request) /\ Len(up) \in {1, 2}
        /\ \A i \in 1 .. Len(up) : up[i].graph = "works" /\ up[i].file \in {"skosified", "admin"}
        /\ up[1].verb = "PUT" /\ (Len(up) = 1 => up[1].file = "admin")
        /\ Len(up) = 2 => up[2].file = "admin" /\ up[2].verb = "POST"
    BY <1>1, <1>2, Uploads
  <1>4. /\ pr \in Seq(Request) /\ Len(pr) \in {0, 1}
        /\ Len(pr) = 1 => pr[1].graph = "provenance" /\ pr[1].file = "provenance" /\ pr[1].verb = "PUT"
    BY <1>2, OneFile, Uploads
  <1> HIDE DEF up, pr
  <1>6. /\ t \in Seq(Request) /\ Len(t) = Len(up) + Len(pr) /\ DOMAIN t = 1 .. Len(t)
        /\ \A i \in 1 .. Len(t) : t[i] = IF i <= Len(up) THEN up[i] ELSE pr[i - Len(up)]
    BY <1>3, <1>4
  <1>7. t # <<>>
    BY <1>3, <1>4, <1>6
  <1> HIDE DEF t
  <1>8. ASSUME NEW i \in DOMAIN t
        PROVE  /\ t[i].graph \in {"works", "provenance"}
               /\ t[i].graph = "works" => t[i].file \in {"skosified", "admin"}
               /\ t[i].graph = "provenance" => t[i].file = "provenance" /\ t[i].verb = "PUT" /\ i = Len(t)
               /\ t[i].file = "skosified" =>
                    i = 1 /\ t[i].verb = "PUT" /\ Len(t) >= 2 /\ t[2].graph = "works" /\ t[2].file = "admin"
               /\ i > 1 /\ t[i].graph = "works" => i = 2 /\ t[1].graph = "works" /\ t[i].verb = "POST"
    <2>1. CASE i = 1
      BY <1>3, <1>4, <1>6, <2>1
    <2>2. CASE i = 2 /\ Len(up) = 2
      BY <1>3, <1>4, <1>6, <2>2
    <2>3. CASE i > Len(up)
      BY <1>3, <1>4, <1>6, <2>3
    <2> QED BY <1>3, <1>4, <1>6, <2>1, <2>2, <2>3
  <1>9. LoadRequests(t)
    BY <1>6, <1>7, <1>8 DEF LoadRequests
  <1>10. t[1].verb = "PUT"
    BY <1>3, <1>4, <1>6
  <1> QED BY <1>5, <1>9, <1>10 DEF t, up, pr, works

\* A list that has more than its head.
LEMMA SeqParts ==
  ASSUME NEW S, NEW t \in Seq(S), t # <<>>, Len(t) # 1
  PROVE  /\ Len(t) \in Nat /\ Len(t) > 1 /\ DOMAIN t = 1 .. Len(t)
         /\ Tail(t) \in Seq(S) /\ Tail(t) # <<>> /\ Len(Tail(t)) = Len(t) - 1
         /\ DOMAIN Tail(t) = 1 .. Len(t) - 1
         /\ \A i \in DOMAIN Tail(t) : Tail(t)[i] = t[i + 1] /\ i + 1 \in DOMAIN t /\ i + 1 > 1 /\ i \in Nat
  OBVIOUS

\* Once the first request is done no corpus is left to do.
LEMMA LoadRest ==
  ASSUME NEW t, LoadRequests(t), Len(t) # 1
  PROVE  LoadRequests(Tail(t))
  <1>1. t \in Seq(Request) /\ t # <<>>
    BY DEF LoadRequests
  <1>2. /\ Len(t) \in Nat /\ Len(t) > 1 /\ DOMAIN t = 1 .. Len(t)
        /\ Tail(t) \in Seq(Request) /\ Tail(t) # <<>> /\ Len(Tail(t)) = Len(t) - 1
        /\ DOMAIN Tail(t) = 1 .. Len(t) - 1
        /\ \A i \in DOMAIN Tail(t) : Tail(t)[i] = t[i + 1] /\ i + 1 \in DOMAIN t /\ i + 1 > 1 /\ i \in Nat
    BY <1>1, SeqParts
  <1>4. ASSUME NEW i \in DOMAIN Tail(t)
        PROVE  /\ Tail(t)[i].graph \in {"works", "provenance"}
               /\ Tail(t)[i].graph = "works" => Tail(t)[i].file \in {"skosified", "admin"}
               /\ Tail(t)[i].graph = "provenance" =>
                    Tail(t)[i].file = "provenance" /\ Tail(t)[i].verb = "PUT" /\ i = Len(Tail(t))
               /\ Tail(t)[i].file # "skosified"
               /\ ~(i > 1 /\ Tail(t)[i].graph = "works")
    BY <1>1, <1>2 DEF LoadRequests
  <1> QED BY <1>2, <1>4 DEF LoadRequests

LEMMA VocabRest ==
  ASSUME NEW t, VocabRequests(t), Len(t) # 1
  PROVE  VocabRequests(Tail(t))
  BY SeqParts DEF VocabRequests

\* The groups of load-finto.
LEMMA VocabPlanned ==
  ASSUME NEW p \in GroupedOrders
  PROVE  VocabRequests(UploadVocabs(p))
  <1>1. /\ p \in [DOMAIN Vocabs -> DOMAIN Vocabs] /\ DOMAIN Vocabs = 1 .. Len(Vocabs)
        /\ Len(Vocabs) \in Nat /\ Len(Vocabs) > 0
    BY PublishAssumption DEF GroupedOrders
  <1>2. ASSUME NEW i \in DOMAIN p
        PROVE  Vocabs[p[i]].graph \in VocabGraphs /\ Vocabs[p[i]].id \in VocabIds
    BY <1>1 DEF VocabGraphs, VocabIds
  <1>3. UploadVocabs(p) \in [1 .. Len(Vocabs) -> Request]
    BY <1>1, <1>2 DEF UploadVocabs, Request, Graphs, Files
  <1>4. UploadVocabs(p) \in Seq(Request) /\ UploadVocabs(p) # <<>>
    BY <1>1, <1>3
  <1>5. ASSUME NEW i \in DOMAIN UploadVocabs(p) PROVE UploadVocabs(p)[i].graph \in VocabGraphs
    BY <1>2 DEF UploadVocabs
  <1> QED BY <1>4, <1>5 DEF VocabRequests

\* What clear-fuseki goes through.
LEMMA Listing ==
  ASSUME NEW s \in Sorted(GraphsUnderPrefix), GraphsUnderPrefix # {}
  PROVE  s \in Seq(Base) /\ s # <<>>
  <1>1. GraphsUnderPrefix \subseteq Base /\ IsFiniteSet(GraphsUnderPrefix)
    BY PublishAssumption, FS_Subset DEF GraphsUnderPrefix
  <1>2. Cardinality(GraphsUnderPrefix) \in Nat /\ Cardinality(GraphsUnderPrefix) > 0
    BY <1>1, FS_CardinalityType, FS_EmptySet
  <1>3. s \in [1 .. Cardinality(GraphsUnderPrefix) -> Base]
    BY <1>1 DEF Sorted
  <1> QED BY <1>2, <1>3

\* What one request of an upload does.
Request1(c) == Head(Todo(c))
AfterRequest(c) ==
  [store EXCEPT ![Request1(c).graph] =
     IF Request1(c).verb = "PUT" THEN {disk[Request1(c).file]} ELSE @ \cup {disk[Request1(c).file]}]

\* A request and the content it sends.
LEMMA RequestTyped ==
  ASSUME Shapes, NEW c \in Clients, At(c, "upload")
  PROVE  /\ Todo(c) \in Seq(Request) /\ Todo(c) # <<>> /\ Request1(c) = Todo(c)[1] /\ Request1(c) \in Request
         /\ 1 \in DOMAIN Todo(c) /\ Len(Todo(c)) \in Nat
         /\ c \in Loaders => LoadRequests(Todo(c)) /\ client[c].cmd = "load"
         /\ c \in Refreshers => VocabRequests(Todo(c)) /\ client[c].cmd = "finto"
         /\ disk[Request1(c).file] # None => /\ disk[Request1(c).file] \in Contents
                                            /\ disk[Request1(c).file].file = Request1(c).file
  <1>1. c \in Loaders \/ c \in Refreshers
    BY DEF Clients
  <1>2. client[c].cmd \in {"none", "load", "clear", "finto"}
    BY DEF Shapes, Typed, Process
  <1>3. Shape(c)
    BY DEF Shapes
  <1>4. /\ c \in Loaders => LoadRequests(Todo(c)) /\ client[c].cmd = "load"
        /\ c \in Refreshers => VocabRequests(Todo(c)) /\ client[c].cmd = "finto"
    BY <1>2, <1>3 DEF Shape, At
  <1>5. Todo(c) \in Seq(Request) /\ Todo(c) # <<>>
    BY <1>1, <1>4 DEF LoadRequests, VocabRequests
  <1>6. /\ Len(Todo(c)) \in Nat /\ 1 \in DOMAIN Todo(c) /\ Head(Todo(c)) = Todo(c)[1] /\ Todo(c)[1] \in Request
    BY <1>5
  <1>7. Request1(c).file \in Files
    BY <1>6 DEF Request1, Request
  <1> QED BY <1>4, <1>5, <1>6, <1>7, FilesThere DEF Request1, Shapes

\* What one step of an upload leaves: it dies, it was the last, or the next is due.
LEMMA RequestDone ==
  ASSUME Shapes, NEW c \in Clients, Upload(c)
  PROVE  /\ At(c, "upload") /\ UNCHANGED <<disk, stale, served, starts, builds>>
         /\ \/ Dies(c) /\ (store' = store \/ (store' = AfterRequest(c) /\ disk[Request1(c).file] # None))
            \/ /\ disk[Request1(c).file] # None /\ store' = AfterRequest(c) /\ torn' = torn
               /\ Ended(c) /\ c \in Refreshers /\ Len(Todo(c)) = 1
            \/ /\ disk[Request1(c).file] # None /\ store' = AfterRequest(c) /\ torn' = torn
               /\ client'[c].at = IF Len(Todo(c)) = 1 THEN "smoke" ELSE "upload"
               /\ client'[c].todo = IF Len(Todo(c)) = 1 THEN Queries ELSE Tail(Todo(c))
               /\ client'[c].put = client[c].put \cup {<<Request1(c).graph, disk[Request1(c).file]>>}
               /\ client'[c].cmd = client[c].cmd
               /\ client'[c].passed = client[c].passed /\ client'[c].alone = client[c].alone
               /\ client' \in [Clients -> Process]
               /\ \A d \in Clients \ {c} : client'[d] = client[d]
               /\ c \in Refreshers => Len(Todo(c)) # 1
  <1>1. At(c, "upload") /\ UNCHANGED <<disk, stale, served, starts, builds>>
    BY DEF Upload
  <1>2. CASE Dies(c)
    BY <1>1, <1>2 DEF Upload, AfterRequest, Request1
  <1>3. CASE ~Dies(c)
    <2> DEFINE x == disk[Request1(c).file]
    <2>1. x # None /\ store' = AfterRequest(c) /\ torn' = torn
      BY <1>3 DEF Upload, AfterRequest, Request1
    <2>2. CASE Len(Todo(c)) = 1 /\ client[c].cmd = "finto"
      <3>1. Ended(c)
        BY <1>3, <2>2 DEF Upload
      <3>2. c \in Refreshers
        BY <1>1, <2>2, RequestTyped DEF Clients
      <3> QED BY <1>1, <2>1, <2>2, <3>1, <3>2
    <2>3. CASE ~(Len(Todo(c)) = 1 /\ client[c].cmd = "finto")
      <3> DEFINE at == IF Len(Todo(c)) = 1 THEN "smoke" ELSE "upload"
                 put == client[c].put \cup {<<Request1(c).graph, x>>}
                 todo == IF Len(Todo(c)) = 1 THEN Queries ELSE Tail(Todo(c))
      <3>1. client' = [client EXCEPT ![c].put = @ \cup {<<Request1(c).graph, x>>},
                                     ![c].at = IF Len(Todo(c)) = 1 THEN "smoke" ELSE "upload",
                                     ![c].todo = IF Len(Todo(c)) = 1 THEN Queries ELSE Tail(@)]
        BY <1>3, <2>3 DEF Upload, Request1
      <3>2. client[c] \in Process
        BY DEF Shapes, Typed
      <3>3. /\ Request1(c).graph \in Graphs /\ x \in Contents
        BY <1>1, <2>1, RequestTyped DEF Request
      <3>4. put \in SUBSET (Graphs \X Contents)
        <4>1. client[c].put \subseteq Graphs \X Contents
          BY <3>2 DEF Process
        <4>2. <<Request1(c).graph, x>> \in Graphs \X Contents
          BY <3>3
        <4> QED BY <4>1, <4>2
      <3>5. todo \in Todos
        <4>1. Todo(c) \in Todos /\ Todo(c) # <<>>
          BY <1>1, RequestTyped, TodoTypes
        <4> QED BY <4>1, TodoTypes
      <3>6. client'[c] = [client[c] EXCEPT !.put = put, !.at = at, !.todo = todo]
        BY <3>1 DEF Shapes, Typed, Todo
      <3> HIDE DEF put, at, todo
      <3>7. at \in {"smoke", "upload"}
        BY DEF at
      <3>8. /\ client'[c] \in Process /\ client'[c].at = at /\ client'[c].todo = todo /\ client'[c].put = put
            /\ client'[c].cmd = client[c].cmd
            /\ client'[c].passed = client[c].passed /\ client'[c].alone = client[c].alone
        BY <3>2, <3>4, <3>5, <3>6, <3>7 DEF Process
      <3>9. client' \in [Clients -> Process] /\ \A d \in Clients \ {c} : client'[d] = client[d]
        BY <3>1, <3>8 DEF Shapes, Typed
      <3>10. c \in Refreshers => Len(Todo(c)) # 1
        BY <1>1, <2>3, RequestTyped
      <3> QED BY <1>1, <2>1, <3>8, <3>9, <3>10 DEF put, at, todo
    <2> QED BY <2>2, <2>3
  <1> QED BY <1>2, <1>3

\* The store after a request.
LEMMA StoreTyped ==
  ASSUME Shapes, NEW c \in Clients, At(c, "upload"), disk[Request1(c).file] # None
  PROVE  /\ AfterRequest(c) \in [Graphs -> SUBSET Contents]
         /\ AfterRequest(c)[Request1(c).graph] =
              IF Request1(c).verb = "PUT" THEN {disk[Request1(c).file]}
              ELSE store[Request1(c).graph] \cup {disk[Request1(c).file]}
         /\ \A g \in Graphs \ {Request1(c).graph} : AfterRequest(c)[g] = store[g]
  <1>1. Request1(c).graph \in Graphs /\ disk[Request1(c).file] \in Contents /\ store \in [Graphs -> SUBSET Contents]
    BY RequestTyped DEF Request, Shapes, Typed
  <1> QED BY <1>1 DEF AfterRequest

LEMMA ShapeUpload ==
  ASSUME Shapes, NEW c \in Clients, Upload(c)
  PROVE  Shapes'
  <1>1. store' \in [Graphs -> SUBSET Contents]
    BY RequestDone, StoreTyped DEF Shapes, Typed
  <1>2. client' \in [Clients -> Process] /\ \A d \in Clients : Shape(d)'
    <2>1. CASE Ended(c)
      BY <2>1, ShapeEnds
    <2>2. CASE ~Ended(c)
      <3>1. /\ client'[c].at = IF Len(Todo(c)) = 1 THEN "smoke" ELSE "upload"
            /\ client'[c].todo = IF Len(Todo(c)) = 1 THEN Queries ELSE Tail(Todo(c))
            /\ client'[c].cmd = client[c].cmd
            /\ client' \in [Clients -> Process]
            /\ \A d \in Clients \ {c} : client'[d] = client[d]
            /\ c \in Refreshers => Len(Todo(c)) # 1
            /\ At(c, "upload")
        BY <2>2, RequestDone DEF Dies
      <3>2. Shape(c) /\ Loaders \cap Refreshers = {} /\ Queries \in Seq(Asked)
        BY PublishAssumption DEF Shapes
      <3>3. Len(Todo(c)) # 1 => /\ c \in Loaders => LoadRequests(Tail(Todo(c)))
                                /\ c \in Refreshers => VocabRequests(Tail(Todo(c)))
        BY <3>1, RequestTyped, LoadRest, VocabRest
      <3>4. Shape(c)'
        BY <3>1, <3>2, <3>3 DEF Shape, At, Todo
      <3> QED BY <3>1, <3>4, ShapeOthers
    <2> QED BY <2>1, <2>2
  <1>3. UNCHANGED <<disk, builds>>
    BY DEF Upload
  <1> QED BY <1>1, <1>2, <1>3 DEF Shapes, Typed

\* The initial states.
LEMMA ShapeFirst == Init => Shapes
  <1> SUFFICES ASSUME Init PROVE Shapes
    OBVIOUS
  <1>1. disk = [f \in Files |-> IF f \in DOMAIN FirstBuild THEN FirstBuild[f] ELSE None]
    BY DEF Init
  <1>2. /\ DOMAIN FirstBuild = {"skosified", "admin", "provenance"}
        /\ \A f \in DOMAIN FirstBuild : FirstBuild[f] \in Contents /\ FirstBuild[f].file = f
    BY DEF FirstBuild, Content, Contents, Files
  <1>3. \A f \in {"skosified", "admin", "provenance"} : f \in Files /\ disk[f] = FirstBuild[f]
    BY <1>1, <1>2 DEF Files
  <1>4. disk \in [Files -> Contents \cup {None}] /\ \A f \in Files : disk[f] # None => disk[f].file = f
    BY <1>1, <1>2
  <1>5. store \in [Graphs -> SUBSET Contents]
    BY <1>2, <1>3 DEF Init
  <1>6. None \notin Contents
    BY PublishAssumption DEF Contents
  <1>7. Idle \in Process /\ Idle.at = "idle" /\ Idle.cmd = "none"
    BY TodoTypes DEF Idle, Process
  <1>8. client = [c \in Clients |-> Idle]
    BY DEF Init
  <1> QED BY <1>2, <1>3, <1>4, <1>5, <1>6, <1>7, <1>8 DEF Init, Shapes, Typed, Shape, At

\* The steps of Next that are of no process.
World == \/ \E ok \in SUBSET Asked, prov \in BOOLEAN : Build(ok, prov)
         \/ DumpsAge

LEMMA ShapeWorld ==
  ASSUME Shapes, World
  PROVE  Shapes' /\ UNCHANGED <<store, client, served, torn>>
  <1>1. CASE DumpsAge
    BY <1>1 DEF DumpsAge, Shapes, Typed, Shape, At, Todo
  <1>2. ASSUME NEW ok \in SUBSET Asked, NEW prov \in BOOLEAN, Build(ok, prov)
        PROVE  Shapes' /\ UNCHANGED <<store, client, served, torn>>
    <2>1. builds' \in Nat
      BY <1>2 DEF Build, Shapes, Typed
    <2>2. /\ Content("skosified", builds', ok) \in Contents /\ Content("skosified", builds', ok).file = "skosified"
          /\ Content("provenance", builds', {}) \in Contents /\ Content("provenance", builds', {}).file = "provenance"
      BY <2>1 DEF Content, Contents, Files
    <2> DEFINE sk == IF ok = {} THEN None ELSE Content("skosified", builds', ok)
               pv == IF prov THEN Content("provenance", builds', {}) ELSE None
    <2>3. /\ sk \in Contents \cup {None} /\ (sk # None => sk.file = "skosified")
          /\ pv \in Contents \cup {None} /\ (pv # None => pv.file = "provenance")
      BY <2>2
    <2>4. disk' = [disk EXCEPT !["skosified"] = sk, !["provenance"] = pv]
      BY <1>2 DEF Build
    <2> HIDE DEF sk, pv
    <2>5. /\ disk' \in [Files -> Contents \cup {None}] /\ disk'["admin"] = disk["admin"]
          /\ \A f \in Files : disk'[f] # None => disk'[f].file = f
      <3>1. /\ {"skosified", "admin", "provenance"} \subseteq Files
            /\ disk \in [Files -> Contents \cup {None}] /\ \A f \in Files : disk[f] # None => disk[f].file = f
        BY DEF Files, Shapes, Typed
      <3>2. disk' = [f \in Files |-> IF f = "provenance" THEN pv ELSE IF f = "skosified" THEN sk ELSE disk[f]]
        BY <2>4, <3>1
      <3> QED BY <2>3, <3>1, <3>2
    <2> QED BY <1>2, <2>1, <2>5 DEF Build, Shapes, Typed, Shape, At, Todo
  <1> QED BY <1>1, <1>2 DEF World

\* The processes of Next that start.
Starts(c) ==
  \/ c \in Loaders /\ \E m \in ClearModes : StartLoad(c, m)
  \/ c \in Loaders /\ \E m \in {"dry", "strict", "force"} : StartClear(c, m)
  \/ c \in Refreshers /\ \E force \in BOOLEAN : StartFinto(c, force)

\* A process that starts, whichever command it is.
Begins(c, cmd, mode, at, todo) ==
  /\ Started(c, cmd, mode, at, todo)
  /\ cmd = "finto" <=> c \in Refreshers
  /\ cmd = "finto" => at = "download" /\ todo = Vocabs
  /\ cmd # "finto" => at # "download" /\ c \in Loaders /\ served' = None
  /\ cmd = "finto" => served' = served
  /\ at = "files" => cmd = "load"

\* Every start is one of these.
LEMMA StartBegins ==
  ASSUME NEW c \in Clients, Starts(c)
  PROVE  \E cmd \in {"load", "clear", "finto"}, mode \in ClearModes \cup {"", "dry", "strict", "force"},
            at \in {"enumerate", "files", "download"}, todo \in Todos : Begins(c, cmd, mode, at, todo)
  <1>0. <<>> \in Todos /\ Vocabs \in Todos /\ Loaders \cap Refreshers = {}
    BY TodoTypes, PublishAssumption
  <1>1. ASSUME NEW m \in ClearModes, c \in Loaders, StartLoad(c, m)
        PROVE  Begins(c, "load", m, "files", <<>>) \/ Begins(c, "load", m, "enumerate", <<>>)
    <2>1. CASE m = "false"
      BY <1>0, <1>1, <2>1 DEF StartLoad, Begins
    <2>2. CASE m # "false"
      BY <1>0, <1>1, <2>2 DEF StartLoad, Begins
    <2> QED BY <2>1, <2>2
  <1>2. ASSUME NEW m \in {"dry", "strict", "force"}, c \in Loaders, StartClear(c, m)
        PROVE  Begins(c, "clear", m, "enumerate", <<>>)
    BY <1>0, <1>2 DEF StartClear, Begins
  <1>3. ASSUME NEW force \in BOOLEAN, c \in Refreshers, StartFinto(c, force)
        PROVE  Begins(c, "finto", IF force THEN "force" ELSE "", "download", Vocabs)
    BY <1>0, <1>3 DEF StartFinto, Begins
  <1>4. ASSUME NEW force \in BOOLEAN
        PROVE  (IF force THEN "force" ELSE "") \in ClearModes \cup {"", "dry", "strict", "force"}
    OBVIOUS
  <1> QED BY <1>0, <1>1, <1>2, <1>3, <1>4, Zenon DEF Starts

LEMMA ShapeStart ==
  ASSUME Shapes, NEW c \in Clients, NEW cmd \in {"load", "clear", "finto"},
         NEW mode \in ClearModes \cup {"", "dry", "strict", "force"}, NEW at \in {"enumerate", "files", "download"},
         NEW todo \in Todos, Begins(c, cmd, mode, at, todo)
  PROVE  Shapes' /\ UNCHANGED <<store, disk, stale, torn, builds>>
  <1>0. Typed /\ Shape(c) /\ Vocabs \in Seq(Vocabulary) /\ Vocabs # <<>> /\ Loaders \cap Refreshers = {}
    BY PublishAssumption DEF Shapes, Vocabulary
  <1>1. Started(c, cmd, mode, at, todo)
    BY DEF Begins
  <1>2. /\ client' \in [Clients -> Process]
        /\ client'[c].at = at /\ client'[c].todo = todo /\ client'[c].cmd = cmd
        /\ \A d \in Clients \ {c} : /\ client'[d].at = client[d].at /\ client'[d].todo = client[d].todo
                                    /\ client'[d].cmd = client[d].cmd
    <2>1. Typed
      BY <1>0
    <2>2. Begun(c, cmd, at, todo)
      BY ONLY <2>1, <1>1, Starting, cmd \in {"load", "clear", "finto"}, todo \in Todos,
              mode \in ClearModes \cup {"", "dry", "strict", "force"}, at \in {"enumerate", "files", "download"}, c \in Clients
    <2> QED BY ONLY <2>2 DEF Begun
  <1>3. Shape(c)'
    BY <1>0, <1>2 DEF Shape, At, Todo, Begins
  <1>4. UNCHANGED <<store, disk, stale, torn, builds>>
    BY <1>1 DEF Started
  <1> QED BY <1>2, <1>3, <1>4, ShapeOthers DEF Shapes, Typed

\* A step of a process that only goes on in its program or ends.
LEMMA ShapeGoes ==
  ASSUME Shapes, NEW c \in Clients, NEW todo \in Todos,
         NEW at \in {"idle", "enumerate", "drop", "files", "upload", "smoke", "download"}, Go(c, at, todo),
         UNCHANGED builds, store' \in [Graphs -> SUBSET Contents], disk' \in [Files -> Contents \cup {None}],
         \A f \in Files : disk'[f] # None => disk'[f].file = f, disk'["admin"] # None,
         Shape(c)'
  PROVE  Shapes'
  BY Going, ShapeOthers DEF Shapes, Typed

\* A step of a process that ends.
LEMMA ShapeDone ==
  ASSUME Shapes, NEW c \in Clients, Ended(c), UNCHANGED <<builds, disk>>, store' \in [Graphs -> SUBSET Contents]
  PROVE  Shapes'
  BY ShapeEnds DEF Shapes, Typed

\* A deletion leaves the store a store.
LEMMA StoreKept ==
  ASSUME Shapes, NEW g, store' \in {store, [store EXCEPT ![g] = {}]}
  PROVE  store' \in [Graphs -> SUBSET Contents]
  BY DEF Shapes, Typed

\* Only a loader clears, looks for files or asks.
LEMMA LoaderOf ==
  ASSUME Shapes, NEW c \in Clients, client[c].at \in {"enumerate", "drop", "files", "smoke"}
  PROVE  c \in Loaders /\ c \notin Refreshers /\ client[c].cmd \in {"load", "clear"} /\ Shape(c)
  <1>1. Shape(c) /\ Loaders \cap Refreshers = {} /\ client[c] \in Process
    BY PublishAssumption DEF Shapes, Typed
  <1>2. c \in Loaders \/ c \in Refreshers
    BY DEF Clients
  <1>3. client[c].cmd \in {"none", "load", "clear", "finto"}
    BY <1>1 DEF Process
  <1> QED BY <1>1, <1>2, <1>3 DEF Shape, At

\* The step after the clear.
LEMMA ShapeCleared ==
  ASSUME Shapes, NEW c \in Clients, client[c].at \in {"enumerate", "drop"}, AfterClear(c),
         UNCHANGED <<builds, disk>>, store' \in [Graphs -> SUBSET Contents]
  PROVE  Shapes'
  <1>1. CASE Ended(c)
    BY <1>1, ShapeDone
  <1>2. CASE client[c].cmd = "load" /\ Go(c, "files", <<>>)
    <2>1. <<>> \in Todos /\ Typed /\ c \notin Refreshers /\ c \in Loaders
      BY TodoTypes, LoaderOf DEF Shapes
    <2>2. Shape(c)'
      BY <1>2, <2>1, Going DEF Shape, At, Todo
    <2> QED BY <1>2, <2>1, <2>2, ShapeGoes DEF Typed
  <1> QED BY <1>1, <1>2 DEF AfterClear

\* The step to the next graph of the clear.
LEMMA ShapeDrops ==
  ASSUME Shapes, NEW c \in Clients, client[c].at \in {"enumerate", "drop"},
         NEW s \in Seq(Base), s # <<>>, Go(c, "drop", s), UNCHANGED <<builds, disk>>,
         store' \in [Graphs -> SUBSET Contents]
  PROVE  Shapes'
  <1>1. s \in Todos /\ Typed /\ c \notin Refreshers /\ c \in Loaders
    BY TodoTypes, LoaderOf DEF Shapes
  <1>2. Shape(c)
    BY DEF Shapes
  <1>3. Shape(c)'
    BY <1>1, <1>2, Going DEF Shape, At, Todo
  <1> QED BY <1>1, <1>3, ShapeGoes DEF Typed

LEMMA ShapeEnumerate ==
  ASSUME Shapes, NEW c \in Clients, Enumerate(c)
  PROVE  Shapes'
  <1>1. client[c].at = "enumerate" /\ UNCHANGED <<builds, disk, store>> /\ store' \in [Graphs -> SUBSET Contents]
    BY DEF Enumerate, At, Shapes, Typed
  <1>2. CASE AfterClear(c)
    BY <1>1, <1>2, ShapeCleared
  <1>3. CASE Ended(c)
    BY <1>1, <1>3, ShapeDone
  <1>4. ASSUME NEW s \in Sorted(GraphsUnderPrefix), GraphsUnderPrefix # {}, Go(c, "drop", s)
        PROVE  Shapes'
    BY <1>1, <1>4, Listing, ShapeDrops
  <1> QED BY <1>2, <1>3, <1>4 DEF Enumerate, Dies

\* What one step of clear_run_output_graphs does to the store.
LEMMA DropDone ==
  ASSUME Shapes, NEW c \in Clients, Drop(c)
  PROVE  /\ At(c, "drop") /\ UNCHANGED <<disk, stale, served, starts, builds>>
         /\ Todo(c) \in Seq(Base) /\ Todo(c) # <<>> /\ Head(Todo(c)) \in Base
         /\ store' \in {store, [store EXCEPT ![Head(Todo(c))] = {}]}
         /\ store' \in [Graphs -> SUBSET Contents]
         /\ \/ AfterClear(c) /\ UNCHANGED torn
            \/ Len(Todo(c)) # 1 /\ Go(c, "drop", Tail(Todo(c))) /\ UNCHANGED torn
            \/ Dies(c)
  <1>1. At(c, "drop") /\ UNCHANGED <<disk, stale, served, starts, builds>>
    BY DEF Drop
  <1>2. Todo(c) \in Seq(Base) /\ Todo(c) # <<>>
    BY <1>1 DEF Shapes, Shape
  <1>3. Head(Todo(c)) \in Base
    BY <1>2
  <1>4. store' \in {store, [store EXCEPT ![Head(Todo(c))] = {}]}
    BY DEF Drop
  <1>5. \/ AfterClear(c) /\ UNCHANGED torn
        \/ Len(Todo(c)) # 1 /\ Go(c, "drop", Tail(Todo(c))) /\ UNCHANGED torn
        \/ Dies(c)
    BY DEF Drop
  <1> QED BY <1>1, <1>2, <1>3, <1>4, <1>5, StoreKept

LEMMA ShapeDrop ==
  ASSUME Shapes, NEW c \in Clients, Drop(c)
  PROVE  Shapes'
  <1>1. /\ client[c].at = "drop" /\ UNCHANGED <<disk, builds>> /\ store' \in [Graphs -> SUBSET Contents]
        /\ Todo(c) \in Seq(Base) /\ Todo(c) # <<>>
    BY DropDone DEF At
  <1>2. CASE AfterClear(c)
    BY <1>1, <1>2, ShapeCleared
  <1>3. CASE Ended(c)
    BY <1>1, <1>3, ShapeDone
  <1>4. CASE Len(Todo(c)) # 1 /\ Go(c, "drop", Tail(Todo(c)))
    <2>1. Tail(Todo(c)) \in Seq(Base) /\ Tail(Todo(c)) # <<>>
      BY <1>1, <1>4, SeqParts
    <2> QED BY <1>1, <1>4, <2>1, ShapeDrops
  <1> QED BY <1>2, <1>3, <1>4, DropDone DEF Dies

LEMMA ShapeFindFiles ==
  ASSUME Shapes, NEW c \in Clients, FindFiles(c)
  PROVE  Shapes'
  <1> DEFINE works == Present("skosified") \o Present("admin")
             t == UploadGraph("works", works) \o UploadGraph("provenance", Present("provenance"))
  <1>1. client[c].at = "files" /\ UNCHANGED <<disk, builds, store>> /\ store' \in [Graphs -> SUBSET Contents]
    BY DEF FindFiles, At, Shapes, Typed
  <1>2. Typed /\ c \in Loaders /\ c \notin Refreshers /\ client[c].cmd \in {"load", "clear"} /\ Shape(c)
    BY <1>1, LoaderOf DEF Shapes
  <1>3. works # <<>> /\ LoadRequests(t)
    BY <1>2, LoadPlanned
  <1>4. Go(c, "upload", t)
    BY <1>3 DEF FindFiles
  <1> HIDE DEF t
  <1>5. t \in Todos
    BY <1>3, TodoTypes DEF LoadRequests
  <1>6. Shape(c)'
    BY <1>1, <1>2, <1>3, <1>4, <1>5, Going DEF Shape, At, Todo
  <1> QED BY <1>1, <1>2, <1>4, <1>5, <1>6, ShapeGoes DEF Typed

\* One ASK.
LEMMA SmokeDone ==
  ASSUME Shapes, NEW c \in Clients, Smoke(c)
  PROVE  /\ At(c, "smoke") /\ UNCHANGED <<store, disk, stale, served, torn, starts, builds>>
         /\ Todo(c) \in Seq(Asked) /\ Todo(c) # <<>> /\ c \in Loaders
         /\ client' \in [Clients -> Process]
         /\ client'[c].at = "smoke" /\ client'[c].cmd = client[c].cmd /\ client'[c].put = client[c].put
         /\ client'[c].todo = Tail(Todo(c)) /\ client'[c].alone = client[c].alone
         /\ client'[c].passed => client[c].passed /\ Asks(Head(Todo(c)))
         /\ \A d \in Clients \ {c} : client'[d] = client[d]
  <1>1. At(c, "smoke") /\ UNCHANGED <<store, disk, stale, served, torn, starts, builds>> /\ Todo(c) # <<>>
    BY DEF Smoke
  <1>2. c \in Loaders /\ Todo(c) \in Seq(Asked)
    BY <1>1, LoaderOf DEF At, Shape
  <1>3. PICK failed \in BOOLEAN :
          client' = [client EXCEPT ![c].todo = Tail(@), ![c].passed = Answer(c, Head(Todo(c)), failed)]
    BY DEF Smoke
  <1> DEFINE passed == Answer(c, Head(Todo(c)), failed)
  <1>4. client[c] \in Process /\ client \in [Clients -> Process]
    BY DEF Shapes, Typed
  <1>5. passed \in BOOLEAN /\ (passed => client[c].passed /\ Asks(Head(Todo(c))))
    BY <1>4 DEF Answer, Process
  <1>6. client'[c] = [client[c] EXCEPT !.todo = Tail(Todo(c)), !.passed = passed]
    BY <1>3, <1>4 DEF Todo
  <1>7. Tail(Todo(c)) \in Todos
    BY <1>1, <1>2, TodoTypes
  <1> HIDE DEF passed
  <1>8. /\ client'[c] \in Process /\ client'[c].todo = Tail(Todo(c)) /\ client'[c].passed = passed
        /\ client'[c].at = client[c].at /\ client'[c].cmd = client[c].cmd /\ client'[c].put = client[c].put
        /\ client'[c].alone = client[c].alone
    BY <1>4, <1>5, <1>6, <1>7 DEF Process
  <1>9. client' \in [Clients -> Process] /\ \A d \in Clients \ {c} : client'[d] = client[d]
    BY <1>3, <1>4, <1>8
  <1> QED BY <1>1, <1>2, <1>5, <1>8, <1>9 DEF At

LEMMA ShapeSmoke ==
  ASSUME Shapes, NEW c \in Clients, Smoke(c)
  PROVE  Shapes'
  <1>1. Shape(c) /\ c \notin Refreshers
    BY SmokeDone, PublishAssumption DEF Shapes
  <1>2. Tail(Todo(c)) \in Seq(Asked)
    BY SmokeDone
  <1>3. Shape(c)'
    BY <1>1, <1>2, SmokeDone DEF Shape, At, Todo
  <1> QED BY <1>3, SmokeDone, ShapeOthers DEF Shapes, Typed

LEMMA ShapeDownload ==
  ASSUME Shapes, NEW c \in Clients, Download(c)
  PROVE  Shapes' /\ UNCHANGED <<store, served, torn>>
  <1>1. /\ client[c].at = "download" /\ UNCHANGED <<store, served, torn, builds>>
        /\ store' \in [Graphs -> SUBSET Contents]
    BY DEF Download, At, Shapes, Typed
  <1>2. /\ Shape(c) /\ c \in Refreshers /\ Todo(c) \in Seq(Vocabulary) /\ Todo(c) # <<>> /\ c \notin Loaders
        /\ client[c].cmd # "clear"
    <2>1. Shape(c)
      BY DEF Shapes
    <2>2. c \in Refreshers /\ Todo(c) \in Seq(Vocabulary) /\ Todo(c) # <<>>
          /\ client[c].cmd \in {"none", "finto"}
      BY <1>1, <2>1 DEF Shape, At
    <2> QED BY <2>1, <2>2, PublishAssumption
  <1>3. Head(Todo(c)).id \in VocabIds
    <2>1. Head(Todo(c)) \in Vocabulary
      BY <1>2
    <2> QED BY <2>1 DEF Vocabulary
  <1>4. /\ disk' \in [Files -> Contents \cup {None}] /\ \A f \in Files : disk'[f] # None => disk'[f].file = f
        /\ disk'["admin"] # None
    <2> DEFINE id == Head(Todo(c)).id
               x == Content(id, builds, {})
    <2>1. /\ id \in Files /\ id # "admin"
      BY <1>3, PublishAssumption DEF Files
    <2>2. x \in Contents /\ x.file = id
      BY <2>1 DEF Contents, Content, Shapes, Typed
    <2>3. disk' = disk \/ disk' = [disk EXCEPT ![id] = x]
      BY DEF Download
    <2>4. /\ disk \in [Files -> Contents \cup {None}] /\ \A f \in Files : disk[f] # None => disk[f].file = f
          /\ disk["admin"] # None
      BY DEF Shapes, Typed
    <2> HIDE DEF id, x
    <2>5. CASE disk' = [disk EXCEPT ![id] = x]
      <3>1. disk' = [f \in Files |-> IF f = id THEN x ELSE disk[f]]
        BY <2>4, <2>5
      <3>2. "admin" \in Files
        BY DEF Files
      <3> QED BY <2>1, <2>2, <2>4, <3>1, <3>2
    <2> QED BY <2>3, <2>4, <2>5
  <1>5. CASE Ended(c)
    BY <1>1, <1>4, <1>5, ShapeEnds DEF Shapes, Typed
  <1>6. ASSUME NEW p \in GroupedOrders, Go(c, "upload", UploadVocabs(p))
        PROVE  Shapes'
    <2>1. VocabRequests(UploadVocabs(p)) /\ Typed
      BY VocabPlanned DEF Shapes
    <2>2. UploadVocabs(p) \in Todos
      BY <2>1, TodoTypes DEF VocabRequests
    <2>3. Shape(c)'
      BY <1>1, <1>2, <1>6, <2>1, <2>2, Going DEF Shape, At, Todo
    <2> QED BY <1>1, <1>4, <1>6, <2>2, <2>3, ShapeGoes
  <1>7. CASE Len(Todo(c)) # 1 /\ Go(c, "download", Tail(Todo(c)))
    <2>1. Tail(Todo(c)) \in Seq(Vocabulary) /\ Tail(Todo(c)) # <<>> /\ Typed
      BY <1>2, <1>7, SeqParts DEF Shapes
    <2>2. Tail(Todo(c)) \in Todos
      BY <2>1, TodoTypes
    <2>3. Shape(c)'
      BY <1>1, <1>2, <1>7, <2>1, <2>2, Going DEF Shape, At, Todo
    <2> QED BY <1>1, <1>4, <1>7, <2>2, <2>3, ShapeGoes
  <1> QED BY <1>1, <1>5, <1>6, <1>7 DEF Download

LEMMA ShapeRest ==
  ASSUME Shapes, NEW c \in Clients, Success(c) \/ RollBack(c) \/ Kill(c)
  PROVE  Shapes' /\ Ended(c) /\ store' \in {store, [store EXCEPT !["works"] = {}]}
  <1>1. Ended(c) /\ UNCHANGED <<builds, disk>> /\ store' \in {store, [store EXCEPT !["works"] = {}]}
    BY DEF Success, RollBack, Kill, Dies
  <1> QED BY <1>1, ShapeDone, StoreKept

\* A stutter.
LEMMA ShapeStays == Shapes /\ UNCHANGED vars => Shapes'
  BY DEF vars, Shapes, Typed, Shape, At, Todo

\* Every step leaves a process that finds what it needs.
LEMMA ShapeStep == Shapes /\ [Next]_vars => Shapes'
  <1> SUFFICES ASSUME Shapes, Next PROVE Shapes'
    BY ShapeStays
  <1>1. CASE World
    BY <1>1, ShapeWorld
  <1>2. ASSUME NEW c \in Clients, Starts(c)
        PROVE  Shapes'
    <2>1. PICK cmd \in {"load", "clear", "finto"}, mode \in ClearModes \cup {"", "dry", "strict", "force"},
               at \in {"enumerate", "files", "download"}, todo \in Todos : Begins(c, cmd, mode, at, todo)
      BY <1>2, StartBegins
    <2> QED BY <2>1, ShapeStart
  <1>3. ASSUME NEW c \in Clients, LoadStep(c) \/ FintoStep(c) \/ Kill(c)
        PROVE  Shapes'
    BY <1>3, ShapeEnumerate, ShapeDrop, ShapeFindFiles, ShapeUpload, ShapeSmoke, ShapeDownload, ShapeRest
       DEF LoadStep, FintoStep
  <1> QED BY <1>1, <1>2, <1>3, ClientsOf DEF Next, Starts, World

\* What one step of a process does to the histories.
LEMMA HistoryStep ==
  ASSUME NEW c, LoadStep(c) \/ FintoStep(c) \/ Kill(c)
  PROVE  /\ faults' \in {faults, faults + 1} /\ starts' = starts
         /\ \/ torn' = torn
            \/ client[c].at # "idle" /\ torn' = torn \cup {client[c].cmd}
            \/ torn' = torn \cup {"load"}
         /\ stale' \subseteq stale
         /\ served' \in {None, served, [put |-> client[c].put]}
  <1>1. CASE Enumerate(c)
    <2>1. UNCHANGED faults \/ faults' = faults + 1
      BY <1>1 DEF Enumerate, NoFault, Fault, Dies, At
    <2>2. \/ torn' = torn
          \/ client[c].at # "idle" /\ torn' = torn \cup {client[c].cmd}
          \/ torn' = torn \cup {"load"}
      BY <1>1 DEF Enumerate, NoFault, Fault, Dies, At
    <2>3. stale' \subseteq stale /\ UNCHANGED <<served, starts>>
      BY <1>1 DEF Enumerate
    <2> QED BY <2>1, <2>2, <2>3
  <1>2. CASE Drop(c)
    <2>1. UNCHANGED faults \/ faults' = faults + 1
      BY <1>2 DEF Drop, NoFault, Fault, Dies, At
    <2>2. \/ torn' = torn
          \/ client[c].at # "idle" /\ torn' = torn \cup {client[c].cmd}
          \/ torn' = torn \cup {"load"}
      BY <1>2 DEF Drop, NoFault, Fault, Dies, At
    <2>3. stale' \subseteq stale /\ UNCHANGED <<served, starts>>
      BY <1>2 DEF Drop
    <2> QED BY <2>1, <2>2, <2>3
  <1>3. CASE FindFiles(c)
    BY <1>3 DEF FindFiles, NoFault, Dies, At
  <1>4. CASE Upload(c)
    <2>1. UNCHANGED faults \/ faults' = faults + 1
      BY <1>4 DEF Upload, NoFault, Fault, Dies, At
    <2>2. \/ torn' = torn
          \/ client[c].at # "idle" /\ torn' = torn \cup {client[c].cmd}
          \/ torn' = torn \cup {"load"}
      BY <1>4 DEF Upload, NoFault, Fault, Dies, At
    <2>3. stale' \subseteq stale /\ UNCHANGED <<served, starts>>
      BY <1>4 DEF Upload
    <2> QED BY <2>1, <2>2, <2>3
  <1>5. CASE Smoke(c)
    BY <1>5 DEF Smoke, NoFault, Fault
  <1>6. CASE Success(c)
    BY <1>6 DEF Success, NoFault
  <1>7. CASE RollBack(c)
    <2>1. UNCHANGED faults \/ faults' = faults + 1
      BY <1>7 DEF RollBack, NoFault, Fault
    <2>2. \/ torn' = torn
          \/ client[c].at # "idle" /\ torn' = torn \cup {client[c].cmd}
          \/ torn' = torn \cup {"load"}
      BY <1>7 DEF RollBack, NoFault, Fault
    <2>3. stale' \subseteq stale /\ UNCHANGED <<served, starts>>
      BY <1>7 DEF RollBack
    <2> QED BY <2>1, <2>2, <2>3
  <1>8. CASE Download(c)
    <2>1. UNCHANGED faults \/ faults' = faults + 1
      BY <1>8 DEF Download, NoFault, Fault
    <2>2. \/ torn' = torn
          \/ client[c].at # "idle" /\ torn' = torn \cup {client[c].cmd}
          \/ torn' = torn \cup {"load"}
      BY <1>8 DEF Download, NoFault, Fault
    <2>3. stale' \subseteq stale /\ UNCHANGED <<served, starts>>
      BY <1>8 DEF Download
    <2> QED BY <2>1, <2>2, <2>3
  <1>9. CASE Kill(c)
    BY <1>9 DEF Kill, Dies, At
  <1> QED BY <1>1, <1>2, <1>3, <1>4, <1>5, <1>6, <1>7, <1>8, <1>9 DEF LoadStep, FintoStep

(* TYPE CORRECTNESS of the store, the files, the processes and the          *)
(* histories.                                                               *)
THEOREM TypeCorrect == Spec => []TypeOK
  <1>1. Init => Shapes /\ TypeOK
    BY ShapeFirst DEF Init, TypeOK, Shapes
  <1>2. Shapes /\ TypeOK /\ [Next]_vars => (Shapes /\ TypeOK)'
    <2> SUFFICES ASSUME Shapes, TypeOK, [Next]_vars PROVE TypeOK'
      BY ShapeStep
    <2>0. Typed'
      BY ShapeStep DEF Shapes
    <2>1. CASE UNCHANGED vars
      BY <2>0, <2>1 DEF vars, TypeOK
    <2>2. CASE World
      BY <2>0, <2>2 DEF World, Build, DumpsAge, TypeOK
    <2>3. ASSUME NEW c \in Clients, Starts(c) PROVE TypeOK'
      <3>1. UNCHANGED <<stale, torn, faults>> /\ starts' = starts + 1 /\ served' \in {None, served}
        BY <2>3 DEF Starts, StartLoad, StartClear, StartFinto, Started
      <3> QED BY <2>0, <3>1 DEF TypeOK
    <2>4. ASSUME NEW c \in Clients, LoadStep(c) \/ FintoStep(c) \/ Kill(c) PROVE TypeOK'
      <3>1. client[c] \in Process /\ Shape(c)
        BY DEF Shapes, Typed
      <3>2. client[c].cmd \in {"none", "load", "clear", "finto"} /\ client[c].put \in SUBSET (Graphs \X Contents)
        BY <3>1 DEF Process
      <3>3. client[c].at # "idle" => client[c].cmd \in {"load", "clear", "finto"}
        BY <3>1, <3>2 DEF Shape, At
      <3>4. faults' \in Nat /\ starts' \in Nat
        BY <2>4, HistoryStep DEF TypeOK
      <3>5. torn' = torn \/ (client[c].at # "idle" /\ torn' = torn \cup {client[c].cmd}) \/ torn' = torn \cup {"load"}
        BY <2>4, HistoryStep
      <3>6. stale' \subseteq stale
        BY <2>4, HistoryStep
      <3>7. served' \in {None, served, [put |-> client[c].put]}
        BY <2>4, HistoryStep
      <3>8. served' = None \/ served' \in [put : SUBSET (Graphs \X Contents)]
        BY <3>2, <3>7 DEF TypeOK
      <3>9. torn' \subseteq {"load", "clear", "finto"} /\ stale' \subseteq VocabIds
        BY <3>3, <3>5, <3>6 DEF TypeOK
      <3> QED BY <2>0, <3>4, <3>8, <3>9 DEF TypeOK
    <2> QED BY <2>1, <2>2, <2>3, <2>4, ClientsOf DEF Next, Starts, World
  <1> QED BY <1>1, <1>2, PTL DEF Spec

-----------------------------------------------------------------------------
(* What holds for every load that is still on.  Its requests and ASKs are   *)
(* what stands between a works graph that no ASK was put to and the idle    *)
(* state SmokedOrNothing is about.                                          *)

\* A load that will still find out.
WillRollBack(c) ==
  /\ client[c].cmd = "load"
  /\ \/ At(c, "upload")
     \/ At(c, "smoke") /\ (~client[c].passed \/ \E i \in DOMAIN Todo(c) : ~Asks(Todo(c)[i]))

\* A load that is about to add the admin vocabulary.
WillAddAdmin(c) ==
  /\ client[c].cmd = "load" /\ At(c, "upload")
  /\ \E i \in DOMAIN Todo(c) : Todo(c)[i].graph = "works" /\ Todo(c)[i].file = "admin"

Has(f) == \E x \in store["works"] : x.file = f

Watched ==
  /\ \A x \in store["works"] : x.file \in {"skosified", "admin"}
  /\ "load" \notin torn =>
       /\ store["works"] # {} /\ (\E q \in Asked : ~Asks(q)) => \E c \in Loaders : WillRollBack(c)
       /\ Has("skosified") /\ ~Has("admin") => \E c \in Loaders : WillAddAdmin(c)

\* At first the works graph is empty or a whole corpus.
LEMMA WatchFirst == Init => Watched
  <1> SUFFICES ASSUME Init PROVE Watched
    OBVIOUS
  <1>1. disk = [f \in Files |-> IF f \in DOMAIN FirstBuild THEN FirstBuild[f] ELSE None]
    BY DEF Init
  <1>2. /\ DOMAIN FirstBuild = {"skosified", "admin", "provenance"}
        /\ FirstBuild["skosified"].file = "skosified" /\ FirstBuild["skosified"].ok = Asked
        /\ FirstBuild["admin"].file = "admin"
    BY DEF FirstBuild, Content
  <1>3. disk["skosified"] = FirstBuild["skosified"] /\ disk["admin"] = FirstBuild["admin"]
    BY <1>1, <1>2 DEF Files
  <1>4. store["works"] = {} \/ store["works"] = {disk["skosified"], disk["admin"]}
    BY DEF Init, Graphs
  <1> QED BY <1>2, <1>3, <1>4 DEF Watched, Asks, Has

\* A step that leaves the works graph alone, and of a witness what makes it one.
LEMMA WatchKept ==
  ASSUME Watched, NEW c, store'["works"] = store["works"], torn \subseteq torn',
         \A d \in Loaders \ {c} : /\ client'[d].at = client[d].at /\ client'[d].todo = client[d].todo
                                  /\ client'[d].cmd = client[d].cmd /\ client'[d].passed = client[d].passed,
         "load" \notin torn' /\ WillRollBack(c) /\ (\E q \in Asked : ~Asks(q)) => WillRollBack(c)',
         "load" \notin torn' /\ WillAddAdmin(c) => WillAddAdmin(c)'
  PROVE  Watched'
  <1>1. (\A q : Asks(q)' <=> Asks(q)) /\ \A f : Has(f)' <=> Has(f)
    BY DEF Asks, Has
  <1>2. ASSUME NEW d \in Loaders \ {c}
        PROVE  (WillRollBack(d) => WillRollBack(d)') /\ (WillAddAdmin(d) => WillAddAdmin(d)')
    BY <1>1, <1>2 DEF WillRollBack, WillAddAdmin, At, Todo
  <1> QED BY <1>1, <1>2 DEF Watched

\* An empty works graph needs no witness.
LEMMA WatchEmpty ==
  ASSUME store'["works"] = {}
  PROVE  Watched'
  BY DEF Watched, Has

\* A load that died is no longer answered for.
LEMMA WatchTorn ==
  ASSUME "load" \in torn', \A x \in store'["works"] : x.file \in {"skosified", "admin"}
  PROVE  Watched'
  BY DEF Watched

\* A process that is not at a request or an ASK answers for nothing.
LEMMA WatchFree ==
  ASSUME Watched, NEW c \in Clients, ~WillRollBack(c), store'["works"] = store["works"], torn \subseteq torn',
         \A d \in Clients \ {c} : /\ client'[d].at = client[d].at /\ client'[d].todo = client[d].todo
                                  /\ client'[d].cmd = client[d].cmd /\ client'[d].passed = client[d].passed
  PROVE  Watched'
  <1>1. ~WillAddAdmin(c)
    BY DEF WillRollBack, WillAddAdmin
  <1> QED BY <1>1, WatchKept, ClientsOf

\* A step of one process changes no other.
LEMMA Going1 ==
  ASSUME Shapes, NEW c \in Clients, NEW at, NEW todo, Go(c, at, todo) \/ Ended(c)
  PROVE  \A d \in Clients \ {c} : client'[d] = client[d]
  BY DEF Shapes, Typed, Go, Ended

\* Clearing, looking for files and downloading.
LEMMA WatchClears ==
  ASSUME Shapes, Watched, NEW c \in Clients, Enumerate(c) \/ Drop(c) \/ FindFiles(c) \/ Download(c)
  PROVE  Watched'
  <1>1. ~WillRollBack(c) /\ torn \subseteq torn'
    BY DEF Enumerate, Drop, FindFiles, Download, At, WillRollBack, Dies
  <1>2. \A d \in Clients \ {c} : client'[d] = client[d]
    BY Going1 DEF Enumerate, Drop, FindFiles, Download, AfterClear, Dies
  <1>3. CASE store'["works"] = store["works"]
    BY <1>1, <1>2, <1>3, WatchFree
  <1>4. CASE store'["works"] # store["works"]
    <2>1. Drop(c)
      BY <1>4 DEF Enumerate, FindFiles, Download
    <2>2. store' \in {store, [store EXCEPT ![Head(Todo(c))] = {}]} /\ store \in [Graphs -> SUBSET Contents]
      BY <2>1, DropDone DEF Shapes, Typed
    <2>3. "works" \in Graphs
      BY DEF Graphs
    <2>4. store'["works"] = {}
      BY <1>4, <2>2, <2>3
    <2> QED BY <2>4, WatchEmpty
  <1> QED BY <1>3, <1>4

\* An ASK that does not hold is remembered until the rollback.
LEMMA WatchSmoke ==
  ASSUME Shapes, Watched, NEW c \in Clients, Smoke(c)
  PROVE  Watched'
  <1>1. Todo(c) \in Seq(Asked) /\ Todo(c) # <<>>
    BY SmokeDone
  <1>2. \A q : Asks(q)' <=> Asks(q)
    BY SmokeDone DEF Asks
  <1>3. /\ client'[c].at = "smoke" /\ client'[c].cmd = client[c].cmd /\ client'[c].todo = Tail(Todo(c))
        /\ client'[c].passed => client[c].passed /\ Asks(Head(Todo(c)))
        /\ At(c, "smoke")
    BY SmokeDone
  <1>4. WillRollBack(c) => WillRollBack(c)'
    <2> SUFFICES ASSUME WillRollBack(c), client'[c].passed
                 PROVE  \E i \in DOMAIN Tail(Todo(c)) : ~Asks(Tail(Todo(c))[i])
      BY <1>2, <1>3 DEF WillRollBack, At, Todo
    <2>1. client[c].passed /\ Asks(Todo(c)[1])
      BY <1>1, <1>3
    <2>2. PICK i \in DOMAIN Todo(c) : ~Asks(Todo(c)[i])
      BY <1>3, <2>1 DEF WillRollBack, At
    <2>3. i # 1 /\ i \in 1 .. Len(Todo(c)) /\ Len(Todo(c)) \in Nat
      BY <1>1, <2>1, <2>2
    <2>4. i - 1 \in DOMAIN Tail(Todo(c)) /\ Tail(Todo(c))[i - 1] = Todo(c)[i]
      BY <1>1, <2>3
    <2> QED BY <2>2, <2>4
  <1>5. ~WillAddAdmin(c)
    BY <1>3 DEF WillAddAdmin, At
  <1>6. \A d \in Clients \ {c} : client'[d] = client[d]
    BY SmokeDone
  <1>7. UNCHANGED <<store, torn>>
    BY SmokeDone
  <1> QED BY <1>4, <1>5, <1>6, <1>7, WatchKept, ClientsOf

\* A load that ends had nothing left to find out, or is torn.
LEMMA WatchEnds ==
  ASSUME Shapes, Watched, NEW c \in Clients, Success(c) \/ RollBack(c) \/ Kill(c)
  PROVE  Watched'
  <1>1. \A d \in Clients \ {c} : client'[d] = client[d]
    BY Going1 DEF Success, RollBack, Kill, Dies
  <1>2. CASE Success(c)
    <2>1. ~WillRollBack(c) /\ UNCHANGED <<store, torn>>
      BY <1>2 DEF Success, WillRollBack, At
    <2> QED BY <1>1, <2>1, WatchFree
  <1>3. CASE RollBack(c)
    <2>1. /\ store' \in {store, [store EXCEPT !["works"] = {}]}
          /\ store \in [Graphs -> SUBSET Contents] /\ "works" \in Graphs
      BY ShapeRest DEF Shapes, Typed, Graphs
    <2>2. CASE "load" \in torn'
      BY <2>1, <2>2, WatchTorn DEF Watched
    <2>3. CASE "load" \notin torn'
      BY <1>3, <2>1, <2>3, WatchEmpty DEF RollBack
    <2> QED BY <2>2, <2>3
  <1>4. CASE Kill(c)
    <2>1. UNCHANGED store /\ torn' = torn \cup {client[c].cmd}
      BY <1>4 DEF Kill, Dies
    <2>2. CASE "load" \in torn'
      BY <2>1, <2>2, WatchTorn DEF Watched
    <2>3. CASE "load" \notin torn'
      <3>1. ~WillRollBack(c)
        BY <2>1, <2>3 DEF WillRollBack
      <3> QED BY <1>1, <2>1, <3>1, WatchFree
    <2> QED BY <2>2, <2>3
  <1> QED BY <1>2, <1>3, <1>4

\* Once every request was sent the ASKs are all to come.
LEMMA WillAsk ==
  ASSUME NEW c \in Loaders, client'[c].cmd = "load", client'[c].passed \in BOOLEAN,
         \/ client'[c].at = "upload"
         \/ client'[c].at = "smoke" /\ client'[c].todo = Queries
  PROVE  (\E q \in Asked : ~Asks(q))' => WillRollBack(c)'
  <1> SUFFICES ASSUME client'[c].at = "smoke", client'[c].todo = Queries, NEW q \in Asked, ~Asks(q)'
               PROVE  WillRollBack(c)'
    BY DEF WillRollBack, At
  <1>1. PICK i \in DOMAIN Queries : Queries[i] = q
    BY DEF Asked, ToSet
  <1> QED BY <1>1 DEF WillRollBack, At, Todo

\* What a request does to the graphs.
LEMMA StoreDone ==
  ASSUME Shapes, NEW c \in Clients, Upload(c)
  PROVE  /\ store' = store \/ (disk[Request1(c).file] # None /\ store' = AfterRequest(c))
         /\ ~Dies(c) => disk[Request1(c).file] # None /\ store' = AfterRequest(c)
         /\ \A g \in Graphs \ {Request1(c).graph} : store'[g] = store[g]
  <1>1. /\ store' = store \/ (disk[Request1(c).file] # None /\ store' = AfterRequest(c))
        /\ ~Dies(c) => disk[Request1(c).file] # None /\ store' = AfterRequest(c)
        /\ At(c, "upload")
    BY RequestDone
  <1> QED BY <1>1, StoreTyped

\* A request: the load that sent it will still ask.
LEMMA WatchUpload ==
  ASSUME Shapes, Watched, NEW c \in Clients, Upload(c)
  PROVE  Watched'
  <1> DEFINE q == Request1(c)
             x == disk[q.file]
  <1>1. At(c, "upload") /\ \A d \in Clients \ {c} : client'[d] = client[d]
    BY RequestDone, Going1 DEF Dies
  <1>2. /\ Todo(c) \in Seq(Request) /\ Todo(c) # <<>> /\ q = Todo(c)[1] /\ q \in Request /\ 1 \in DOMAIN Todo(c)
        /\ c \in Loaders => LoadRequests(Todo(c)) /\ client[c].cmd = "load"
        /\ c \in Refreshers => VocabRequests(Todo(c)) /\ client[c].cmd = "finto"
        /\ x # None => x \in Contents /\ x.file = q.file
    BY <1>1, RequestTyped
  <1>3. torn \subseteq torn'
    BY RequestDone DEF Dies
  <1>4. CASE c \in Refreshers
    <2>1. q.graph # "works" /\ q.graph \in Graphs
      BY <1>2, <1>4, PublishAssumption DEF VocabRequests, Graphs
    <2>2. store'["works"] = store["works"]
      BY <2>1, StoreDone DEF Graphs
    <2>3. ~WillRollBack(c)
      BY <1>2, <1>4 DEF WillRollBack
    <2> QED BY <1>1, <1>3, <2>2, <2>3, WatchFree
  <1>5. CASE c \in Loaders
    <2>1. LoadRequests(Todo(c)) /\ client[c].cmd = "load" /\ c \notin Refreshers
      BY <1>2, <1>5, PublishAssumption
    <2>2. /\ q.graph = "works" => q.file \in {"skosified", "admin"}
          /\ q.graph \in {"works", "provenance"}
          /\ q.graph = "provenance" => Len(Todo(c)) = 1
          /\ q.file = "skosified" => /\ q.verb = "PUT" /\ Len(Todo(c)) >= 2
                                     /\ Todo(c)[2].graph = "works" /\ Todo(c)[2].file = "admin"
      BY <1>2, <2>1 DEF LoadRequests
    <2>3. /\ "works" \in Graphs /\ "provenance" \in Graphs /\ store \in [Graphs -> SUBSET Contents]
      BY DEF Shapes, Typed, Graphs
    <2>4. /\ store'["works"] = store["works"]
             \/ /\ q.graph = "works" /\ x # None
                /\ store'["works"] = IF q.verb = "PUT" THEN {x} ELSE store["works"] \cup {x}
          /\ q.graph = "provenance" => store'["works"] = store["works"]
          /\ q.graph = "works" /\ ~Dies(c) =>
               x # None /\ x \in store'["works"] /\ (q.verb = "PUT" => store'["works"] = {x})
      <3>1. store' = store \/ (x # None /\ store' = AfterRequest(c))
        BY StoreDone
      <3>2. ~Dies(c) => x # None /\ store' = AfterRequest(c)
        BY StoreDone
      <3>3. x # None => /\ AfterRequest(c)[q.graph] = IF q.verb = "PUT" THEN {x} ELSE store[q.graph] \cup {x}
                        /\ \A g \in Graphs \ {q.graph} : AfterRequest(c)[g] = store[g]
        BY <1>1, StoreTyped
      <3> QED BY <2>2, <2>3, <3>1, <3>2, <3>3
    <2>5. \A y \in store'["works"] : y.file \in {"skosified", "admin"}
      BY <1>2, <2>2, <2>4 DEF Watched
    <2>6. CASE Dies(c)
      <3>1. "load" \in torn'
        BY <2>1, <2>6 DEF Dies
      <3> QED BY <2>5, <3>1, WatchTorn
    <2>7. CASE ~Dies(c)
      <3>1. /\ client'[c].at = IF Len(Todo(c)) = 1 THEN "smoke" ELSE "upload"
            /\ client'[c].todo = IF Len(Todo(c)) = 1 THEN Queries ELSE Tail(Todo(c))
            /\ client'[c].cmd = "load" /\ client'[c].passed = client[c].passed /\ client' \in [Clients -> Process]
        BY <2>1, <2>7, RequestDone
      <3>2. (\E r \in Asked : ~Asks(r))' => WillRollBack(c)'
        <4>1. client'[c].passed \in BOOLEAN
          BY <3>1 DEF Process
        <4> QED BY <1>5, <3>1, <4>1, WillAsk
      <3>3. CASE q.graph = "provenance"
        <4>1. store'["works"] = store["works"] /\ ((\E r \in Asked : ~Asks(r))' <=> \E r \in Asked : ~Asks(r))
          BY <2>4, <3>3 DEF Asks
        <4>2. ~WillAddAdmin(c)
          BY <1>2, <2>2, <3>3 DEF WillAddAdmin
        <4> QED BY <1>1, <1>3, <3>2, <4>1, <4>2, WatchKept, ClientsOf
      <3>4. CASE q.graph = "works"
        <4>1. x # None /\ x.file = q.file /\ x \in store'["works"] /\ (q.verb = "PUT" => store'["works"] = {x})
          BY <1>2, <2>4, <2>7, <3>4
        <4>2. CASE q.file = "admin"
          <5>1. Has("admin")'
            BY <4>1, <4>2 DEF Has
          <5> QED BY <1>5, <2>5, <3>2, <5>1 DEF Watched
        <4>3. CASE q.file = "skosified"
          <5>1. /\ Len(Todo(c)) >= 2 /\ Len(Todo(c)) # 1 /\ Todo(c)[2].graph = "works" /\ Todo(c)[2].file = "admin"
            BY <2>2, <4>3
          <5>2. 1 \in DOMAIN Tail(Todo(c)) /\ Tail(Todo(c))[1] = Todo(c)[2]
            BY <1>2, <5>1
          <5>3. WillAddAdmin(c)'
            BY <3>1, <5>1, <5>2 DEF WillAddAdmin, At, Todo
          <5> QED BY <1>5, <2>5, <3>2, <5>3 DEF Watched
        <4> QED BY <2>2, <3>4, <4>2, <4>3
      <3> QED BY <2>2, <3>3, <3>4
    <2> QED BY <2>6, <2>7
  <1> QED BY <1>4, <1>5 DEF Clients

LEMMA WatchStep == Shapes /\ Watched /\ [Next]_vars => Watched'
  <1> SUFFICES ASSUME Shapes, Watched, [Next]_vars PROVE Watched'
    OBVIOUS
  <1>0. CASE UNCHANGED vars
    BY <1>0 DEF vars, Watched, WillRollBack, WillAddAdmin, Has, Asks, At, Todo
  <1>1. CASE World
    <2>1. UNCHANGED <<store, client, served, torn>>
      BY <1>1, ShapeWorld
    <2> QED BY <2>1 DEF Watched, WillRollBack, WillAddAdmin, Has, Asks, At, Todo
  <1>2. ASSUME NEW c \in Clients, Starts(c)
        PROVE  Watched'
    <2>1. PICK cmd \in {"load", "clear", "finto"}, mode \in ClearModes \cup {"", "dry", "strict", "force"},
               at \in {"enumerate", "files", "download"}, todo \in Todos : Begins(c, cmd, mode, at, todo)
      BY <1>2, StartBegins
    <2>2. Begun(c, cmd, at, todo)
      BY <2>1, Starting DEF Begins, Shapes
    <2>3. UNCHANGED <<store, torn>>
      BY <2>1, ShapeStart
    <2>4. ~WillRollBack(c)
      BY <2>2 DEF Begun, WillRollBack, At
    <2> QED BY <2>2, <2>3, <2>4, WatchFree DEF Begun
  <1>3. ASSUME NEW c \in Clients, LoadStep(c) \/ FintoStep(c) \/ Kill(c)
        PROVE  Watched'
    BY <1>3, WatchClears, WatchUpload, WatchSmoke, WatchEnds DEF LoadStep, FintoStep
  <1> QED BY <1>0, <1>1, <1>2, <1>3, ClientsOf DEF Next, Starts, World

\* When no load is on, nothing is left to be found out.
LEMMA WatchedQuiet == Shapes /\ Watched => SmokedOrNothing
  <1> SUFFICES ASSUME Shapes, Watched, Quiet(Loaders), torn \cap {"load", "clear"} = {}, store["works"] # {}
               PROVE  /\ \A q \in Asked : Asks(q)
                      /\ {x.file : x \in store["works"]} = {"skosified", "admin"}
    BY DEF SmokedOrNothing
  <1>1. \A c \in Loaders : ~WillRollBack(c) /\ ~WillAddAdmin(c)
    BY DEF Quiet, WillRollBack, WillAddAdmin, At
  <1>2. "load" \notin torn
    OBVIOUS
  <1>3. \A q \in Asked : Asks(q)
    BY <1>1, <1>2 DEF Watched
  <1>4. PICK q : q \in Asked
    BY PublishAssumption DEF Asked, ToSet
  <1>5. PICK x \in store["works"] : q \in x.ok
    BY <1>3, <1>4 DEF Asks
  <1>6. x.file = "skosified"
    BY <1>5 DEF Shapes, Typed, Contents, Graphs
  <1>7. Has("skosified") /\ Has("admin")
    BY <1>1, <1>2, <1>5, <1>6 DEF Watched, Has
  <1>8. \A y \in store["works"] : y.file \in {"skosified", "admin"}
    BY DEF Watched
  <1> QED BY <1>3, <1>7, <1>8 DEF Has

(* However loads and clears interleave, nothing half-loaded is left behind. *)
THEOREM SmokedOrNothingHolds == Spec => []SmokedOrNothing
  <1>1. Init => Shapes /\ Watched
    BY ShapeFirst, WatchFirst
  <1>2. Shapes /\ Watched /\ [Next]_vars => (Shapes /\ Watched)'
    BY ShapeStep, WatchStep
  <1> QED BY <1>1, <1>2, WatchedQuiet, PTL DEF Spec

-----------------------------------------------------------------------------
(* What a load that is alone has put is what the graphs hold.               *)

\* What of a set of uploads went into a graph.
Into(put, g) == {p[2] : p \in {u \in put : u[1] = g}}

OnlyWriter(c) == \A d \in Loaders : Writing(d) => d = c

\* What a load has put into a graph is what the graph holds.
Holds(put) == \A g \in {"works", "provenance"} : Into(put, g) # {} => store[g] = Into(put, g)

\* The first request for a graph is the one that clears it.
FirstPuts(put, t) ==
  \A i \in DOMAIN t :
    /\ t[i].verb = "PUT" => Into(put, t[i].graph) = {}
    /\ t[i].verb = "POST" => Into(put, t[i].graph) # {} \/ i > 1

Alone ==
  /\ \A c \in Loaders : Writing(c) /\ client[c].alone =>
       /\ OnlyWriter(c)
       /\ client[c].at \in {"upload", "smoke"} => Holds(client[c].put)
       /\ At(c, "upload") => FirstPuts(client[c].put, Todo(c))
       /\ client[c].at \notin {"upload", "smoke"} => client[c].put = {}
  /\ served # None => (\A c \in Loaders : ~Writing(c)) /\ Holds(served.put)

LEMMA AloneFirst == Init => Alone
  <1> SUFFICES ASSUME Init PROVE Alone
    OBVIOUS
  <1>1. \A c \in Loaders : client[c].cmd = "none"
    BY ClientsOf DEF Init, Idle
  <1> QED BY <1>1 DEF Init, Alone, Writing

\* A step of a process that touches neither graph of the pipeline.
LEMMA AloneBeside ==
  ASSUME Alone, served' = served, \A d \in Loaders : client'[d] = client[d],
         store'["works"] = store["works"], store'["provenance"] = store["provenance"]
  PROVE  Alone'
  <1>1. ASSUME NEW put PROVE Holds(put)' <=> Holds(put)
    BY DEF Holds
  <1>2. ASSUME NEW d \in Loaders
        PROVE  (Writing(d)' <=> Writing(d)) /\ (At(d, "upload")' <=> At(d, "upload")) /\ Todo(d)' = Todo(d)
    BY DEF Writing, At, Todo
  <1>3. ASSUME NEW d \in Loaders PROVE OnlyWriter(d)' <=> OnlyWriter(d)
    BY <1>2 DEF OnlyWriter
  <1>4. ASSUME NEW put, NEW todo PROVE FirstPuts(put, todo)' <=> FirstPuts(put, todo)
    BY DEF FirstPuts
  <1>5. ASSUME NEW d \in Loaders, Writing(d)', client'[d].alone
        PROVE  /\ OnlyWriter(d)'
               /\ client'[d].at \in {"upload", "smoke"} => Holds(client[d].put)'
               /\ At(d, "upload")' => FirstPuts(client[d].put, Todo(d))'
               /\ client'[d].at \notin {"upload", "smoke"} => client'[d].put = {}
    <2>1. /\ OnlyWriter(d)
          /\ client[d].at \in {"upload", "smoke"} => Holds(client[d].put)
          /\ At(d, "upload") => FirstPuts(client[d].put, Todo(d))
          /\ client[d].at \notin {"upload", "smoke"} => client[d].put = {}
      BY <1>2, <1>5 DEF Alone
    <2>2. client'[d] = client[d]
      OBVIOUS
    <2>3. Holds(client[d].put)' <=> Holds(client[d].put)
      BY <2>2 DEF Holds
    <2>4. FirstPuts(client[d].put, Todo(d))' <=> FirstPuts(client[d].put, Todo(d))
      BY <2>2 DEF FirstPuts, Todo
    <2> QED BY ONLY <1>2, <1>3, <2>1, <2>2, <2>3, <2>4
  <1>6. served' # None => (\A d \in Loaders : ~Writing(d)') /\ Holds(served.put)'
    <2>1. served # None => (\A d \in Loaders : ~Writing(d)) /\ Holds(served.put)
      BY DEF Alone
    <2>2. Holds(served.put)' <=> Holds(served.put)
      BY DEF Holds
    <2> QED BY <1>2, <2>1, <2>2
  <1> QED BY ONLY <1>5, <1>6 DEF Alone

\* What a load that is alone has and finds.
Own(c) ==
  /\ client[c].at \in {"upload", "smoke"} => Holds(client[c].put)
  /\ At(c, "upload") => FirstPuts(client[c].put, Todo(c))
  /\ client[c].at \notin {"upload", "smoke"} => client[c].put = {}

\* A step of a load or of a clear: no other is alone, and nothing is served.
LEMMA AloneWriter ==
  ASSUME Alone, NEW c \in Loaders, Writing(c), \A d \in Loaders \ {c} : client'[d] = client[d], served' = served,
         Writing(c)' /\ client'[c].alone => client[c].alone /\ Own(c)'
  PROVE  Alone'
  <1>1. served' = None
    BY DEF Alone
  <1>2. ASSUME NEW d \in Loaders \ {c}, Writing(d)', client'[d].alone PROVE FALSE
    BY <1>2 DEF Alone, OnlyWriter, Writing
  <1>3. ASSUME Writing(c)', client'[c].alone PROVE OnlyWriter(c)'
    <2>1. OnlyWriter(c)
      BY <1>3 DEF Alone
    <2> QED BY <2>1 DEF OnlyWriter, Writing
  <1> QED BY <1>1, <1>2, <1>3 DEF Alone, Own

\* A start beside another writer: neither is alone.
LEMMA AloneStart ==
  ASSUME Shapes, Alone, NEW c \in Clients, NEW cmd \in {"load", "clear", "finto"},
         NEW mode \in ClearModes \cup {"", "dry", "strict", "force"}, NEW at \in {"enumerate", "files", "download"},
         NEW todo \in Todos, Begins(c, cmd, mode, at, todo)
  PROVE  Alone'
  <1>1. Begun(c, cmd, at, todo)
    BY Starting DEF Begins, Shapes
  <1>2. UNCHANGED store /\ client[c].cmd = "none"
    <2>1. UNCHANGED store
      BY DEF Begins, Started
    <2>2. client[c].at = "idle" /\ Shape(c)
      BY <1>1 DEF Begun, Shapes
    <2> QED BY <2>1, <2>2 DEF Shape, At
  <1>3. ASSUME NEW d \in Loaders \ {c}
        PROVE  (Writing(d)' <=> Writing(d)) /\ ~(Writing(d)' /\ client'[d].alone)
    BY <1>1, ClientsOf DEF Begun, Writing
  <1>4. CASE c \in Refreshers
    <2>1. c \notin Loaders /\ served' = served
      BY <1>4, PublishAssumption DEF Begins
    <2> QED BY <1>2, <1>3, <2>1 DEF Alone, Holds
  <1>5. CASE c \notin Refreshers
    <2>1. c \in Loaders /\ served' = None /\ at \in {"enumerate", "files"}
      BY <1>5 DEF Begins
    <2>2. client'[c].alone => \A d \in Loaders \ {c} : ~Writing(d)'
      BY <1>1, <1>3 DEF Begun
    <2>3. client'[c].at \notin {"upload", "smoke"} /\ client'[c].put = {}
      BY <1>1, <2>1 DEF Begun
    <2> QED BY <1>3, <2>1, <2>2, <2>3 DEF Alone, OnlyWriter, At
  <1> QED BY <1>4, <1>5

\* A loader that is not idle writes.
LEMMA WriterOf ==
  ASSUME Shapes, NEW c \in Loaders, client[c].at # "idle"
  PROVE  Writing(c) /\ c \in Clients
  <1>1. Shape(c) /\ client[c] \in Process /\ c \in Clients
    BY ClientsOf DEF Shapes, Typed
  <1> QED BY <1>1 DEF Shape, At, Process, Writing

LEMMA AloneEnds ==
  ASSUME Shapes, Alone, NEW c \in Clients, Ended(c), client[c].at # "idle", served' = served,
         c \notin Loaders => store' = store
  PROVE  Alone'
  <1>1. client'[c].cmd = "none" /\ \A d \in Clients \ {c} : client'[d] = client[d]
    BY Ending DEF Shapes
  <1>2. CASE c \in Loaders
    BY <1>1, <1>2, WriterOf, AloneWriter, ClientsOf DEF Writing
  <1>3. CASE c \notin Loaders
    BY <1>1, <1>3, AloneBeside, ClientsOf
  <1> QED BY <1>2, <1>3

LEMMA AloneGoes ==
  ASSUME Shapes, Alone, NEW c \in Loaders, client[c].at \in {"enumerate", "drop"}, served' = served,
         NEW at \in {"drop", "files"}, NEW todo \in Todos, Go(c, at, todo)
  PROVE  Alone'
  <1>1. /\ client'[c].at = at /\ client'[c].put = client[c].put /\ client'[c].alone = client[c].alone
        /\ client'[c].cmd = client[c].cmd
        /\ \A d \in Clients \ {c} : client'[d] = client[d]
    BY Going, ClientsOf DEF Shapes
  <1>2. Writing(c)
    BY WriterOf
  <1>3. Writing(c)' /\ client'[c].alone => client[c].alone /\ Own(c)'
    BY <1>1, <1>2 DEF Own, At, Alone
  <1> QED BY <1>1, <1>2, <1>3, AloneWriter, ClientsOf

LEMMA AloneCleared ==
  ASSUME Shapes, Alone, NEW c \in Clients, client[c].at \in {"enumerate", "drop"}, AfterClear(c), served' = served
  PROVE  Alone'
  <1>1. c \in Loaders /\ <<>> \in Todos
    BY LoaderOf, TodoTypes
  <1>2. CASE Ended(c)
    BY <1>1, <1>2, AloneEnds
  <1>3. CASE Go(c, "files", <<>>)
    BY <1>1, <1>3, AloneGoes
  <1> QED BY <1>2, <1>3 DEF AfterClear

\* The clear before the upload has put nothing yet.
LEMMA AloneClears ==
  ASSUME Shapes, Alone, NEW c \in Clients, Enumerate(c) \/ Drop(c)
  PROVE  Alone'
  <1>1. client[c].at \in {"enumerate", "drop"} /\ served' = served
    BY DEF Enumerate, Drop, At
  <1>2. c \in Loaders
    BY <1>1, LoaderOf
  <1>3. CASE AfterClear(c)
    BY <1>1, <1>3, AloneCleared
  <1>4. CASE Ended(c)
    BY <1>1, <1>2, <1>4, AloneEnds
  <1>5. ASSUME NEW t \in Seq(Base), Go(c, "drop", t) PROVE Alone'
    BY <1>1, <1>2, <1>5, TodoTypes, AloneGoes
  <1>6. CASE Enumerate(c)
    <2>1. \/ AfterClear(c)
          \/ Ended(c)
          \/ GraphsUnderPrefix # {} /\ \E s \in Sorted(GraphsUnderPrefix) : Go(c, "drop", s)
      BY <1>6 DEF Enumerate, Dies
    <2> QED BY <1>3, <1>4, <1>5, <2>1, Listing
  <1>7. CASE Drop(c)
    <2>1. \/ AfterClear(c)
          \/ Ended(c)
          \/ Len(Todo(c)) # 1 /\ Go(c, "drop", Tail(Todo(c)))
      BY <1>7, DropDone DEF Dies
    <2>2. Todo(c) \in Seq(Base) /\ Todo(c) # <<>>
      BY <1>7, DropDone
    <2> QED BY <1>3, <1>4, <1>5, <2>1, <2>2, SeqParts
  <1> QED BY <1>6, <1>7

\* The upload begins with nothing put.
LEMMA AloneFindFiles ==
  ASSUME Shapes, Alone, NEW c \in Clients, FindFiles(c)
  PROVE  Alone'
  <1> DEFINE works == Present("skosified") \o Present("admin")
             t == UploadGraph("works", works) \o UploadGraph("provenance", Present("provenance"))
  <1>1. client[c].at = "files" /\ served' = served
    BY DEF FindFiles, At
  <1>2. Typed /\ c \in Loaders /\ Writing(c)
    BY <1>1, LoaderOf, WriterOf DEF Shapes
  <1>3. works # <<>> /\ LoadRequests(t) /\ t[1].verb = "PUT"
    BY <1>2, LoadPlanned
  <1>4. Go(c, "upload", t)
    BY <1>3 DEF FindFiles
  <1> HIDE DEF t
  <1>5. t \in Todos /\ t \in Seq(Request)
    BY <1>3, TodoTypes DEF LoadRequests
  <1>6. /\ client'[c].at = "upload" /\ client'[c].todo = t
        /\ client'[c].put = client[c].put /\ client'[c].alone = client[c].alone
        /\ client'[c].cmd = client[c].cmd
        /\ \A d \in Clients \ {c} : client'[d] = client[d]
    BY <1>2, <1>4, <1>5, Going
  <1>7. FirstPuts({}, t)
    BY <1>3, <1>5 DEF FirstPuts, Into, Request
  <1>8. \A g : Into({}, g) = {}
    BY DEF Into
  <1>9. Writing(c)' /\ client'[c].alone => client[c].alone /\ Own(c)'
    <2> SUFFICES ASSUME Writing(c)', client'[c].alone
                 PROVE  client[c].alone /\ Own(c)'
      OBVIOUS
    <2>1. client[c].alone /\ client[c].put = {}
      BY <1>1, <1>2, <1>6 DEF Alone
    <2>2. client'[c].put = {} /\ Todo(c)' = t
      BY <1>6, <2>1 DEF Todo
    <2>3. Holds(client[c].put)'
      BY <1>8, <2>2 DEF Holds
    <2> QED BY <1>6, <1>7, <2>1, <2>2, <2>3 DEF Own, At
  <1> QED BY <1>1, <1>2, <1>6, <1>9, AloneWriter, ClientsOf

LEMMA AloneSmoke ==
  ASSUME Shapes, Alone, NEW c \in Clients, Smoke(c)
  PROVE  Alone'
  <1>1. /\ At(c, "smoke") /\ UNCHANGED <<store, served>> /\ c \in Loaders
        /\ client'[c].at = "smoke" /\ client'[c].put = client[c].put /\ client'[c].alone = client[c].alone
        /\ client'[c].cmd = client[c].cmd
        /\ \A d \in Clients \ {c} : client'[d] = client[d]
    BY SmokeDone
  <1>2. Writing(c)
    BY <1>1, WriterOf DEF At
  <1>3. Writing(c)' /\ client'[c].alone => client[c].alone /\ Own(c)'
    BY <1>1, <1>2 DEF Own, At, Alone, Holds
  <1> QED BY <1>1, <1>2, <1>3, AloneWriter, ClientsOf

\* A load that was alone leaves what it has put.
LEMMA AloneSuccess ==
  ASSUME Shapes, Alone, NEW c \in Loaders, Success(c)
  PROVE  Alone'
  <1>1. /\ client[c].at = "smoke" /\ c \in Clients /\ Writing(c) /\ UNCHANGED store
        /\ served' = IF client[c].alone THEN [put |-> client[c].put] ELSE None
    <2>1. /\ client[c].at = "smoke" /\ UNCHANGED store
          /\ served' = IF client[c].alone THEN [put |-> client[c].put] ELSE None
      BY DEF Success, At
    <2> QED BY <2>1, WriterOf
  <1>2. client'[c].cmd = "none" /\ \A d \in Clients \ {c} : client'[d] = client[d]
    BY <1>1, Ending DEF Shapes, Success
  <1>3. ASSUME NEW d \in Loaders, Writing(d)', client'[d].alone PROVE FALSE
    <2>1. d # c /\ Writing(d) /\ client[d].alone
      BY <1>2, <1>3, ClientsOf DEF Writing
    <2> QED BY <1>1, <2>1 DEF Alone, OnlyWriter
  <1>4. ASSUME served' # None PROVE (\A d \in Loaders : ~Writing(d)') /\ Holds(served.put)'
    <2>1. client[c].alone /\ served'.put = client[c].put
      BY <1>1, <1>4
    <2>2. OnlyWriter(c) /\ Holds(client[c].put)
      BY <1>1, <2>1 DEF Alone
    <2>3. \A d \in Loaders : ~Writing(d)'
      BY <1>2, <2>2, ClientsOf DEF OnlyWriter, Writing
    <2>4. Holds(served.put)'
      BY <1>1, <2>1, <2>2 DEF Holds
    <2> QED BY <2>3, <2>4
  <1> QED BY <1>3, <1>4 DEF Alone

\* Of the requests to come, the first.
LEMMA FirstOf ==
  ASSUME NEW put, NEW t, FirstPuts(put, t), 1 \in DOMAIN t
  PROVE  /\ t[1].verb = "PUT" => Into(put, t[1].graph) = {}
         /\ t[1].verb = "POST" => Into(put, t[1].graph) # {}
  BY DEF FirstPuts

\* One request: PUT replaces the graph and is the first, POST adds to what was put.
LEMMA OwnUpload ==
  ASSUME Shapes, NEW c \in Loaders, Upload(c), Writing(c)', Own(c)
  PROVE  Own(c)'
  <1> DEFINE q == Request1(c)
             x == disk[q.file]
             t == Todo(c)
             put == client[c].put
             more == put \cup {<<q.graph, x>>}
  <1>0. c \in Clients /\ c \notin Refreshers
    BY ClientsOf, PublishAssumption
  <1>1. At(c, "upload") /\ ~Ended(c) /\ ~Dies(c)
    BY <1>0, RequestDone, Ending DEF Shapes, Writing, Dies
  <1>2. /\ t \in Seq(Request) /\ q = t[1] /\ q \in Request /\ 1 \in DOMAIN t /\ LoadRequests(t)
    BY <1>0, <1>1, RequestTyped
  <1>3. /\ client'[c].at = IF Len(t) = 1 THEN "smoke" ELSE "upload"
        /\ client'[c].todo = IF Len(t) = 1 THEN Queries ELSE Tail(t)
        /\ client'[c].put = more
    BY <1>0, <1>1, RequestDone
  <1>4. x # None /\ store' = AfterRequest(c)
    BY <1>0, <1>1, StoreDone
  <1>5. /\ store'[q.graph] = IF q.verb = "PUT" THEN {x} ELSE store[q.graph] \cup {x}
        /\ \A g \in Graphs \ {q.graph} : store'[g] = store[g]
    BY <1>0, <1>1, <1>4, StoreTyped
  <1>6. Holds(put) /\ FirstPuts(put, t)
    BY <1>1 DEF Own, At
  <1>7. /\ q.graph \in {"works", "provenance"}
        /\ q.verb = "PUT" => Into(put, q.graph) = {}
        /\ q.verb # "PUT" => Into(put, q.graph) # {}
        /\ Len(t) # 1 => q.graph # "provenance"
    <2>1. q.graph \in {"works", "provenance"} /\ q.verb \in {"PUT", "POST"}
      BY <1>2 DEF LoadRequests, Request
    <2>2. q.graph = "provenance" => Len(t) = 1
      BY <1>2 DEF LoadRequests
    <2>3. /\ t[1].verb = "PUT" => Into(put, t[1].graph) = {}
          /\ t[1].verb = "POST" => Into(put, t[1].graph) # {}
      BY <1>2, <1>6, FirstOf
    <2> QED BY <1>2, <2>1, <2>2, <2>3
  <1>8. /\ Into(more, q.graph) = Into(put, q.graph) \cup {x}
        /\ \A h : h # q.graph => Into(more, h) = Into(put, h)
    <2> DEFINE p == <<q.graph, x>>
    <2>1. p[1] = q.graph /\ p[2] = x /\ more = put \cup {p}
      OBVIOUS
    <2> HIDE DEF p, put, q, x, more
    <2> QED BY <2>1 DEF Into
  <1>9. Holds(client[c].put)'
    <2>1. ASSUME NEW g \in {"works", "provenance"}, Into(more, g) # {} PROVE store'[g] = Into(more, g)
      <3>1. CASE g = q.graph
        <4>1. q.verb # "PUT" => store[q.graph] = Into(put, q.graph)
          BY <1>6, <1>7 DEF Holds
        <4> QED BY <1>5, <1>7, <1>8, <3>1, <4>1
      <3>2. CASE g # q.graph
        <4>1. g \in Graphs \ {q.graph}
          BY <3>2 DEF Graphs
        <4> QED BY <1>5, <1>6, <1>8, <2>1, <3>2, <4>1 DEF Holds
      <3> QED BY <3>1, <3>2
    <2> QED BY <1>3, <2>1 DEF Holds
  <1>10. Len(t) # 1 => FirstPuts(more, Tail(t))
    <2> SUFFICES ASSUME Len(t) # 1, NEW i \in DOMAIN Tail(t)
                 PROVE  /\ Tail(t)[i].verb = "PUT" => Into(more, Tail(t)[i].graph) = {}
                        /\ Tail(t)[i].verb = "POST" => Into(more, Tail(t)[i].graph) # {} \/ i > 1
      BY DEF FirstPuts
    <2>1. /\ Len(t) \in Nat /\ Tail(t)[i] = t[i + 1] /\ i + 1 \in DOMAIN t /\ i + 1 > 1 /\ i \in Nat
      BY <1>2, SeqParts
    <2>2. /\ t[i + 1].graph = "works" => t[i + 1].verb = "POST" /\ q.graph = "works"
          /\ t[i + 1].graph \in {"works", "provenance"}
          /\ t[i + 1].graph = "provenance" => t[i + 1].verb = "PUT" /\ q.graph # t[i + 1].graph
      BY <1>2, <1>7, <2>1 DEF LoadRequests
    <2>3. t[i + 1].verb = "PUT" => Into(put, t[i + 1].graph) = {}
      BY <1>6, <2>1 DEF FirstPuts
    <2> QED BY <1>8, <2>1, <2>2, <2>3
  <1> HIDE DEF more, put, t, q, x
  <1> QED BY <1>3, <1>9, <1>10 DEF Own, At, Todo

LEMMA AloneUpload ==
  ASSUME Shapes, Alone, NEW c \in Clients, Upload(c)
  PROVE  Alone'
  <1>1. At(c, "upload") /\ served' = served /\ \A d \in Clients \ {c} : client'[d] = client[d]
    BY RequestDone, Going1 DEF Dies
  <1>2. CASE c \in Refreshers
    <2>1. c \notin Loaders
      BY <1>2, PublishAssumption
    <2>2. Request1(c).graph \notin {"works", "provenance"}
      BY <1>1, <1>2, RequestTyped, PublishAssumption DEF VocabRequests
    <2>3. store'["works"] = store["works"] /\ store'["provenance"] = store["provenance"]
      BY <2>2, StoreDone DEF Graphs
    <2> QED BY <1>1, <2>1, <2>3, AloneBeside, ClientsOf
  <1>3. CASE c \in Loaders
    <2>1. Writing(c)
      BY <1>1, <1>3, WriterOf DEF At
    <2>2. ASSUME Writing(c)', client'[c].alone PROVE client[c].alone
      <3>1. ~Ended(c)
        BY <2>2, Ending DEF Shapes, Writing
      <3> QED BY <2>2, <3>1, RequestDone DEF Dies
    <2>3. Writing(c)' /\ client'[c].alone => client[c].alone /\ Own(c)'
      BY <1>3, <2>1, <2>2, OwnUpload DEF Alone, Own
    <2> QED BY <1>1, <1>3, <2>1, <2>3, AloneWriter, ClientsOf
  <1> QED BY <1>2, <1>3 DEF Clients

LEMMA AloneStep == Shapes /\ Alone /\ [Next]_vars => Alone'
  <1> SUFFICES ASSUME Shapes, Alone, [Next]_vars PROVE Alone'
    OBVIOUS
  <1>0. CASE UNCHANGED vars
    BY <1>0, AloneBeside DEF vars
  <1>1. CASE World
    <2>1. UNCHANGED <<store, client, served, torn>>
      BY <1>1, ShapeWorld
    <2> QED BY <2>1, AloneBeside
  <1>2. ASSUME NEW c \in Clients, Starts(c)
        PROVE  Alone'
    <2>1. PICK cmd \in {"load", "clear", "finto"}, mode \in ClearModes \cup {"", "dry", "strict", "force"},
               at \in {"enumerate", "files", "download"}, todo \in Todos : Begins(c, cmd, mode, at, todo)
      BY <1>2, StartBegins
    <2> QED BY <2>1, AloneStart
  <1>3. ASSUME NEW c \in Clients, LoadStep(c), c \in Loaders PROVE Alone'
    <2>1. CASE RollBack(c)
      <3>1. Ended(c) /\ client[c].at # "idle" /\ served' = served
        BY <2>1 DEF RollBack, At
      <3> QED BY <1>3, <3>1, AloneEnds
    <2> QED BY <1>3, <2>1, AloneClears, AloneFindFiles, AloneUpload, AloneSmoke, AloneSuccess DEF LoadStep
  <1>4. ASSUME NEW c \in Refreshers, FintoStep(c) PROVE Alone'
    <2>1. CASE Upload(c)
      BY <2>1, AloneUpload, ClientsOf
    <2>2. CASE Download(c)
      <3>1. \A d \in Clients \ {c} : client'[d] = client[d]
        BY <2>2, Going1, ClientsOf DEF Download
      <3>2. UNCHANGED <<store, served>>
        BY <2>2 DEF Download
      <3>3. c \notin Loaders
        BY PublishAssumption
      <3> QED BY <3>1, <3>2, <3>3, AloneBeside, ClientsOf
    <2> QED BY <1>4, <2>1, <2>2 DEF FintoStep
  <1>5. ASSUME NEW c \in Clients, Kill(c) PROVE Alone'
    <2>1. Ended(c) /\ client[c].at # "idle" /\ UNCHANGED <<served, store>>
      BY <1>5 DEF Kill, Dies, At
    <2> QED BY <2>1, AloneEnds
  <1> QED BY <1>0, <1>1, <1>2, <1>3, <1>4, <1>5, ClientsOf DEF Next, Starts, World

(* A load that had Fuseki to itself and reported success is what is served, *)
(* until the next load or clear is started.                                 *)
THEOREM SuccessServedHolds == Spec => []SuccessServed
  <1>1. Init => Shapes /\ Alone
    BY ShapeFirst, AloneFirst
  <1>2. Shapes /\ Alone /\ [Next]_vars => (Shapes /\ Alone)'
    BY ShapeStep, AloneStep
  <1>3. Alone => SuccessServed
    BY DEF Alone, Holds, Into, SuccessServed
  <1> QED BY <1>1, <1>2, <1>3, PTL DEF Spec

-----------------------------------------------------------------------------
(* The vocabulary graphs while a refresher uploads them.                    *)

\* The vocabulary of VocabularyWhole, one graph at a time.
FilesOf(g) == {v.id : v \in {u \in ToSet(Vocabs) : u.graph = g}}

WholeGraph(g) ==
  \/ store[g] = {}
  \/ /\ {x.file : x \in store[g]} = FilesOf(g)
     /\ \A x, y \in store[g] : x.file = y.file => x = y

\* The requests before the n-th that were for a graph.
Earlier(p, n, g) == {i \in 1 .. n - 1 : Vocabs[p[i]].graph = g}

\* Of a graph begun, the dumps uploaded so far, as they lie on the disk.
UploadedTo(p, n, g) ==
  IF Earlier(p, n, g) = {} THEN WholeGraph(g)
  ELSE /\ {x.file : x \in store[g]} = {Vocabs[p[i]].id : i \in Earlier(p, n, g)}
       /\ \A x \in store[g] : x = disk[x.file]

\* What is left to do is the order from its n-th request on.
Left(t, p, n) ==
  /\ Len(t) = Len(Vocabs) - n + 1
  /\ \A i \in 1 .. Len(t) : t[i] = UploadVocabs(p)[n + i - 1]

Midway(c, p, n) == Left(Todo(c), p, n) /\ \A g \in VocabGraphs : UploadedTo(p, n, g)

Refreshed ==
  "finto" \notin torn =>
    /\ (\A c \in Refreshers : ~At(c, "upload")) => \A g \in VocabGraphs : WholeGraph(g)
    /\ \A c \in Refreshers : At(c, "upload") =>
         \E p \in GroupedOrders, n \in 1 .. Len(Vocabs) : Midway(c, p, n)

OneRefresher == \A c, d \in Refreshers : c = d

LEMMA RefreshFirst == Init => Refreshed
  <1> SUFFICES ASSUME Init PROVE Refreshed
    OBVIOUS
  <1>1. \A g \in VocabGraphs : store[g] = {}
    <2>1. ASSUME NEW g \in VocabGraphs PROVE store[g] = {}
      <3>1. g \in Graphs /\ g # "works" /\ g # "provenance"
        BY PublishAssumption DEF Graphs
      <3> QED BY <3>1 DEF Init
    <2> QED BY <2>1
  <1>2. \A c \in Refreshers : ~At(c, "upload")
    BY ClientsOf DEF Init, Idle, At
  <1> QED BY <1>1, <1>2 DEF Refreshed, WholeGraph

\* The files of an order are dumps.
LEMMA OrderIds ==
  ASSUME NEW p \in GroupedOrders
  PROVE  /\ p \in [1 .. Len(Vocabs) -> 1 .. Len(Vocabs)] /\ Len(Vocabs) \in Nat
         /\ \A i \in 1 .. Len(Vocabs) : Vocabs[p[i]].id \in VocabIds /\ Vocabs[p[i]].graph \in VocabGraphs
         /\ \A k \in 1 .. Len(Vocabs) : \E i \in 1 .. Len(Vocabs) : p[i] = k
  <1>1. DOMAIN Vocabs = 1 .. Len(Vocabs) /\ Len(Vocabs) \in Nat
    BY PublishAssumption
  <1>2. p \in [1 .. Len(Vocabs) -> 1 .. Len(Vocabs)]
        /\ \A k \in 1 .. Len(Vocabs) : \E i \in 1 .. Len(Vocabs) : p[i] = k
    BY <1>1 DEF GroupedOrders
  <1> QED BY <1>1, <1>2 DEF VocabIds, VocabGraphs

\* A graph begun stays as it is while its dumps do.
LEMMA UploadedKept ==
  ASSUME NEW p \in GroupedOrders, NEW n \in 1 .. Len(Vocabs), NEW g, UploadedTo(p, n, g),
         store'[g] = store[g], \A f \in VocabIds : disk'[f] = disk[f]
  PROVE  UploadedTo(p, n, g)'
  <1>1. CASE Earlier(p, n, g) = {}
    BY <1>1 DEF UploadedTo, WholeGraph
  <1>2. CASE Earlier(p, n, g) # {}
    <2>1. ASSUME NEW x \in store[g] PROVE x.file \in VocabIds
      <3>1. x.file \in {Vocabs[p[i]].id : i \in Earlier(p, n, g)}
        BY <1>2 DEF UploadedTo
      <3>2. Earlier(p, n, g) \subseteq 1 .. Len(Vocabs)
        BY OrderIds DEF Earlier
      <3> QED BY <3>1, <3>2, OrderIds
    <2> QED BY <1>2, <2>1 DEF UploadedTo
  <1> QED BY <1>1, <1>2

\* A step that leaves the vocabulary graphs, their dumps and the refreshers' requests alone.
LEMMA RefreshKept ==
  ASSUME Refreshed, \A g \in VocabGraphs : store'[g] = store[g], \A f \in VocabIds : disk'[f] = disk[f],
         torn \subseteq torn',
         \A c \in Refreshers : (At(c, "upload")' <=> At(c, "upload")) /\ (At(c, "upload") => Todo(c)' = Todo(c))
  PROVE  Refreshed'
  <1> SUFFICES ASSUME "finto" \notin torn' PROVE Refreshed'
    BY DEF Refreshed
  <1>1. "finto" \notin torn
    OBVIOUS
  <1>2. ASSUME \A c \in Refreshers : ~At(c, "upload")', NEW g \in VocabGraphs PROVE WholeGraph(g)'
    BY <1>1, <1>2 DEF Refreshed, WholeGraph
  <1>3. ASSUME NEW c \in Refreshers, At(c, "upload")'
        PROVE  \E p \in GroupedOrders, n \in 1 .. Len(Vocabs) : Midway(c, p, n)'
    <2>1. PICK p \in GroupedOrders, n \in 1 .. Len(Vocabs) : Midway(c, p, n)
      BY <1>1, <1>3 DEF Refreshed
    <2>2. Todo(c)' = Todo(c)
      BY <1>3
    <2>3. \A g \in VocabGraphs : UploadedTo(p, n, g)'
      BY <2>1, UploadedKept DEF Midway
    <2>4. Midway(c, p, n)'
      BY <2>1, <2>2, <2>3 DEF Midway
    <2> QED BY <2>4
  <1> QED BY <1>2, <1>3 DEF Refreshed

\* No vocabulary is in a graph that the pipeline writes or clears.
LEMMA VocabGraph ==
  ASSUME NEW g \in VocabGraphs
  PROVE  g \in Graphs /\ g # "works" /\ g # "provenance" /\ g \notin Base
  BY PublishAssumption DEF Graphs

\* The steps of a load or of a clear.
LEMMA RefreshBeside ==
  ASSUME Shapes, Refreshed, NEW c \in Loaders, LoadStep(c) \/ Kill(c)
  PROVE  Refreshed'
  <1>0. c \in Clients /\ \A d \in Refreshers : d # c /\ d \in Clients
    BY ClientsOf, PublishAssumption
  <1>1. \A d \in Clients \ {c} : client'[d] = client[d]
    BY <1>0, Going1, RequestDone, SmokeDone
       DEF LoadStep, Enumerate, Drop, FindFiles, AfterClear, Success, RollBack, Kill, Dies
  <1>2. disk' = disk /\ torn \subseteq torn'
    BY DEF LoadStep, Enumerate, Drop, FindFiles, Upload, Smoke, Success, RollBack, Kill, Dies
  <1>3. ASSUME NEW g \in VocabGraphs PROVE store'[g] = store[g]
    <2>0. g \in Graphs /\ g # "works" /\ g # "provenance" /\ g \notin Base /\ store \in [Graphs -> SUBSET Contents]
      BY VocabGraph DEF Shapes, Typed
    <2>1. CASE Drop(c)
      <3>1. store' \in {store, [store EXCEPT ![Head(Todo(c))] = {}]} /\ Head(Todo(c)) \in Base
        BY <1>0, <2>1, DropDone
      <3> QED BY <2>0, <3>1
    <2>2. CASE Upload(c)
      <3>1. LoadRequests(Todo(c)) /\ Request1(c) = Todo(c)[1] /\ 1 \in DOMAIN Todo(c)
        BY <1>0, <2>2, RequestTyped DEF Upload
      <3>2. Request1(c).graph \in {"works", "provenance"}
        BY <3>1 DEF LoadRequests
      <3> QED BY <1>0, <2>0, <2>2, <3>2, StoreDone
    <2>3. CASE RollBack(c)
      BY <1>0, <2>0, <2>3, ShapeRest
    <2> QED BY <2>1, <2>2, <2>3 DEF LoadStep, Enumerate, FindFiles, Smoke, Success, Kill
  <1> QED BY <1>0, <1>1, <1>2, <1>3, RefreshKept DEF At, Todo

LEMMA RefreshWorld ==
  ASSUME Shapes, Refreshed, World
  PROVE  Refreshed'
  <1>1. UNCHANGED <<store, client, torn>>
    BY ShapeWorld
  <1>2. ASSUME NEW f \in VocabIds PROVE disk'[f] = disk[f]
    <2>1. f \in Files /\ f # "skosified" /\ f # "provenance" /\ disk \in [Files -> Contents \cup {None}]
      BY PublishAssumption DEF Files, Shapes, Typed
    <2> QED BY <2>1 DEF World, Build, DumpsAge
  <1> QED BY <1>1, <1>2, RefreshKept DEF At, Todo

LEMMA RefreshStart ==
  ASSUME Shapes, Refreshed, NEW c \in Clients, NEW cmd \in {"load", "clear", "finto"},
         NEW mode \in ClearModes \cup {"", "dry", "strict", "force"}, NEW at \in {"enumerate", "files", "download"},
         NEW todo \in Todos, Begins(c, cmd, mode, at, todo)
  PROVE  Refreshed'
  <1>1. Begun(c, cmd, at, todo)
    BY Starting DEF Begins, Shapes
  <1>2. UNCHANGED <<store, disk, torn>>
    BY ShapeStart
  <1>3. \A d \in Refreshers : (At(d, "upload")' <=> At(d, "upload")) /\ (At(d, "upload") => Todo(d)' = Todo(d))
    BY <1>1, ClientsOf DEF Begun, At, Todo
  <1> QED BY <1>2, <1>3, RefreshKept

\* Where no refresher uploads, before and after, every graph stays what it was.
LEMMA RefreshIdle ==
  ASSUME Refreshed, \A c \in Refreshers : ~At(c, "upload"), store' = store, torn \subseteq torn',
         \A c \in Refreshers : ~At(c, "upload")'
  PROVE  Refreshed'
  BY DEF Refreshed, WholeGraph

\* Downloads write no graph; the last of them begins the upload.
LEMMA RefreshDownload ==
  ASSUME Shapes, Refreshed, OneRefresher, NEW c \in Refreshers, Download(c)
  PROVE  Refreshed'
  <1>1. c \in Clients /\ At(c, "download") /\ \A d \in Refreshers : d = c
    BY ClientsOf DEF Download, OneRefresher
  <1>2. UNCHANGED <<store, torn>> /\ \A d \in Refreshers : ~At(d, "upload")
    BY <1>1 DEF Download, At
  <1>3. CASE Ended(c)
    <2>1. ~At(c, "upload")'
      BY <1>1, <1>3, Ending DEF Shapes, At
    <2> QED BY <1>1, <1>2, <2>1, RefreshIdle
  <1>4. ASSUME Len(Todo(c)) # 1, Go(c, "download", Tail(Todo(c))) PROVE Refreshed'
    <2>1. Todo(c) \in Seq(Vocabulary) /\ Todo(c) # <<>> /\ Typed
      BY <1>1 DEF Shapes, Shape
    <2>2. Tail(Todo(c)) \in Todos
      BY <1>4, <2>1, SeqParts, TodoTypes
    <2>3. ~At(c, "upload")'
      BY <1>1, <1>4, <2>1, <2>2, Going DEF At
    <2> QED BY <1>1, <1>2, <2>3, RefreshIdle
  <1>5. ASSUME NEW p \in GroupedOrders, Go(c, "upload", UploadVocabs(p)) PROVE Refreshed'
    <2> SUFFICES ASSUME "finto" \notin torn PROVE Refreshed'
      BY <1>2 DEF Refreshed
    <2>1. UploadVocabs(p) \in Todos /\ Typed
      BY VocabPlanned, TodoTypes DEF VocabRequests, Shapes
    <2>2. At(c, "upload")' /\ Todo(c)' = UploadVocabs(p)
      BY <1>1, <1>5, <2>1, Going DEF At, Todo
    <2>3. \A g \in VocabGraphs : UploadedTo(p, 1, g)'
      <3>1. \A g \in VocabGraphs : WholeGraph(g)'
        BY <1>2 DEF Refreshed, WholeGraph
      <3>2. \A g : Earlier(p, 1, g) = {}
        BY DEF Earlier
      <3> QED BY <3>1, <3>2 DEF UploadedTo
    <2>4. Left(UploadVocabs(p), p, 1) /\ 1 \in 1 .. Len(Vocabs)
      <3>1. Len(Vocabs) \in Nat /\ Len(Vocabs) > 0 /\ Len(UploadVocabs(p)) = Len(Vocabs)
        BY OrderIds, PublishAssumption DEF UploadVocabs
      <3> QED BY <3>1 DEF Left
    <2>5. Midway(c, p, 1)'
      BY <2>2, <2>3, <2>4 DEF Midway
    <2> QED BY <1>1, <2>2, <2>4, <2>5 DEF Refreshed
  <1> QED BY <1>3, <1>4, <1>5 DEF Download

\* What is left after one request.
LEMMA LeftRest ==
  ASSUME NEW t \in Seq(Request), t # <<>>, Len(t) # 1,
         NEW p \in GroupedOrders, NEW n \in 1 .. Len(Vocabs), Left(t, p, n)
  PROVE  n + 1 \in 1 .. Len(Vocabs) /\ Left(Tail(t), p, n + 1)
  <1>1. /\ Len(t) \in Nat /\ Len(t) > 1 /\ Len(Tail(t)) = Len(t) - 1 /\ DOMAIN Tail(t) = 1 .. Len(t) - 1
        /\ \A i \in DOMAIN Tail(t) : Tail(t)[i] = t[i + 1] /\ i + 1 \in DOMAIN t /\ i \in Nat
        /\ DOMAIN t = 1 .. Len(t) /\ Len(Vocabs) \in Nat /\ n \in Nat
    BY SeqParts, OrderIds
  <1>2. Len(t) = Len(Vocabs) - n + 1 /\ \A i \in 1 .. Len(t) : t[i] = UploadVocabs(p)[n + i - 1]
    BY DEF Left
  <1>3. ASSUME NEW i \in 1 .. Len(Tail(t)) PROVE Tail(t)[i] = UploadVocabs(p)[n + 1 + i - 1]
    <2>1. i \in DOMAIN Tail(t) /\ i + 1 \in 1 .. Len(t)
      BY <1>1
    <2>2. t[i + 1] = UploadVocabs(p)[n + (i + 1) - 1]
      BY <1>2, <2>1
    <2>3. n + (i + 1) - 1 = n + 1 + i - 1
      BY <1>1, <2>1
    <2> QED BY <1>1, <2>1, <2>2, <2>3
  <1> QED BY <1>1, <1>2, <1>3 DEF Left

\* The request that is due: the first of its graph is PUT.
LEMMA NextRequest ==
  ASSUME NEW t \in Seq(Request), t # <<>>, NEW p \in GroupedOrders, NEW n \in 1 .. Len(Vocabs), Left(t, p, n)
  PROVE  /\ t[1].graph = Vocabs[p[n]].graph /\ t[1].file = Vocabs[p[n]].id
         /\ t[1].verb = "PUT" <=> Earlier(p, n, t[1].graph) = {}
         /\ Len(t) = 1 => n = Len(Vocabs)
  <1>1. DOMAIN p = 1 .. Len(Vocabs) /\ Len(Vocabs) \in Nat /\ 1 \in 1 .. Len(t)
    BY OrderIds
  <1>2. t[1] = UploadVocabs(p)[n]
    <2>1. t[1] = UploadVocabs(p)[n + 1 - 1] /\ n + 1 - 1 = n
      BY <1>1 DEF Left
    <2> QED BY <2>1
  <1>3. t[1] = [graph |-> Vocabs[p[n]].graph, file |-> Vocabs[p[n]].id,
                verb |-> IF \E j \in 1 .. n - 1 : Vocabs[p[j]].graph = Vocabs[p[n]].graph THEN "POST" ELSE "PUT"]
    BY <1>1, <1>2 DEF UploadVocabs
  <1>4. t[1].graph = Vocabs[p[n]].graph /\ t[1].file = Vocabs[p[n]].id
    BY <1>3
  <1>5. t[1].verb = "PUT" <=> ~\E j \in 1 .. n - 1 : Vocabs[p[j]].graph = Vocabs[p[n]].graph
    BY <1>3
  <1>6. t[1].verb = "PUT" <=> Earlier(p, n, t[1].graph) = {}
    BY <1>4, <1>5 DEF Earlier
  <1>7. Len(t) = 1 => n = Len(Vocabs)
    <2>1. Len(t) = Len(Vocabs) - n + 1
      BY DEF Left
    <2> DEFINE m == Len(Vocabs)
               k == Len(t)
    <2>2. m \in Nat /\ n \in Nat /\ k = m - n + 1
      BY <1>1, <2>1
    <2> HIDE DEF m, k
    <2>3. k = 1 => n = m
      BY <2>2
    <2> QED BY <2>3 DEF m, k
  <1> QED BY <1>4, <1>6, <1>7

\* One request more: the graph holds one dump more, each as it lies on the disk.
LEMMA OneMore ==
  ASSUME Shapes, NEW c \in Refreshers, Upload(c), ~Dies(c),
         NEW p \in GroupedOrders, NEW n \in 1 .. Len(Vocabs), Midway(c, p, n), NEW h \in VocabGraphs
  PROVE  UploadedTo(p, n + 1, h)'
  <1> DEFINE q == Request1(c)
             x == disk[q.file]
             E == Earlier(p, n, h)
             F == Earlier(p, n + 1, h)
  <1>1. c \in Clients /\ At(c, "upload") /\ h \in Graphs /\ n \in Nat /\ disk' = disk
    BY ClientsOf, VocabGraph DEF Upload
  <1>2. Todo(c) \in Seq(Request) /\ Todo(c) # <<>> /\ q = Todo(c)[1] /\ q \in Request /\ (x # None => x.file = q.file)
    BY <1>1, RequestTyped
  <1>3. /\ q.graph = Vocabs[p[n]].graph /\ q.file = Vocabs[p[n]].id
        /\ q.verb = "PUT" <=> Earlier(p, n, q.graph) = {}
    <2>1. Left(Todo(c), p, n)
      BY DEF Midway
    <2>2. PICK t \in Seq(Request) : t = Todo(c) /\ t # <<>> /\ Left(t, p, n)
      BY <1>2, <2>1
    <2>3. /\ t[1].graph = Vocabs[p[n]].graph /\ t[1].file = Vocabs[p[n]].id
          /\ t[1].verb = "PUT" <=> Earlier(p, n, t[1].graph) = {}
      BY <2>2, NextRequest
    <2> QED BY <1>2, <2>2, <2>3
  <1>4. x # None /\ store' = AfterRequest(c)
    BY <1>1, StoreDone
  <1>5. store'[h] = IF h = q.graph THEN (IF q.verb = "PUT" THEN {x} ELSE store[h] \cup {x}) ELSE store[h]
    BY <1>1, <1>4, StoreTyped
  <1>6. F = IF h = q.graph THEN E \cup {n} ELSE E
    BY <1>1, <1>3 DEF Earlier
  <1>7. UploadedTo(p, n, h)
    BY DEF Midway
  <1>8. CASE h # q.graph
    BY <1>1, <1>5, <1>6, <1>7, <1>8 DEF UploadedTo, WholeGraph
  <1>9. CASE h = q.graph
    <2>1. F # {} /\ F = E \cup {n} /\ x = disk[x.file] /\ x.file = Vocabs[p[n]].id
      BY <1>2, <1>3, <1>4, <1>6, <1>9
    <2>2. CASE E = {}
      <3>1. store'[h] = {x} /\ F = {n}
        BY <1>3, <1>5, <1>9, <2>1, <2>2
      <3> HIDE DEF F, x, q
      <3>2. {y.file : y \in store'[h]} = {Vocabs[p[i]].id : i \in F} /\ \A y \in store'[h] : y = disk'[y.file]
        BY <1>1, <2>1, <3>1
      <3> QED BY <2>1, <3>2 DEF UploadedTo, F
    <2>3. CASE E # {}
      <3>1. store'[h] = store[h] \cup {x}
        BY <1>3, <1>5, <1>9, <2>3, <1>2 DEF Request
      <3>2. {y.file : y \in store[h]} = {Vocabs[p[i]].id : i \in E} /\ \A y \in store[h] : y = disk[y.file]
        BY <1>7, <2>3 DEF UploadedTo
      <3> HIDE DEF F, x, q, E
      <3>3. {y.file : y \in store'[h]} = {Vocabs[p[i]].id : i \in F}
        <4>1. {y.file : y \in store[h] \cup {x}} = {y.file : y \in store[h]} \cup {x.file}
          OBVIOUS
        <4>2. {Vocabs[p[i]].id : i \in E \cup {n}} = {Vocabs[p[i]].id : i \in E} \cup {Vocabs[p[n]].id}
          OBVIOUS
        <4> QED BY <2>1, <3>1, <3>2, <4>1, <4>2
      <3>4. \A y \in store'[h] : y = disk'[y.file]
        BY <1>1, <2>1, <3>1, <3>2
      <3> QED BY <2>1, <3>3, <3>4 DEF UploadedTo, F
    <2> QED BY <2>2, <2>3
  <1> QED BY <1>8, <1>9

\* All of them: the graph is whole.
LEMMA AllDone ==
  ASSUME NEW p \in GroupedOrders, NEW h, UploadedTo(p, Len(Vocabs) + 1, h)'
  PROVE  WholeGraph(h)'
  <1> DEFINE E == Earlier(p, Len(Vocabs) + 1, h)
  <1>1. E = {i \in 1 .. Len(Vocabs) : Vocabs[p[i]].graph = h}
    BY OrderIds DEF Earlier
  <1>2. CASE E = {}
    BY <1>2 DEF UploadedTo
  <1>3. CASE E # {}
    <2>1. {Vocabs[p[i]].id : i \in E} = FilesOf(h)
      <3>1. ToSet(Vocabs) = {Vocabs[k] : k \in 1 .. Len(Vocabs)}
        BY PublishAssumption DEF ToSet
      <3>2. ASSUME NEW i \in E PROVE Vocabs[p[i]].id \in FilesOf(h)
        BY <1>1, <3>1, OrderIds DEF FilesOf
      <3>3. ASSUME NEW f \in FilesOf(h) PROVE f \in {Vocabs[p[i]].id : i \in E}
        <4>1. PICK k \in 1 .. Len(Vocabs) : Vocabs[k].graph = h /\ f = Vocabs[k].id
          BY <3>1 DEF FilesOf
        <4>2. PICK i \in 1 .. Len(Vocabs) : p[i] = k
          BY OrderIds
        <4> QED BY <1>1, <4>1, <4>2
      <3> QED BY <3>2, <3>3
    <2>2. {x.file : x \in store'[h]} = FilesOf(h) /\ \A x \in store'[h] : x = disk'[x.file]
      BY <1>3, <2>1 DEF UploadedTo
    <2> QED BY <2>2 DEF WholeGraph
  <1> QED BY <1>2, <1>3

LEMMA RefreshUpload ==
  ASSUME Shapes, Refreshed, OneRefresher, NEW c \in Refreshers, Upload(c)
  PROVE  Refreshed'
  <1>1. c \in Clients /\ At(c, "upload") /\ \A d \in Refreshers : d = c
    BY ClientsOf DEF Upload, OneRefresher
  <1>2. Todo(c) \in Seq(Request) /\ Todo(c) # <<>> /\ client[c].cmd = "finto" /\ c \notin Loaders
    BY <1>1, RequestTyped, PublishAssumption
  <1>3. CASE Dies(c)
    BY <1>2, <1>3 DEF Dies, Refreshed
  <1>4. CASE ~Dies(c)
    <2> SUFFICES ASSUME "finto" \notin torn' PROVE Refreshed'
      BY DEF Refreshed
    <2>1. torn' = torn
      BY <1>1, <1>4, RequestDone
    <2>2. PICK p \in GroupedOrders, n \in 1 .. Len(Vocabs) : Midway(c, p, n)
      BY <1>1, <2>1 DEF Refreshed
    <2>3. \A h \in VocabGraphs : UploadedTo(p, n + 1, h)'
      BY <1>4, <2>2, OneMore
    <2>4. CASE Len(Todo(c)) = 1
      <3>1. n = Len(Vocabs)
        BY <1>2, <2>2, <2>4, NextRequest DEF Midway
      <3>2. Ended(c)
        BY <1>2, <1>4, <2>4 DEF Upload
      <3>3. ~At(c, "upload")'
        BY <1>1, <3>2, Ending DEF Shapes, At
      <3>4. ASSUME NEW h \in VocabGraphs PROVE WholeGraph(h)'
        BY <2>3, <3>1, AllDone
      <3> QED BY <1>1, <3>3, <3>4 DEF Refreshed
    <2>5. CASE Len(Todo(c)) # 1
      <3>1. n + 1 \in 1 .. Len(Vocabs) /\ Left(Tail(Todo(c)), p, n + 1)
        BY <1>2, <2>2, <2>5, LeftRest DEF Midway
      <3>2. client'[c].at = "upload" /\ client'[c].todo = Tail(Todo(c))
        BY <1>1, <1>4, <2>5, RequestDone
      <3>3. Midway(c, p, n + 1)'
        BY <2>3, <3>1, <3>2 DEF Midway, Todo
      <3> QED BY <1>1, <3>1, <3>2, <3>3 DEF Refreshed, At
    <2> QED BY <2>4, <2>5
  <1> QED BY <1>3, <1>4

LEMMA RefreshStep == Shapes /\ Refreshed /\ OneRefresher /\ [Next]_vars => Refreshed'
  <1> SUFFICES ASSUME Shapes, Refreshed, OneRefresher, [Next]_vars PROVE Refreshed'
    OBVIOUS
  <1>0. CASE UNCHANGED vars
    BY <1>0, RefreshKept DEF vars, At, Todo
  <1>1. CASE World
    BY <1>1, RefreshWorld
  <1>2. ASSUME NEW c \in Clients, Starts(c)
        PROVE  Refreshed'
    <2>1. PICK cmd \in {"load", "clear", "finto"}, mode \in ClearModes \cup {"", "dry", "strict", "force"},
               at \in {"enumerate", "files", "download"}, todo \in Todos : Begins(c, cmd, mode, at, todo)
      BY <1>2, StartBegins
    <2> QED BY <2>1, RefreshStart
  <1>3. ASSUME NEW c \in Refreshers, Kill(c) PROVE Refreshed'
    <2>1. /\ c \in Clients /\ (\A d \in Refreshers : d = c)
          /\ UNCHANGED store /\ torn' = torn \cup {client[c].cmd} /\ Ended(c)
          /\ ~At(c, "idle") /\ client[c].cmd \in {"none", "finto"} /\ Shape(c)
      BY <1>3, ClientsOf DEF Kill, Dies, OneRefresher, Shapes, Shape
    <2>2. client[c].cmd = "finto"
      BY <2>1 DEF Shape
    <2> QED BY <2>1, <2>2 DEF Refreshed
  <1> QED BY <1>0, <1>1, <1>2, <1>3, ClientsOf, RefreshBeside, RefreshDownload, RefreshUpload
          DEF Next, Starts, World, FintoStep, Clients

(* Where no two load-finto run at once, each vocabulary graph is whole      *)
(* outside the upload.                                                      *)
THEOREM VocabularyWholeHolds == ASSUME OneRefresher PROVE Spec => []VocabularyWhole
  <1>1. Init => Shapes /\ Refreshed
    BY ShapeFirst, RefreshFirst
  <1>2. Shapes /\ Refreshed /\ [Next]_vars => (Shapes /\ Refreshed)'
    BY ShapeStep, RefreshStep
  <1>3. Refreshed => VocabularyWhole
    <2>1. Graphs \ {"works", "provenance"} \subseteq VocabGraphs
      BY DEF Graphs
    <2> QED BY <2>1 DEF Refreshed, WholeGraph, FilesOf, VocabularyWhole
  <1> QED BY <1>1, <1>2, <1>3, PTL DEF Spec
=============================================================================
