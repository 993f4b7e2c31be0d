------------------------------ MODULE Publish ------------------------------
(* Fuseki as the pipeline writes it: `load' (clear, upload, smoke ASKs,    *)
(* roll back), `runs clear-fuseki' and `runs prune --reset-fuseki', and    *)
(* `load-finto', each a process that sends one HTTP request after another, *)
(* with nothing that keeps two of them apart.                              *)
(*                                                                         *)
(* A named graph is the set of file contents put into it; a graph with     *)
(* none does not exist.  The file is read when its request is sent.        *)
EXTENDS Naturals, Sequences, FiniteSets, SequencesExt, FiniteSetsExt

CONSTANTS Loaders, Refreshers,   \* processes
          Queries,               \* sequence: the ASKs of post-load-smoke.rq
          Vocabs,                \* sequence of [id, graph]: FINTO_VOCABS
          Base,                  \* the graphs under settings.graph_base
          Oversized,             \* graphs above the safety threshold
          ClearModes,            \* BFFI_FUSEKI_CLEAR_ON_RUN_START
          MaxStarts, MaxBuilds, MaxFaults,    \* bounds
          None

Asked == ToSet(Queries)
VocabIds == {Vocabs[i].id : i \in DOMAIN Vocabs}
VocabGraphs == {Vocabs[i].graph : i \in DOMAIN Vocabs}
Files == {"skosified", "admin", "provenance"} \cup VocabIds

ASSUME PublishAssumption ==
  /\ Loaders \cap Refreshers = {}
  /\ Queries \in Seq(Asked) /\ Queries # <<>>
  /\ Vocabs \in Seq([id : VocabIds, graph : VocabGraphs]) /\ Vocabs # <<>>
  /\ \A i, j \in DOMAIN Vocabs : Vocabs[i].id = Vocabs[j].id => i = j
  /\ VocabIds \cap {"skosified", "admin", "provenance"} = {}
  /\ VocabGraphs \cap ({"works", "provenance"} \cup Base) = {}
  /\ IsFiniteSet(Base)
  /\ None \notin [file : Files, ver : Nat, ok : SUBSET Asked]
  /\ None \notin [put : SUBSET ({"works", "provenance"} \X [file : Files, ver : Nat, ok : SUBSET Asked])]

VARIABLES store,        \* graph -> contents
          disk,         \* file -> content, None where there is no file
          stale,        \* vocabularies whose cached dump is over max_age_days old
          client,       \* the processes
          served,       \* what the last load that reported success had uploaded
          torn,         \* a process died, or a request failed, with writes left undone
          starts, builds, faults

vars == <<store, disk, stale, client, served, torn, starts, builds, faults>>

Clients == Loaders \cup Refreshers
Graphs == {"works", "provenance"} \cup VocabGraphs

Idle == [cmd |-> "none", at |-> "idle", mode |-> "", todo |-> <<>>, put |-> {}, passed |-> TRUE,
         alone |-> TRUE]

Content(f, v, ok) == [file |-> f, ver |-> v, ok |-> ok]
FirstBuild == [f \in {"skosified", "admin", "provenance"} |->
                 Content(f, 0, IF f = "skosified" THEN Asked ELSE {})]

\* The pipeline has run, and Fuseki is empty or has been loaded from it.
Init ==
  /\ disk = [f \in Files |-> IF f \in DOMAIN FirstBuild THEN FirstBuild[f] ELSE None]
  /\ \E loaded \in BOOLEAN :
       store = [g \in Graphs |-> IF ~loaded THEN {}
                                 ELSE CASE g = "works" -> {disk["skosified"], disk["admin"]}
                                        [] g = "provenance" -> {disk["provenance"]}
                                        [] OTHER -> {}]
  /\ stale = {}
  /\ client = [c \in Clients |-> Idle]
  /\ served = None /\ torn = {}
  /\ starts = 0 /\ builds = 0 /\ faults = 0

Writing(c) == client[c].cmd \in {"load", "clear"}
Quiet(S) == \A c \in S : client[c].at = "idle"
At(c, at) == client[c].at = at
Todo(c) == client[c].todo
Go(c, at, todo) == client' = [client EXCEPT ![c].at = at, ![c].todo = todo]

-----------------------------------------------------------------------------
(* The pipeline writes its files anew: a corpus on which some of the ASKs  *)
(* hold, or a new data directory with none yet; provenance.ttl may be      *)
(* missing.                                                                *)

Build(ok, prov) ==
  /\ builds < MaxBuilds /\ builds' = builds + 1
  /\ disk' = [disk EXCEPT !["skosified"] = IF ok = {} THEN None ELSE Content("skosified", builds', ok),
                          !["provenance"] = IF prov THEN Content("provenance", builds', {}) ELSE None]
  /\ UNCHANGED <<store, stale, client, served, torn, starts, faults>>

DumpsAge ==
  /\ stale # VocabIds /\ stale' = VocabIds
  /\ UNCHANGED <<store, disk, client, served, torn, starts, builds, faults>>

-----------------------------------------------------------------------------
(* Starting and ending.                                                    *)

\* Starting beside another writer: neither is alone any more.
Started(c, cmd, mode, at, todo) ==
  /\ At(c, "idle") /\ starts < MaxStarts /\ starts' = starts + 1
  /\ LET others == {d \in Loaders \ {c} : Writing(d)}
     IN client' = [d \in Clients |->
                     IF d = c
                     THEN [Idle EXCEPT !.cmd = cmd, !.mode = mode, !.at = at, !.todo = todo,
                                       !.alone = others = {}]
                     ELSE IF d \in others THEN [client[d] EXCEPT !.alone = FALSE] ELSE client[d]]
  /\ UNCHANGED <<store, disk, stale, torn, builds, faults>>

Ended(c) == client' = [client EXCEPT ![c] = Idle]

\* load_command: --no-clear-fuseki and mode "false" go straight to the upload.
StartLoad(c, mode) ==
  /\ Started(c, "load", mode, IF mode = "false" THEN "files" ELSE "enumerate", <<>>)
  /\ served' = None

\* runs clear-fuseki [--apply] [--force-clear], runs prune --reset-fuseki.
StartClear(c, mode) ==
  /\ Started(c, "clear", mode, "enumerate", <<>>)
  /\ served' = None

\* An exception leaves the command; nothing is undone.
Dies(c) == Ended(c) /\ torn' = torn \cup {client[c].cmd}

Kill(c) ==
  /\ ~At(c, "idle") /\ faults < MaxFaults /\ faults' = faults + 1
  /\ Dies(c)
  /\ UNCHANGED <<store, disk, stale, served, starts, builds>>

Fault(c) == faults < MaxFaults /\ faults' = faults + 1
NoFault == UNCHANGED faults

-----------------------------------------------------------------------------
(* clear_run_output_graphs.                                                *)

\* _enumerate_graphs_under_prefix: the graphs of the prefix that hold a
\* triple, the provenance graph before the works graph.
GraphsUnderPrefix == {g \in Base : store[g] # {}}
Sorted(graphs) ==
  {s \in [1 .. Cardinality(graphs) -> graphs] :
     \A i, j \in DOMAIN s : i < j => s[i] # s[j] /\ ~(s[i] = "works" /\ s[j] = "provenance")}

\* Where the clear is done a load goes on; the other commands end.
AfterClear(c) == IF client[c].cmd = "load" THEN Go(c, "files", <<>>) ELSE Ended(c)

\* A refused connection is reported: fatal to the command line's clear and in
\* strict mode, else the load goes on.  Any other HTTP error is raised.
Enumerate(c) ==
  /\ At(c, "enumerate")
  /\ \/ /\ NoFault /\ UNCHANGED torn
        /\ IF GraphsUnderPrefix = {} THEN AfterClear(c)
           ELSE \E s \in Sorted(GraphsUnderPrefix) : Go(c, "drop", s)
     \/ /\ Fault(c)
        /\ \/ client[c].mode # "strict" /\ AfterClear(c) /\ UNCHANGED torn    \* ConnectError
           \/ Dies(c)
  /\ UNCHANGED <<store, disk, stale, served, starts, builds>>

\* Count, then DELETE: an oversized graph is kept without --force-clear, a
\* failed count is raised, a failed DELETE leaves the graph and goes on.
Drop(c) ==
  /\ At(c, "drop")
  /\ LET g == Head(Todo(c))
         kept == (g \in Oversized /\ client[c].mode # "force") \/ client[c].mode = "dry"
         next == IF Len(Todo(c)) = 1 THEN AfterClear(c) ELSE Go(c, "drop", Tail(Todo(c)))
     IN \/ /\ NoFault /\ next /\ UNCHANGED torn
           /\ store' = IF kept THEN store ELSE [store EXCEPT ![g] = {}]
        \/ /\ Fault(c) /\ ~kept /\ next /\ UNCHANGED torn
           /\ store' \in {store, [store EXCEPT ![g] = {}]}
        \/ /\ Fault(c) /\ Dies(c) /\ UNCHANGED store
  /\ UNCHANGED <<disk, stale, served, starts, builds>>

-----------------------------------------------------------------------------
(* load: upload_graph, run_ask, delete_graph.                              *)

\* Slip: every file is appended.
UploadAppends(g, files) == [i \in DOMAIN files |-> [graph |-> g, file |-> files[i], verb |-> "POST"]]

\* The first file is PUT, which clears the graph, each later one POSTed.
UploadGraph(g, files) ==
  [i \in DOMAIN files |-> [graph |-> g, file |-> files[i], verb |-> IF i = 1 THEN "PUT" ELSE "POST"]]

Present(f) == IF disk[f] = None THEN <<>> ELSE <<f>>

\* _run_pipeline looks for its three files; neither skosified nor admin is an
\* error.  (That provenance.ttl is looked for after the works upload is not
\* told apart: a Build in between counts as one that came before.)
FindFiles(c) ==
  /\ At(c, "files")
  /\ LET works == Present("skosified") \o Present("admin")
     IN IF works = <<>> THEN Dies(c)
        ELSE /\ Go(c, "upload", UploadGraph("works", works) \o UploadGraph("provenance", Present("provenance")))
             /\ UNCHANGED torn
  /\ NoFault /\ UNCHANGED <<store, disk, stale, served, starts, builds>>

\* One request of an upload.  It may fail before the server did it, or after.
Upload(c) ==
  /\ At(c, "upload")
  /\ LET q == Head(Todo(c))
         x == disk[q.file]
         done == [store EXCEPT ![q.graph] = IF q.verb = "PUT" THEN {x} ELSE @ \cup {x}]
         last == Len(Todo(c)) = 1
     IN IF x = None                                    \* gone since: read_bytes raises
        THEN NoFault /\ Dies(c) /\ UNCHANGED store
        ELSE \/ /\ NoFault /\ store' = done /\ UNCHANGED torn
                /\ IF last /\ client[c].cmd = "finto" THEN Ended(c)
                   ELSE client' = [client EXCEPT ![c].put = @ \cup {<<q.graph, x>>},
                                                 ![c].at = IF last THEN "smoke" ELSE "upload",
                                                 ![c].todo = IF last THEN Queries ELSE Tail(@)]
             \/ Fault(c) /\ store' \in {store, done} /\ Dies(c)
  /\ UNCHANGED <<disk, stale, served, starts, builds>>

\* run_ask: on what the works graph holds now, whoever put it there.
Asks(q) == \E x \in store["works"] : q \in x.ok

\* Slip: an ASK that could not be run counts for nothing.
AnswerForgiving(c, q, failed) == client[c].passed /\ (failed \/ Asks(q))

\* An ASK that could not be run is one that failed.
Answer(c, q, failed) == client[c].passed /\ ~failed /\ Asks(q)

Smoke(c) ==
  /\ At(c, "smoke") /\ Todo(c) # <<>>
  /\ \E failed \in BOOLEAN :
       /\ IF failed THEN Fault(c) ELSE NoFault
       /\ client' = [client EXCEPT ![c].todo = Tail(@), ![c].passed = Answer(c, Head(Todo(c)), failed)]
  /\ UNCHANGED <<store, disk, stale, served, torn, starts, builds>>

\* All ASKs were sent, the later ones after a failed one too.
Success(c) ==
  /\ At(c, "smoke") /\ Todo(c) = <<>> /\ client[c].passed
  /\ served' = IF client[c].alone THEN [put |-> client[c].put] ELSE None
  /\ Ended(c)
  /\ NoFault /\ UNCHANGED <<store, disk, stale, torn, starts, builds>>

\* The works graph is deleted, the provenance graph is not; a DELETE that
\* failed is rolled_back = False and no more, and the exit code is 0.
RollBack(c) ==
  /\ At(c, "smoke") /\ Todo(c) = <<>> /\ ~client[c].passed
  /\ Ended(c)
  /\ \/ NoFault /\ store' = [store EXCEPT !["works"] = {}] /\ UNCHANGED torn
     \/ /\ Fault(c) /\ store' \in {store, [store EXCEPT !["works"] = {}]}
        /\ torn' = torn \cup {"load"}
  /\ UNCHANGED <<disk, stale, served, starts, builds>>

-----------------------------------------------------------------------------
(* load-finto: every dump is downloaded before any graph is written.       *)

\* _is_dump_fresh, or --force.
Wanted(id, force) == force \/ disk[id] = None \/ id \in stale

StartFinto(c, force) ==
  /\ Started(c, "finto", IF force THEN "force" ELSE "", "download", Vocabs)
  /\ UNCHANGED served

\* groups: the dumps of one graph go into it together, in their order.
GroupedOrders ==
  {p \in [DOMAIN Vocabs -> DOMAIN Vocabs] :
     /\ \A k \in DOMAIN Vocabs : \E i \in DOMAIN p : p[i] = k
     /\ \A i, j, k \in DOMAIN p : i <= j /\ j <= k /\ Vocabs[p[i]].graph = Vocabs[p[k]].graph =>
          Vocabs[p[j]].graph = Vocabs[p[i]].graph /\ p[i] <= p[k]}

\* Slip: each vocabulary is uploaded for itself.
UploadEachVocab(p) ==
  [i \in DOMAIN p |-> [graph |-> Vocabs[p[i]].graph, file |-> Vocabs[p[i]].id, verb |-> "PUT"]]

\* upload_graph once for each group.
UploadVocabs(p) ==
  [i \in DOMAIN p |-> [graph |-> Vocabs[p[i]].graph, file |-> Vocabs[p[i]].id,
                       verb |-> IF \E j \in 1 .. i - 1 : Vocabs[p[j]].graph = Vocabs[p[i]].graph
                                THEN "POST" ELSE "PUT"]]

\* One dump: the cached file, or a download renamed into place.
Download(c) ==
  /\ At(c, "download")
  /\ LET v == Head(Todo(c))
         want == Wanted(v.id, client[c].mode = "force")
         next == IF Len(Todo(c)) = 1 THEN \E p \in GroupedOrders : Go(c, "upload", UploadVocabs(p))
                 ELSE Go(c, "download", Tail(Todo(c)))
     IN \/ /\ NoFault /\ next
           /\ IF want
              THEN /\ disk' = [disk EXCEPT ![v.id] = Content(v.id, builds, {})]
                   /\ stale' = stale \ {v.id}
              ELSE UNCHANGED <<disk, stale>>
        \/ want /\ Fault(c) /\ Ended(c) /\ UNCHANGED <<disk, stale>>    \* raise_for_status
  /\ UNCHANGED <<store, served, torn, starts, builds>>

-----------------------------------------------------------------------------
LoadStep(c) == Enumerate(c) \/ Drop(c) \/ FindFiles(c) \/ Upload(c) \/ Smoke(c)
                 \/ Success(c) \/ RollBack(c)
FintoStep(c) == Download(c) \/ Upload(c)

Next ==
  \/ \E ok \in SUBSET Asked, prov \in BOOLEAN : Build(ok, prov)
  \/ DumpsAge
  \/ \E c \in Loaders : \/ \E m \in ClearModes : StartLoad(c, m)
                        \/ \E m \in {"dry", "strict", "force"} : StartClear(c, m)
                        \/ LoadStep(c)
  \/ \E c \in Refreshers : FintoStep(c) \/ \E force \in BOOLEAN : StartFinto(c, force)
  \/ \E c \in Clients : Kill(c)

Spec == Init /\ [][Next]_vars

-----------------------------------------------------------------------------
(* What post-load-smoke.rq promises ("Never leave Fuseki in a half-loaded  *)
(* state"), as far as it holds: once no load or clear is on, the works     *)
(* graph is gone or holds the admin vocabulary and a corpus on which every *)
(* ASK holds, however two loads and a clear interleaved, unless one of     *)
(* them died or its DELETE failed.                                         *)
SmokedOrNothing ==
  Quiet(Loaders) /\ torn \cap {"load", "clear"} = {} =>
    \/ store["works"] = {}
    \/ /\ \A q \in Asked : Asks(q)
       /\ {x.file : x \in store["works"]} = {"skosified", "admin"}

(* A load that had Fuseki to itself and reported success has published     *)
(* what it uploaded, and nothing of an earlier load beside it: the works   *)
(* graph, and the provenance graph where there was a provenance.ttl.  It   *)
(* stays so until the next load or clear is started.                       *)
SuccessServed ==
  served # None =>
    \A g \in {"works", "provenance"} :
      LET mine == {p[2] : p \in {p \in served.put : p[1] = g}}
      IN mine # {} => store[g] = mine

(* Outside an upload of load-finto each vocabulary graph holds all of its  *)
(* dumps, one of each, or has never been loaded, whatever loads and clears *)
(* run beside it: three dumps share the YSO graph, and a download that     *)
(* fails leaves every graph as it was.                                     *)
VocabularyWhole ==
  "finto" \notin torn /\ (\A c \in Refreshers : ~At(c, "upload")) =>
    \A g \in Graphs \ {"works", "provenance"} :
      \/ store[g] = {}
      \/ /\ {x.file : x \in store[g]} = {v.id : v \in {u \in ToSet(Vocabs) : u.graph = g}}
         /\ \A x, y \in store[g] : x.file = y.file => x = y
=============================================================================
