# Verification of the helmet MARCXML → BFFI → SKOS pipeline

The pipeline turns Helmet's MARC records into a BFFI/SKOS graph in ten stages, publishes it to Fuseki, and can turn
the graph back into MARC to see what was lost.  Three things make it hard to get right, and the modules follow them:

* **the judges**: a slow, fallible LLM under retries, budgets, caches and checkpoints, on threads (M6, M9);
* **the files and processes**: stages that trust each other's files by their modification times, run directories,
  event files and a triple store that several processes write with nothing between them (runner, CLI, exporter, M10);
* **the graphs**: six programs, from M2-post to the reconstruction of MARC, that read each other's triples by predicate
  names, URI prefixes and tokens, so that what one forgets the next one cannot find (M2-post, M8, M9, skosify, round trip).

Paths below are relative to `src/src/bffi_pipeline/` unless they start with `docs/` or `config/`.

## The system

| component | state it keeps | operations | interacts with |
|---|---|---|---|
| runner (`runner.py`, `run_manifest.py`), CLI (`cli.py`) | `bffi-run.json`, the stage being run | run the stages in order, skip, record failures; `runs tag`, `untag`, `mark-complete`, `list`, `prune` | calls every stage; M5 runs in a child process that shares the manifest; every process writes a manifest |
| events (`observability/`) | `stage-events.jsonl`, `watchdog-events.jsonl` | emit start / progress / end / failed / skipped; probes | appended by every stage, tailed by the exporter, parsed by `status` |
| M2, M2-post, M3 | per-record XML and Turtle files, `helmet-map.jsonl`, salvage queue, corpus, audit logs | convert, repair, correlate, construct | file in, file out, skipped while fresh |
| M5 | FAISS index, idmap, `embed-candidates.jsonl` | embed, search, split into bands | its bands are M6's input |
| M6 cascade (`stages/m6/cascade.py`, `cache.py`, `clients.py`, `outcome.py`, `validation.py`) | `judge-cache.sqlite`, per-call retry counters, deadline | `judge_pair`, `cascade_judge` | called by worker threads of the batch; LLM servers over HTTP |
| M6 batch (`stages/m6/batch.py`, `sidecars.py`) | `judge-decisions.jsonl`, its checkpoint, counters | resume / restart, chunk, drain, checkpoint | reads M5's candidates; its rows are M8's input |
| M8 merge (`stages/m8/`) | union-find forest, groups, conflicts, `canonical.ttl` and four sidecars | group, detect contradictions, mint, copy subgraphs, write | reads M6's rows and M3's corpus; feeds M9 |
| M9 reconcile (`stages/m9/`) | request outcomes, picker cache, audit log, `canonical.ttl`, `provenance.ttl` | find requests, look up in Fuseki, query authorities, ask the picker in a pool, bind | LLM servers, Finto, Fuseki |
| M10 (`stages/m10/`) | `canonical-skosified.ttl`, Fuseki graphs | skosify (23 passes), clear, load, load-finto | Fuseki over HTTP |
| metrics exporter, `status` | offsets into the event files, gauges, pid files | replay, tail, publish; reset | Prometheus |
| round trip (`marc_roundtrip/`) | reports, `summary.json` | reconstruct every record from a graph, diff it with the original | reads what M8 to M10 wrote |
| settings, release, evaluation, diagnostics, MARCXML exporter, scripts | files | convert and report | - |

What makes each part correct:

* cascade: a pair overruns its budget by no more than the call in flight when it ran out and one backoff; whatever the
  retries, each tier answers from the cache, afresh or not at all; what validated answers decided once stays decided;
* batch: every candidate has its row when a run reports the end, whatever died before; a crash loses nothing, repeats
  little, and the counters describe the file;
* union-find and merge: `find` returns the least member; no canonical Work contains a contradiction; canonical Works
  are whole classes; every Work of the corpus ends in exactly one place;
* reconcile: what is cached, audited and bound does not depend on how the picks raced; what came too late reaches nothing;
  every cache row and every link can be traced to a decision; a replayed decision lands where it landed first; the stage
  ends although calls hang;
* data directory: what a stage skips as fresh is what it would have made; a full run reflects the input; a kill leaves
  files in an order the next run can read;
* run directories: a run's manifest says what its events say; a tagged run is not pruned; no process ends another's run;
* exporter: no event is counted twice, what it misses it misses for a known reason, it agrees with `status`;
* Fuseki: the works graph passed its smoke tests or is gone; a load that succeeded is what is served;
* graphs: a statement names the field its subject came from; no row of a record is lost by the merge or by the display
  passes; a subject comes back under the tag it had; the diff accounts for every field.

`PROJECT.json` lists every component, modelled or not, and under `hazards` every point of the code these properties are
aimed at.

## Modules

| module | models | role |
|---|---|---|
| `CascadeRules` | `_needs_second_opinion`, the shape of decisions and outcomes | shared vocabulary |
| `JudgeCascade` | what `cascade_judge` promises about a pair: each tier answers from the cache, afresh (and caches it) or falls through (and does not) | abstract specification |
| `JudgePair`, `JudgePairProofs` | `judge_pair` and `cascade_judge` call by call: cache, retries, backoff, budget, watchdog events, conversion, death and rerun | detailed specification; implements `JudgeCascade` |
| `JudgeBatch`, `JudgeBatchProofs` | `judge_batch` over the pairs of M5, its pool, files and crashes; a pair takes the steps of `JudgeCascade` | composition with the batch |
| `Classes` | connectedness without recursion: two works are together when no closed set separates them; what it means to name classes | reference definition shared by the next three |
| `Partition` | what the merge takes of its union-find: works in groups named by their least members, a union in one step | abstract specification |
| `UnionFind` | `_UnionFind`, assignment by assignment | detailed specification; implements `Partition` |
| `MergeGroups` | `_load_decisions` to the last minted Work of `apply_merge`, on the groups of `Partition` | the merge |
| `CorpusProofs` | | the proofs about the union-find, the merge and the round trip |
| `Reconcile`, `ReconcileProofs` | `apply_reconciliation`: phases, picker pool, budget, retries of a pick, persistent cache, audit log, provenance, failures and kills | the reconciliation stage |
| `RunDir`, `RunDirProofs` | the files from the MARCXML directory to `canonical-skosified.ttl`, by their modification times, under invocation after invocation | composition of the stages' loops |
| `RunRegistry`, `RunRegistryProofs` | run directories, manifests, jobs of every process that touches them | concurrent processes |
| `EventTail`, `EventTailProofs` | the writer of the events, the exporter, `status` and the exporter's reset | concurrent processes |
| `Publish`, `PublishProofs` | `load`, `runs clear-fuseki`, `load-finto` request by request | concurrent processes |
| `RdfGraph` | an rdflib graph as a set of triples, and how the programs ask it | vocabulary of the next seven |
| `Correlate` | M2-post: `correlator.py`, `token.py` | graph to graph |
| `MergeGraph` | M8: `graph_extract.py`, `mint.py` | graph to graph |
| `BindGraph` | M9: `requests.py`, `local_concept_resolver.py`, `graph_mutate.py` | graph to requests, outcomes to graph |
| `Skosify` | M10: the passes of `skosify_run.py` | graph to graph, pass by pass |
| `Reconstruct` | `marc_roundtrip/converter.py` | graph to record |
| `MarcDiff` | `marc_roundtrip/diff.py` | two records to a diff, proved to have every field once |
| `RoundTrip` | M2-post, M8, M9, skosify and the round trip on files, with their deaths | composition of the graph modules |
| `MC*` | the values the configurations need | |

Definitions marked `Slip` are the code with one plausible mistake in it; the runs are tried with each of them to see that a property would notice.

### JudgePair

One `cascade_judge` call: `BeginPair`, then per tier `CacheHit` or `CacheMiss` and the
retry loop: `BudgetExceeded` (cascade.py 149-167) before each call, `StartCall`, and one
action for each way a call can go: `ConnectionError` and `Timeout` (170-205),
`UnrecoverableError` (206), `InvalidAnswer` (209-217), `ValidAnswer` (219-229),
`ConversionError` (fast answers, 221) and `Die`.  `Return` is the whole tail of a `judge_pair` call,
including `cascade_judge`'s decision to ask the fallback.  The clock `now` counts seconds since the deadline was set and moves
only in calls and backoffs.  How long a call may last is a constant, `CallDurations`: the client is given a timeout per
request and keeps the SDK's own retries (`_build_chain`, clients.py 155-168), so one `invoke` can last several timeouts and the pauses between
them; `Timeout` is the end of a call that lasted at least one.  Connection errors, timeouts and answers are
chosen freely: the model knows nothing about the LLM beyond what validation lets through.
Cache keys are per pair, prompt and model, so one pair's rows are all
that its call can read or write, and the threads of other pairs are irrelevant here.

`calls`, `settled` and `lastCall` (how long the last call took) are history variables; `calls` saturates one above its bound.

### JudgeBatch

The main thread is `StartResume` / `StartRestart` / `UnlinkCheckpoint` (the two unlinks are two steps),
`WriteAutoMerge`, `SubmitChunk`, `WriteRow` (the flushed line) and `Record` (the rest of
`_record_outcome`: counters, checkpoint), `Finish`.  Worker threads take `JudgeTier` at any time.
`Crash` may happen between any two of them and keeps the files and the cache.  `Reembed` is a rerun of M5
between two judge runs.  The checkpoint's `last` is the code's `last_completed_idx + 1`.

### UnionFind

A call of `add`, `find` or `union` is `StartFind`, `Climb` to the root, `AtRoot`,
`Compress` link by link, `Return` (for a union, on to the second find), `Link`.  The refinement mapping of `ImplementsPartition`
takes the works in `_parent` for the nodes and `Root`, the end of each work's chain of parents, for its group: a climb or a compression is a stutter,
`Link` is `Join`.

### MergeGroups

`LoadCorpus`, one `UnionRow` or `PassRow` per decision row, `DetectConflicts`, then the emit loop
takes the roots in order: `SkipConflict`, `SkipAbsent`, `RefuseMint` or `Mint`.  The inputs (rows,
corpus, mint keys) are chosen in `Init` and never written.  URIs are numbers in their order.

### Reconcile

A run is `StartRun`, one `Resolve` per request (phase 1, in any order), `Lookup` (the cache pass), the pool,
`StartApply`, one `Apply` or `ApplyFails` per request (phase 3, in request
order), `Write` (canonical.ttl), `Flush` (provenance.ttl, when the writer is left) and `Exit`.  In the pool a worker
takes `StartPick`, then `Deliver` or `Abort`; the pick's own thread takes `ConnectionFails`, `InvalidAnswer`,
`OtherError` and `Answer`, also after `Abort`, when its worker has gone on; the main thread takes
`Collect`.  `Crash` may happen at any time and keeps the cache and the files.  The queue is the set of requests still to be
asked, taken in the order of their priority (`First`); a pick that was given up stays in `calls` and may answer late.  The state
kept per request is an outcome: its tier, the pick behind it, whether its budget ran out, and the activity a cache hit cites.

Similarities are in per cent; only their order against the two thresholds matters, and `EarlyTiers` in `MCReconcile`
checks the tiers at the thresholds.  An authority's URI is the pick's own, or the name of the tier that bound
it.  Left out: progress events, target-review rows, the admin
metadata of a link and the summary's counters; nothing reads them back.

### RunDir

An input file is the time of its writing and what becomes of it (it converts and conforms, converts only, or neither).  Every output carries the
time it was written and, per record, the time of the input it was made from, so that "made from what is there now" can
be said.  M3 goes on when the conversion of a record raises (m3/runner.py 227-229): the record is `errored` and keeps its old ttl or has none; this may
happen to the records in `Fragile`.  One `clock` stands for all modification times.  The operator takes `PutRecord`, `RemoveRecord`,
`RemoveOutputs`; an invocation is `StartRun` with a plan (which stages, which are forced), then per stage `Enter` and its
loop: `M2Record`, `M2Write`, `M2MapRow`, `M2End` (the rdf is in place before its row of `helmet-map.jsonl`); `M2PostRecord`; `M3Record`,
`M3Corpus`, `M3End` (a failure only where every record errored); `M5Begin`, `M5Index`, `M5Idmap`, `M5Query` (index and idmap are two renames); `M6Judge`; `M8Load`,
`M8Canonical` and one `M8Companion` per sidecar; `M9Reconcile`; `Skosify`.  `Crash` may happen between any two.  A record's rdf also keeps which versions of
the MARCXML M2-post has put tokens of into it (`tok`): M2-post rewrites rdf files in place, the one way an old conversion
gets a new time (`Redated`, below).

### RunRegistry

A process is a sequence of jobs made from its command (`JobsOf`): the callback's initial manifest, then for a run the check of its stage list (`Check`: a bad
one raises before any event, after the manifest and the hook are in place), and stage by stage what `StageJobs` says of it: most stages have a start
line, the manifest's update to running, an end line and the update to completed, with work before, between and after them that may fail (M5's child looks for
the candidates after its end line); `load` has the clearing of the works graph before all this, some emit nothing (`QuietStages`), and any may be skipped; or the reading of tags, a selection and deletions; the
`atexit` stamp is the last job.  A manifest
is read (`ReadForUpdate`, or `WriteInitial` without a look), opened as `.tmp` (`OpenTmp`, which truncates), filled
(`FillTmp`) and renamed (`ReplaceTmp`), each a step; the `.tmp` has one name, so a process can fill a file that another has
already renamed, or find its own gone.  `AppendLine`, `Work`, `ReadTags`, `Select` and `Delete` are the other jobs, `Kill`
ends a process without its hook.  The lock in `run_manifest.py` is a thread lock and keeps nobody of another process out,
so it is not in the model.  `contended` records the directories two processes had at once; `pruned`, `marked` and `tagged` what
commands reported.

### EventTail

The writer appends `Script` line by line, in one write or in two (`EmitLine`, `EmitRest`), may die in between
(`WriterDies`), appends error rows (`EmitError`), and may find its directory removed (`RemoveFiles`).  The exporter is `Launch`,
`Replay`, `Stat` (the tail starts at the size found now), `ReplayErrors`, `Bind`, then `PollStat` / `PollRead` and
`PollErrors`.  `ResetBegin`, `Terminate`, `Exits` and `Relaunch` are `runs prune --reset-exporter`.  `status` is the operator
`Collate`, which parses the whole file.  The gauges are reduced to those that tell progress, counting and end apart.

### Publish

A graph of Fuseki is the set of file contents in it.  A loader is `StartLoad` or `StartClear`, `Enumerate`, `Drop` per
graph, `FindFiles`, `Upload` per file (the first a PUT, the others POSTs), `Smoke` per ASK, then `Success` or `RollBack`.  A refresher is
`StartFinto`, `Download` per dump, `Upload`.  Meanwhile `Build` replaces the files of the pipeline, `DumpsAge` makes the
cached dumps old, `Kill` ends a process; a request may fail before or after the server has done it.

### The graph modules and RoundTrip

A graph is a set of triples `<<subject, predicate, object>>` (`RdfGraph`); what is read from it is written with the
same few operators throughout.  Each stage is an operator from graph to graph, built of one operator per function of
its source, so that a predicate list, a prefix test or the order of two passes stands in one place.  String
operations (normal forms, case, punctuation, dates) are a constant function, `Spelling`, from a text to what the code makes of it, and
the parsed form of a `bflc:marcKey` is another, `MarcKeys`.  A hash in a URI is the text it is taken of.  Where rdflib
returns triples in an order of its own the model takes a fixed one.

`RoundTrip` puts the files around them: `StartM2Post`, `Correlate` (one rdf file, in place), `EndM2Post`; `Merge`; `StartM9`, `Resolve`
(one request; Fuseki may fail), `Bind`; `StartSkosify`, `Pass`, `Serialize`; `StartRoundTrip`, `Reconstructed` (one
Manifestation), `EndRoundTrip`.  `Dies` ends M2-post, M9 or skosify without its file; M2-post then goes over files it has already rewritten.

`SkosifyTool` is the `skosify` package under `config/bffi.cfg` and the overlay: inference, `default_language` (untagged labels become Finnish),
`preflabel_policy = shortest` (of several prefLabels in one language the shortest stays, the others become altLabels) and the removal of an
altLabel that is a prefLabel too.  Its concept scheme, top concepts and broken cycles are left out: nothing here reads them.

Left out of the graphs: audit rows, administrative metadata's contents, the labels' formatting, and the transformations before
the corpus (XSLT, the CONSTRUCT queries): the triples M3 makes of a field are part of a case.

## Runs

| run | question | distinct states |
|---|---|---|
| `JudgePairSafety` | default limits (3 and 2 retries, backoffs, 90 s requests, 300 s budget), calls of up to three requests, fast mode: budget, retries, cache, the abstract cascade; does every pair land? | 440 899 |
| `JudgeBatchResume` | 3 pairs and an auto-merge pair, two crashes anywhere: rows, their order, counters, repeats; does a started batch end? | 194 607 |
| `JudgeBatchOrderly` | no crashes: restarts, resumes and reruns of M5 that change the number of candidates, one pair without WorkRecords | 28 186 |
| `UnionFindSafety` | every sequence of unions over the configured edges | 11 055 |
| `MergeGroupsSafety` | every file of up to 3 rows over 4 Works, two corpora, two assignments of mint keys | 232 960 |
| `ReconcileSafety` | two runs over three requests, two of them with one cache key, two workers, hanging calls, a cache write that fails, one kill | 491 017 |
| `RunDirSafety` | two records, three edits of the input, three invocations (all stages, or m2-post and a forced m5 alone), M3 failing on one of the records, one kill | 3 620 792 |
| `RunRegistrySafety` | a run of M3, `load` and `cataloguer-bundle` (an ordinary stage, one that clears first, a quiet one) or a refused one, a tag, mark-complete or pinned `list` beside it, and a prune of completed runs but the tagged ones, or an untag, one kill | 966 163 |
| `EventTailSafety` | three events, two error rows, a removal, a death inside a write, two exporters and a reset; do lines arrive? | 300 799 |
| `PublishSafety` | any two of loads, clears and vocabulary refreshes at once, two builds, one failed request or kill | 1 765 869 |
| `RoundTripSafety` | the cases of `MCRoundTrip`: two records of one Work or of two, every kind of field, a failing Fuseki, the death of each stage | 31 206 |
| `ReconcileOutage` | expects a violation, see below | - |

Deadlock is checked in `JudgePairSafety`, `JudgeBatchResume`, `JudgeBatchOrderly` and `UnionFindSafety`, whose operators always have something left to do.  The other
models stop: the merge and the round trip when they are done, `Reconcile` after its last run, and `RunDir`, `RunRegistry`, `EventTail` and `Publish`
when their commands, edits and launches are used up.

What the properties say:

* `JudgePairSafety`: `OverrunBounded`, `SettledStays`; `PromiseSpec` (the refinement of `JudgeCascade`) and `PairLands`.
* `JudgeBatchResume`: `ResumeSkipsOnlyWritten`, `EveryCandidateJudged`, `InputOrder` (rows stand in the order of the candidates, but where a resume
  goes back to its checkpoint), `RepeatsBounded`, `CountersMatchOutput` (after a crash part of the counters comes from a checkpoint of an
  earlier process) and `BatchEnds`.  `JudgeBatchOrderly`: `NoPairDecidedTwice`.
* `UnionFindSafety`: `FindsLeast`.  `MergeGroupsSafety`: `NoContradictionMerged`, `EntriesAreClasses`, `EveryWorkAccounted`.
* `ReconcileSafety`: `LastRequestWins`, `CacheRowExplained`, `WarmReplaySameTier`, `BindingsAudited` and `StageEnds`.
* `RunDirSafety`: `FreshIsCurrent` (what would be skipped was made from what would be read), `FullRunReflectsInput` (a record M3 errored on is there
  as its old ttl, or without one an older corpus, has it), `MapRowsLostOnlyByCrash`,
  `CompanionsInOrder` (the five files of M8 after a kill between any two).
* `RunRegistrySafety`: `ManifestFollowsEvents`, `TaggedRunsKept`, `RunsFailOfTheirOwn` and `StampExplained`.  Each excepts the
  directories two processes had at once (`contended`), because there the code does lose updates, tags and manifests.
  `StampExplained` says what a completed stamp is worth: every stage that emits has ended or was skipped, or one has failed, or the run was
  refused and there is no event at all.
* `EventTailSafety`: `CountedOnce`, `MissedExplained`, `DashboardAgrees` and `LinesArrive`.  An event the tail misses came between the
  replay and the first stat (`gap`), was read as two halves, or stood in a file that was removed.
* `PublishSafety`: `SmokedOrNothing`, `SuccessServed`, `VocabularyWhole`.
* `RoundTripSafety`: `StatementsNameTheirFields` (M2-post), `MergeKeepsRows` (M8), `TagsFromOrigins` (M9 and skosify), `DisplayKeepsRows` (skosify), `DiffAccounts` (diff).
  `DisplayKeepsRows` excepts what `Displayed` names: a 490, and a 264 read from the end of a prefLabel that has a rival in its language; both
  exceptions occur in the run.  A 245 comes from the Manifestation's own title in every case: only a Manifestation without a title, which M3 does not
  make of a record with a 245, would take the Work's label, and with it whichever title skosify left.

### Bounds

The retry limits and timeouts of `JudgePair` are the code's own defaults; calls take 1, 30 or 90
seconds or 272 (three requests and the SDK's pauses), which is enough to run over the budget on either tier, on any retry and within one call.  Chunks of
two and a checkpoint every two pairs put three pairs on both sides of a chunk and of a
checkpoint; two crashes let a resumed run crash again.  Three rows over four Works
give chains, contradictions recorded before and after the chain they contradict,
repeated rows and Works outside the corpus.  In `Reconcile` two runs are what a cold and a warm
cache need, two requests with one key what a race for a cache row needs, and the third request (a VIAF
candidate, no key) ends in every early tier; one connection retry and no validation retry
suffice because both counters only delay the same fall-through.

In `RunDir` two records are what a fresh one beside a stale one needs, three edits let a record be written, changed and removed, and three
invocations let a stage run alone, be cut short and be run in full; one record M3 may fail on beside one it does not is what a run needs
that completes with an error; files do not change while a run is on.  `RunRegistry` needs three processes
for a run whose tag is written while another prunes; its three stages put a stage's end before another's start and have every form
of `StageJobs`.  `EventTail`'s three
events are two that set a gauge and one that only adds.  Two starts are all the pairs of a load, a clear and a refresh; the
loaders are interchangeable, hence the symmetry; two dumps in one graph are what a PUT and a POST need.  A case of `RoundTrip` has up to two subjects of the current vocabularies in the first record and one in
the second (all that is needed for a twin, a homonym and an origin in another record), one of the retired vocabularies, or one of the six groups of
other fields in each record; a record of songs has another title than the other record, so that a merged Work has two, and a record of titles has three labels; M9 runs once, and at most one literal meets a failing Fuseki.  The programs treat fields of
different groups apart, which is why the groups are not multiplied with the subjects.

The safety properties of the cascade, the batch, the union-find, the merge, the reconciliation, the data directory, the run directories, the exporter and Fuseki do not
rest on these bounds: they are proved for all values.

### A finding, and what differs from the documentation

`ReconcileOutage` states what `picker_cache.py` says and shows the code do something else; `findings` in `PROJECT.json` quotes both: a
pick that fell through because the LLM was unreachable is cached, and no later run asks again.

Where the code and its documentation differ, or where the code surprises, without a run of their own:

M6 and M8

* a fast answer with a short rationale passes its schema and then raises outside the retry loop (cascade.py 221-223; validation.py 187-193 suggests otherwise);
* `give_up` and an exceeded budget end a tier, not the cascade: the fallback is still tried and, over budget, its cache may still decide (cascade.py 149-167, 333-347);
* a resumed run repeats up to one checkpoint interval of pairs (`RepeatsBounded` is the exact claim), where sidecars.py speaks of picking up exactly where the run left off;
* after a rerun of M5 with as many candidates a resume skips pairs nobody judged: the checkpoint is compared by its total only (batch.py 273);
* a crash between the two unlinks of a restart leaves a checkpoint that a later resume trusts over an empty file (batch.py 265);
* `_build_chain` (clients.py 155-168) leaves `max_retries` of `ChatOpenAI` at its default where the other clients pass 0, so that a call lasts up to three timeouts, not the one its comment (160-163) speaks of; the budget is looked at only between calls;
* two groups that M6 judged different share one canonical URI when their creator and title agree (apply.py 204; `docs/plans/completed/` p-34, line 176, counts on the verdict keeping them apart);
* a group joined through a Work outside the corpus names the converter as its modifier (`Modifier` in `MergeGroups`);
* `_propagate_work_typing` (mint.py 396-431) keeps only `bffi:` types, so LDR/06 of a reconstructed record is always "a";
* canonical Works get `bffi:subject` and `bffi:genreForm` only (mint.py 844-862), while M9 (requests.py 357-364) and `docs/plans/proposed/` p-44 walk more predicates;
* of several primary agents of a merged Work the first 100 wins, and labels of agents in other scripts are lost.

M9

* a pick cut short is bound provisionally even where `BFFI_M9_DISABLE_FALLBACK` or a floor forbids it (`AbortedOutcome`);
* of two requests with one cache key that both miss, the loser is replayed with the winner's pick on the next run (`WarmReplaySameTier` claims it only for the request that was asked);
* a rerun of M9 over its own output adds the new link and keeps the old one (`canonical` accumulates);
* a failed query to Fuseki is "no concept" for the rest of the run (local_concept_resolver.py 549);
* the comment on the kinds of request (requests.py 105-111) is older than the code below it.

Data directory, run directories, events

* M2-post run on its own re-dates an rdf made from an older MARCXML, and M2 then skips the changed record (m2_post/runner.py 126, whose docstring calls a rerun a no-op); `Redated` excepts exactly this from `FreshIsCurrent` and `FullRunReflectsInput`;
* M2-post is not idempotent: a file that was enriched before is matched again with fewer raw nodes to choose from (correlator.py 131-146);
* a run in which M3 errors on some records completes, with those records as an older ttl has them (m3/runner.py 227, cli.py 1358; `FullRunReflectsInput` says exactly so);
* the `atexit` hook stamps a failed run completed (cli.py 113), one refused for its stage list (runner.py 455) too, which has no event at all; and a pinned read-only command resets the manifest of a live run (cli.py 1190);
* `runs prune --keep-last` counts the run directory the prune itself has just made (cli.py 103);
* SIGTERM leaves the exporter's pid files, and its port for as long as it takes to die (runs_reset.py 136).

M10 and round trip

* `config/shapes/post-load-smoke.rq` 4-5 and `docs/archived/BUILD_PLAN.md` 405 promise a non-zero exit and never a half-loaded store: `load` exits with 0 after a rollback, and the provenance graph is not rolled back;
* the last tier of `_find_subject_target` (correlator.py 717) takes any raw node of the tag, so a field may end with another's node (`StatementsNameTheirFields` claims it for records whose headings are plain and distinct);
* `_find_bib_id` (token.py 153-157) accepts an empty id that `compute_token` then refuses;
* `typed_subject_display` runs before the types are propagated and provision labels are composed before the countries are bridged; `prune_empty_bnode_values` goes over the graph once, so what becomes empty by it stays;
* the docstring of `_synthesise_typed_subject_display` counts on raw nodes that the next pass prunes, and their lineage with them;
* the mirror of main titles gives an unlabelled series a 490 that only the skosified graph has (`DisplayKeepsRows` leaves that row out);
* `preflabel_policy = shortest` keeps one of the titles of a merged Work, and of the labels M3 makes of all titles of a Manifestation; the converter's last resort for a 264, a label that ends in parentheses, may find it gone or find a part title ("Toinen (osa 1)") where there was no publication (converter.py 1713);
* `_PERSONAL_HINTS` looks for "/finaf/" (converter.py 2202), which no KANTO URI contains: a bound person gets its 600 from its type or from the raw node it was bound from;
* "bib_id matches by construction" (diff.py 404) does not hold for a merged Work, whose rows may name fields of another record; `DiffAccounts` holds all the same;
* repeated control fields are compared as one, the last;
* `_synthesise_display_predicates` and `_synthesise_role_predicates` are not called.

## Fairness

`JudgePair`'s `FairSpec` assumes that a started `cascade_judge` keeps taking steps unless the process dies: every
request to the LLM has a timeout (`clients.py` passes `LLM_CALL_TIMEOUT_SECONDS` to the client), the SDK repeats it a bounded number of times, and every backoff is finite.
Nothing is assumed about the answers.  `JudgeBatch`'s `FairSpec` assumes the same of a
started batch, which rests on `PairLands`.  No fairness is assumed for crashes, operators or reruns.

`Reconcile`'s `FairSpec` assumes that the main thread and the workers run and that a budget runs out
(`fut.result(timeout=...)`); it assumes nothing of a call to the LLM, which may hang for ever.  `StageEnds` therefore says that
the stage ends, and not that the process exits: the interpreter joins abandoned threads (`Exit`).

`EventTail`'s `Spec` assumes that the exporter's loop runs (attach, poll, read), that a write begun is finished unless its
process dies, and that a reset goes from its signal to its relaunch; these are loops and straight-line code with finite sleeps.
Nothing is assumed of the writer's next line, of prunes or of launches.

The other specifications state no fairness: their properties are about what may happen, not about what must.

## Proofs

All theorems hold for every value of the constants that satisfies the named assumptions
(`RetryAssumption`, `BatchAssumption`, `NoneAssumption`, `WorksAssumption`, `EdgesAssumption`, `MergeAssumption`, `VocabularyAssumption`, `CasesAssumption`, `ReconcileAssumption`, `RunDirAssumption`, `RunRegistryAssumption`, `EventTailAssumption`, `PublishAssumption`).  These give the
constants their types; the ones that say more are that the escalate band lists a pair once (M5 emits each pair once, `stages/m5/build.py` 231),
that no two entries of `FINTO_VOCABS` share an id and none is loaded into a graph of the corpus, that there are a smoke ASK and a vocabulary,
that the processes sharing a `BFFI_RUNS_ROOT` are finitely many, and that `None` and `Torn` are not among the values they stand beside.  All eight modules have a theorem `TypeCorrect` on which the others rest; no run checks it.

* `JudgePairProofs`.  Types first (`TypeStep`), together with the shape of the steps (`ShapeStep`: at most
  one per tier, in order), which the type of `calls` needs.  `BudgetBound` needs the clock related to the location
  (`ClockStep`: in the loop the clock is past the budget by at most the last call, however long, and a backoff, in a call not past it).
  `SettledVerdictsStay` needs that each validated step of the running call is in the cache (`MemoStep`) and that a settled
  verdict is what the cached rows alone decide (`SettledStep`).  `CascadeImplementsPromise` maps every step to a
  step of `JudgeCascade` or a stutter.  Proved without a run of their own: `CallBound` counts calls against retries used, tier by tier (`CountStep`),
  `BudgetSilences` and `CacheWriteOnce`.
* `JudgeBatchProofs`.  `Futures` (the chunk holds indices of candidates, and a written row is the row of one of them) goes with the types.
  `EveryCandidateHasItsRow`, `RowsInInputOrder` and `CrashesRepeatLittle` assume `FilesKept`: M5 does not replace the candidates
  under a checkpoint, and no process dies between the two unlinks of a restart, because there the code does lose rows
  (see the list above).  `SkippedPairsAreWritten` assumes resumes only, with any number of crashes.  The inductive
  invariant is `Trusted`: a checkpoint was taken over these candidates and the pairs it claims are in the file (`Backed`), the pairs
  recorded by this process are too (`Progress`), and the file is in order.  `Repeats` bounds the rows beyond one per candidate: between two
  multiples of `CheckpointInterval` (`MultipleAhead`) the drain cannot run ahead of the checkpoint by more than an interval.
  `SettledVerdictsStay` assumes nothing of the operator: a validated step of a running cascade is in the cache
  (`WorkExact`), and a settled row and all later rows of its pair say what the cache alone decides (`RowsExplained`).
  `DecidedOnce` (no rerun of M5, no crash): the escalate rows are the candidates in their order (`Once`).
  `CountersDescribeTheFile` (under `FilesKept`, with crashes): the counters of a checkpoint and of the process are a tally of the file in which each
  candidate counts by its last row (`Counts`); a row written twice agrees with itself wherever the counters were saved, because of `RowsExplained`.
* `CorpusProofs`, the merge.  `Grouped` (the roots name the classes of the rows read so far), `Detected` (the conflicts are exactly
  the contradicted classes), `Minted` (what was emitted follows from both) and, for `NothingLost`, `Accounted` (each
  root taken left the class exactly one home).
* `CorpusProofs`, the union-find, for unions of any two works.  The inductive invariant: parents are never greater than their children, every parent
  link stays inside a class of the edges so far, and the roots are the least members of their
  classes (`Trees`); the call in progress holds a root of the class it climbs (`Busy`).  For `FindReturnsLeast` a function from works to roots
  is never computed: `Names` in `Classes` says what it means for it to exist.  `UnionFindImplementsPartition` needs the function itself: `RootIsLabel` unfolds `Root` along
  the order of the parents, `OneNaming` says that two namings of the same classes are one, so that `Root` does not change under
  compression; `Met` (whatever a call holds, `_parent` knows) gives `Join` its guard.  With it the step `UnionRow` of `MergeGroups`, in which a union is
  atomic, is what the loops of `union_find.py` do.
* `CorpusProofs`, the round trip.  `FieldsOnce`: the diff of any two records has each data field of either in one entry.  `PlacesDiffer` tells the members of a bucket
  apart by their places; each tier of the pairing is a matching (`LineageMatched`, `TitlesMatched`), what the last tier pairs or leaves alone
  covers what is left (`LeftoversCovered`), and the tiers together cover both records (`DataCovered`).  That a reconstructed field pairs once rests on its naming at most
  one field (`OneOrigin`); this is not assumed: `RecordMade` goes through every emitter of `Reconstruct` and shows that, of a finite graph, the
  converter makes a list of rows each with at most one token.  `EveryFieldAccounted` then carries `RoundTripInv` through the stages: every report is the diff of an original
  (`Reported`), the counts of the summary are the sizes of what the reports hold (`Summed`), and no Manifestation still queued has a bib id already reported (`Ahead`).  Its hypothesis, `RoundTripInput`, is
  that the graph of a round trip is finite and that no two of its Manifestations have one bib id: reports are files named by the bib id, so a
  second one would replace the first while the summary counted both (marc_roundtrip/runner.py 122-150).  The hypothesis holds in every state of `RoundTripSafety`.
* `RunDirProofs`, where the input does not change while a run is on (`~EditsDuringRuns`).  With the types goes `Listed`: what a loop has listed is still
  there.  `CompanionsHold` rests on `MergeInv`: the five files are of merges in order, none later than the clock, and the running merge replaces
  them one by one.  `MapRowsHold` rests on `RowInv`: a row is missing only while its write is coming.  `FreshHolds` goes along the stages:
  `RecordInv` for a record's rdf and Turtle, `AllInv` for the corpus and the index, `SkosInv` for the skosified graph, each of the form "what is not
  older than its source was made from it", which needs that nothing is ahead of the clock (`NotAhead`).
  `FullRunHolds` assumes that the stages of a plan are in the order of `CANONICAL_STAGES` (`InOrder`): `--stages` may list them in another, and then
  a stage reads what a later one has yet to make.  Under it a stage that is done is before all that are still to do (`Ordered`), a valid record has been
  carried as far as the loops have come (`Carried`, which needs that an rdf is of the kind of the MARCXML it was made from, `KindInv`), and
  what follows the corpus is taken up stage by stage (`Finished`).
* `ReconcileProofs`.  `Shape` says what the phases leave behind.  `LogInv` relates the activities in memory and in the provenance file to the audit log: each is
  known once, from its request's turn (`CacheRowsHold`, `BindingsHold`).  `WinInv`: while results are applied in request order, the cache row of a
  key is the last applied one's (`LastRequestHolds`).  `ReplayInv`: a row is of its time, its activity's tier is logged, and a replay decides
  from the same pick (`WarmReplayHolds`).
* `RunRegistryProofs`.  `Core` is the types, the form of what is left of each command (`Programs`: a stage still has its events, manifest updates and work
  in the order of `StageJobs`) and of each replacement (`Replacements`).  Nothing locks a manifest across processes, so the claims are about directories no two processes had
  at once (not `contended`) and, where the code deletes, none was removed (not `pruned`): `AloneKept` says that there the `.tmp` is what the one process made it, so that
  no rename publishes another's bytes.  `KnownKept` (also where processes collide): every copy of a manifest, on disk, in the `.tmp` or in hand, lists as completed only stages with an end line.  `Stories`: an end line
  the manifest lacks is the last one, and the run has its update next (`ManifestFollowsEventsHolds`).  `Stamps`: the end lines a run does not have yet are
  still to come, or it has failed, or it was refused and has written nothing (`StampExplainedHolds`).  `Tagged`: a reported tag is in the manifest and in every copy that may replace it (`TaggedRunsKeptHolds`).  `Failures`
  needs that a manifest is there and readable where a run is past its first write (`RunsFailOfTheirOwnHolds`).
* `EventTailProofs`.  `Ordered`: a file holds rows in the order they were written, at most the last line of it half out, also after a writer died and after
  the files were removed.  `Ahead` is what makes counting safe: whatever lies beyond the position, or in a file shorter than the position, is of later
  rows than all that were counted (`CountedOnceHolds`).  `Explained` and `Summed` (the registry is the summary of the rows seen, whatever reads they came in) give
  `MissedExplainedHolds` and `DashboardAgreesHolds`.  `Applied` goes through a file line by line; what it computes for every file is shown by
  induction over the number of lines for a fixed statement (`Induction`, from the well-foundedness of the naturals), `AppliedSums`.
* `PublishProofs`.  `Shapes` goes with the types: what is left to a process has the form its command gave it.  `Watched`: while no load was cut short, a works graph
  on which an ASK fails has a load that will still find out and roll back, and a corpus without its admin triples a load about to add them
  (`SmokedOrNothingHolds`, for any number of loads and clears at once).  `Alone`: what a load without company has uploaded is what the graphs hold, from its first PUT
  until another writer starts (`SuccessServedHolds`).  `Refreshed`: within a refresh every graph is whole or holds the dumps uploaded so far (`VocabularyWholeHolds`).
  The last assumes `OneRefresher`: of two `load-finto` at once one may download anew between the other's requests, and a graph of several dumps then
  keeps two versions of one.  The run has one refresher as well.

Connectedness is defined without recursion, by closed sets (`Classes`), so that it can be reasoned about.

Left to TLC: liveness (`PairLands`, `BatchEnds`, `StageEnds`, `LinesArrive`) and everything about `ENABLED`, which are out of
the proof system's reach; and `StatementsNameTheirFields`, `MergeKeepsRows`, `TagsFromOrigins` and `DisplayKeepsRows` of `RoundTripSafety`.  These compare what whole pipelines of
graph operators make of given records: they rest on what the XSLT and M3 put into a corpus (one label per node, one `bf:source`, raw nodes numbered in the order of
the fields), which is data of the cases and not a property of the code in these modules, and for an arbitrary graph they do not hold.

## Plan

What would come next, in this order:

1. Proofs: that every stage keeps a finite graph finite and the bib ids of Manifestations apart, which would turn `RoundTripInput` into an assumption about the cases.
2. Runs of the restart with crashes, and of edits during a run, once their outcome is stated as a property the code should have.
3. M3's CONSTRUCT queries as operators of the graph modules, so that the corpus of a case is computed from its BIBFRAME.
4. A second M9 run over its own canonical graph in `RoundTrip`.

## Not modelled

Prompt text, string similarity, embedding numerics, XSLT, SPARQL CONSTRUCT and the external validators (SHACL, XSD): they
transform data within one record, and their tests compare outputs.  A row of `judge-decisions.jsonl` torn by a crash inside a single
`write` call would need bytes (`EventTail` has it for the event files).  The extraction of WorkRecords and the prompt files of M6, and the blocking, URI and text helpers, are pure
functions of one record; where another module uses their result it is an input.  Evaluation, diagnostics, release reports, the MARCXML exporter from Sierra
and the scripts keep no state between records and write nothing the pipeline reads.
