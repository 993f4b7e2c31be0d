------------------------------ MODULE Reconcile ------------------------------
(***************************************************************************)
(* M9's reconciliation stage (m9/apply.py, m9/pool.py, m9/decisions.py,    *)
(* m9/picker_chain.py, m9/picker_cache.py): every entity request is        *)
(* resolved by lookup or by the LLM picker, on worker threads with a       *)
(* budget per pick; the outcomes are then applied in request order to the  *)
(* canonical graph, the provenance graph and the picker cache.  A pick     *)
(* that overran its budget goes on in a thread nobody waits for.           *)
(* A run is one process; the cache, the audit log and the two Turtle files *)
(* outlive it.                                                             *)
(***************************************************************************)
EXTENDS FiniteSets, Integers, Sequences

CONSTANTS
  NRequests,          \* entity requests of the canonical graph, in its order
  Keys,               \* cache keys
  KeyOf,              \* request -> its cache key, None when it must not be cached
  Lookups,            \* request -> what its lookup may find
  Rank,               \* request -> _picker_queue_sort_key; constant for "submission"
  BelowFloor,         \* requests whose top candidate is below the fallback floor
  DisableFallback,    \* BFFI_M9_DISABLE_FALLBACK
  Answers,            \* the validated picks the model may give
  Concurrency,        \* picker worker threads; one is the main thread itself
  FieldBudget,        \* field_timeout_seconds > 0
  ConnectionRetries,  \* PICKER_MAX_CONNECTION_RETRIES
  ValidationRetries,  \* PICKER_MAX_VALIDATION_RETRIES
  MaxRuns,            \* bound: runs of the stage
  MaxCrashes,         \* bound: runs that are killed
  None                \* no key, no cache row, no pick, no authority

Requests == 1..NRequests

LexicalFloor == 70    \* LEXICAL_FLOOR, in per cent
LexicalDirect == 95   \* LEXICAL_DIRECT_THRESHOLD

\* A lookup: the fictional-character marker, a match in the local graph, or
\* the lexical similarities of an authority service's candidates.
LookupResults == [by : {"marker", "graph", "service"}, similar : Seq(0..100)]

ASSUME ReconcileAssumption ==
  /\ NRequests \in Nat \ {0}
  /\ None \notin Keys
  /\ KeyOf \in [Requests -> Keys \cup {None}]
  /\ DOMAIN Lookups = Requests
  /\ \A r \in Requests : Lookups[r] # {} /\ Lookups[r] \subseteq LookupResults
  /\ Rank \in [Requests -> Nat]
  /\ BelowFloor \subseteq Requests
  /\ DisableFallback \in BOOLEAN /\ FieldBudget \in BOOLEAN
  /\ \A p \in Answers : p.source = "llm" /\ p.sure \in BOOLEAN
  /\ Concurrency \in Nat \ {0}
  /\ ConnectionRetries \in Nat /\ ValidationRetries \in Nat
  /\ MaxRuns \in Nat /\ MaxCrashes \in Nat

VARIABLES
  phase,      \* where apply_reconciliation is
  run,        \* runs started
  outcome,    \* pre_outcomes: request -> its outcome
  deferred,   \* requests phase 1 left to the picker
  queue,      \* picks no worker has taken yet
  working,    \* requests a worker is waiting for
  calls,      \* request -> its pick call: retries used, or what it returned
  pending,    \* futures the main thread has not collected
  applied,    \* phase 3: requests applied
  audit,      \* picker-decisions.jsonl
  prov,       \* the provenance graph in memory
  provFile,   \* provenance.ttl
  canonical,  \* authority links in canonical.ttl, each with the run that wrote it
  cache,      \* reconcile-cache.sqlite
  crashed     \* runs that were killed

memory == <<outcome, deferred, queue, working, calls, pending, applied>>
disk == <<audit, provFile, canonical, cache>>
vars == <<phase, run, memory, prov, disk, crashed>>

-----------------------------------------------------------------------------
\* _picker_uncertain: what a pick is when the retries are exhausted.
FellThrough == [uri |-> None, sure |-> FALSE, source |-> "fall-through"]

Picks == Answers \cup {FellThrough}

EarlyStages == {"fictional", "local", "lexical", "no_candidate"}
Stages == EarlyStages \cup {"llm", "fallback"}

Activities == [run : Nat, request : Requests]

\* An outcome: its tier, the pick behind it, whether its budget ran out, and
\* the activity a cache hit replays.
Outcomes == [stage : Stages, pick : Picks \cup {None}, aborted : BOOLEAN,
             cites : Activities \cup {None}]

ASSUME NoneAssumption ==
  None \notin Outcomes \cup Activities \cup Picks \cup [pick : Picks, activity : Activities]

InFlight == [connection : 0..ConnectionRetries, validation : 0..ValidationRetries]

Phases == {"down", "resolve", "pick", "apply", "written", "ended", "failed"}

TypeOK ==
  /\ phase \in Phases
  /\ run \in 0..MaxRuns
  /\ outcome \in [Requests -> Outcomes \cup {None}]
  /\ deferred \subseteq Requests
  /\ queue \subseteq Requests
  /\ working \subseteq Requests /\ Cardinality(working) <= Concurrency
  /\ calls \in [Requests -> InFlight \cup Picks \cup {None}]
  /\ pending \subseteq Requests
  /\ applied \in 0..NRequests
  /\ audit \in Seq(Requests)
  /\ \A g \in {prov, provFile} : \A a \in g :
       a.id \in Activities /\ a.outcome \in Outcomes
  /\ \A l \in canonical : l.request \in Requests /\ l.run \in 1..run
  /\ cache \in [Keys -> [pick : Picks, activity : Activities] \cup {None}]
  /\ crashed \subseteq 1..run

-----------------------------------------------------------------------------
\* _phase1_resolve_one and _decide_before_picker: the tier that needs no
\* picker, or "deferred".
EarlyStage(found) ==
  LET clears(floor) == {i \in DOMAIN found.similar : found.similar[i] >= floor}
  IN CASE found.by = "marker" -> "fictional"
       [] found.by = "graph" -> "local"
       [] found.by = "service" ->
            IF clears(LexicalFloor) = {} THEN "no_candidate"
            ELSE IF Cardinality(clears(LexicalDirect)) = 1 THEN "lexical" ELSE "deferred"

EarlyOutcome(s) == [stage |-> s, pick |-> None, aborted |-> FALSE, cites |-> None]

\* _decide_with_pick: a confident choice binds; otherwise the top candidate
\* is bound provisionally, unless that is switched off or it is too far off.
StageOf(r, p) ==
  IF p.sure THEN "llm"
  ELSE IF DisableFallback \/ r \in BelowFloor THEN "no_candidate" ELSE "fallback"

\* Mutant of Decide: a replayed pick is taken at its word.
DecideReplaySure(r, p, cited) ==
  [stage |-> IF cited # None THEN "llm" ELSE StageOf(r, p),
   pick |-> p, aborted |-> FALSE, cites |-> cited]

Decide(r, p, cited) ==
  [stage |-> StageOf(r, p), pick |-> p, aborted |-> FALSE, cites |-> cited]

\* _watchdog_aborted_outcome: the top candidate, whatever the knobs say.
AbortedOutcome ==
  [stage |-> "fallback", pick |-> None, aborted |-> TRUE, cites |-> None]

\* The authority an outcome binds.
UriOf(o) ==
  CASE o.stage = "llm" -> o.pick.uri
    [] o.stage = "fallback" -> "top"
    [] o.stage \in {"local", "lexical"} -> o.stage
    [] OTHER -> None

\* PickerCache.get under compute_picker_cache_key.
CachedRow(r) == IF KeyOf[r] = None THEN None ELSE cache[KeyOf[r]]

\* _order_deferred_picker_queue: by rank, equal ranks in request order.
First(r, S) == r \in S /\ \A q \in S : Rank[r] < Rank[q] \/ (Rank[r] = Rank[q] /\ r <= q)

Blank == [r \in Requests |-> None]

-----------------------------------------------------------------------------
Init ==
  /\ phase = "down" /\ run = 0
  /\ outcome = Blank /\ deferred = {}
  /\ queue = {} /\ working = {} /\ calls = Blank /\ pending = {}
  /\ applied = 0
  /\ audit = <<>>
  /\ prov = {} /\ provFile = {}
  /\ canonical = {}
  /\ cache = [k \in Keys |-> None]
  /\ crashed = {}

\* Mutant of StartRun: the old provenance is not parsed back.
StartRunProvenanceAnew ==
  /\ phase = "down" /\ run < MaxRuns
  /\ phase' = "resolve" /\ run' = run + 1
  /\ audit' = <<>>
  /\ prov' = {}
  /\ UNCHANGED <<memory, provFile, canonical, cache, crashed>>

\* The writer parses the old provenance, the audit log is emptied.
StartRun ==
  /\ phase = "down" /\ run < MaxRuns
  /\ phase' = "resolve" /\ run' = run + 1
  /\ audit' = <<>>
  /\ prov' = provFile
  /\ UNCHANGED <<memory, provFile, canonical, cache, crashed>>

\* Phase 1, one request, in the order the pool completes them.  A dead
\* authority service is one that has no candidates.
Resolve(r) ==
  /\ phase = "resolve"
  /\ outcome[r] = None /\ r \notin deferred
  /\ \E found \in Lookups[r] :
       IF EarlyStage(found) = "deferred"
         THEN deferred' = deferred \cup {r} /\ UNCHANGED outcome
         ELSE /\ outcome' = [outcome EXCEPT ![r] = EarlyOutcome(EarlyStage(found))]
              /\ UNCHANGED deferred
  /\ UNCHANGED <<phase, run, queue, working, calls, pending, applied, prov, disk, crashed>>

\* Phase 1 is over when every request has an outcome or is deferred.
Walked == \A r \in Requests : outcome[r] # None \/ r \in deferred

\* The deferred requests whose pick is in the cache.
Hits == {r \in deferred : CachedRow(r) # None}

\* Phase 1.5, before any worker runs: cached picks are decided anew, the
\* misses are queued for the pool.
Lookup ==
  /\ phase = "resolve"
  /\ Walked
  /\ outcome' = [r \in Requests |->
       IF r \in Hits THEN Decide(r, CachedRow(r).pick, CachedRow(r).activity)
       ELSE outcome[r]]
  /\ queue' = deferred \ Hits
  /\ pending' = deferred \ Hits
  /\ phase' = "pick"
  /\ UNCHANGED <<run, deferred, working, calls, applied, prov, disk, crashed>>

-----------------------------------------------------------------------------
(* Phase 2: the pool's workers and the pick calls.                         *)

\* Without a pool the picks are made one by one by the main thread, which
\* records each before it makes the next.
InLine == Concurrency = 1 => \A r \in pending : outcome[r] = None

\* A free worker takes the next request and submits picker.pick to a thread.
StartPick ==
  /\ phase = "pick"
  /\ Cardinality(working) < Concurrency /\ InLine
  /\ \E r \in Requests :
       /\ First(r, queue)
       /\ queue' = queue \ {r}
       /\ working' = working \cup {r}
       /\ calls' = [calls EXCEPT ![r] = [connection |-> 0, validation |-> 0]]
  /\ UNCHANGED <<phase, run, outcome, deferred, pending, applied, prov, disk, crashed>>

Calling(r) == calls[r] \in InFlight

\* The call returns: to the worker that waits for it, or to nobody.
Returned(r, p) ==
  calls' = [calls EXCEPT ![r] = IF r \in working THEN p ELSE None]

callFrame == <<phase, run, outcome, deferred, queue, working, pending, applied,
               prov, disk, crashed>>

\* A connection error is retried after a backoff, then the pick falls through.
ConnectionFails(r) ==
  /\ Calling(r)
  /\ IF calls[r].connection < ConnectionRetries
       THEN calls' = [calls EXCEPT ![r].connection = @ + 1]
       ELSE Returned(r, FellThrough)
  /\ UNCHANGED callFrame

\* So is an answer that fails PickerDecision's validators.
InvalidAnswer(r) ==
  /\ Calling(r)
  /\ IF calls[r].validation < ValidationRetries
       THEN calls' = [calls EXCEPT ![r].validation = @ + 1]
       ELSE Returned(r, FellThrough)
  /\ UNCHANGED callFrame

\* Any other error of the client is not retried.
OtherError(r) ==
  /\ Calling(r)
  /\ Returned(r, FellThrough)
  /\ UNCHANGED callFrame

\* A valid answer; a choice outside the candidates is an unsure one.
Answer(r) ==
  /\ Calling(r)
  /\ \E p \in Answers : Returned(r, p)
  /\ UNCHANGED callFrame

\* The worker has the pick in time.
Deliver(r) ==
  /\ r \in working /\ calls[r] \in Picks
  /\ outcome' = [outcome EXCEPT ![r] = Decide(r, calls[r], None)]
  /\ calls' = [calls EXCEPT ![r] = None]
  /\ working' = working \ {r}
  /\ UNCHANGED <<phase, run, deferred, queue, pending, applied, prov, disk, crashed>>

\* Mutant of Abort: the inner executor is shut down with wait=True.
AbortWaits(r) ==
  /\ FieldBudget /\ r \in working /\ calls[r] \in Picks
  /\ outcome' = [outcome EXCEPT ![r] = AbortedOutcome]
  /\ calls' = [calls EXCEPT ![r] = None]
  /\ working' = working \ {r}
  /\ UNCHANGED <<phase, run, deferred, queue, pending, applied, prov, disk, crashed>>

\* The budget ran out: the worker goes on, the call stays where it is.
Abort(r) ==
  /\ FieldBudget /\ r \in working /\ Calling(r)
  /\ outcome' = [outcome EXCEPT ![r] = AbortedOutcome]
  /\ working' = working \ {r}
  /\ UNCHANGED <<phase, run, deferred, queue, calls, pending, applied, prov, disk, crashed>>

\* The main thread takes a completed future; a pick that bound something, or
\* gave up on it, gets a row in the audit log.
Collect(r) ==
  /\ phase = "pick"
  /\ r \in pending /\ outcome[r] # None
  /\ pending' = pending \ {r}
  /\ audit' = IF outcome[r].stage \in {"llm", "fallback"} THEN Append(audit, r) ELSE audit
  /\ UNCHANGED <<phase, run, outcome, deferred, queue, working, calls, applied,
                 prov, provFile, canonical, cache, crashed>>

StartApply ==
  /\ phase = "pick" /\ pending = {}
  /\ phase' = "apply"
  /\ UNCHANGED <<run, memory, prov, disk, crashed>>

-----------------------------------------------------------------------------
(* Phase 3: in request order.                                              *)

\* Mutant of Cacheable: what the budget cut short is cached too.
CacheableAborted(r) == KeyOf[r] # None /\ r \in deferred /\ outcome[r].cites = None

\* cache_pending: a miss with a key and a pick that was not cut short.
Cacheable(r) ==
  /\ KeyOf[r] # None /\ r \in deferred
  /\ outcome[r].cites = None /\ ~outcome[r].aborted

ActivityOf(r) == [id |-> [run |-> run, request |-> r], outcome |-> outcome[r]]

\* Mutant of Store: the first writer of a key keeps it.
StoreFirst(r) ==
  IF cache[KeyOf[r]] # None THEN UNCHANGED cache
  ELSE cache' = [cache EXCEPT ![KeyOf[r]] =
         [pick |-> outcome[r].pick, activity |-> ActivityOf(r).id]]

\* PickerCache.set: INSERT OR REPLACE.
Store(r) ==
  cache' = [cache EXCEPT ![KeyOf[r]] =
    [pick |-> outcome[r].pick, activity |-> ActivityOf(r).id]]

\* One request: link and admin metadata in the graph, its activity, its
\* cache row.
Apply ==
  LET r == applied + 1
  IN /\ phase = "apply" /\ applied < NRequests
     /\ prov' = prov \cup {ActivityOf(r)}
     /\ IF Cacheable(r) THEN Store(r) ELSE UNCHANGED cache
     /\ applied' = r
     /\ UNCHANGED <<phase, run, outcome, deferred, queue, working, calls, pending,
                    audit, provFile, canonical, crashed>>

\* The cache write raises: the stage fails, the writer flushes on its way out.
ApplyFails ==
  LET r == applied + 1
  IN /\ phase = "apply" /\ applied < NRequests
     /\ Cacheable(r)
     /\ prov' = prov \cup {ActivityOf(r)}
     /\ provFile' = prov'
     /\ phase' = "failed"
     /\ UNCHANGED <<run, memory, audit, canonical, cache, crashed>>

\* canonical.ttl is replaced; links of earlier runs were parsed with it.
Write ==
  /\ phase = "apply" /\ applied = NRequests
  /\ canonical' = canonical \cup
       {[request |-> r, uri |-> UriOf(outcome[r]), run |-> run] :
          r \in {q \in Requests : UriOf(outcome[q]) # None}}
  /\ phase' = "written"
  /\ UNCHANGED <<run, memory, prov, audit, provFile, cache, crashed>>

\* ProvenanceWriter.__exit__.
Flush ==
  /\ phase = "written"
  /\ provFile' = prov
  /\ phase' = "ended"
  /\ UNCHANGED <<run, memory, prov, audit, canonical, cache, crashed>>

-----------------------------------------------------------------------------
\* What is left when the process is gone.
Gone ==
  /\ phase' = "down"
  /\ outcome' = Blank /\ deferred' = {}
  /\ queue' = {} /\ working' = {} /\ calls' = Blank /\ pending' = {}
  /\ applied' = 0
  /\ prov' = {}

\* The interpreter joins every thread before it exits.
Exit ==
  /\ phase \in {"ended", "failed"}
  /\ calls = Blank
  /\ Gone
  /\ UNCHANGED <<run, disk, crashed>>

Crash ==
  /\ phase # "down"
  /\ Cardinality(crashed) < MaxCrashes
  /\ Gone
  /\ crashed' = crashed \cup {run}
  /\ UNCHANGED <<run, disk>>

Next ==
  \/ StartRun \/ Lookup \/ StartPick \/ StartApply
  \/ \E r \in Requests :
       \/ Resolve(r) \/ Deliver(r) \/ Abort(r) \/ Collect(r)
       \/ ConnectionFails(r) \/ InvalidAnswer(r) \/ OtherError(r) \/ Answer(r)
  \/ Apply \/ ApplyFails \/ Write \/ Flush \/ Exit \/ Crash

Spec == Init /\ [][Next]_vars

\* The main thread and the workers run, and a budget runs out; a call to the
\* LLM may hang for ever.
Fairness ==
  /\ WF_vars(Lookup) /\ WF_vars(StartPick) /\ WF_vars(StartApply)
  /\ \A r \in Requests :
       /\ WF_vars(Resolve(r))
       /\ WF_vars(Deliver(r) \/ Abort(r))
       /\ WF_vars(Collect(r))
  /\ WF_vars(Apply \/ ApplyFails) /\ WF_vars(Write) /\ WF_vars(Flush)

FairSpec == Spec /\ Fairness

-----------------------------------------------------------------------------
Ended == phase \in {"written", "ended"}

\* Requests the picker answered in time in this run.
Fresh == {r \in deferred : outcome[r] # None /\ outcome[r].cites = None
                           /\ ~outcome[r].aborted}

Known == prov \cup provFile

\* Of the requests with one cache key that the picker answered in this run,
\* the last in request order is the one cached, however the workers raced
\* (apply.py, "Deterministic by construction").
LastRequestWins ==
  Ended => \A r \in Fresh :
    (KeyOf[r] # None /\ \A q \in Fresh : KeyOf[q] = KeyOf[r] => q <= r)
      => cache[KeyOf[r]] = [pick |-> outcome[r].pick, activity |-> ActivityOf(r).id]

\* A cache row repeats what its activity says the picker decided, in time and
\* for a request with that key; only a kill can take the activity away.
CacheRowExplained ==
  \A k \in Keys : cache[k] # None =>
    \/ cache[k].activity.run \in crashed
    \/ \E a \in Known :
         /\ a.id = cache[k].activity
         /\ KeyOf[a.id.request] = k
         /\ a.outcome.pick = cache[k].pick /\ ~a.outcome.aborted

\* A request replayed from the cache lands in the tier it landed in when the
\* picker was asked (decisions.py, "Warm-cache replay").
WarmReplaySameTier ==
  \A r \in Requests : \A a \in Known :
    (outcome[r] # None /\ a.id = outcome[r].cites /\ a.id.request = r)
      => UriOf(outcome[r]) = UriOf(a.outcome) /\ outcome[r].stage = a.outcome.stage

\* Every authority link in canonical.ttl has an activity that chose it, in
\* memory or in provenance.ttl, unless its run was killed.
BindingsAudited ==
  \A l \in canonical :
    \/ l.run \in crashed
    \/ \E a \in Known : /\ a.id = [run |-> l.run, request |-> l.request]
                        /\ UriOf(a.outcome) = l.uri

\* A run ends, fails or is killed, even when no call to the LLM ever returns.
StageEnds == phase \in {"resolve", "pick", "apply", "written"} ~>
             phase \in {"ended", "failed", "down"}

\* Only what the model validly answered is cached, so a rerun can recover
\* from an outage (picker_cache.py, the docstring of PickerCache).
CachedPicksAreAnswers ==
  \A k \in Keys : cache[k] # None => cache[k].pick \in Answers
=============================================================================
