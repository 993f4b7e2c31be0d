----------------------------- MODULE JudgePair -----------------------------
(***************************************************************************)
(* M6's cascade for one work pair (m6/cascade.py): judge_pair's two retry  *)
(* layers and its budget check, run for the primary model and, when its    *)
(* answer needs a second opinion, for the fallback model, under one        *)
(* deadline.  Cache keys are per pair and per model, so no other pair's    *)
(* thread touches the state of this one.  The process may die at any step  *)
(* and the pair may be judged again by a later run, with the cache warm.   *)
(***************************************************************************)
EXTENDS CascadeRules, Integers

CONSTANTS
  Models,                \* model names
  ModelOf,               \* the model of each tier
  None,                  \* no cache row, no settled verdict
  MaxConnectionRetries,  \* MAX_CONNECTION_RETRIES
  MaxValidationRetries,  \* MAX_VALIDATION_RETRIES
  Backoff,               \* CONNECTION_BACKOFF_SECONDS, by retry number
  MaxBackoff,            \* an upper bound of Backoff
  CallTimeout,           \* LLM_CALL_TIMEOUT_SECONDS
  PairTimeout,           \* LLM_PAIR_TIMEOUT_SECONDS; 0 disables the budget
  CallDurations,         \* seconds one chain.invoke may last
  FullRationale          \* FALSE under --no-full-rationale

ASSUME RetryAssumption ==
  /\ ModelOf \in [Tiers -> Models]
  /\ None \notin Verdicts
  /\ MaxConnectionRetries \in Nat
  /\ MaxValidationRetries \in Nat
  /\ MaxBackoff \in Nat
  /\ Backoff \in [0..(MaxConnectionRetries - 1) -> 0..MaxBackoff]
  /\ CallTimeout \in Nat
  /\ PairTimeout \in Nat
  /\ CallDurations \subseteq Nat
  /\ FullRationale \in BOOLEAN

VARIABLES
  cache,     \* judge-cache.sqlite, the rows of this pair: model -> decision
  pc,        \* where cascade_judge is
  steps,     \* JudgeOutcome.steps of the call that runs, or ran last
  conn,      \* connection_attempts
  val,       \* validation_attempts
  now,       \* seconds since cascade_judge set the deadline
  lastCall,  \* history: seconds this cascade_judge call's last LLM call lasted
  events,    \* watchdog events this call appended for the pair
  calls,     \* history: LLM calls this cascade_judge call made
  settled    \* history: the first verdict all of whose steps were validated

vars == <<cache, pc, steps, conn, val, now, lastCall, events, calls, settled>>

-----------------------------------------------------------------------------
CallsPerTier == 1 + MaxConnectionRetries + MaxValidationRetries

\* calls saturates just above its bound, so that exceeding the bound shows.
CallCap == 2 * CallsPerTier + 1

Locations == {"idle", "lookup", "loop", "calling", "landed", "raised"}

Events ==
  [event: {"timeout", "give_up", "pair_budget_exceeded"},
   tier: Tiers, retry: 0..MaxConnectionRetries]

TypeOK ==
  /\ cache \in [Models -> ValidatedDecisions \cup {None}]
  /\ pc \in Locations
  /\ steps \in Seq(CascadeSteps)
  /\ conn \in 0..MaxConnectionRetries
  /\ val \in 0..MaxValidationRetries
  /\ now \in Nat
  /\ lastCall \in Nat
  /\ events \subseteq Events
  /\ calls \in 0..CallCap
  /\ settled \in ValidatedDecisions \cup {None}

Tier == NextTier(steps)
Model == ModelOf[Tier]

\* A call took elapsed seconds and the backoff after it pause seconds.  Without
\* a deadline the clock is read for logging only.
Spend(elapsed, pause) ==
  /\ now' = IF PairTimeout = 0 THEN now ELSE now + elapsed + pause
  /\ lastCall' = IF PairTimeout = 0 THEN 0 ELSE elapsed

Expired == PairTimeout > 0 /\ now > PairTimeout

Event(name) == [event |-> name, tier |-> Tier, retry |-> conn]

-----------------------------------------------------------------------------
Init ==
  /\ cache = [m \in Models |-> None]
  /\ pc = "idle"
  /\ steps = <<>>
  /\ conn = 0 /\ val = 0 /\ now = 0 /\ lastCall = 0
  /\ events = {}
  /\ calls = 0
  /\ settled = None

\* cascade_judge: fix the deadline, call judge_pair for the primary.
BeginPair ==
  /\ pc \in {"idle", "landed", "raised"}
  /\ pc' = "lookup"
  /\ steps' = <<>>
  /\ conn' = 0 /\ val' = 0 /\ now' = 0 /\ lastCall' = 0
  /\ events' = {}
  /\ calls' = 0
  /\ UNCHANGED <<cache, settled>>

\* judge_pair returns d: cascade_judge appends the step and either asks the
\* fallback or returns the outcome.
Return(d, hit) ==
  /\ steps' = Append(steps, [tier |-> Tier, decision |-> d, hit |-> hit])
  /\ IF Complete(steps')
       THEN /\ pc' = "landed"
            /\ settled' = IF settled = None /\ AllValidated(steps')
                            THEN Final(steps') ELSE settled
       ELSE /\ pc' = "lookup"
            /\ UNCHANGED settled

CacheHit ==
  /\ pc = "lookup"
  /\ cache[Model] # None
  /\ Return(cache[Model], TRUE)
  /\ UNCHANGED <<cache, conn, val, now, lastCall, events, calls>>

\* Mutant of CacheMiss: the lookup is skipped, as under a key that never matches.
CacheMissAlways ==
  /\ pc = "lookup"
  /\ pc' = "loop"
  /\ conn' = 0 /\ val' = 0
  /\ UNCHANGED <<cache, steps, now, lastCall, events, calls, settled>>

CacheMiss ==
  /\ pc = "lookup"
  /\ cache[Model] = None
  /\ pc' = "loop"
  /\ conn' = 0 /\ val' = 0
  /\ UNCHANGED <<cache, steps, now, lastCall, events, calls, settled>>

\* Mutant of BudgetExceeded: `continue' where the code returns.
BudgetExceededContinues ==
  /\ pc = "loop"
  /\ Expired
  /\ events' = events \cup {Event("pair_budget_exceeded")}
  /\ pc' = "lookup"
  /\ UNCHANGED <<cache, steps, conn, val, now, lastCall, calls, settled>>

\* The deadline is checked before each call, never during one.
BudgetExceeded ==
  /\ pc = "loop"
  /\ Expired
  /\ events' = events \cup {Event("pair_budget_exceeded")}
  /\ Return(FellThrough, FALSE)
  /\ UNCHANGED <<cache, conn, val, now, lastCall, calls>>

\* Mutant of StartCall: no budget check before the call.
StartCallUnchecked ==
  /\ pc = "loop"
  /\ pc' = "calling"
  /\ calls' = IF calls < CallCap THEN calls + 1 ELSE calls
  /\ UNCHANGED <<cache, steps, conn, val, now, lastCall, events, settled>>

StartCall ==
  /\ pc = "loop"
  /\ ~Expired
  /\ pc' = "calling"
  /\ calls' = IF calls < CallCap THEN calls + 1 ELSE calls
  /\ UNCHANGED <<cache, steps, conn, val, now, lastCall, events, settled>>

\* A connection error with retries left: back off, count it, loop.
RetryConnection(elapsed) ==
  /\ conn < MaxConnectionRetries
  /\ Spend(elapsed, Backoff[conn])
  /\ conn' = conn + 1
  /\ pc' = "loop"
  /\ UNCHANGED <<steps, settled>>

\* The call fails with a connection error that is not a timeout.
ConnectionError ==
  /\ pc = "calling"
  /\ \E elapsed \in CallDurations :
       \/ RetryConnection(elapsed)
       \/ /\ conn = MaxConnectionRetries
          /\ Spend(elapsed, 0)
          /\ Return(FellThrough, FALSE)
          /\ UNCHANGED conn
  /\ UNCHANGED <<cache, val, events, calls>>

\* The call ends with the SDK's timeout error: as above, with watchdog events.
\* LLM_CALL_TIMEOUT_SECONDS bounds one read of one request, and the SDK repeats
\* a request that timed out before it raises, so the call took at least that.
Timeout ==
  /\ pc = "calling"
  /\ \E elapsed \in {d \in CallDurations : d >= CallTimeout} :
       \/ /\ RetryConnection(elapsed)
          /\ events' = events \cup {Event("timeout")}
       \/ /\ conn = MaxConnectionRetries
          /\ Spend(elapsed, 0)
          /\ Return(FellThrough, FALSE)
          /\ events' = events \cup {Event("timeout"), Event("give_up")}
          /\ UNCHANGED conn
  /\ UNCHANGED <<cache, val, calls>>

\* Any other exception from the chain is not retried.
UnrecoverableError ==
  /\ pc = "calling"
  /\ \E elapsed \in CallDurations : Spend(elapsed, 0)
  /\ Return(FellThrough, FALSE)
  /\ UNCHANGED <<cache, conn, val, events, calls>>

\* The payload fails the schema or the Boundary-4 validators.
InvalidAnswer ==
  /\ pc = "calling"
  /\ \E elapsed \in CallDurations : Spend(elapsed, 0)
  /\ \/ /\ val < MaxValidationRetries
        /\ val' = val + 1
        /\ pc' = "loop"
        /\ UNCHANGED <<steps, settled>>
     \/ /\ val = MaxValidationRetries
        /\ Return(FellThrough, FALSE)
        /\ UNCHANGED val
  /\ UNCHANGED <<cache, conn, events, calls>>

\* Mutant of Store: a fresh answer is returned without being cached.
StoreNothing(d) == UNCHANGED cache

\* cache.set: insert or replace.
Store(d) == cache' = [cache EXCEPT ![Model] = d]

ValidAnswer ==
  /\ pc = "calling"
  /\ \E elapsed \in CallDurations : Spend(elapsed, 0)
  /\ \E d \in ValidatedDecisions : Store(d) /\ Return(d, FALSE)
  /\ UNCHANGED <<conn, val, events, calls>>

\* The call ends without an outcome: its locals are gone, the cache is on disk.
Abandon(location) ==
  /\ pc' = location
  /\ steps' = <<>>
  /\ conn' = 0 /\ val' = 0 /\ now' = 0 /\ lastCall' = 0
  /\ events' = {}
  /\ calls' = 0
  /\ UNCHANGED <<cache, settled>>

\* WorkMatchDecisionFast lets a firm answer carry a rationale below the strict
\* schema's minimum; to_strict, called outside both retry layers, then raises.
ConversionError ==
  /\ ~FullRationale
  /\ pc = "calling"
  /\ Abandon("raised")

\* The process dies.
Die ==
  /\ pc \notin {"idle", "landed", "raised"}
  /\ Abandon("idle")

\* The steps cascade_judge takes by itself once the pair has begun.
Judge ==
  \/ CacheHit \/ CacheMiss
  \/ BudgetExceeded \/ StartCall
  \/ ConnectionError \/ Timeout \/ UnrecoverableError
  \/ InvalidAnswer \/ ValidAnswer \/ ConversionError

Next == BeginPair \/ Judge \/ Die

Spec == Init /\ [][Next]_vars

\* A thread that judges a pair keeps running: every call returns, since each
\* read times out and the SDK's own retries are few, and every sleep ends.
FairSpec == Spec /\ WF_vars(Judge)

-----------------------------------------------------------------------------
(* Safety *)

\* The budget is checked between calls, so a pair may overrun it, but only by
\* the call that was in flight when it ran out and one backoff, over both tiers
\* and every order of failures: the ceiling an operator really gets from
\* LLM_PAIR_TIMEOUT_SECONDS, however long the SDK stretches a single call.
OverrunBounded ==
  PairTimeout > 0 => now <= PairTimeout + lastCall + MaxBackoff

\* The two retry layers of a judge_pair call do not multiply: connection and
\* validation failures in any order cost at most 1 + 3 + 2 calls per tier.
CallsBounded ==
  calls <= CallsPerTier * (IF pc = "landed" THEN Len(steps) ELSE Len(steps) + 1)

\* Once a pair landed with every step validated, every later run lands it with
\* the same verdict and without an LLM call: "cache hits produce identical
\* output to fresh calls", across both tiers, crashes and re-runs.
SettledStays ==
  settled # None =>
    /\ pc \notin {"loop", "calling"}
    /\ pc = "landed" => Final(steps) = settled

\* A model's answer for a pair is never replaced, although cache.set would
\* replace it: judge_pair only reaches cache.set after a miss on the same key.
CacheIsWriteOnce ==
  [][\A m \in Models : cache[m] # None => cache'[m] = cache[m]]_vars

\* Once the budget of a pair is exceeded no tier calls a model for it again:
\* the fallback's own check sees the shared deadline.
NoCallAfterBudget ==
  [][(\E e \in events : e.event = "pair_budget_exceeded") /\ pc' \notin {"idle", "raised"} /\ pc # "landed"
       => calls' = calls]_vars

(* Liveness *)

\* A pair that is being judged ends, unless the process dies first: no order of
\* failures, cached answers and expired budgets keeps the retry loop going.  It
\* lands, or in fast mode the conversion's exception ends it.
PairLands == pc = "lookup" ~> pc \in {"landed", "idle", "raised"}

(* Refinement *)

Promise == INSTANCE JudgeCascade WITH judging <- pc \in {"lookup", "loop", "calling"}

PromiseSpec == Promise!Spec
=============================================================================
