---------------------------- MODULE JudgeCascade ----------------------------
(***************************************************************************)
(* What M6 promises about one work pair, without retries, clocks or        *)
(* watchdog events: each tier answers in one step, from the cache if its   *)
(* model already gave a validated answer for this pair, and otherwise with *)
(* a fresh validated answer, which is cached, or by falling through, which *)
(* is not.  A run may die at any point; the cache survives it.             *)
(***************************************************************************)
EXTENDS CascadeRules

CONSTANTS
  Models,    \* model names
  ModelOf,   \* the model each tier is configured with (two tiers may share one)
  None       \* no cache row

VARIABLES
  cache,     \* judge-cache.sqlite, the rows of this pair: model -> decision
  judging,   \* a cascade_judge call for the pair is running
  steps      \* the steps of that call, or of the last one

cascadeVars == <<cache, judging, steps>>

Init ==
  /\ cache = [m \in Models |-> None]
  /\ judging = FALSE
  /\ steps = <<>>

\* A batch run reaches the pair.
Begin ==
  /\ ~judging
  /\ judging' = TRUE
  /\ steps' = <<>>
  /\ UNCHANGED cache

\* One tier answers; the call ends when the cascade is complete.
Answer(d, hit) ==
  /\ steps' = Append(steps, [tier |-> NextTier(steps), decision |-> d, hit |-> hit])
  /\ judging' = ~Complete(steps')

AnswerFromCache ==
  LET m == ModelOf[NextTier(steps)] IN
  /\ judging
  /\ cache[m] # None
  /\ Answer(cache[m], TRUE)
  /\ UNCHANGED cache

AnswerFresh ==
  LET m == ModelOf[NextTier(steps)] IN
  /\ judging
  /\ cache[m] = None
  /\ \E d \in ValidatedDecisions :
       /\ Answer(d, FALSE)
       /\ cache' = [cache EXCEPT ![m] = d]

FallThrough ==
  /\ judging
  /\ cache[ModelOf[NextTier(steps)]] = None
  /\ Answer(FellThrough, FALSE)
  /\ UNCHANGED cache

\* The process dies while the pair is being judged.
Die ==
  /\ judging
  /\ judging' = FALSE
  /\ steps' = <<>>
  /\ UNCHANGED cache

Next == Begin \/ AnswerFromCache \/ AnswerFresh \/ FallThrough \/ Die

Spec == Init /\ [][Next]_cascadeVars
=============================================================================
