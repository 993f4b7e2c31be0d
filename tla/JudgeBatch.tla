----------------------------- MODULE JudgeBatch -----------------------------
(***************************************************************************)
(* M6's batch driver (m6/batch.py, m6/sidecars.py): chunks of pairs judged *)
(* by a thread pool and drained in input order into judge-decisions.jsonl, *)
(* a checkpoint every CheckpointInterval pairs, resume and restart.  A     *)
(* pair's cascade takes the abstract steps of JudgeCascade, one per tier,  *)
(* which JudgePair is proved to implement.  Indices are 1-based: the       *)
(* checkpoint's "last" is the code's last_completed_idx + 1.               *)
(***************************************************************************)
EXTENDS CascadeRules, FiniteSets, Integers

CONSTANTS
  Pairs,               \* candidate work pairs
  CandidateFiles,      \* the contents embed-candidates.jsonl may have
  Unresolvable,        \* pairs with a Work that has no WorkRecord
  Answers,             \* the validated answers the models may give
  Concurrency,         \* the size of a chunk and of the thread pool
  CheckpointInterval,  \* CHECKPOINT_INTERVAL
  Operator,            \* what the operator does between runs
  MaxCrashes,          \* bound: how often the process dies
  None                 \* no cache row, no checkpoint

ASSUME BatchAssumption ==
  /\ CandidateFiles \subseteq [escalate: Seq(Pairs), autoMerge: Seq(Pairs)]
  /\ \A f \in CandidateFiles : \A i, j \in DOMAIN f.escalate :
       f.escalate[i] = f.escalate[j] => i = j
  /\ Answers \subseteq ValidatedDecisions
  /\ Concurrency \in Nat \ {0}
  /\ CheckpointInterval \in Nat \ {0}
  /\ Operator \subseteq {"resume", "restart", "reembed"}
  /\ MaxCrashes \in Nat
  /\ None \notin Verdicts

VARIABLES
  candidates,   \* embed-candidates.jsonl, its two bands
  output,       \* judge-decisions.jsonl
  checkpoint,   \* judge-decisions.jsonl.checkpoint
  cache,        \* judge-cache.sqlite: pair and tier -> answer
  phase,        \* where judge_batch is
  work,         \* the chunk's futures: index -> steps answered so far
  drained,      \* pairs recorded: the index of the last one
  autoMerged,   \* auto_merge_written
  written,      \* the row after drained is in the file, its counters are not
  counters,     \* cache_hits, fresh_calls, cascade_used
  crashes       \* how often the process died

vars == <<candidates, output, checkpoint, cache, phase, work, drained,
          autoMerged, written, counters, crashes>>

disk == <<candidates, output, checkpoint>>

-----------------------------------------------------------------------------
Counters == [hits: Nat, fresh: Nat, cascaded: Nat]
NoCounts == [hits |-> 0, fresh |-> 0, cascaded |-> 0]

Checkpoints == [last: Nat, total: Nat, counters: Counters]

ASSUME NoneAssumption == None \notin Checkpoints

Rows == [pair: Pairs, band: {"auto-merge", "escalate"}, decision: Verdicts,
         steps: Seq(CascadeSteps)]

Phases == {"down", "unlinked", "auto", "judge", "ended"}

TypeOK ==
  /\ candidates \in CandidateFiles
  /\ output \in Seq(Rows)
  /\ checkpoint \in Checkpoints \cup {None}
  /\ cache \in [Pairs \X Tiers -> Answers \cup {None}]
  /\ phase \in Phases
  /\ \A i \in DOMAIN work : work[i] \in Seq(CascadeSteps)
  /\ drained \in Nat
  /\ autoMerged \in Nat
  /\ written \in BOOLEAN
  /\ counters \in Counters
  /\ crashes \in 0..MaxCrashes

total == Len(candidates.escalate)
Pair(i) == candidates.escalate[i]

-----------------------------------------------------------------------------
Init ==
  /\ candidates \in CandidateFiles
  /\ output = <<>>
  /\ checkpoint = None
  /\ cache = [k \in Pairs \X Tiers |-> None]
  /\ phase = "down"
  /\ work = <<>>
  /\ drained = 0 /\ autoMerged = 0
  /\ written = FALSE
  /\ counters = NoCounts
  /\ crashes = 0

\* M5 runs again between two judge runs and replaces the candidates.
Reembed ==
  /\ "reembed" \in Operator
  /\ phase \in {"down", "ended"}
  /\ candidates' \in CandidateFiles \ {candidates}
  /\ phase' = "down"
  /\ UNCHANGED <<output, checkpoint, cache, work, drained, autoMerged, written, counters, crashes>>

\* The run starts from the first candidate, into an empty output file.
Fresh ==
  /\ output' = <<>>
  /\ phase' = "auto"
  /\ drained' = 0
  /\ counters' = NoCounts

\* A checkpoint is honoured when it was taken over as many candidates.
Resumable == checkpoint # None /\ checkpoint.total = total

\* Mutant of StartResume: one pair past the checkpoint.
StartResumeOneLate ==
  /\ "resume" \in Operator
  /\ phase \in {"down", "ended"}
  /\ IF Resumable
       THEN /\ phase' = "judge"
            /\ drained' = IF checkpoint.last < total THEN checkpoint.last + 1 ELSE total
            /\ counters' = checkpoint.counters
            /\ UNCHANGED output
       ELSE Fresh
  /\ work' = <<>> /\ autoMerged' = 0 /\ written' = FALSE
  /\ UNCHANGED <<candidates, checkpoint, cache, crashes>>

\* Mutant of StartResume: the counters start from zero again.
StartResumeCountersLost ==
  /\ "resume" \in Operator
  /\ phase \in {"down", "ended"}
  /\ IF Resumable
       THEN /\ phase' = "judge"
            /\ drained' = checkpoint.last
            /\ counters' = NoCounts
            /\ UNCHANGED output
       ELSE Fresh
  /\ work' = <<>> /\ autoMerged' = 0 /\ written' = FALSE
  /\ UNCHANGED <<candidates, checkpoint, cache, crashes>>

\* judge_batch(resume=True): after a checkpoint the file is appended to, and
\* without one it is replaced; a checkpoint over another total stays on disk.
StartResume ==
  /\ "resume" \in Operator
  /\ phase \in {"down", "ended"}
  /\ IF Resumable
       THEN /\ phase' = "judge"
            /\ drained' = checkpoint.last
            /\ counters' = checkpoint.counters
            /\ UNCHANGED output
       ELSE Fresh
  /\ work' = <<>> /\ autoMerged' = 0 /\ written' = FALSE
  /\ UNCHANGED <<candidates, checkpoint, cache, crashes>>

\* judge_batch(resume=False) unlinks the output first ...
StartRestart ==
  /\ "restart" \in Operator
  /\ phase \in {"down", "ended"}
  /\ output' = <<>>
  /\ phase' = "unlinked"
  /\ work' = <<>> /\ autoMerged' = 0 /\ written' = FALSE
  /\ UNCHANGED <<candidates, checkpoint, cache, drained, counters, crashes>>

\* ... and the checkpoint second.
UnlinkCheckpoint ==
  /\ phase = "unlinked"
  /\ checkpoint' = None
  /\ Fresh
  /\ UNCHANGED <<candidates, cache, work, autoMerged, written, crashes>>

-----------------------------------------------------------------------------
\* synthesize_auto_merge_outcome: same_work on the embedding similarity alone.
\* Its one step, which names the embedding model, is no model call and is left out.
AutoMergeRow(p) ==
  [pair |-> p, band |-> "auto-merge", steps |-> <<>>,
   decision |-> [label |-> "same_work", confident |-> TRUE, rationale |-> "llm"]]

\* The auto-merge band, row by row, once per fresh run.
WriteAutoMerge ==
  /\ phase = "auto"
  /\ autoMerged < Len(candidates.autoMerge)
  /\ output' = Append(output, AutoMergeRow(candidates.autoMerge[autoMerged + 1]))
  /\ autoMerged' = autoMerged + 1
  /\ UNCHANGED <<candidates, checkpoint, cache, phase, work, drained, written, counters, crashes>>

AutoMergeDone ==
  /\ phase = "auto"
  /\ autoMerged = Len(candidates.autoMerge)
  /\ phase' = "judge"
  /\ UNCHANGED <<candidates, output, checkpoint, cache, work, drained, autoMerged, written, counters, crashes>>

-----------------------------------------------------------------------------
\* The end of the chunk that begins after n recorded pairs.
ChunkEnd(n) == IF n + Concurrency < total THEN n + Concurrency ELSE total

\* A chunk is submitted when the previous one is drained.
SubmitChunk ==
  /\ phase = "judge"
  /\ ~written
  /\ drained + 1 \notin DOMAIN work
  /\ drained < total
  /\ work' = [i \in (drained + 1)..ChunkEnd(drained) |-> <<>>]
  /\ UNCHANGED <<disk, cache, phase, drained, autoMerged, written, counters, crashes>>

\* Worker threads: the next tier of pair i answers (JudgeCascade's three ways).
\* The worker goes on while the main thread writes other rows.
Answer(i, d, hit) ==
  work' = [work EXCEPT ![i] = Append(@, [tier |-> NextTier(work[i]), decision |-> d, hit |-> hit])]

Judging(i) ==
  /\ phase = "judge"
  /\ i \in DOMAIN work
  /\ Pair(i) \notin Unresolvable
  /\ ~Complete(work[i])

AnswerFromCache(i) ==
  LET k == <<Pair(i), NextTier(work[i])>> IN
  /\ cache[k] # None
  /\ Answer(i, cache[k], TRUE)
  /\ UNCHANGED cache

AnswerFresh(i) ==
  LET k == <<Pair(i), NextTier(work[i])>> IN
  /\ cache[k] = None
  /\ \E d \in Answers : Answer(i, d, FALSE) /\ cache' = [cache EXCEPT ![k] = d]

\* Mutant of FallThrough: a tier that falls through starts the cascade over.
FallThroughStartsOver(i) ==
  /\ cache[<<Pair(i), NextTier(work[i])>>] = None
  /\ work' = [work EXCEPT ![i] = <<>>]
  /\ UNCHANGED cache

FallThrough(i) ==
  /\ cache[<<Pair(i), NextTier(work[i])>>] = None
  /\ Answer(i, FellThrough, FALSE)
  /\ UNCHANGED cache

JudgeTier(i) ==
  /\ Judging(i)
  /\ AnswerFromCache(i) \/ AnswerFresh(i) \/ FallThrough(i)
  /\ UNCHANGED <<disk, phase, drained, autoMerged, written, counters, crashes>>

\* _judge_one has returned: the cascade is complete, or there was none to run.
Resolved(i) == Pair(i) \in Unresolvable \/ Complete(work[i])

EscalateRow(i) ==
  [pair |-> Pair(i), band |-> "escalate", steps |-> work[i],
   decision |-> IF Pair(i) \in Unresolvable THEN FellThrough ELSE Final(work[i])]

\* Mutant of WriteRow: rows are written as their futures complete.
WriteRowAsCompleted ==
  /\ phase = "judge"
  /\ ~written
  /\ \E i \in DOMAIN work :
       /\ i > drained
       /\ Resolved(i)
       /\ output' = Append(output, EscalateRow(i))
  /\ written' = TRUE
  /\ UNCHANGED <<candidates, checkpoint, cache, phase, work, drained, autoMerged, counters, crashes>>

\* The main thread waits for the futures in submission order; the row is
\* written and flushed before anything else is recorded about the pair.
WriteRow ==
  /\ phase = "judge"
  /\ ~written
  /\ drained + 1 \in DOMAIN work
  /\ Resolved(drained + 1)
  /\ output' = Append(output, EscalateRow(drained + 1))
  /\ written' = TRUE
  /\ UNCHANGED <<candidates, checkpoint, cache, phase, work, drained, autoMerged, counters, crashes>>

\* The counters after a pair with these steps.
Counted(steps) ==
  [hits |-> counters.hits + Cardinality({k \in DOMAIN steps : steps[k].hit}),
   fresh |-> counters.fresh + Cardinality({k \in DOMAIN steps : ~steps[k].hit}),
   cascaded |-> counters.cascaded + (IF UsedCascade(steps) THEN 1 ELSE 0)]

CheckpointDue(n) == n % CheckpointInterval = 0 \/ n = total

\* Mutant of Record: the checkpoint claims the pair after the recorded one.
RecordAhead ==
  /\ phase = "judge"
  /\ written
  /\ drained' = drained + 1
  /\ written' = FALSE
  /\ counters' = Counted(work[drained + 1])
  /\ checkpoint' = IF CheckpointDue(drained + 1)
                     THEN [last |-> IF drained + 2 <= total THEN drained + 2 ELSE total,
                           total |-> total, counters |-> counters']
                     ELSE checkpoint
  /\ UNCHANGED <<candidates, output, cache, phase, work, autoMerged, crashes>>

\* Mutant of Record: the last pairs of the batch leave no checkpoint.
RecordNoFinalCheckpoint ==
  /\ phase = "judge"
  /\ written
  /\ drained' = drained + 1
  /\ written' = FALSE
  /\ counters' = Counted(work[drained + 1])
  /\ checkpoint' = IF (drained + 1) % CheckpointInterval = 0 /\ drained + 1 < total
                     THEN [last |-> drained + 1, total |-> total, counters |-> counters']
                     ELSE checkpoint
  /\ UNCHANGED <<candidates, output, cache, phase, work, autoMerged, crashes>>

\* The rest of _record_outcome: counters, then the checkpoint when one is due.
Record ==
  /\ phase = "judge"
  /\ written
  /\ drained' = drained + 1
  /\ written' = FALSE
  /\ counters' = Counted(work[drained + 1])
  /\ checkpoint' = IF CheckpointDue(drained + 1)
                     THEN [last |-> drained + 1, total |-> total, counters |-> counters']
                     ELSE checkpoint
  /\ UNCHANGED <<candidates, output, cache, phase, work, autoMerged, crashes>>

\* judge_batch returns; its end event and result report completed = total.
Finish ==
  /\ phase = "judge"
  /\ ~written
  /\ drained >= total
  /\ phase' = "ended"
  /\ UNCHANGED <<disk, cache, work, drained, autoMerged, written, counters, crashes>>

\* The process dies, or an exception leaves judge_batch; the files survive.
Crash ==
  /\ phase \in {"unlinked", "auto", "judge"}
  /\ crashes < MaxCrashes
  /\ crashes' = crashes + 1
  /\ phase' = "down"
  /\ work' = <<>> /\ drained' = 0 /\ autoMerged' = 0 /\ written' = FALSE
  /\ counters' = NoCounts
  /\ UNCHANGED <<disk, cache>>

\* The steps judge_batch and its pool take by themselves.
Run ==
  \/ UnlinkCheckpoint
  \/ WriteAutoMerge \/ AutoMergeDone
  \/ SubmitChunk
  \/ \E i \in DOMAIN work : JudgeTier(i)
  \/ WriteRow \/ Record \/ Finish

Next == StartResume \/ StartRestart \/ Reembed \/ Run \/ Crash

Spec == Init /\ [][Next]_vars

\* A started batch keeps running: every cascade lands (JudgePair's PairLands).
FairSpec == Spec /\ WF_vars(Run)

-----------------------------------------------------------------------------
(* Safety *)

HasRow(i) ==
  \E k \in DOMAIN output : output[k].band = "escalate" /\ output[k].pair = Pair(i)

\* The auto-merge band is at the head of the file and nowhere else.
AutoMergeOnce ==
  /\ Len(output) >= Len(candidates.autoMerge)
  /\ \A k \in DOMAIN output :
       IF k <= Len(candidates.autoMerge)
         THEN output[k] = AutoMergeRow(candidates.autoMerge[k])
         ELSE output[k].band = "escalate"

\* What a resume would skip is in the file: every pair up to the checkpoint and
\* the whole auto-merge band, at every point where the process may die.
ResumeSkipsOnlyWritten ==
  Resumable => (\A i \in 1..checkpoint.last : HasRow(i)) /\ AutoMergeOnce

\* "Run the cascade over every escalate-band pair from M5": when a run ends, and
\* reports completed = total, every candidate has its row, whatever runs died
\* before it.
EveryCandidateJudged ==
  phase = "ended" => (\A i \in 1..total : HasRow(i)) /\ AutoMergeOnce

Index(p) == CHOOSE i \in 1..total : Pair(i) = p

\* "output JSONL stays in input order": with a thread pool and through resumes
\* the file never jumps over a candidate; a resume may only step back.
InputOrder ==
  \A k \in DOMAIN output :
    output[k].band = "escalate" =>
      Index(output[k].pair) <=
        (IF k > 1 /\ output[k - 1].band = "escalate" THEN Index(output[k - 1].pair) ELSE 0) + 1

\* A crash costs at most CheckpointInterval repeated rows.
RepeatsBounded ==
  Len(output) <= Len(candidates.autoMerge) + total + CheckpointInterval * crashes

\* The row a pair's counters were taken from: its last.
LastRow(i) ==
  output[CHOOSE k \in DOMAIN output :
    /\ output[k].band = "escalate" /\ output[k].pair = Pair(i)
    /\ \A l \in DOMAIN output : l > k => output[l].pair # Pair(i)]

\* The steps of the candidates' last rows: candidate and place in its cascade.
LastSteps ==
  {x \in {<<i, k>> : i \in 1..total, k \in 1..2} : x[2] \in DOMAIN LastRow(x[1]).steps}

\* The counters a finished run reports, part of them restored from a checkpoint
\* and part counted by this process, describe the file: each candidate once, by
\* its last row.
CountersMatchOutput ==
  phase = "ended" =>
    /\ counters.hits = Cardinality({x \in LastSteps : LastRow(x[1]).steps[x[2]].hit})
    /\ counters.fresh = Cardinality({x \in LastSteps : ~LastRow(x[1]).steps[x[2]].hit})
    /\ counters.cascaded = Cardinality({i \in 1..total : UsedCascade(LastRow(i).steps)})

\* A pair whose verdict came from validated answers only has the same verdict
\* in every later row: repeats after a crash cannot contradict it.
SettledRowsAgree ==
  \A j, k \in DOMAIN output :
    /\ j < k
    /\ output[j].band = "escalate" /\ output[k].band = "escalate"
    /\ output[j].pair = output[k].pair
    /\ output[j].steps # <<>> /\ AllValidated(output[j].steps)
    => output[k].decision = output[j].decision

(* Liveness *)

\* A batch that started ends, unless the process dies.
BatchEnds == phase \in {"auto", "judge"} ~> phase \in {"ended", "down"}

(* What the documentation says; it holds while no process dies *)

\* sidecars.py: the checkpoint lets "a resumed run pick up exactly where the
\* previous one left off", so no pair is decided twice.
NoPairDecidedTwice ==
  \A j, k \in DOMAIN output :
    output[j].band = "escalate" /\ output[k].band = "escalate"
      /\ output[j].pair = output[k].pair => j = k
=============================================================================
