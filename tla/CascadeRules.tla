---------------------------- MODULE CascadeRules ----------------------------
(***************************************************************************)
(* The vocabulary of M6's judge: decisions, cascade steps, and the rules   *)
(* that decide when a pair needs the fallback model and when its cascade   *)
(* is complete.  Shared by the abstract cascade (JudgeCascade), by the     *)
(* detailed one (JudgePair) and by the batch driver (JudgeBatch).          *)
(***************************************************************************)
EXTENDS Naturals, Sequences

Labels == {"same_work", "different_work", "uncertain"}

\* A decision keeps what the properties tell apart: its label, whether its
\* confidence reaches FALLBACK_CONFIDENCE_THRESHOLD, and whether the rationale
\* is a model's answer or the text of _uncertain_decision.
Decisions ==
  [label: Labels, confident: BOOLEAN, rationale: {"llm", "fell_through"}]

\* What passes the Boundary-4 validators: _coherent_uncertain caps the
\* confidence of an uncertain answer below the fallback threshold.
ValidatedDecisions ==
  {d \in Decisions : d.rationale = "llm" /\ (d.label = "uncertain" => ~d.confident)}

\* _uncertain_decision: confidence 0.0 and a "fell through" rationale.
FellThrough == [label |-> "uncertain", confident |-> FALSE, rationale |-> "fell_through"]

Verdicts == ValidatedDecisions \cup {FellThrough}

Tiers == {"primary", "fallback"}

CascadeSteps == [tier: Tiers, decision: Verdicts, hit: BOOLEAN]

NeedsSecondOpinion(d) ==
  \/ d.label = "uncertain"
  \/ d.label = "same_work" /\ ~d.confident

\* cascade_judge returns after the primary's step unless it needs a second
\* opinion, and always after the fallback's.
Complete(steps) ==
  \/ Len(steps) = 2
  \/ Len(steps) = 1 /\ ~NeedsSecondOpinion(steps[1].decision)

\* The tier the next judge_pair call of an incomplete cascade is for.
NextTier(steps) == IF steps = <<>> THEN "primary" ELSE "fallback"

\* JudgeOutcome.final: the decision of the last step.
Final(steps) == steps[Len(steps)].decision

\* JudgeOutcome.used_cascade: some step is the second opinion.
UsedCascade(steps) == \E k \in DOMAIN steps : steps[k].tier = "fallback"

\* Every step of the outcome is a model's validated answer.
AllValidated(steps) == \A k \in DOMAIN steps : steps[k].decision.rationale = "llm"
=============================================================================
