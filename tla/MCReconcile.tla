----------------------------- MODULE MCReconcile -----------------------------
(* Reconcile on three requests: the first two fold to one cache key, the   *)
(* third has a VIAF candidate and no key.                                  *)
EXTENDS Reconcile

CONSTANT k1

MCAnswers == {[uri |-> "u1", sure |-> TRUE, source |-> "llm"],
              [uri |-> None, sure |-> FALSE, source |-> "llm"]}

MCKeyOf == <<k1, k1, None>>

Found(similar) == [by |-> "service", similar |-> similar]

\* The third request may be resolved without the picker.
MCLookups ==
  <<{Found(<<75, 80>>)},
    {Found(<<96, 95>>)},
    {Found(<<85>>), Found(<<>>), [by |-> "graph", similar |-> <<>>]}>>

\* The tiers of _decide_before_picker at their thresholds.
ASSUME EarlyTiers ==
  /\ EarlyStage(Found(<<69>>)) = "no_candidate"
  /\ EarlyStage(Found(<<70>>)) = "deferred"
  /\ EarlyStage(Found(<<95, 94>>)) = "lexical"
  /\ EarlyStage(Found(<<95, 95>>)) = "deferred"

\* The prefix-cache order picks the second request last.
MCRank == <<0, 2, 1>>
=============================================================================
