---------------------------- MODULE MCJudgeBatch ----------------------------
(***************************************************************************)
(* JudgeBatch on three escalate pairs and one auto-merge pair, chunks of   *)
(* two, a checkpoint every two pairs: the last chunk is short, the last    *)
(* checkpoint is the one at the end, and a crash can fall on either side   *)
(* of a checkpoint and of a chunk.                                         *)
(***************************************************************************)
EXTENDS JudgeBatch

CONSTANTS P1, P2, P3, A1

\* One answer that ends the cascade and one that asks for a second opinion.
MCAnswers == {[label |-> "different_work", confident |-> TRUE, rationale |-> "llm"],
              [label |-> "same_work", confident |-> FALSE, rationale |-> "llm"]}

MCOneFile == {[escalate |-> <<P1, P2, P3>>, autoMerge |-> <<A1>>]}

\* M5 runs that escalate different numbers of pairs.
MCTwoTotals == {[escalate |-> <<P1, P2, P3>>, autoMerge |-> <<A1>>],
                [escalate |-> <<P3, P1>>, autoMerge |-> <<>>]}

=============================================================================
