--------------------------- MODULE MCMergeGroups ---------------------------
(***************************************************************************)
(* MergeGroups on four works and every decision file of up to three rows   *)
(* over their six pairs: chains of all four works, a contradiction at      *)
(* every distance, and a pair judged twice.  The corpus has all four works *)
(* or lacks the first and the third, so that a group's root or a whole     *)
(* group can be outside it; a key can be missing or shared.                *)
(***************************************************************************)
EXTENDS MergeGroups

CONSTANTS MaxRows, RowVerdicts

MCWorks == 1..4

\* Rows in both directions between neighbours in the order, one direction else.
MCPairs == {<<1, 2>>, <<3, 2>>, <<3, 4>>, <<4, 1>>, <<1, 3>>, <<2, 4>>}

MCRows == {[a |-> p[1], b |-> p[2], verdict |-> v, model |-> "llm"] :
             p \in MCPairs, v \in RowVerdicts}

MCDecisionFiles == UNION {[1..n -> MCRows] : n \in 0..MaxRows}

MCCorpora == {1..4, {2, 4}}

MCMintKeys ==
  {[w \in 1..4 |-> IF w = 1 THEN "k1" ELSE "k2"],
   [w \in 1..4 |-> IF w = 2 THEN "none" ELSE "k1"]}
=============================================================================
