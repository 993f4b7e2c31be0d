---------------------------- MODULE MCJudgePair ----------------------------
(***************************************************************************)
(* JudgePair with the values the code ships: 3 connection retries after 5, *)
(* 30 and 120 seconds, 2 validation retries, a timeout of 90 seconds and   *)
(* 300 per pair.  A call lasts 1, 30 or 90 seconds, or 272 when the SDK    *)
(* sent the request three times, 90 seconds each and its own pauses.       *)
(***************************************************************************)
EXTENDS JudgePair

CONSTANTS M32B, M72B

MCBackoff == [n \in 0..2 |-> CASE n = 0 -> 5 [] n = 1 -> 30 [] OTHER -> 120]

MCModelOf == [t \in Tiers |-> IF t = "primary" THEN M32B ELSE M72B]

=============================================================================
