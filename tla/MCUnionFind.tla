---------------------------- MODULE MCUnionFind ----------------------------
(***************************************************************************)
(* UnionFind on four works and one same_work row for each of their six     *)
(* pairs, in either direction: enough for a chain of three parents, so     *)
(* that both loops of find run more than once, and for every forest, under *)
(* every order of calls.                                                   *)
(***************************************************************************)
EXTENDS UnionFind

MCWorks == 1..4

MCEdges == {<<3, 4>>, <<2, 3>>, <<1, 2>>, <<4, 1>>, <<2, 4>>, <<3, 1>>}
=============================================================================
