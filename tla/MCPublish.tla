----------------------------- MODULE MCPublish -----------------------------
(* Publish with two loaders and one vocabulary refresher, whose two dumps  *)
(* share a graph.                                                          *)
EXTENDS Publish

CONSTANTS a, b
MCLoaders == {a, b}
MCSymmetry == Permutations(MCLoaders)

MCQueries == <<"typing", "helmet">>
MCVocabs == <<[id |-> "yso", graph |-> "yso"], [id |-> "paikat", graph |-> "yso"]>>
=============================================================================
