----------------------------- MODULE MCPipeline -----------------------------
(* Instances of the request pipeline for TLC. *)
EXTENDS Pipeline, TLC

MCSymmetry == Permutations(Requests)
=============================================================================
