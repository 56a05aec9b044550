--------------------------- MODULE MCGenerationLock ---------------------------
(***************************************************************************)
(* TLC instance of GenerationLock. Requests and sessions are model values; *)
(* with three requests and two sessions one holder lapses, a second takes  *)
(* over and a third contends while the first releases late. No symmetry,   *)
(* because the run has a liveness property.                                *)
(***************************************************************************)
EXTENDS GenerationLock
=============================================================================
