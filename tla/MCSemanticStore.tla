-------------------------- MODULE MCSemanticStore --------------------------
(* Model checking of SemanticStore: one workspace view and one standalone   *)
(* view that can show the same state.                                       *)
EXTENDS SemanticStore
=============================================================================
