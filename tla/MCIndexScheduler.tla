--------------------------- MODULE MCIndexScheduler ---------------------------
(***************************************************************************)
(* Model-checking instances of IndexScheduler: the constants are given in  *)
(* the configurations.                                                     *)
(***************************************************************************)
EXTENDS IndexScheduler
=============================================================================
