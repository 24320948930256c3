-------------------------- MODULE MCDaemonLifecycle --------------------------
(* DaemonLifecycle with model values for its threads.                       *)
EXTENDS DaemonLifecycle
=============================================================================
