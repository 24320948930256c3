-------------------------- MODULE MCWorkerSession --------------------------
(* Model checking of WorkerSession: c imports b, which imports a, and a     *)
(* names c without importing it.  Then a changes its interface, or b drops  *)
(* its import while c changes its interface, or b cannot be parsed in a     *)
(* snapshot of another shape.                                               *)
EXTENDS WorkerSession, TLC

Text(imports, interface, body, paths, analyzable) ==
    [imports |-> imports, interface |-> interface, body |-> body, paths |-> paths,
     analyzable |-> analyzable]

A1 == Text({}, 1, "call", {"c"}, TRUE)
A2 == Text({}, 2, "call", {"c"}, TRUE)
B1 == Text({"a"}, 1, "empty", {}, TRUE)
B2 == Text({}, 1, "empty", {}, TRUE)
B3 == Text({"a"}, 1, "empty", {}, FALSE)
C1 == Text({"b"}, 1, "call", {}, TRUE)
C2 == Text({"b"}, 2, "call", {}, TRUE)

Snapshot(k, a, b, c) == [shape |-> k, text |-> "a" :> a @@ "b" :> b @@ "c" :> c]

MCSnapshots ==
    {Snapshot("k1", A1, B1, C1), Snapshot("k1", A2, B1, C1), Snapshot("k1", A1, B2, C2),
     Snapshot("k2", A1, B3, C1)}
MCOrder == "a" :> 1 @@ "b" :> 2 @@ "c" :> 3
=============================================================================
