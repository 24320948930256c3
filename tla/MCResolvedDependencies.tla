----------------------- MODULE MCResolvedDependencies -----------------------
(* Model checking of SemanticQueries: two shard owners, facts that repeat   *)
(* each other with other confidences or evidence, overrides that meet the   *)
(* facts they replace, and queries over the graphs these make.              *)
(*                                                                          *)
(* 1, 2 and 4 belong to the repository Here, 3 to There, 5 and 6 to Yonder, *)
(* and 7 is a gRPC method that 3 implements.  All facts together are        *)
(*                                                                          *)
(*     1 -> 2, 4;  2 -> 3;  3 -> 4;  4 -> 5;  5 -> 3, 6, 7;  7 -> 3         *)
(*                                                                          *)
(* with cycles through the repositories, so that an entity is reached with  *)
(* different repositories behind it.                                        *)
EXTENDS SemanticQueries

Row(f, t, e, c) == [from |-> f, relation |-> "calls", to |-> t, evidence |-> e, confidence |-> c]
Implements(f, t, c) ==
    [from |-> f, relation |-> "implemented_by", to |-> t, evidence |-> 1, confidence |-> c]
Override(f, u, t, c) == [from |-> f, relation |-> "calls", unresolved |-> u, resolved |-> t,
                         evidence |-> 1, confidence |-> c]

MCStateFacts == {{},
                 {Row(1, 2, 1, 1), Row(2, 3, 1, 1), Row(4, 5, 1, 1), Row(5, 6, 1, 1)},
                 {Row(2, 3, 1, 1), Row(3, 5, 1, 1)}}
MCShardFacts == {{},
                 {Row(1, 2, 1, 2), Row(3, 4, 1, 1), Row(5, 3, 1, 1)},
                 {Row(1, 2, 2, 1), Row(1, 4, 1, 1), Row(5, 7, 1, 1), Implements(7, 3, 1)}}
MCBindingFacts == {{}, {Implements(7, 3, 2)}}
MCBaseOverrides == {{}, {Override(1, 2, 4, 1)}}
MCPayloads == {[observations |-> {}, overrides |-> {Override(1, 2, 5, 1)}],
               [observations |-> {Row(1, 2, 1, 1)}, overrides |-> {Override(1, 2, 4, 2)}],
               [observations |-> {Row(5, 6, 1, 2)}, overrides |-> {Override(2, 3, 4, 2)}],
               [observations |-> {Row(1, 2, 1, 2)}, overrides |-> {}]}

Here == 1
There == 2
Yonder == 3
MCOwner == <<Here, Here, There, Here, Yonder, Yonder, NoRepository>>

Ask(op, start, direction, max_hops) ==
    [op |-> op, start |-> start, direction |-> direction, destination |-> NoEntity, targets |-> {},
     max_hops |-> max_hops, max_paths |-> 10, rows |-> 50, steps |-> 200]
AllPaths(start, direction, max_hops) == Ask("traverse_graph", start, direction, max_hops)
Via(targets, q) == [q EXCEPT !.targets = targets]
To(e, q) == [q EXCEPT !.destination = e]
AtMostRows(n, q) == [q EXCEPT !.rows = n]
AtMostSteps(n, q) == [q EXCEPT !.steps = n]
AtMostPaths(n, q) == [q EXCEPT !.max_paths = n]

MCQueries ==
    {Ask("dependencies", 1, "outgoing", 2),
     Ask("impact", 3, "incoming", 2),
     To(6, Ask("trace", 1, "outgoing", 3)),
     AllPaths(1, "outgoing", 3),
     AtMostPaths(1, AllPaths(1, "outgoing", 4)),
     To(3, AtMostRows(4, AllPaths(1, "outgoing", 4))),
     AtMostRows(3, AllPaths(1, "outgoing", 4)),
     AtMostSteps(9, AllPaths(1, "outgoing", 4)),
     AtMostRows(3, AllPaths(6, "incoming", 4)),
     Via({There, Yonder}, AllPaths(1, "outgoing", 5)),
     Via({Here, There}, AllPaths(6, "incoming", 5)),
     Via({There, Yonder}, AtMostRows(19, AllPaths(1, "outgoing", 4))),
     Via({There}, AtMostRows(6, AllPaths(3, "outgoing", 3))),
     Via({Yonder}, AtMostRows(2, AllPaths(1, "outgoing", 4))),
     Via({Yonder}, AtMostRows(7, AllPaths(1, "outgoing", 4))),
     Via({Yonder}, AtMostSteps(12, AllPaths(1, "outgoing", 4)))}

(* Two target repositories, too few rows to acquire the whole graph, and    *)
(* the graph 1 -> 2, 4;  2 -> 3;  3 -> 4;  4 -> 5;  5 -> 3, 6.              *)
MCNothing == {{}}
MCStateFactsCut ==
    {{}, {Row(1, 2, 1, 1), Row(1, 4, 1, 1), Row(2, 3, 1, 1), Row(3, 4, 1, 1), Row(4, 5, 1, 1),
          Row(5, 3, 1, 1), Row(5, 6, 1, 1)}}
MCQueriesCut == {Via({There, Yonder}, AtMostRows(19, AllPaths(1, "outgoing", 4)))}
=============================================================================
