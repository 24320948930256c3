-------------------------- MODULE SemanticQueries --------------------------
(***************************************************************************)
(* The graph queries over the dependencies ResolvedDependencies             *)
(* materializes: dependencies, impact and trace, which look for entities    *)
(* and shortest paths, and traverse_graph, which enumerates paths           *)
(* (crates/adapters-mnestic/src/query.rs, semantic.rs and store.rs).        *)
(*                                                                         *)
(* Each first acquires rows of the database, hop by hop from the start, and *)
(* then searches what it acquired.  The acquisition of traverse_graph has   *)
(* limits and, when target repositories are given, leaves out what cannot   *)
(* be on a path through all of them; the search has to know which part of   *)
(* the graph it does not have.                                              *)
(*                                                                         *)
(* A query reads within one database transaction, so nothing is published   *)
(* for it while it runs.  Entities are numbered in the order of their       *)
(* names.  A view without a revision refuses queries; here it is one        *)
(* without rows.  What is known of an entity besides its name, the kinds of *)
(* evidence and the diagnostics of an answer are left out.                  *)
(***************************************************************************)
EXTENDS ResolvedDependencies, SequencesExt

CONSTANTS
    Owner,      \* Owner[e]: the repository of entity e, NoRepository if none
    Contracts,  \* the entities without a repository that are gRPC methods
    Queries     \* the requests

NoRepository == 0
NoEntity == 0

VARIABLES
    query,     \* the request being answered
    pc,        \* what the query does next
    hops,      \* hops of the current loop
    frontier,  \* what the current hop starts from
    visited,   \* what earlier hops started from
    todo,      \* targets whose reachability is not known yet
    found,     \* a path through all targets has been found
    left,      \* rows and steps the acquisition may still use
    acquired,  \* what the acquisition hands to the search
    answer

walk == <<hops, frontier, visited>>
queryVars == <<query, pc, walk, todo, found, left, acquired, answer>>
allVars == <<vars, queryVars>>
fixed == <<vars, query, answer>>

Nothing == [rows |-> {}, incomplete |-> {}, boundaries |-> {}, reachable |-> {},
            work_limited |-> FALSE]
NoQuery == [op |-> "none"]
NoAnswer == [op |-> "none"]

Idle ==
    /\ query = NoQuery
    /\ pc = "idle"
    /\ hops = 0
    /\ frontier = {}
    /\ visited = {}
    /\ todo = {}
    /\ found = FALSE
    /\ left = [rows |-> 0, steps |-> 0]
    /\ acquired = Nothing
    /\ answer = NoAnswer

-----------------------------------------------------------------------------
(* Rows as steps of a traversal.                                            *)

(* The implementation of a gRPC method follows the method in both           *)
(* directions.                                                              *)
contract_step(r) == r.relation = "implemented_by" /\ r.from \in Contracts

backward(r) == query.direction = "incoming" /\ ~contract_step(r)
predecessor(r) == IF backward(r) THEN r.to ELSE r.from
successor(r) == IF backward(r) THEN r.from ELSE r.to

successors(rows) == {successor(r) : r \in rows}
predecessors(rows) == {predecessor(r) : r \in rows}

(* The order of the rows of an answer: from, to, relation, evidence. *)
before(r, s) ==
    \/ r.from < s.from
    \/ r.from = s.from /\ r.to < s.to
    \/ r.from = s.from /\ r.to = s.to /\ r.relation = "calls" /\ s.relation # "calls"
    \/ edge(r) = edge(s) /\ r.evidence < s.evidence

rank(rows, r) == Cardinality({s \in rows : before(s, r)})

(* OutgoingResolvedDependencies, IncomingResolvedDependencies *)
rows_at(nodes) ==
    {r \in resolved :
        IF query.direction = "outgoing" THEN r.from \in nodes
          ELSE r.to \in nodes \/ (contract_step(r) /\ r.from \in nodes)}

-----------------------------------------------------------------------------
(* A request that is not valid is refused without an effect.                *)
validate(q) ==
    /\ q.destination = NoEntity \/ q.targets = {}
    /\ q.max_paths > 0

(* The limits of a traversal are constants of the code, and belong to the   *)
(* request here so that one model has several.                              *)
begin(q) ==
    /\ pc = "idle"
    /\ q.op = "traverse_graph" => validate(q)
    /\ query' = q
    /\ pc' = IF q.op # "traverse_graph" THEN "closure"
               ELSE IF q.targets = {} THEN "acquire" ELSE "reach"
    /\ hops' = 0
    /\ frontier' = {q.start}
    /\ visited' = {q.start}
    /\ todo' = q.targets
    /\ left' = [rows |-> q.rows, steps |-> q.steps]
    /\ UNCHANGED <<vars, found, acquired, answer>>

-----------------------------------------------------------------------------
(* closure of dependencies, impact and trace: all rows of max_hops hops and *)
(* one that leads further.                                                  *)
closure_hop ==
    LET rows == rows_at(frontier)
        next == successors(rows) \ visited
    IN /\ pc = "closure" /\ hops < query.max_hops
       /\ acquired' = [acquired EXCEPT !.rows = @ \cup rows]
       /\ visited' = visited \cup next
       /\ hops' = hops + 1
       /\ frontier' = next
       /\ pc' = IF next = {} THEN "search" ELSE "closure"
       /\ UNCHANGED <<fixed, todo, found, left>>

(* Mutant: the probe is left out. *)
MutantNoProbe ==
    /\ pc = "closure" /\ hops = query.max_hops
    /\ pc' = "search"
    /\ UNCHANGED <<fixed, walk, todo, found, left, acquired>>

boundary_probe ==
    LET beyond == {r \in rows_at(frontier) : successor(r) \notin visited}
    IN /\ pc = "closure" /\ hops = query.max_hops
       /\ acquired' = [acquired EXCEPT !.rows = @ \cup {r \in beyond : rank(beyond, r) = 0}]
       /\ pc' = "search"
       /\ UNCHANGED <<fixed, walk, todo, found, left>>

-----------------------------------------------------------------------------
(* multipath_rows without target repositories.                              *)

(* The rows that fit, without those of an edge that fits only in part. *)
fitting(rows) ==
    LET cut == {edge(r) : r \in {r \in rows : rank(rows, r) = left.rows}}
    IN {r \in rows : rank(rows, r) < left.rows /\ edge(r) \notin cut}

acquire_hop ==
    LET from == frontier \ {query.destination}
        rows == rows_at(from)
        kept == fitting(rows)
        next == successors(kept) \ visited
        limited == Cardinality(rows) > left.rows
        last == limited \/ hops = query.max_hops \/ next = {}
    IN /\ pc = "acquire" /\ from # {}
       /\ acquired' = [acquired EXCEPT
              !.rows = @ \cup kept,
              !.incomplete = IF limited THEN from \cup next ELSE {}]
       /\ left' = [left EXCEPT !.rows = @ - Cardinality(kept)]
       /\ visited' = visited \cup next
       /\ frontier' = next
       /\ hops' = hops + 1
       /\ pc' = IF last THEN "search" ELSE "acquire"
       /\ UNCHANGED <<fixed, todo, found>>

(* The destination is not expanded. *)
only_destination ==
    /\ pc = "acquire" /\ frontier \subseteq {query.destination}
    /\ pc' = "search"
    /\ UNCHANGED <<fixed, walk, todo, found, left, acquired>>

-----------------------------------------------------------------------------
(* target_reachability: the entities from which each target can be reached. *)

target == Min(todo)
reach(e) == {p[2] : p \in {p \in acquired.reachable : p[1] = e}}
with_reachable(nodes) ==
    [acquired EXCEPT !.reachable = @ \cup {<<e, target>> : e \in nodes}]

start_in_target ==
    /\ pc = "reach" /\ todo # {} /\ Owner[query.start] = target
    /\ acquired' = with_reachable({query.start})
    /\ todo' = todo \ {target}
    /\ UNCHANGED <<fixed, pc, walk, found, left>>

(* Too many rows: the traversal is given up. *)
too_many(rows) ==
    /\ Cardinality(rows) > left.rows
    /\ acquired' = [Nothing EXCEPT !.incomplete = {query.start}]
    /\ pc' = "search"
    /\ UNCHANGED <<fixed, walk, todo, found, left>>

take_rows(rows) ==
    /\ Cardinality(rows) <= left.rows
    /\ left' = [left EXCEPT !.rows = @ - Cardinality(rows)]
    /\ UNCHANGED <<fixed, todo, found>>

(* The rows into the target. *)
reverse_seed ==
    LET rows == {r \in resolved : Owner[successor(r)] = target}
        already(r) == \E s \in rows : successor(s) = predecessor(r) /\ ~before(r, s)
    IN /\ pc = "reach" /\ todo # {} /\ Owner[query.start] # target
       /\ \/ too_many(rows)
          \/ /\ take_rows(rows)
             /\ acquired' = with_reachable(predecessors(rows) \cup successors(rows))
             /\ visited' = predecessors(rows) \cup successors(rows)
             /\ frontier' = predecessors({r \in rows : ~already(r)})
             /\ hops' = 1
             /\ pc' = "reverse"

reverse_frontier ==
    LET rows == {r \in resolved : successor(r) \in frontier}
    IN /\ pc = "reverse" /\ hops < query.max_hops /\ frontier # {}
       /\ \/ too_many(rows)
          \/ /\ take_rows(rows)
             /\ acquired' = with_reachable(predecessors(rows))
             /\ visited' = visited \cup predecessors(rows)
             /\ frontier' = predecessors(rows) \ visited
             /\ hops' = hops + 1
             /\ UNCHANGED pc

target_reached ==
    /\ pc = "reverse" /\ (hops >= query.max_hops \/ frontier = {})
    /\ todo' = todo \ {target}
    /\ pc' = "reach"
    /\ UNCHANGED <<fixed, walk, found, left, acquired>>

-----------------------------------------------------------------------------
(* filtered_multipath_rows: the states of a traversal are entities with the *)
(* targets visited on the way and the repository that completed them.       *)

TraversalState(e, targets) ==
    [entity |-> e, targets |-> targets,
     completion |-> IF targets = query.targets THEN Owner[e] ELSE NoRepository]

missing(s) == query.targets \ s.targets

(* Some target is out of reach: there is nothing to acquire. *)
start_forward ==
    LET start == TraversalState(query.start, {Owner[query.start]} \cap query.targets)
        possible == missing(start) \subseteq reach(query.start)
    IN /\ pc = "reach" /\ todo = {}
       /\ hops' = 0
       /\ frontier' = {start}
       /\ visited' = {start}
       /\ found' = (possible /\ start.completion # NoRepository)
       /\ pc' = IF possible THEN "forward" ELSE "search"
       /\ UNCHANGED <<fixed, todo, left, acquired>>

(* filtered_forward: the rows at a state that may lead to what is missing,  *)
(* or that stay in the repository that completed the targets.               *)
allowed(s) ==
    {r \in resolved :
        /\ predecessor(r) = s.entity
        /\ IF s.completion = NoRepository THEN missing(s) \subseteq reach(successor(r))
             ELSE Owner[successor(r)] \in {s.completion, NoRepository}}

leaves_repository(s) ==
    /\ s.completion # NoRepository
    /\ \E r \in resolved : /\ predecessor(r) = s.entity
                           /\ Owner[successor(r)] \notin {s.completion, NoRepository}

(* The states row r leads to from s, none if it is not to be followed. *)
advance(s, r) ==
    LET e == successor(r)
        next == IF s.completion = NoRepository
                  THEN TraversalState(e, s.targets \cup ({Owner[e]} \cap query.targets))
                  ELSE [s EXCEPT !.entity = e]
    IN {t \in {next} : /\ predecessor(r) = s.entity
                       /\ s.completion # NoRepository => Owner[e] = s.completion
                       /\ missing(t) \subseteq reach(e)}

completes(s, r) == \E t \in advance(s, r) : s.completion # t.completion

(* Mutant: an entity is expanded only once, whatever was visited before it. *)
MutantVisitedEntities(states) ==
    {t \in states : \A s \in visited : s.entity # t.entity}

unvisited(states) == states \ visited

entities(states) == {s.entity : s \in states}

(* Without a path through all targets nothing is handed to the search. *)
handed_over(a, complete) ==
    IF complete THEN a ELSE [a EXCEPT !.rows = {}, !.boundaries = {}]

(* Whether the steps run out before or after a row that completes the       *)
(* targets depends on the order of the states, which is left out.           *)
forward_hop ==
    LET rows == UNION {allowed(s) : s \in frontier}
        crossed == entities({s \in frontier : leaves_repository(s)})
        steps == Cardinality(rows) * Cardinality(frontier)
        next == unvisited(UNION {advance(s, r) : s \in frontier, r \in rows})
        complete == \E s \in frontier, r \in rows : completes(s, r)
        here == [acquired EXCEPT !.boundaries = @ \cup crossed]
        limited == [here EXCEPT !.incomplete = entities(frontier)]
    IN /\ pc = "forward" /\ frontier # {}
       /\ UNCHANGED <<fixed, todo>>
       /\ \/ /\ Cardinality(rows) > left.rows
             /\ acquired' = handed_over(limited, found)
             /\ pc' = "search"
             /\ UNCHANGED <<walk, found, left>>
          \/ /\ Cardinality(rows) <= left.rows /\ steps > left.steps
             /\ found' \in {found, found \/ complete}
             /\ acquired' = handed_over([limited EXCEPT !.work_limited = TRUE], found')
             /\ pc' = "search"
             /\ UNCHANGED <<walk, left>>
          \/ /\ Cardinality(rows) <= left.rows /\ steps <= left.steps
             /\ left' = [rows |-> left.rows - Cardinality(rows), steps |-> left.steps - steps]
             /\ found' = (found \/ complete)
             /\ hops' = hops + 1
             /\ frontier' = next
             /\ visited' = visited \cup next
             /\ LET a == [here EXCEPT !.rows = @ \cup rows]
                    last == hops = query.max_hops \/ next = {}
                IN /\ acquired' = IF last THEN handed_over(a, found') ELSE a
                   /\ pc' = IF last THEN "search" ELSE "forward"

-----------------------------------------------------------------------------
(* PathSearch.  The search is [paths, reasons, steps].                      *)

(* The repository in which the last missing target was visited. *)
completion(nodes) ==
    LET complete == {i \in DOMAIN nodes : query.targets \subseteq {Owner[nodes[j]] : j \in 1..i}}
    IN IF query.targets = {} \/ complete = {} THEN NoRepository ELSE Owner[nodes[Min(complete)]]

can_follow(nodes, e) ==
    LET c == completion(nodes)
    IN IF c # NoRepository THEN Owner[e] \in {c, NoRepository}
         ELSE query.targets \ ({Owner[n] : n \in ToSet(nodes)} \cup {Owner[e]}) \subseteq reach(e)

(* Parallel edges in an order of their own. *)
neighbours(n) ==
    SetToSortSeq({<<successor(r), edge(r)>> : r \in {r \in acquired.rows : predecessor(r) = n}},
        LAMBDA a, b : a[1] < b[1] \/ (a[1] = b[1] /\ a[2][2] = "calls" /\ b[2][2] # "calls"))

with_reason(s, reason) == [s EXCEPT !.reasons = @ \cup {reason}]
stopped(s) == s.reasons \cap {"max_paths", "work_limit"} # {}

emit(s, nodes, edges, termination) ==
    IF Len(s.paths) = query.max_paths THEN with_reason(s, "max_paths")
      ELSE [s EXCEPT !.paths =
               Append(@, [nodes |-> nodes, edges |-> edges, termination |-> termination])]

RECURSIVE visit(_, _, _)

(* One neighbour in the loop over all. *)
follow(s, nodes, edges, n) ==
    IF stopped(s) THEN s
      ELSE IF s.steps = query.steps THEN with_reason(s, "work_limit")
      ELSE LET t == [s EXCEPT !.steps = @ + 1]
           IN IF n[1] \in ToSet(nodes) THEN t
                ELSE visit(t, Append(nodes, n[1]), Append(edges, n[2]))

(* The end of a path, or its extensions. *)
expand(s, nodes, edges, at_boundary) ==
    LET node == Last(nodes)
        followed == SelectSeq(neighbours(node), LAMBDA n : can_follow(nodes, n[1]))
        t == [s EXCEPT !.steps = @ + Len(followed)]
        extended == \E n \in ToSet(followed) : n[1] \notin ToSet(nodes)
        reported == /\ query.destination = NoEntity
                    /\ query.targets = {} \/ completion(nodes) # NoRepository
    IN IF Len(followed) > query.steps - s.steps THEN with_reason(s, "work_limit")
         ELSE IF ~extended
           THEN IF reported /\ node \notin acquired.incomplete /\ ~at_boundary
                  THEN emit(t, nodes, edges, IF followed = <<>> THEN "leaf" ELSE "cycle")
                  ELSE t
         ELSE IF Len(edges) = query.max_hops
           THEN LET u == with_reason(t, "max_hops")
                IN IF reported THEN emit(u, nodes, edges, "max_hops") ELSE u
         ELSE FoldLeft(LAMBDA u, n : follow(u, nodes, edges, n), t, followed)

visit(s, nodes, edges) ==
    LET node == Last(nodes)
        t == [s EXCEPT !.steps = @ + 1]
        complete == completion(nodes) # NoRepository
        known == node \notin acquired.incomplete
        at_boundary == complete /\ known /\ node \in acquired.boundaries
        u == IF at_boundary THEN emit(t, nodes, edges, "repository_boundary") ELSE t
    IN IF stopped(s) THEN s
         ELSE IF s.steps = query.steps THEN with_reason(s, "work_limit")
         ELSE IF node = query.destination THEN emit(t, nodes, edges, "destination")
         ELSE IF complete /\ Owner[node] = NoRepository
           THEN IF known THEN emit(t, nodes, edges, "repository_boundary") ELSE t
         ELSE IF stopped(u) THEN u
         ELSE expand(u, nodes, edges, at_boundary)

(* The steps of the acquisition running out is reported as such. *)
reported_reasons(reasons) ==
    IF acquired.work_limited /\ "acquisition_limit" \in reasons
      THEN (reasons \ {"acquisition_limit"}) \cup {"work_limit"} ELSE reasons

traverse_graph ==
    LET first == [paths |-> <<>>, steps |-> 0,
                  reasons |-> IF acquired.incomplete = {} THEN {} ELSE {"acquisition_limit"}]
        s == visit(first, <<query.start>>, <<>>)
        nodes == {query.start} \cup UNION {ToSet(p.nodes) : p \in ToSet(s.paths)}
    IN [op |-> "traverse_graph", paths |-> s.paths, reasons |-> reported_reasons(s.reasons),
        rows |-> {r \in acquired.rows : r.from \in nodes /\ r.to \in nodes}]

-----------------------------------------------------------------------------
(* distances and shortest_path over what closure acquired.                  *)

(* The entities at most n hops from the start along some rows. *)
ball(rows, n) ==
    LET upto[i \in 0..n] ==
            IF i = 0 THEN {query.start}
              ELSE upto[i - 1] \cup successors({r \in rows : predecessor(r) \in upto[i - 1]})
    IN upto[n]

distances(rows) ==
    [e \in ball(rows, query.max_hops) |->
        Min({n \in 0..query.max_hops : e \in ball(rows, n)})]

further(rows) == ball(rows, query.max_hops + 1) # ball(rows, query.max_hops)

(* A trace is its length here; one that was found is not truncated. *)
closure ==
    LET d == distances(acquired.rows)
    IN IF query.op # "trace"
         THEN [op |-> query.op, distances |-> d, truncated |-> further(acquired.rows)]
       ELSE IF query.destination \in DOMAIN d
         THEN [op |-> "trace", distances |-> (query.destination :> d[query.destination]),
               truncated |-> FALSE]
       ELSE [op |-> "trace", distances |-> <<>>, truncated |-> further(acquired.rows)]

search ==
    /\ pc = "search"
    /\ answer' = IF query.op = "traverse_graph" THEN traverse_graph ELSE closure
    /\ pc' = "answered"
    /\ UNCHANGED <<vars, query, walk, todo, found, left, acquired>>

(* The answer is sent, or the acquisition of a traversal takes too long. *)
reply ==
    /\ \/ pc = "answered"
       \/ pc \in {"acquire", "reach", "reverse", "forward"}
    /\ query' = NoQuery
    /\ pc' = "idle"
    /\ hops' = 0
    /\ frontier' = {}
    /\ visited' = {}
    /\ todo' = {}
    /\ found' = FALSE
    /\ left' = [rows |-> 0, steps |-> 0]
    /\ acquired' = Nothing
    /\ answer' = NoAnswer
    /\ UNCHANGED vars

Querying ==
    \/ \E q \in Queries : begin(q)
    \/ closure_hop \/ boundary_probe
    \/ acquire_hop \/ only_destination
    \/ start_in_target \/ reverse_seed \/ reverse_frontier \/ target_reached
    \/ start_forward \/ forward_hop
    \/ search \/ reply

QueriesInit == Init /\ Idle

(* A transaction reads what was published when it began. *)
QueriesNext ==
    \/ pc = "idle" /\ Next /\ UNCHANGED queryVars
    \/ Querying

QueriesSpec == QueriesInit /\ [][QueriesNext]_allVars

-----------------------------------------------------------------------------
(* Properties.                                                              *)

(* The steps from n in the whole graph. *)
Steps(n) == {<<successor(r), edge(r)>> : r \in {r \in resolved : predecessor(r) = n}}

(* A path ends at the destination, and stays in the repository that         *)
(* completed the targets up to the first entity without a repository.       *)
Legal(nodes) ==
    LET c == completion(nodes)
    IN {s \in Steps(Last(nodes)) :
           /\ Last(nodes) # query.destination
           /\ c # NoRepository => /\ Owner[Last(nodes)] # NoRepository
                                  /\ Owner[s[1]] \in {c, NoRepository}}

New(nodes) == {s \in Legal(nodes) : s[1] \notin ToSet(nodes)}

(* The simple paths of at most max_hops hops, as nodes and edges. *)
SimplePaths ==
    LET upto[i \in 0..query.max_hops] ==
            IF i = 0 THEN {<< <<query.start>>, <<>> >>}
              ELSE upto[i - 1] \cup
                   UNION {{<<Append(p[1], s[1]), Append(p[2], s[2])>> : s \in New(p[1])} :
                             p \in upto[i - 1]}
    IN upto[query.max_hops]

(* How a path of the answer may end, nothing if it does not belong there.   *)
Terminations(p) ==
    LET c == completion(p[1])
        outward == \E s \in Steps(Last(p[1])) : Owner[s[1]] \notin {c, NoRepository}
        end == IF New(p[1]) # {} THEN IF Len(p[2]) = query.max_hops THEN {"max_hops"} ELSE {}
                 ELSE IF Legal(p[1]) = {} THEN {"leaf"} ELSE {"cycle"}
    IN IF query.destination # NoEntity
         THEN IF Last(p[1]) = query.destination THEN {"destination"} ELSE {}
       ELSE IF query.targets = {} THEN end
       ELSE IF c = NoRepository THEN {}
       ELSE IF Owner[Last(p[1])] = NoRepository THEN {"repository_boundary"}
       ELSE IF outward THEN {"repository_boundary"} \cup (end \cap {"max_hops"}) ELSE end

Paths ==
    UNION {{[nodes |-> p[1], edges |-> p[2], termination |-> t] : t \in Terminations(p)} :
              p \in SimplePaths}

Traversed == pc = "answered" /\ query.op = "traverse_graph"

(* Every path of an answer is a path of the graph that ends there in the    *)
(* way reported, whatever was not acquired, and the evidence of an edge is  *)
(* all there is (query-api/spec.md: "an incompletely acquired frontier is   *)
(* never presented as a leaf, cycle, or repository-boundary termination",   *)
(* "an edge whose evidence crosses the acquisition cap is omitted").        *)
PathsAreReal ==
    Traversed =>
        /\ ToSet(answer.paths) \subseteq Paths
        /\ \A r \in answer.rows : \A s \in resolved : edge(s) = edge(r) => s \in answer.rows

(* An answer whose acquisition was not cut, or that asks for one target     *)
(* repository at most, has such paths only; each is there once, all are     *)
(* there when nothing but max_hops cuts the answer, and a reason for        *)
(* truncation that is given is one.  With more targets PathsAreReal does    *)
(* not hold when the acquisition is cut.                                    *)
TraversalIsExact ==
    Traversed =>
        /\ answer.reasons \subseteq {"max_hops", "max_paths"}
               \/ Cardinality(query.targets) <= 1
           => PathsAreReal
        /\ Cardinality(ToSet(answer.paths)) = Len(answer.paths)
        /\ answer.reasons \subseteq {"max_hops"} => ToSet(answer.paths) = Paths
        /\ "max_paths" \in answer.reasons => Cardinality(Paths) > query.max_paths
        /\ "max_hops" \in answer.reasons =>
               \E p \in SimplePaths : Len(p[2]) = query.max_hops /\ New(p[1]) # {}

(* dependencies and impact return every entity within max_hops with its     *)
(* distance, trace a shortest path if there is one, and truncation is       *)
(* reported exactly when the graph goes on (query-api/spec.md: "the         *)
(* boundary probe needed to report exact truncation").                      *)
ClosureIsExact ==
    pc = "answered" /\ query.op # "traverse_graph" =>
        LET d == distances(resolved)
            wanted == IF query.op = "trace" THEN {query.destination} ELSE DOMAIN d
            hit == query.op = "trace" /\ query.destination \in DOMAIN d
        IN /\ answer.distances = [e \in wanted \cap DOMAIN d |-> d[e]]
           /\ answer.truncated = (further(resolved) /\ ~hit)
=============================================================================
