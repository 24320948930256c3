------------------------ MODULE ResolvedDependencies ------------------------
(***************************************************************************)
(* The dependency edges of a view are materialized in one relation,         *)
(* analysis_resolved_dependency, which queries read.  What belongs in it is *)
(* defined by Datalog rules over everything the current revision selects    *)
(* (rules/core/direct.datalog); what a publication writes into it is an     *)
(* incremental update for the sources it believes to be affected, computed  *)
(* by a second set of rules (rules/core/outgoing_*.datalog).  The winners   *)
(* among competing enrichments are maintained incrementally too.  This      *)
(* module models both computations and every operation that drives them in  *)
(* crates/adapters-mnestic/src/storage.rs, for one view.                    *)
(*                                                                         *)
(* A row has a source, a relation, a target, an evidence and a confidence;  *)
(* only dependency relations matter here, and provenances are left out.  A  *)
(* state or a shard version is the hash of its rows, so it is modelled by   *)
(* the rows.                                                                *)
(***************************************************************************)
EXTENDS Naturals, FiniteSets, FiniteSetsExt

CONSTANTS
    Owners,         \* the owners of fact shards
    Analyzers,      \* 1..n: enrichment analyzers, by the order of their names
    StateFacts,     \* the row sets a repository state may hold
    ShardFacts,     \* the row sets a fact shard may hold
    BindingFacts,   \* the row sets the resolution of gRPC bindings may yield
    BaseOverrides,  \* the override sets a publication may carry
    Payloads,       \* the payloads an enrichment may publish
    BulkThreshold   \* ENRICHMENT_BULK_REFRESH_OWNER_THRESHOLD

VARIABLES
    state,               \* rows of the selected repository state
    shards,              \* owner -> rows of the selected shard version
    bindings,            \* analysis_revision_observation
    overrides,           \* analysis_revision_dependency_override
    enrichments,         \* analyzer -> the selected payload, or NoPayload
    observation_winner,  \* analysis_enrichment_observation_selection
    override_winner,     \* analysis_enrichment_override_selection
    resolved             \* analysis_resolved_dependency

inputs == <<state, shards, bindings, overrides, enrichments>>
vars == <<inputs, observation_winner, override_winner, resolved>>

NoPayload == [observations |-> {}, overrides |-> {}]

edge(row) == <<row.from, row.relation, row.to>>
key(row) == <<edge(row), row.evidence>>

(* An override, of the base or of an enrichment, is keyed by its source,    *)
(* relation and unresolved target.                                          *)
override_key(o) == <<o.from, o.relation, o.unresolved>>
resolution(o) == [from |-> o.from, relation |-> o.relation, to |-> o.resolved,
                  evidence |-> o.evidence, confidence |-> o.confidence]

Init ==
    /\ state = {}
    /\ shards = [o \in Owners |-> {}]
    /\ bindings = {}
    /\ overrides = {}
    /\ enrichments = [a \in Analyzers |-> NoPayload]
    /\ observation_winner = {}
    /\ override_winner = {}
    /\ resolved = {}

-----------------------------------------------------------------------------
(* Competing enrichments: the contribution with the highest confidence wins *)
(* and the first analyzer by name among equals.  A winner is recorded as    *)
(* the key and the analyzer.                                                *)

observations_of(e, a, k) == {r \in e[a].observations : key(r) = k}
overrides_of(e, a, k) == {o \in e[a].overrides : override_key(o) = k}

(* smallest_by [-confidence, analyzer]. *)
better(r, a, s, b) == r.confidence > s.confidence \/ (r.confidence = s.confidence /\ a < b)

winning_observation(e, k) ==
    {<<k, a>> : a \in {a \in Analyzers :
        \E r \in observations_of(e, a, k) :
            \A b \in Analyzers \ {a} : \A s \in observations_of(e, b, k) : better(r, a, s, b)}}

winning_override(e, k) ==
    {<<k, a>> : a \in {a \in Analyzers :
        \E r \in overrides_of(e, a, k) :
            \A b \in Analyzers \ {a} : \A s \in overrides_of(e, b, k) : better(r, a, s, b)}}

observation_keys(payloads) == {key(r) : r \in UNION {p.observations : p \in payloads}}
override_keys(payloads) == {override_key(o) : o \in UNION {p.overrides : p \in payloads}}

all_payloads(e) == {e[a] : a \in Analyzers}

(* rebuild_enrichment_fact_selections *)
rebuilt_observations(e) == UNION {winning_observation(e, k) : k \in observation_keys(all_payloads(e))}
rebuilt_overrides(e) == UNION {winning_override(e, k) : k \in override_keys(all_payloads(e))}

(* The keys the changed owners contribute lose their winner and are decided *)
(* again among the owners the new revision selects.                         *)
refreshed_observations(e, changed) ==
    LET affected == observation_keys(changed)
    IN {w \in observation_winner : w[1] \notin affected}
           \cup UNION {winning_observation(e, k) : k \in affected}

refreshed_overrides(e, changed) ==
    LET affected == override_keys(changed)
    IN {w \in override_winner : w[1] \notin affected}
           \cup UNION {winning_override(e, k) : k \in affected}

(* Mutant: only the losers are removed; the keys are not decided again. *)
MutantRefreshDropsOnly(e, changed) ==
    /\ observation_winner' = {w \in observation_winner : w[1] \notin observation_keys(changed)}
    /\ override_winner' = refreshed_overrides(e, changed)

(* Many changed owners rebuild all winners. *)
refresh_enrichment_fact_selections(e, changed) ==
    IF Cardinality(changed) >= BulkThreshold
      THEN /\ observation_winner' = rebuilt_observations(e)
           /\ override_winner' = rebuilt_overrides(e)
      ELSE /\ observation_winner' = refreshed_observations(e, changed)
           /\ override_winner' = refreshed_overrides(e, changed)

-----------------------------------------------------------------------------
(* direct.datalog, over a whole database d: the reference.                  *)

Database == [state |-> state, shards |-> shards, bindings |-> bindings, overrides |-> overrides,
             enrichments |-> enrichments, observation_winner |-> observation_winner,
             override_winner |-> override_winner]

shard_rows(d) == UNION {d.shards[o] : o \in Owners}

(* Rows of the selected payloads that their winners pick. *)
enrichment_observation(d) ==
    UNION {observations_of(d.enrichments, w[2], w[1]) : w \in d.observation_winner}
enrichment_dependency_override(d) ==
    UNION {overrides_of(d.enrichments, w[2], w[1]) : w \in d.override_winner}

baseline_observation(d) == {key(r) : r \in d.state \cup shard_rows(d) \cup d.bindings}

base_keys(d) == {override_key(o) : o \in d.overrides}

effective_override(d) ==
    d.overrides \cup {o \in enrichment_dependency_override(d) : override_key(o) \notin base_keys(d)}

overridden(d) ==
    {k \in baseline_observation(d) :
        \E o \in effective_override(d) : override_key(o) = k[1]}

direct(d) ==
    {r \in d.state \cup shard_rows(d) : key(r) \notin overridden(d)}
    \cup {resolution(o) : o \in d.overrides}
    \cup d.bindings
    \cup {resolution(o) : o \in
             {o \in enrichment_dependency_override(d) :
                 /\ override_key(o) \notin base_keys(d)
                 /\ \E k \in baseline_observation(d) : k[1] = override_key(o)}}
    \cup {r \in enrichment_observation(d) :
             key(r) \notin baseline_observation(d) \cup overridden(d)}

(* One row per key, with the highest confidence. *)
materialized(rows) ==
    {r \in rows : \A s \in rows : key(s) = key(r) => s.confidence <= r.confidence}

(* rebuild_resolved_dependencies *)
rebuild_resolved_dependencies(d) == resolved' = materialized(direct(d))

-----------------------------------------------------------------------------
(* The incremental rules: everything is restricted to a frontier of         *)
(* sources, and the edges of shards are filtered by the overrides alone.    *)

sources(rows) == {r.from : r \in rows}
within(rows, frontier) == {r \in rows : r.from \in frontier}

selected_edge(d, frontier) ==
    LET baseline == {k \in baseline_observation(d) : k[1][1] \in frontier}
        base == within(d.overrides, frontier)
        enriched == {o \in within(enrichment_dependency_override(d), frontier) :
                        override_key(o) \notin {override_key(b) : b \in base}}
        replaced == {k \in baseline :
                        \E o \in base \cup enriched : override_key(o) = k[1]}
    IN {r \in within(d.state, frontier) : key(r) \notin replaced}
       \cup {resolution(o) : o \in base}
       \cup within(d.bindings, frontier)
       \cup {resolution(o) : o \in {o \in enriched :
                \E k \in baseline : k[1] = override_key(o)}}
       \cup {r \in within(enrichment_observation(d), frontier) :
                key(r) \notin baseline \cup replaced}

shard_edge(d, frontier) == within(shard_rows(d), frontier)

outgoing_override(d, frontier) == within(effective_override(d), frontier)

(* No affected source, no work; otherwise the rows of the affected sources  *)
(* are replaced.                                                            *)
refresh_resolved_dependencies(d, affected) ==
    LET replaced == {override_key(o) : o \in outgoing_override(d, affected)}
        edges == selected_edge(d, affected)
                     \cup {r \in shard_edge(d, affected) : edge(r) \notin replaced}
    IN resolved' = {r \in resolved : r.from \notin affected} \cup materialized(edges)

-----------------------------------------------------------------------------
(* The operations.  Each leaves the database it writes in Database'.        *)

(* Sources of an enrichment's contributions. *)
enrichment_dependency_sources(payloads) ==
    UNION {sources(p.observations) \cup sources(p.overrides) : p \in payloads}

(* Sources of the shards whose version changes, before and after. *)
shard_sources(next) ==
    UNION {sources(shards[o]) \cup sources(next[o]) : o \in {o \in Owners : shards[o] # next[o]}}

(* Mutant: the overrides of the replaced revision are forgotten. *)
MutantForgetOverrides == sources(bindings)

(* Sources of the bindings and overrides of the revision being replaced. *)
current_revision_dependency_sources == sources(bindings) \cup sources(overrides)

changed_repository_dependency_sources(next) ==
    IF next = state THEN {} ELSE sources(state) \cup sources(next)

(* Selections whose analyzer has no input any more are dropped. *)
without(obsolete) == [a \in Analyzers |-> IF a \in obsolete THEN NoPayload ELSE enrichments[a]]
dropped(obsolete) == {enrichments[a] : a \in obsolete} \ {NoPayload}

(* A sharded publication: new facts, the same enrichments but for the       *)
(* obsolete ones, and an incremental update.                                *)
publish_verified_sharded(s, h, b, o, obsolete) ==
    /\ state' = s
    /\ shards' = h
    /\ bindings' = b
    /\ overrides' = o
    /\ enrichments' = without(obsolete)
    /\ refresh_enrichment_fact_selections(enrichments', dropped(obsolete))
    /\ refresh_resolved_dependencies(Database',
           shard_sources(h)
               \cup current_revision_dependency_sources
               \cup changed_repository_dependency_sources(s)
               \cup sources(b)
               \cup sources(o)
               \cup enrichment_dependency_sources(dropped(obsolete)))

(* A publication without shards rebuilds everything. *)
publish(s, b, o, obsolete) ==
    /\ state' = s
    /\ shards' = [w \in Owners |-> {}]
    /\ bindings' = b
    /\ overrides' = o
    /\ enrichments' = without(obsolete)
    /\ refresh_enrichment_fact_selections(enrichments', dropped(obsolete))
    /\ rebuild_resolved_dependencies(Database')

(* Replacing only the inputs of the current revision drops obsolete         *)
(* selections (refresh_semantic_noop and ensure_revision_inputs).           *)
reconcile_obsolete_enrichments(obsolete) ==
    /\ dropped(obsolete) # {}
    /\ enrichments' = without(obsolete)
    /\ refresh_enrichment_fact_selections(enrichments', dropped(obsolete))
    /\ UNCHANGED <<state, shards, bindings, overrides>>
    /\ refresh_resolved_dependencies(Database', enrichment_dependency_sources(dropped(obsolete)))

(* An enrichment replaces the payload its analyzer had selected. *)
publish_enrichment(a, p) ==
    LET changed == {enrichments[a], p} \ {NoPayload}
    IN /\ enrichments[a] # p
       /\ enrichments' = [enrichments EXCEPT ![a] = p]
       /\ refresh_enrichment_fact_selections(enrichments', changed)
       /\ UNCHANGED <<state, shards, bindings, overrides>>
       /\ refresh_resolved_dependencies(Database', enrichment_dependency_sources(changed))

(* The view is deleted with everything it holds. *)
delete_analysis_view ==
    /\ state' = {}
    /\ shards' = [o \in Owners |-> {}]
    /\ bindings' = {}
    /\ overrides' = {}
    /\ enrichments' = [a \in Analyzers |-> NoPayload]
    /\ observation_winner' = {}
    /\ override_winner' = {}
    /\ resolved' = {}

Next ==
    \/ \E s \in StateFacts, h \in [Owners -> ShardFacts], b \in BindingFacts, o \in BaseOverrides,
          obsolete \in SUBSET Analyzers :
           publish_verified_sharded(s, h, b, o, obsolete)
    \/ \E s \in StateFacts, b \in BindingFacts, o \in BaseOverrides, obsolete \in SUBSET Analyzers :
           publish(s, b, o, obsolete)
    \/ \E obsolete \in SUBSET Analyzers : reconcile_obsolete_enrichments(obsolete)
    \/ \E a \in Analyzers, p \in Payloads : publish_enrichment(a, p)
    \/ delete_analysis_view

Spec == Init /\ [][Next]_vars

-----------------------------------------------------------------------------
(* Properties.                                                              *)

(* The winners kept incrementally are those a rebuild from the selected     *)
(* payloads would choose, whatever was published before.                    *)
WinnersAreCurrent ==
    /\ observation_winner = rebuilt_observations(enrichments)
    /\ override_winner = rebuilt_overrides(enrichments)

(* The materialized edges are exactly those the rules derive from what the  *)
(* current revision selects: no affected source is missed and no edge of a  *)
(* withdrawn fact, override or enrichment survives.                         *)
ResolvedIsDirect == resolved = materialized(direct(Database))
=============================================================================
