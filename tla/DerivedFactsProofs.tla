------------------------- MODULE DerivedFactsProofs -------------------------
(***************************************************************************)
(* What is derived incrementally is what a derivation from scratch gives.  *)
(* The first part is about ResolvedDependencies, for any facts, overrides, *)
(* payloads, shard owners and analyzers: the incremental rules yield what  *)
(* a rebuild from everything the revision selects would yield.  The second *)
(* is about Indexer, for any repositories, contents and builds: what is    *)
(* cached is a function of its key, so an analysis from the caches is one  *)
(* without them.                                                           *)
(***************************************************************************)
EXTENDS Indexer, ResolvedDependencies, TLAPS


-----------------------------------------------------------------------------
(* Winners.                                                                 *)

(* Analyzer a wins key k among the contributions of e. *)
WinsObservation(e, k, a) ==
    /\ a \in Analyzers
    /\ \E r \in observations_of(e, a, k) :
           \A b \in Analyzers \ {a} : \A s \in observations_of(e, b, k) : better(r, a, s, b)
WinsOverride(e, k, a) ==
    /\ a \in Analyzers
    /\ \E r \in overrides_of(e, a, k) :
           \A b \in Analyzers \ {a} : \A s \in overrides_of(e, b, k) : better(r, a, s, b)

(* The winner of a key is the analyzer that WinsObservation says.           *)
LEMMA WinningObservation ==
    ASSUME NEW e, NEW k, NEW w
    PROVE  w \in winning_observation(e, k) <=> \E a : w = <<k, a>> /\ WinsObservation(e, k, a)
  BY DEF winning_observation, WinsObservation

(* The winner of an override's key is the analyzer that WinsOverride says.  *)
LEMMA WinningOverride ==
    ASSUME NEW e, NEW k, NEW w
    PROVE  w \in winning_override(e, k) <=> \E a : w = <<k, a>> /\ WinsOverride(e, k, a)
  BY DEF winning_override, WinsOverride

(* A winner has contributed its key, so a rebuild over the contributed keys *)
(* is one over all keys.                                                    *)
LEMMA RebuiltObservation ==
    ASSUME NEW e, NEW w
    PROVE  w \in rebuilt_observations(e) <=> \E k, a : w = <<k, a>> /\ WinsObservation(e, k, a)
<1>1. ASSUME NEW k, NEW a, WinsObservation(e, k, a)
      PROVE  k \in observation_keys(all_payloads(e))
  BY <1>1 DEF WinsObservation, observations_of, observation_keys, all_payloads
<1>. QED BY <1>1, WinningObservation DEF rebuilt_observations

(* A rebuilt winner of overrides is a winner for its key.                   *)
LEMMA RebuiltOverride ==
    ASSUME NEW e, NEW w
    PROVE  w \in rebuilt_overrides(e) <=> \E k, a : w = <<k, a>> /\ WinsOverride(e, k, a)
<1>1. ASSUME NEW k, NEW a, WinsOverride(e, k, a)
      PROVE  k \in override_keys(all_payloads(e))
  BY <1>1 DEF WinsOverride, overrides_of, override_keys, all_payloads
<1>. QED BY <1>1, WinningOverride DEF rebuilt_overrides

(* The payloads that differ between e and f are among the changed ones. *)
Covers(changed, e, f) ==
    \A a \in Analyzers : e[a] # f[a] => /\ e[a] \in changed \cup {NoPayload}
                                        /\ f[a] \in changed \cup {NoPayload}

(* A key no changed payload contributes is contributed as before. *)
LEMMA UnaffectedObservation ==
    ASSUME NEW changed, NEW e, NEW f, Covers(changed, e, f),
           NEW k, k \notin observation_keys(changed), NEW a \in Analyzers
    PROVE  observations_of(e, a, k) = observations_of(f, a, k)
  BY DEF Covers, observation_keys, observations_of, NoPayload

(* Overrides of a key that did not change are those there were.             *)
LEMMA UnaffectedOverride ==
    ASSUME NEW changed, NEW e, NEW f, Covers(changed, e, f),
           NEW k, k \notin override_keys(changed), NEW a \in Analyzers
    PROVE  overrides_of(e, a, k) = overrides_of(f, a, k)
  BY DEF Covers, override_keys, overrides_of, NoPayload

(* Who wins a key depends on the observations of that key only.             *)
LEMMA SameObservationWins ==
    ASSUME NEW e, NEW f, NEW k, NEW a,
           \A b \in Analyzers : observations_of(e, b, k) = observations_of(f, b, k)
    PROVE  WinsObservation(e, k, a) <=> WinsObservation(f, k, a)
  BY DEF WinsObservation

(* Who wins an override's key depends on the overrides of that key only.    *)
LEMMA SameOverrideWins ==
    ASSUME NEW e, NEW f, NEW k, NEW a,
           \A b \in Analyzers : overrides_of(e, b, k) = overrides_of(f, b, k)
    PROVE  WinsOverride(e, k, a) <=> WinsOverride(f, k, a)
  BY DEF WinsOverride

(* Deciding the affected keys again is as good as deciding all of them. *)
LEMMA RefreshedObservations ==
    ASSUME observation_winner = rebuilt_observations(enrichments),
           NEW e, NEW changed, Covers(changed, enrichments, e)
    PROVE  refreshed_observations(e, changed) = rebuilt_observations(e)
<1>. DEFINE affected == observation_keys(changed)
<1>1. ASSUME NEW w
      PROVE  w \in refreshed_observations(e, changed) <=> w \in rebuilt_observations(e)
  <2>1. w \in refreshed_observations(e, changed) <=>
            \/ w \in rebuilt_observations(enrichments) /\ w[1] \notin affected
            \/ \E k \in affected : w \in winning_observation(e, k)
    BY DEF refreshed_observations
  <2>2. ASSUME NEW k, NEW a, k \notin affected
        PROVE  WinsObservation(enrichments, k, a) <=> WinsObservation(e, k, a)
    BY <2>2, UnaffectedObservation, SameObservationWins
  <2>. HIDE DEF affected
  <2>. QED BY <2>1, <2>2, WinningObservation, RebuiltObservation
<1>. QED BY <1>1 DEF refreshed_observations, rebuilt_observations

(* Refreshing the changed keys of the overrides yields what rebuilding all  *)
(* yields.                                                                  *)
LEMMA RefreshedOverrides ==
    ASSUME override_winner = rebuilt_overrides(enrichments),
           NEW e, NEW changed, Covers(changed, enrichments, e)
    PROVE  refreshed_overrides(e, changed) = rebuilt_overrides(e)
<1>. DEFINE affected == override_keys(changed)
<1>1. ASSUME NEW w
      PROVE  w \in refreshed_overrides(e, changed) <=> w \in rebuilt_overrides(e)
  <2>1. w \in refreshed_overrides(e, changed) <=>
            \/ w \in rebuilt_overrides(enrichments) /\ w[1] \notin affected
            \/ \E k \in affected : w \in winning_override(e, k)
    BY DEF refreshed_overrides
  <2>2. ASSUME NEW k, NEW a, k \notin affected
        PROVE  WinsOverride(enrichments, k, a) <=> WinsOverride(e, k, a)
    BY <2>2, UnaffectedOverride, SameOverrideWins
  <2>. HIDE DEF affected
  <2>. QED BY <2>1, <2>2, WinningOverride, RebuiltOverride
<1>. QED BY <1>1 DEF refreshed_overrides, rebuilt_overrides

(* Whichever way the winners are refreshed, they are those of a rebuild.    *)
LEMMA RefreshIsRebuild ==
    ASSUME WinnersAreCurrent, NEW e, NEW changed, Covers(changed, enrichments, e),
           refresh_enrichment_fact_selections(e, changed)
    PROVE  /\ observation_winner' = rebuilt_observations(e)
           /\ override_winner' = rebuilt_overrides(e)
  BY RefreshedObservations, RefreshedOverrides
  DEF refresh_enrichment_fact_selections, WinnersAreCurrent

-----------------------------------------------------------------------------
(* Restriction to sources.                                                  *)

outside(rows, frontier) == {r \in rows : r.from \notin frontier}

(* The key of an observation begins with its edge, and the edge with its    *)
(* source.                                                                  *)
LEMMA KeySource ==
    ASSUME NEW r
    PROVE  key(r)[1] = edge(r) /\ edge(r)[1] = r.from
  BY DEF key, edge

(* The key of an override, and what it resolves, have its source.           *)
LEMMA OverrideSource ==
    ASSUME NEW o
    PROVE  override_key(o)[1] = o.from /\ resolution(o).from = o.from
  BY DEF override_key, resolution

(* Rows with the same key have the same source, so the best row of each key *)
(* can be picked source by source.                                          *)
LEMMA MaterializedRestricts ==
    ASSUME NEW rows, NEW frontier
    PROVE  /\ materialized(within(rows, frontier)) = within(materialized(rows), frontier)
           /\ materialized(outside(rows, frontier)) = outside(materialized(rows), frontier)
<1>1. \A r, s : key(r) = key(s) => r.from = s.from
  BY KeySource
<1>2. materialized(within(rows, frontier)) = within(materialized(rows), frontier)
  BY <1>1 DEF materialized, within
<1>3. materialized(outside(rows, frontier)) = outside(materialized(rows), frontier)
  BY <1>1 DEF materialized, outside
<1>. QED BY <1>2, <1>3

(* Rows are those of the sources that are refreshed and the others.         *)
LEMMA Partition ==
    ASSUME NEW rows, NEW frontier
    PROVE  rows = outside(rows, frontier) \cup within(rows, frontier)
  BY DEF outside, within

(* The overrides that replace a row are found at its own source. *)
LEMMA ReplacedIsLocal ==
    ASSUME NEW d, NEW frontier, NEW k, k \in baseline_observation(d), k[1][1] \in frontier
    PROVE  k \in overridden(d) <=>
               \E o \in within(effective_override(d), frontier) : override_key(o) = k[1]
  BY OverrideSource DEF overridden, within

(* The incremental rules select, for the sources of a frontier, the rows    *)
(* the rules of the reference derive there.                                 *)
LEMMA FrontierIsDirect ==
    ASSUME NEW d, NEW frontier
    PROVE  selected_edge(d, frontier)
               \cup {r \in shard_edge(d, frontier) :
                        edge(r) \notin {override_key(o) : o \in outgoing_override(d, frontier)}}
           = within(direct(d), frontier)
<1>. DEFINE baseline == {k \in baseline_observation(d) : k[1][1] \in frontier}
            base == within(d.overrides, frontier)
            enriched == {o \in within(enrichment_dependency_override(d), frontier) :
                            override_key(o) \notin {override_key(b) : b \in base}}
            replaced == {k \in baseline :
                            \E o \in base \cup enriched : override_key(o) = k[1]}
<1>1. enriched = {o \in within(enrichment_dependency_override(d), frontier) :
                     override_key(o) \notin base_keys(d)}
  BY OverrideSource DEF within, base_keys
<1>2. base \cup enriched = within(effective_override(d), frontier)
  BY <1>1 DEF within, effective_override
<1>3. \A k : k[1][1] \in frontier => /\ k \in baseline <=> k \in baseline_observation(d)
                                     /\ k \in replaced <=> k \in overridden(d)
  <2>1. ASSUME NEW k, k[1][1] \in frontier
        PROVE  k \in replaced <=> k \in overridden(d)
    <3>1. k \in overridden(d) => k \in baseline_observation(d)
      BY DEF overridden
    <3>2. k \in replaced <=> /\ k \in baseline_observation(d)
                             /\ \E o \in within(effective_override(d), frontier) :
                                    override_key(o) = k[1]
      BY <1>2, <2>1
    <3>. QED BY <2>1, <3>1, <3>2, ReplacedIsLocal
  <2>. QED BY <2>1
<1>4. selected_edge(d, frontier) =
          {r \in within(d.state, frontier) : key(r) \notin replaced}
          \cup {resolution(o) : o \in base}
          \cup within(d.bindings, frontier)
          \cup {resolution(o) : o \in {o \in enriched :
                   \E k \in baseline : k[1] = override_key(o)}}
          \cup {r \in within(enrichment_observation(d), frontier) :
                   key(r) \notin baseline \cup replaced}
  BY DEF selected_edge
<1>. HIDE DEF baseline, base, enriched, replaced
<1>5. {r \in within(d.state, frontier) : key(r) \notin replaced}
      = within({r \in d.state : key(r) \notin overridden(d)}, frontier)
  BY <1>3, KeySource DEF within
<1>6. {r \in shard_edge(d, frontier) :
          edge(r) \notin {override_key(o) : o \in outgoing_override(d, frontier)}}
      = within({r \in shard_rows(d) : key(r) \notin overridden(d)}, frontier)
  <2>1. ASSUME NEW r \in shard_rows(d), r.from \in frontier
        PROVE  key(r) \in overridden(d) <=>
                   edge(r) \in {override_key(o) : o \in outgoing_override(d, frontier)}
    <3>1. key(r) \in baseline_observation(d)
      BY DEF baseline_observation
    <3>2. key(r)[1] = edge(r) /\ key(r)[1][1] \in frontier
      BY <2>1, KeySource
    <3>3. key(r) \in overridden(d) <=>
              \E o \in within(effective_override(d), frontier) : override_key(o) = key(r)[1]
      BY <3>1, <3>2, ReplacedIsLocal
    <3>. QED BY <3>2, <3>3 DEF outgoing_override
  <2>. QED BY <2>1 DEF within, shard_edge
<1>7. {resolution(o) : o \in base} = within({resolution(o) : o \in d.overrides}, frontier)
  BY OverrideSource DEF within, base
<1>8. {resolution(o) : o \in {o \in enriched : \E k \in baseline : k[1] = override_key(o)}}
      = within({resolution(o) : o \in
                   {o \in enrichment_dependency_override(d) :
                       /\ override_key(o) \notin base_keys(d)
                       /\ \E k \in baseline_observation(d) : k[1] = override_key(o)}}, frontier)
  <2>1. ASSUME NEW o
        PROVE  o \in enriched /\ (\E k \in baseline : k[1] = override_key(o)) <=>
                   /\ o \in enrichment_dependency_override(d)
                   /\ override_key(o) \notin base_keys(d)
                   /\ \E k \in baseline_observation(d) : k[1] = override_key(o)
                   /\ o.from \in frontier
    <3>1. o \in enriched <=> /\ o \in enrichment_dependency_override(d)
                             /\ override_key(o) \notin base_keys(d)
                             /\ o.from \in frontier
      BY <1>1 DEF within
    <3>2. o.from \in frontier =>
              ((\E k \in baseline : k[1] = override_key(o)) <=>
               (\E k \in baseline_observation(d) : k[1] = override_key(o)))
      BY <1>3, OverrideSource DEF baseline
    <3>. QED BY <3>1, <3>2
  <2>. QED BY <2>1, OverrideSource DEF within
<1>9. {r \in within(enrichment_observation(d), frontier) : key(r) \notin baseline \cup replaced}
      = within({r \in enrichment_observation(d) :
                   key(r) \notin baseline_observation(d) \cup overridden(d)}, frontier)
  BY <1>3, KeySource DEF within
<1>. QED BY <1>4, <1>5, <1>6, <1>7, <1>8, <1>9 DEF within, direct

-----------------------------------------------------------------------------
(* Databases that differ only at the sources of a frontier.                 *)

Agree(d, e, frontier) ==
    /\ outside(d.state, frontier) = outside(e.state, frontier)
    /\ outside(shard_rows(d), frontier) = outside(shard_rows(e), frontier)
    /\ outside(d.bindings, frontier) = outside(e.bindings, frontier)
    /\ outside(d.overrides, frontier) = outside(e.overrides, frontier)
    /\ outside(enrichment_observation(d), frontier) = outside(enrichment_observation(e), frontier)
    /\ outside(enrichment_dependency_override(d), frontier)
           = outside(enrichment_dependency_override(e), frontier)

(* What the rules derive for a source depends on the rows of that source    *)
(* alone.                                                                   *)
LEMMA DirectIsLocal ==
    ASSUME NEW d, NEW e, NEW frontier, Agree(d, e, frontier)
    PROVE  outside(direct(d), frontier) \subseteq outside(direct(e), frontier)
<1>1. /\ \A r : r.from \notin frontier =>
             /\ r \in d.state <=> r \in e.state
             /\ r \in shard_rows(d) <=> r \in shard_rows(e)
             /\ r \in d.bindings <=> r \in e.bindings
             /\ r \in d.overrides <=> r \in e.overrides
             /\ r \in enrichment_observation(d) <=> r \in enrichment_observation(e)
             /\ r \in enrichment_dependency_override(d)
                    <=> r \in enrichment_dependency_override(e)
  BY DEF Agree, outside
<1>2. \A k : k[1][1] \notin frontier =>
          (k \in baseline_observation(d) <=> k \in baseline_observation(e))
  BY <1>1, KeySource DEF baseline_observation
<1>3. \A o : o.from \notin frontier => (override_key(o) \in base_keys(d) <=>
                                        override_key(o) \in base_keys(e))
  BY <1>1, OverrideSource DEF base_keys
<1>4. \A o : o.from \notin frontier => (o \in effective_override(d) <=>
                                        o \in effective_override(e))
  BY <1>1, <1>3 DEF effective_override
<1>5. \A k : k[1][1] \notin frontier => (k \in overridden(d) <=> k \in overridden(e))
  <2>. SUFFICES ASSUME NEW k, k[1][1] \notin frontier
                PROVE  (\E o \in effective_override(d) : override_key(o) = k[1])
                       <=> (\E o \in effective_override(e) : override_key(o) = k[1])
    BY <1>2 DEF overridden
  <2>. QED BY <1>4, OverrideSource
<1>. SUFFICES ASSUME NEW r \in direct(d), r.from \notin frontier
              PROVE  r \in direct(e)
  BY DEF outside
<1>6. CASE r \in {q \in d.state \cup shard_rows(d) : key(q) \notin overridden(d)}
  BY <1>1, <1>5, <1>6, KeySource DEF direct
<1>7. CASE r \in {resolution(o) : o \in d.overrides}
  <2>1. PICK o \in d.overrides : r = resolution(o)
    BY <1>7
  <2>2. o \in e.overrides
    BY <1>1, <2>1, OverrideSource
  <2>. QED BY <2>1, <2>2 DEF direct
<1>8. CASE r \in d.bindings
  BY <1>1, <1>8 DEF direct
<1>9. CASE \E o \in enrichment_dependency_override(d) :
               /\ r = resolution(o)
               /\ override_key(o) \notin base_keys(d)
               /\ \E k \in baseline_observation(d) : k[1] = override_key(o)
  <2>1. PICK o \in enrichment_dependency_override(d) :
               /\ r = resolution(o)
               /\ override_key(o) \notin base_keys(d)
               /\ \E k \in baseline_observation(d) : k[1] = override_key(o)
    BY <1>9
  <2>2. o.from \notin frontier
    BY <2>1, OverrideSource
  <2>3. \E k \in baseline_observation(e) : k[1] = override_key(o)
    BY <1>2, <2>1, <2>2, OverrideSource
  <2>4. o \in enrichment_dependency_override(e) /\ override_key(o) \notin base_keys(e)
    BY <1>1, <1>3, <2>1, <2>2
  <2>. QED BY <2>1, <2>3, <2>4 DEF direct
<1>10. CASE r \in {q \in enrichment_observation(d) :
                     key(q) \notin baseline_observation(d) \cup overridden(d)}
  BY <1>1, <1>2, <1>5, <1>10, KeySource DEF direct
<1>. QED BY <1>6, <1>7, <1>8, <1>9, <1>10 DEF direct

(* Refreshing the sources at which two databases differ yields the edges of *)
(* the new one.                                                             *)
LEMMA RefreshIsDirect ==
    ASSUME NEW d, NEW e, NEW affected, Agree(d, e, affected),
           resolved = materialized(direct(d)), refresh_resolved_dependencies(e, affected)
    PROVE  resolved' = materialized(direct(e))
<1>. DEFINE edges == selected_edge(e, affected)
                \cup {r \in shard_edge(e, affected) :
                         edge(r) \notin {override_key(o) : o \in outgoing_override(e, affected)}}
<1>1. resolved' = outside(resolved, affected) \cup materialized(edges)
  BY DEF refresh_resolved_dependencies, outside
<1>2. materialized(edges) = within(materialized(direct(e)), affected)
  <2>1. edges = within(direct(e), affected)
    BY FrontierIsDirect
  <2>. HIDE DEF edges
  <2>. QED BY <2>1, MaterializedRestricts
<1>3. Agree(e, d, affected)
  BY DEF Agree
<1>4. outside(direct(d), affected) = outside(direct(e), affected)
  BY <1>3, DirectIsLocal
<1>5. outside(resolved, affected) = outside(materialized(direct(e)), affected)
  BY <1>4, MaterializedRestricts
<1>. HIDE DEF edges
<1>. QED BY <1>1, <1>2, <1>5, Partition

(* The rows the current winners pick. *)
LEMMA PickedObservation ==
    ASSUME NEW d, d.observation_winner = rebuilt_observations(d.enrichments), NEW r
    PROVE  r \in enrichment_observation(d) <=>
               \E a : /\ WinsObservation(d.enrichments, key(r), a)
                      /\ r \in observations_of(d.enrichments, a, key(r))
<1>1. \A a, k : r \in observations_of(d.enrichments, a, k) => k = key(r)
  BY DEF observations_of
<1>2. r \in enrichment_observation(d) <=>
          \E w \in rebuilt_observations(d.enrichments) :
              r \in observations_of(d.enrichments, w[2], w[1])
  BY DEF enrichment_observation
<1>3. ASSUME NEW w \in rebuilt_observations(d.enrichments), r \in observations_of(d.enrichments, w[2], w[1])
      PROVE  \E a : /\ WinsObservation(d.enrichments, key(r), a)
                    /\ r \in observations_of(d.enrichments, a, key(r))
  <2>1. PICK k, a : w = <<k, a>> /\ WinsObservation(d.enrichments, k, a)
    BY RebuiltObservation
  <2>2. r \in observations_of(d.enrichments, a, k)
    BY <1>3, <2>1
  <2>. QED BY <1>1, <2>1, <2>2
<1>4. ASSUME NEW a, WinsObservation(d.enrichments, key(r), a), r \in observations_of(d.enrichments, a, key(r))
      PROVE  \E w \in rebuilt_observations(d.enrichments) : r \in observations_of(d.enrichments, w[2], w[1])
  <2>1. <<key(r), a>> \in rebuilt_observations(d.enrichments)
    BY <1>4, RebuiltObservation
  <2>. WITNESS <<key(r), a>> \in rebuilt_observations(d.enrichments)
  <2>. QED BY <1>4
<1>. QED BY <1>2, <1>3, <1>4

(* The overrides a resolution uses are those of the winning analyzers.      *)
LEMMA PickedOverride ==
    ASSUME NEW d, d.override_winner = rebuilt_overrides(d.enrichments), NEW o
    PROVE  o \in enrichment_dependency_override(d) <=>
               \E a : /\ WinsOverride(d.enrichments, override_key(o), a)
                      /\ o \in overrides_of(d.enrichments, a, override_key(o))
<1>1. \A a, k : o \in overrides_of(d.enrichments, a, k) => k = override_key(o)
  BY DEF overrides_of
<1>2. o \in enrichment_dependency_override(d) <=>
          \E w \in rebuilt_overrides(d.enrichments) :
              o \in overrides_of(d.enrichments, w[2], w[1])
  BY DEF enrichment_dependency_override
<1>3. ASSUME NEW w \in rebuilt_overrides(d.enrichments), o \in overrides_of(d.enrichments, w[2], w[1])
      PROVE  \E a : /\ WinsOverride(d.enrichments, override_key(o), a)
                    /\ o \in overrides_of(d.enrichments, a, override_key(o))
  <2>1. PICK k, a : w = <<k, a>> /\ WinsOverride(d.enrichments, k, a)
    BY RebuiltOverride
  <2>2. o \in overrides_of(d.enrichments, a, k)
    BY <1>3, <2>1
  <2>. QED BY <1>1, <2>1, <2>2
<1>4. ASSUME NEW a, WinsOverride(d.enrichments, override_key(o), a), o \in overrides_of(d.enrichments, a, override_key(o))
      PROVE  \E w \in rebuilt_overrides(d.enrichments) : o \in overrides_of(d.enrichments, w[2], w[1])
  <2>1. <<override_key(o), a>> \in rebuilt_overrides(d.enrichments)
    BY <1>4, RebuiltOverride
  <2>. WITNESS <<override_key(o), a>> \in rebuilt_overrides(d.enrichments)
  <2>. QED BY <1>4
<1>. QED BY <1>2, <1>3, <1>4

(* Away from the sources of the changed payloads the picked rows are the    *)
(* same.                                                                    *)
LEMMA EnrichmentsAgree ==
    ASSUME NEW d, NEW e, NEW changed, NEW frontier,
           d.observation_winner = rebuilt_observations(d.enrichments),
           d.override_winner = rebuilt_overrides(d.enrichments),
           e.observation_winner = rebuilt_observations(e.enrichments),
           e.override_winner = rebuilt_overrides(e.enrichments),
           Covers(changed, d.enrichments, e.enrichments),
           enrichment_dependency_sources(changed) \subseteq frontier
    PROVE  /\ outside(enrichment_observation(d), frontier)
                  = outside(enrichment_observation(e), frontier)
           /\ outside(enrichment_dependency_override(d), frontier)
                  = outside(enrichment_dependency_override(e), frontier)
<1>1. ASSUME NEW r, r.from \notin frontier
      PROVE  r \in enrichment_observation(d) <=> r \in enrichment_observation(e)
  <2>1. key(r) \notin observation_keys(changed)
    <3>. SUFFICES ASSUME NEW p \in changed, NEW q \in p.observations, key(q) = key(r)
                  PROVE  FALSE
      BY DEF observation_keys
    <3>1. q.from = r.from
      BY KeySource
    <3>. QED BY <1>1, <3>1 DEF enrichment_dependency_sources, sources
  <2>2. \A a \in Analyzers : observations_of(d.enrichments, a, key(r))
                                 = observations_of(e.enrichments, a, key(r))
    BY <2>1, UnaffectedObservation
  <2>3. \A a : WinsObservation(d.enrichments, key(r), a)
                   <=> WinsObservation(e.enrichments, key(r), a)
    BY <2>2, SameObservationWins
  <2>4. \A a : WinsObservation(d.enrichments, key(r), a) => a \in Analyzers
    BY DEF WinsObservation
  <2>. QED BY <2>2, <2>3, <2>4, PickedObservation
<1>2. ASSUME NEW o, o.from \notin frontier
      PROVE  o \in enrichment_dependency_override(d) <=> o \in enrichment_dependency_override(e)
  <2>1. override_key(o) \notin override_keys(changed)
    <3>. SUFFICES ASSUME NEW p \in changed, NEW q \in p.overrides,
                         override_key(q) = override_key(o)
                  PROVE  FALSE
      BY DEF override_keys
    <3>1. q.from = o.from
      BY OverrideSource
    <3>. QED BY <1>2, <3>1 DEF enrichment_dependency_sources, sources
  <2>2. \A a \in Analyzers : overrides_of(d.enrichments, a, override_key(o))
                                 = overrides_of(e.enrichments, a, override_key(o))
    BY <2>1, UnaffectedOverride
  <2>3. \A a : WinsOverride(d.enrichments, override_key(o), a)
                   <=> WinsOverride(e.enrichments, override_key(o), a)
    BY <2>2, SameOverrideWins
  <2>4. \A a : WinsOverride(d.enrichments, override_key(o), a) => a \in Analyzers
    BY DEF WinsOverride
  <2>. QED BY <2>2, <2>3, <2>4, PickedOverride
<1>. QED BY <1>1, <1>2 DEF outside

-----------------------------------------------------------------------------
(* The operations.                                                          *)

(* A selection for every analyzer; the two properties; nothing else. *)
ResolvedInv ==
    /\ enrichments = [a \in Analyzers |-> enrichments[a]]
    /\ WinnersAreCurrent
    /\ ResolvedIsDirect

(* What is dropped with obsolete contributions covers the difference they   *)
(* make.                                                                    *)
LEMMA WithoutCovers ==
    ASSUME NEW obsolete \in SUBSET Analyzers
    PROVE  Covers(dropped(obsolete), enrichments, without(obsolete))
  BY DEF Covers, dropped, without

(* A row set that is replaced is covered by the sources it had and has. *)
LEMMA ReplacedRows ==
    ASSUME NEW rows, NEW next, NEW frontier,
           rows = next \/ sources(rows) \cup sources(next) \subseteq frontier
    PROVE  outside(rows, frontier) = outside(next, frontier)
  BY DEF outside, sources

(* The database a refresh reads is that of the current variables.           *)
LEMMA DatabaseFields ==
    /\ Database.state = state /\ Database.shards = shards /\ Database.bindings = bindings
    /\ Database.overrides = overrides /\ Database.enrichments = enrichments
    /\ Database.observation_winner = observation_winner
    /\ Database.override_winner = override_winner
  BY DEF Database

(* The database after a step is that of the new variables.                  *)
LEMMA DatabaseFieldsNext ==
    /\ Database'.state = state' /\ Database'.shards = shards' /\ Database'.bindings = bindings'
    /\ Database'.overrides = overrides' /\ Database'.enrichments = enrichments'
    /\ Database'.observation_winner = observation_winner'
    /\ Database'.override_winner = override_winner'
  BY DEF Database

(* Nothing is derived from an empty database. *)
LEMMA EmptyDatabase ==
    ASSUME NEW d, d.state = {}, d.shards = [o \in Owners |-> {}], d.bindings = {},
           d.overrides = {}, d.observation_winner = {}, d.override_winner = {}
    PROVE  materialized(direct(d)) = {}
<1>1. shard_rows(d) = {}
  BY DEF shard_rows
<1>2. enrichment_observation(d) = {} /\ enrichment_dependency_override(d) = {}
  BY DEF enrichment_observation, enrichment_dependency_override
<1>3. direct(d) = {}
  BY <1>1, <1>2 DEF direct
<1>. QED BY <1>3 DEF materialized

(* Without a contribution nobody wins.                                      *)
LEMMA NoWinners ==
    ASSUME NEW e, e = [a \in Analyzers |-> NoPayload]
    PROVE  rebuilt_observations(e) = {} /\ rebuilt_overrides(e) = {}
<1>1. observation_keys(all_payloads(e)) = {} /\ override_keys(all_payloads(e)) = {}
  BY DEF observation_keys, override_keys, all_payloads, NoPayload
<1>. QED BY <1>1 DEF rebuilt_observations, rebuilt_overrides

(* An operation that reports a change of facts, overrides or payloads       *)
(* refreshes the sources where something changed.                           *)
LEMMA RefreshedInv ==
    ASSUME ResolvedInv, NEW changed, NEW frontier, NEW e,
           enrichments' = e, e = [a \in Analyzers |-> e[a]],
           Covers(changed, enrichments, e),
           refresh_enrichment_fact_selections(e, changed),
           enrichment_dependency_sources(changed) \subseteq frontier,
           outside(state, frontier) = outside(state', frontier),
           outside(UNION {shards[o] : o \in Owners}, frontier)
               = outside(UNION {shards'[o] : o \in Owners}, frontier),
           outside(bindings, frontier) = outside(bindings', frontier),
           outside(overrides, frontier) = outside(overrides', frontier),
           refresh_resolved_dependencies(Database', frontier)
    PROVE  ResolvedInv'
<1>1. /\ observation_winner' = rebuilt_observations(e)
      /\ override_winner' = rebuilt_overrides(e)
  BY RefreshIsRebuild DEF ResolvedInv
<1>2. WinnersAreCurrent'
  BY <1>1 DEF WinnersAreCurrent
<1>3. PICK d, f : d = Database /\ f = Database'
  OBVIOUS
<1>4. /\ outside(enrichment_observation(d), frontier)
             = outside(enrichment_observation(f), frontier)
      /\ outside(enrichment_dependency_override(d), frontier)
             = outside(enrichment_dependency_override(f), frontier)
  <2>1. /\ d.enrichments = enrichments /\ f.enrichments = e
        /\ d.observation_winner = observation_winner /\ d.override_winner = override_winner
        /\ f.observation_winner = observation_winner' /\ f.override_winner = override_winner'
    BY <1>3, DatabaseFields, DatabaseFieldsNext
  <2>2. /\ d.observation_winner = rebuilt_observations(d.enrichments)
        /\ d.override_winner = rebuilt_overrides(d.enrichments)
    BY <2>1 DEF ResolvedInv, WinnersAreCurrent
  <2>3. /\ f.observation_winner = rebuilt_observations(f.enrichments)
        /\ f.override_winner = rebuilt_overrides(f.enrichments)
    BY <1>1, <2>1
  <2>4. Covers(changed, d.enrichments, f.enrichments)
    BY <2>1
  <2>. QED BY <2>2, <2>3, <2>4, EnrichmentsAgree
<1>5. Agree(d, f, frontier)
  BY <1>3, <1>4, DatabaseFields, DatabaseFieldsNext DEF Agree, shard_rows
<1>6. resolved' = materialized(direct(f))
  BY <1>3, <1>5, RefreshIsDirect DEF ResolvedInv, ResolvedIsDirect
<1>7. ResolvedIsDirect'
  BY <1>3, <1>6 DEF ResolvedIsDirect
<1>. QED BY <1>2, <1>7 DEF ResolvedInv

(* Publishing a sharded revision preserves the invariant.                   *)
LEMMA PublishShardedInv ==
    ASSUME ResolvedInv, NEW s, NEW h, NEW b, NEW o, NEW obsolete \in SUBSET Analyzers,
           publish_verified_sharded(s, h, b, o, obsolete)
    PROVE  ResolvedInv'
<1>. DEFINE frontier == shard_sources(h)
                 \cup current_revision_dependency_sources
                 \cup changed_repository_dependency_sources(s)
                 \cup sources(b)
                 \cup sources(o)
                 \cup enrichment_dependency_sources(dropped(obsolete))
<1>1. /\ state' = s /\ shards' = h /\ bindings' = b /\ overrides' = o
      /\ enrichments' = without(obsolete)
      /\ refresh_enrichment_fact_selections(without(obsolete), dropped(obsolete))
      /\ refresh_resolved_dependencies(Database', frontier)
  BY DEF publish_verified_sharded
<1>2. /\ sources(bindings) \subseteq frontier /\ sources(b) \subseteq frontier
      /\ sources(overrides) \subseteq frontier /\ sources(o) \subseteq frontier
      /\ enrichment_dependency_sources(dropped(obsolete)) \subseteq frontier
      /\ s = state \/ sources(state) \cup sources(s) \subseteq frontier
      /\ shard_sources(h) \subseteq frontier
  BY DEF current_revision_dependency_sources, changed_repository_dependency_sources
<1>. HIDE DEF frontier
<1>3. /\ outside(state, frontier) = outside(s, frontier)
      /\ outside(bindings, frontier) = outside(b, frontier)
      /\ outside(overrides, frontier) = outside(o, frontier)
  BY <1>2, ReplacedRows
<1>4. outside(UNION {shards[w] : w \in Owners}, frontier)
      = outside(UNION {h[w] : w \in Owners}, frontier)
  <2>1. ASSUME NEW w \in Owners
        PROVE  \A r : r.from \notin frontier => (r \in shards[w] <=> r \in h[w])
    <3>1. CASE shards[w] = h[w]
      BY <3>1
    <3>2. CASE shards[w] # h[w]
      <4>1. sources(shards[w]) \cup sources(h[w]) \subseteq frontier
        BY <1>2, <3>2 DEF shard_sources
      <4>. QED BY <4>1 DEF sources
    <3>. QED BY <3>1, <3>2
  <2>. QED BY <2>1 DEF outside
<1>5. without(obsolete) = [a \in Analyzers |-> without(obsolete)[a]]
  BY DEF without
<1>. QED BY <1>1, <1>2, <1>3, <1>4, <1>5, WithoutCovers, RefreshedInv

(* Publishing an unsharded revision preserves the invariant.                *)
LEMMA PublishInv ==
    ASSUME ResolvedInv, NEW s, NEW b, NEW o, NEW obsolete \in SUBSET Analyzers,
           publish(s, b, o, obsolete)
    PROVE  ResolvedInv'
<1>1. /\ enrichments' = without(obsolete)
      /\ refresh_enrichment_fact_selections(without(obsolete), dropped(obsolete))
      /\ resolved' = materialized(direct(Database'))
  BY DEF publish, rebuild_resolved_dependencies
<1>2. WinnersAreCurrent'
  BY <1>1, WithoutCovers, RefreshIsRebuild DEF ResolvedInv, WinnersAreCurrent
<1>3. ResolvedIsDirect'
  BY <1>1 DEF ResolvedIsDirect
<1>4. (enrichments = [a \in Analyzers |-> enrichments[a]])'
  BY <1>1 DEF without
<1>. QED BY <1>2, <1>3, <1>4 DEF ResolvedInv

(* Dropping the contributions of analyzers that are gone preserves the      *)
(* invariant.                                                               *)
LEMMA ReconcileInv ==
    ASSUME ResolvedInv, NEW obsolete \in SUBSET Analyzers,
           reconcile_obsolete_enrichments(obsolete)
    PROVE  ResolvedInv'
<1>1. /\ enrichments' = without(obsolete)
      /\ refresh_enrichment_fact_selections(without(obsolete), dropped(obsolete))
      /\ UNCHANGED <<state, shards, bindings, overrides>>
      /\ refresh_resolved_dependencies(Database',
             enrichment_dependency_sources(dropped(obsolete)))
  BY DEF reconcile_obsolete_enrichments
<1>2. without(obsolete) = [a \in Analyzers |-> without(obsolete)[a]]
  BY DEF without
<1>. QED BY <1>1, <1>2, WithoutCovers, RefreshedInv

(* Selecting a contribution preserves the invariant.                        *)
LEMMA PublishEnrichmentInv ==
    ASSUME ResolvedInv, NEW a \in Analyzers, NEW p, publish_enrichment(a, p)
    PROVE  ResolvedInv'
<1>. DEFINE e == [enrichments EXCEPT ![a] = p]
            changed == {enrichments[a], p} \ {NoPayload}
<1>1. /\ enrichments' = e
      /\ refresh_enrichment_fact_selections(e, changed)
      /\ UNCHANGED <<state, shards, bindings, overrides>>
      /\ refresh_resolved_dependencies(Database', enrichment_dependency_sources(changed))
  BY DEF publish_enrichment
<1>2. e = [b \in Analyzers |-> e[b]]
  BY DEF ResolvedInv
<1>3. Covers(changed, enrichments, e)
  BY DEF Covers, ResolvedInv
<1>. HIDE DEF e, changed
<1>. QED BY <1>1, <1>2, <1>3, RefreshedInv

(* Deleting the view preserves the invariant.                               *)
LEMMA DeleteInv ==
    ASSUME delete_analysis_view
    PROVE  ResolvedInv'
<1>1. WinnersAreCurrent'
  BY NoWinners DEF delete_analysis_view, WinnersAreCurrent
<1>2. ResolvedIsDirect'
  BY EmptyDatabase, DatabaseFieldsNext DEF delete_analysis_view, ResolvedIsDirect
<1>3. (enrichments = [a \in Analyzers |-> enrichments[a]])'
  BY DEF delete_analysis_view
<1>. QED BY <1>1, <1>2, <1>3 DEF ResolvedInv

(* Initially nothing is selected and nothing resolved.                      *)
LEMMA ResolvedInvInit == Init => ResolvedInv
<1>. SUFFICES ASSUME Init PROVE ResolvedInv
  OBVIOUS
<1>1. WinnersAreCurrent
  BY NoWinners DEF Init, WinnersAreCurrent
<1>2. ResolvedIsDirect
  BY EmptyDatabase, DatabaseFields DEF Init, ResolvedIsDirect
<1>. QED BY <1>1, <1>2 DEF ResolvedInv, Init

(* Every step preserves the invariant.                                      *)
LEMMA ResolvedInvNext == ResolvedInv /\ [Next]_vars => ResolvedInv'
<1>. SUFFICES ASSUME ResolvedInv, [Next]_vars
              PROVE  ResolvedInv'
  OBVIOUS
<1>1. CASE Next
  BY <1>1, PublishShardedInv, PublishInv, ReconcileInv, PublishEnrichmentInv, DeleteInv DEF Next
<1>2. CASE UNCHANGED vars
  BY <1>2 DEF vars, inputs, ResolvedInv, WinnersAreCurrent, ResolvedIsDirect, Database
<1>. QED BY <1>1, <1>2

(* The strengthened invariant holds in every reachable state.               *)
LEMMA ResolvedInvAlways == Spec => []ResolvedInv
  BY ResolvedInvInit, ResolvedInvNext, PTL DEF Spec

(* The winners among competing enrichments, of which a publication decides  *)
(* only the keys its changed payloads contribute, are always those a        *)
(* rebuild from all selected payloads would choose, on either side of the   *)
(* threshold between the two.                                               *)
THEOREM WinnersCurrent == Spec => []WinnersAreCurrent
<1>1. ResolvedInv => WinnersAreCurrent
  BY DEF ResolvedInv
<1>. QED BY <1>1, ResolvedInvAlways, PTL

(* The incremental rules miss no source: the edges a query reads are, after *)
(* any sequence of publications, enrichments and deletions, exactly those   *)
(* the reference rules derive from what the current revision selects.       *)
THEOREM ResolvedDirect == Spec => []ResolvedIsDirect
<1>1. ResolvedInv => ResolvedIsDirect
  BY DEF ResolvedInv
<1>. QED BY <1>1, ResolvedInvAlways, PTL


(***************************************************************************)
(* What is cached, as a function of the key it is cached under.            *)
(***************************************************************************)
Recognizers(active) == {p \in active : p.id = "recognizer"}

(* The analysis of a text by a frontend and recognizers.                    *)
Parsed(frontend, s, recognizers) ==
    IF s.broken THEN {}
      ELSE {[defines |-> s.defines, calls |-> s.calls, range |-> s.range, lined |-> s.lined,
             by |-> <<frontend, recognizers>>]}

(* The analyses of the files of a language, by what prepare_repository says.*)
ParsedFiles(texts, prep) ==
    {[path |-> s.path, analysis |-> Parsed(prep[1], s, Recognizers(prep[3]))] : s \in texts}

NewContribution(prep) ==
    [definitions |-> {}, calls |-> {}, grats |-> {}, lines |-> {}, skipped |-> {}, failure |-> FALSE,
     resolver |-> prep[2], enriched |-> {p \in prep[3] : p.id = "enricher"}]

RustOf(r, found, prep) ==
    LET definitions == definitions_of("rust", r, found)
    IN [NewContribution(prep) EXCEPT
          !.definitions = definitions,
          !.calls = {[c EXCEPT !.target = unique_definition(c, definitions)] :
                       c \in calls_of("rust", r, found)},
          !.lines = lines_of(found),
          !.skipped = skipped_of(found)]

GratsOf(input) ==
    {s.path : s \in {s \in input.typescript :
                        s.comment = "grats" /\ ~s.broken /\ input.manifest # None}}

(* The lines of which the shapes of the files do not say where they are.    *)
LinesOfShapes(shapes) ==
    UNION {{[path |-> f.path, name |-> n, line |-> 0] : n \in f.analysis.lined} :
             f \in analyzed_files(shapes)}

(* k is what repository_semantic_key returns.                               *)
TypescriptOf(k) ==
    [NewContribution(k[2]) EXCEPT
          !.definitions = definitions_of("typescript", k[1], k[3]),
          !.calls = resolved_calls(k[1], k[3], k[4]),
          !.grats = resolvers_of(k[3], k[5]),
          !.lines = LinesOfShapes(k[3]),
          !.skipped = skipped_of(k[3])]

SemanticKey(r, input, prep) ==
    <<r, prep, semantic_shapes(ParsedFiles(input.typescript, prep)), input.manifest, GratsOf(input)>>

ProtobufOf(r, input, prep) ==
    [NewContribution(prep) EXCEPT
       !.definitions = compiled_definitions(r, input.protobuf, prep[1])]

(* What was active for a language when the key of a repository was formed.  *)
PreparedFor(k, l) == (CHOOSE x \in k[2] : x[1] = l)[2]
LanguagesOf(input) == {l \in Languages : input[l] # {}}
ContributionOf(k, l) ==
    LET r == k[1][1]
        input == k[1][2]
        prep == PreparedFor(k, l)
    IN CASE l = "rust" -> RustOf(r, ParsedFiles(input.rust, prep), prep)
         [] l = "typescript" -> TypescriptOf(SemanticKey(r, input, prep))
         [] l = "protobuf" -> ProtobufOf(r, input, prep)
AnalysisOf(k) == [l \in LanguagesOf(k[1][2]) |-> ContributionOf(k, l)]

(* Two analyses are the same, but for the lines of TypeScript facts that    *)
(* have no range, and for Protobuf when that is excused.                    *)
AnalysesAgree(a, b, excused) ==
    /\ DOMAIN a = DOMAIN b
    /\ \A l \in DOMAIN b : facts(l, a[l]) = facts(l, b[l]) \/ (l = "protobuf" /\ excused)

(***************************************************************************)
(* The caches of the analyzers are sound.                                  *)
(***************************************************************************)
(* Files by the key of their text; SourceFiles of Rust that came from disk; *)
(* repositories of TypeScript by their semantic key.                        *)
SoundSources(cache) ==
    \A k \in DOMAIN cache : {cache[k]} = Parsed(k[2], k[3], k[4])
SoundFiles(known) ==
    \A k \in DOMAIN known :
        LET file == known[k]
        IN file.cached # {} => file.cached = Parsed(build.frontend, file.text, Recognizers(file.active))
SoundMemory(m) ==
    /\ SoundSources(m.sources)
    /\ SoundFiles(m.files)
    /\ \A r \in DOMAIN m.contributions :
          unplaced(m.contributions[r].contribution) = unplaced(TypescriptOf(m.contributions[r].key))
SoundDisk(d) ==
    /\ SoundSources(d.sources)
    /\ \A k \in DOMAIN d.contributions : unplaced(d.contributions[k]) = unplaced(TypescriptOf(k))

(* A new daemon and a new cache directory are sound.                        *)
LEMMA EmptyIsSound == SoundMemory(EmptyMemory) /\ SoundDisk(EmptyDisk)
BY DEF SoundMemory, SoundDisk, SoundSources, SoundFiles, EmptyMemory, EmptyDisk, Empty

(* The only element of a singleton is its element.                          *)
LEMMA TheOnlyIs == \A x : TheOnly({x}) = x
BY DEF TheOnly

(* The only element of a set that has some is one of them.                  *)
LEMMA TheOnlyIn == \A S : S # {} => TheOnly(S) \in S
BY DEF TheOnly

(* The parser reads nothing but the text, the frontend and the recognizers. *)
LEMMA ParsedNow ==
    \A s, recognizers : analyze_with_plugins(s, recognizers) = Parsed(build.frontend, s, recognizers)
BY DEF analyze_with_plugins, Parsed

(* What TypeScript finds for a file is what the parser would.               *)
LEMMA TypescriptFile ==
    ASSUME NEW m, NEW d, NEW r, NEW s, SoundMemory(m), SoundDisk(d)
    PROVE  analysis(m, d, r, s) = Parsed(build.frontend, s, source_identity(r, "typescript"))
<1>. DEFINE k == cache_path("typescript", r, s)
<1>1. k[2] = build.frontend /\ k[3] = s /\ k[4] = source_identity(r, "typescript")
  BY DEF cache_path
<1>2. k \in DOMAIN m.sources => {m.sources[k]} = Parsed(k[2], k[3], k[4])
  BY DEF SoundMemory, SoundSources
<1>3. k \in DOMAIN d.sources => {d.sources[k]} = Parsed(k[2], k[3], k[4])
  BY DEF SoundDisk, SoundSources
<1>. HIDE DEF k
<1>4. analysis(m, d, r, s) =
        IF k \in DOMAIN m.sources THEN {m.sources[k]}
          ELSE IF k \in DOMAIN d.sources THEN {d.sources[k]}
          ELSE analyze_with_plugins(s, source_identity(r, "typescript"))
  BY DEF analysis, k
<1>. QED
  BY <1>1, <1>2, <1>3, <1>4, ParsedNow

(* The SourceFile that Rust ends up with for a file has its text and its    *)
(* plugins, and what it has cached is what the parser would find.           *)
LEMMA RustFile ==
    ASSUME NEW m, NEW d, NEW r, NEW s, SoundMemory(m), SoundDisk(d)
    PROVE  LET file == analyze_many(m, d, r, s)
           IN /\ file.text = s
              /\ file.active = activate(r, "rust")
              /\ file.cached # {} =>
                    file.cached = Parsed(build.frontend, file.text, Recognizers(file.active))
<1>. DEFINE known == entry(m.files, <<r, s.path>>)
            file_key == cache_path("rust", r, s)
            new == [text |-> s, active |-> activate(r, "rust"),
                    cached |-> IF known = {} THEN entry(d.sources, file_key) ELSE {}]
<1>1. CASE \E f \in known : unchanged(f, r, s)
  <2>1. /\ <<r, s.path>> \in DOMAIN m.files
        /\ known = {m.files[<<r, s.path>>]}
        /\ unchanged(m.files[<<r, s.path>>], r, s)
    BY <1>1 DEF entry
  <2>2. analyze_many(m, d, r, s) = m.files[<<r, s.path>>]
    BY <1>1, <2>1, TheOnlyIs DEF analyze_many
  <2>3. m.files[<<r, s.path>>].cached # {} =>
           m.files[<<r, s.path>>].cached
             = Parsed(build.frontend, m.files[<<r, s.path>>].text, Recognizers(m.files[<<r, s.path>>].active))
    BY <2>1 DEF SoundMemory, SoundFiles
  <2>. QED
    BY <2>1, <2>2, <2>3 DEF unchanged
<1>2. CASE ~ \E f \in known : unchanged(f, r, s)
  <2>1. analyze_many(m, d, r, s) = new
    BY <1>2 DEF analyze_many
  <2>2. file_key[2] = build.frontend /\ file_key[3] = s /\ file_key[4] = Recognizers(activate(r, "rust"))
    BY DEF cache_path, source_identity, Recognizers
  <2>3. new.text = s /\ new.active = activate(r, "rust")
    OBVIOUS
  <2>4. ASSUME new.cached # {}
        PROVE  new.cached = Parsed(build.frontend, s, Recognizers(activate(r, "rust")))
    <3>1. file_key \in DOMAIN d.sources /\ new.cached = {d.sources[file_key]}
      BY <2>4 DEF entry
    <3>. QED
      BY <3>1, <2>2 DEF SoundDisk, SoundSources
  <2>. HIDE DEF new
  <2>. QED
    BY <2>1, <2>3, <2>4
<1>. QED
  BY <1>1, <1>2

(* With sound caches the incremental database of Rust parses a file as a    *)
(* parser without caches does: the kept SourceFile, the file found on disk  *)
(* and the text all give the same analysis.                                 *)
LEMMA RustParsed ==
    ASSUME NEW m, NEW d, NEW r, NEW s, SoundMemory(m), SoundDisk(d)
    PROVE  parse_file(analyze_many(m, d, r, s))
             = Parsed(build.frontend, s, Recognizers(activate(r, "rust")))
<1>1. PICK file : file = analyze_many(m, d, r, s)
  OBVIOUS
<1>2. /\ file.text = s
      /\ file.active = activate(r, "rust")
      /\ file.cached # {} =>
            file.cached = Parsed(build.frontend, file.text, Recognizers(file.active))
  BY <1>1, RustFile
<1>3. parse_file(file) = IF file.cached # {} THEN file.cached
                           ELSE analyze_with_plugins(file.text, Recognizers(file.active))
  BY DEF parse_file, Recognizers
<1>. QED
  BY <1>1, <1>2, <1>3, ParsedNow

(***************************************************************************)
(* With sound caches an analyzer contributes what its inputs define.       *)
(***************************************************************************)
(* The files of a repository, for Rust.                                     *)
LEMMA RustFound ==
    ASSUME NEW m, NEW d, NEW r, SoundMemory(m), SoundDisk(d)
    PROVE  {[path |-> s.path, analysis |-> parse_file(analyze_many(m, d, r, s))] : s \in snapshot[r].rust}
             = ParsedFiles(snapshot[r].rust, prepare_repository(r, "rust"))
<1>1. prepare_repository(r, "rust")[1] = build.frontend
      /\ prepare_repository(r, "rust")[3] = activate(r, "rust")
  BY DEF prepare_repository
<1>2. \A s : parse_file(analyze_many(m, d, r, s))
               = Parsed(prepare_repository(r, "rust")[1], s, Recognizers(prepare_repository(r, "rust")[3]))
  BY <1>1, RustParsed
<1>. QED
  BY <1>2 DEF ParsedFiles

(* A contribution starts from what prepare_repository says.                 *)
LEMMA NewNow ==
    ASSUME NEW r, NEW l
    PROVE  Contribution(r, l) = NewContribution(prepare_repository(r, l))
<1>1. prepare_repository(r, l)[2] = build.resolver /\ prepare_repository(r, l)[3] = activate(r, l)
  BY DEF prepare_repository
<1>. QED
  BY <1>1 DEF Contribution, NewContribution

(* With sound caches the contribution of Rust depends on the sources and    *)
(* what prepare_repository says, and on nothing else.                       *)
LEMMA RustContribution ==
    ASSUME NEW m, NEW d, NEW r, SoundMemory(m), SoundDisk(d)
    PROVE  rust_contribution(m, d, r)
             = RustOf(r, ParsedFiles(snapshot[r].rust, prepare_repository(r, "rust")),
                      prepare_repository(r, "rust"))
<1>1. PICK found : found = ParsedFiles(snapshot[r].rust, prepare_repository(r, "rust"))
  OBVIOUS
<1>2. {[path |-> s.path, analysis |-> parse_file(analyze_many(m, d, r, s))] : s \in snapshot[r].rust}
        = found
  BY <1>1, RustFound
<1>. DEFINE definitions == definitions_of("rust", r, found)
<1>3. PICK new : new = Contribution(r, "rust")
  OBVIOUS
<1>4. new = NewContribution(prepare_repository(r, "rust"))
  BY <1>3, NewNow
<1>5. rust_contribution(m, d, r) =
        [new EXCEPT
          !.definitions = definitions,
          !.calls = {[c EXCEPT !.target = unique_definition(c, definitions)] :
                       c \in calls_of("rust", r, found)},
          !.lines = lines_of(found),
          !.skipped = skipped_of(found)]
  BY <1>2, <1>3, Zenon DEF rust_contribution
<1>6. RustOf(r, found, prepare_repository(r, "rust")) =
        [new EXCEPT
          !.definitions = definitions,
          !.calls = {[c EXCEPT !.target = unique_definition(c, definitions)] :
                       c \in calls_of("rust", r, found)},
          !.lines = lines_of(found),
          !.skipped = skipped_of(found)]
  BY <1>4, Zenon DEF RustOf
<1>. QED
  BY <1>1, <1>5, <1>6

(* With sound caches the files of a TypeScript repository are analyzed as   *)
(* by a parser without caches.                                              *)
LEMMA TypescriptFound ==
    ASSUME NEW m, NEW d, NEW r, SoundMemory(m), SoundDisk(d)
    PROVE  TypescriptRepository(m, d, r)
             = ParsedFiles(snapshot[r].typescript, prepare_repository(r, "typescript"))
<1>1. prepare_repository(r, "typescript")[1] = build.frontend
      /\ Recognizers(prepare_repository(r, "typescript")[3]) = source_identity(r, "typescript")
  BY DEF prepare_repository, source_identity, Recognizers
<1>2. \A s : analysis(m, d, r, s)
               = Parsed(prepare_repository(r, "typescript")[1], s,
                        Recognizers(prepare_repository(r, "typescript")[3]))
  BY <1>1, TypescriptFile
<1>. QED
  BY <1>2 DEF ParsedFiles, TypescriptRepository

(* With sound caches the semantic key is that of the inputs.                *)
LEMMA SemanticKeyNow ==
    ASSUME NEW m, NEW d, NEW r, SoundMemory(m), SoundDisk(d)
    PROVE  repository_semantic_key(m, d, r)
             = SemanticKey(r, snapshot[r], prepare_repository(r, "typescript"))
<1>1. collect_grats_resolvers(r) = GratsOf(snapshot[r])
  BY DEF collect_grats_resolvers, GratsOf
<1>. QED
  BY <1>1, TypescriptFound DEF repository_semantic_key, SemanticKey

(* The parser finds one analysis of a file at most, and so does a shape.    *)
AtMostOne(found) == \A f \in found : f.analysis # {} => f.analysis = {TheOnly(f.analysis)}

(* The files of a repository, with the shapes of their analyses.            *)
LEMMA FilesOfShapes ==
    ASSUME NEW found, AtMostOne(found)
    PROVE  /\ analyzed_files(semantic_shapes(found))
                = {[path |-> f.path, analysis |-> semantic_shape(f.analysis)] : f \in analyzed_files(found)}
           /\ skipped_of(semantic_shapes(found)) = skipped_of(found)
<1>. DEFINE shape(f) == [path |-> f.path, analysis |-> {semantic_shape(a) : a \in f.analysis}]
<1>1. semantic_shapes(found) = {shape(f) : f \in found}
  BY Zenon DEF semantic_shapes
<1>2. ASSUME NEW f \in found
      PROVE  /\ shape(f).path = f.path
             /\ shape(f).analysis = {} <=> f.analysis = {}
             /\ f.analysis # {} => TheOnly(shape(f).analysis) = semantic_shape(TheOnly(f.analysis))
  <2>1. shape(f).path = f.path /\ shape(f).analysis = {semantic_shape(a) : a \in f.analysis}
    OBVIOUS
  <2>2. f.analysis # {} => {semantic_shape(a) : a \in f.analysis} = {semantic_shape(TheOnly(f.analysis))}
    BY DEF AtMostOne
  <2>. HIDE DEF shape
  <2>. QED
    BY <2>1, <2>2, TheOnlyIs
<1>. HIDE DEF shape
<1>. DEFINE some == {f \in found : f.analysis # {}}
            file(f) == [path |-> f.path, analysis |-> TheOnly(f.analysis)]
            shaped(x) == [path |-> x.path, analysis |-> semantic_shape(x.analysis)]
<1>3. /\ {f \in semantic_shapes(found) : f.analysis # {}} = {shape(f) : f \in some}
      /\ {f \in semantic_shapes(found) : f.analysis = {}} = {shape(f) : f \in {f \in found : f.analysis = {}}}
  BY <1>1, <1>2
<1>4. analyzed_files(found) = {file(f) : f \in some}
  BY Zenon DEF analyzed_files
<1>5. analyzed_files(semantic_shapes(found)) = {file(g) : g \in {shape(f) : f \in some}}
  BY <1>3, Zenon DEF analyzed_files
<1>6. \A f \in some : file(shape(f)) = shaped(file(f))
  BY <1>2
<1>7. {shaped(x) : x \in {file(f) : f \in some}} = {file(g) : g \in {shape(f) : f \in some}}
  <2>. HIDE DEF some, file, shaped
  <2>. QED
    BY <1>6
<1>8. skipped_of(semantic_shapes(found)) = skipped_of(found)
  BY <1>2, <1>3 DEF skipped_of
<1>. QED
  BY <1>4, <1>5, <1>7, <1>8, Zenon

(* A shape has everything but the lines.                                    *)
LEMMA ShapeKeeps ==
    \A a : /\ semantic_shape(a).defines = a.defines /\ semantic_shape(a).calls = a.calls
           /\ semantic_shape(a).range = a.range /\ semantic_shape(a).by = a.by
           /\ semantic_shape(a).lined = {x.name : x \in a.lined}
BY DEF semantic_shape

(* What the files define and call, with their ranges, their resolvers and   *)
(* the names of what has a line are determined by the shapes.               *)
LEMMA FactsOfShapes ==
    ASSUME NEW found, AtMostOne(found), NEW r, NEW package, NEW paths
    PROVE  /\ definitions_of("typescript", r, semantic_shapes(found)) = definitions_of("typescript", r, found)
           /\ resolved_calls(r, semantic_shapes(found), package) = resolved_calls(r, found, package)
           /\ resolvers_of(semantic_shapes(found), paths) = resolvers_of(found, paths)
           /\ {[path |-> x.path, name |-> x.name] : x \in LinesOfShapes(semantic_shapes(found))}
                = {[path |-> x.path, name |-> x.name] : x \in lines_of(found)}
<1>. DEFINE shaped(f) == [path |-> f.path, analysis |-> semantic_shape(f.analysis)]
<1>1. PICK shapes, all : shapes = semantic_shapes(found) /\ all = analyzed_files(found)
  OBVIOUS
<1>2. analyzed_files(shapes) = {shaped(f) : f \in all}
  BY <1>1, FilesOfShapes, Zenon
<1>3. \A f : /\ shaped(f).path = f.path
             /\ shaped(f).analysis.defines = f.analysis.defines
             /\ shaped(f).analysis.calls = f.analysis.calls
             /\ shaped(f).analysis.range = f.analysis.range
             /\ shaped(f).analysis.by = f.analysis.by
             /\ shaped(f).analysis.lined = {x.name : x \in f.analysis.lined}
  BY ShapeKeeps
<1>. HIDE DEF shaped
<1>4. definitions_of("typescript", r, shapes) = definitions_of("typescript", r, found)
  <2>. DEFINE D(f) == {[language |-> "typescript", repository |-> r, path |-> f.path, name |-> n,
                        range |-> f.analysis.range, by |-> f.analysis.by] : n \in f.analysis.defines}
  <2>1. /\ definitions_of("typescript", r, shapes) = UNION {D(f) : f \in {shaped(f) : f \in all}}
        /\ definitions_of("typescript", r, found) = UNION {D(f) : f \in all}
    BY <1>1, <1>2, Zenon DEF definitions_of
  <2>2. \A f : D(shaped(f)) = D(f)
    BY <1>3
  <2>. HIDE DEF D
  <2>3. {D(f) : f \in {shaped(f) : f \in all}} = {D(f) : f \in all}
    BY <2>2
  <2>. QED
    BY <2>1, <2>3
<1>5. calls_of("typescript", r, shapes) = calls_of("typescript", r, found)
  <2>. DEFINE C(f) == {[language |-> "typescript", repository |-> r, path |-> f.path, package |-> c[1],
                        name |-> c[2], range |-> f.analysis.range, by |-> f.analysis.by, target |-> {}] :
                          c \in f.analysis.calls}
  <2>1. /\ calls_of("typescript", r, shapes) = UNION {C(f) : f \in {shaped(f) : f \in all}}
        /\ calls_of("typescript", r, found) = UNION {C(f) : f \in all}
    BY <1>1, <1>2, Zenon DEF calls_of
  <2>2. \A f : C(shaped(f)) = C(f)
    BY <1>3
  <2>. HIDE DEF C
  <2>3. {C(f) : f \in {shaped(f) : f \in all}} = {C(f) : f \in all}
    BY <2>2
  <2>. QED
    BY <2>1, <2>3
<1>6. resolved_calls(r, shapes, package) = resolved_calls(r, found, package)
  BY <1>4, <1>5, Zenon DEF resolved_calls
<1>7. resolvers_of(shapes, paths) = resolvers_of(found, paths)
  <2>1. {[path |-> f.path, range |-> f.analysis.range] :
           f \in {f \in {shaped(f) : f \in all} : f.path \in paths}}
          = {[path |-> f.path, range |-> f.analysis.range] : f \in {f \in all : f.path \in paths}}
    BY <1>3
  <2>. QED
    BY <1>1, <1>2, <2>1, Zenon DEF resolvers_of
<1>8. {[path |-> x.path, name |-> x.name] : x \in LinesOfShapes(shapes)}
        = {[path |-> x.path, name |-> x.name] : x \in lines_of(found)}
  <2>. DEFINE named(x) == [path |-> x.path, name |-> x.name]
              N(f) == {[path |-> f.path, name |-> n, line |-> 0] : n \in f.analysis.lined}
              L(f) == {[path |-> f.path, name |-> x.name, line |-> x.line] : x \in f.analysis.lined}
  <2>1. LinesOfShapes(shapes) = UNION {N(f) : f \in {shaped(f) : f \in all}}
    BY <1>2, Zenon DEF LinesOfShapes
  <2>2. lines_of(found) = UNION {L(f) : f \in all}
    BY <1>1, Zenon DEF lines_of
  <2>3. ASSUME NEW f \in all
        PROVE  {named(x) : x \in N(shaped(f))} = {named(x) : x \in L(f)}
    <3>. DEFINE at(n) == [path |-> f.path, name |-> n, line |-> 0]
                of(x) == [path |-> f.path, name |-> x.name, line |-> x.line]
    <3>1. N(shaped(f)) = {at(n) : n \in {x.name : x \in f.analysis.lined}}
      BY <1>3
    <3>2. L(f) = {of(x) : x \in f.analysis.lined}
      OBVIOUS
    <3>3. \A x : named(at(x.name)) = named(of(x))
      OBVIOUS
    <3>. HIDE DEF at, of, named, N, L
    <3>. QED
      BY <3>1, <3>2, <3>3
  <2>. HIDE DEF N, L, named
  <2>4. {named(x) : x \in UNION {N(f) : f \in {shaped(f) : f \in all}}}
          = {named(x) : x \in UNION {L(f) : f \in all}}
    <3>1. ASSUME NEW f \in all, NEW x \in N(shaped(f))
          PROVE  \E y \in L(f) : named(x) = named(y)
      BY <2>3, <3>1
    <3>2. ASSUME NEW f \in all, NEW x \in L(f)
          PROVE  \E y \in N(shaped(f)) : named(x) = named(y)
      BY <2>3, <3>2
    <3>. QED
      BY <3>1, <3>2
  <2>. QED
    BY <2>1, <2>2, <2>4 DEF named
<1>. QED
  BY <1>1, <1>4, <1>6, <1>7, <1>8

(* Every file of a repository has an analysis or none.                      *)
LEMMA TypescriptAtMostOne ==
    ASSUME NEW m, NEW d, NEW r
    PROVE  AtMostOne(TypescriptRepository(m, d, r))
<1>1. \A s : analysis(m, d, r, s) # {} => analysis(m, d, r, s) = {TheOnly(analysis(m, d, r, s))}
  <2>. SUFFICES ASSUME NEW s PROVE \/ analysis(m, d, r, s) = {}
                                   \/ \E a : analysis(m, d, r, s) = {a}
    BY TheOnlyIs
  <2>. QED
    BY DEF analysis, analyze_with_plugins
<1>2. \A f \in TypescriptRepository(m, d, r) : \E s : f.analysis = analysis(m, d, r, s)
  BY DEF TypescriptRepository
<1>. QED
  BY <1>1, <1>2 DEF AtMostOne

(* What TypeScript computes for a repository is a function of the key it is *)
(* cached under, but for the lines that have no range.                      *)
LEMMA TypescriptComputed ==
    ASSUME NEW m, NEW d, NEW r
    PROVE  unplaced(typescript_contribution(m, d, r)) = unplaced(TypescriptOf(repository_semantic_key(m, d, r)))
<1>1. PICK k, found : k = repository_semantic_key(m, d, r) /\ found = TypescriptRepository(m, d, r)
  OBVIOUS
<1>2. /\ k[1] = r /\ k[2] = prepare_repository(r, "typescript")
      /\ k[3] = semantic_shapes(found) /\ k[4] = snapshot[r].manifest
      /\ k[5] = collect_grats_resolvers(r)
  BY <1>1 DEF repository_semantic_key
<1>3. PICK new : new = Contribution(r, "typescript") /\ new = NewContribution(k[2])
  BY <1>2, NewNow
<1>4. AtMostOne(found)
  BY <1>1, TypescriptAtMostOne
<1>. DEFINE definitions == definitions_of("typescript", r, found)
            calls == resolved_calls(r, found, snapshot[r].manifest)
            grats == resolvers_of(found, collect_grats_resolvers(r))
            skipped == skipped_of(found)
            with(lines) == [new EXCEPT !.definitions = definitions, !.calls = calls, !.grats = grats,
                                       !.lines = lines, !.skipped = skipped]
<1>5. typescript_contribution(m, d, r) = with(lines_of(found))
  BY <1>1, <1>3, Zenon DEF typescript_contribution
<1>6. /\ definitions_of("typescript", k[1], k[3]) = definitions
      /\ resolved_calls(k[1], k[3], k[4]) = calls
      /\ resolvers_of(k[3], k[5]) = grats
      /\ skipped_of(k[3]) = skipped
  BY <1>2, <1>4, FactsOfShapes, FilesOfShapes
<1>7. TypescriptOf(k) = with(LinesOfShapes(k[3]))
  BY <1>3, <1>6, Zenon DEF TypescriptOf
<1>8. {[path |-> x.path, name |-> x.name] : x \in LinesOfShapes(k[3])}
        = {[path |-> x.path, name |-> x.name] : x \in lines_of(found)}
  BY <1>2, <1>4, FactsOfShapes
<1>9. new = [definitions |-> {}, calls |-> {}, grats |-> {}, lines |-> {}, skipped |-> {}, failure |-> FALSE,
             resolver |-> k[2][2], enriched |-> {p \in k[2][3] : p.id = "enricher"}]
  BY <1>3, Zenon DEF NewContribution
<1>. HIDE DEF definitions, calls, grats, skipped
<1>10. \A lines : unplaced(with(lines)) = with({[path |-> x.path, name |-> x.name] : x \in lines})
  BY <1>9 DEF unplaced
<1>. HIDE DEF with
<1>. QED
  BY <1>1, <1>5, <1>7, <1>8, <1>10

(* A cached contribution of TypeScript is what would be computed, but for   *)
(* those lines.                                                             *)
LEMMA TypescriptContribution ==
    ASSUME NEW m, NEW d, NEW r, SoundMemory(m), SoundDisk(d)
    PROVE  unplaced(repository_contribution(m, d, r)) = unplaced(TypescriptOf(repository_semantic_key(m, d, r)))
<1>1. PICK k : k = repository_semantic_key(m, d, r)
  OBVIOUS
<1>. DEFINE last == {x.contribution : x \in {x \in entry(m.contributions, r) : x.key = k}}
<1>2. \A y \in last : unplaced(y) = unplaced(TypescriptOf(k))
  BY DEF entry, SoundMemory
<1>3. \A y \in entry(d.contributions, k) : unplaced(y) = unplaced(TypescriptOf(k))
  BY DEF entry, SoundDisk
<1>4. cached_repository(m, d, r) = IF last # {} THEN last ELSE entry(d.contributions, k)
  BY <1>1 DEF cached_repository
<1>5. \A y \in cached_repository(m, d, r) : unplaced(y) = unplaced(TypescriptOf(k))
  BY <1>2, <1>3, <1>4
<1>. QED
  BY <1>1, <1>5, TheOnlyIn, TypescriptComputed DEF repository_contribution

(* Whatever has the facts of a TypeScript contribution has its calls.       *)
LEMMA SameCalls ==
    ASSUME NEW c, NEW k, unplaced(c) = unplaced(TypescriptOf(k))
    PROVE  c.calls = TypescriptOf(k).calls
<1>1. PICK of, new : of = TypescriptOf(k) /\ new = NewContribution(k[2])
  OBVIOUS
<1>2. "calls" \in DOMAIN of
  <2>1. "calls" \in DOMAIN new
    BY <1>1 DEF NewContribution
  <2>2. of = [new EXCEPT
          !.definitions = definitions_of("typescript", k[1], k[3]),
          !.calls = resolved_calls(k[1], k[3], k[4]),
          !.grats = resolvers_of(k[3], k[5]),
          !.lines = LinesOfShapes(k[3]),
          !.skipped = skipped_of(k[3])]
    BY <1>1, Zenon DEF TypescriptOf
  <2>3. DOMAIN of = DOMAIN new
    BY <2>2
  <2>. QED
    BY <2>1, <2>3
<1>3. \A x : "calls" \in DOMAIN x => unplaced(x).calls = x.calls
  BY DEF unplaced
<1>4. \A x : DOMAIN unplaced(x) = DOMAIN x
  BY DEF unplaced
<1>. QED
  BY <1>1, <1>2, <1>3, <1>4

(* Protobuf contributes the definitions, or a warning if a dependency is    *)
(* neither cached nor within reach.                                         *)
LEMMA ProtobufContribution ==
    ASSUME NEW m, NEW d, NEW online, NEW r
    PROVE  \/ protobuf_contribution(m, d, online, r)
                = ProtobufOf(r, snapshot[r], prepare_repository(r, "protobuf"))
           \/ ~compiles(m, d, online, r) /\ protobuf_contribution(m, d, online, r).failure
<1>1. prepare_repository(r, "protobuf")[1] = build.frontend
  BY DEF prepare_repository
<1>2. Contribution(r, "protobuf") = NewContribution(prepare_repository(r, "protobuf"))
  BY NewNow
<1>3. ASSUME compiles(m, d, online, r)
      PROVE  protobuf_contribution(m, d, online, r)
               = ProtobufOf(r, snapshot[r], prepare_repository(r, "protobuf"))
  BY <1>1, <1>2, <1>3, Zenon DEF protobuf_contribution, ProtobufOf
<1>4. ASSUME ~compiles(m, d, online, r)
      PROVE  protobuf_contribution(m, d, online, r).failure
  BY <1>4 DEF protobuf_contribution, Contribution
<1>. QED
  BY <1>3, <1>4

(***************************************************************************)
(* The analysis of a repository.                                           *)
(***************************************************************************)
(* The key of a repository tells its inputs and what is active in it.       *)
LEMMA KeyTells ==
    ASSUME NEW r
    PROVE  LET k == repository_key(r)
           IN /\ k[1][1] = r
              /\ k[1][2] = snapshot[r]
              /\ LanguagesOf(k[1][2]) = languages(r)
              /\ latest_key(r) = <<k[1][1], k[2]>>
              /\ \A l \in languages(r) : PreparedFor(k, l) = prepare_repository(r, l)
<1>1. PICK k : k = repository_key(r)
  OBVIOUS
<1>2. k[1] = <<r, snapshot[r]>> /\ k[2] = repository_analysis_identity(r)
  BY <1>1 DEF repository_key, state_fingerprint
<1>3. LanguagesOf(snapshot[r]) = languages(r)
  BY DEF LanguagesOf, languages, has_sources
<1>4. \A l \in languages(r) :
        /\ <<l, prepare_repository(r, l)>> \in k[2]
        /\ \A x \in k[2] : x[1] = l => x = <<l, prepare_repository(r, l)>>
  BY <1>2 DEF repository_analysis_identity
<1>5. ASSUME NEW l \in languages(r)
      PROVE  PreparedFor(k, l) = prepare_repository(r, l)
  <2>1. PICK p : p = <<l, prepare_repository(r, l)>>
    OBVIOUS
  <2>2. p \in k[2] /\ p[1] = l /\ p[2] = prepare_repository(r, l)
    BY <1>4, <2>1
  <2>3. \A x \in k[2] : x[1] = l => x = p
    BY <1>4, <2>1
  <2>4. PICK x : x = (CHOOSE y \in k[2] : y[1] = l)
    OBVIOUS
  <2>5. x \in k[2] /\ x[1] = l
    BY <2>2, <2>4, Zenon
  <2>6. x = p
    BY <2>3, <2>5, Zenon
  <2>7. PreparedFor(k, l) = x[2]
    BY <2>4, Zenon DEF PreparedFor
  <2>. QED
    BY <2>2, <2>6, <2>7
<1>6. latest_key(r) = <<r, k[2]>>
  BY <1>2 DEF latest_key
<1>. QED
  BY <1>1, <1>2, <1>3, <1>5, <1>6

(* Different repositories have different keys.                              *)
LEMMA KeysDiffer ==
    ASSUME NEW r, NEW s
    PROVE  /\ repository_key(r) = repository_key(s) => r = s
           /\ latest_key(r) = latest_key(s) => r = s
<1>1. repository_key(r)[1][1] = r /\ repository_key(s)[1][1] = s
  BY KeyTells
<1>2. latest_key(r)[1] = r /\ latest_key(s)[1] = s
  BY DEF latest_key
<1>. QED
  BY <1>1, <1>2

(* With sound caches an analysis is what the key defines, unless Protobuf   *)
(* fails.                                                                   *)
LEMMA AnalysisNow ==
    ASSUME NEW m, NEW d, NEW online, NEW r, SoundMemory(m), SoundDisk(d)
    PROVE  LET a == RepositoryAnalysis(m, d, online, r)
           IN /\ DOMAIN a = languages(r)
              /\ AnalysesAgree(a, AnalysisOf(repository_key(r)), has_failure(a))
              /\ compiles(m, d, online, r) => AnalysesAgree(a, AnalysisOf(repository_key(r)), FALSE)
<1>1. PICK a, k : a = RepositoryAnalysis(m, d, online, r) /\ k = repository_key(r)
  OBVIOUS
<1>2. /\ k[1][1] = r
      /\ k[1][2] = snapshot[r]
      /\ LanguagesOf(k[1][2]) = languages(r)
      /\ \A l \in languages(r) : PreparedFor(k, l) = prepare_repository(r, l)
  BY <1>1, KeyTells
<1>3. languages(r) \subseteq {"rust", "typescript", "protobuf"}
  BY DEF languages, Languages
<1>4. /\ DOMAIN a = languages(r)
      /\ \A l \in languages(r) :
            /\ l = "rust" => a[l] = rust_contribution(m, d, r)
            /\ l = "typescript" => a[l] = repository_contribution(m, d, r)
            /\ l = "protobuf" => a[l] = protobuf_contribution(m, d, online, r)
  BY <1>1 DEF RepositoryAnalysis
<1>5. /\ DOMAIN AnalysisOf(k) = languages(r)
      /\ \A l \in languages(r) : AnalysisOf(k)[l] = ContributionOf(k, l)
  BY <1>2 DEF AnalysisOf
<1>6. ASSUME "rust" \in languages(r)
      PROVE  a["rust"] = ContributionOf(k, "rust")
  <2>1. ContributionOf(k, "rust")
          = RustOf(r, ParsedFiles(snapshot[r].rust, prepare_repository(r, "rust")),
                   prepare_repository(r, "rust"))
    BY <1>2, <1>6 DEF ContributionOf
  <2>. QED
    BY <1>4, <1>6, <2>1, RustContribution
<1>7. ASSUME "typescript" \in languages(r)
      PROVE  unplaced(a["typescript"]) = unplaced(ContributionOf(k, "typescript"))
  <2>1. ContributionOf(k, "typescript")
          = TypescriptOf(SemanticKey(r, snapshot[r], prepare_repository(r, "typescript")))
    BY <1>2, <1>7 DEF ContributionOf
  <2>. QED
    BY <1>4, <1>7, <2>1, TypescriptContribution, SemanticKeyNow
<1>8. ASSUME "protobuf" \in languages(r)
      PROVE  \/ a["protobuf"] = ContributionOf(k, "protobuf")
             \/ has_failure(a) /\ ~compiles(m, d, online, r)
  <2>1. ContributionOf(k, "protobuf")
          = ProtobufOf(r, snapshot[r], prepare_repository(r, "protobuf"))
    BY <1>2, <1>8 DEF ContributionOf
  <2>2. a["protobuf"] = protobuf_contribution(m, d, online, r)
    BY <1>4, <1>8
  <2>. QED
    BY <1>4, <1>8, <2>1, <2>2, ProtobufContribution DEF has_failure
<1>9. /\ AnalysesAgree(a, AnalysisOf(k), has_failure(a))
      /\ compiles(m, d, online, r) => AnalysesAgree(a, AnalysisOf(k), FALSE)
  BY <1>3, <1>4, <1>5, <1>6, <1>7, <1>8 DEF AnalysesAgree, facts
<1>. QED
  BY <1>1, <1>4, <1>9

(***************************************************************************)
(* The caches of whole repositories.  excused are the keys whose cached     *)
(* analysis may lack a dependency.                                         *)
(***************************************************************************)
RepositoriesAgree(m, excused) ==
    \A k \in DOMAIN m.repository : AnalysesAgree(m.repository[k], AnalysisOf(k), k \in excused)
LatestAgree(m, excused) ==
    \A k \in DOMAIN m.latest :
        /\ k = <<m.latest[k].key[1][1], m.latest[k].key[2]>>
        /\ AnalysesAgree(m.latest[k].analysis, AnalysisOf(m.latest[k].key), m.latest[k].key \in excused)
FilesAgree(d, excused) ==
    \A k \in DOMAIN d.path :
        /\ d.path[k][1][1] = k[1][1]
        /\ d.path[k] \in DOMAIN d.path
        /\ d.path[k] \in DOMAIN d.file
        /\ \A a \in d.file[d.path[k]] : AnalysesAgree(a, AnalysisOf(k), k \in excused)
(* Keys that are linked to one file have the same analysis.                 *)
LinksAgree(d, excused) ==
    \A k, x \in DOMAIN d.path :
        d.path[k] = d.path[x] => AnalysesAgree(AnalysisOf(k), AnalysisOf(x), k \in excused /\ x \in excused)

MemoryFields == {"repository", "latest", "files", "sources", "contributions", "dependency"}
DiskFields == {"path", "file", "sources", "contributions", "dependency"}
GoodMemory(m, excused) ==
    /\ MemoryFields \subseteq DOMAIN m
    /\ SoundMemory(m) /\ RepositoriesAgree(m, excused) /\ LatestAgree(m, excused)
GoodDisk(d, excused) ==
    /\ DiskFields \subseteq DOMAIN d
    /\ SoundDisk(d) /\ FilesAgree(d, excused) /\ LinksAgree(d, excused)
    /\ excused \subseteq DOMAIN d.path

(* The caches of a new daemon and of a new cache directory are good.        *)
LEMMA EmptyIsGood == GoodMemory(EmptyMemory, {}) /\ GoodDisk(EmptyDisk, {})
<1>1. /\ EmptyMemory.repository = Empty /\ EmptyMemory.latest = Empty
      /\ EmptyDisk.path = Empty /\ DOMAIN Empty = {}
      /\ MemoryFields \subseteq DOMAIN EmptyMemory /\ DiskFields \subseteq DOMAIN EmptyDisk
  BY DEF EmptyMemory, EmptyDisk, Empty, MemoryFields, DiskFields
<1>. QED
  BY <1>1, EmptyIsSound DEF GoodMemory, GoodDisk, RepositoriesAgree, LatestAgree, FilesAgree, LinksAgree

(* What is found for a repository, in memory or on disk.                    *)
LEMMA FoundAgrees ==
    ASSUME NEW m, NEW d, NEW excused, GoodMemory(m, excused), GoodDisk(d, excused),
           NEW r, NEW a \in lookup_repository(m, d, r)
    PROVE  AnalysesAgree(a, AnalysisOf(repository_key(r)), repository_key(r) \in excused)
<1>1. PICK k : k = repository_key(r)
  OBVIOUS
<1>2. CASE k \in DOMAIN m.repository
  <2>1. a = m.repository[k]
    BY <1>1, <1>2 DEF lookup_repository
  <2>. QED
    BY <1>1, <1>2, <2>1 DEF GoodMemory, RepositoriesAgree
<1>3. CASE k \notin DOMAIN m.repository
  <2>1. a \in UNION {d.file[f] : f \in entry(d.path, k)}
    BY <1>1, <1>3 DEF lookup_repository
  <2>2. k \in DOMAIN d.path /\ a \in d.file[d.path[k]]
    BY <2>1 DEF entry
  <2>. QED
    BY <1>1, <2>2 DEF GoodDisk, FilesAgree
<1>. QED
  BY <1>2, <1>3

(* What lookup_repository finds is what the key of the repository defines,  *)
(* unless the key is excused.                                               *)
LEMMA CachedAgrees ==
    ASSUME NEW m, NEW d, NEW excused, GoodMemory(m, excused), GoodDisk(d, excused),
           NEW r \in cached(m, d)
    PROVE  AnalysesAgree(TheOnly(lookup_repository(m, d, r)), AnalysisOf(repository_key(r)),
                 repository_key(r) \in excused)
<1>1. lookup_repository(m, d, r) # {}
  BY DEF cached
<1>2. TheOnly(lookup_repository(m, d, r)) \in lookup_repository(m, d, r)
  BY <1>1, TheOnlyIn
<1>. QED
  BY <1>2, FoundAgrees

(* A memory that remembers analyses of some repositories besides others.    *)
Remembers(m, new, R, of) ==
    /\ DOMAIN new = DOMAIN m
    /\ new.files = m.files /\ new.sources = m.sources /\ new.contributions = m.contributions
    /\ DOMAIN new.repository = DOMAIN m.repository \cup {repository_key(r) : r \in R}
    /\ \A r \in R : new.repository[repository_key(r)] = of[r]
    /\ \A k \in DOMAIN m.repository :
          (\A r \in R : k # repository_key(r)) => new.repository[k] = m.repository[k]
    /\ DOMAIN new.latest = DOMAIN m.latest \cup {latest_key(r) : r \in R}
    /\ \A r \in R : new.latest[latest_key(r)] = [key |-> repository_key(r), analysis |-> of[r]]
    /\ \A k \in DOMAIN m.latest :
          (\A r \in R : k # latest_key(r)) => new.latest[k] = m.latest[k]

(* Repositories whose analyses agree with their keys may be remembered; the *)
(* keys that are excused no longer are among them.                          *)
LEMMA RememberedAgree ==
    ASSUME NEW m, NEW new, NEW R, NEW of, NEW excused, NEW still,
           GoodMemory(m, excused), Remembers(m, new, R, of),
           \A r \in R : AnalysesAgree(of[r], AnalysisOf(repository_key(r)), repository_key(r) \in still),
           \A k \in excused : k \in still \/ \E r \in R : k = repository_key(r)
    PROVE  GoodMemory(new, still)
<1>2. SoundMemory(new)
  BY DEF GoodMemory, SoundMemory, Remembers
<1>3. RepositoriesAgree(new, still)
  <2>. SUFFICES ASSUME NEW k \in DOMAIN new.repository
                PROVE  AnalysesAgree(new.repository[k], AnalysisOf(k), k \in still)
    BY DEF RepositoriesAgree
  <2>1. CASE \E r \in R : k = repository_key(r)
    <3>1. PICK r \in R : k = repository_key(r)
      BY <2>1
    <3>2. new.repository[k] = of[r]
      BY <3>1 DEF Remembers
    <3>. QED
      BY <3>1, <3>2
  <2>2. CASE \A r \in R : k # repository_key(r)
    <3>1. k \in DOMAIN m.repository /\ new.repository[k] = m.repository[k]
      BY <2>2 DEF Remembers
    <3>2. AnalysesAgree(m.repository[k], AnalysisOf(k), k \in excused)
      BY <3>1 DEF GoodMemory, RepositoriesAgree
    <3>3. k \in excused => k \in still
      BY <2>2
    <3>. QED
      BY <3>1, <3>2, <3>3 DEF AnalysesAgree
  <2>. QED
    BY <2>1, <2>2
<1>4. LatestAgree(new, still)
  <2>. SUFFICES ASSUME NEW k \in DOMAIN new.latest
                PROVE  /\ k = <<new.latest[k].key[1][1], new.latest[k].key[2]>>
                       /\ AnalysesAgree(new.latest[k].analysis, AnalysisOf(new.latest[k].key),
                                new.latest[k].key \in still)
    BY DEF LatestAgree
  <2>1. CASE \E r \in R : k = latest_key(r)
    <3>1. PICK r \in R : k = latest_key(r)
      BY <2>1
    <3>2. new.latest[k] = [key |-> repository_key(r), analysis |-> of[r]]
      BY <3>1 DEF Remembers
    <3>3. k = <<repository_key(r)[1][1], repository_key(r)[2]>>
      BY <3>1, KeyTells
    <3>. QED
      BY <3>1, <3>2, <3>3
  <2>2. CASE \A r \in R : k # latest_key(r)
    <3>1. k \in DOMAIN m.latest /\ new.latest[k] = m.latest[k]
      BY <2>2 DEF Remembers
    <3>2. PICK x : x = m.latest[k].key
      OBVIOUS
    <3>3. /\ k = <<x[1][1], x[2]>>
          /\ AnalysesAgree(m.latest[k].analysis, AnalysisOf(x), x \in excused)
      BY <3>1, <3>2 DEF GoodMemory, LatestAgree
    <3>4. \A r \in R : x # repository_key(r)
      BY <2>2, <3>3, KeyTells
    <3>5. x \in excused => x \in still
      BY <3>4
    <3>6. AnalysesAgree(m.latest[k].analysis, AnalysisOf(x), x \in still)
      BY <3>3, <3>5 DEF AnalysesAgree
    <3>. QED
      BY <3>1, <3>2, <3>3, <3>6
  <2>. QED
    BY <2>1, <2>2
<1>. QED
  BY <1>2, <1>3, <1>4 DEF GoodMemory, Remembers

(* A set of repositories has one with a given key.                          *)
LEMMA OneOfKey ==
    ASSUME NEW R, NEW r \in R
    PROVE  /\ TheOnly({s \in R : repository_key(s) = repository_key(r)}) = r
           /\ TheOnly({s \in R : latest_key(s) = latest_key(r)}) = r
<1>1. {s \in R : repository_key(s) = repository_key(r)} = {r}
  BY KeysDiffer
<1>2. {s \in R : latest_key(s) = latest_key(r)} = {r}
  BY KeysDiffer
<1>. QED
  BY <1>1, <1>2, TheOnlyIs

(* What prepare reads from disk into memory is good.                        *)
LEMMA PreparedIsGood ==
    ASSUME NEW m, NEW d, NEW excused, GoodMemory(m, excused), GoodDisk(d, excused)
    PROVE  GoodMemory(prepared(m, d), excused)
<1>. DEFINE R == {r \in cached(m, d) : repository_key(r) \notin DOMAIN m.repository}
            of == [r \in R |-> TheOnly(lookup_repository(m, d, r))]
            repository == [k \in {repository_key(r) : r \in R} |->
                             TheOnly(lookup_repository(m, d, TheOnly({r \in R : repository_key(r) = k})))]
            latest == [k \in {latest_key(r) : r \in R} |->
                         LET r == TheOnly({r \in R : latest_key(r) = k})
                         IN [key |-> repository_key(r), analysis |-> TheOnly(lookup_repository(m, d, r))]]
<1>1. prepared(m, d) = [m EXCEPT !.repository = insert(@, repository), !.latest = insert(@, latest)]
  BY Zenon DEF prepared
<1>2. /\ \A r \in R : AnalysesAgree(of[r], AnalysisOf(repository_key(r)), repository_key(r) \in excused)
      /\ \A k \in excused : k \in excused \/ \E r \in R : k = repository_key(r)
  BY CachedAgrees
<1>3. /\ DOMAIN repository = {repository_key(r) : r \in R}
      /\ \A r \in R : repository[repository_key(r)] = of[r]
  <2>1. \A r \in R : TheOnly({s \in R : repository_key(s) = repository_key(r)}) = r
    BY OneOfKey
  <2>. QED
    BY <2>1
<1>4. /\ DOMAIN latest = {latest_key(r) : r \in R}
      /\ \A r \in R : latest[latest_key(r)] = [key |-> repository_key(r), analysis |-> of[r]]
  <2>1. \A r \in R : TheOnly({s \in R : latest_key(s) = latest_key(r)}) = r
    BY OneOfKey
  <2>. QED
    BY <2>1
<1>. HIDE DEF R, of, repository, latest
<1>5. PICK new : new = prepared(m, d)
  OBVIOUS
<1>6. /\ DOMAIN new = DOMAIN m
      /\ new.repository = insert(m.repository, repository)
      /\ new.latest = insert(m.latest, latest)
      /\ new.files = m.files /\ new.sources = m.sources /\ new.contributions = m.contributions
  BY <1>1, <1>5 DEF GoodMemory, MemoryFields
<1>7. Remembers(m, new, R, of)
  BY <1>3, <1>4, <1>6 DEF Remembers, insert
<1>8. GoodMemory(new, excused)
  BY <1>2, <1>7, RememberedAgree
<1>. QED
  BY <1>5, <1>8

(***************************************************************************)
(* What the analyzers leave in their caches.                               *)
(***************************************************************************)
LEMMA KeptIs ==
    ASSUME NEW found, NEW k \in DOMAIN kept(found)
    PROVE  \E f \in found : f.key = k /\ kept(found)[k] = f.analysis
<1>1. k \in {f.key : f \in found} /\ kept(found)[k] = TheOnly({f \in found : f.key = k}).analysis
  BY DEF kept
<1>2. {f \in found : f.key = k} # {}
  BY <1>1
<1>3. TheOnly({f \in found : f.key = k}) \in {f \in found : f.key = k}
  BY <1>2, TheOnlyIn
<1>. QED
  BY <1>1, <1>3

(* A text has one analysis at most.                                         *)
LEMMA ParsedOnce ==
    \A frontend, s, recognizers : \A a \in Parsed(frontend, s, recognizers) :
        {a} = Parsed(frontend, s, recognizers)
BY DEF Parsed

(* The files TypeScript adds to its caches are sound.                       *)
LEMMA TypescriptKept ==
    ASSUME NEW m, NEW d, SoundMemory(m), SoundDisk(d)
    PROVE  SoundSources(new_typescript_files(m, d))
<1>. DEFINE found == UNION {{[key |-> cache_path("typescript", x[1], x[2]), analysis |-> a] :
                               a \in analysis(m, d, x[1], x[2])} : x \in files("typescript", Repositories)}
<1>1. new_typescript_files(m, d) = kept(found)
  BY Zenon DEF new_typescript_files
<1>2. ASSUME NEW f \in found
      PROVE  {f.analysis} = Parsed(f.key[2], f.key[3], f.key[4])
  <2>1. PICK x \in files("typescript", Repositories) :
          \E a \in analysis(m, d, x[1], x[2]) :
             f = [key |-> cache_path("typescript", x[1], x[2]), analysis |-> a]
    BY <1>2
  <2>2. /\ f.key = cache_path("typescript", x[1], x[2])
        /\ f.analysis \in analysis(m, d, x[1], x[2])
    BY <2>1
  <2>3. analysis(m, d, x[1], x[2])
          = Parsed(build.frontend, x[2], source_identity(x[1], "typescript"))
    BY TypescriptFile
  <2>4. /\ f.key[2] = build.frontend /\ f.key[3] = x[2]
        /\ f.key[4] = source_identity(x[1], "typescript")
    BY <2>2 DEF cache_path
  <2>. QED
    BY <2>2, <2>3, <2>4, ParsedOnce
<1>. HIDE DEF found
<1>3. \A k \in DOMAIN kept(found) : {kept(found)[k]} = Parsed(k[2], k[3], k[4])
  BY <1>2, KeptIs
<1>. QED
  BY <1>1, <1>3 DEF SoundSources

(* The files Rust adds under cache_dir are sound.                           *)
LEMMA RustKept ==
    ASSUME NEW m, NEW d, SoundMemory(m), SoundDisk(d)
    PROVE  SoundSources(new_rust_files(m, d))
<1>. DEFINE new(x) == LET file == analyze_many(m, d, x[1], x[2])
                      IN {[key |-> cache_path("rust", x[1], x[2]), analysis |-> a] :
                            a \in IF file \in entry(m.files, <<x[1], x[2].path>>) \/ file.cached # {}
                                    THEN {} ELSE parse_file(file)}
            found == UNION {new(x) : x \in files("rust", missing(m, d, "rust"))}
<1>1. new_rust_files(m, d) = kept(found)
  BY Zenon DEF new_rust_files
<1>2. ASSUME NEW f \in found
      PROVE  {f.analysis} = Parsed(f.key[2], f.key[3], f.key[4])
  <2>1. PICK x \in files("rust", missing(m, d, "rust")) : f \in new(x)
    BY <1>2
  <2>2. /\ f.key = cache_path("rust", x[1], x[2])
        /\ f.analysis \in parse_file(analyze_many(m, d, x[1], x[2]))
    BY <2>1
  <2>3. parse_file(analyze_many(m, d, x[1], x[2]))
          = Parsed(build.frontend, x[2], source_identity(x[1], "rust"))
    BY RustParsed DEF source_identity, Recognizers
  <2>4. /\ f.key[2] = build.frontend /\ f.key[3] = x[2]
        /\ f.key[4] = source_identity(x[1], "rust")
    BY <2>2 DEF cache_path
  <2>. QED
    BY <2>2, <2>3, <2>4, ParsedOnce
<1>. HIDE DEF found
<1>3. \A k \in DOMAIN kept(found) : {kept(found)[k]} = Parsed(k[2], k[3], k[4])
  BY <1>2, KeptIs
<1>. QED
  BY <1>1, <1>3 DEF SoundSources

(* Sound files inserted into sound files are sound.                         *)
LEMMA SourcesInserted ==
    ASSUME NEW cache, NEW added, SoundSources(cache), SoundSources(added)
    PROVE  SoundSources(insert(cache, added))
BY DEF SoundSources, insert

(* In memory.                                                               *)
LEMMA AnalyzerMemoryIsGood ==
    ASSUME NEW m, NEW d, NEW online, NEW excused, GoodMemory(m, excused), SoundDisk(d)
    PROVE  GoodMemory(analyzer_memory(m, d, online), excused)
<1>. DEFINE rust == files("rust", missing(m, d, "rust"))
            semantic == missing(m, d, "typescript")
            many == [k \in {<<x[1], x[2].path>> : x \in rust} |->
                       LET x == TheOnly({x \in rust : <<x[1], x[2].path>> = k})
                       IN analyze_many(m, d, x[1], x[2])]
            contributions == [r \in semantic |->
                                [key |-> repository_semantic_key(m, d, r),
                                 contribution |-> repository_contribution(m, d, r)]]
<1>1. PICK new : new = analyzer_memory(m, d, online)
  OBVIOUS
<1>2. /\ DOMAIN new = DOMAIN m
      /\ new.repository = m.repository /\ new.latest = m.latest
      /\ new.files = insert(m.files, many)
      /\ new.sources = insert(m.sources, new_typescript_files(m, d))
      /\ new.contributions = insert(m.contributions, contributions)
  BY <1>1 DEF analyzer_memory, GoodMemory, MemoryFields
<1>3. SoundMemory(m)
  BY DEF GoodMemory
<1>4. SoundSources(new.sources)
  BY <1>2, <1>3, SourcesInserted, TypescriptKept DEF SoundMemory
<1>5. SoundFiles(many)
  <2>. SUFFICES ASSUME NEW k \in DOMAIN many
                PROVE  many[k].cached # {} =>
                         many[k].cached = Parsed(build.frontend, many[k].text, Recognizers(many[k].active))
    BY DEF SoundFiles
  <2>1. PICK x : many[k] = analyze_many(m, d, x[1], x[2])
    OBVIOUS
  <2>. HIDE DEF many
  <2>. QED
    BY <1>3, <2>1, RustFile
<1>6. \A r \in DOMAIN contributions :
        unplaced(contributions[r].contribution) = unplaced(TypescriptOf(contributions[r].key))
  BY <1>3, TypescriptContribution
<1>. HIDE DEF many, contributions
<1>7. SoundFiles(new.files)
  BY <1>2, <1>3, <1>5 DEF SoundMemory, SoundFiles, insert
<1>8. \A r \in DOMAIN new.contributions :
        unplaced(new.contributions[r].contribution) = unplaced(TypescriptOf(new.contributions[r].key))
  BY <1>2, <1>3, <1>6 DEF SoundMemory, insert
<1>9. SoundMemory(new)
  BY <1>4, <1>7, <1>8 DEF SoundMemory
<1>10. RepositoriesAgree(new, excused) /\ LatestAgree(new, excused)
  BY <1>2 DEF GoodMemory, RepositoriesAgree, LatestAgree
<1>. QED
  BY <1>1, <1>2, <1>9, <1>10 DEF GoodMemory

(* On disk.                                                                 *)
LEMMA AnalyzerDiskIsGood ==
    ASSUME NEW m, NEW d, NEW online, NEW excused, SoundMemory(m), GoodDisk(d, excused)
    PROVE  GoodDisk(analyzer_disk(m, d, online), excused)
<1>. DEFINE semantic == missing(m, d, "typescript")
            contributions == [k \in {repository_semantic_key(m, d, r) : r \in semantic} |->
                                repository_contribution(m, d, TheOnly(
                                  {r \in semantic : repository_semantic_key(m, d, r) = k}))]
<1>1. PICK new : new = analyzer_disk(m, d, online)
  OBVIOUS
<1>2. /\ DOMAIN new = DOMAIN d
      /\ new.path = d.path /\ new.file = d.file
      /\ new.sources = insert(insert(new_typescript_files(m, d), new_rust_files(m, d)), d.sources)
      /\ new.contributions = insert(d.contributions, contributions)
  BY <1>1 DEF analyzer_disk, GoodDisk, DiskFields
<1>3. SoundDisk(d)
  BY DEF GoodDisk
<1>4. SoundSources(new.sources)
  <2>1. SoundSources(insert(new_typescript_files(m, d), new_rust_files(m, d)))
    BY <1>3, SourcesInserted, TypescriptKept, RustKept
  <2>. QED
    BY <1>2, <1>3, <2>1, SourcesInserted DEF SoundDisk
<1>5. ASSUME NEW k \in DOMAIN contributions
      PROVE  unplaced(contributions[k]) = unplaced(TypescriptOf(k))
  <2>1. {r \in semantic : repository_semantic_key(m, d, r) = k} # {}
    OBVIOUS
  <2>2. PICK r : /\ r = TheOnly({s \in semantic : repository_semantic_key(m, d, s) = k})
                 /\ repository_semantic_key(m, d, r) = k
    BY <2>1, TheOnlyIn
  <2>3. contributions[k] = repository_contribution(m, d, r)
    BY <2>2
  <2>. QED
    BY <1>3, <2>2, <2>3, TypescriptContribution
<1>. HIDE DEF contributions
<1>6. \A k \in DOMAIN new.contributions : unplaced(new.contributions[k]) = unplaced(TypescriptOf(k))
  BY <1>2, <1>3, <1>5 DEF SoundDisk, insert
<1>7. SoundDisk(new)
  BY <1>4, <1>6 DEF SoundDisk
<1>8. FilesAgree(new, excused) /\ LinksAgree(new, excused) /\ excused \subseteq DOMAIN new.path
  BY <1>2 DEF GoodDisk, FilesAgree, LinksAgree
<1>. QED
  BY <1>1, <1>2, <1>7, <1>8 DEF GoodDisk

(***************************************************************************)
(* Storing repositories: memory.                                           *)
(***************************************************************************)
LEMMA StoredMemoryRemembers ==
    ASSUME NEW m, NEW merged, NEW R, MemoryFields \subseteq DOMAIN m
    PROVE  Remembers(m, stored_memory(m, merged, R), R, merged)
<1>. DEFINE repository == [k \in {repository_key(r) : r \in R} |->
                             merged[TheOnly({r \in R : repository_key(r) = k})]]
            latest == [k \in {latest_key(r) : r \in R} |->
                         LET r == TheOnly({r \in R : latest_key(r) = k})
                         IN [key |-> repository_key(r), analysis |-> merged[r]]]
<1>1. PICK new : new = stored_memory(m, merged, R)
  OBVIOUS
<1>2. new = [m EXCEPT !.repository = insert(@, repository), !.latest = insert(@, latest)]
  BY <1>1, Zenon DEF stored_memory
<1>3. /\ DOMAIN repository = {repository_key(r) : r \in R}
      /\ \A r \in R : repository[repository_key(r)] = merged[r]
  <2>1. \A r \in R : TheOnly({s \in R : repository_key(s) = repository_key(r)}) = r
    BY OneOfKey
  <2>. QED
    BY <2>1
<1>4. /\ DOMAIN latest = {latest_key(r) : r \in R}
      /\ \A r \in R : latest[latest_key(r)] = [key |-> repository_key(r), analysis |-> merged[r]]
  <2>1. \A r \in R : TheOnly({s \in R : latest_key(s) = latest_key(r)}) = r
    BY OneOfKey
  <2>. QED
    BY <2>1
<1>. HIDE DEF repository, latest
<1>5. /\ DOMAIN new = DOMAIN m
      /\ new.repository = insert(m.repository, repository)
      /\ new.latest = insert(m.latest, latest)
      /\ new.files = m.files /\ new.sources = m.sources /\ new.contributions = m.contributions
  BY <1>2 DEF MemoryFields
<1>6. Remembers(m, new, R, merged)
  BY <1>3, <1>4, <1>5 DEF Remembers, insert
<1>. QED
  BY <1>1, <1>6

(***************************************************************************)
(* Storing repositories: the files.                                        *)
(***************************************************************************)
(* The file an analysis goes to is one of its repository: that of an equal  *)
(* analysis, its own, or a new one.                                         *)
LEMMA PlaceOf ==
    ASSUME NEW m, NEW d, NEW excused, GoodMemory(m, excused), GoodDisk(d, excused), NEW r, NEW a
    PROVE  LET k == repository_key(r)
               f == file_of(m, d, r, a)
           IN /\ f[1][1] = r
              /\ \/ /\ is_linked(m, d, r, a)
                    /\ k \notin DOMAIN d.path
                    /\ \E y \in DOMAIN d.path :
                          f = d.path[y] /\ y[1][1] = r /\ AnalysesAgree(a, AnalysisOf(y), y \in excused)
                 \/ ~is_linked(m, d, r, a) /\ k \in DOMAIN d.path /\ f = d.path[k]
                 \/ ~is_linked(m, d, r, a) /\ k \notin DOMAIN d.path /\ f = k
<1>1. PICK k, f : k = repository_key(r) /\ f = file_of(m, d, r, a)
  OBVIOUS
<1>2. k[1][1] = r /\ latest_key(r)[1] = r
  BY <1>1, KeyTells DEF latest_key
<1>3. \A x \in DOMAIN d.path : d.path[x][1][1] = x[1][1]
  BY DEF GoodDisk, FilesAgree
<1>4. CASE is_linked(m, d, r, a)
  <2>1. PICK y : y = m.latest[latest_key(r)].key
    OBVIOUS
  <2>2. /\ latest_key(r) \in DOMAIN m.latest /\ m.latest[latest_key(r)].analysis = a
        /\ y \in DOMAIN d.path /\ k \notin DOMAIN d.path
    BY <1>1, <1>4, <2>1 DEF is_linked, entry
  <2>3. f = d.path[y]
    BY <1>1, <1>4, <2>1 DEF file_of
  <2>4. latest_key(r) = <<y[1][1], y[2]>> /\ AnalysesAgree(a, AnalysisOf(y), y \in excused)
    BY <2>1, <2>2 DEF GoodMemory, LatestAgree
  <2>5. y[1][1] = r
    BY <1>2, <2>4
  <2>. QED
    BY <1>1, <1>3, <1>4, <2>2, <2>3, <2>4, <2>5
<1>5. CASE ~is_linked(m, d, r, a)
  BY <1>1, <1>2, <1>3, <1>5 DEF file_of
<1>. QED
  BY <1>4, <1>5

(* What stored_disk leaves.                                                 *)
Stores(m, d, new, R, merged) ==
    /\ DOMAIN new = DOMAIN d
    /\ new.sources = d.sources /\ new.contributions = d.contributions
    /\ DOMAIN new.path = DOMAIN d.path \cup {repository_key(r) : r \in R}
    /\ \A r \in R : new.path[repository_key(r)] = file_of(m, d, r, merged[r])
    /\ \A k \in DOMAIN d.path : (\A r \in R : k # repository_key(r)) => new.path[k] = d.path[k]
    /\ \A f \in DOMAIN d.file : f \in DOMAIN new.file
    /\ \A r \in R : ~is_linked(m, d, r, merged[r]) =>
          /\ file_of(m, d, r, merged[r]) \in DOMAIN new.file
          /\ \A a \in new.file[file_of(m, d, r, merged[r])] : a = merged[r]
    /\ \A f \in DOMAIN d.file :
          (\A r \in R : ~is_linked(m, d, r, merged[r]) => f # file_of(m, d, r, merged[r]))
             => new.file[f] = d.file[f]

(* store_repository under cache_dir writes the analyses of R, each into the *)
(* file its key is linked to, and nothing else.                             *)
LEMMA StoredDiskStores ==
    ASSUME NEW m, NEW d, NEW merged, NEW R, NEW lost, NEW excused,
           GoodMemory(m, excused), GoodDisk(d, excused)
    PROVE  Stores(m, d, stored_disk(m, d, merged, R, lost), R, merged)
<1>. DEFINE place(r) == file_of(m, d, r, merged[r])
            W == {r \in R : ~is_linked(m, d, r, merged[r])}
            path == [k \in {repository_key(r) : r \in R} |->
                       LET r == TheOnly({r \in R : repository_key(r) = k})
                       IN place(r)]
            file == [f \in {place(r) : r \in W} |->
                       LET r == TheOnly({r \in W : place(r) = f})
                       IN IF r \in lost THEN {} ELSE {merged[r]}]
<1>1. PICK new : new = stored_disk(m, d, merged, R, lost)
  OBVIOUS
<1>2. new = [d EXCEPT !.path = insert(@, path), !.file = insert(@, file)]
  BY <1>1, Zenon DEF stored_disk
<1>3. /\ DOMAIN path = {repository_key(r) : r \in R}
      /\ \A r \in R : path[repository_key(r)] = place(r)
  <2>1. \A r \in R : TheOnly({s \in R : repository_key(s) = repository_key(r)}) = r
    BY OneOfKey
  <2>. QED
    BY <2>1
<1>4. /\ DOMAIN file = {place(r) : r \in W}
      /\ \A r \in W : \A a \in file[place(r)] : a = merged[r]
  <2>1. ASSUME NEW r \in W PROVE TheOnly({s \in W : place(s) = place(r)}) = r
    <3>1. \A s : place(s)[1][1] = s
      BY PlaceOf
    <3>. HIDE DEF place
    <3>2. {s \in W : place(s) = place(r)} = {r}
      BY <3>1
    <3>. QED
      BY <3>2, TheOnlyIs
  <2>. QED
    BY <2>1
<1>. HIDE DEF path, file
<1>5. /\ DOMAIN new = DOMAIN d
      /\ new.path = insert(d.path, path)
      /\ new.file = insert(d.file, file)
      /\ new.sources = d.sources /\ new.contributions = d.contributions
  BY <1>2 DEF GoodDisk, DiskFields
<1>6. /\ DOMAIN new.path = DOMAIN d.path \cup {repository_key(r) : r \in R}
      /\ \A r \in R : new.path[repository_key(r)] = file_of(m, d, r, merged[r])
      /\ \A k \in DOMAIN d.path : (\A r \in R : k # repository_key(r)) => new.path[k] = d.path[k]
  BY <1>3, <1>5 DEF insert
<1>7. /\ DOMAIN new.file = DOMAIN d.file \cup DOMAIN file
      /\ \A f \in DOMAIN file : new.file[f] = file[f]
      /\ \A f \in DOMAIN d.file : f \notin DOMAIN file => new.file[f] = d.file[f]
  BY <1>5 DEF insert
<1>8. \A r \in R : ~is_linked(m, d, r, merged[r]) =>
          /\ file_of(m, d, r, merged[r]) \in DOMAIN new.file
          /\ \A a \in new.file[file_of(m, d, r, merged[r])] : a = merged[r]
  BY <1>4, <1>7
<1>9. \A f \in DOMAIN d.file :
          (\A r \in R : ~is_linked(m, d, r, merged[r]) => f # file_of(m, d, r, merged[r]))
             => new.file[f] = d.file[f]
  BY <1>4, <1>7
<1>10. Stores(m, d, new, R, merged)
  BY <1>5, <1>6, <1>7, <1>8, <1>9, Zenon DEF Stores
<1>. QED
  BY <1>1, <1>10

(* The keys that are excused from now on: those that were and are not       *)
(* analyzed now, those that fail now, and all that share a file with one.   *)
LEMMA StillExcused ==
    ASSUME NEW m, NEW d, NEW new, NEW R, NEW merged, NEW excused, NEW still,
           Stores(m, d, new, R, merged), excused \subseteq DOMAIN d.path,
           still = lacking_dependency(new, excused, R, merged)
    PROVE  /\ \A k \in still : k \in DOMAIN new.path
           /\ \A k, x \in DOMAIN new.path : k \in still /\ new.path[k] = new.path[x] => x \in still
           /\ \A k \in excused : k \in still \/ \E r \in R : k = repository_key(r)
           /\ \A r \in R : has_failure(merged[r]) => repository_key(r) \in still
<1>. DEFINE bad == (excused \ {repository_key(r) : r \in R})
                     \cup {repository_key(r) : r \in {r \in R : has_failure(merged[r])}}
<1>1. still = UNION {same_file(new, k) : k \in bad}
  BY Zenon DEF lacking_dependency
<1>2. bad \subseteq DOMAIN new.path
  BY DEF Stores
<1>3. /\ \A k \in excused : k \in bad \/ \E r \in R : k = repository_key(r)
      /\ \A r \in R : has_failure(merged[r]) => repository_key(r) \in bad
  OBVIOUS
<1>. HIDE DEF bad
<1>4. \A x : x \in still <=> \E k \in bad : x \in DOMAIN new.path /\ new.path[x] = new.path[k]
  BY <1>1 DEF same_file
<1>5. \A k \in bad : k \in still
  BY <1>2, <1>4
<1>6. /\ \A k \in still : k \in DOMAIN new.path
      /\ \A k, x \in DOMAIN new.path : k \in still /\ new.path[k] = new.path[x] => x \in still
  BY <1>4
<1>. QED
  BY <1>3, <1>5, <1>6

(* Linked keys still agree.                                                 *)
LEMMA StoredLinksAgree ==
    ASSUME NEW m, NEW d, NEW new, NEW R, NEW merged, NEW excused, NEW still,
           GoodMemory(m, excused), GoodDisk(d, excused),
           Stores(m, d, new, R, merged),
           \A r \in R : AnalysesAgree(merged[r], AnalysisOf(repository_key(r)), has_failure(merged[r])),
           still = lacking_dependency(new, excused, R, merged)
    PROVE  LinksAgree(new, still)
<1>1. /\ \A k, x \in DOMAIN new.path : k \in still /\ new.path[k] = new.path[x] => x \in still
      /\ \A k \in excused : k \in still \/ \E r \in R : k = repository_key(r)
      /\ \A r \in R : has_failure(merged[r]) => repository_key(r) \in still
  BY StillExcused DEF GoodDisk
<1>2. \A k, x \in DOMAIN d.path :
        d.path[k] = d.path[x] => AnalysesAgree(AnalysisOf(k), AnalysisOf(x), k \in excused /\ x \in excused)
  BY DEF GoodDisk, LinksAgree
<1>. DEFINE Old(k) == k \in DOMAIN d.path /\ \A r \in R : k # repository_key(r)
            Linked(k, x) == AnalysesAgree(AnalysisOf(k), AnalysisOf(x), k \in still /\ x \in still)
<1>3. \A k \in DOMAIN new.path : Old(k) \/ \E r \in R : k = repository_key(r)
  BY DEF Stores
<1>4. \A k : Old(k) => new.path[k] = d.path[k] /\ k \in DOMAIN new.path
  BY DEF Stores
<1>5. ASSUME NEW k \in DOMAIN new.path, NEW x \in DOMAIN new.path,
             Old(k), Old(x), new.path[k] = new.path[x]
      PROVE  Linked(k, x)
  BY <1>1, <1>2, <1>4, <1>5 DEF AnalysesAgree
<1>6. ASSUME NEW r \in R, NEW x \in DOMAIN new.path,
             Old(x), new.path[repository_key(r)] = new.path[x]
      PROVE  Linked(repository_key(r), x)
  <2>1. PICK k, f : k = repository_key(r) /\ f = file_of(m, d, r, merged[r])
    OBVIOUS
  <2>2. new.path[k] = f /\ new.path[x] = f /\ d.path[x] = f /\ k \in DOMAIN new.path
    BY <1>4, <1>6, <2>1 DEF Stores
  <2>3. CASE k \in DOMAIN d.path /\ f = d.path[k]
    BY <1>1, <1>2, <1>6, <2>1, <2>2, <2>3 DEF AnalysesAgree
  <2>4. CASE k \notin DOMAIN d.path /\ f = k
    <3>1. d.path[x] \in DOMAIN d.path
      BY <1>6 DEF GoodDisk, FilesAgree
    <3>. QED
      BY <2>2, <2>4, <3>1
  <2>5. ASSUME k \notin DOMAIN d.path,
               NEW y \in DOMAIN d.path, f = d.path[y], y[1][1] = r,
               AnalysesAgree(merged[r], AnalysisOf(y), y \in excused)
        PROVE  Linked(k, x)
    <3>1. Old(y)
      <4>1. \A s \in R : repository_key(s)[1][1] = s
        BY KeyTells
      <4>. QED
        BY <2>1, <2>5, <4>1
    <3>2. new.path[y] = new.path[k] /\ y \in DOMAIN new.path
      BY <1>4, <2>2, <2>5, <3>1
    <3>3. y \in excused => k \in still /\ x \in still
      BY <1>1, <2>2, <3>1, <3>2
    <3>4. has_failure(merged[r]) => k \in still /\ x \in still
      BY <1>1, <2>1, <2>2
    <3>5. AnalysesAgree(merged[r], AnalysisOf(k), has_failure(merged[r]))
      BY <2>1
    <3>6. AnalysesAgree(AnalysisOf(y), AnalysisOf(x), y \in excused /\ x \in excused)
      BY <1>2, <1>6, <2>2, <2>5
    <3>. QED
      BY <2>5, <3>3, <3>4, <3>5, <3>6 DEF AnalysesAgree
  <2>6. \/ k \in DOMAIN d.path /\ f = d.path[k]
        \/ k \notin DOMAIN d.path /\ f = k
        \/ /\ k \notin DOMAIN d.path
           /\ \E y \in DOMAIN d.path :
                 f = d.path[y] /\ y[1][1] = r /\ AnalysesAgree(merged[r], AnalysisOf(y), y \in excused)
    BY <2>1, PlaceOf
  <2>. QED
    BY <2>1, <2>3, <2>4, <2>5, <2>6
<1>7. ASSUME NEW r \in R, NEW s \in R, new.path[repository_key(r)] = new.path[repository_key(s)]
      PROVE  repository_key(r) = repository_key(s)
  <2>1. file_of(m, d, r, merged[r]) = file_of(m, d, s, merged[s])
    BY <1>7 DEF Stores
  <2>2. file_of(m, d, r, merged[r])[1][1] = r /\ file_of(m, d, s, merged[s])[1][1] = s
    BY PlaceOf
  <2>. QED
    BY <2>1, <2>2
<1>8. ASSUME NEW k \in DOMAIN new.path, NEW x \in DOMAIN new.path, new.path[k] = new.path[x]
      PROVE  Linked(k, x)
  <2>1. CASE Old(k) /\ Old(x)
    BY <1>5, <1>8, <2>1
  <2>2. CASE Old(x) /\ \E r \in R : k = repository_key(r)
    BY <1>6, <1>8, <2>2
  <2>3. CASE Old(k) /\ \E r \in R : x = repository_key(r)
    <3>1. Linked(x, k)
      BY <1>6, <1>8, <2>3
    <3>. QED
      BY <3>1 DEF AnalysesAgree
  <2>4. CASE /\ \E r \in R : k = repository_key(r)
             /\ \E r \in R : x = repository_key(r)
    <3>1. k = x
      BY <1>7, <1>8, <2>4
    <3>. QED
      BY <3>1 DEF AnalysesAgree
  <2>. QED
    BY <1>3, <2>1, <2>2, <2>3, <2>4
<1>. QED
  BY <1>8 DEF LinksAgree

(* What is in the files still agrees.                                       *)
LEMMA StoredFilesAgree ==
    ASSUME NEW m, NEW d, NEW new, NEW R, NEW merged, NEW excused, NEW still,
           GoodMemory(m, excused), GoodDisk(d, excused),
           Stores(m, d, new, R, merged),
           \A r \in R : AnalysesAgree(merged[r], AnalysisOf(repository_key(r)), has_failure(merged[r])),
           still = lacking_dependency(new, excused, R, merged)
    PROVE  FilesAgree(new, still)
<1>1. /\ \A k, x \in DOMAIN new.path : k \in still /\ new.path[k] = new.path[x] => x \in still
      /\ \A k \in excused : k \in still \/ \E r \in R : k = repository_key(r)
      /\ \A r \in R : has_failure(merged[r]) => repository_key(r) \in still
  BY StillExcused DEF GoodDisk
<1>2. \A k, x \in DOMAIN new.path :
        new.path[k] = new.path[x] => AnalysesAgree(AnalysisOf(k), AnalysisOf(x), k \in still /\ x \in still)
  BY StoredLinksAgree DEF LinksAgree
<1>3. \A k \in DOMAIN d.path : /\ d.path[k][1][1] = k[1][1]
                               /\ d.path[k] \in DOMAIN d.path
                               /\ d.path[k] \in DOMAIN d.file
                               /\ \A a \in d.file[d.path[k]] : AnalysesAgree(a, AnalysisOf(k), k \in excused)
  BY DEF GoodDisk, FilesAgree
<1>. DEFINE Old(k) == k \in DOMAIN d.path /\ \A r \in R : k # repository_key(r)
            Written(r) == ~is_linked(m, d, r, merged[r])
<1>4. \A k \in DOMAIN new.path : Old(k) \/ \E r \in R : k = repository_key(r)
  BY DEF Stores
<1>5. \A k : Old(k) => new.path[k] = d.path[k] /\ k \in DOMAIN new.path
  BY DEF Stores
<1>6. DOMAIN d.path \subseteq DOMAIN new.path /\ DOMAIN d.file \subseteq DOMAIN new.file
  BY DEF Stores
<1>7. ASSUME NEW k \in DOMAIN new.path, NEW r \in R, Written(r),
             new.path[k] = new.path[repository_key(r)], NEW a \in new.file[new.path[k]]
      PROVE  AnalysesAgree(a, AnalysisOf(k), k \in still)
  <2>1. repository_key(r) \in DOMAIN new.path /\ a = merged[r]
    BY <1>7 DEF Stores
  <2>2. AnalysesAgree(AnalysisOf(repository_key(r)), AnalysisOf(k), k \in still)
    BY <1>2, <1>7, <2>1 DEF AnalysesAgree
  <2>3. has_failure(merged[r]) => k \in still
    BY <1>1, <1>7, <2>1
  <2>4. AnalysesAgree(merged[r], AnalysisOf(repository_key(r)), has_failure(merged[r]))
    OBVIOUS
  <2>. QED
    BY <2>1, <2>2, <2>3, <2>4 DEF AnalysesAgree
<1>8. ASSUME NEW k \in DOMAIN new.path, Old(k),
             \A r \in R : Written(r) => new.path[k] # new.path[repository_key(r)],
             NEW a \in new.file[new.path[k]]
      PROVE  AnalysesAgree(a, AnalysisOf(k), k \in still)
  <2>1. new.file[new.path[k]] = d.file[d.path[k]]
    <3>1. new.path[k] = d.path[k] /\ d.path[k] \in DOMAIN d.file
      BY <1>3, <1>5, <1>8
    <3>2. \A r \in R : ~is_linked(m, d, r, merged[r]) => d.path[k] # file_of(m, d, r, merged[r])
      BY <1>8, <3>1 DEF Stores
    <3>. QED
      BY <3>1, <3>2 DEF Stores
  <2>2. AnalysesAgree(a, AnalysisOf(k), k \in excused)
    BY <1>3, <1>8, <2>1
  <2>3. k \in excused => k \in still
    BY <1>1, <1>8
  <2>. QED
    BY <2>2, <2>3 DEF AnalysesAgree
<1>9. ASSUME NEW r \in R, ~Written(r)
      PROVE  /\ \E y \in DOMAIN d.path : Old(y) /\ new.path[repository_key(r)] = d.path[y]
             /\ new.path[repository_key(r)][1][1] = r
  <2>1. PICK y \in DOMAIN d.path : file_of(m, d, r, merged[r]) = d.path[y] /\ y[1][1] = r
    BY <1>9, PlaceOf
  <2>2. repository_key(r) \notin DOMAIN d.path /\ file_of(m, d, r, merged[r])[1][1] = r
    BY <1>9, PlaceOf
  <2>3. \A s \in R : repository_key(s)[1][1] = s
    BY KeyTells
  <2>4. Old(y)
    BY <2>1, <2>2, <2>3
  <2>. QED
    BY <2>1, <2>2, <2>4 DEF Stores
<1>10. ASSUME NEW k \in DOMAIN new.path
       PROVE  /\ new.path[k][1][1] = k[1][1]
              /\ new.path[k] \in DOMAIN new.path
              /\ new.path[k] \in DOMAIN new.file
  <2>1. CASE Old(k)
    BY <1>3, <1>5, <1>6, <2>1
  <2>2. ASSUME NEW r \in R, k = repository_key(r), ~Written(r)
        PROVE  /\ new.path[k][1][1] = k[1][1]
               /\ new.path[k] \in DOMAIN new.path
               /\ new.path[k] \in DOMAIN new.file
    <3>1. k[1][1] = r
      BY <2>2, KeyTells
    <3>. QED
      BY <1>3, <1>6, <1>9, <2>2, <3>1
  <2>3. ASSUME NEW r \in R, k = repository_key(r), Written(r)
        PROVE  /\ new.path[k][1][1] = k[1][1]
               /\ new.path[k] \in DOMAIN new.path
               /\ new.path[k] \in DOMAIN new.file
    <3>1. k[1][1] = r
      BY <2>3, KeyTells
    <3>2. PICK f : f = file_of(m, d, r, merged[r])
      OBVIOUS
    <3>3. f[1][1] = r /\ (f = k \/ (k \in DOMAIN d.path /\ f = d.path[k]))
      BY <2>3, <3>2, PlaceOf
    <3>4. new.path[k] = f /\ f \in DOMAIN new.file
      BY <2>3, <3>2 DEF Stores
    <3>. QED
      BY <1>3, <1>6, <3>1, <3>3, <3>4
  <2>. QED
    BY <1>4, <2>1, <2>2, <2>3
<1>11. ASSUME NEW r \in R, ~Written(r),
              \A s \in R : Written(s) => new.path[repository_key(r)] # new.path[repository_key(s)],
              NEW a \in new.file[new.path[repository_key(r)]]
       PROVE  AnalysesAgree(a, AnalysisOf(repository_key(r)), repository_key(r) \in still)
  <2>1. PICK y \in DOMAIN d.path : Old(y) /\ new.path[repository_key(r)] = d.path[y]
    BY <1>9, <1>11
  <2>2. y \in DOMAIN new.path /\ new.path[y] = new.path[repository_key(r)]
        /\ repository_key(r) \in DOMAIN new.path
    BY <1>5, <2>1 DEF Stores
  <2>3. AnalysesAgree(a, AnalysisOf(y), y \in still)
    BY <1>8, <1>11, <2>1, <2>2
  <2>4. AnalysesAgree(AnalysisOf(y), AnalysisOf(repository_key(r)), repository_key(r) \in still)
    BY <1>2, <2>2 DEF AnalysesAgree
  <2>5. y \in still => repository_key(r) \in still
    BY <1>1, <2>2
  <2>. QED
    BY <2>3, <2>4, <2>5 DEF AnalysesAgree
<1>12. ASSUME NEW k \in DOMAIN new.path, NEW a \in new.file[new.path[k]]
       PROVE  AnalysesAgree(a, AnalysisOf(k), k \in still)
  <2>1. CASE \E r \in R : Written(r) /\ new.path[k] = new.path[repository_key(r)]
    BY <1>7, <1>12, <2>1
  <2>2. CASE \A r \in R : Written(r) => new.path[k] # new.path[repository_key(r)]
    BY <1>4, <1>8, <1>11, <1>12, <2>2
  <2>. QED
    BY <2>1, <2>2
<1>. QED
  BY <1>10, <1>12 DEF FilesAgree

(* What an analysis of the repositories R leaves is good.                   *)
LEMMA StoredIsGood ==
    ASSUME NEW m, NEW d, NEW R, NEW merged, NEW excused, NEW lost, NEW new, NEW still,
           GoodMemory(m, excused), GoodDisk(d, excused),
           \A r \in R : AnalysesAgree(merged[r], AnalysisOf(repository_key(r)), has_failure(merged[r])),
           new = stored_disk(m, d, merged, R, lost),
           still = lacking_dependency(new, excused, R, merged)
    PROVE  GoodMemory(stored_memory(m, merged, R), still) /\ GoodDisk(new, still)
<1>1. Stores(m, d, new, R, merged)
  BY StoredDiskStores
<1>2. /\ \A k \in still : k \in DOMAIN new.path
      /\ \A k \in excused : k \in still \/ \E r \in R : k = repository_key(r)
      /\ \A r \in R : has_failure(merged[r]) => repository_key(r) \in still
  BY <1>1, StillExcused DEF GoodDisk
<1>3. LinksAgree(new, still) /\ FilesAgree(new, still)
  BY <1>1, StoredLinksAgree, StoredFilesAgree
<1>4. SoundDisk(new) /\ DiskFields \subseteq DOMAIN new
  BY <1>1 DEF GoodDisk, SoundDisk, Stores
<1>5. GoodDisk(new, still)
  BY <1>2, <1>3, <1>4 DEF GoodDisk
<1>6. Remembers(m, stored_memory(m, merged, R), R, merged)
  BY StoredMemoryRemembers DEF GoodMemory
<1>7. \A r \in R : AnalysesAgree(merged[r], AnalysisOf(repository_key(r)), repository_key(r) \in still)
  BY <1>2 DEF AnalysesAgree
<1>8. GoodMemory(stored_memory(m, merged, R), still)
  BY <1>2, <1>6, <1>7, RememberedAgree
<1>. QED
  BY <1>5, <1>8

(***************************************************************************)
(* The workspace, as a function of the inputs s and the build b.           *)
(***************************************************************************)
ActiveAt(s, b, r, l) ==
    IF s[r].manifest # None /\ s[r][l] # {} /\ l # "protobuf"
      THEN {[id |-> id, version |-> b.plugin] : id \in {"recognizer", "enricher"}}
      ELSE {}
PreparedAt(s, b, r, l) == <<b.frontend, b.resolver, ActiveAt(s, b, r, l)>>
KeyAt(s, b, r) ==
    <<<<r, s[r]>>, {<<l, PreparedAt(s, b, r, l)>> : l \in LanguagesOf(s[r])}>>
WithSourcesAt(s, l) == {r \in Repositories : s[r][l] # {}}
UnresolvedAt(s, b, l) ==
    {c \in UNION {AnalysisOf(KeyAt(s, b, r))[l].calls : r \in WithSourcesAt(s, l)} : c.target = {}}
RustOverridesAt(s, b) ==
    LET definitions == UNION {AnalysisOf(KeyAt(s, b, r))["rust"].definitions : r \in WithSourcesAt(s, "rust")}
    IN {[call |-> c, target |-> unique_definition(c, definitions)] :
          c \in {c \in UnresolvedAt(s, b, "rust") : unique_definition(c, definitions) # {}}}
PackagesAt(s, p) == {r \in WithSourcesAt(s, "typescript") : s[r].manifest = p}
ExportsAt(s, b, r) ==
    {e \in definitions_of("typescript", r, ParsedFiles(s[r].typescript, PreparedAt(s, b, r, "typescript"))) :
        e.path = "index"}
TargetAt(s, b, c) ==
    IF c.package # None /\ Cardinality(PackagesAt(s, c.package)) = 1
      THEN {e \in ExportsAt(s, b, TheOnly(PackagesAt(s, c.package))) : e.name = c.name}
      ELSE {}
WorkspaceCallsAt(s, b) ==
    IF Cardinality(WithSourcesAt(s, "typescript")) < 2 THEN {}
      ELSE {[call |-> c, target |-> TargetAt(s, b, c)] :
              c \in {c \in UnresolvedAt(s, b, "typescript") : TargetAt(s, b, c) # {}}}
OverridesAt(s, b) == RustOverridesAt(s, b) \cup WorkspaceCallsAt(s, b)

(* An analysis is what the inputs and the build define, but for excused     *)
(* dependencies.                                                            *)
FreshAt(x, s, b, excused) ==
    /\ x.overrides = OverridesAt(s, b)
    /\ \A r \in Repositories :
          AnalysesAgree(x.repositories[r], AnalysisOf(KeyAt(s, b, r)), KeyAt(s, b, r) \in excused)

(* The key at the snapshot and build of the moment is repository_key.       *)
LEMMA KeyNow == \A r : KeyAt(snapshot, build, r) = repository_key(r)
<1>1. \A r, l : ActiveAt(snapshot, build, r, l) = activate(r, l)
  BY DEF ActiveAt, activate, has_sources
<1>2. \A r, l : PreparedAt(snapshot, build, r, l) = prepare_repository(r, l)
  BY <1>1 DEF PreparedAt, prepare_repository
<1>3. \A r : LanguagesOf(snapshot[r]) = languages(r)
  BY DEF LanguagesOf, languages, has_sources
<1>4. \A r : {<<l, PreparedAt(snapshot, build, r, l)>> : l \in LanguagesOf(snapshot[r])}
               = repository_analysis_identity(r)
  BY <1>2, <1>3 DEF repository_analysis_identity
<1>. QED
  BY <1>4 DEF KeyAt, repository_key, state_fingerprint

(* Calls between repositories are resolved from analyses that are right for *)
(* Rust and TypeScript, so the overrides are those of the inputs.           *)
LEMMA OverridesNow ==
    ASSUME NEW m, NEW d, NEW merged, SoundMemory(m), SoundDisk(d),
           \A r \in Repositories : \A l \in languages(r) \ {"protobuf"} :
              /\ merged[r][l].calls = AnalysisOf(repository_key(r))[l].calls
              /\ l = "rust" => merged[r][l] = AnalysisOf(repository_key(r))[l]
    PROVE  rust_overrides(merged) \cup resolve_workspace_calls(m, d, merged) = OverridesAt(snapshot, build)
<1>1. \A l : with_sources(l) = WithSourcesAt(snapshot, l)
  BY DEF with_sources, WithSourcesAt, has_sources
<1>2. \A l \in {"rust", "typescript"} : \A r \in WithSourcesAt(snapshot, l) :
        /\ merged[r][l].calls = AnalysisOf(KeyAt(snapshot, build, r))[l].calls
        /\ l = "rust" => merged[r][l] = AnalysisOf(KeyAt(snapshot, build, r))[l]
  BY KeyNow DEF WithSourcesAt, languages, has_sources, Languages
<1>3. ASSUME NEW l \in {"rust", "typescript"}
      PROVE  unresolved_calls(merged, l) = UnresolvedAt(snapshot, build, l)
  <2>1. {merged[r][l].calls : r \in with_sources(l)}
          = {AnalysisOf(KeyAt(snapshot, build, r))[l].calls : r \in WithSourcesAt(snapshot, l)}
    BY <1>1, <1>2
  <2>. QED
    BY <2>1, Zenon DEF unresolved_calls, UnresolvedAt
<1>4. rust_overrides(merged) = RustOverridesAt(snapshot, build)
  <2>1. {merged[r]["rust"].definitions : r \in with_sources("rust")}
          = {AnalysisOf(KeyAt(snapshot, build, r))["rust"].definitions : r \in WithSourcesAt(snapshot, "rust")}
    BY <1>1, <1>2
  <2>2. PICK definitions :
          /\ definitions = UNION {merged[r]["rust"].definitions : r \in with_sources("rust")}
          /\ definitions = UNION {AnalysisOf(KeyAt(snapshot, build, r))["rust"].definitions :
                                    r \in WithSourcesAt(snapshot, "rust")}
    BY <2>1
  <2>3. rust_overrides(merged) =
          {[call |-> c, target |-> unique_definition(c, definitions)] :
             c \in {c \in unresolved_calls(merged, "rust") : unique_definition(c, definitions) # {}}}
    BY <2>2, Zenon DEF rust_overrides
  <2>4. RustOverridesAt(snapshot, build) =
          {[call |-> c, target |-> unique_definition(c, definitions)] :
             c \in {c \in UnresolvedAt(snapshot, build, "rust") : unique_definition(c, definitions) # {}}}
    BY <2>2, Zenon DEF RustOverridesAt
  <2>5. unresolved_calls(merged, "rust") = UnresolvedAt(snapshot, build, "rust")
    BY <1>3
  <2>. QED
    BY <2>3, <2>4, <2>5
<1>5. \A r : PreparedAt(snapshot, build, r, "typescript") = prepare_repository(r, "typescript")
  BY DEF PreparedAt, prepare_repository, ActiveAt, activate, has_sources
<1>6. \A r : exports(m, d, r) = ExportsAt(snapshot, build, r)
  BY <1>5, TypescriptFound DEF exports, ExportsAt
<1>7. \A p : packages(p) = PackagesAt(snapshot, p)
  BY <1>1 DEF packages, PackagesAt
<1>. DEFINE target(c) == IF c.package # None /\ Cardinality(packages(c.package)) = 1
                           THEN {e \in exports(m, d, TheOnly(packages(c.package))) : e.name = c.name}
                           ELSE {}
<1>8. \A c : target(c) = TargetAt(snapshot, build, c)
  BY <1>6, <1>7 DEF TargetAt
<1>9. resolve_workspace_calls(m, d, merged) =
        IF Cardinality(with_sources("typescript")) < 2 THEN {}
          ELSE {[call |-> c, target |-> target(c)] :
                  c \in {c \in unresolved_calls(merged, "typescript") : target(c) # {}}}
  BY Zenon DEF resolve_workspace_calls
<1>. HIDE DEF target
<1>10. unresolved_calls(merged, "typescript") = UnresolvedAt(snapshot, build, "typescript")
  BY <1>3
<1>11. {[call |-> c, target |-> target(c)] :
           c \in {c \in unresolved_calls(merged, "typescript") : target(c) # {}}}
         = {[call |-> c, target |-> TargetAt(snapshot, build, c)] :
              c \in {c \in UnresolvedAt(snapshot, build, "typescript") : TargetAt(snapshot, build, c) # {}}}
  BY <1>8, <1>10
<1>12. resolve_workspace_calls(m, d, merged) = WorkspaceCallsAt(snapshot, build)
  BY <1>1, <1>9, <1>11, Zenon DEF WorkspaceCallsAt
<1>. QED
  BY <1>4, <1>12 DEF OverridesAt

(* What the analysis of the workspace has for a repository.                 *)
LEMMA MergedAgree ==
    ASSUME NEW m, NEW d, NEW online, NEW excused, GoodMemory(m, excused), GoodDisk(d, excused),
           NEW r \in Repositories
    PROVE  LET merged == repositories(m, d, online)
           IN /\ r \in cached(m, d) =>
                    AnalysesAgree(merged[r], AnalysisOf(repository_key(r)), repository_key(r) \in excused)
              /\ r \notin cached(m, d) =>
                    /\ AnalysesAgree(merged[r], AnalysisOf(repository_key(r)), has_failure(merged[r]))
                    /\ merged[r] = RepositoryAnalysis(m, d, online, r)
<1>1. PICK merged : merged = repositories(m, d, online)
  OBVIOUS
<1>2. merged[r] = IF r \in cached(m, d) THEN TheOnly(lookup_repository(m, d, r))
                                        ELSE RepositoryAnalysis(m, d, online, r)
  BY <1>1 DEF repositories
<1>3. r \in cached(m, d) => AnalysesAgree(merged[r], AnalysisOf(repository_key(r)), repository_key(r) \in excused)
  BY <1>2, CachedAgrees
<1>4. ASSUME r \notin cached(m, d)
      PROVE  /\ AnalysesAgree(merged[r], AnalysisOf(repository_key(r)), has_failure(merged[r]))
             /\ merged[r] = RepositoryAnalysis(m, d, online, r)
  BY <1>2, <1>4, AnalysisNow DEF GoodMemory, GoodDisk
<1>. QED
  BY <1>1, <1>3, <1>4

(* An analysis of the workspace is fresh.                                   *)
LEMMA AnalysisFreshNow ==
    ASSUME NEW m, NEW d, NEW online, NEW excused, NEW still,
           GoodMemory(m, excused), GoodDisk(d, excused),
           \A k \in excused : k \in still \/ \E r \in Repositories \ cached(m, d) : k = repository_key(r),
           \A r \in Repositories \ cached(m, d) :
              has_failure(repositories(m, d, online)[r]) => repository_key(r) \in still
    PROVE  FreshAt(WorkspaceAnalysis(m, d, online), snapshot, build, still)
<1>1. PICK merged, x : merged = repositories(m, d, online) /\ x = WorkspaceAnalysis(m, d, online)
  OBVIOUS
<1>2. /\ x.repositories = merged
      /\ x.overrides = rust_overrides(merged) \cup resolve_workspace_calls(m, d, merged)
  BY <1>1 DEF WorkspaceAnalysis
<1>3. ASSUME NEW r \in Repositories
      PROVE  AnalysesAgree(merged[r], AnalysisOf(repository_key(r)), repository_key(r) \in still)
  <2>1. CASE r \in cached(m, d)
    <3>1. AnalysesAgree(merged[r], AnalysisOf(repository_key(r)), repository_key(r) \in excused)
      BY <1>1, <2>1, MergedAgree
    <3>2. repository_key(r) \in excused => repository_key(r) \in still
      BY <2>1, KeysDiffer
    <3>. QED
      BY <3>1, <3>2 DEF AnalysesAgree
  <2>2. CASE r \notin cached(m, d)
    <3>1. AnalysesAgree(merged[r], AnalysisOf(repository_key(r)), has_failure(merged[r]))
      BY <1>1, <2>2, MergedAgree
    <3>2. has_failure(merged[r]) => repository_key(r) \in still
      BY <1>1, <2>2
    <3>. QED
      BY <3>1, <3>2 DEF AnalysesAgree
  <2>. QED
    BY <2>1, <2>2
<1>4. \A r \in Repositories : \A l \in languages(r) \ {"protobuf"} :
        /\ merged[r][l].calls = AnalysisOf(repository_key(r))[l].calls
        /\ l = "rust" => merged[r][l] = AnalysisOf(repository_key(r))[l]
  <2>. SUFFICES ASSUME NEW r \in Repositories, NEW l \in languages(r) \ {"protobuf"}
                PROVE  /\ merged[r][l].calls = AnalysisOf(repository_key(r))[l].calls
                       /\ l = "rust" => merged[r][l] = AnalysisOf(repository_key(r))[l]
    OBVIOUS
  <2>1. PICK k : k = repository_key(r)
    OBVIOUS
  <2>2. /\ DOMAIN AnalysisOf(k) = languages(r)
        /\ AnalysisOf(k)[l] = ContributionOf(k, l)
    BY <2>1, KeyTells DEF AnalysisOf
  <2>3. facts(l, merged[r][l]) = facts(l, AnalysisOf(k)[l])
    BY <1>3, <2>1, <2>2 DEF AnalysesAgree
  <2>4. CASE l = "rust"
    BY <2>1, <2>3, <2>4 DEF facts
  <2>5. CASE l = "typescript"
    <3>1. PICK semantic : ContributionOf(k, l) = TypescriptOf(semantic)
      BY <2>5 DEF ContributionOf
    <3>2. unplaced(merged[r][l]) = unplaced(TypescriptOf(semantic))
      BY <2>2, <2>3, <2>5, <3>1 DEF facts
    <3>. QED
      BY <2>1, <2>2, <2>5, <3>1, <3>2, SameCalls
  <2>. QED
    BY <2>4, <2>5 DEF languages, Languages
<1>5. x.overrides = OverridesAt(snapshot, build)
  BY <1>2, <1>4, OverridesNow DEF GoodMemory, GoodDisk
<1>6. \A r \in Repositories :
        AnalysesAgree(x.repositories[r], AnalysisOf(KeyAt(snapshot, build, r)), KeyAt(snapshot, build, r) \in still)
  BY <1>2, <1>3, KeyNow
<1>. QED
  BY <1>1, <1>5, <1>6 DEF FreshAt

(* Without a cache and with a network nothing fails.                        *)
LEMMA ColdIsFresh == FreshAt(WorkspaceAnalysis(EmptyMemory, EmptyDisk, TRUE), snapshot, build, {})
<1>1. GoodMemory(EmptyMemory, {}) /\ GoodDisk(EmptyDisk, {})
  BY EmptyIsGood
<1>2. ASSUME NEW r \in Repositories \ cached(EmptyMemory, EmptyDisk),
             has_failure(repositories(EmptyMemory, EmptyDisk, TRUE)[r])
      PROVE  FALSE
  <2>1. repositories(EmptyMemory, EmptyDisk, TRUE)[r] = RepositoryAnalysis(EmptyMemory, EmptyDisk, TRUE, r)
    BY <1>1, <1>2, MergedAgree
  <2>2. PICK a : a = RepositoryAnalysis(EmptyMemory, EmptyDisk, TRUE, r)
    OBVIOUS
  <2>3. "protobuf" \in DOMAIN a /\ a["protobuf"].failure
    BY <1>2, <2>1, <2>2 DEF has_failure
  <2>4. DOMAIN a = languages(r) /\ compiles(EmptyMemory, EmptyDisk, TRUE, r)
    BY <2>2, <1>1, AnalysisNow DEF compiles, GoodMemory, GoodDisk
  <2>5. a["protobuf"] = protobuf_contribution(EmptyMemory, EmptyDisk, TRUE, r)
    BY <2>2, <2>3, <2>4 DEF RepositoryAnalysis
  <2>6. ~protobuf_contribution(EmptyMemory, EmptyDisk, TRUE, r).failure
    BY <2>4 DEF protobuf_contribution, Contribution
  <2>. QED
    BY <2>3, <2>5, <2>6
<1>3. PICK none : none = {}
  OBVIOUS
<1>4. /\ GoodMemory(EmptyMemory, none) /\ GoodDisk(EmptyDisk, none)
      /\ \A k \in none : k \in none \/ \E r \in Repositories \ cached(EmptyMemory, EmptyDisk) : k = repository_key(r)
      /\ \A r \in Repositories \ cached(EmptyMemory, EmptyDisk) :
            has_failure(repositories(EmptyMemory, EmptyDisk, TRUE)[r]) => repository_key(r) \in none
  BY <1>1, <1>2, <1>3
<1>5. FreshAt(WorkspaceAnalysis(EmptyMemory, EmptyDisk, TRUE), snapshot, build, none)
  BY <1>4, AnalysisFreshNow
<1>. QED
  BY <1>3, <1>5

(***************************************************************************)
(* The invariant: every level of the caches holds what its keys define,    *)
(* but for the Protobuf facts of the failed keys, and the last analysis is *)
(* that of the inputs.                                                     *)
(***************************************************************************)
IndexerInv ==
    /\ GoodMemory(memory, failed)
    /\ GoodDisk(disk, failed)
    /\ \A x \in result : FreshAt(x, snapshot, build, failed)

(* The invariant implies the property that the run checks.                  *)
LEMMA FreshIsFresh == IndexerInv => AnalysisIsFresh
<1>. SUFFICES ASSUME IndexerInv, NEW x \in result
              PROVE  LET cold == WorkspaceAnalysis(EmptyMemory, EmptyDisk, TRUE)
                         same(r, l) == facts(l, x.repositories[r][l]) = facts(l, cold.repositories[r][l])
                     IN /\ x.overrides = cold.overrides
                        /\ \A r \in Repositories :
                             /\ DOMAIN x.repositories[r] = languages(r)
                             /\ \A l \in languages(r) :
                                  same(r, l) \/ (l = "protobuf" /\ repository_key(r) \in failed)
  BY DEF AnalysisIsFresh
<1>1. PICK cold : cold = WorkspaceAnalysis(EmptyMemory, EmptyDisk, TRUE)
  OBVIOUS
<1>2. FreshAt(cold, snapshot, build, {}) /\ FreshAt(x, snapshot, build, failed)
  BY <1>1, ColdIsFresh DEF IndexerInv
<1>3. x.overrides = cold.overrides
  BY <1>2 DEF FreshAt
<1>4. ASSUME NEW r \in Repositories
      PROVE  /\ DOMAIN x.repositories[r] = languages(r)
             /\ \A l \in languages(r) :
                  \/ facts(l, x.repositories[r][l]) = facts(l, cold.repositories[r][l])
                  \/ l = "protobuf" /\ repository_key(r) \in failed
  <2>1. DOMAIN AnalysisOf(repository_key(r)) = languages(r)
    BY KeyTells DEF AnalysisOf
  <2>2. /\ AnalysesAgree(x.repositories[r], AnalysisOf(repository_key(r)), repository_key(r) \in failed)
        /\ AnalysesAgree(cold.repositories[r], AnalysisOf(repository_key(r)), repository_key(r) \in {})
    BY <1>2, KeyNow DEF FreshAt
  <2>. QED
    BY <2>1, <2>2 DEF AnalysesAgree
<1>. QED
  BY <1>1, <1>3, <1>4

(* A good memory stays good as long as the daemon runs.                     *)
LEMMA SameMemory ==
    ASSUME NEW m, NEW excused, GoodMemory(m, excused), UNCHANGED build,
           memory' = m, failed' = excused
    PROVE  GoodMemory(memory, failed)'
<1>1. build'.frontend = build.frontend
  OBVIOUS
<1>2. SoundFiles(memory.files)'
  BY <1>1 DEF GoodMemory, SoundMemory, SoundFiles
<1>3. SoundMemory(memory)'
  BY <1>2 DEF GoodMemory, SoundMemory
<1>. QED
  BY <1>3 DEF GoodMemory

(* An analysis, whatever of it is lost.                                     *)
LEMMA AnalyzeInv ==
    ASSUME IndexerInv, result = {}, NEW lost, Analyze(lost), UNCHANGED <<snapshot, build>>
    PROVE  IndexerInv'
<1>. DEFINE m == analyzer_memory(prepared(memory, disk), disk, network)
            d == IF "analyzers" \in lost THEN disk ELSE analyzer_disk(memory, disk, network)
            analyzed == WorkspaceAnalysis(memory, disk, network)
            merged == analyzed.repositories
            R == Repositories \ cached(memory, disk)
            stored == stored_disk(m, d, merged, R, lost)
            still == lacking_dependency(stored, failed, R, merged)
<1>1. GoodMemory(memory, failed) /\ GoodDisk(disk, failed)
  BY DEF IndexerInv
<1>2. GoodMemory(m, failed)
  BY <1>1, PreparedIsGood, AnalyzerMemoryIsGood DEF GoodDisk
<1>3. GoodDisk(d, failed)
  BY <1>1, AnalyzerDiskIsGood DEF GoodMemory
<1>4. merged = repositories(memory, disk, network)
  BY DEF WorkspaceAnalysis
<1>5. \A r \in R : AnalysesAgree(merged[r], AnalysisOf(repository_key(r)), has_failure(merged[r]))
  BY <1>1, <1>4, MergedAgree
<1>6. \/ memory' = m /\ disk' = d /\ UNCHANGED <<result, failed>>
      \/ /\ memory' = stored_memory(m, merged, R)
         /\ disk' = stored
         /\ result' = {analyzed}
         /\ failed' = still
  BY Zenon DEF Analyze
<1>. HIDE DEF m, d, R, merged
<1>7. GoodMemory(stored_memory(m, merged, R), still) /\ GoodDisk(stored, still)
  BY <1>2, <1>3, <1>5, StoredIsGood
<1>8. Stores(m, d, stored, R, merged) /\ failed \subseteq DOMAIN d.path
  BY <1>2, <1>3, StoredDiskStores DEF GoodDisk
<1>9. /\ \A k \in failed : k \in still \/ \E r \in R : k = repository_key(r)
      /\ \A r \in R : has_failure(merged[r]) => repository_key(r) \in still
  BY <1>8, StillExcused
<1>10. FreshAt(analyzed, snapshot, build, still)
  BY <1>1, <1>4, <1>9, AnalysisFreshNow DEF R
<1>. HIDE DEF stored, still, analyzed
<1>11. CASE memory' = m /\ disk' = d /\ UNCHANGED <<result, failed>>
  <2>1. GoodMemory(memory, failed)'
    BY <1>2, <1>11, SameMemory
  <2>2. GoodDisk(disk', failed')
    BY <1>3, <1>11
  <2>3. result' = {}
    BY <1>11
  <2>. QED
    BY <2>1, <2>2, <2>3 DEF IndexerInv
<1>12. CASE /\ memory' = stored_memory(m, merged, R)
            /\ disk' = stored
            /\ result' = {analyzed}
            /\ failed' = still
  <2>1. GoodMemory(memory, failed)'
    BY <1>7, <1>12, SameMemory
  <2>2. GoodDisk(disk', failed')
    BY <1>7, <1>12
  <2>3. \A x \in result' : FreshAt(x, snapshot', build', failed')
    BY <1>10, <1>12
  <2>. QED
    BY <2>1, <2>2, <2>3 DEF IndexerInv
<1>. QED
  BY <1>6, <1>11, <1>12

(* A step that forgets the result and leaves the caches.                    *)
LEMMA ChangeInv ==
    ASSUME IndexerInv, result' = {}, UNCHANGED <<memory, disk, failed, build>>
    PROVE  IndexerInv'
<1>1. GoodMemory(memory, failed) /\ GoodDisk(disk, failed)
  BY DEF IndexerInv
<1>2. GoodMemory(memory, failed)'
  BY <1>1, SameMemory
<1>3. GoodDisk(disk', failed')
  BY <1>1
<1>. QED
  BY <1>2, <1>3 DEF IndexerInv

(* An empty memory is good for any daemon.                                  *)
LEMMA NewMemory ==
    ASSUME memory' = EmptyMemory
    PROVE  GoodMemory(memory, failed)'
<1>1. /\ EmptyMemory.repository = Empty /\ EmptyMemory.latest = Empty
      /\ EmptyMemory.files = Empty /\ EmptyMemory.sources = Empty
      /\ EmptyMemory.contributions = Empty /\ DOMAIN Empty = {}
      /\ MemoryFields \subseteq DOMAIN EmptyMemory
  BY DEF EmptyMemory, Empty, MemoryFields
<1>2. SoundMemory(memory)'
  BY <1>1 DEF SoundMemory, SoundSources, SoundFiles
<1>3. RepositoriesAgree(memory', failed') /\ LatestAgree(memory', failed')
  BY <1>1 DEF RepositoriesAgree, LatestAgree
<1>. QED
  BY <1>1, <1>2, <1>3 DEF GoodMemory

(* The caches are good when nothing is cached.                              *)
LEMMA IndexerInitInv == IndexerInit => IndexerInv
BY EmptyIsGood DEF IndexerInit, IndexerInv

(* Every step keeps the caches good: edits, restarts with another build, a  *)
(* change of the network, failed writes, cleared caches and analyses.       *)
LEMMA IndexerStep == IndexerInv /\ [IndexerNext]_indexerVars => IndexerInv'
<1>. SUFFICES ASSUME IndexerInv, [IndexerNext]_indexerVars PROVE IndexerInv'
  OBVIOUS
<1>1. CASE analyze
  BY <1>1, AnalyzeInv DEF analyze
<1>2. CASE write_fails
  <2>1. PICK x : Analyze({x})
    BY <1>2 DEF write_fails
  <2>. QED
    BY <1>2, <2>1, AnalyzeInv DEF write_fails
<1>3. CASE clear_cache
  <2>1. GoodMemory(memory, failed)'
    BY <1>3, NewMemory DEF clear_cache
  <2>2. GoodDisk(disk', failed') /\ result' = {}
    BY <1>3, EmptyIsGood DEF clear_cache
  <2>. QED
    BY <2>1, <2>2 DEF IndexerInv
<1>4. CASE \E r \in Repositories : \E c \in Contents[r] : edit(r, c)
  <2>1. result' = {} /\ UNCHANGED <<memory, disk, failed, build>>
    BY <1>4 DEF edit, change
  <2>. QED
    BY <2>1, ChangeInv
<1>5. CASE \E b \in Builds : restart(b)
  <2>1. result' = {} /\ memory' = EmptyMemory /\ UNCHANGED <<disk, failed>>
    BY <1>5 DEF restart, change
  <2>2. GoodMemory(memory, failed)'
    BY <2>1, NewMemory
  <2>3. GoodDisk(disk', failed')
    BY <2>1 DEF IndexerInv
  <2>. QED
    BY <2>1, <2>2, <2>3 DEF IndexerInv
<1>6. CASE network_changes
  <2>1. result' = {} /\ UNCHANGED <<memory, disk, failed, build>>
    BY <1>6 DEF network_changes, change
  <2>. QED
    BY <2>1, ChangeInv
<1>7. CASE UNCHANGED indexerVars
  <2>1. UNCHANGED <<snapshot, build, memory, disk, result, failed>>
    BY <1>7 DEF indexerVars
  <2>2. GoodMemory(memory, failed)'
    BY <2>1, SameMemory DEF IndexerInv
  <2>3. GoodDisk(disk', failed') /\ \A x \in result' : FreshAt(x, snapshot', build', failed')
    BY <2>1 DEF IndexerInv
  <2>. QED
    BY <2>2, <2>3 DEF IndexerInv
<1>. QED
  BY <1>1, <1>2, <1>3, <1>4, <1>5, <1>6, <1>7 DEF IndexerNext

(* Whatever is cached in memory or under cache_dir, at each of the four     *)
(* levels, is a function of the key it is cached under                      *)
(* (indexing/src/lib.rs, lookup_repository and store_repository), through   *)
(* every sequence of edits, restarts, network changes and faults.  Excused  *)
(* are the Protobuf facts of keys that failed to download a dependency, and *)
(* the lines of TypeScript facts that have no range: the key leaves them    *)
(* out and the cached contribution has them.                                *)
THEOREM CachesStayGood == IndexerSpec => []IndexerInv
<1>. QED
  BY IndexerInitInv, IndexerStep, PTL DEF IndexerSpec

(* analyze_workspace returns, from any mixture of cached and recomputed     *)
(* repositories, what an analysis without any cache returns, for any        *)
(* repositories, contents and builds: every fact, every range and every     *)
(* target; the lines of TypeScript facts without a range may be old ones.   *)
THEOREM AnalysesFresh == IndexerSpec => []AnalysisIsFresh
<1>. QED
  BY CachesStayGood, FreshIsFresh, PTL
=============================================================================
