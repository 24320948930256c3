--------------------------- MODULE SemanticStore ---------------------------
(***************************************************************************)
(* The semantic store of crates/adapters-mnestic: immutable repository      *)
(* states, revisions of views that select them, content-addressed           *)
(* enrichment snapshots, and the garbage collector that removes, batch by   *)
(* batch and beside the publications, what no revision selects.             *)
(*                                                                         *)
(* Every write is one database transaction under the engine mutex           *)
(* (SemanticStore::access), so a publication, an enrichment, a deletion     *)
(* and a claim are one action each.  The sweep is not: it selects a batch   *)
(* on its own connection without the mutex and removes it in a later        *)
(* transaction, relation after relation, so that everything above can       *)
(* happen in between.                                                       *)
(*                                                                         *)
(* Abstractions.  A view has one repository and one analyzer.  Of the five  *)
(* fact relations of a state, the five contribution relations of a          *)
(* snapshot and the eighteen relations of a revision the model keeps those  *)
(* the code treats differently, in the order in which the sweep visits      *)
(* them; a relation's rows for one key are one token.                       *)
(***************************************************************************)
EXTENDS Naturals, Sequences, FiniteSets

CONSTANTS
    Views,            \* the names under which analyses are published
    Standalone,       \* the view of the single repository that can be deleted
    Enriched,         \* the views to whose repository an analyzer applies
    States,           \* analyzed states: the hash of a repository's facts
    Snapshots,        \* enrichment snapshot ids: the hash of a payload
    Inputs,           \* enrichment input fingerprints
    None,             \* no value
    MaxRevision,      \* bound: the revisions of one view
    MaxPublications,  \* bound: publications, enrichments and deletions
    MaxStops          \* bound: sweeps interrupted by a stop or a failure

ASSUME KindsOfViews == Standalone \subseteq Views /\ Enriched \subseteq Views
ASSUME BoundsAreNaturals ==
    /\ MaxRevision \in Nat
    /\ MaxPublications \in Nat
    /\ MaxStops \in Nat

VARIABLES
    revision,             \* analysis_revision: view -> current revision, 0 is none
    manifest,             \* the revision relations: view -> revision -> row
    semantic,             \* analysis_semantic_fingerprint: view -> state or None
    repository_revision,  \* analyzed state of the standalone repository, or None
    standalone,           \* the state a standalone run publishes next, or None
    repository_state,     \* the states that exist
    queue,                \* garbage_collection_state
    facts,                \* state -> the fact relations that hold its rows
    shard,                \* analysis_fact_shard_selection: view -> version or None
    names,                \* the shard versions that have entity name rows
    output,               \* enrichment_output: view -> snapshots
    contribution,         \* view -> snapshot -> relations that hold its rows
    sweep,                \* the garbage collector thread
    publications,         \* publications so far
    stops,                \* interrupted sweeps so far
    reselected,           \* history: see ghosts
    recreated,
    requeued

db == <<revision, manifest, semantic, repository_revision, standalone, repository_state,
        queue, facts, shard, names, output, contribution>>

(* Three overlaps of a sweep with the writers are not protected against.    *)
(* The history variables record what each one touched, so that the          *)
(* properties can say what holds of everything else.  reselected: the       *)
(* snapshots an enrichment selected when a sweep had removed contributions  *)
(* but not yet the output row.  recreated: the views of repositories        *)
(* deleted while a sweep held the revision number it had read of the view.  *)
(* requeued: the states queued again while the sweep visited their          *)
(* relations.                                                               *)
ghosts == <<reselected, recreated, requeued>>
vars == <<db, sweep, publications, stops, ghosts>>

(* The relations of each kind, in the order in which the sweep visits them. *)
(* "state" stands for what a revision holds before its metadata (states,    *)
(* heads, inputs, contexts), "selection" for what comes after it.           *)
FactSteps == <<"observation", "entity">>
RevisionSteps == <<"state", "metadata", "selection">>
ContributionSteps == <<"entity", "observation">>

FactRelations == {FactSteps[i] : i \in 1..Len(FactSteps)}
ContributionRelations == {ContributionSteps[i] : i \in 1..Len(ContributionSteps)}

Revisions == 1..MaxRevision

(* A row of analysis_revision_repository_enrichment and the rows one        *)
(* revision holds.                                                          *)
Selections == [owner : Snapshots, input : Inputs]
Rows == [state : States \cup {None}, input : Inputs \cup {None},
         metadata : BOOLEAN, selection : Selections \cup {None}]
NoRow == [state |-> None, input |-> None, metadata |-> FALSE, selection |-> None]

(* None is told apart from every value it can stand in for. *)
ASSUME NoneIsNoValue ==
    /\ None \notin States \cup Snapshots \cup Inputs \cup Views \cup (Views \X Snapshots)
    /\ None \notin Selections \cup [state : States, snapshot : Snapshots \cup {None}]

Idle == [phase |-> "idle", todo |-> {}, item |-> None, step |-> 1, batch |-> {},
         current |-> [v \in Views |-> 0]]

Init ==
    /\ revision = [v \in Views |-> 0]
    /\ manifest = [v \in Views |-> [n \in Revisions |-> NoRow]]
    /\ semantic = [v \in Views |-> None]
    /\ repository_revision = None
    /\ standalone = None
    /\ repository_state = {}
    /\ queue = {}
    /\ facts = [s \in States |-> {}]
    /\ shard = [v \in Views |-> None]
    /\ names = {}
    /\ output = [v \in Views |-> {}]
    /\ contribution = [v \in Views |-> [x \in Snapshots |-> {}]]
    /\ sweep = Idle
    /\ publications = 0
    /\ stops = 0
    /\ reselected = {}
    /\ recreated = {}
    /\ requeued = {}

-----------------------------------------------------------------------------
(* Reading the store.                                                       *)

(* The rows of a view's current revision. *)
Current(v) == IF revision[v] = 0 THEN NoRow ELSE manifest[v][revision[v]]

(* live_state: the states some current revision or the standalone           *)
(* repository selects.                                                      *)
live_state == {Current(v).state : v \in Views} \cup {repository_revision}

(* Snapshots any stored revision of the view selects, superseded ones too. *)
selected_snapshot(v) ==
    {manifest[v][n].selection.owner : n \in {k \in Revisions : manifest[v][k].selection # None}}

(* Entity-complete semantics: an observation names only entities that the   *)
(* selected contributions hold.                                             *)
validate_selected_semantics(relations) == "observation" \in relations => "entity" \in relations

(* Mutant: only queued states make a sweep worth starting. *)
MutantPendingStates == queue # {}

garbage_collection_pending ==
    \/ queue # {}
    \/ \E v \in Views, n \in Revisions : n < revision[v] /\ manifest[v][n].metadata
    \/ \E v \in Views : ~ output[v] \subseteq selected_snapshot(v)
    \/ ~ names \subseteq {shard[v] : v \in Views}

-----------------------------------------------------------------------------
(* Publication.                                                             *)

(* The facts of a state are written only when the state does not exist.     *)
store_state(s) ==
    /\ facts' = IF s \in repository_state THEN facts ELSE [facts EXCEPT ![s] = FactRelations]
    /\ repository_state' = repository_state \cup {s}

(* The first half of a standalone run: the repository's own revision. *)
publish_repository(s) ==
    /\ standalone = None
    /\ publications < MaxPublications
    /\ store_state(s)
    /\ repository_revision' = s
    /\ standalone' = s
    /\ publications' = publications + 1
    /\ UNCHANGED <<revision, manifest, semantic, queue, shard, names, output, contribution,
                   sweep, stops, ghosts>>

(* A standalone run publishes its view from the facts it just stored; any   *)
(* other view is published on its own.                                      *)
admitted(v, s) ==
    IF v \in Standalone
      THEN standalone = s /\ publications' = publications
      ELSE publications < MaxPublications /\ publications' = publications + 1

standalone_done(v) == IF v \in Standalone THEN None ELSE standalone

(* The rows of a copy of the current revision that selects another snapshot. *)
copy_revision(v, selection) == [Current(v) EXCEPT !.selection = selection]

(* The inputs of the current revision are replaced, and a selection whose   *)
(* analyzer has no input any more is dropped in a revision of its own.      *)
replace_inputs(v, i) ==
    LET row == [Current(v) EXCEPT !.input = i]
        copy == [copy_revision(v, None) EXCEPT !.input = i]
        obsolete == i = None /\ row.selection # None
        n == revision[v] + 1
    IN IF obsolete
         THEN /\ n \in Revisions
              /\ revision' = [revision EXCEPT ![v] = n]
              /\ manifest' = [manifest EXCEPT ![v][n - 1] = row,
                                              ![v][n] = copy]
         ELSE /\ manifest' = [manifest EXCEPT ![v][n - 1] = row]
              /\ UNCHANGED revision

(* Publishing what the view already shows only replaces its inputs. *)
refresh_semantic_noop(v, s, i) ==
    /\ semantic[v] = s
    /\ Current(v).state # None
    /\ admitted(v, s)
    /\ replace_inputs(v, i)
    /\ LET kept == manifest'[v][revision'[v]].selection
       IN kept # None => validate_selected_semantics(contribution[v][kept.owner])
    /\ standalone' = standalone_done(v)
    /\ UNCHANGED <<semantic, repository_revision, repository_state, queue, facts, shard, names,
                   output, contribution, sweep, stops, ghosts>>

(* A changed set of analyzers replaces the inputs of a published view. *)
ensure_revision_inputs(v, i) ==
    /\ revision[v] # 0
    /\ publications < MaxPublications
    /\ replace_inputs(v, i)
    /\ publications' = publications + 1
    /\ UNCHANGED <<semantic, repository_revision, standalone, repository_state, queue, facts,
                   shard, names, output, contribution, sweep, stops, ghosts>>

(* Selections go along to the next revision unless their analyzer has no    *)
(* input there.                                                             *)
carry_forward(v, i) == IF i = None THEN None ELSE Current(v).selection

(* The rows a publication stores for its revision: the repository's state   *)
(* and head, the inputs and the metadata.                                   *)
store_analysis_metadata(s, i, selection) ==
    [state |-> s, input |-> i, metadata |-> TRUE, selection |-> selection]

(* The whole publication of a view: its shards, its state, the next         *)
(* revision, and the enrichment selections carried forward.                 *)
publish_observations(v, s, i) ==
    LET n == revision[v] + 1
        carried == carry_forward(v, i)
    IN /\ semantic[v] # s
       /\ n \in Revisions
       /\ admitted(v, s)
       /\ carried # None => validate_selected_semantics(contribution[v][carried.owner])
       /\ names' = IF shard[v] = s THEN names ELSE names \cup {s}
       /\ shard' = [shard EXCEPT ![v] = s]
       /\ store_state(s)
       /\ revision' = [revision EXCEPT ![v] = n]
       /\ manifest' = [manifest EXCEPT ![v][n] = store_analysis_metadata(s, i, carried)]
       /\ semantic' = [semantic EXCEPT ![v] = s]
       /\ standalone' = standalone_done(v)
       /\ UNCHANGED <<repository_revision, queue, output, contribution, sweep, stops, ghosts>>

(* A standalone run that ends between its two transactions. *)
abandon_standalone ==
    /\ standalone # None
    /\ stops < MaxStops
    /\ standalone' = None
    /\ stops' = stops + 1
    /\ UNCHANGED <<revision, manifest, semantic, repository_revision, repository_state, queue,
                   facts, shard, names, output, contribution, sweep, publications, ghosts>>

(* The relations that hold a snapshot's contributions: those of a snapshot  *)
(* without output row are stored, the others are left as they are.          *)
store_enrichment_outputs(v, x) ==
    IF x \in output[v] THEN contribution[v][x] ELSE ContributionRelations

(* The snapshot is stored unless its enrichment_output row exists; the next *)
(* revision selects it.  An input that is not the current one is answered   *)
(* Superseded and the same selection Unchanged: both leave the store alone. *)
publish_enrichment(v, x) ==
    LET row == Current(v)
        n == revision[v] + 1
        selection == [owner |-> x, input |-> row.input]
        stored == store_enrichment_outputs(v, x)
    IN /\ row.input # None
       /\ row.selection # selection
       /\ n \in Revisions
       /\ publications < MaxPublications
       /\ validate_selected_semantics(stored)
       /\ contribution' = [contribution EXCEPT ![v][x] = stored]
       /\ output' = [output EXCEPT ![v] = @ \cup {x}]
       /\ reselected' = IF stored = ContributionRelations THEN reselected \ {<<v, x>>}
                                                         ELSE reselected \cup {<<v, x>>}
       /\ revision' = [revision EXCEPT ![v] = n]
       /\ manifest' = [manifest EXCEPT ![v][n] = copy_revision(v, selection)]
       /\ publications' = publications + 1
       /\ UNCHANGED <<semantic, repository_revision, standalone, repository_state, queue, facts,
                      shard, names, sweep, stops, recreated, requeued>>

(* Queueing the state the sweep is visiting. *)
requeue(stale) ==
    requeued' = (requeued \ stale)
                \cup IF sweep.phase = "states" THEN stale \cap {sweep.item} ELSE {}

(* Deleting a repository removes everything its view holds and queues the   *)
(* state its own revision held, unless another view shows it.  It waits for *)
(* a standalone run (begin_repository), not for a sweep.                    *)
delete_repository_revision(v) ==
    /\ v \in Standalone
    /\ repository_revision # None
    /\ standalone = None
    /\ publications < MaxPublications
    /\ LET s == repository_revision
           live == {Current(w).state : w \in Views \ {v}}
           stale == {s} \ live
       IN /\ queue' = queue \cup (stale \cap repository_state)
          /\ requeue(stale)
          /\ repository_state' = repository_state \ stale
    /\ repository_revision' = None
    /\ revision' = [revision EXCEPT ![v] = 0]
    /\ manifest' = [manifest EXCEPT ![v] = [n \in Revisions |-> NoRow]]
    /\ semantic' = [semantic EXCEPT ![v] = None]
    /\ shard' = [shard EXCEPT ![v] = None]
    /\ output' = [output EXCEPT ![v] = {}]
    /\ contribution' = [contribution EXCEPT ![v] = [x \in Snapshots |-> {}]]
    /\ publications' = publications + 1
    /\ recreated' = IF sweep.phase = "revisions" /\ sweep.current[v] # 0
                      THEN recreated \cup {v} ELSE recreated \ {v}
    /\ UNCHANGED <<standalone, facts, names, sweep, stops, reselected>>

-----------------------------------------------------------------------------
(* Garbage collection.                                                      *)

(* The claim moves every state nothing selects from repository_state to the *)
(* queue.  A collector that saw no sweep running may still claim after      *)
(* another one started it, so the sweep's phase is no guard.                *)
claim_garbage_collection ==
    LET stale == repository_state \ live_state
    IN /\ stale # {}
       /\ queue' = queue \cup stale
       /\ requeue(stale)
       /\ repository_state' = repository_state \ stale
       /\ UNCHANGED <<revision, manifest, semantic, repository_revision, standalone, facts, shard,
                      names, output, contribution, sweep, publications, stops, reselected,
                      recreated>>

(* The relations the sweep visits for one item of a phase. *)
steps(phase) ==
    CASE phase = "states" -> Len(FactSteps)
      [] phase = "revisions" -> Len(RevisionSteps)
      [] phase = "names" -> 1
      [] phase = "snapshots" -> Len(ContributionSteps)
      [] OTHER -> 0

has_row(row, relation) ==
    CASE relation = "state" -> row.state # None
      [] relation = "metadata" -> row.metadata
      [] relation = "selection" -> row.selection # None

without_row(row, relation) ==
    CASE relation = "state" -> [row EXCEPT !.state = None, !.input = None]
      [] relation = "metadata" -> [row EXCEPT !.metadata = FALSE]
      [] relation = "selection" -> [row EXCEPT !.selection = None]

unselected_names == names \ {shard[v] : v \in Views}

(* What the select script of the current relation returns. *)
select_script ==
    LET item == sweep.item
        step == sweep.step
    IN CASE sweep.phase = "states" -> {item} \cap {s \in States : FactSteps[step] \in facts[s]}
         [] sweep.phase = "revisions" ->
                {n \in Revisions : /\ n < sweep.current[item]
                                   /\ has_row(manifest[item][n], RevisionSteps[step])}
         [] sweep.phase = "names" -> unselected_names
         [] sweep.phase = "snapshots" ->
                {item} \cap {o \in Views \X Snapshots :
                                ContributionSteps[step] \in contribution[o[1]][o[2]]}

(* sweep_garbage_collection starts with the states queued at that moment. *)
start_sweep ==
    /\ sweep.phase = "idle"
    /\ garbage_collection_pending
    /\ sweep' = [Idle EXCEPT !.phase = "states", !.todo = queue]
    /\ UNCHANGED <<db, publications, stops, ghosts>>

(* The rows of a query come in key order, so its first row is determined. *)
first_row(rows) == CHOOSE row \in rows : TRUE

(* Mutant: a state leaves the queue before its relations are swept. *)
MutantDequeueFirst ==
    /\ sweep.phase \in {"states", "revisions"}
    /\ sweep.item = None
    /\ sweep.todo # {}
    /\ LET item == first_row(sweep.todo)
       IN /\ sweep' = [sweep EXCEPT !.todo = @ \ {item}, !.item = item, !.step = 1]
          /\ queue' = queue \ {item}
    /\ UNCHANGED <<revision, manifest, semantic, repository_revision, standalone,
                   repository_state, facts, shard, names, output, contribution,
                   publications, stops, ghosts>>

(* The next queued state or view. *)
next_item ==
    /\ sweep.phase \in {"states", "revisions"}
    /\ sweep.item = None
    /\ sweep.todo # {}
    /\ LET item == first_row(sweep.todo)
       IN sweep' = [sweep EXCEPT !.todo = @ \ {item}, !.item = item, !.step = 1]
    /\ UNCHANGED <<db, publications, stops, ghosts>>

(* After the states the current revisions are read once, for all views;     *)
(* after the views come the entity names of fact shards.                    *)
next_phase ==
    /\ sweep.phase \in {"states", "revisions"}
    /\ sweep.item = None
    /\ sweep.todo = {}
    /\ sweep' = IF sweep.phase = "states"
                  THEN [sweep EXCEPT !.phase = "revisions", !.current = revision,
                                     !.todo = {v \in Views : revision[v] > 0}]
                  ELSE [Idle EXCEPT !.phase = "names"]
    /\ UNCHANGED <<db, publications, stops, ghosts>>

(* The relation is done: the next one, or after the last one of a view the  *)
(* next view and after the names the snapshots.                             *)
next_relation ==
    LET last == sweep.step = steps(sweep.phase)
    IN CASE last /\ sweep.phase = "revisions" -> [sweep EXCEPT !.batch = {}, !.item = None]
         [] last /\ sweep.phase = "names" -> [Idle EXCEPT !.phase = "snapshots"]
         [] OTHER -> [sweep EXCEPT !.batch = {}, !.step = @ + 1]

(* sweep_relation selects a batch outside the engine mutex; an empty batch  *)
(* ends the relation.                                                       *)
select_batch ==
    /\ sweep.phase = "names" \/ sweep.item # None
    /\ sweep.step <= steps(sweep.phase)
    /\ sweep.batch = {}
    /\ sweep' = IF select_script = {} THEN next_relation
                                      ELSE [sweep EXCEPT !.batch = select_script]
    /\ UNCHANGED <<db, publications, stops, ghosts>>

(* The guards re-read under the mutex, in the transaction that removes.     *)
(* Mutants: the removal trusts what was true when its batch was selected. *)
MutantStateGuard == TRUE
MutantSnapshotGuard == TRUE

guard_repository_state == sweep.item \notin repository_state
guard_enrichment_snapshot == sweep.item[2] \notin selected_snapshot(sweep.item[1])

(* A guard that fails ends the relation and removes nothing. *)
guarded(holds) ==
    sweep' = IF holds THEN [sweep EXCEPT !.batch = {}] ELSE next_relation

remove_state_batch ==
    /\ sweep.phase = "states"
    /\ sweep.batch # {}
    /\ guarded(guard_repository_state)
    /\ facts' = IF guard_repository_state
                  THEN [facts EXCEPT ![sweep.item] = @ \ {FactSteps[sweep.step]}]
                  ELSE facts
    /\ UNCHANGED <<revision, manifest, semantic, repository_revision, standalone,
                   repository_state, queue, shard, names, output, contribution,
                   publications, stops, ghosts>>

remove_revision_batch ==
    /\ sweep.phase = "revisions"
    /\ sweep.batch # {}
    /\ guarded(TRUE)
    /\ manifest' = [manifest EXCEPT ![sweep.item] =
                       [n \in Revisions |->
                           IF n \in sweep.batch
                             THEN without_row(@[n], RevisionSteps[sweep.step])
                             ELSE @[n]]]
    /\ UNCHANGED <<revision, semantic, repository_revision, standalone, repository_state, queue,
                   facts, shard, names, output, contribution, publications, stops, ghosts>>

remove_name_batch ==
    /\ sweep.phase = "names"
    /\ sweep.batch # {}
    /\ guarded(TRUE)
    /\ names' = names \ (sweep.batch \cap unselected_names)
    /\ UNCHANGED <<revision, manifest, semantic, repository_revision, standalone,
                   repository_state, queue, facts, shard, output, contribution,
                   publications, stops, ghosts>>

remove_contribution_batch ==
    /\ sweep.phase = "snapshots"
    /\ sweep.batch # {}
    /\ guarded(guard_enrichment_snapshot)
    /\ contribution' = IF guard_enrichment_snapshot
                         THEN [contribution EXCEPT ![sweep.item[1]][sweep.item[2]] =
                                  @ \ {ContributionSteps[sweep.step]}]
                         ELSE contribution
    /\ UNCHANGED <<revision, manifest, semantic, repository_revision, standalone,
                   repository_state, queue, facts, shard, names, output, publications, stops, ghosts>>

(* Every relation of a state has been visited: its queue row goes, whether  *)
(* the state was swept or had come back to life.                            *)
dequeue_state ==
    /\ sweep.phase = "states"
    /\ sweep.item # None
    /\ sweep.step > steps("states")
    /\ queue' = queue \ {sweep.item}
    /\ sweep' = [sweep EXCEPT !.item = None]
    /\ UNCHANGED <<revision, manifest, semantic, repository_revision, standalone,
                   repository_state, facts, shard, names, output, contribution,
                   publications, stops, ghosts>>

(* The next snapshot no revision selects, or the end of the sweep. *)
next_snapshot ==
    LET unselected == {o \in Views \X Snapshots :
                          o[2] \in output[o[1]] /\ o[2] \notin selected_snapshot(o[1])}
    IN /\ sweep.phase = "snapshots"
       /\ sweep.item = None
       /\ sweep' = IF unselected = {} THEN Idle
                   ELSE [sweep EXCEPT !.item = first_row(unselected), !.step = 1]
       /\ UNCHANGED <<db, publications, stops, ghosts>>

(* The output row goes last, unless the snapshot was selected again. *)
remove_output ==
    /\ sweep.phase = "snapshots"
    /\ sweep.item # None
    /\ sweep.step > steps("snapshots")
    /\ output' = IF guard_enrichment_snapshot
                   THEN [output EXCEPT ![sweep.item[1]] = @ \ {sweep.item[2]}]
                   ELSE output
    /\ sweep' = [sweep EXCEPT !.item = None]
    /\ UNCHANGED <<revision, manifest, semantic, repository_revision, standalone,
                   repository_state, queue, facts, shard, names, contribution,
                   publications, stops, ghosts>>

(* progress returned false, a transaction failed for good, or the process   *)
(* ended: what was removed stays removed and the rest is left for later.    *)
stop_sweep ==
    /\ sweep.phase # "idle"
    /\ stops < MaxStops
    /\ stops' = stops + 1
    /\ sweep' = Idle
    /\ UNCHANGED <<db, publications, ghosts>>

sweep_garbage_collection ==
    \/ start_sweep
    \/ next_item
    \/ next_phase
    \/ select_batch
    \/ remove_state_batch
    \/ remove_revision_batch
    \/ remove_name_batch
    \/ remove_contribution_batch
    \/ dequeue_state
    \/ next_snapshot
    \/ remove_output

(* The input a publication records for the analyzer, None without one. *)
inputs(v) == {None} \cup IF v \in Enriched THEN Inputs ELSE {}

Publication ==
    \/ \E s \in States : publish_repository(s)
    \/ \E v \in Views : \E s \in States, i \in inputs(v) :
           publish_observations(v, s, i) \/ refresh_semantic_noop(v, s, i)
    \/ \E v \in Views : \E i \in inputs(v) : ensure_revision_inputs(v, i)
    \/ \E v \in Views, x \in Snapshots : publish_enrichment(v, x)
    \/ \E v \in Standalone : delete_repository_revision(v)
    \/ abandon_standalone

Next == Publication \/ claim_garbage_collection \/ sweep_garbage_collection \/ stop_sweep

(* The collector is a thread of the daemon and the monitor claims and       *)
(* starts it again periodically; nothing obliges anyone to publish.         *)
Fairness ==
    /\ WF_vars(claim_garbage_collection)
    /\ WF_vars(sweep_garbage_collection)

Spec == Init /\ [][Next]_vars /\ Fairness

-----------------------------------------------------------------------------
(* Properties.                                                              *)

(* Types, and the coherence of the sweep's local state with its phase. *)
TypeOK ==
    /\ revision \in [Views -> 0..MaxRevision]
    /\ manifest \in [Views -> [Revisions -> Rows]]
    /\ semantic \in [Views -> States \cup {None}]
    /\ repository_revision \in States \cup {None}
    /\ standalone \in States \cup {None}
    /\ repository_state \subseteq States
    /\ queue \subseteq States
    /\ facts \in [States -> SUBSET FactRelations]
    /\ shard \in [Views -> States \cup {None}]
    /\ names \subseteq States
    /\ output \in [Views -> SUBSET Snapshots]
    /\ contribution \in [Views -> [Snapshots -> SUBSET ContributionRelations]]
    /\ sweep.step \in 1..(steps(sweep.phase) + 1)
    /\ publications \in 0..MaxPublications
    /\ stops \in 0..MaxStops
    /\ reselected \subseteq Views \X Snapshots
    /\ recreated \subseteq Views
    /\ requeued \subseteq States

(* A state some current revision selects exists and holds all its facts,    *)
(* however claims, sweeps and publications of the same content interleave:  *)
(* a queued state that is published again is rewritten and not swept.       *)
LiveStateIsStored ==
    \A s \in live_state \ {None} : s \in repository_state /\ facts[s] = FactRelations

(* Facts are never lost track of: what still holds rows is a state that     *)
(* exists or one that is queued for removal.  (The queue row of a state     *)
(* that was queued again under the sweep's hands is removed with the first. *)
(* README, section 4.)                                                      *)
GarbageIsAccounted ==
    \A s \in States \ requeued : facts[s] # {} => s \in repository_state \cup queue

(* What a query of the view reads: one whole state and one whole snapshot,  *)
(* or something torn.  Views and snapshots an unprotected overlap has       *)
(* touched are shown as what they select.                                   *)
visible ==
    [v \in Views |->
        IF revision[v] = 0 THEN None
        ELSE IF v \in recreated THEN [state |-> semantic[v], snapshot |-> None]
        ELSE LET row == Current(v)
                 whole == /\ row.state # None
                          /\ facts[row.state] = FactRelations
                          /\ row.metadata
                          /\ shard[v] \in names
                 complete(x) == \/ x \in output[v] /\ contribution[v][x] = ContributionRelations
                                \/ <<v, x>> \in reselected
             IN [state |-> IF whole THEN row.state ELSE "torn",
                 snapshot |-> IF row.selection = None THEN None
                              ELSE IF complete(row.selection.owner) THEN row.selection.owner
                              ELSE "torn"]]

Promise == INSTANCE PublishedViews
             WITH Views <- Views, Standalone <- Standalone, States <- States,
                  Snapshots <- Snapshots, None <- None, visible <- visible

(* The store implements what it promises to queries: only publications,     *)
(* enrichments and deletions change what a view shows, each as one step,    *)
(* and the claims and batches of garbage collection are invisible.          *)
ImplementsPublishedViews == Promise!Spec

(* Once publications stop, everything no revision selects is removed: the   *)
(* queued states, unselected shard names and snapshots, and, unless a sweep *)
(* was interrupted, every row of the superseded revisions.  (A sweep that   *)
(* ends between the metadata of a revision, which is what makes it pending, *)
(* and its later relations leaves those until the next publication.)        *)
GarbageIsReclaimed ==
    <>[](/\ ~garbage_collection_pending
         /\ \A s \in States \ requeued : facts[s] # {} => s \in live_state
         /\ stops = 0 => \A v \in Views, n \in Revisions : n < revision[v] => manifest[v][n] = NoRow)
=============================================================================
