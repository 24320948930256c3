------------------------ MODULE SemanticStoreProofs ------------------------
(***************************************************************************)
(* Proofs about SemanticStore, for any views, states, snapshots and inputs *)
(* and any bounds: what a current revision selects is stored, garbage that *)
(* still holds rows is accounted for, and the store implements the         *)
(* promise PublishedViews makes to its queries.                            *)
(***************************************************************************)
EXTENDS SemanticStore, TLAPS

(* The local state of the collector's thread. *)
Phases == {"idle", "states", "revisions", "names", "snapshots"}
Items == States \cup Views \cup (Views \X Snapshots) \cup {None}
SweepState == [phase : Phases, todo : SUBSET (States \cup Views), item : Items,
               step : 1..4, batch : SUBSET (States \cup Revisions \cup (Views \X Snapshots)),
               current : [Views -> 0..MaxRevision]]

(* What the thread holds in each phase.  A batch belongs to the item and    *)
(* the relation it was selected for; a batch of revisions lies below the    *)
(* revision that was current when the phase began.                          *)
SweepOK ==
    /\ sweep \in SweepState
    /\ sweep.batch # {} => sweep.step <= steps(sweep.phase)
    /\ sweep.phase = "idle" => sweep.batch = {} /\ sweep.step = 1
    /\ sweep.phase = "states" => /\ sweep.todo \subseteq States
                                 /\ sweep.item \in States \cup {None}
                                 /\ sweep.batch # {} => sweep.item \in States
    /\ sweep.phase = "revisions" =>
           /\ sweep.todo \subseteq Views
           /\ sweep.item \in Views \cup {None}
           /\ sweep.item # None => sweep.step <= steps("revisions")
           /\ sweep.batch # {} =>
                  /\ sweep.item \in Views
                  /\ \A n \in sweep.batch : n \in Revisions /\ n < sweep.current[sweep.item]
    /\ sweep.phase = "names" => sweep.step = 1
    /\ sweep.phase = "snapshots" =>
           /\ sweep.item \in (Views \X Snapshots) \cup {None}
           /\ sweep.batch # {} => sweep.item \in Views \X Snapshots

TypeInv == TypeOK /\ SweepOK

(* A state that exists holds all its facts. *)
StoredStates == \A s \in repository_state : facts[s] = FactRelations

(* What a revision selects exists. *)
LiveStatesExist == live_state \ {None} \subseteq repository_state

(* Unless it was queued again or came back to life, the state under the     *)
(* sweep's hands holds nothing in the relations already visited.            *)
VisitedRelations ==
    sweep.phase = "states" /\ sweep.item \in States \ (requeued \cup repository_state) =>
        \A i \in 1..Len(FactSteps) : i < sweep.step => FactSteps[i] \notin facts[sweep.item]

(* A published view has a fingerprint, a shard of that version and the      *)
(* shard's names.                                                           *)
SelectedShards ==
    \A v \in Views : /\ shard[v] = semantic[v]
                     /\ semantic[v] = None <=> revision[v] = 0
                     /\ shard[v] # None => shard[v] \in names

(* The rows of a current revision are there and show what was published.    *)
CurrentRows ==
    \A v \in Views \ recreated :
        revision[v] # 0 => Current(v).state = semantic[v] /\ Current(v).metadata

(* The revision a sweep holds for a view is no newer than the current one. *)
SweptRevisions ==
    sweep.phase = "revisions" =>
        \A v \in Views \ recreated : sweep.current[v] <= revision[v]

(* A snapshot some revision selects is complete, but for the one overlap    *)
(* the history records.                                                     *)
Complete(v, x) == \/ x \in output[v] /\ contribution[v][x] = ContributionRelations
                  \/ <<v, x>> \in reselected
SelectedSnapshots ==
    \A v \in Views, n \in Revisions :
        manifest[v][n].selection # None => Complete(v, manifest[v][n].selection.owner)

(* The inductive invariant of the store. *)
StoreInv ==
    /\ TypeInv
    /\ StoredStates
    /\ LiveStatesExist
    /\ GarbageIsAccounted
    /\ VisitedRelations
    /\ SelectedShards
    /\ CurrentRows
    /\ SweptRevisions
    /\ SelectedSnapshots

-----------------------------------------------------------------------------
(* Constants and operators.                                                 *)

(* The relations of a state, a revision and a contribution, in the order in *)
(* which they are swept.                                                    *)
LEMMA RelationFacts ==
    /\ Len(FactSteps) = 2 /\ FactSteps[1] = "observation" /\ FactSteps[2] = "entity"
    /\ FactRelations = {"observation", "entity"}
    /\ Len(RevisionSteps) = 3
    /\ RevisionSteps[1] = "state" /\ RevisionSteps[2] = "metadata"
    /\ RevisionSteps[3] = "selection"
    /\ Len(ContributionSteps) = 2
    /\ ContributionSteps[1] = "entity" /\ ContributionSteps[2] = "observation"
    /\ ContributionRelations = {"observation", "entity"}
<1>1. /\ Len(FactSteps) = 2 /\ FactSteps[1] = "observation" /\ FactSteps[2] = "entity"
      /\ Len(RevisionSteps) = 3
      /\ RevisionSteps[1] = "state" /\ RevisionSteps[2] = "metadata"
      /\ RevisionSteps[3] = "selection"
      /\ Len(ContributionSteps) = 2
      /\ ContributionSteps[1] = "entity" /\ ContributionSteps[2] = "observation"
  BY DEF FactSteps, RevisionSteps, ContributionSteps
<1>2. 1..2 = {1, 2}
  OBVIOUS
<1>. QED BY <1>1, <1>2 DEF FactRelations, ContributionRelations

(* How many relations each phase of the sweep visits.                       *)
LEMMA StepCounts ==
    /\ steps("idle") = 0 /\ steps("states") = 2 /\ steps("revisions") = 3
    /\ steps("names") = 1 /\ steps("snapshots") = 2
  BY RelationFacts DEF steps

(* No row at all is a possible content of the relations.                    *)
LEMMA NoRowType == NoRow \in Rows
  BY DEF NoRow, Rows

(* A sweep that is not under way has its type and holds nothing.            *)
LEMMA IdleType ==
    /\ Idle \in SweepState
    /\ Idle.phase = "idle" /\ Idle.todo = {} /\ Idle.item = None /\ Idle.step = 1
    /\ Idle.batch = {}
  BY BoundsAreNaturals DEF Idle, SweepState, Phases, Items

(* The current rows of a view are rows of its current revision. *)
LEMMA CurrentType ==
    ASSUME TypeInv, NEW v \in Views
    PROVE  /\ Current(v) \in Rows
           /\ revision[v] # 0 => /\ revision[v] \in Revisions
                                 /\ Current(v) = manifest[v][revision[v]]
           /\ revision[v] = 0 => Current(v) = NoRow
  BY NoRowType, BoundsAreNaturals DEF TypeInv, TypeOK, Current, Revisions

(* The model starts in a state of the invariant. *)
LEMMA StoreInvInit == Init => StoreInv
<1>. SUFFICES ASSUME Init PROVE StoreInv
  OBVIOUS
<1>1. TypeOK
  BY NoRowType, IdleType, StepCounts, BoundsAreNaturals DEF Init, TypeOK
<1>2. SweepOK
  BY IdleType, StepCounts DEF Init, SweepOK
<1>3. StoredStates /\ LiveStatesExist /\ GarbageIsAccounted
  BY DEF Init, StoredStates, LiveStatesExist, live_state, Current, NoRow,
         GarbageIsAccounted
<1>4. VisitedRelations /\ SweptRevisions
  BY IdleType DEF Init, VisitedRelations, SweptRevisions
<1>5. SelectedShards /\ CurrentRows /\ SelectedSnapshots
  BY DEF Init, SelectedShards, CurrentRows, SelectedSnapshots, NoRow
<1>. QED BY <1>1, <1>2, <1>3, <1>4, <1>5 DEF StoreInv, TypeInv

-----------------------------------------------------------------------------
(* Steps of the sweep that only move the thread.                            *)

(* Such a step owes the invariant only the parts about the thread. *)
LEMMA ThreadStep ==
    ASSUME StoreInv, UNCHANGED <<db, ghosts>>, TypeInv', VisitedRelations', SweptRevisions'
    PROVE  StoreInv'
<1>1. StoredStates' /\ LiveStatesExist' /\ GarbageIsAccounted'
  BY DEF StoreInv, db, ghosts, StoredStates, LiveStatesExist, live_state, Current,
         GarbageIsAccounted
<1>2. SelectedShards' /\ CurrentRows'
  BY DEF StoreInv, db, ghosts, SelectedShards, CurrentRows, Current
<1>3. SelectedSnapshots'
  BY DEF StoreInv, db, ghosts, SelectedSnapshots, Complete
<1>. QED BY <1>1, <1>2, <1>3 DEF StoreInv

(* A step that changes the sweep only keeps the types of everything else.   *)
LEMMA ThreadTypes ==
    ASSUME TypeInv, UNCHANGED <<db, publications, ghosts>>, stops' \in 0..MaxStops, SweepOK',
           sweep.step' <= steps(sweep.phase)' + 1
    PROVE  TypeInv'
<1>1. (sweep.step \in 1..(steps(sweep.phase) + 1))'
  BY StepCounts DEF SweepOK, SweepState, Phases
<1>. QED BY <1>1 DEF TypeInv, TypeOK, db, ghosts

(* The start of a sweep preserves the invariant.                            *)
LEMMA StartSweepInv ==
    ASSUME StoreInv, start_sweep
    PROVE  StoreInv'
<1>1. /\ sweep'.phase = "states" /\ sweep'.todo = queue /\ sweep'.item = None
      /\ sweep'.step = 1 /\ sweep'.batch = {}
      /\ sweep' \in SweepState
  BY IdleType DEF start_sweep, SweepState, Phases, StoreInv, TypeInv, TypeOK
<1>2. SweepOK'
  BY <1>1 DEF SweepOK, StoreInv, TypeInv, TypeOK
<1>3. TypeInv'
  BY <1>1, <1>2, ThreadTypes, StepCounts DEF start_sweep, StoreInv, TypeInv, TypeOK
<1>4. VisitedRelations' /\ SweptRevisions'
  BY <1>1, NoneIsNoValue DEF VisitedRelations, SweptRevisions
<1>. QED BY <1>3, <1>4, ThreadStep DEF start_sweep

(* An interruption of the sweep preserves the invariant.                    *)
LEMMA StopSweepInv ==
    ASSUME StoreInv, stop_sweep
    PROVE  StoreInv'
<1>1. SweepOK'
  BY IdleType, StepCounts DEF stop_sweep, SweepOK
<1>2. TypeInv'
  BY <1>1, IdleType, StepCounts, ThreadTypes, BoundsAreNaturals
  DEF stop_sweep, StoreInv, TypeInv, TypeOK
<1>3. VisitedRelations' /\ SweptRevisions'
  BY IdleType DEF stop_sweep, VisitedRelations, SweptRevisions
<1>. QED BY <1>2, <1>3, ThreadStep DEF stop_sweep

(* The thread turns to another item. *)
LEMMA VisitItem ==
    ASSUME NEW r \in SweepState, NEW i \in Items,
           NEW todo \in SUBSET (States \cup Views)
    PROVE  /\ [r EXCEPT !.item = i, !.step = 1] \in SweepState
           /\ [r EXCEPT !.todo = todo, !.item = i, !.step = 1] \in SweepState
<1>1. PICK k \in 1..4 : k = 1
  OBVIOUS
<1>2. /\ [r EXCEPT !.item = i, !.step = k] \in SweepState
      /\ [r EXCEPT !.todo = todo, !.item = i, !.step = k] \in SweepState
  BY DEF SweepState
<1>. QED BY <1>1, <1>2, Zenon

(* Going on to the next state, revision or name preserves the invariant.    *)
LEMMA NextItemInv ==
    ASSUME StoreInv, next_item
    PROVE  StoreInv'
<1>1. PICK item \in sweep.todo :
          sweep' = [sweep EXCEPT !.todo = @ \ {item}, !.item = item, !.step = 1]
  BY DEF next_item, first_row
<1>2. /\ sweep' \in SweepState
      /\ sweep'.phase = sweep.phase /\ sweep'.todo = sweep.todo \ {item}
      /\ sweep'.item = item /\ sweep'.step = 1 /\ sweep'.batch = sweep.batch
      /\ sweep'.current = sweep.current
  <2>1. item \in Items
    BY <1>1 DEF StoreInv, TypeInv, SweepOK, SweepState, Items
  <2>2. sweep \in SweepState
    BY DEF StoreInv, TypeInv, SweepOK
  <2>3. sweep.todo \ {item} \in SUBSET (States \cup Views)
    BY <2>2 DEF SweepState
  <2>4. sweep' \in SweepState
    BY <1>1, <2>1, <2>2, <2>3, VisitItem
  <2>. QED BY <1>1, <2>2, <2>4 DEF SweepState
<1>3. sweep.batch = {}
  BY NoneIsNoValue DEF next_item, StoreInv, TypeInv, SweepOK
<1>4. SweepOK'
  BY <1>1, <1>2, <1>3, StepCounts DEF next_item, StoreInv, TypeInv, SweepOK
<1>5. TypeInv'
  BY <1>2, <1>4, ThreadTypes, StepCounts
  DEF next_item, StoreInv, TypeInv, TypeOK
<1>6. VisitedRelations' /\ SweptRevisions'
  BY <1>2 DEF VisitedRelations, SweptRevisions, StoreInv, next_item, db, ghosts
<1>. QED BY <1>5, <1>6, ThreadStep DEF next_item

(* Going on to the next phase preserves the invariant.                      *)
LEMMA NextPhaseInv ==
    ASSUME StoreInv, next_phase
    PROVE  StoreInv'
<1>1. sweep.batch = {}
  BY NoneIsNoValue DEF next_phase, StoreInv, TypeInv, SweepOK
<1>2. CASE sweep.phase = "states"
  <2>1. /\ sweep' \in SweepState
        /\ sweep'.phase = "revisions" /\ sweep'.todo \subseteq Views
        /\ sweep'.item = None /\ sweep'.step = sweep.step /\ sweep'.batch = {}
        /\ sweep'.current = revision
    BY <1>1, <1>2 DEF next_phase, StoreInv, TypeInv, TypeOK, SweepOK, SweepState, Phases
  <2>2. SweepOK'
    BY <2>1 DEF SweepOK
  <2>3. TypeInv'
    BY <1>2, <2>1, <2>2, ThreadTypes, StepCounts
    DEF next_phase, StoreInv, TypeInv, TypeOK
  <2>4. VisitedRelations' /\ SweptRevisions'
    BY <2>1 DEF VisitedRelations, SweptRevisions, StoreInv, TypeInv, TypeOK, next_phase, db
  <2>. QED BY <2>3, <2>4, ThreadStep DEF next_phase
<1>3. CASE sweep.phase = "revisions"
  <2>1. /\ sweep' \in SweepState /\ sweep'.phase = "names" /\ sweep'.step = 1
        /\ sweep'.batch = {}
    BY <1>3, IdleType DEF next_phase, SweepState, Phases
  <2>2. SweepOK'
    BY <2>1 DEF SweepOK
  <2>3. TypeInv'
    BY <2>1, <2>2, ThreadTypes, StepCounts DEF next_phase, StoreInv, TypeInv, TypeOK
  <2>4. VisitedRelations' /\ SweptRevisions'
    BY <2>1 DEF VisitedRelations, SweptRevisions
  <2>. QED BY <2>3, <2>4, ThreadStep DEF next_phase
<1>. QED BY <1>2, <1>3 DEF next_phase

(* Going on to the next contribution preserves the invariant.               *)
LEMMA NextSnapshotInv ==
    ASSUME StoreInv, next_snapshot
    PROVE  StoreInv'
<1>. DEFINE unselected == {o \in Views \X Snapshots :
                              o[2] \in output[o[1]] /\ o[2] \notin selected_snapshot(o[1])}
<1>1. sweep.phase = "snapshots" /\ sweep.item = None /\ sweep.batch = {}
  BY NoneIsNoValue DEF next_snapshot, StoreInv, TypeInv, SweepOK
<1>2. CASE unselected = {}
  <2>1. sweep' = Idle
    BY <1>2 DEF next_snapshot
  <2>2. SweepOK'
    BY <2>1, IdleType, StepCounts DEF SweepOK
  <2>3. TypeInv'
    BY <2>1, <2>2, ThreadTypes, StepCounts, IdleType
    DEF next_snapshot, StoreInv, TypeInv, TypeOK
  <2>4. VisitedRelations' /\ SweptRevisions'
    BY <2>1, IdleType DEF VisitedRelations, SweptRevisions
  <2>. QED BY <2>3, <2>4, ThreadStep DEF next_snapshot
<1>3. CASE unselected # {}
  <2>1. first_row(unselected) \in Views \X Snapshots
    BY <1>3 DEF first_row
  <2>2. PICK item \in Views \X Snapshots : sweep' = [sweep EXCEPT !.item = item, !.step = 1]
    BY <1>3, <2>1 DEF next_snapshot
  <2>3. /\ sweep' \in SweepState /\ sweep'.phase = "snapshots" /\ sweep'.item = item
        /\ sweep'.step = 1 /\ sweep'.batch = {}
    <3>1. sweep \in SweepState /\ item \in Items
      BY DEF StoreInv, TypeInv, SweepOK, Items
    <3>2. sweep' \in SweepState
      BY <2>2, <3>1, VisitItem
    <3>. QED BY <1>1, <2>2, <3>1, <3>2 DEF SweepState
  <2>4. SweepOK'
    BY <2>1, <2>3 DEF SweepOK
  <2>5. TypeInv'
    BY <2>3, <2>4, ThreadTypes, StepCounts DEF next_snapshot, StoreInv, TypeInv, TypeOK
  <2>6. VisitedRelations' /\ SweptRevisions'
    BY <2>3 DEF VisitedRelations, SweptRevisions
  <2>. QED BY <2>5, <2>6, ThreadStep DEF next_snapshot
<1>. QED BY <1>2, <1>3

(* What next_relation leaves of the thread. *)
LEMMA NextRelationType ==
    ASSUME StoreInv, sweep.step <= steps(sweep.phase), sweep.phase # "idle",
           sweep' = next_relation
    PROVE  /\ SweepOK'
           /\ sweep'.step <= steps(sweep'.phase) + 1
           /\ sweep.phase = "states" => /\ sweep'.phase = "states" /\ sweep'.item = sweep.item
                                        /\ sweep'.step = sweep.step + 1
           /\ sweep.phase # "states" => sweep'.phase # "states"
           /\ sweep'.phase = "revisions" => /\ sweep.phase = "revisions"
                                            /\ sweep'.current = sweep.current
<1>. USE DEF StoreInv, TypeInv
<1>1. CASE sweep.step = steps(sweep.phase) /\ sweep.phase = "revisions"
  <2>1. sweep' = [sweep EXCEPT !.batch = {}, !.item = None]
    BY <1>1 DEF next_relation
  <2>2. /\ sweep' \in SweepState /\ sweep'.phase = "revisions" /\ sweep'.item = None
        /\ sweep'.batch = {} /\ sweep'.step = sweep.step /\ sweep'.todo = sweep.todo
        /\ sweep'.current = sweep.current
    BY <1>1, <2>1 DEF SweepOK, SweepState, Items
  <2>. QED BY <1>1, <2>2, StepCounts DEF SweepOK
<1>2. CASE sweep.step = steps(sweep.phase) /\ sweep.phase = "names"
  <2>1. sweep' = [Idle EXCEPT !.phase = "snapshots"]
    BY <1>2 DEF next_relation
  <2>2. /\ sweep' \in SweepState /\ sweep'.phase = "snapshots" /\ sweep'.item = None
        /\ sweep'.batch = {} /\ sweep'.step = 1
    BY <2>1, IdleType DEF SweepState, Phases
  <2>. QED BY <1>2, <2>2, StepCounts DEF SweepOK
<1>3. CASE ~(sweep.step = steps(sweep.phase) /\ sweep.phase \in {"revisions", "names"})
  <2>1. sweep' = [sweep EXCEPT !.batch = {}, !.step = @ + 1]
    BY <1>3 DEF next_relation
  <2>2. sweep.phase # "names"
    BY <1>3, StepCounts DEF SweepOK
  <2>3. sweep.step \in 1..3
    BY <1>3, StepCounts DEF SweepOK, SweepState, Phases
  <2>4. /\ sweep' \in SweepState /\ sweep'.phase = sweep.phase /\ sweep'.item = sweep.item
        /\ sweep'.batch = {} /\ sweep'.step = sweep.step + 1 /\ sweep'.todo = sweep.todo
        /\ sweep'.current = sweep.current
    <3>1. sweep \in SweepState /\ sweep.step + 1 \in 1..4
      BY <2>3 DEF SweepOK
    <3>. QED BY <2>1, <3>1 DEF SweepState
  <2>5. sweep'.phase = "revisions" => sweep'.step <= steps("revisions")
    BY <1>3, <2>3, <2>4, StepCounts DEF SweepOK
  <2>6. SweepOK'
    BY <2>2, <2>4, <2>5 DEF SweepOK
  <2>. QED BY <2>4, <2>6, <2>3, StepCounts DEF SweepOK, SweepState, Phases
<1>. QED BY <1>1, <1>2, <1>3

(* Selecting a batch preserves the invariant.                               *)
LEMMA SelectBatchInv ==
    ASSUME StoreInv, select_batch
    PROVE  StoreInv'
<1>. USE DEF StoreInv
<1>1. sweep.phase # "idle"
  BY StepCounts DEF select_batch, TypeInv, SweepOK
<1>2. CASE select_script = {}
  <2>1. sweep' = next_relation
    BY <1>2 DEF select_batch
  <2>2. /\ SweepOK' /\ sweep'.step <= steps(sweep'.phase) + 1
        /\ sweep.phase = "states" => /\ sweep'.phase = "states" /\ sweep'.item = sweep.item
                                     /\ sweep'.step = sweep.step + 1
        /\ sweep.phase # "states" => sweep'.phase # "states"
        /\ sweep'.phase = "revisions" => /\ sweep.phase = "revisions"
                                         /\ sweep'.current = sweep.current
    BY <1>1, <2>1, NextRelationType DEF select_batch
  <2>3. TypeInv'
    BY <2>2, ThreadTypes DEF select_batch, TypeInv, TypeOK
  <2>4. SweptRevisions'
    BY <2>2 DEF SweptRevisions, select_batch, db, ghosts
  <2>5. VisitedRelations'
    <3>. SUFFICES ASSUME sweep.phase = "states",
                         sweep.item \in States \ (requeued \cup repository_state),
                         NEW i \in 1..Len(FactSteps), i < sweep.step + 1
                  PROVE  FactSteps[i] \notin facts[sweep.item]
      BY <2>2 DEF VisitedRelations, select_batch, db, ghosts
    <3>1. CASE i < sweep.step
      BY <3>1 DEF VisitedRelations
    <3>2. CASE i = sweep.step
      <4>1. sweep.item \notin {s \in States : FactSteps[sweep.step] \in facts[s]}
        BY <1>2 DEF select_script
      <4>. QED BY <3>2, <4>1
    <3>3. sweep.step \in Nat /\ i \in Nat
      BY DEF TypeInv, SweepOK, SweepState
    <3>. QED BY <3>1, <3>2, <3>3
  <2>. QED BY <2>3, <2>4, <2>5, ThreadStep DEF select_batch
<1>3. CASE select_script # {}
  <2>1. sweep' = [sweep EXCEPT !.batch = select_script]
    BY <1>3 DEF select_batch
  <2>2. /\ sweep.phase = "states" => select_script \subseteq States
        /\ sweep.phase = "revisions" =>
               \A n \in select_script : n \in Revisions /\ n < sweep.current[sweep.item]
        /\ sweep.phase = "names" => select_script \subseteq States
        /\ sweep.phase = "snapshots" => select_script \subseteq Views \X Snapshots
    BY DEF select_script, unselected_names, TypeInv, TypeOK
  <2>3. select_script \subseteq (States \cup Revisions \cup (Views \X Snapshots))
    BY <1>1, <2>2 DEF TypeInv, SweepOK, SweepState, Phases
  <2>4. /\ sweep' \in SweepState /\ sweep'.phase = sweep.phase /\ sweep'.item = sweep.item
        /\ sweep'.batch = select_script /\ sweep'.step = sweep.step /\ sweep'.todo = sweep.todo
        /\ sweep'.current = sweep.current
    BY <2>1, <2>3 DEF TypeInv, SweepOK, SweepState
  <2>5. SweepOK'
    BY <1>1, <2>2, <2>4, NoneIsNoValue DEF select_batch, TypeInv, SweepOK
  <2>6. TypeInv'
    BY <2>4, <2>5, ThreadTypes DEF select_batch, TypeInv, TypeOK
  <2>7. VisitedRelations' /\ SweptRevisions'
    BY <2>4 DEF VisitedRelations, SweptRevisions, select_batch, db, ghosts
  <2>. QED BY <2>6, <2>7, ThreadStep DEF select_batch
<1>. QED BY <1>2, <1>3

-----------------------------------------------------------------------------
(* Steps of the sweep that remove rows.                                     *)

(* A transaction whose guard holds leaves the thread at its relation. *)
LEMMA EmptiedBatch ==
    ASSUME StoreInv, sweep.batch # {}, sweep' = [sweep EXCEPT !.batch = {}]
    PROVE  /\ SweepOK' /\ sweep'.step <= steps(sweep'.phase) + 1
           /\ sweep'.phase = sweep.phase /\ sweep'.item = sweep.item
           /\ sweep'.step = sweep.step /\ sweep'.current = sweep.current
<1>1. sweep \in SweepState
  BY DEF StoreInv, TypeInv, SweepOK
<1>2. /\ sweep' \in SweepState
      /\ sweep'.phase = sweep.phase /\ sweep'.item = sweep.item
      /\ sweep'.step = sweep.step /\ sweep'.current = sweep.current
      /\ sweep'.batch = {} /\ sweep'.todo = sweep.todo
  BY <1>1 DEF SweepState
<1>3. SweepOK'
  BY <1>2 DEF StoreInv, TypeInv, SweepOK
<1>. QED BY <1>2, <1>3 DEF StoreInv, TypeInv, TypeOK

(* Removing a batch of rows of a state preserves the invariant.             *)
LEMMA RemoveStateBatchInv ==
    ASSUME StoreInv, remove_state_batch
    PROVE  StoreInv'
<1>. USE DEF StoreInv
<1>1. sweep.item \in States /\ sweep.step \in 1..2 /\ sweep.phase = "states"
  BY StepCounts DEF remove_state_batch, TypeInv, SweepOK, SweepState
<1>2. CASE guard_repository_state
  <2>1. /\ sweep' = [sweep EXCEPT !.batch = {}]
        /\ facts' = [facts EXCEPT ![sweep.item] = @ \ {FactSteps[sweep.step]}]
    BY <1>2 DEF remove_state_batch, guarded
  <2>2. /\ SweepOK' /\ sweep'.step <= steps(sweep'.phase) + 1
        /\ sweep'.phase = sweep.phase /\ sweep'.item = sweep.item
        /\ sweep'.step = sweep.step
    BY <2>1, EmptiedBatch DEF remove_state_batch
  <2>3. facts' \in [States -> SUBSET FactRelations]
    BY <1>1, <2>1 DEF TypeInv, TypeOK
  <2>4. TypeInv'
    BY <1>1, <2>2, <2>3, StepCounts DEF remove_state_batch, ghosts, TypeInv, TypeOK
  <2>5. \A s \in States : /\ s # sweep.item => facts'[s] = facts[s]
                          /\ facts'[s] \subseteq facts[s]
    BY <1>1, <2>1 DEF TypeInv, TypeOK
  <2>6. StoredStates'
    BY <1>2, <2>5 DEF StoredStates, guard_repository_state, remove_state_batch, TypeInv, TypeOK
  <2>7. LiveStatesExist' /\ SelectedShards' /\ CurrentRows'
    BY DEF remove_state_batch, ghosts, LiveStatesExist, live_state, Current, SelectedShards,
           CurrentRows
  <2>8. GarbageIsAccounted'
    BY <2>5 DEF remove_state_batch, ghosts, GarbageIsAccounted
  <2>9. VisitedRelations' /\ SweptRevisions'
    BY <1>1, <2>2, <2>5 DEF remove_state_batch, ghosts, VisitedRelations, SweptRevisions
  <2>10. SelectedSnapshots'
    BY DEF remove_state_batch, ghosts, SelectedSnapshots, Complete
  <2>. QED BY <2>4, <2>6, <2>7, <2>8, <2>9, <2>10
<1>3. CASE ~guard_repository_state
  <2>1. sweep' = next_relation /\ facts' = facts
    BY <1>3 DEF remove_state_batch, guarded
  <2>2. /\ SweepOK' /\ sweep'.step <= steps(sweep'.phase) + 1
        /\ sweep'.phase = "states" /\ sweep'.item = sweep.item
    BY <1>1, <2>1, NextRelationType, StepCounts
  <2>3. UNCHANGED <<db, publications, stops, ghosts>>
    BY <2>1 DEF remove_state_batch, db
  <2>4. TypeInv'
    BY <2>2, <2>3, ThreadTypes DEF TypeInv, TypeOK
  <2>5. VisitedRelations' /\ SweptRevisions'
    BY <1>3, <2>2 DEF guard_repository_state, VisitedRelations, SweptRevisions,
                      remove_state_batch
  <2>. QED BY <2>3, <2>4, <2>5, ThreadStep
<1>. QED BY <1>2, <1>3

(* Removing one relation of a revision empties fields of its row. *)
LEMMA WithoutRow ==
    ASSUME NEW row \in Rows, NEW relation \in {"state", "metadata", "selection"}
    PROVE  /\ without_row(row, relation) \in Rows
           /\ without_row(row, relation).state \in {row.state, None}
           /\ without_row(row, relation).selection \in {row.selection, None}
  BY DEF without_row, Rows

(* The rows the sweep removes belong to superseded revisions. *)
LEMMA RevisionBatchSparesCurrent ==
    ASSUME StoreInv, remove_revision_batch
    PROVE  \A v \in Views \ recreated : Current(v)' = Current(v)
<1>. USE DEF StoreInv
<1>1. /\ sweep.phase = "revisions" /\ sweep.item \in Views
      /\ \A n \in sweep.batch : n \in Revisions /\ n < sweep.current[sweep.item]
      /\ sweep.current \in [Views -> 0..MaxRevision]
  BY DEF remove_revision_batch, TypeInv, SweepOK, SweepState
<1>2. /\ \A n \in Revisions \ sweep.batch : manifest'[sweep.item][n] = manifest[sweep.item][n]
      /\ \A v \in Views : v # sweep.item => manifest'[v] = manifest[v]
  BY <1>1 DEF remove_revision_batch, TypeInv, TypeOK
<1>. SUFFICES ASSUME NEW v \in Views \ recreated, revision[v] # 0
              PROVE  manifest'[v][revision[v]] = manifest[v][revision[v]]
  BY DEF Current, remove_revision_batch
<1>3. revision[v] \in Revisions
  BY CurrentType
<1>4. v = sweep.item => revision[v] \notin sweep.batch
  BY <1>1 DEF SweptRevisions, TypeInv, TypeOK
<1>. QED BY <1>2, <1>3, <1>4

(* Removing a batch of rows of revisions preserves the invariant.           *)
LEMMA RemoveRevisionBatchInv ==
    ASSUME StoreInv, remove_revision_batch
    PROVE  StoreInv'
<1>. USE DEF StoreInv
<1>. DEFINE relation == RevisionSteps[sweep.step]
            removed == [n \in Revisions |-> IF n \in sweep.batch
                                              THEN without_row(manifest[sweep.item][n], relation)
                                              ELSE manifest[sweep.item][n]]
<1>1. /\ sweep.phase = "revisions" /\ sweep.item \in Views /\ sweep.step \in 1..3
      /\ \A n \in sweep.batch : n \in Revisions /\ n < sweep.current[sweep.item]
      /\ sweep.current \in [Views -> 0..MaxRevision]
  BY StepCounts DEF remove_revision_batch, TypeInv, SweepOK, SweepState
<1>2. relation \in {"state", "metadata", "selection"}
  BY <1>1, RelationFacts
<1>3. /\ sweep' = [sweep EXCEPT !.batch = {}]
      /\ manifest' = [manifest EXCEPT ![sweep.item] = removed]
  BY DEF remove_revision_batch, guarded
<1>4. /\ SweepOK' /\ sweep'.step <= steps(sweep'.phase) + 1
      /\ sweep'.phase = sweep.phase /\ sweep'.item = sweep.item
      /\ sweep'.step = sweep.step /\ sweep'.current = sweep.current
  BY <1>3, EmptiedBatch DEF remove_revision_batch
<1>5. /\ removed \in [Revisions -> Rows]
      /\ \A n \in Revisions : /\ n \notin sweep.batch => removed[n] = manifest[sweep.item][n]
                              /\ removed[n].state \in {manifest[sweep.item][n].state, None}
                              /\ removed[n].selection \in
                                     {manifest[sweep.item][n].selection, None}
  <2>1. \A n \in Revisions : manifest[sweep.item][n] \in Rows
    BY <1>1 DEF TypeInv, TypeOK
  <2>2. \A n \in Revisions : /\ without_row(manifest[sweep.item][n], relation) \in Rows
                             /\ without_row(manifest[sweep.item][n], relation).state \in
                                    {manifest[sweep.item][n].state, None}
                             /\ without_row(manifest[sweep.item][n], relation).selection \in
                                    {manifest[sweep.item][n].selection, None}
    BY <1>2, <2>1, WithoutRow
  <2>. HIDE DEF relation
  <2>. QED BY <2>1, <2>2
<1>. HIDE DEF removed, relation
<1>6. /\ manifest' \in [Views -> [Revisions -> Rows]]
      /\ manifest'[sweep.item] = removed
      /\ \A v \in Views : v # sweep.item => manifest'[v] = manifest[v]
  BY <1>1, <1>3, <1>5 DEF TypeInv, TypeOK
<1>7. TypeInv'
  BY <1>1, <1>4, <1>6, StepCounts DEF remove_revision_batch, ghosts, TypeInv, TypeOK
<1>8. \A v \in Views, n \in Revisions :
          /\ manifest'[v][n].state \in {manifest[v][n].state, None}
          /\ manifest'[v][n].selection \in {manifest[v][n].selection, None}
  BY <1>5, <1>6
<1>9. \A v \in Views : Current(v)'.state \in {Current(v).state, None}
  BY <1>8, CurrentType DEF Current, remove_revision_batch, TypeInv, TypeOK
<1>10. \A v \in Views \ recreated : Current(v)' = Current(v)
  BY RevisionBatchSparesCurrent
<1>11. StoredStates' /\ GarbageIsAccounted' /\ SelectedShards'
  BY DEF remove_revision_batch, ghosts, StoredStates, GarbageIsAccounted, SelectedShards
<1>12. LiveStatesExist'
  BY <1>9 DEF remove_revision_batch, LiveStatesExist, live_state
<1>13. CurrentRows'
  BY <1>10 DEF remove_revision_batch, ghosts, CurrentRows
<1>14. VisitedRelations' /\ SweptRevisions'
  BY <1>1, <1>4 DEF remove_revision_batch, ghosts, VisitedRelations, SweptRevisions
<1>15. SelectedSnapshots'
  <2>1. \A v \in Views, x \in Snapshots : Complete(v, x)' = Complete(v, x)
    BY DEF Complete, remove_revision_batch, ghosts
  <2>2. \A v \in Views, n \in Revisions :
            manifest'[v][n].selection # None =>
                /\ manifest'[v][n].selection = manifest[v][n].selection
                /\ manifest[v][n].selection.owner \in Snapshots
    BY <1>8 DEF TypeInv, TypeOK, Rows, Selections
  <2>. QED BY <2>1, <2>2 DEF SelectedSnapshots
<1>. QED BY <1>7, <1>11, <1>12, <1>13, <1>14, <1>15

(* Removing a batch of names preserves the invariant.                       *)
LEMMA RemoveNameBatchInv ==
    ASSUME StoreInv, remove_name_batch
    PROVE  StoreInv'
<1>. USE DEF StoreInv
<1>1. sweep' = [sweep EXCEPT !.batch = {}] /\ sweep.phase = "names"
  BY DEF remove_name_batch, guarded
<1>2. /\ SweepOK' /\ sweep'.step <= steps(sweep'.phase) + 1 /\ sweep'.phase = "names"
  BY <1>1, EmptiedBatch DEF remove_name_batch
<1>3. TypeInv'
  <2>1. (sweep.step \in 1..(steps(sweep.phase) + 1))'
    BY <1>2, StepCounts DEF SweepOK, SweepState
  <2>. QED BY <1>2, <2>1 DEF remove_name_batch, ghosts, TypeInv, TypeOK
<1>4. StoredStates' /\ GarbageIsAccounted' /\ LiveStatesExist' /\ CurrentRows'
  BY DEF remove_name_batch, ghosts, StoredStates, GarbageIsAccounted, LiveStatesExist,
         live_state, Current, CurrentRows
<1>5. VisitedRelations' /\ SweptRevisions'
  BY <1>2 DEF VisitedRelations, SweptRevisions
<1>6. SelectedShards'
  BY DEF remove_name_batch, unselected_names, SelectedShards
<1>7. SelectedSnapshots'
  BY DEF remove_name_batch, ghosts, SelectedSnapshots, Complete
<1>. QED BY <1>3, <1>4, <1>5, <1>6, <1>7

(* A selection a revision of the view holds is a selected snapshot. *)
LEMMA SelectedOwner ==
    ASSUME TypeInv, NEW v \in Views, NEW n \in Revisions, manifest[v][n].selection # None
    PROVE  /\ manifest[v][n].selection \in Selections
           /\ manifest[v][n].selection.owner \in Snapshots
           /\ manifest[v][n].selection.owner \in selected_snapshot(v)
  BY DEF TypeInv, TypeOK, Rows, Selections, selected_snapshot

(* Removing a batch of rows of a contribution preserves the invariant.      *)
LEMMA RemoveContributionBatchInv ==
    ASSUME StoreInv, remove_contribution_batch
    PROVE  StoreInv'
<1>. USE DEF StoreInv
<1>1. sweep.phase = "snapshots" /\ sweep.step \in 1..2
  BY StepCounts DEF remove_contribution_batch, TypeInv, SweepOK, SweepState
<1>2. PICK w \in Views, y \in Snapshots : sweep.item = <<w, y>>
  BY DEF remove_contribution_batch, TypeInv, SweepOK
<1>3. CASE guard_enrichment_snapshot
  <2>1. /\ sweep' = [sweep EXCEPT !.batch = {}]
        /\ contribution' = [contribution EXCEPT ![w][y] = @ \ {ContributionSteps[sweep.step]}]
        /\ y \notin selected_snapshot(w)
    BY <1>2, <1>3 DEF remove_contribution_batch, guarded, guard_enrichment_snapshot
  <2>2. SweepOK' /\ sweep'.step <= steps(sweep'.phase) + 1 /\ sweep'.phase = "snapshots"
    BY <1>1, <2>1, EmptiedBatch DEF remove_contribution_batch
  <2>3. /\ contribution' \in [Views -> [Snapshots -> SUBSET ContributionRelations]]
        /\ \A v \in Views, x \in Snapshots :
               v # w \/ x # y => contribution'[v][x] = contribution[v][x]
    BY <2>1 DEF TypeInv, TypeOK
  <2>4. TypeInv'
    <3>1. (sweep.step \in 1..(steps(sweep.phase) + 1))'
      BY <2>2, StepCounts DEF SweepOK, SweepState
    <3>. QED BY <2>2, <2>3, <3>1 DEF remove_contribution_batch, ghosts, TypeInv, TypeOK
  <2>5. StoredStates' /\ GarbageIsAccounted' /\ LiveStatesExist' /\ CurrentRows' /\ SelectedShards'
    BY DEF remove_contribution_batch, ghosts, StoredStates, GarbageIsAccounted, LiveStatesExist,
           live_state, Current, CurrentRows, SelectedShards
  <2>6. VisitedRelations' /\ SweptRevisions'
    BY <2>2 DEF VisitedRelations, SweptRevisions
  <2>7. SelectedSnapshots'
    <3>. SUFFICES ASSUME NEW v \in Views, NEW n \in Revisions, manifest[v][n].selection # None
                  PROVE  Complete(v, manifest[v][n].selection.owner)'
      BY DEF SelectedSnapshots, remove_contribution_batch, Complete
    <3>. DEFINE x == manifest[v][n].selection.owner
    <3>1. x \in Snapshots /\ x \in selected_snapshot(v) /\ Complete(v, x)
      BY SelectedOwner DEF SelectedSnapshots
    <3>2. contribution'[v][x] = contribution[v][x]
      BY <2>1, <2>3, <3>1
    <3>3. manifest' = manifest
      BY DEF remove_contribution_batch
    <3>. QED BY <3>1, <3>2, <3>3 DEF Complete, remove_contribution_batch, ghosts
  <2>. QED BY <2>4, <2>5, <2>6, <2>7
<1>4. CASE ~guard_enrichment_snapshot
  <2>1. sweep' = next_relation /\ UNCHANGED <<db, publications, stops, ghosts>>
    BY <1>4 DEF remove_contribution_batch, guarded, db
  <2>2. /\ SweepOK' /\ sweep'.step <= steps(sweep'.phase) + 1
        /\ sweep'.phase # "states" /\ sweep'.phase # "revisions"
    BY <1>1, <2>1, NextRelationType, StepCounts
  <2>3. TypeInv'
    BY <2>1, <2>2, ThreadTypes DEF TypeInv, TypeOK
  <2>4. VisitedRelations' /\ SweptRevisions'
    BY <2>2 DEF VisitedRelations, SweptRevisions
  <2>. QED BY <2>1, <2>3, <2>4, ThreadStep
<1>. QED BY <1>3, <1>4

(* The thread has nothing in its hands. *)
LEMMA ItemDone ==
    ASSUME StoreInv, sweep.batch = {}, sweep.phase # "names", sweep.phase # "idle",
           sweep' = [sweep EXCEPT !.item = None]
    PROVE  /\ SweepOK' /\ (sweep.step \in 1..(steps(sweep.phase) + 1))'
           /\ sweep'.phase = sweep.phase /\ sweep'.item = None
<1>1. sweep \in SweepState /\ None \in Items
  BY DEF StoreInv, TypeInv, SweepOK, Items
<1>2. /\ sweep' \in SweepState
      /\ sweep'.phase = sweep.phase /\ sweep'.item = None
      /\ sweep'.step = sweep.step /\ sweep'.batch = {} /\ sweep'.todo = sweep.todo
  BY <1>1 DEF SweepState
<1>3. SweepOK'
  BY <1>2 DEF StoreInv, TypeInv, SweepOK
<1>. QED BY <1>2, <1>3 DEF StoreInv, TypeInv, TypeOK

(* Removing a swept state from the queue preserves the invariant.           *)
LEMMA DequeueStateInv ==
    ASSUME StoreInv, dequeue_state
    PROVE  StoreInv'
<1>. USE DEF StoreInv
<1>1. /\ sweep.phase = "states" /\ sweep.item \in States /\ sweep.step = 3
      /\ sweep.batch = {}
  BY StepCounts DEF dequeue_state, TypeInv, TypeOK, SweepOK, SweepState
<1>2. /\ SweepOK' /\ (sweep.step \in 1..(steps(sweep.phase) + 1))'
      /\ sweep'.phase = "states" /\ sweep'.item = None
  BY <1>1, ItemDone DEF dequeue_state
<1>3. TypeInv'
  BY <1>2 DEF dequeue_state, ghosts, TypeInv, TypeOK
<1>4. StoredStates' /\ LiveStatesExist' /\ CurrentRows' /\ SelectedShards'
  BY DEF dequeue_state, ghosts, StoredStates, LiveStatesExist, live_state, Current, CurrentRows,
         SelectedShards
<1>5. GarbageIsAccounted'
  <2>1. ASSUME sweep.item \notin requeued \cup repository_state
        PROVE  facts[sweep.item] = {}
    <3>1. /\ FactSteps[1] \notin facts[sweep.item] /\ FactSteps[2] \notin facts[sweep.item]
      BY <1>1, <2>1, RelationFacts DEF VisitedRelations
    <3>. QED BY <1>1, <3>1, RelationFacts DEF TypeInv, TypeOK
  <2>. QED BY <2>1 DEF dequeue_state, ghosts, GarbageIsAccounted
<1>6. VisitedRelations' /\ SweptRevisions'
  BY <1>2, NoneIsNoValue DEF VisitedRelations, SweptRevisions
<1>7. SelectedSnapshots'
  BY DEF dequeue_state, ghosts, SelectedSnapshots, Complete
<1>. QED BY <1>3, <1>4, <1>5, <1>6, <1>7

(* Removing an output without rows preserves the invariant.                 *)
LEMMA RemoveOutputInv ==
    ASSUME StoreInv, remove_output
    PROVE  StoreInv'
<1>. USE DEF StoreInv
<1>1. sweep.phase = "snapshots" /\ sweep.batch = {}
  BY StepCounts DEF remove_output, TypeInv, TypeOK, SweepOK, SweepState
<1>2. PICK w \in Views, y \in Snapshots : sweep.item = <<w, y>>
  BY DEF remove_output, TypeInv, SweepOK
<1>3. /\ SweepOK' /\ (sweep.step \in 1..(steps(sweep.phase) + 1))'
      /\ sweep'.phase = "snapshots"
  BY <1>1, ItemDone DEF remove_output
<1>4. /\ output' \in [Views -> SUBSET Snapshots]
      /\ \A v \in Views, x \in Snapshots :
             x \in output[v] /\ x \in selected_snapshot(v) => x \in output'[v]
  BY <1>2 DEF remove_output, guard_enrichment_snapshot, TypeInv, TypeOK
<1>5. TypeInv'
  BY <1>3, <1>4 DEF remove_output, ghosts, TypeInv, TypeOK
<1>6. StoredStates' /\ GarbageIsAccounted' /\ LiveStatesExist' /\ CurrentRows' /\ SelectedShards'
  BY DEF remove_output, ghosts, StoredStates, GarbageIsAccounted, LiveStatesExist,
         live_state, Current, CurrentRows, SelectedShards
<1>7. VisitedRelations' /\ SweptRevisions'
  BY <1>3 DEF VisitedRelations, SweptRevisions
<1>8. SelectedSnapshots'
  <2>. SUFFICES ASSUME NEW v \in Views, NEW n \in Revisions, manifest[v][n].selection # None
                PROVE  Complete(v, manifest[v][n].selection.owner)'
    BY DEF SelectedSnapshots, remove_output, Complete
  <2>1. Complete(v, manifest[v][n].selection.owner)
    BY DEF SelectedSnapshots
  <2>. QED BY <1>4, <2>1, SelectedOwner DEF Complete, remove_output, ghosts
<1>. QED BY <1>5, <1>6, <1>7, <1>8

-----------------------------------------------------------------------------
(* Claims and publications.                                                 *)

(* Claiming the garbage preserves the invariant.                            *)
LEMMA ClaimInv ==
    ASSUME StoreInv, claim_garbage_collection
    PROVE  StoreInv'
<1>. USE DEF StoreInv
<1>. DEFINE stale == repository_state \ live_state
<1>1. /\ queue' = queue \cup stale /\ repository_state' = repository_state \ stale
      /\ requeued' = (requeued \ stale)
                     \cup IF sweep.phase = "states" THEN stale \cap {sweep.item} ELSE {}
      /\ stale \subseteq States
  BY DEF claim_garbage_collection, requeue, TypeInv, TypeOK
<1>2. TypeInv'
  <2>1. requeued' \subseteq States
    BY <1>1 DEF TypeInv, TypeOK
  <2>. QED BY <1>1, <2>1 DEF claim_garbage_collection, TypeInv, TypeOK, SweepOK
<1>3. StoredStates' /\ CurrentRows' /\ SelectedShards' /\ SweptRevisions'
  BY <1>1 DEF claim_garbage_collection, StoredStates, CurrentRows, Current, SelectedShards,
              SweptRevisions
<1>4. LiveStatesExist'
  BY <1>1 DEF claim_garbage_collection, LiveStatesExist, live_state, Current
<1>5. GarbageIsAccounted'
  BY <1>1 DEF claim_garbage_collection, GarbageIsAccounted
<1>6. VisitedRelations'
  BY <1>1 DEF claim_garbage_collection, VisitedRelations
<1>7. SelectedSnapshots'
  BY DEF claim_garbage_collection, SelectedSnapshots, Complete
<1>. QED BY <1>2, <1>3, <1>4, <1>5, <1>6, <1>7

(* Giving up a state of a repository of its own preserves the invariant.    *)
LEMMA AbandonInv ==
    ASSUME StoreInv, abandon_standalone
    PROVE  StoreInv'
<1>. USE DEF StoreInv
<1>1. TypeInv'
  BY BoundsAreNaturals DEF abandon_standalone, ghosts, TypeInv, TypeOK, SweepOK
<1>2. StoredStates' /\ CurrentRows' /\ SelectedShards' /\ SweptRevisions' /\ LiveStatesExist'
  BY DEF abandon_standalone, ghosts, StoredStates, CurrentRows, Current, SelectedShards,
         SweptRevisions, LiveStatesExist, live_state
<1>3. GarbageIsAccounted' /\ VisitedRelations' /\ SelectedSnapshots'
  BY DEF abandon_standalone, ghosts, GarbageIsAccounted, VisitedRelations, SelectedSnapshots,
         Complete
<1>. QED BY <1>1, <1>2, <1>3

(* A published state exists and holds all its facts, and nothing is taken   *)
(* from any other.                                                          *)
LEMMA StoreState ==
    ASSUME StoreInv, NEW s \in States, store_state(s)
    PROVE  /\ facts' \in [States -> SUBSET FactRelations]
           /\ repository_state' = repository_state \cup {s}
           /\ repository_state' \subseteq States
           /\ \A r \in States \ {s} : facts'[r] = facts[r]
           /\ \A r \in repository_state' : facts'[r] = FactRelations
  BY DEF StoreInv, TypeInv, TypeOK, store_state, StoredStates

(* What a publication that stores a state owes to states and facts. *)
LEMMA StoredFacts ==
    ASSUME StoreInv, NEW s \in States, store_state(s), UNCHANGED <<queue, sweep, ghosts>>
    PROVE  StoredStates' /\ GarbageIsAccounted' /\ VisitedRelations'
<1>1. StoredStates'
  BY StoreState DEF StoredStates
<1>2. GarbageIsAccounted'
  BY StoreState DEF GarbageIsAccounted, StoreInv, ghosts
<1>3. VisitedRelations'
  BY StoreState DEF VisitedRelations, StoreInv, ghosts
<1>. QED BY <1>1, <1>2, <1>3

(* Publishing the state of a repository of its own preserves the invariant. *)
LEMMA PublishRepositoryInv ==
    ASSUME StoreInv, NEW s \in States, publish_repository(s)
    PROVE  StoreInv'
<1>. USE DEF StoreInv
<1>1. store_state(s) /\ UNCHANGED <<queue, sweep, ghosts>>
  BY DEF publish_repository
<1>2. StoredStates' /\ GarbageIsAccounted' /\ VisitedRelations'
  BY <1>1, StoredFacts
<1>3. TypeInv'
  BY <1>1, StoreState, BoundsAreNaturals
  DEF publish_repository, ghosts, TypeInv, TypeOK, SweepOK
<1>4. LiveStatesExist'
  BY <1>1, StoreState DEF publish_repository, LiveStatesExist, live_state, Current
<1>5. CurrentRows' /\ SelectedShards' /\ SweptRevisions' /\ SelectedSnapshots'
  BY DEF publish_repository, ghosts, CurrentRows, Current, SelectedShards, SweptRevisions,
         SelectedSnapshots, Complete
<1>. QED BY <1>2, <1>3, <1>4, <1>5

(* The counter of publications stays within its bound. *)
LEMMA AdmittedCount ==
    ASSUME TypeInv, NEW v, NEW s, admitted(v, s)
    PROVE  publications' \in 0..MaxPublications
  BY BoundsAreNaturals DEF admitted, TypeInv, TypeOK

(* Publishing a revision of a view preserves the invariant.                 *)
LEMMA PublishObservationsInv ==
    ASSUME StoreInv, NEW v \in Views, NEW s \in States, NEW i \in Inputs \cup {None},
           publish_observations(v, s, i)
    PROVE  StoreInv'
<1>. USE DEF StoreInv
<1>. DEFINE n == revision[v] + 1
            row == [state |-> s, input |-> i, metadata |-> TRUE,
                    selection |-> carry_forward(v, i)]
<1>1. /\ store_state(s) /\ UNCHANGED <<queue, sweep, ghosts>>
      /\ n \in Revisions
      /\ revision' = [revision EXCEPT ![v] = n]
      /\ manifest' = [manifest EXCEPT ![v][n] = row]
      /\ semantic' = [semantic EXCEPT ![v] = s]
      /\ shard' = [shard EXCEPT ![v] = s]
      /\ names' = IF shard[v] = s THEN names ELSE names \cup {s}
      /\ UNCHANGED <<repository_revision, output, contribution, stops>>
      /\ standalone' = standalone_done(v)
      /\ admitted(v, s)
  BY DEF publish_observations, store_analysis_metadata
<1>2. StoredStates' /\ GarbageIsAccounted' /\ VisitedRelations'
  BY <1>1, StoredFacts
<1>3. carry_forward(v, i) \in {Current(v).selection, None} /\ row \in Rows
  BY CurrentType DEF carry_forward, Rows
<1>. HIDE DEF row
<1>4. /\ manifest' \in [Views -> [Revisions -> Rows]]
      /\ manifest'[v][n] = row
      /\ \A w \in Views, k \in Revisions : w # v \/ k # n => manifest'[w][k] = manifest[w][k]
  BY <1>1, <1>3 DEF TypeInv, TypeOK
<1>5. /\ revision' \in [Views -> 0..MaxRevision] /\ revision'[v] = n /\ revision'[v] # 0
      /\ \A w \in Views : w # v => revision'[w] = revision[w]
      /\ \A w \in Views : revision[w] <= revision'[w]
  BY <1>1, BoundsAreNaturals DEF TypeInv, TypeOK, Revisions
<1>6. /\ Current(v)' = row
      /\ \A w \in Views : w # v => Current(w)' = Current(w)
  <2>1. Current(v)' = row
    BY <1>4, <1>5 DEF Current
  <2>2. ASSUME NEW w \in Views, w # v
        PROVE  Current(w)' = Current(w)
    BY <1>4, <1>5, <2>2, CurrentType DEF Current
  <2>. QED BY <2>1, <2>2
<1>7. TypeInv'
  <2>1. /\ semantic' \in [Views -> States \cup {None}] /\ shard' \in [Views -> States \cup {None}]
        /\ names' \subseteq States /\ standalone' \in States \cup {None}
    BY <1>1 DEF TypeInv, TypeOK, standalone_done
  <2>2. publications' \in 0..MaxPublications
    BY <1>1, AdmittedCount
  <2>. QED BY <1>1, <1>4, <1>5, <2>1, <2>2, StoreState DEF ghosts, TypeInv, TypeOK, SweepOK
<1>8. LiveStatesExist'
  <2>1. row.state = s
    BY DEF row
  <2>. QED BY <1>1, <1>6, <2>1, StoreState DEF LiveStatesExist, live_state
<1>9. SelectedShards'
  BY <1>1, <1>5, NoneIsNoValue DEF SelectedShards, TypeInv, TypeOK
<1>10. CurrentRows'
  <2>1. row.state = s /\ row.metadata
    BY DEF row
  <2>. QED BY <1>1, <1>5, <1>6, <2>1 DEF CurrentRows, ghosts, TypeInv, TypeOK
<1>11. SweptRevisions'
  BY <1>1, <1>5 DEF SweptRevisions, ghosts, TypeInv, TypeOK, SweepOK, SweepState
<1>12. SelectedSnapshots'
  <2>1. \A w, x : Complete(w, x)' = Complete(w, x)
    BY <1>1 DEF Complete, ghosts
  <2>2. row.selection # None => Complete(v, row.selection.owner)
    <3>1. row.selection # None => row.selection = Current(v).selection
      BY <1>3 DEF row
    <3>2. row.selection # None => revision[v] # 0
      BY <3>1, CurrentType DEF NoRow
    <3>. QED BY <3>1, <3>2, CurrentType DEF SelectedSnapshots
  <2>. QED BY <1>4, <2>1, <2>2 DEF SelectedSnapshots
<1>. QED BY <1>2, <1>7, <1>8, <1>9, <1>10, <1>11, <1>12

(* Replacing the inputs of a published view keeps its state, its metadata   *)
(* and its selection, or drops the selection.                               *)
LEMMA ReplaceInputs ==
    ASSUME TypeInv, NEW v \in Views, NEW i \in Inputs \cup {None}, replace_inputs(v, i),
           revision[v] # 0
    PROVE  /\ manifest' \in [Views -> [Revisions -> Rows]]
           /\ revision' \in [Views -> 0..MaxRevision]
           /\ \A w \in Views : revision[w] <= revision'[w]
           /\ \A w \in Views : w # v => /\ revision'[w] = revision[w]
                                        /\ Current(w)' = Current(w)
           /\ revision'[v] # 0
           /\ Current(v)'.state = Current(v).state
           /\ Current(v)'.metadata = Current(v).metadata
           /\ Current(v)'.selection \in {Current(v).selection, None}
           /\ \A w \in Views, k \in Revisions :
                  manifest'[w][k].selection # None =>
                      \E m \in Revisions : manifest[w][m].selection = manifest'[w][k].selection
<1>. DEFINE old == Current(v)
            row == [Current(v) EXCEPT !.input = i]
            copy == [copy_revision(v, None) EXCEPT !.input = i]
            n == revision[v] + 1
            r == revision[v]
<1>1. old \in Rows /\ r \in Revisions /\ old = manifest[v][r] /\ n - 1 = r /\ n # r
  BY CurrentType DEF TypeInv, TypeOK, Revisions
<1>2. /\ row \in Rows /\ row.state = old.state /\ row.metadata = old.metadata
      /\ row.selection = old.selection
  BY <1>1 DEF Rows
<1>3. /\ copy \in Rows /\ copy.state = old.state /\ copy.metadata = old.metadata
      /\ copy.selection = None
  BY <1>1 DEF Rows, copy_revision
<1>. HIDE DEF old, row, copy
<1>4. CASE i = None /\ row.selection # None
  <2>1. /\ n \in Revisions /\ revision' = [revision EXCEPT ![v] = n]
        /\ manifest' = [manifest EXCEPT ![v][n - 1] = row, ![v][n] = copy]
    BY <1>4 DEF replace_inputs, row, copy
  <2>. HIDE DEF n
  <2>2. /\ manifest' \in [Views -> [Revisions -> Rows]]
        /\ manifest'[v][r] = row /\ manifest'[v][n] = copy
        /\ \A w \in Views, k \in Revisions :
               w # v \/ (k # n /\ k # r) => manifest'[w][k] = manifest[w][k]
    BY <1>1, <1>2, <1>3, <2>1 DEF TypeInv, TypeOK
  <2>3. /\ revision' \in [Views -> 0..MaxRevision] /\ revision'[v] = n /\ n # 0
        /\ \A w \in Views : revision[w] <= revision'[w]
        /\ \A w \in Views : w # v => revision'[w] = revision[w]
    BY <1>1, <2>1, BoundsAreNaturals DEF TypeInv, TypeOK, Revisions, n
  <2>4. Current(v)' = copy
    BY <2>2, <2>3 DEF Current
  <2>5. ASSUME NEW w \in Views, w # v
        PROVE  Current(w)' = Current(w)
    BY <2>2, <2>3, <2>5, CurrentType DEF Current
  <2>6. ASSUME NEW w \in Views, NEW k \in Revisions, manifest'[w][k].selection # None
        PROVE  \E m \in Revisions : manifest[w][m].selection = manifest'[w][k].selection
    BY <1>1, <1>2, <1>3, <2>2, <2>6
  <2>. QED BY <1>3, <2>2, <2>3, <2>4, <2>5, <2>6 DEF old
<1>5. CASE ~(i = None /\ row.selection # None)
  <2>1. revision' = revision /\ manifest' = [manifest EXCEPT ![v][n - 1] = row]
    BY <1>5 DEF replace_inputs, row, copy
  <2>. HIDE DEF n
  <2>2. /\ manifest' \in [Views -> [Revisions -> Rows]]
        /\ manifest'[v][r] = row
        /\ \A w \in Views, k \in Revisions :
               w # v \/ k # r => manifest'[w][k] = manifest[w][k]
    BY <1>1, <1>2, <2>1 DEF TypeInv, TypeOK
  <2>3. \A w \in Views : revision[w] <= revision'[w]
    BY <2>1 DEF TypeInv, TypeOK
  <2>4. Current(v)' = row
    BY <2>1, <2>2 DEF Current
  <2>5. ASSUME NEW w \in Views, w # v
        PROVE  Current(w)' = Current(w)
    BY <2>1, <2>2, <2>5, CurrentType DEF Current
  <2>6. ASSUME NEW w \in Views, NEW k \in Revisions, manifest'[w][k].selection # None
        PROVE  \E m \in Revisions : manifest[w][m].selection = manifest'[w][k].selection
    BY <1>1, <1>2, <2>2, <2>6
  <2>. QED BY <1>2, <2>1, <2>2, <2>3, <2>4, <2>5, <2>6 DEF old, TypeInv, TypeOK
<1>. QED BY <1>4, <1>5

(* Replacing the enrichment inputs of a published view preserves the        *)
(* invariant.                                                               *)
LEMMA ReplaceInputsInv ==
    ASSUME StoreInv, NEW v \in Views, NEW i \in Inputs \cup {None}, replace_inputs(v, i),
           revision[v] # 0, publications' \in 0..MaxPublications,
           standalone' \in States \cup {None},
           UNCHANGED <<semantic, repository_revision, repository_state, queue, facts, shard,
                       names, output, contribution, sweep, stops, ghosts>>
    PROVE  StoreInv'
<1>. USE DEF StoreInv
<1>1. /\ manifest' \in [Views -> [Revisions -> Rows]]
      /\ revision' \in [Views -> 0..MaxRevision]
      /\ \A w \in Views : revision[w] <= revision'[w]
      /\ \A w \in Views : w # v => revision'[w] = revision[w] /\ Current(w)' = Current(w)
      /\ revision'[v] # 0
      /\ Current(v)'.state = Current(v).state
      /\ Current(v)'.metadata = Current(v).metadata
      /\ \A w \in Views, k \in Revisions :
             manifest'[w][k].selection # None =>
                 \E m \in Revisions : manifest[w][m].selection = manifest'[w][k].selection
  BY ReplaceInputs
<1>2. TypeInv'
  BY <1>1 DEF ghosts, TypeInv, TypeOK, SweepOK
<1>3. StoredStates' /\ GarbageIsAccounted' /\ VisitedRelations'
  BY DEF ghosts, StoredStates, GarbageIsAccounted, VisitedRelations
<1>4. LiveStatesExist'
  <2>1. \A w \in Views : Current(w)'.state = Current(w).state
    BY <1>1
  <2>. QED BY <2>1 DEF LiveStatesExist, live_state
<1>5. SelectedShards'
  BY <1>1 DEF SelectedShards
<1>6. CurrentRows'
  BY <1>1 DEF CurrentRows, ghosts
<1>7. SweptRevisions'
  BY <1>1 DEF SweptRevisions, ghosts, TypeInv, TypeOK, SweepOK, SweepState
<1>8. SelectedSnapshots'
  <2>1. \A w, x : Complete(w, x)' = Complete(w, x)
    BY DEF Complete, ghosts
  <2>. QED BY <1>1, <2>1 DEF SelectedSnapshots
<1>. QED BY <1>2, <1>3, <1>4, <1>5, <1>6, <1>7, <1>8

(* A view whose inputs are replaced is published. *)
LEMMA RefreshIsPublished ==
    ASSUME StoreInv, NEW v \in Views, NEW s \in States, NEW i, refresh_semantic_noop(v, s, i)
    PROVE  revision[v] # 0
  BY CurrentType DEF StoreInv, refresh_semantic_noop, NoRow

(* Confirming what a view shows preserves the invariant.                    *)
LEMMA RefreshInv ==
    ASSUME StoreInv, NEW v \in Views, NEW s \in States, NEW i \in Inputs \cup {None},
           refresh_semantic_noop(v, s, i)
    PROVE  StoreInv'
<1>1. publications' \in 0..MaxPublications
  BY AdmittedCount DEF refresh_semantic_noop, StoreInv
<1>2. standalone' \in States \cup {None}
  BY DEF refresh_semantic_noop, standalone_done, StoreInv, TypeInv, TypeOK
<1>. QED BY <1>1, <1>2, RefreshIsPublished, ReplaceInputsInv DEF refresh_semantic_noop

(* Storing inputs for a new catalog of analyzers preserves the invariant.   *)
LEMMA EnsureInputsInv ==
    ASSUME StoreInv, NEW v \in Views, NEW i \in Inputs \cup {None},
           ensure_revision_inputs(v, i)
    PROVE  StoreInv'
<1>1. publications' \in 0..MaxPublications /\ standalone' \in States \cup {None}
  BY BoundsAreNaturals DEF ensure_revision_inputs, StoreInv, TypeInv, TypeOK
<1>. QED BY <1>1, ReplaceInputsInv DEF ensure_revision_inputs

(* What an enrichment leaves in the store: the next revision shows the same *)
(* state and selects the snapshot, which is complete or recorded.           *)
LEMMA PublishEnrichment ==
    ASSUME StoreInv, NEW v \in Views, NEW x \in Snapshots, publish_enrichment(v, x)
    PROVE  /\ manifest' \in [Views -> [Revisions -> Rows]]
           /\ revision[v] # 0 /\ revision'[v] = revision[v] + 1 /\ revision'[v] \in Revisions
           /\ revision' \in [Views -> 0..MaxRevision]
           /\ \A w \in Views : w # v => /\ revision'[w] = revision[w]
                                        /\ Current(w)' = Current(w)
           /\ Current(v)'.state = Current(v).state
           /\ Current(v)'.metadata = Current(v).metadata
           /\ Current(v)'.selection # None /\ Current(v)'.selection.owner = x
           /\ \A w \in Views, k \in Revisions :
                  w # v \/ k # revision'[v] => manifest'[w][k] = manifest[w][k]
           /\ contribution' \in [Views -> [Snapshots -> SUBSET ContributionRelations]]
           /\ output' \in [Views -> SUBSET Snapshots]
           /\ Complete(v, x)'
           /\ \A w \in Views, y \in Snapshots : Complete(w, y) => Complete(w, y)'
<1>. USE DEF StoreInv
<1>. DEFINE old == Current(v)
            n == revision[v] + 1
            selection == [owner |-> x, input |-> Current(v).input]
            row == copy_revision(v, selection)
            stored == store_enrichment_outputs(v, x)
<1>1. /\ old.input # None /\ n \in Revisions
      /\ contribution' = [contribution EXCEPT ![v][x] = stored]
      /\ output' = [output EXCEPT ![v] = @ \cup {x}]
      /\ reselected' = IF stored = ContributionRelations THEN reselected \ {<<v, x>>}
                                                        ELSE reselected \cup {<<v, x>>}
      /\ revision' = [revision EXCEPT ![v] = n]
      /\ manifest' = [manifest EXCEPT ![v][n] = row]
  BY DEF publish_enrichment
<1>2. /\ old \in Rows /\ revision[v] # 0 /\ revision[v] \in Revisions
      /\ selection \in Selections /\ selection # None /\ selection.owner = x
  <2>1. old \in Rows /\ revision[v] # 0 /\ revision[v] \in Revisions
    BY <1>1, CurrentType DEF NoRow
  <2>2. selection \in Selections
    BY <1>1, <2>1 DEF Selections, Rows
  <2>. QED BY <2>1, <2>2, NoneIsNoValue
<1>3. /\ row \in Rows /\ row.state = old.state /\ row.metadata = old.metadata
      /\ row.selection = selection
  <2>. HIDE DEF selection
  <2>. QED BY <1>2 DEF copy_revision, Rows
<1>4. stored \in SUBSET ContributionRelations
  BY DEF store_enrichment_outputs, TypeInv, TypeOK
<1>. HIDE DEF old, selection, row, stored, n
<1>5. /\ manifest' \in [Views -> [Revisions -> Rows]]
      /\ manifest'[v][n] = row
      /\ \A w \in Views, k \in Revisions : w # v \/ k # n => manifest'[w][k] = manifest[w][k]
  BY <1>1, <1>3 DEF TypeInv, TypeOK
<1>6. /\ revision' \in [Views -> 0..MaxRevision] /\ revision'[v] = n /\ n # 0
      /\ \A w \in Views : w # v => revision'[w] = revision[w]
  BY <1>1, <1>2, BoundsAreNaturals DEF TypeInv, TypeOK, Revisions, n
<1>7. Current(v)' = row
  BY <1>5, <1>6 DEF Current
<1>8. ASSUME NEW w \in Views, w # v
      PROVE  Current(w)' = Current(w)
  BY <1>5, <1>6, <1>8, CurrentType DEF Current
<1>9. /\ contribution' \in [Views -> [Snapshots -> SUBSET ContributionRelations]]
      /\ output' \in [Views -> SUBSET Snapshots]
      /\ contribution'[v][x] = stored
      /\ x \in output'[v]
      /\ \A w \in Views : output[w] \subseteq output'[w]
      /\ \A w \in Views, y \in Snapshots :
             w # v \/ y # x => contribution'[w][y] = contribution[w][y]
  BY <1>1, <1>4 DEF TypeInv, TypeOK
<1>10. Complete(v, x)'
  BY <1>1, <1>9 DEF Complete
<1>11. ASSUME NEW w \in Views, NEW y \in Snapshots, Complete(w, y)
       PROVE  Complete(w, y)'
  <2>1. CASE w = v /\ y = x
    BY <1>10, <2>1
  <2>2. CASE w # v \/ y # x
    <3>1. <<w, y>> # <<v, x>>
      BY <2>2
    <3>2. <<w, y>> \in reselected => <<w, y>> \in reselected'
      BY <1>1, <3>1
    <3>. QED BY <1>9, <1>11, <2>2, <3>2 DEF Complete
  <2>. QED BY <2>1, <2>2
<1>. QED BY <1>1, <1>2, <1>3, <1>5, <1>6, <1>7, <1>8, <1>9, <1>10, <1>11 DEF old, n

(* Selecting an enrichment preserves the invariant.                         *)
LEMMA PublishEnrichmentInv ==
    ASSUME StoreInv, NEW v \in Views, NEW x \in Snapshots, publish_enrichment(v, x)
    PROVE  StoreInv'
<1>. USE DEF StoreInv
<1>1. UNCHANGED <<semantic, repository_revision, standalone, repository_state, queue, facts,
                  shard, names, sweep, stops, recreated, requeued>>
  BY DEF publish_enrichment
<1>2. /\ publications' \in 0..MaxPublications
      /\ reselected' \subseteq Views \X Snapshots
  BY BoundsAreNaturals DEF publish_enrichment, TypeInv, TypeOK
<1>3. TypeInv'
  BY <1>1, <1>2, PublishEnrichment DEF TypeInv, TypeOK, SweepOK
<1>4. StoredStates' /\ GarbageIsAccounted' /\ VisitedRelations'
  BY <1>1 DEF StoredStates, GarbageIsAccounted, VisitedRelations
<1>5. LiveStatesExist'
  <2>1. \A w \in Views : Current(w)'.state = Current(w).state
    BY PublishEnrichment
  <2>. QED BY <1>1, <2>1 DEF LiveStatesExist, live_state
<1>6. \A w \in Views : /\ revision[w] <= revision'[w]
                       /\ revision[w] = 0 <=> revision'[w] = 0
  BY PublishEnrichment, BoundsAreNaturals DEF TypeInv, TypeOK
<1>7. SelectedShards'
  BY <1>1, <1>6 DEF SelectedShards
<1>8. CurrentRows'
  BY <1>1, <1>6, PublishEnrichment DEF CurrentRows
<1>9. SweptRevisions'
  BY <1>1, <1>3, <1>6 DEF SweptRevisions, TypeInv, TypeOK, SweepOK, SweepState
<1>10. SelectedSnapshots'
  <2>1. ASSUME NEW w \in Views, NEW k \in Revisions, manifest'[w][k].selection # None,
               NEW y, y = manifest'[w][k].selection.owner
        PROVE  Complete(w, y)'
    <3>1. CASE w = v /\ k = revision'[v]
      <4>1. manifest'[w][k] = Current(v)'
        BY <1>3, <1>6, <3>1, PublishEnrichment DEF Current
      <4>. QED BY <2>1, <3>1, <4>1, PublishEnrichment
    <3>2. CASE w # v \/ k # revision'[v]
      <4>1. manifest'[w][k] = manifest[w][k]
        BY <3>2, PublishEnrichment
      <4>2. y \in Snapshots /\ Complete(w, y)
        BY <2>1, <4>1, SelectedOwner DEF SelectedSnapshots
      <4>. QED BY <4>2, PublishEnrichment
    <3>. QED BY <3>1, <3>2
  <2>. QED BY <2>1 DEF SelectedSnapshots, Complete
<1>. QED BY <1>3, <1>4, <1>5, <1>7, <1>8, <1>9, <1>10

(* Deleting the revision of a repository preserves the invariant.           *)
LEMMA DeleteInv ==
    ASSUME StoreInv, NEW v \in Standalone, delete_repository_revision(v)
    PROVE  StoreInv'
<1>. USE DEF StoreInv
<1>. DEFINE s == repository_revision
            live == {Current(w).state : w \in Views \ {v}}
            stale == {s} \ live
<1>1. /\ v \in Views /\ s \in States /\ s \in repository_state
      /\ queue' = queue \cup (stale \cap repository_state)
      /\ repository_state' = repository_state \ stale
      /\ requeued' = (requeued \ stale)
                     \cup IF sweep.phase = "states" THEN stale \cap {sweep.item} ELSE {}
      /\ UNCHANGED <<facts, names, sweep, stops, reselected>>
  BY KindsOfViews
  DEF delete_repository_revision, requeue, LiveStatesExist, live_state, TypeInv, TypeOK
<1>2. /\ revision' = [revision EXCEPT ![v] = 0]
      /\ manifest' = [manifest EXCEPT ![v] = [n \in Revisions |-> NoRow]]
      /\ semantic' = [semantic EXCEPT ![v] = None]
      /\ shard' = [shard EXCEPT ![v] = None]
      /\ output' = [output EXCEPT ![v] = {}]
      /\ contribution' = [contribution EXCEPT ![v] = [x \in Snapshots |-> {}]]
      /\ repository_revision' = None
      /\ recreated' = IF sweep.phase = "revisions" /\ sweep.current[v] # 0
                        THEN recreated \cup {v} ELSE recreated \ {v}
  BY DEF delete_repository_revision
<1>3. stale \subseteq States
  BY <1>1
<1>4. /\ Current(v)' = NoRow
      /\ \A w \in Views : w # v => Current(w)' = Current(w)
  <2>1. Current(v)' = NoRow
    BY <1>1, <1>2 DEF Current, TypeInv, TypeOK
  <2>2. ASSUME NEW w \in Views, w # v
        PROVE  Current(w)' = Current(w)
    BY <1>2, <2>2 DEF Current, TypeInv, TypeOK
  <2>. QED BY <2>1, <2>2
<1>5. TypeInv'
  <2>1. /\ revision' \in [Views -> 0..MaxRevision]
        /\ manifest' \in [Views -> [Revisions -> Rows]]
        /\ semantic' \in [Views -> States \cup {None}] /\ shard' \in [Views -> States \cup {None}]
    <3>1. revision' \in [Views -> 0..MaxRevision]
      <4>1. PICK zero \in 0..MaxRevision : zero = 0
        BY BoundsAreNaturals
      <4>2. [revision EXCEPT ![v] = zero] \in [Views -> 0..MaxRevision]
        BY DEF TypeInv, TypeOK
      <4>. QED BY <1>2, <4>1, <4>2
    <3>2. manifest' \in [Views -> [Revisions -> Rows]]
      BY <1>2, NoRowType DEF TypeInv, TypeOK
    <3>3. semantic' \in [Views -> States \cup {None}]
      BY <1>2 DEF TypeInv, TypeOK
    <3>4. shard' \in [Views -> States \cup {None}]
      BY <1>2 DEF TypeInv, TypeOK
    <3>. QED BY <3>1, <3>2, <3>3, <3>4
  <2>2. /\ output' \in [Views -> SUBSET Snapshots]
        /\ contribution' \in [Views -> [Snapshots -> SUBSET ContributionRelations]]
    BY <1>2 DEF TypeInv, TypeOK
  <2>3. /\ queue' \subseteq States /\ repository_state' \subseteq States
        /\ requeued' \subseteq States /\ recreated' \subseteq Views
    BY <1>1, <1>2, <1>3 DEF TypeInv, TypeOK
  <2>4. publications' \in 0..MaxPublications /\ UNCHANGED standalone
    BY BoundsAreNaturals DEF delete_repository_revision, TypeInv, TypeOK
  <2>. QED BY <1>1, <1>2, <2>1, <2>2, <2>3, <2>4 DEF TypeInv, TypeOK, SweepOK
<1>6. StoredStates'
  BY <1>1 DEF StoredStates
<1>7. GarbageIsAccounted'
  BY <1>1 DEF GarbageIsAccounted
<1>8. LiveStatesExist'
  BY <1>1, <1>2, <1>4 DEF LiveStatesExist, live_state, NoRow
<1>9. VisitedRelations'
  BY <1>1 DEF VisitedRelations
<1>10. SelectedShards'
  BY <1>1, <1>2 DEF SelectedShards, TypeInv, TypeOK
<1>11. CurrentRows'
  BY <1>1, <1>2, <1>4 DEF CurrentRows, TypeInv, TypeOK
<1>12. SweptRevisions'
  BY <1>1, <1>2 DEF SweptRevisions, TypeInv, TypeOK, SweepOK, SweepState
<1>13. SelectedSnapshots'
  <2>1. ASSUME NEW w \in Views, NEW k \in Revisions, manifest'[w][k].selection # None,
               NEW y, y = manifest'[w][k].selection.owner
        PROVE  Complete(w, y)'
    <3>1. w # v
      BY <1>1, <1>2, <2>1 DEF NoRow, TypeInv, TypeOK
    <3>2. manifest'[w] = manifest[w] /\ output'[w] = output[w] /\ contribution'[w] = contribution[w]
      BY <1>2, <3>1 DEF TypeInv, TypeOK
    <3>. QED BY <1>1, <2>1, <3>2 DEF SelectedSnapshots, Complete
  <2>. QED BY <2>1 DEF SelectedSnapshots, Complete
<1>. QED BY <1>5, <1>6, <1>7, <1>8, <1>9, <1>10, <1>11, <1>12, <1>13

-----------------------------------------------------------------------------
(* The safety of the store.                                                 *)

(* The inputs a view may be given are inputs or none.                       *)
LEMMA InputsType ==
    ASSUME NEW v, NEW i \in inputs(v)
    PROVE  i \in Inputs \cup {None}
  BY DEF inputs

(* Every step of a writer, a collector and its interruption preserves the   *)
(* invariant.                                                               *)
LEMMA StoreInvNext == StoreInv /\ [Next]_vars => StoreInv'
<1>. SUFFICES ASSUME StoreInv, [Next]_vars
              PROVE  StoreInv'
  OBVIOUS
<1>1. CASE Publication
  <2>1. ASSUME NEW v \in Views, NEW s \in States, NEW i \in inputs(v),
               publish_observations(v, s, i) \/ refresh_semantic_noop(v, s, i)
        PROVE  StoreInv'
    BY <2>1, InputsType, PublishObservationsInv, RefreshInv
  <2>2. ASSUME NEW v \in Views, NEW i \in inputs(v), ensure_revision_inputs(v, i)
        PROVE  StoreInv'
    BY <2>2, InputsType, EnsureInputsInv
  <2>. QED BY <1>1, <2>1, <2>2, PublishRepositoryInv, PublishEnrichmentInv, DeleteInv, AbandonInv
       DEF Publication
<1>2. CASE sweep_garbage_collection
  BY <1>2, StartSweepInv, NextItemInv, NextPhaseInv, SelectBatchInv, RemoveStateBatchInv,
     RemoveRevisionBatchInv, RemoveNameBatchInv, RemoveContributionBatchInv, DequeueStateInv,
     NextSnapshotInv, RemoveOutputInv
  DEF sweep_garbage_collection
<1>3. CASE UNCHANGED vars
  <2>1. UNCHANGED <<db, ghosts>> /\ UNCHANGED <<sweep, publications, stops>>
    BY <1>3 DEF vars
  <2>2. TypeInv' /\ VisitedRelations' /\ SweptRevisions'
    BY <2>1 DEF StoreInv, db, ghosts, TypeInv, TypeOK, SweepOK, VisitedRelations, SweptRevisions
  <2>. QED BY <2>1, <2>2, ThreadStep
<1>. QED BY <1>1, <1>2, <1>3, ClaimInv, StopSweepInv DEF Next

(* Every behaviour of the store satisfies the inductive invariant. *)
LEMMA StoreInvAlways == Spec => []StoreInv
  BY StoreInvInit, StoreInvNext, PTL DEF Spec

(* The type invariant, for any constants. *)
THEOREM TypeCorrect == Spec => []TypeOK
<1>1. StoreInv => TypeOK
  BY DEF StoreInv, TypeInv
<1>. QED BY <1>1, StoreInvAlways, PTL

(* A state some current revision selects exists and holds all its facts,    *)
(* whatever the collector claimed, selected or removed around it: a state   *)
(* is removed relation by relation only while it does not exist, and every  *)
(* publication that brings it back writes all of it.                        *)
THEOREM LiveStateStored == Spec => []LiveStateIsStored
<1>1. StoreInv => LiveStateIsStored
  BY DEF StoreInv, StoredStates, LiveStatesExist, LiveStateIsStored
<1>. QED BY <1>1, StoreInvAlways, PTL

(* Facts that no longer belong to an existing state are queued until the    *)
(* last relation is swept, interrupted sweeps included.                     *)
THEOREM GarbageAccounted == Spec => []GarbageIsAccounted
<1>1. StoreInv => GarbageIsAccounted
  BY DEF StoreInv
<1>. QED BY <1>1, StoreInvAlways, PTL

-----------------------------------------------------------------------------
(* The store implements PublishedViews.                                     *)

(* What a view selects, without asking whether it is stored. *)
Snapshot(v) == IF v \in recreated \/ Current(v).selection = None
                 THEN None ELSE Current(v).selection.owner
Shows == [v \in Views |-> IF revision[v] = 0 THEN None
                          ELSE [state |-> semantic[v], snapshot |-> Snapshot(v)]]

(* Nothing a query reads is torn: the rows, facts, names and contributions  *)
(* behind a view are those of what it selects.                              *)
Whole == visible = Shows

(* Under the invariant a published view is shown as a whole.                *)
LEMMA NothingIsTorn == StoreInv => Whole
<1>. SUFFICES ASSUME StoreInv, NEW v \in Views, revision[v] # 0
              PROVE  visible[v] = [state |-> semantic[v], snapshot |-> Snapshot(v)]
  BY DEF visible, Shows, Whole
<1>. USE DEF StoreInv
<1>1. CASE v \in recreated
  BY <1>1 DEF visible, Snapshot
<1>2. CASE v \notin recreated
  <2>. DEFINE row == Current(v)
  <2>1. /\ row.state = semantic[v] /\ row.metadata /\ row.state # None
        /\ shard[v] \in names
    BY <1>2 DEF CurrentRows, SelectedShards
  <2>2. facts[row.state] = FactRelations
    BY <2>1 DEF LiveStatesExist, live_state, StoredStates
  <2>3. row.selection # None => Complete(v, row.selection.owner)
    BY CurrentType DEF SelectedSnapshots
  <2>. QED BY <1>2, <2>1, <2>2, <2>3 DEF visible, Snapshot, Complete
<1>. QED BY <1>1, <1>2

(* What a published view shows is a state and at most one snapshot.         *)
LEMMA ShowsSomething ==
    ASSUME StoreInv, NEW v \in Views
    PROVE  /\ revision[v] # 0 => semantic[v] \in States
           /\ Snapshot(v) \in Snapshots \cup {None}
           /\ revision[v] # 0 => Shows[v] # None
<1>1. revision[v] # 0 => semantic[v] \in States
  BY DEF StoreInv, SelectedShards, TypeInv, TypeOK
<1>2. Snapshot(v) \in Snapshots \cup {None}
  BY CurrentType DEF StoreInv, Snapshot, Rows, Selections
<1>3. revision[v] # 0 => Shows[v] # None
  BY <1>1, <1>2, NoneIsNoValue DEF Shows
<1>. QED BY <1>1, <1>2, <1>3

(* A step that leaves the selections of every view alone is invisible. *)
LEMMA SameShows ==
    ASSUME UNCHANGED <<revision, semantic, recreated>>,
           \A v \in Views \ recreated : Current(v)'.selection = Current(v).selection
    PROVE  Shows' = Shows
  BY DEF Shows, Snapshot

(* A step that changes what one view shows. *)
LEMMA OtherShows ==
    ASSUME StoreInv, StoreInv', NEW v \in Views,
           \A w \in Views : w # v =>
               /\ revision'[w] = revision[w] /\ semantic'[w] = semantic[w]
               /\ w \in recreated' <=> w \in recreated
               /\ Current(w)' = Current(w)
    PROVE  Shows' = [Shows EXCEPT ![v] = Shows'[v]]
<1>1. \A w \in Views : w # v => Shows'[w] = Shows[w]
  BY DEF Shows, Snapshot
<1>. QED BY <1>1 DEF Shows

(* The collector and the claim are invisible. *)
LEMMA CollectionIsInvisible ==
    ASSUME StoreInv, sweep_garbage_collection \/ claim_garbage_collection \/ stop_sweep
           \/ UNCHANGED vars
    PROVE  Shows' = Shows
<1>1. CASE remove_revision_batch
  <2>1. \A v \in Views \ recreated : Current(v)' = Current(v)
    BY <1>1, RevisionBatchSparesCurrent
  <2>. QED BY <1>1, <2>1, SameShows DEF remove_revision_batch, ghosts
<1>2. ASSUME UNCHANGED <<revision, semantic, recreated, manifest>>
      PROVE  Shows' = Shows
  BY <1>2, SameShows DEF Current
<1>3. CASE claim_garbage_collection \/ stop_sweep \/ UNCHANGED vars
  BY <1>2, <1>3 DEF claim_garbage_collection, stop_sweep, vars, db, ghosts
<1>4. CASE start_sweep \/ next_item \/ next_phase \/ select_batch \/ next_snapshot
  BY <1>2, <1>4 DEF start_sweep, next_item, next_phase, select_batch, next_snapshot, db, ghosts
<1>5. CASE remove_state_batch \/ remove_name_batch \/ remove_contribution_batch
           \/ dequeue_state \/ remove_output
  BY <1>2, <1>5 DEF remove_state_batch, remove_name_batch, remove_contribution_batch,
                    dequeue_state, remove_output, ghosts
<1>. QED BY <1>1, <1>3, <1>4, <1>5 DEF sweep_garbage_collection

(* Every step of the store shows as a step of PublishedViews or not at all. *)
LEMMA PublicationShows ==
    ASSUME StoreInv, StoreInv', visible = Shows, visible' = Shows', Publication
    PROVE  Promise!Next \/ UNCHANGED visible
<1>. USE DEF StoreInv
<1>1. ASSUME NEW s \in States, publish_repository(s)
      PROVE  UNCHANGED visible
  BY <1>1, SameShows DEF publish_repository, Current, ghosts
<1>2. ASSUME NEW v \in Views, NEW s \in States, NEW i \in inputs(v), publish_observations(v, s, i)
      PROVE  Promise!Next
  <2>. DEFINE n == revision[v] + 1
  <2>1. /\ revision' = [revision EXCEPT ![v] = n] /\ n \in Revisions
        /\ manifest' = [manifest EXCEPT ![v][n] =
                            store_analysis_metadata(s, i, carry_forward(v, i))]
        /\ semantic' = [semantic EXCEPT ![v] = s]
        /\ recreated' = recreated
    BY <1>2 DEF publish_observations, ghosts
  <2>2. /\ revision'[v] = n /\ n # 0 /\ semantic'[v] = s
        /\ Current(v)'.selection = carry_forward(v, i)
    BY <2>1 DEF Current, TypeInv, TypeOK, Revisions, store_analysis_metadata
  <2>3. \A w \in Views : w # v =>
            /\ revision'[w] = revision[w] /\ semantic'[w] = semantic[w]
            /\ w \in recreated' <=> w \in recreated
            /\ Current(w)' = Current(w)
    BY <2>1 DEF Current, TypeInv, TypeOK
  <2>4. visible' = [visible EXCEPT ![v] = [state |-> s, snapshot |-> Snapshot(v)']]
    <3>1. Shows'[v] = [state |-> s, snapshot |-> Snapshot(v)']
      BY <2>2 DEF Shows
    <3>. QED BY <2>3, <3>1, OtherShows
  <2>5. Snapshot(v)' \in Snapshots \cup {None}
    <3>1. Current(v)'.selection \in {Current(v).selection, None}
      BY <2>2 DEF carry_forward
    <3>. QED BY <3>1, CurrentType DEF Snapshot, Rows, Selections
  <2>6. Snapshot(v)' # None => visible[v] # None /\ visible[v].snapshot = Snapshot(v)'
    <3>. SUFFICES ASSUME Snapshot(v)' # None
                  PROVE  visible[v] # None /\ visible[v].snapshot = Snapshot(v)'
      OBVIOUS
    <3>1. /\ Current(v)'.selection = Current(v).selection /\ Current(v).selection # None
          /\ v \notin recreated
      BY <2>1, <2>2 DEF Snapshot, carry_forward
    <3>2. revision[v] # 0
      BY <3>1, CurrentType DEF NoRow
    <3>3. Snapshot(v)' = Snapshot(v)
      BY <2>1, <3>1 DEF Snapshot
    <3>. QED BY <3>2, <3>3, ShowsSomething DEF Shows
  <2>7. Promise!Publish(v, s)
    BY <2>4, <2>5, <2>6 DEF Promise!Publish
  <2>. QED BY <2>7 DEF Promise!Next
<1>3. ASSUME NEW v \in Views, NEW i \in inputs(v), revision[v] # 0, replace_inputs(v, i),
             UNCHANGED <<semantic, recreated>>
      PROVE  Promise!Next \/ UNCHANGED visible
  <2>1. /\ \A w \in Views : w # v => /\ revision'[w] = revision[w]
                                     /\ Current(w)' = Current(w)
        /\ revision'[v] # 0
        /\ Current(v)'.selection \in {Current(v).selection, None}
    BY <1>3, InputsType, ReplaceInputs
  <2>2. Snapshot(v)' \in Snapshots \cup {None}
    BY <2>1, CurrentType DEF Snapshot, Rows, Selections
  <2>3. visible' = [visible EXCEPT ![v] = [state |-> semantic[v], snapshot |-> Snapshot(v)']]
    <3>1. Shows'[v] = [state |-> semantic[v], snapshot |-> Snapshot(v)']
      BY <1>3, <2>1 DEF Shows
    <3>. QED BY <1>3, <2>1, <3>1, OtherShows
  <2>4. visible[v] # None /\ visible[v] = [state |-> semantic[v], snapshot |-> Snapshot(v)]
    BY <1>3, ShowsSomething DEF Shows
  <2>5. visible' = [visible EXCEPT ![v].snapshot = Snapshot(v)']
    <3>1. [visible[v] EXCEPT !.snapshot = Snapshot(v)']
              = [state |-> semantic[v], snapshot |-> Snapshot(v)']
      BY <2>4
    <3>. QED BY <2>3, <3>1
  <2>. QED BY <2>2, <2>4, <2>5 DEF Promise!Next, Promise!Enrich
<1>4. ASSUME NEW v \in Views, NEW x \in Snapshots, publish_enrichment(v, x)
      PROVE  Promise!Next \/ UNCHANGED visible
  <2>1. /\ revision[v] # 0 /\ revision'[v] # 0
        /\ UNCHANGED <<semantic, recreated>>
        /\ \A w \in Views : w # v => /\ revision'[w] = revision[w]
                                     /\ Current(w)' = Current(w)
        /\ Current(v)'.selection # None /\ Current(v)'.selection.owner = x
    <3>1. revision'[v] \in Revisions
      BY <1>4, PublishEnrichment
    <3>2. revision'[v] # 0
      BY <3>1 DEF Revisions
    <3>3. UNCHANGED <<semantic, recreated>>
      BY <1>4 DEF publish_enrichment
    <3>. QED BY <1>4, <3>2, <3>3, PublishEnrichment
  <2>2. Snapshot(v)' \in Snapshots \cup {None}
    BY <2>1 DEF Snapshot
  <2>3. visible' = [visible EXCEPT ![v] = [state |-> semantic[v], snapshot |-> Snapshot(v)']]
    <3>1. Shows'[v] = [state |-> semantic[v], snapshot |-> Snapshot(v)']
      BY <2>1 DEF Shows
    <3>. QED BY <2>1, <3>1, OtherShows
  <2>4. visible[v] # None /\ visible[v] = [state |-> semantic[v], snapshot |-> Snapshot(v)]
    BY <2>1, ShowsSomething DEF Shows
  <2>5. visible' = [visible EXCEPT ![v].snapshot = Snapshot(v)']
    <3>1. [visible[v] EXCEPT !.snapshot = Snapshot(v)']
              = [state |-> semantic[v], snapshot |-> Snapshot(v)']
      BY <2>4
    <3>. QED BY <2>3, <3>1
  <2>. QED BY <2>2, <2>4, <2>5 DEF Promise!Next, Promise!Enrich
<1>5. ASSUME NEW v \in Standalone, delete_repository_revision(v)
      PROVE  Promise!Next
  <2>1. /\ v \in Views
        /\ revision' = [revision EXCEPT ![v] = 0]
        /\ manifest' = [manifest EXCEPT ![v] = [n \in Revisions |-> NoRow]]
        /\ semantic' = [semantic EXCEPT ![v] = None]
        /\ \A w \in Views : w # v => (w \in recreated' <=> w \in recreated)
    BY <1>5, KindsOfViews DEF delete_repository_revision
  <2>2. \A w \in Views : w # v =>
            /\ revision'[w] = revision[w] /\ semantic'[w] = semantic[w]
            /\ w \in recreated' <=> w \in recreated
            /\ Current(w)' = Current(w)
    BY <2>1 DEF Current, TypeInv, TypeOK
  <2>3. Shows'[v] = None
    BY <2>1 DEF Shows, TypeInv, TypeOK
  <2>4. Promise!Withdraw(v)
    BY <2>1, <2>2, <2>3, OtherShows DEF Promise!Withdraw
  <2>. QED BY <2>1, <2>4 DEF Promise!Next
<1>6. ASSUME abandon_standalone
      PROVE  UNCHANGED visible
  BY <1>6, SameShows DEF abandon_standalone, Current, ghosts
<1>7. ASSUME NEW v \in Views, NEW s \in States, NEW i \in inputs(v), refresh_semantic_noop(v, s, i)
      PROVE  Promise!Next \/ UNCHANGED visible
  BY <1>3, <1>7, RefreshIsPublished DEF refresh_semantic_noop, ghosts
<1>8. ASSUME NEW v \in Views, NEW i \in inputs(v), ensure_revision_inputs(v, i)
      PROVE  Promise!Next \/ UNCHANGED visible
  BY <1>3, <1>8 DEF ensure_revision_inputs, ghosts
<1>. QED BY <1>1, <1>2, <1>4, <1>5, <1>6, <1>7, <1>8 DEF Publication

(* The store keeps the promise of PublishedViews: what a query reads of a   *)
(* view is at every moment one whole state with at most one whole snapshot, *)
(* it changes only by a publication, an enrichment or a deletion, each as   *)
(* one step, and the collector is invisible at every interleaving.          *)
THEOREM StoreImplementsPublishedViews == Spec => ImplementsPublishedViews
<1>1. Init => Promise!Init
  BY DEF Init, Promise!Init, visible
<1>2. StoreInv /\ StoreInv' /\ Whole /\ Whole' /\ [Next]_vars => [Promise!Next]_visible
  BY PublicationShows, CollectionIsInvisible DEF Next, Whole
<1>. QED BY <1>1, <1>2, StoreInvAlways, NothingIsTorn, PTL
     DEF Spec, ImplementsPublishedViews, Promise!Spec
=============================================================================
