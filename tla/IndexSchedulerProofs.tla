------------------------- MODULE IndexSchedulerProofs -------------------------
(***************************************************************************)
(* Proofs about IndexScheduler, for any workspaces, inputs, jobs and       *)
(* bounds.                                                                 *)
(***************************************************************************)
EXTENDS IndexScheduler, TLAPS

(* A job that exists has a workspace, a run belongs to a job that exists,   *)
(* and a job that is not over has an attempt left.                          *)
JobsWellFormed ==
    \A j \in Jobs :
        /\ jobs[j].status # "Free" => jobs[j].workspace \in Workspaces
        /\ runs[j].pc # "idle" => jobs[j].status # "Free"
        /\ jobs[j].status \in {"Pending", "Running"} =>
               jobs[j].attempts < MAX_ATTEMPTS

(* The producer deals with a workspace when it is about to act on one.      *)
ProducerWellFormed ==
    producer.pc \in {"noop", "enqueue"} => producer.workspace \in Workspaces

TypeInv == TypeOK /\ JobsWellFormed /\ ProducerWellFormed

(* The daemon starts in well-typed states.                                  *)
LEMMA TypeInit == Init => TypeInv
<1>. SUFFICES ASSUME Init PROVE TypeInv
  OBVIOUS
<1>1. Nothing \in Snapshots
  BY DEF Nothing, Snapshots, Unread
<1>2. NotRunning \in RunState /\ Free \in JobRow /\ Waiting \in ProducerState
  BY <1>1, IndexSchedulerAssumption
  DEF NotRunning, RunState, Free, JobRow, Waiting, ProducerState, Intents
<1>3. WorldTypeOK
  BY IndexSchedulerAssumption DEF Init, WorldTypeOK, Snapshots
<1>4. DaemonTypeOK
  BY <1>2 DEF Init, DaemonTypeOK, Intents
<1>5. StoreTypeOK
  BY <1>1, <1>2 DEF Init, StoreTypeOK
<1>6. JobsWellFormed /\ ProducerWellFormed
  BY DEF Init, JobsWellFormed, ProducerWellFormed, Free, NotRunning, Waiting
<1>. QED BY <1>3, <1>4, <1>5, <1>6 DEF TypeInv, TypeOK

(* The constant states have their types.                                    *)
LEMMA ConstantTypes ==
    /\ Nothing \in Snapshots
    /\ NotRunning \in RunState
    /\ Free \in JobRow
    /\ Waiting \in ProducerState
<1>1. Nothing \in Snapshots
  BY DEF Nothing, Snapshots, Unread
<1>. QED BY <1>1, IndexSchedulerAssumption
     DEF NotRunning, RunState, Free, JobRow, Waiting, ProducerState, Intents

(* Counting a generation up keeps the types.                                *)
LEMMA BumpType ==
    ASSUME DaemonTypeOK, NEW ws \in SUBSET Workspaces, NEW reported \in Intents,
           Bump(ws, reported)
    PROVE  /\ generations' \in [Workspaces -> Nat]
           /\ dirty' \in [Workspaces -> Intents]
  BY DEF DaemonTypeOK, Bump, Intents

(* So does completing one.                                                  *)
LEMMA CompleteType ==
    ASSUME DaemonTypeOK, NEW w, NEW indexed, complete_generation(w, indexed)
    PROVE  /\ generations' \in [Workspaces -> Nat]
           /\ dirty' \in [Workspaces -> Intents]
           /\ dormant' = dormant
           /\ changed' \in BOOLEAN
<1>1. CASE indexed # 0 /\ generations[w] = indexed
  BY <1>1 DEF complete_generation, DaemonTypeOK, Intents
<1>2. CASE ~(indexed # 0 /\ generations[w] = indexed)
  <2>1. changed' \in BOOLEAN
    BY <1>2, Zenon DEF complete_generation
  <2>. QED BY <1>2, <2>1 DEF complete_generation, DaemonTypeOK, desired
<1>. QED BY <1>1, <1>2

(* A failed attempt is counted, and the last one ends the job.              *)
LEMMA RecoveredType ==
    ASSUME NEW job \in JobRow, job.status = "Running" => job.attempts < MAX_ATTEMPTS
    PROVE  /\ Recovered(job) \in JobRow
           /\ Recovered(job).workspace = job.workspace
           /\ Recovered(job).status = "Free" <=> job.status = "Free"
           /\ Recovered(job).status # "Running"
           /\ Recovered(job).status = "Pending" =>
                 job.status = "Pending" /\ Recovered(job).attempts = job.attempts
<1>1. CASE job.status = "Running"
  <2>. DEFINE status == IF job.attempts + 1 >= MAX_ATTEMPTS
                        THEN "Killed" ELSE "Failed"
  <2>1. Recovered(job) = [job EXCEPT !.attempts = job.attempts + 1,
                                     !.status = status]
    BY <1>1 DEF Recovered
  <2>2. status \in {"Killed", "Failed"} /\ job.attempts + 1 \in 0..MAX_ATTEMPTS
    BY <1>1, IndexSchedulerAssumption DEF JobRow
  <2>. HIDE DEF status
  <2>. QED BY <1>1, <2>1, <2>2 DEF JobRow
<1>2. CASE job.status # "Running"
  BY <1>2 DEF Recovered
<1>. QED BY <1>1, <1>2

(* Every step of the world, the watcher and the producer keeps the types.   *)
LEMMA TypeEnvironment ==
    ASSUME TypeInv,
           \/ \E w \in Workspaces, i \in Editable : edit(w, i)
           \/ \E w \in Workspaces : enqueue_manual_index(w)
           \/ Watching
           \/ Producing
           \/ restart
    PROVE  TypeInv'
<1>. USE IndexSchedulerAssumption
<1>1. ASSUME NEW w \in Workspaces, NEW i \in Editable, edit(w, i)
      PROVE  TypeInv'
  <2>1. WorldTypeOK'
    <3>1. disk' \in [Workspaces -> Snapshots]
      BY <1>1 DEF edit, TypeInv, TypeOK, WorldTypeOK, Snapshots
    <3>2. seen' \in [Workspaces -> SUBSET Snapshots]
      BY <1>1, <3>1 DEF edit, TypeInv, TypeOK, WorldTypeOK
    <3>3. events' \in [Workspaces -> SUBSET Inputs]
      BY <1>1 DEF edit, TypeInv, TypeOK, WorldTypeOK
    <3>. QED BY <1>1, <3>1, <3>2, <3>3 DEF edit, TypeInv, TypeOK, WorldTypeOK
  <2>. QED BY <1>1, <2>1
       DEF edit, TypeInv, TypeOK, DaemonTypeOK, StoreTypeOK, JobsWellFormed,
           ProducerWellFormed, desired, store
<1>2. ASSUME NEW w \in Workspaces, enqueue_manual_index(w) PROVE TypeInv'
  <2>1. PICK j \in Jobs : push_index_job(j, "manual", w, 0, {})
    BY <1>2 DEF enqueue_manual_index
  <2>2. jobs' \in [Jobs -> JobRow]
    BY <2>1 DEF push_index_job, TypeInv, TypeOK, StoreTypeOK, JobRow, Intents
  <2>3. JobsWellFormed'
    BY <1>2, <2>1
    DEF enqueue_manual_index, push_index_job, TypeInv, TypeOK, StoreTypeOK,
        JobsWellFormed
  <2>. QED BY <1>2, <2>2, <2>3
       DEF enqueue_manual_index, TypeInv, TypeOK, WorldTypeOK, DaemonTypeOK,
           StoreTypeOK, ProducerWellFormed, desired, store
<1>3. ASSUME Watching PROVE TypeInv'
  <2>1. UNCHANGED <<jobs, runs, producer, gate, automatic_jobs, store, disk,
                    edits, manuals, seen>>
    BY <1>3 DEF Watching, add_event, reconcile_after_watcher_error,
                watcher_wakes_producer, world
  <2>. DEFINE Typed == /\ generations' \in [Workspaces -> Nat]
                       /\ dirty' \in [Workspaces -> Intents]
                       /\ dormant' \in [Workspaces -> Nat]
                       /\ watcher' \in SUBSET Workspaces
                       /\ changed' \in BOOLEAN
                       /\ events' \in [Workspaces -> SUBSET Inputs]
                       /\ faults' \in 0..MaxFaults
  <2>2. ASSUME NEW w \in Workspaces, NEW i \in Inputs, add_event(w, i)
        PROVE  Typed
    <3>1. events' \in [Workspaces -> SUBSET Inputs]
      BY <2>2 DEF add_event, TypeInv, TypeOK, WorldTypeOK
    <3>. QED BY <2>2, <3>1, BumpType
         DEF add_event, TypeInv, TypeOK, WorldTypeOK, DaemonTypeOK, Intents
  <2>3. ASSUME reconcile_after_watcher_error PROVE Typed
    <3>1. {All} \in Intents /\ Workspaces \in SUBSET Workspaces
          /\ Bump(Workspaces, {All})
      BY <2>3 DEF Intents, reconcile_after_watcher_error
    <3>2. generations' \in [Workspaces -> Nat] /\ dirty' \in [Workspaces -> Intents]
      BY <3>1, BumpType DEF TypeInv, TypeOK
    <3>3. faults' \in 0..MaxFaults
      BY <2>3 DEF reconcile_after_watcher_error, Fault, TypeInv, TypeOK,
                  WorldTypeOK
    <3>4. watcher' \in SUBSET Workspaces /\ dormant' = dormant
          /\ changed' = changed /\ events' \in [Workspaces -> SUBSET Inputs]
      BY <2>3 DEF reconcile_after_watcher_error
    <3>. QED BY <3>2, <3>3, <3>4 DEF TypeInv, TypeOK, DaemonTypeOK
  <2>4. ASSUME watcher_wakes_producer PROVE Typed
    BY <2>4 DEF watcher_wakes_producer, TypeInv, TypeOK, WorldTypeOK,
                DaemonTypeOK, world
  <2>5. Typed
    BY <1>3, <2>2, <2>3, <2>4 DEF Watching
  <2>. QED BY <2>1, <2>5
       DEF TypeInv, TypeOK, WorldTypeOK, DaemonTypeOK, StoreTypeOK,
           JobsWellFormed, ProducerWellFormed, store
<1>4. ASSUME Producing PROVE TypeInv'
  <2>. DEFINE ProducerOK == producer' \in ProducerState /\ ProducerWellFormed'
  <2>0. ASSUME NEW snapshot \in [Workspaces -> Nat],
               NEW todo \in SUBSET Workspaces, Scan(snapshot, todo)
        PROVE  ProducerOK
    BY <2>0, ConstantTypes
    DEF Scan, Waiting, ProducerState, ProducerWellFormed
  <2>1. ASSUME producer_woken \/ producer_coalesces \/ enqueue_dirty
        PROVE  TypeInv'
    <3>1. ProducerOK
      <4>1. CASE enqueue_dirty
        BY <4>1, <2>0 DEF enqueue_dirty, TypeInv, TypeOK, DaemonTypeOK
      <4>2. CASE producer_woken \/ producer_coalesces
        BY <4>2 DEF producer_woken, producer_coalesces, TypeInv, TypeOK,
                    DaemonTypeOK, ProducerState, ProducerWellFormed
      <4>. QED BY <2>1, <4>1, <4>2
    <3>. QED BY <2>1, <3>1
         DEF producer_woken, producer_coalesces, enqueue_dirty, TypeInv, TypeOK,
             WorldTypeOK, DaemonTypeOK, StoreTypeOK, JobsWellFormed, world,
             desired, store
  <2>2. ASSUME NEW w \in Workspaces, enqueue_workspace(w) PROVE TypeInv'
    <3>1. ProducerOK
      <4>1. CASE Scan(producer.snapshot, producer.todo \ {w})
        BY <4>1, <2>0 DEF TypeInv, TypeOK, DaemonTypeOK, ProducerState
      <4>2. ASSUME NEW pc \in {"noop", "enqueue"},
                   producer' = [producer EXCEPT !.pc = pc, !.todo = @ \ {w},
                                  !.workspace = w, !.intents = dirty[w]]
            PROVE  ProducerOK
        BY <4>2 DEF TypeInv, TypeOK, DaemonTypeOK, ProducerState,
                    ProducerWellFormed
      <4>. QED BY <2>2, <4>1, <4>2 DEF enqueue_workspace
    <3>2. automatic_jobs' \in [Workspaces -> Nat]
      BY <2>2 DEF enqueue_workspace, TypeInv, TypeOK, DaemonTypeOK,
                  ProducerState
    <3>. QED BY <2>2, <3>1, <3>2
         DEF enqueue_workspace, TypeInv, TypeOK, WorldTypeOK, DaemonTypeOK,
             StoreTypeOK, JobsWellFormed, world, desired, store
  <2>3. ASSUME drop_head_only_batch PROVE TypeInv'
    <3>1. ProducerOK
      BY <2>3, <2>0 DEF drop_head_only_batch, TypeInv, TypeOK, DaemonTypeOK,
                        ProducerState
    <3>2. /\ generations' \in [Workspaces -> Nat]
          /\ dirty' \in [Workspaces -> Intents]
          /\ dormant' = dormant
          /\ changed' \in BOOLEAN
      BY <2>3, CompleteType DEF drop_head_only_batch, TypeInv, TypeOK
    <3>. QED BY <2>3, <3>1, <3>2
         DEF drop_head_only_batch, TypeInv, TypeOK, WorldTypeOK, DaemonTypeOK,
             StoreTypeOK, JobsWellFormed, world, store
  <2>4. ASSUME enqueue_automatic_index PROVE TypeInv'
    <3>1. ProducerOK
      BY <2>4, <2>0 DEF enqueue_automatic_index, TypeInv, TypeOK, DaemonTypeOK,
                        ProducerState
    <3>2. producer.workspace \in Workspaces /\ producer.intents \in Intents
          /\ producer.snapshot[producer.workspace] \in Nat
      BY <2>4 DEF enqueue_automatic_index, TypeInv, TypeOK, DaemonTypeOK,
                  ProducerState, ProducerWellFormed
    <3>3. jobs' \in [Jobs -> JobRow] /\ JobsWellFormed'
      <4>1. CASE UNCHANGED jobs
        BY <2>4, <4>1 DEF enqueue_automatic_index, TypeInv, TypeOK,
                          StoreTypeOK, JobsWellFormed
      <4>2. ASSUME NEW j \in Jobs,
                   push_index_job(j, "automatic", producer.workspace,
                                  producer.snapshot[producer.workspace],
                                  producer.intents)
            PROVE  jobs' \in [Jobs -> JobRow] /\ JobsWellFormed'
        <5>1. jobs' \in [Jobs -> JobRow]
          BY <4>2, <3>2 DEF push_index_job, TypeInv, TypeOK, StoreTypeOK,
                            JobRow
        <5>2. JobsWellFormed'
          BY <2>4, <4>2, <3>2
          DEF enqueue_automatic_index, push_index_job, TypeInv, TypeOK,
              StoreTypeOK, JobsWellFormed
        <5>. QED BY <5>1, <5>2
      <4>. QED BY <2>4, <4>1, <4>2 DEF enqueue_automatic_index
    <3>. QED BY <2>4, <3>1, <3>3
         DEF enqueue_automatic_index, TypeInv, TypeOK, WorldTypeOK,
             DaemonTypeOK, StoreTypeOK, world, desired, store
  <2>. QED BY <1>4, <2>1, <2>2, <2>3, <2>4 DEF Producing
<1>5. ASSUME restart PROVE TypeInv'
  <2>1. WorldTypeOK'
    BY <1>5 DEF restart, Fault, TypeInv, TypeOK, WorldTypeOK
  <2>2. DaemonTypeOK'
    BY <1>5, ConstantTypes DEF restart, DaemonTypeOK, Intents
  <2>3. ASSUME NEW j \in Jobs
        PROVE  /\ Recovered(jobs[j]) \in JobRow
               /\ Recovered(jobs[j]).status # "Free" =>
                    Recovered(jobs[j]).workspace \in Workspaces
               /\ Recovered(jobs[j]).status \in {"Pending", "Running"} =>
                    Recovered(jobs[j]).attempts < MAX_ATTEMPTS
    BY RecoveredType DEF TypeInv, TypeOK, StoreTypeOK, JobsWellFormed
  <2>4. jobs' \in [Jobs -> JobRow]
    BY <1>5, <2>3, ConstantTypes DEF restart
  <2>5. JobsWellFormed'
    BY <1>5, <2>3 DEF restart, JobsWellFormed, NotRunning, Free
  <2>. QED BY <1>5, <2>1, <2>2, <2>4, <2>5
       DEF restart, TypeInv, TypeOK, StoreTypeOK, ProducerWellFormed, Waiting,
           store
<1>. QED BY <1>1, <1>2, <1>3, <1>4, <1>5

(* How an attempt updates its own state.                                    *)
LEMMA RunType ==
    ASSUME DaemonTypeOK, NEW j \in Jobs
    PROVE  /\ \A pc \in {"check", "begin", "publish", "inputs", "failed",
                         "acknowledged"} :
                 Goto(j, pc) => runs' \in [Jobs -> RunState]
           /\ \A result \in {"ok", "error", "superseded"} :
                 Finish(j, result) => runs' \in [Jobs -> RunState]
           /\ \A result \in {"ok", "error", "superseded"} :
                 Return(j, result) => /\ runs' \in [Jobs -> RunState]
                                      /\ gate' \in Jobs \cup {NoJob}
           /\ \A pc \in {"checkpoint", "first", "second"} :
                 Refresh(j, pc) => /\ runs' \in [Jobs -> RunState]
                                   /\ gate' \in Jobs \cup {NoJob}
<1>1. runs[j] \in RunState /\ Nothing \in Snapshots
  BY ConstantTypes DEF DaemonTypeOK
<1>2. ASSUME NEW pc \in {"check", "begin", "publish", "inputs", "failed",
                        "acknowledged"},
             Goto(j, pc)
      PROVE  runs' \in [Jobs -> RunState]
  BY <1>1, <1>2 DEF Goto, DaemonTypeOK, RunState
<1>3. ASSUME NEW result \in {"ok", "error", "superseded"}, Finish(j, result)
      PROVE  runs' \in [Jobs -> RunState]
  BY <1>1, <1>3 DEF Finish, DaemonTypeOK, RunState, NotRunning
<1>4. ASSUME NEW result \in {"ok", "error", "superseded"}, Return(j, result)
      PROVE  runs' \in [Jobs -> RunState] /\ gate' \in Jobs \cup {NoJob}
  BY <1>1, <1>4 DEF Return, DaemonTypeOK, RunState, NotRunning
<1>5. ASSUME NEW pc \in {"checkpoint", "first", "second"}, Refresh(j, pc)
      PROVE  runs' \in [Jobs -> RunState] /\ gate' \in Jobs \cup {NoJob}
  BY <1>1, <1>5 DEF Refresh, DaemonTypeOK, RunState
<1>. QED BY <1>2, <1>3, <1>4, <1>5

(* A step of an attempt that leaves the rows alone keeps them well formed   *)
(* when it starts from a running attempt.                                   *)
LEMMA RowsKept ==
    ASSUME TypeInv, NEW j \in Jobs, runs[j].pc # "idle",
           jobs' = jobs, producer' = producer,
           \A k \in Jobs \ {j} : runs'[k] = runs[k]
    PROVE  JobsWellFormed' /\ ProducerWellFormed'
  BY DEF TypeInv, JobsWellFormed, ProducerWellFormed

(* Storing the checkpoint keeps the types.                                  *)
LEMMA CheckpointType ==
    ASSUME WorldTypeOK, StoreTypeOK, NEW j \in Jobs, runs[j] \in RunState,
           store_checkpoint(j) \/ UNCHANGED <<faults, checkpoint>>
    PROVE  /\ faults' \in 0..MaxFaults
           /\ checkpoint' \in [Workspaces -> [snapshot : Snapshots, catalog : Nat]]
<1>1. runs[j].view \in Snapshots /\ catalog \in Nat
  BY DEF RunState, StoreTypeOK
<1>2. faults \in 0..MaxFaults /\ MaxFaults \in Nat
  BY IndexSchedulerAssumption DEF WorldTypeOK
<1>. QED BY <1>1, <1>2 DEF store_checkpoint, Fault, StoreTypeOK

(* Every step of an attempt keeps the types.                                *)
LEMMA TypeRunning ==
    ASSUME TypeInv, NEW j \in Jobs, Running(j)
    PROVE  TypeInv'
<1>. USE IndexSchedulerAssumption
<1>0. /\ DaemonTypeOK /\ WorldTypeOK /\ StoreTypeOK
      /\ runs[j] \in RunState /\ jobs[j] \in JobRow
      /\ Nothing \in Snapshots /\ runs \in [Jobs -> RunState]
  BY ConstantTypes DEF TypeInv, TypeOK, DaemonTypeOK, StoreTypeOK
<1>t. runs[j].pc # "idle" => Target(j) \in Workspaces
  BY DEF TypeInv, JobsWellFormed, Target
<1>1. ASSUME start_attempt(j) PROVE TypeInv'
  <2>1. jobs' \in [Jobs -> JobRow]
    BY <1>0, <1>1 DEF start_attempt, StoreTypeOK, JobRow
  <2>2. runs' \in [Jobs -> RunState]
    BY <1>0, <1>1, RunType DEF start_attempt
  <2>3. JobsWellFormed'
    BY <1>0, <1>1
    DEF start_attempt, Goto, TypeInv, JobsWellFormed, IsActive, StoreTypeOK,
        DaemonTypeOK, RunState, JobRow
  <2>. QED BY <1>0, <1>1, <2>1, <2>2, <2>3
       DEF start_attempt, TypeInv, TypeOK, WorldTypeOK, DaemonTypeOK,
           StoreTypeOK, ProducerWellFormed, world, desired, store
<1>2. ASSUME check_generation(j) PROVE TypeInv'
  <2>1. runs' \in [Jobs -> RunState]
    <3>1. jobs[j].generation \in Nat
      BY <1>0 DEF JobRow
    <3>2. generations[Target(j)] \in Nat
      BY <1>0, <1>2, <1>t DEF check_generation, DaemonTypeOK
    <3>. QED BY <1>0, <1>2, <3>1, <3>2 DEF check_generation, RunState
  <2>2. JobsWellFormed' /\ ProducerWellFormed'
    BY <1>0, <1>2, RowsKept DEF check_generation
  <2>. QED BY <1>0, <1>2, <2>1, <2>2
       DEF check_generation, TypeInv, TypeOK, WorldTypeOK, DaemonTypeOK,
           StoreTypeOK, world, desired, store
<1>3. ASSUME begin(j) PROVE TypeInv'
  <2>1. runs' \in [Jobs -> RunState] /\ gate' \in Jobs \cup {NoJob}
    BY <1>0, <1>3, RunType DEF begin
  <2>2. JobsWellFormed' /\ ProducerWellFormed'
    BY <1>0, <1>3, RowsKept DEF begin, Refresh
  <2>. QED BY <1>0, <1>3, <2>1, <2>2
       DEF begin, TypeInv, TypeOK, WorldTypeOK, DaemonTypeOK,
           StoreTypeOK, world, desired, store
<1>4. ASSUME NEW i \in Inputs, read_input(j, i) PROVE TypeInv'
  <2>1. disk[Target(j)][i] \in Nat
    BY <1>0, <1>4, <1>t DEF read_input, WorldTypeOK, Snapshots
  <2>2. runs' \in [Jobs -> RunState]
    BY <1>0, <1>4, <2>1 DEF read_input, RunState, Snapshots
  <2>3. JobsWellFormed' /\ ProducerWellFormed'
    BY <1>0, <1>4, RowsKept DEF read_input
  <2>. QED BY <1>0, <1>4, <2>2, <2>3
       DEF read_input, TypeInv, TypeOK, WorldTypeOK, DaemonTypeOK,
           StoreTypeOK, world, desired, store
<1>5. ASSUME checkpoint_verified(j) \/ analyzed(j) PROVE TypeInv'
  <2>1. runs' \in [Jobs -> RunState] /\ gate' \in Jobs \cup {NoJob}
    BY <1>0, <1>5, RunType DEF checkpoint_verified, analyzed
  <2>2. JobsWellFormed' /\ ProducerWellFormed'
    BY <1>0, <1>5, RowsKept DEF checkpoint_verified, analyzed, Refresh, Return
  <2>. QED BY <1>0, <1>5, <2>1, <2>2
       DEF checkpoint_verified, analyzed, TypeInv, TypeOK, WorldTypeOK,
           DaemonTypeOK, StoreTypeOK, world, desired, store
<1>6. ASSUME refreshed(j) PROVE TypeInv'
  <2>1. runs' \in [Jobs -> RunState] /\ gate' \in Jobs \cup {NoJob}
    <3>1. CASE Return(j, "error") \/ Return(j, "ok")
      BY <1>0, <3>1, RunType
    <3>2. CASE /\ runs' = [runs EXCEPT ![j].pc = "analyze",
                                       ![j].prepared = runs[j].view]
               /\ gate' = gate
      BY <1>0, <3>2 DEF RunState, DaemonTypeOK
    <3>. QED BY <1>6, <3>1, <3>2 DEF refreshed
  <2>2. /\ faults' \in 0..MaxFaults
        /\ checkpoint' \in [Workspaces -> [snapshot : Snapshots, catalog : Nat]]
    BY <1>0, <1>6, CheckpointType DEF refreshed, TypeInv, TypeOK
  <2>3. JobsWellFormed' /\ ProducerWellFormed'
    BY <1>0, <1>6, RowsKept DEF refreshed, Return
  <2>. QED BY <1>0, <1>6, <2>1, <2>2, <2>3
       DEF refreshed, TypeInv, TypeOK, WorldTypeOK, DaemonTypeOK,
           StoreTypeOK, world, desired
<1>7. ASSUME reverified(j) PROVE TypeInv'
  <2>1. runs' \in [Jobs -> RunState] /\ gate' \in Jobs \cup {NoJob}
    BY <1>0, <1>7, RunType DEF reverified, DaemonTypeOK
  <2>2. /\ generations' \in [Workspaces -> Nat]
        /\ dirty' \in [Workspaces -> Intents]
        /\ dormant' \in [Workspaces -> Nat]
        /\ changed' \in BOOLEAN
    <3>1. CASE UNCHANGED <<desired, changed>>
      BY <1>0, <3>1 DEF DaemonTypeOK, desired
    <3>2. CASE /\ dormant' = [dormant EXCEPT ![Target(j)] = 0]
               /\ Bump({Target(j)}, {All})
               /\ changed' = TRUE
      <4>1. {Target(j)} \in SUBSET Workspaces /\ {All} \in Intents
        BY <1>7, <1>t DEF reverified, Intents
      <4>. QED BY <1>0, <3>2, <4>1, BumpType DEF DaemonTypeOK
    <3>. QED BY <1>7, <3>1, <3>2 DEF reverified
  <2>3. JobsWellFormed' /\ ProducerWellFormed'
    BY <1>0, <1>7, RowsKept DEF reverified, Return, Goto
  <2>. QED BY <1>0, <1>7, <2>1, <2>2, <2>3
       DEF reverified, TypeInv, TypeOK, WorldTypeOK, DaemonTypeOK,
           StoreTypeOK, world, store
<1>8. ASSUME publish_verified(j) PROVE TypeInv'
  <2>1. runs' \in [Jobs -> RunState]
    BY <1>0, <1>8, RunType DEF publish_verified
  <2>2. /\ published' \in [Workspaces -> Snapshots]
        /\ inputs_for' \in [Workspaces -> Nat]
    BY <1>0, <1>8 DEF publish_verified, StoreTypeOK, RunState
  <2>3. JobsWellFormed' /\ ProducerWellFormed'
    BY <1>0, <1>8, RowsKept DEF publish_verified, Goto
  <2>. QED BY <1>0, <1>8, <2>1, <2>2, <2>3
       DEF publish_verified, TypeInv, TypeOK, WorldTypeOK, DaemonTypeOK,
           StoreTypeOK, world, desired
<1>14. ASSUME ensure_enrichment_inputs(j) PROVE TypeInv'
  <2>1. runs' \in [Jobs -> RunState] /\ gate' \in Jobs \cup {NoJob}
    BY <1>0, <1>14, RunType DEF ensure_enrichment_inputs
  <2>2. /\ faults' \in 0..MaxFaults
        /\ checkpoint' \in [Workspaces -> [snapshot : Snapshots, catalog : Nat]]
    BY <1>0, <1>14, CheckpointType DEF ensure_enrichment_inputs, TypeInv, TypeOK
  <2>4. inputs_for' \in [Workspaces -> Nat]
    BY <1>0, <1>14 DEF ensure_enrichment_inputs, StoreTypeOK
  <2>3. JobsWellFormed' /\ ProducerWellFormed'
    BY <1>0, <1>14, RowsKept DEF ensure_enrichment_inputs, Return
  <2>. QED BY <1>0, <1>14, <2>1, <2>2, <2>3, <2>4
       DEF ensure_enrichment_inputs, TypeInv, TypeOK, WorldTypeOK,
           DaemonTypeOK, StoreTypeOK, world, desired
<1>9. ASSUME attempt_error(j) \/ enrichment_enqueue_error(j) PROVE TypeInv'
  <2>1. runs' \in [Jobs -> RunState] /\ gate' \in Jobs \cup {NoJob}
    <3>1. CASE attempt_error(j)
      BY <1>0, <3>1, RunType DEF attempt_error
    <3>2. CASE enrichment_enqueue_error(j)
      BY <1>0, <3>2 DEF enrichment_enqueue_error, RunState, DaemonTypeOK
    <3>. QED BY <1>9, <3>1, <3>2
  <2>2. faults' \in 0..MaxFaults
    BY <1>0, <1>9 DEF attempt_error, enrichment_enqueue_error, Fault,
                      WorldTypeOK
  <2>3. JobsWellFormed' /\ ProducerWellFormed'
    BY <1>0, <1>9, RowsKept DEF attempt_error, enrichment_enqueue_error, Return
  <2>. QED BY <1>0, <1>9, <2>1, <2>2, <2>3
       DEF attempt_error, enrichment_enqueue_error, TypeInv, TypeOK,
           WorldTypeOK, DaemonTypeOK, StoreTypeOK, desired, store
<1>10. ASSUME settle(j) PROVE TypeInv'
  <2>1. runs' \in [Jobs -> RunState]
    BY <1>0, <1>10, RunType DEF settle
  <2>2. /\ generations' \in [Workspaces -> Nat]
        /\ dirty' \in [Workspaces -> Intents]
        /\ dormant' = dormant
        /\ changed' \in BOOLEAN
    <3>1. CASE complete_generation(Target(j), runs[j].generation)
      BY <1>0, <3>1, CompleteType
    <3>2. CASE UNCHANGED <<desired, changed>>
      BY <1>0, <3>2 DEF DaemonTypeOK, desired
    <3>. QED BY <1>10, <3>1, <3>2 DEF settle
  <2>3. JobsWellFormed' /\ ProducerWellFormed'
    BY <1>0, <1>10, RowsKept DEF settle, Finish, Goto
  <2>. QED BY <1>0, <1>10, <2>1, <2>2, <2>3
       DEF settle, TypeInv, TypeOK, WorldTypeOK, DaemonTypeOK,
           StoreTypeOK, world, store
<1>11. ASSUME automatic_job_failed(j) PROVE TypeInv'
  <2>1. runs' \in [Jobs -> RunState]
    BY <1>0, <1>11, RunType DEF automatic_job_failed
  <2>2. dormant' \in [Workspaces -> Nat]
    BY <1>0, <1>11 DEF automatic_job_failed, DaemonTypeOK, JobRow
  <2>3. JobsWellFormed' /\ ProducerWellFormed'
    BY <1>0, <1>11, RowsKept DEF automatic_job_failed, Finish
  <2>. QED BY <1>0, <1>11, <2>1, <2>2, <2>3
       DEF automatic_job_failed, TypeInv, TypeOK, WorldTypeOK, DaemonTypeOK,
           StoreTypeOK, world, store
<1>12. ASSUME acknowledge(j) PROVE TypeInv'
  <2>1. runs' \in [Jobs -> RunState]
    BY <1>0, <1>12, RunType DEF acknowledge
  <2>. DEFINE row == IF runs[j].result = "error" THEN Recovered(jobs[j])
                     ELSE [jobs[j] EXCEPT !.status = "Done"]
  <2>2. jobs[j].status = "Running" => jobs[j].attempts < MAX_ATTEMPTS
    BY DEF TypeInv, JobsWellFormed
  <2>3. /\ row \in JobRow
        /\ row.workspace = jobs[j].workspace
        /\ jobs[j].status # "Free" => row.status # "Free"
        /\ row.status \in {"Pending", "Running"} =>
             /\ jobs[j].status = "Pending"
             /\ row.attempts = jobs[j].attempts
    <3>1. CASE runs[j].result = "error"
      BY <1>0, <2>2, <3>1, RecoveredType
    <3>2. CASE runs[j].result # "error"
      BY <1>0, <3>2 DEF JobRow
    <3>. QED BY <3>1, <3>2
  <2>4. jobs' = [jobs EXCEPT ![j] = row]
    BY <1>12 DEF acknowledge
  <2>. HIDE DEF row
  <2>5. jobs' \in [Jobs -> JobRow]
    BY <1>0, <2>3, <2>4 DEF StoreTypeOK
  <2>6. JobsWellFormed'
    BY <1>0, <1>12, <2>3, <2>4
    DEF acknowledge, Goto, TypeInv, JobsWellFormed, StoreTypeOK
  <2>. QED BY <1>0, <1>12, <2>1, <2>5, <2>6
       DEF acknowledge, TypeInv, TypeOK, WorldTypeOK, DaemonTypeOK,
           StoreTypeOK, ProducerWellFormed, world, desired, store
<1>13. ASSUME automatic_job_finished(j) PROVE TypeInv'
  <2>1. runs' \in [Jobs -> RunState] /\ jobs' \in [Jobs -> JobRow]
    BY <1>0, <1>13, ConstantTypes DEF automatic_job_finished, StoreTypeOK
  <2>2. automatic_jobs' \in [Workspaces -> Nat]
    BY <1>0, <1>13 DEF automatic_job_finished, DaemonTypeOK
  <2>3. changed' \in BOOLEAN
    BY <1>0, <1>13 DEF automatic_job_finished, DaemonTypeOK
  <2>4. JobsWellFormed'
    BY <1>0, <1>13
    DEF automatic_job_finished, TypeInv, JobsWellFormed, StoreTypeOK,
        NotRunning, Free
  <2>. QED BY <1>0, <1>13, <2>1, <2>2, <2>3, <2>4
       DEF automatic_job_finished, TypeInv, TypeOK, WorldTypeOK, DaemonTypeOK,
           StoreTypeOK, ProducerWellFormed, world, desired, store
<1>. QED BY <1>1, <1>2, <1>3, <1>4, <1>5, <1>6, <1>7, <1>8, <1>9, <1>10, <1>11,
            <1>12, <1>13, <1>14 DEF Running

(* The type invariant is inductive.                                         *)
LEMMA TypeNext == TypeInv /\ [Next]_vars => TypeInv'
<1>. SUFFICES ASSUME TypeInv, [Next]_vars PROVE TypeInv'
  OBVIOUS
<1>1. CASE UNCHANGED vars
  BY <1>1
  DEF vars, world, desired, store, TypeInv, TypeOK, WorldTypeOK, DaemonTypeOK,
      StoreTypeOK, JobsWellFormed, ProducerWellFormed
<1>2. CASE Next
  BY <1>2, TypeEnvironment, TypeRunning DEF Next
<1>. QED BY <1>1, <1>2

(* IndexScheduler is type correct: every handler keeps the maps, the gate,  *)
(* the attempts and the rows of the queue in their types, and no job is     *)
(* attempted more than MAX_ATTEMPTS times, however the daemon crashes.      *)
THEOREM TypeCorrect == Spec => []TypeOK
<1>1. Spec => []TypeInv
  BY TypeInit, TypeNext, PTL DEF Spec
<1>2. TypeInv => TypeOK
  BY DEF TypeInv
<1>. QED BY <1>1, <1>2, PTL

-----------------------------------------------------------------------------
(***************************************************************************)
(* What IndexScheduler publishes, for any workspaces, inputs, jobs and     *)
(* bounds: contents the workspace really had, never older than the         *)
(* revision they replace, and never vouched for by a checkpoint before     *)
(* their enrichment inputs are stored.                                     *)
(*                                                                         *)
(* The argument.  The operation gate admits one run between its first read *)
(* and its publication, so the published revision stands still under it.   *)
(* When the second pass starts, the disk holds some content d that is not  *)
(* older than the prepared snapshot.  Whatever the second pass reads after *)
(* that is not older than d.  If it finds the prepared snapshot again,     *)
(* every input of d lies between that snapshot and itself: the snapshot is *)
(* d, which existed.                                                       *)
(***************************************************************************)

(* Content a is nowhere newer than content b.                               *)
Leq(a, b) == \A i \in Inputs : a[i] <= b[i]

Passing == {"checkpoint", "first", "second"}

Prepared == {"analyze", "second", "publish"}

Holding == Passing \cup Prepared \cup {"inputs"}

(* The gate is held by the one run that reads, analyses or publishes.       *)
GateInv == \A j \in Jobs : runs[j].pc \in Holding <=> gate = j

(* The published revision existed and is nowhere newer than the disk.       *)
ContentInv ==
    \A w \in Workspaces :
        /\ disk[w] \in seen[w]
        /\ Leq(published[w], disk[w])
        /\ published[w] \in seen[w] \cup {Nothing}

(* What a pass has read so far.                                             *)
PassInv(run, w) ==
    run.pc \in Passing =>
        \A i \in Inputs : run.view[i] # Unread =>
            published[w][i] <= run.view[i] /\ run.view[i] <= disk[w][i]

(* The snapshot under analysis.                                             *)
PreparedInv(run, w) ==
    run.pc \in Prepared =>
        Leq(published[w], run.prepared) /\ Leq(run.prepared, disk[w])

(* The content the disk had when the second pass started.                   *)
SecondPassInv(run, w) ==
    run.pc = "second" =>
        \E d \in seen[w] :
            /\ Leq(run.prepared, d)
            /\ Leq(d, disk[w])
            /\ \A i \in Inputs : run.view[i] # Unread => d[i] <= run.view[i]

(* A snapshot that was verified existed.                                    *)
VerifiedInv(run, w) ==
    run.pc = "publish" => run.prepared \in seen[w]

RunInv(run, w) ==
    /\ PassInv(run, w)
    /\ PreparedInv(run, w)
    /\ SecondPassInv(run, w)
    /\ VerifiedInv(run, w)

RunsInv == \A j \in Jobs : RunInv(runs[j], Target(j))

PublicationInv == TypeInv /\ GateInv /\ ContentInv /\ RunsInv

-----------------------------------------------------------------------------
(* A run that does not hold the gate has nothing to keep.                   *)
LEMMA NotHolding ==
    ASSUME NEW j \in Jobs, runs'[j].pc \notin Holding
    PROVE  RunInv(runs[j], Target(j))'
  BY DEF RunInv, PassInv, PreparedInv, SecondPassInv, VerifiedInv, Holding,
         Passing, Prepared

(* A run keeps what it has while the contents and its own state stay.       *)
LEMMA RunKept ==
    ASSUME RunsInv, NEW j \in Jobs, runs'[j] = runs[j],
           Target(j)' = Target(j), UNCHANGED <<disk, seen, published>>
    PROVE  RunInv(runs[j], Target(j))'
  BY DEF RunsInv, RunInv, PassInv, PreparedInv, SecondPassInv, VerifiedInv, Leq

(* The daemon starts with nothing published and no run.                     *)
LEMMA PublicationInit == Init => PublicationInv
<1>. SUFFICES ASSUME Init PROVE PublicationInv
  OBVIOUS
<1>1. TypeInv
  BY TypeInit
<1>2. GateInv
  BY IndexSchedulerAssumption
  DEF Init, GateInv, NotRunning, Holding, Passing, Prepared
<1>3. ContentInv
  BY DEF Init, ContentInv, Leq, Nothing, Unread
<1>4. RunsInv
  BY DEF Init, RunsInv, RunInv, PassInv, PreparedInv, SecondPassInv,
         VerifiedInv, NotRunning, Passing, Prepared
<1>. QED BY <1>1, <1>2, <1>3, <1>4 DEF PublicationInv

(* An edit moves the disk forward, under whatever run is in progress.       *)
LEMMA PublicationEdit ==
    ASSUME PublicationInv, NEW w \in Workspaces, NEW i \in Editable, edit(w, i)
    PROVE  GateInv' /\ ContentInv' /\ RunsInv'
<1>. USE IndexSchedulerAssumption
<1>1. /\ disk \in [Workspaces -> Snapshots]
      /\ published \in [Workspaces -> Snapshots]
      /\ seen \in [Workspaces -> SUBSET Snapshots]
  BY DEF PublicationInv, TypeInv, TypeOK, WorldTypeOK, StoreTypeOK
<1>2. UNCHANGED <<runs, gate, jobs, published>>
  BY DEF edit, store
<1>4. disk' \in [Workspaces -> Snapshots]
  BY <1>1 DEF edit, Snapshots
<1>3. ASSUME NEW v \in Workspaces
      PROVE  /\ disk'[v] \in seen'[v]
             /\ seen[v] \subseteq seen'[v]
             /\ Leq(disk[v], disk'[v])
  <2>1. seen' = [seen EXCEPT ![w] = seen[w] \cup {disk'[w]}]
    BY DEF edit
  <2>2. seen[v] \subseteq seen'[v]
    BY <1>1, <2>1
  <2>3. disk'[v] \in seen'[v]
    <3>1. CASE v = w
      BY <1>1, <2>1, <3>1
    <3>2. CASE v # w
      BY <1>1, <2>1, <3>2 DEF edit, PublicationInv, ContentInv
    <3>. QED BY <3>1, <3>2
  <2>4. Leq(disk[v], disk'[v])
    <3>1. disk' = [disk EXCEPT ![w] = [disk[w] EXCEPT ![i] = disk[w][i] + 1]]
      BY DEF edit
    <3>2. CASE v = w
      BY <1>1, <3>1, <3>2 DEF Leq, Snapshots
    <3>3. CASE v # w
      BY <1>1, <3>1, <3>3 DEF Leq, Snapshots
    <3>. QED BY <3>2, <3>3
  <2>. QED BY <2>2, <2>3, <2>4
<1>5. GateInv'
  BY <1>2 DEF PublicationInv, GateInv
<1>6. ContentInv'
  <2>. SUFFICES ASSUME NEW v \in Workspaces
                PROVE  /\ disk'[v] \in seen'[v]
                       /\ Leq(published'[v], disk'[v])
                       /\ published'[v] \in seen'[v] \cup {Nothing}
    BY DEF ContentInv, Leq
  <2>1. Leq(published[v], disk[v]) /\ published[v] \in seen[v] \cup {Nothing}
    BY DEF PublicationInv, ContentInv
  <2>2. Leq(published[v], disk'[v])
    BY <1>1, <1>3, <1>4, <2>1 DEF Leq, Snapshots
  <2>. QED BY <1>2, <1>3, <2>1, <2>2
<1>7. ASSUME NEW j \in Jobs PROVE RunInv(runs[j], Target(j))'
  <2>1. CASE runs[j].pc \notin Holding
    BY <1>2, <2>1, NotHolding
  <2>2. CASE runs[j].pc \in Holding
    <3>. DEFINE v == Target(j)
    <3>1. v \in Workspaces /\ Target(j)' = v
      BY <1>2, <2>2 DEF PublicationInv, TypeInv, JobsWellFormed, Target, Holding,
                        Passing, Prepared
    <3>2. RunInv(runs[j], v) /\ runs[j].view \in Snapshots
          /\ runs[j].prepared \in Snapshots
      BY DEF PublicationInv, RunsInv, TypeInv, TypeOK, DaemonTypeOK, RunState
    <3>. HIDE DEF v
    <3>3. disk[v] \in Snapshots /\ disk'[v] \in Snapshots
      BY <1>1, <1>4, <3>1
    <3>4. PassInv(runs[j], Target(j))'
      BY <1>2, <1>3, <3>1, <3>2, <3>3 DEF RunInv, PassInv, Leq, Snapshots
    <3>5. PreparedInv(runs[j], Target(j))'
      BY <1>2, <1>3, <3>1, <3>2, <3>3 DEF RunInv, PreparedInv, Leq, Snapshots
    <3>6. SecondPassInv(runs[j], Target(j))'
      <4>. SUFFICES ASSUME runs[j].pc = "second"
                    PROVE  SecondPassInv(runs[j], Target(j))'
        BY <1>2 DEF SecondPassInv
      <4>1. PICK d \in seen[v] :
                 /\ Leq(runs[j].prepared, d)
                 /\ Leq(d, disk[v])
                 /\ \A p \in Inputs : runs[j].view[p] # Unread =>
                        d[p] <= runs[j].view[p]
        BY <3>2 DEF RunInv, SecondPassInv
      <4>2. d \in seen'[v] /\ d \in Snapshots
        BY <1>1, <1>3, <3>1, <4>1
      <4>3. Leq(d, disk'[v])
        BY <1>3, <3>1, <3>3, <4>1, <4>2 DEF Leq, Snapshots
      <4>. QED BY <1>2, <3>1, <4>1, <4>2, <4>3 DEF SecondPassInv, Leq
    <3>7. VerifiedInv(runs[j], Target(j))'
      BY <1>2, <1>3, <3>1, <3>2 DEF RunInv, VerifiedInv
    <3>. QED BY <3>4, <3>5, <3>6, <3>7 DEF RunInv
  <2>. QED BY <2>1, <2>2
<1>8. RunsInv'
  BY <1>7 DEF RunsInv
<1>. QED BY <1>5, <1>6, <1>8

(* Steps that touch neither the contents nor the runs nor the gate: the     *)
(* watcher's and the producer's, and requests.                              *)
LEMMA PublicationQuiet ==
    ASSUME PublicationInv, UNCHANGED <<disk, seen, published, runs, gate>>,
           \A j \in Jobs : runs[j].pc # "idle" => Target(j)' = Target(j)
    PROVE  GateInv' /\ ContentInv' /\ RunsInv'
<1>1. GateInv' /\ ContentInv'
  BY DEF PublicationInv, GateInv, ContentInv, Leq
<1>2. ASSUME NEW j \in Jobs PROVE RunInv(runs[j], Target(j))'
  <2>1. CASE runs[j].pc = "idle"
    BY <2>1, NotHolding DEF Holding, Passing, Prepared
  <2>2. CASE runs[j].pc # "idle"
    BY <2>2, RunKept DEF PublicationInv
  <2>. QED BY <2>1, <2>2
<1>. QED BY <1>1, <1>2 DEF RunsInv

(* How the gate may change hands in a step of run k.                        *)
LEMMA GateStep ==
    ASSUME GateInv, NEW k \in Jobs, \A j \in Jobs \ {k} : runs'[j] = runs[j],
           \/ /\ gate' = gate
              /\ runs'[k].pc \in Holding <=> runs[k].pc \in Holding
           \/ gate \in {k, NoJob} /\ gate' = k /\ runs'[k].pc \in Holding
           \/ gate = k /\ gate' = NoJob /\ runs'[k].pc \notin Holding
    PROVE  GateInv'
  BY IndexSchedulerAssumption DEF GateInv

(* A step of run k that leaves the contents alone.                          *)
LEMMA OwnStep ==
    ASSUME PublicationInv, NEW k \in Jobs, UNCHANGED <<disk, seen, published>>,
           \A j \in Jobs \ {k} : runs'[j] = runs[j] /\ jobs'[j] = jobs[j],
           RunInv(runs[k], Target(k))'
    PROVE  ContentInv' /\ RunsInv'
<1>1. ContentInv'
  BY DEF PublicationInv, ContentInv, Leq
<1>2. ASSUME NEW j \in Jobs \ {k} PROVE RunInv(runs[j], Target(j))'
  <2>1. Target(j)' = Target(j)
    BY DEF Target
  <2>. QED BY <2>1, RunKept DEF PublicationInv
<1>. QED BY <1>1, <1>2 DEF RunsInv

(* A run that gives up or ends leaves the gate.                             *)
LEMMA ReturnStep ==
    ASSUME PublicationInv, NEW k \in Jobs, NEW result,
           runs[k].pc \in Holding, Return(k, result)
    PROVE  /\ GateInv'
           /\ \A j \in Jobs \ {k} : runs'[j] = runs[j]
           /\ RunInv(runs[k], Target(k))'
<1>1. runs \in [Jobs -> RunState]
  BY DEF PublicationInv, TypeInv, TypeOK, DaemonTypeOK
<1>2. gate = k
  BY DEF PublicationInv, GateInv
<1>3. /\ \A j \in Jobs \ {k} : runs'[j] = runs[j]
      /\ runs'[k].pc = "settle" /\ gate' = NoJob
  BY <1>1 DEF Return, NotRunning
<1>4. runs'[k].pc \notin Holding
  BY <1>3 DEF Holding, Passing, Prepared
<1>5. GateInv'
  BY <1>2, <1>3, <1>4, GateStep DEF PublicationInv
<1>. QED BY <1>3, <1>4, <1>5, NotHolding

(* A pass starts: nothing is read yet.                                      *)
LEMMA RefreshStep ==
    ASSUME PublicationInv, NEW k \in Jobs, NEW pc \in Passing,
           gate \in {k, NoJob}, Refresh(k, pc),
           UNCHANGED <<disk, seen, published, jobs>>,
           pc = "second" => runs[k].pc = "analyze"
    PROVE  GateInv' /\ ContentInv' /\ RunsInv'
<1>1. runs \in [Jobs -> RunState]
  BY DEF PublicationInv, TypeInv, TypeOK, DaemonTypeOK
<1>2. /\ \A j \in Jobs \ {k} : runs'[j] = runs[j]
      /\ runs'[k] = [runs[k] EXCEPT !.pc = pc, !.view = Nothing]
      /\ gate' = k
  BY <1>1 DEF Refresh
<1>3. /\ runs'[k].pc = pc /\ runs'[k].view = Nothing
      /\ runs'[k].prepared = runs[k].prepared
  BY <1>1, <1>2 DEF RunState
<1>4. GateInv'
  BY <1>2, <1>3, GateStep DEF PublicationInv, Holding
<1>5. Target(k)' = Target(k)
  BY DEF Target
<1>6. PassInv(runs[k], Target(k))'
  BY <1>3 DEF PassInv, Nothing
<1>7. VerifiedInv(runs[k], Target(k))'
  BY <1>3 DEF VerifiedInv, Passing
<1>8. PreparedInv(runs[k], Target(k))' /\ SecondPassInv(runs[k], Target(k))'
  <2>1. CASE pc # "second"
    BY <1>3, <2>1 DEF PreparedInv, SecondPassInv, Passing, Prepared
  <2>2. CASE pc = "second"
    <3>1. Target(k) \in Workspaces
      BY <2>2 DEF PublicationInv, TypeInv, JobsWellFormed, Target
    <3>2. Leq(published[Target(k)], runs[k].prepared)
          /\ Leq(runs[k].prepared, disk[Target(k)])
      BY <2>2 DEF PublicationInv, RunsInv, RunInv, PreparedInv, Prepared
    <3>3. disk[Target(k)] \in seen[Target(k)]
      BY <3>1 DEF PublicationInv, ContentInv
    <3>4. PreparedInv(runs[k], Target(k))'
      BY <1>3, <1>5, <3>2 DEF PreparedInv, Leq
    <3>5. SecondPassInv(runs[k], Target(k))'
      <4>1. disk[Target(k)] \in Snapshots
        BY <3>1 DEF PublicationInv, TypeInv, TypeOK, WorldTypeOK
      <4>2. Leq(disk[Target(k)], disk[Target(k)])
        BY <4>1 DEF Leq, Snapshots
      <4>3. \A i \in Inputs : runs'[k].view[i] = Unread
        BY <1>3 DEF Nothing
      <4>. QED BY <1>3, <1>5, <3>2, <3>3, <4>2, <4>3 DEF SecondPassInv, Leq
    <3>. QED BY <3>4, <3>5
  <2>. QED BY <2>1, <2>2
<1>9. RunInv(runs[k], Target(k))'
  BY <1>6, <1>7, <1>8 DEF RunInv
<1>. QED BY <1>2, <1>4, <1>9, OwnStep

(* Steps of an attempt outside the gate.                                    *)
LEMMA PublicationOutside ==
    ASSUME PublicationInv, NEW k \in Jobs,
           \/ start_attempt(k) \/ check_generation(k) \/ settle(k)
           \/ automatic_job_failed(k) \/ enrichment_enqueue_error(k)
           \/ acknowledge(k) \/ automatic_job_finished(k)
    PROVE  GateInv' /\ ContentInv' /\ RunsInv'
<1>1. runs \in [Jobs -> RunState] /\ jobs \in [Jobs -> JobRow]
  BY DEF PublicationInv, TypeInv, TypeOK, DaemonTypeOK, StoreTypeOK
<1>2. /\ UNCHANGED <<disk, seen, published, gate>>
      /\ \A j \in Jobs \ {k} : runs'[j] = runs[j] /\ jobs'[j] = jobs[j]
      /\ runs[k].pc \notin Holding
      /\ runs'[k].pc \notin Holding
  <2>. USE <1>1 DEF Holding, Passing, Prepared, world, store, Goto, Finish,
                    NotRunning, RunState
  <2>1. CASE start_attempt(k)
    BY <2>1 DEF start_attempt
  <2>2. CASE check_generation(k)
    BY <2>2 DEF check_generation
  <2>3. CASE settle(k)
    BY <2>3 DEF settle
  <2>4. CASE automatic_job_failed(k)
    BY <2>4 DEF automatic_job_failed
  <2>5. CASE enrichment_enqueue_error(k)
    BY <2>5 DEF enrichment_enqueue_error
  <2>6. CASE acknowledge(k)
    BY <2>6 DEF acknowledge
  <2>7. CASE automatic_job_finished(k)
    BY <2>7 DEF automatic_job_finished
  <2>. QED BY <2>1, <2>2, <2>3, <2>4, <2>5, <2>6, <2>7
<1>3. GateInv'
  BY <1>2, GateStep DEF PublicationInv
<1>4. RunInv(runs[k], Target(k))'
  BY <1>2, NotHolding
<1>. QED BY <1>2, <1>3, <1>4, OwnStep

(* A pass reads one input: not older than the published version, and not    *)
(* older than it was when the pass started.                                 *)
LEMMA PublicationRead ==
    ASSUME PublicationInv, NEW k \in Jobs, NEW i \in Inputs, read_input(k, i)
    PROVE  GateInv' /\ ContentInv' /\ RunsInv'
<1>. DEFINE w == Target(k)
<1>1. /\ runs \in [Jobs -> RunState] /\ disk \in [Workspaces -> Snapshots]
      /\ published \in [Workspaces -> Snapshots]
      /\ seen \in [Workspaces -> SUBSET Snapshots]
  BY DEF PublicationInv, TypeInv, TypeOK, DaemonTypeOK, WorldTypeOK, StoreTypeOK
<1>2. /\ UNCHANGED <<disk, seen, published, gate, jobs>>
      /\ runs[k].pc \in Passing
      /\ runs' = [runs EXCEPT ![k].view[i] = disk[w][i]]
  BY DEF read_input, Passing, world, store
<1>3. Target(k)' = w /\ w \in Workspaces
  BY <1>2 DEF Target, PublicationInv, TypeInv, JobsWellFormed, Passing
<1>. HIDE DEF w
<1>4. /\ \A j \in Jobs \ {k} : runs'[j] = runs[j]
      /\ runs'[k].pc = runs[k].pc /\ runs'[k].prepared = runs[k].prepared
      /\ runs'[k].view = [runs[k].view EXCEPT ![i] = disk[w][i]]
  BY <1>1, <1>2 DEF RunState
<1>5. GateInv'
  BY <1>2, <1>4, GateStep DEF PublicationInv
<1>6. RunInv(runs[k], w) /\ runs[k].view \in Snapshots
  BY <1>1 DEF PublicationInv, RunsInv, RunState, w
<1>7. /\ Leq(published[w], disk[w]) /\ disk[w] \in Snapshots
      /\ published[w] \in Snapshots
  BY <1>1, <1>3 DEF PublicationInv, ContentInv
<1>8. \A p \in Inputs : runs'[k].view[p] =
                            IF p = i THEN disk[w][p] ELSE runs[k].view[p]
  BY <1>4, <1>6 DEF Snapshots
<1>9. PassInv(runs[k], Target(k))'
  BY <1>2, <1>3, <1>4, <1>6, <1>7, <1>8
  DEF RunInv, PassInv, Leq, Snapshots
<1>10. PreparedInv(runs[k], Target(k))' /\ VerifiedInv(runs[k], Target(k))'
  BY <1>2, <1>3, <1>4, <1>6
  DEF RunInv, PreparedInv, VerifiedInv, Leq
<1>11. SecondPassInv(runs[k], Target(k))'
  <2>. SUFFICES ASSUME runs'[k].pc = "second"
                PROVE  SecondPassInv(runs[k], Target(k))'
    BY DEF SecondPassInv
  <2>1. PICK d \in seen[w] :
             /\ Leq(runs[k].prepared, d)
             /\ Leq(d, disk[w])
             /\ \A p \in Inputs : runs[k].view[p] # Unread =>
                    d[p] <= runs[k].view[p]
    BY <1>4, <1>6 DEF RunInv, SecondPassInv
  <2>2. \A p \in Inputs : runs'[k].view[p] # Unread => d[p] <= runs'[k].view[p]
    BY <1>8, <2>1 DEF Leq
  <2>. QED BY <1>2, <1>3, <1>4, <2>1, <2>2 DEF SecondPassInv, Leq
<1>12. RunInv(runs[k], Target(k))'
  BY <1>9, <1>10, <1>11 DEF RunInv
<1>. QED BY <1>2, <1>4, <1>5, <1>12, OwnStep

(* The run takes the gate, starts its second pass, or ends.                 *)
LEMMA PublicationPass ==
    ASSUME PublicationInv, NEW k \in Jobs,
           \/ begin(k) \/ checkpoint_verified(k) \/ analyzed(k)
           \/ ensure_enrichment_inputs(k) \/ attempt_error(k)
    PROVE  GateInv' /\ ContentInv' /\ RunsInv'
<1>1. UNCHANGED <<disk, seen, published, jobs>>
  BY DEF begin, checkpoint_verified, analyzed, ensure_enrichment_inputs,
         attempt_error, world, store
<1>2. runs[k].pc \in Holding => gate = k
  BY DEF PublicationInv, GateInv
<1>3. ASSUME NEW result, Return(k, result), runs[k].pc \in Holding
      PROVE  GateInv' /\ ContentInv' /\ RunsInv'
  BY <1>1, <1>3, ReturnStep, OwnStep
<1>4. ASSUME NEW pc \in {"checkpoint", "first"}, Refresh(k, pc),
             gate \in {k, NoJob}
      PROVE  GateInv' /\ ContentInv' /\ RunsInv'
  BY <1>1, <1>4, RefreshStep DEF Passing
<1>5. CASE begin(k)
  BY <1>4, <1>5 DEF begin
<1>6. CASE checkpoint_verified(k)
  BY <1>2, <1>3, <1>4, <1>6 DEF checkpoint_verified, Holding, Passing
<1>7. CASE analyzed(k)
  <2>1. runs[k].pc = "analyze" /\ gate = k /\ runs[k].pc \in Holding
    BY <1>2, <1>7 DEF analyzed, Holding, Prepared
  <2>2. CASE Refresh(k, "second")
    BY <1>1, <2>1, <2>2, RefreshStep DEF Passing
  <2>. QED BY <1>3, <1>7, <2>1, <2>2 DEF analyzed
<1>8. CASE attempt_error(k)
  BY <1>3, <1>8 DEF attempt_error, Holding, Passing, Prepared
<1>9. CASE ensure_enrichment_inputs(k)
  BY <1>3, <1>9 DEF ensure_enrichment_inputs, Holding
<1>. QED BY <1>5, <1>6, <1>7, <1>8, <1>9

(* The first pass is complete: it becomes the prepared snapshot.            *)
LEMMA PublicationRefreshed ==
    ASSUME PublicationInv, NEW k \in Jobs, refreshed(k)
    PROVE  GateInv' /\ ContentInv' /\ RunsInv'
<1>1. /\ UNCHANGED <<disk, seen, published, jobs>>
      /\ runs[k].pc = "first" /\ runs[k].pc \in Holding
  BY DEF refreshed, world, Holding, Passing
<1>2. ASSUME NEW result, Return(k, result)
      PROVE  GateInv' /\ ContentInv' /\ RunsInv'
  BY <1>1, <1>2, ReturnStep, OwnStep
<1>3. CASE /\ runs' = [runs EXCEPT ![k].pc = "analyze",
                                   ![k].prepared = runs[k].view]
           /\ UNCHANGED gate
  <2>1. /\ \A j \in Jobs \ {k} : runs'[j] = runs[j]
        /\ runs'[k].pc = "analyze" /\ runs'[k].prepared = runs[k].view
    BY <1>3 DEF PublicationInv, TypeInv, TypeOK, DaemonTypeOK, RunState
  <2>2. GateInv'
    BY <1>1, <1>3, <2>1, GateStep
    DEF PublicationInv, Holding, Prepared
  <2>3. Target(k)' = Target(k)
    BY <1>1 DEF Target
  <2>4. /\ Leq(published[Target(k)], runs[k].view)
        /\ Leq(runs[k].view, disk[Target(k)])
    BY <1>1 DEF refreshed, ReadAll, PublicationInv, RunsInv, RunInv, PassInv,
                Passing, Leq
  <2>5. RunInv(runs[k], Target(k))'
    BY <1>1, <2>1, <2>3, <2>4
    DEF RunInv, PassInv, PreparedInv, SecondPassInv, VerifiedInv, Leq, Passing
  <2>. QED BY <1>1, <2>1, <2>2, <2>5, OwnStep
<1>. QED BY <1>2, <1>3 DEF refreshed

(* The second pass found the prepared snapshot again: it existed.           *)
LEMMA PublicationReverified ==
    ASSUME PublicationInv, NEW k \in Jobs, reverified(k)
    PROVE  GateInv' /\ ContentInv' /\ RunsInv'
<1>1. /\ UNCHANGED <<disk, seen, published, jobs>>
      /\ runs[k].pc = "second" /\ runs[k].pc \in Holding
  BY DEF reverified, world, store, Holding, Passing
<1>2. CASE Return(k, "error")
  BY <1>1, <1>2, ReturnStep, OwnStep
<1>3. CASE Goto(k, "publish") /\ runs[k].view = runs[k].prepared
           /\ UNCHANGED gate
  <2>. DEFINE w == Target(k)
  <2>1. /\ \A j \in Jobs \ {k} : runs'[j] = runs[j]
        /\ runs'[k].pc = "publish" /\ runs'[k].prepared = runs[k].prepared
    BY <1>3 DEF Goto, PublicationInv, TypeInv, TypeOK, DaemonTypeOK, RunState
  <2>2. GateInv'
    BY <1>1, <1>3, <2>1, GateStep DEF PublicationInv, Holding, Prepared
  <2>3. Target(k)' = w /\ w \in Workspaces
    BY <1>1 DEF Target, PublicationInv, TypeInv, JobsWellFormed
  <2>4. RunInv(runs[k], w)
    BY DEF PublicationInv, RunsInv
  <2>5. seen[w] \subseteq Snapshots /\ runs[k].prepared \in Snapshots
    BY <2>3 DEF PublicationInv, TypeInv, TypeOK, WorldTypeOK, DaemonTypeOK,
                RunState
  <2>. HIDE DEF w
  <2>6. PICK d \in seen[w] :
             /\ Leq(runs[k].prepared, d)
             /\ \A i \in Inputs : runs[k].view[i] # Unread =>
                    d[i] <= runs[k].view[i]
    BY <1>1, <2>4 DEF RunInv, SecondPassInv
  <2>7. runs[k].prepared = d
    <3>1. \A i \in Inputs : runs[k].prepared[i] <= d[i]
                             /\ d[i] <= runs[k].prepared[i]
      BY <1>3, <2>6 DEF reverified, ReadAll, Leq
    <3>2. d \in [Inputs -> Nat] /\ runs[k].prepared \in [Inputs -> Nat]
      BY <2>5 DEF Snapshots
    <3>3. \A i \in Inputs : runs[k].prepared[i] = d[i]
      BY <3>1, <3>2
    <3>. QED BY <3>2, <3>3
  <2>8. VerifiedInv(runs[k], Target(k))'
    BY <1>1, <2>1, <2>3, <2>7 DEF VerifiedInv
  <2>9. RunInv(runs[k], Target(k))'
    BY <1>1, <2>1, <2>3, <2>4, <2>8
    DEF RunInv, PassInv, PreparedInv, SecondPassInv, Leq, Passing, Prepared
  <2>. QED BY <1>1, <2>1, <2>2, <2>9, OwnStep
<1>. QED BY <1>2, <1>3 DEF reverified

(* The verified snapshot replaces the published revision, under the gate.   *)
LEMMA PublicationPublished ==
    ASSUME PublicationInv, NEW k \in Jobs, publish_verified(k)
    PROVE  /\ GateInv' /\ ContentInv' /\ RunsInv'
           /\ \A w \in Workspaces : Leq(published[w], published'[w])
<1>. DEFINE w == Target(k)
<1>1. /\ UNCHANGED <<disk, seen, jobs>>
      /\ runs[k].pc = "publish" /\ runs[k].pc \in Holding
      /\ published' = [published EXCEPT ![w] = runs[k].prepared]
      /\ Goto(k, "inputs") /\ UNCHANGED gate
  BY DEF publish_verified, Holding, Prepared, world
<1>2. w \in Workspaces /\ runs[k].prepared \in Snapshots
      /\ published \in [Workspaces -> Snapshots]
  BY <1>1 DEF Target, PublicationInv, TypeInv, JobsWellFormed, TypeOK,
              DaemonTypeOK, StoreTypeOK, RunState
<1>3. /\ GateInv' /\ RunInv(runs[k], Target(k))'
      /\ \A j \in Jobs \ {k} : runs'[j] = runs[j]
  <2>1. /\ \A j \in Jobs \ {k} : runs'[j] = runs[j]
        /\ runs'[k].pc = "inputs"
    BY <1>1 DEF Goto, PublicationInv, TypeInv, TypeOK, DaemonTypeOK, RunState
  <2>2. GateInv'
    BY <1>1, <2>1, GateStep DEF PublicationInv, Holding
  <2>3. RunInv(runs[k], Target(k))'
    BY <2>1 DEF RunInv, PassInv, PreparedInv, SecondPassInv, VerifiedInv,
                Passing, Prepared
  <2>. QED BY <2>1, <2>2, <2>3
<1>4. ASSUME NEW j \in Jobs \ {k} PROVE RunInv(runs[j], Target(j))'
  <2>1. runs[j].pc \notin Holding
    BY <1>1 DEF PublicationInv, GateInv
  <2>. QED BY <1>3, <2>1, NotHolding
<1>5. /\ Leq(published[w], runs[k].prepared)
      /\ Leq(runs[k].prepared, disk[w])
      /\ runs[k].prepared \in seen[w]
  BY <1>1 DEF PublicationInv, RunsInv, RunInv, PreparedInv, VerifiedInv,
              Prepared
<1>. HIDE DEF w
<1>6. ContentInv'
  <2>. SUFFICES ASSUME NEW v \in Workspaces
                PROVE  /\ disk'[v] \in seen'[v]
                       /\ Leq(published'[v], disk'[v])
                       /\ published'[v] \in seen'[v] \cup {Nothing}
    BY DEF ContentInv, Leq
  <2>1. CASE v = w
    BY <1>1, <1>2, <1>5, <2>1 DEF PublicationInv, ContentInv
  <2>2. CASE v # w
    BY <1>1, <1>2, <2>2 DEF PublicationInv, ContentInv
  <2>. QED BY <2>1, <2>2
<1>7. ASSUME NEW v \in Workspaces PROVE Leq(published[v], published'[v])
  <2>1. CASE v = w
    BY <1>1, <1>2, <1>5, <2>1
  <2>2. CASE v # w
    BY <1>1, <1>2, <2>2 DEF Leq, Snapshots
  <2>. QED BY <2>1, <2>2
<1>. QED BY <1>3, <1>4, <1>6, <1>7 DEF RunsInv

(* A restart ends every run and keeps what is stored.                       *)
LEMMA PublicationRestart ==
    ASSUME PublicationInv, restart
    PROVE  GateInv' /\ ContentInv' /\ RunsInv'
<1>1. /\ UNCHANGED <<disk, seen, published>> /\ gate' = NoJob
      /\ \A j \in Jobs : runs'[j].pc \notin Holding
  BY DEF restart, store, NotRunning, Holding, Passing, Prepared
<1>2. GateInv'
  BY <1>1, IndexSchedulerAssumption DEF GateInv
<1>3. ContentInv'
  BY <1>1 DEF PublicationInv, ContentInv, Leq
<1>4. RunsInv'
  BY <1>1, NotHolding DEF RunsInv
<1>. QED BY <1>2, <1>3, <1>4

(* Only a publication changes what is published.                            *)
LEMMA OthersKeepPublished ==
    ASSUME Next, \A k \in Jobs : ~publish_verified(k)
    PROVE  published' = published
<1>1. ASSUME NEW k \in Jobs, Running(k) PROVE published' = published
  BY <1>1
  DEF Running, start_attempt, check_generation, begin, read_input,
      checkpoint_verified, refreshed, analyzed, reverified,
      ensure_enrichment_inputs, attempt_error,
      settle, automatic_job_failed, enrichment_enqueue_error, acknowledge,
      automatic_job_finished, store
<1>2. ASSUME Producing PROVE published' = published
  BY <1>2
  DEF Producing, producer_woken, producer_coalesces, enqueue_dirty,
      enqueue_workspace, drop_head_only_batch, enqueue_automatic_index, store
<1>3. ASSUME Watching PROVE published' = published
  BY <1>3 DEF Watching, add_event, reconcile_after_watcher_error,
              watcher_wakes_producer, store
<1>. QED BY <1>1, <1>2, <1>3 DEF Next, edit, enqueue_manual_index, restart, store

(* The invariant is inductive.                                              *)
LEMMA PublicationNext == PublicationInv /\ [Next]_vars => PublicationInv'
<1>. SUFFICES ASSUME PublicationInv, [Next]_vars PROVE PublicationInv'
  OBVIOUS
<1>1. TypeInv'
  BY TypeNext DEF PublicationInv
<1>. DEFINE Kept == GateInv' /\ ContentInv' /\ RunsInv'
<1>2. ASSUME UNCHANGED vars PROVE Kept
  BY <1>2, PublicationQuiet DEF vars, world, store, Target
<1>3. ASSUME NEW w \in Workspaces, NEW i \in Editable, edit(w, i) PROVE Kept
  BY <1>3, PublicationEdit
<1>4. ASSUME NEW j \in Jobs, NEW trigger, NEW w, NEW generation, NEW intents,
             push_index_job(j, trigger, w, generation, intents)
      PROVE  \A k \in Jobs : runs[k].pc # "idle" => Target(k)' = Target(k)
  <2>1. runs[j].pc = "idle"
    BY <1>4 DEF push_index_job, Free, PublicationInv, TypeInv, JobsWellFormed
  <2>. QED BY <1>4, <2>1
       DEF push_index_job, Target, PublicationInv, TypeInv, TypeOK, StoreTypeOK
<1>5. ASSUME NEW w \in Workspaces, enqueue_manual_index(w) PROVE Kept
  <2>1. \A k \in Jobs : runs[k].pc # "idle" => Target(k)' = Target(k)
    BY <1>4, <1>5 DEF enqueue_manual_index
  <2>. QED BY <1>5, <2>1, PublicationQuiet DEF enqueue_manual_index, store
<1>6. ASSUME Watching PROVE Kept
  <2>1. UNCHANGED <<disk, seen, published, runs, gate, jobs>>
    BY <1>6 DEF Watching, add_event, reconcile_after_watcher_error,
                watcher_wakes_producer, world, store
  <2>2. \A k \in Jobs : Target(k)' = Target(k)
    BY <2>1 DEF Target
  <2>. QED BY <2>1, <2>2, PublicationQuiet
<1>7. ASSUME Producing PROVE Kept
  <2>1. UNCHANGED <<disk, seen, published, runs, gate>>
    BY <1>7
    DEF Producing, producer_woken, producer_coalesces, enqueue_dirty,
        enqueue_workspace, drop_head_only_batch, enqueue_automatic_index,
        world, store
  <2>2. \A k \in Jobs : runs[k].pc # "idle" => Target(k)' = Target(k)
    <3>1. CASE jobs' = jobs
      BY <3>1 DEF Target
    <3>2. CASE jobs' # jobs
      <4>1. enqueue_automatic_index
        BY <1>7, <3>2
        DEF Producing, producer_woken, producer_coalesces, enqueue_dirty,
            enqueue_workspace, drop_head_only_batch
      <4>. QED BY <1>4, <3>2, <4>1 DEF enqueue_automatic_index
    <3>. QED BY <3>1, <3>2
  <2>. QED BY <2>1, <2>2, PublicationQuiet
<1>8. ASSUME NEW k \in Jobs, Running(k) PROVE Kept
  BY <1>8, PublicationOutside, PublicationRead, PublicationPass,
     PublicationRefreshed, PublicationReverified, PublicationPublished
  DEF Running
<1>9. ASSUME restart PROVE Kept
  BY <1>9, PublicationRestart
<1>10. Kept
  BY <1>2, <1>3, <1>5, <1>6, <1>7, <1>8, <1>9 DEF Next
<1>. QED BY <1>1, <1>10 DEF PublicationInv

(* The invariant holds in every state the daemon reaches.                   *)
LEMMA PublicationInvariance == Spec => []PublicationInv
  BY PublicationInit, PublicationNext, PTL DEF Spec

(* The published revision is of a content the workspace really had at one   *)
(* moment: publish_verified never commits a snapshot torn by edits between  *)
(* the reads of a pass, whoever edits and however runs interleave.          *)
THEOREM PublishedReallyExisted == Spec => []PublishedExisted
<1>1. PublicationInv => PublishedExisted
  BY DEF PublicationInv, ContentInv, PublishedExisted
<1>. QED BY <1>1, PublicationInvariance, PTL

(* A publication never replaces newer content by older content: the gate is *)
(* held from the first read of a run to its publication, so no other run    *)
(* publishes in between.                                                    *)
THEOREM PublicationIsMonotonic == Spec => PublishedNeverRegresses
<1>1. ASSUME PublicationInv, PublicationInv', [Next]_vars
      PROVE  [\A w \in Workspaces, i \in Inputs :
                published'[w][i] >= published[w][i]]_vars
  <2>. SUFFICES ASSUME NEW w \in Workspaces, NEW i \in Inputs
                PROVE  published'[w][i] >= published[w][i]
    OBVIOUS
  <2>1. published[w][i] \in Nat /\ published'[w][i] \in Nat
    BY <1>1 DEF PublicationInv, TypeInv, TypeOK, StoreTypeOK, Snapshots
  <2>2. CASE published' = published
    BY <2>1, <2>2
  <2>3. ASSUME NEW k \in Jobs, publish_verified(k)
        PROVE  published[w][i] <= published'[w][i]
    BY <1>1, <2>3, PublicationPublished DEF Leq
  <2>4. CASE UNCHANGED vars
    BY <2>2, <2>4 DEF vars, store
  <2>. QED BY <1>1, <2>1, <2>2, <2>3, <2>4, OthersKeepPublished
<1>. QED BY <1>1, PublicationInvariance, PTL DEF Spec, PublishedNeverRegresses

-----------------------------------------------------------------------------
(***************************************************************************)
(* The checkpoint.  It names the enrichment workers that were installed    *)
(* when it was stored, and workers are only ever added: once one more is   *)
(* installed, no older checkpoint is accepted, so a matching checkpoint    *)
(* was stored by a run of the current workers, which completed the inputs  *)
(* first.                                                                  *)
(***************************************************************************)
CheckpointBehind == \A w \in Workspaces : checkpoint[w].catalog <= catalog

CheckpointInv == CheckpointBehind /\ CheckpointIsComplete

(* Steps that neither publish nor store anything.                           *)
LEMMA CheckpointKept ==
    ASSUME CheckpointInv, UNCHANGED store
    PROVE  CheckpointInv'
  BY DEF CheckpointInv, CheckpointBehind, CheckpointIsComplete,
         enrichment_inputs_complete, store

(* A run that has the enrichment inputs of the installed workers complete   *)
(* may store the checkpoint, or fail to.                                    *)
LEMMA CheckpointStored ==
    ASSUME TypeInv, CheckpointInv, NEW k \in Jobs, Target(k) \in Workspaces,
           store_checkpoint(k) \/ UNCHANGED checkpoint,
           UNCHANGED <<published, catalog>>,
           inputs_for' = [inputs_for EXCEPT ![Target(k)] = catalog]
    PROVE  CheckpointInv'
<1>. DEFINE w == Target(k)
<1>1. /\ checkpoint \in [Workspaces -> [snapshot : Snapshots, catalog : Nat]]
      /\ inputs_for \in [Workspaces -> Nat] /\ catalog \in Nat
  BY DEF TypeInv, TypeOK, StoreTypeOK
<1>2. ASSUME NEW v \in Workspaces, v # w
      PROVE  checkpoint'[v] = checkpoint[v] /\ inputs_for'[v] = inputs_for[v]
  BY <1>1, <1>2 DEF store_checkpoint
<1>3. inputs_for'[w] = catalog
  BY <1>1
<1>4. checkpoint'[w].catalog <= catalog
  <2>1. CASE UNCHANGED checkpoint
    BY <2>1 DEF CheckpointInv, CheckpointBehind
  <2>2. CASE checkpoint' = [checkpoint EXCEPT ![w] =
                              [snapshot |-> runs[k].view, catalog |-> catalog]]
    BY <1>1, <2>2
  <2>. QED BY <2>1, <2>2 DEF store_checkpoint
<1>. HIDE DEF w
<1>5. CheckpointBehind'
  BY <1>2, <1>4 DEF CheckpointInv, CheckpointBehind
<1>6. CheckpointIsComplete'
  BY <1>2, <1>3
  DEF CheckpointInv, CheckpointIsComplete, enrichment_inputs_complete
<1>. QED BY <1>5, <1>6 DEF CheckpointInv

(* A publication stores its enrichment inputs, whatever the checkpoint is.  *)
LEMMA CheckpointPublished ==
    ASSUME TypeInv, CheckpointInv, NEW k \in Jobs, publish_verified(k)
    PROVE  CheckpointInv'
<1>. DEFINE w == Target(k)
<1>1. /\ w \in Workspaces
      /\ published \in [Workspaces -> Snapshots]
      /\ inputs_for \in [Workspaces -> Nat]
  BY DEF TypeInv, TypeOK, StoreTypeOK, JobsWellFormed, Target, publish_verified
<1>2. /\ published' = [published EXCEPT ![w] = runs[k].prepared]
      /\ inputs_for' = [inputs_for EXCEPT ![w] = catalog]
      /\ UNCHANGED <<checkpoint, catalog>>
  BY DEF publish_verified
<1>. HIDE DEF w
<1>3. inputs_for'[w] = catalog
  BY <1>1, <1>2
<1>4. ASSUME NEW v \in Workspaces, v # w
      PROVE  published'[v] = published[v] /\ inputs_for'[v] = inputs_for[v]
  BY <1>1, <1>2, <1>4
<1>5. CheckpointBehind'
  BY <1>2 DEF CheckpointInv, CheckpointBehind
<1>6. CheckpointIsComplete'
  BY <1>2, <1>3, <1>4
  DEF CheckpointInv, CheckpointIsComplete, enrichment_inputs_complete
<1>. QED BY <1>5, <1>6 DEF CheckpointInv

(* The invariant is inductive, given the types.                             *)
LEMMA CheckpointNext == TypeInv /\ CheckpointInv /\ [Next]_vars => CheckpointInv'
<1>. SUFFICES ASSUME TypeInv, CheckpointInv, [Next]_vars
              PROVE  CheckpointInv'
  OBVIOUS
<1>1. ASSUME UNCHANGED vars PROVE CheckpointInv'
  BY <1>1, CheckpointKept DEF vars
<1>2. ASSUME \/ \E w \in Workspaces, i \in Editable : edit(w, i)
             \/ \E w \in Workspaces : enqueue_manual_index(w)
             \/ Watching
      PROVE  CheckpointInv'
  BY <1>2, CheckpointKept
  DEF edit, enqueue_manual_index, Watching, add_event,
      reconcile_after_watcher_error, watcher_wakes_producer
<1>3. ASSUME Producing PROVE CheckpointInv'
  BY <1>3, CheckpointKept
  DEF Producing, producer_woken, producer_coalesces, enqueue_dirty,
      enqueue_workspace, drop_head_only_batch, enqueue_automatic_index
<1>4. ASSUME NEW k \in Jobs, Running(k) PROVE CheckpointInv'
  <2>1. CASE refreshed(k)
    <3>1. Target(k) \in Workspaces
      BY <2>1 DEF refreshed, TypeInv, JobsWellFormed, Target
    <3>2. CASE UNCHANGED checkpoint
      BY <2>1, <3>2, CheckpointKept DEF refreshed, store
    <3>3. CASE enrichment_inputs_complete(Target(k)) /\ store_checkpoint(k)
      <4>1. inputs_for' = [inputs_for EXCEPT ![Target(k)] = catalog]
        BY <2>1, <3>1, <3>3
        DEF refreshed, enrichment_inputs_complete, TypeInv, TypeOK, StoreTypeOK
      <4>. QED BY <2>1, <3>1, <3>3, <4>1, CheckpointStored DEF refreshed
    <3>. QED BY <2>1, <3>2, <3>3 DEF refreshed
  <2>2. CASE ensure_enrichment_inputs(k)
    <3>1. Target(k) \in Workspaces
      BY <2>2 DEF ensure_enrichment_inputs, TypeInv, JobsWellFormed, Target
    <3>. QED BY <2>2, <3>1, CheckpointStored DEF ensure_enrichment_inputs
  <2>3. CASE \/ start_attempt(k) \/ check_generation(k) \/ begin(k)
             \/ (\E i \in Inputs : read_input(k, i))
             \/ checkpoint_verified(k) \/ analyzed(k) \/ reverified(k)
             \/ attempt_error(k) \/ settle(k) \/ automatic_job_failed(k)
             \/ enrichment_enqueue_error(k) \/ acknowledge(k)
             \/ automatic_job_finished(k)
    BY <2>3, CheckpointKept
    DEF start_attempt, check_generation, begin, read_input,
        checkpoint_verified, analyzed, reverified, attempt_error, settle,
        automatic_job_failed, enrichment_enqueue_error, acknowledge,
        automatic_job_finished
  <2>. QED BY <1>4, <2>1, <2>2, <2>3, CheckpointPublished DEF Running
<1>5. ASSUME restart PROVE CheckpointInv'
  <2>1. /\ UNCHANGED <<published, inputs_for, checkpoint>>
        /\ catalog' = catalog \/ catalog' = catalog + 1
    BY <1>5 DEF restart
  <2>2. CASE catalog' = catalog
    BY <2>1, <2>2, CheckpointKept DEF store
  <2>3. CASE catalog' = catalog + 1
    <3>1. \A w \in Workspaces : /\ checkpoint[w].catalog \in Nat
                                 /\ checkpoint[w].catalog <= catalog
      BY DEF TypeInv, TypeOK, StoreTypeOK, CheckpointInv, CheckpointBehind
    <3>2. catalog \in Nat
      BY DEF TypeInv, TypeOK, StoreTypeOK
    <3>3. CheckpointBehind'
      BY <2>1, <2>3, <3>1, <3>2 DEF CheckpointBehind
    <3>4. CheckpointIsComplete'
      <4>1. \A w \in Workspaces : checkpoint[w].catalog # catalog'
        BY <2>3, <3>1, <3>2
      <4>. QED BY <2>1, <4>1 DEF CheckpointIsComplete
    <3>. QED BY <3>3, <3>4 DEF CheckpointInv
  <2>. QED BY <2>1, <2>2, <2>3
<1>. QED BY <1>1, <1>2, <1>3, <1>4, <1>5 DEF Next

(* A checkpoint that matches the published revision and the installed       *)
(* workers vouches for their enrichment inputs as well, wherever a run      *)
(* fails or the process dies between publish_verified_sharded,              *)
(* ensure_enrichment_inputs and store_checkpoint, and whatever is installed *)
(* before it is started again.                                              *)
THEOREM CheckpointsAreComplete == Spec => []CheckpointIsComplete
<1>1. Init => CheckpointInv
  BY DEF Init, CheckpointInv, CheckpointBehind, CheckpointIsComplete
<1>2. Spec => []CheckpointInv
  BY <1>1, TypeInit, TypeNext, CheckpointNext, PTL DEF Spec
<1>3. CheckpointInv => CheckpointIsComplete
  BY DEF CheckpointInv
<1>. QED BY <1>2, <1>3, PTL

-----------------------------------------------------------------------------
=============================================================================
