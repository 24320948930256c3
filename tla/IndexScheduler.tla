---------------------------- MODULE IndexScheduler ----------------------------
(***************************************************************************)
(* Automatic and manual indexing of workspaces by the daemon.              *)
(*                                                                         *)
(* The filesystem watcher (add_event) and reconciliations (mark) bump the  *)
(* generation of a workspace; the producer task (run_automatic,            *)
(* enqueue_dirty) turns generations into durable jobs; the index worker    *)
(* runs jobs, automatic ones for one generation and manual ones for        *)
(* whatever generation is current when they start; a run that finishes     *)
(* completes the generation it indexed.  Runs are concurrent and           *)
(* serialised by the operation gate.  A restart loses everything that is   *)
(* not a durable job, a published revision or a checkpoint.                *)
(*                                                                         *)
(* The bytes of an input are abstracted to a version that every edit       *)
(* increments.  Reading an input returns its current version: what the     *)
(* inventory's metadata hints and caches do to that is not modelled here.  *)
(* Pending intents are the set of reported inputs; how they are reduced is *)
(* the subject of DirtyIntents.                                            *)
(***************************************************************************)
EXTENDS Naturals, FiniteSets

CONSTANTS
    Workspaces,     \* registered workspaces, of one repository each
    Inputs,         \* what the identity of a repository is computed from
    HEAD,           \* the input that is its Git head, not a file
    Editable,       \* the inputs that change while the daemon is observed
    Jobs,           \* identities available for durable jobs
    NoJob,          \* the operation gate is free
    All,            \* the intent to reconcile every input
    MAX_ATTEMPTS,   \* 5 in the code
    MaxEdits,       \* bound on edits of all inputs of all workspaces
    MaxManual,      \* bound on manual index requests
    MaxFaults,      \* bound on crashes, lost events and failing attempts
    MaxUpgrades,    \* bound on the enrichment workers installed later
    MaxDisturbances \* bound on edits, manual requests and faults together

ASSUME IndexSchedulerAssumption ==
    /\ Editable \subseteq Inputs
    /\ All \notin Inputs /\ HEAD # All
    /\ NoJob \notin Jobs
    /\ MAX_ATTEMPTS \in Nat \ {0}
    /\ MaxEdits \in Nat /\ MaxManual \in Nat /\ MaxFaults \in Nat
    /\ MaxUpgrades \in Nat /\ MaxDisturbances \in Nat

VARIABLES
    \* the world
    disk,           \* disk[w][i]: version of input i of workspace w
    events,         \* events[w]: inputs whose change notify has not delivered
    edits, manuals, faults,   \* bounded counters
    seen,           \* ghost: every content disk[w] ever had
    \* memory of the daemon
    generations,    \* generations[w], 0 when the map has no entry
    dirty,          \* dirty_repositories[w]: reported inputs
    dormant,        \* dormant_generations[w], 0 when the map has no entry
    automatic_jobs, \* automatic_jobs[w], 0 when the map has no entry
    changed,        \* permit of the Notify the producer waits on
    watcher,        \* workspaces add_event has yet to wake up
    producer,       \* state of the producer task
    gate,           \* active_operation: the job holding the gate
    runs,           \* runs[j]: the attempt of job j in progress
    \* durable state
    jobs,           \* jobs[j]: row of the Jobs table
    published,      \* published[w]: snapshot of the published revision
    inputs_for,     \* inputs_for[w]: how many enrichment workers it has inputs for
    checkpoint,     \* checkpoint[w]: the stored checkpoint
    catalog         \* how many enrichment workers are installed

world == <<disk, events, edits, manuals, faults, seen>>
desired == <<generations, dirty, dormant>>
store == <<published, inputs_for, checkpoint, catalog>>
vars == <<world, desired, automatic_jobs, changed, watcher, producer, gate,
          runs, jobs, store>>

(* Versions start at 1; Unread is the version of what was never read.       *)
Unread == 0
Nothing == [i \in Inputs |-> Unread]

NotRunning == [pc |-> "idle", generation |-> 0, view |-> Nothing,
               prepared |-> Nothing, result |-> "none"]

Free == [status |-> "Free", trigger |-> "none", workspace |-> NoJob,
         generation |-> 0, intents |-> {}, attempts |-> 0]

Waiting == [pc |-> "wait", todo |-> {}, workspace |-> NoJob,
            snapshot |-> [w \in Workspaces |-> 0], intents |-> {}]

-----------------------------------------------------------------------------
(***************************************************************************)
(* The durable queue.                                                      *)
(***************************************************************************)
(* The predicate every query of jobs.rs uses for a job that is not over.    *)
IsActive(job) ==
    \/ job.status \in {"Pending", "Running"}
    \/ job.status = "Failed" /\ job.attempts < MAX_ATTEMPTS

IsTerminal(job) == job.status # "Free" /\ ~IsActive(job)

automatic_index_active(w) ==
    \E j \in Jobs : /\ jobs[j].trigger = "automatic"
                    /\ jobs[j].workspace = w
                    /\ IsActive(jobs[j])

(* push_index_job: a new row, under an identity no other row has.           *)
push_index_job(j, trigger, w, generation, intents) ==
    /\ jobs[j] = Free
    /\ j = CHOOSE k \in Jobs : jobs[k] = Free
    /\ jobs' = [jobs EXCEPT ![j] =
                  [status |-> "Pending", trigger |-> trigger, workspace |-> w,
                   generation |-> generation, intents |-> intents,
                   attempts |-> 0]]

(* recover: rows a previous process was running count as failed attempts.   *)
Recovered(job) ==
    IF job.status = "Running"
    THEN [job EXCEPT !.attempts = @ + 1,
                     !.status = IF job.attempts + 1 >= MAX_ATTEMPTS
                                THEN "Killed" ELSE "Failed"]
    ELSE job

-----------------------------------------------------------------------------
(***************************************************************************)
(* Generations.                                                            *)
(***************************************************************************)
(* mark, for the workspaces ws; what the caller does to dormant_generations *)
(* comes before (mark) or after (the watcher).                              *)
Bump(ws, reported) ==
    /\ generations' = [w \in Workspaces |-> generations[w] +
                         (IF w \in ws THEN 1 ELSE 0)]
    /\ dirty' = [w \in Workspaces |-> dirty[w] \cup
                         (IF w \in ws THEN reported ELSE {})]

(* complete_generation: only the generation that was indexed is completed,  *)
(* and the producer is woken up when another one is pending.                *)
complete_generation(w, indexed) ==
    IF indexed # 0 /\ generations[w] = indexed
    THEN /\ generations' = [generations EXCEPT ![w] = 0]
         /\ dirty' = [dirty EXCEPT ![w] = {}]
         /\ UNCHANGED <<dormant, changed>>
    ELSE /\ changed' = (changed \/ generations[w] # 0)
         /\ UNCHANGED desired

generation_current(w, indexed) == generations[w] = indexed

head_only(intents) == intents = {HEAD}

git_head_only_noop(w, intents) ==
    head_only(intents) /\ published[w][HEAD] = disk[w][HEAD]

checkpoint_eligible(intents) == All \in intents

-----------------------------------------------------------------------------
(***************************************************************************)
(* The world: edits, and the filesystem watcher thread that reports them.  *)
(***************************************************************************)
(* What disturbs the daemon is bounded, in each kind and in total.          *)
Disturbance == edits + manuals + faults < MaxDisturbances

Fault ==
    /\ Disturbance
    /\ faults < MaxFaults
    /\ faults' = faults + 1

edit(w, i) ==
    /\ Disturbance
    /\ edits < MaxEdits
    /\ edits' = edits + 1
    /\ disk' = [disk EXCEPT ![w][i] = @ + 1]
    /\ seen' = [seen EXCEPT ![w] = @ \cup {disk'[w]}]
    /\ events' = [events EXCEPT ![w] = @ \cup {i}]
    /\ UNCHANGED <<manuals, faults, desired, automatic_jobs, changed, watcher,
                   producer, gate, runs, jobs, store>>

(* add_event up to the release of the generation and dirty locks.           *)
add_event(w, i) ==
    /\ watcher = {}
    /\ i \in events[w]
    /\ events' = [events EXCEPT ![w] = @ \ {i}]
    /\ Bump({w}, {i})
    /\ watcher' = {w}
    /\ UNCHANGED <<disk, edits, manuals, faults, seen, dormant, automatic_jobs,
                   changed, producer, gate, runs, jobs, store>>

(* The watcher lost events and reports an error instead.                    *)
reconcile_after_watcher_error ==
    /\ watcher = {}
    /\ \E w \in Workspaces : events[w] # {}
    /\ Fault
    /\ events' = [w \in Workspaces |-> {}]
    /\ Bump(Workspaces, {All})
    /\ watcher' = Workspaces
    /\ UNCHANGED <<disk, edits, manuals, seen, dormant, automatic_jobs,
                   changed, producer, gate, runs, jobs, store>>

(* The rest of either: dormant generations are dropped, then the producer   *)
(* is notified.                                                             *)
watcher_wakes_producer ==
    /\ watcher # {}
    /\ dormant' = [w \in Workspaces |-> IF w \in watcher THEN 0 ELSE dormant[w]]
    /\ changed' = TRUE
    /\ watcher' = {}
    /\ UNCHANGED <<world, generations, dirty, automatic_jobs, producer, gate,
                   runs, jobs, store>>

-----------------------------------------------------------------------------
(***************************************************************************)
(* The producer: run_automatic and enqueue_dirty.                          *)
(***************************************************************************)
producer_woken ==
    /\ producer.pc = "wait" /\ changed
    /\ changed' = FALSE
    /\ producer' = [producer EXCEPT !.pc = "batch"]
    /\ UNCHANGED <<world, desired, automatic_jobs, watcher, gate, runs, jobs,
                   store>>

(* The quiet period absorbs further notifications.                          *)
producer_coalesces ==
    /\ producer.pc = "batch" /\ changed
    /\ changed' = FALSE
    /\ UNCHANGED <<world, desired, automatic_jobs, watcher, producer, gate, runs,
                   jobs, store>>

(* The workspaces todo of the snapshot remain.                              *)
Scan(snapshot, todo) ==
    producer' = IF todo = {} THEN Waiting
                ELSE [Waiting EXCEPT !.pc = "scan", !.todo = todo,
                                     !.snapshot = snapshot]

(* The quiet period or the maximal latency is over.                         *)
enqueue_dirty ==
    /\ producer.pc = "batch"
    /\ Scan(generations, {w \in Workspaces : generations[w] # 0})
    /\ UNCHANGED <<world, desired, automatic_jobs, changed, watcher, gate, runs,
                   jobs, store>>

(* One workspace of the snapshot: dormant generations are skipped, a batch  *)
(* of Git metadata that changes nothing is dropped, anything else is to be  *)
(* enqueued and is announced in automatic_jobs first.                       *)
enqueue_workspace(w) ==
    /\ producer.pc = "scan" /\ w \in producer.todo
    /\ LET at(pc) == [producer EXCEPT !.pc = pc, !.todo = @ \ {w},
                            !.workspace = w, !.intents = dirty[w]]
       IN \/ /\ dormant[w] = producer.snapshot[w]
             /\ Scan(producer.snapshot, producer.todo \ {w})
             /\ UNCHANGED automatic_jobs
          \/ /\ dormant[w] # producer.snapshot[w]
             /\ git_head_only_noop(w, dirty[w])
             /\ producer' = at("noop")
             /\ UNCHANGED automatic_jobs
          \/ /\ dormant[w] # producer.snapshot[w]
             /\ ~git_head_only_noop(w, dirty[w])
             /\ producer' = at("enqueue")
             /\ automatic_jobs' =
                    [automatic_jobs EXCEPT ![w] = producer.snapshot[w]]
    /\ UNCHANGED <<world, desired, changed, watcher, gate, runs, jobs, store>>

drop_head_only_batch ==
    /\ producer.pc = "noop"
    /\ complete_generation(producer.workspace,
                           producer.snapshot[producer.workspace])
    /\ Scan(producer.snapshot, producer.todo)
    /\ UNCHANGED <<world, dormant, automatic_jobs, watcher, gate, runs, jobs,
                   store>>

(* A workspace with an active automatic job gets no second one.             *)
enqueue_automatic_index ==
    /\ producer.pc = "enqueue"
    /\ IF automatic_index_active(producer.workspace)
       THEN UNCHANGED jobs
       ELSE \E j \in Jobs :
              push_index_job(j, "automatic", producer.workspace,
                             producer.snapshot[producer.workspace],
                             producer.intents)
    /\ Scan(producer.snapshot, producer.todo)
    /\ UNCHANGED <<world, desired, automatic_jobs, changed, watcher, gate, runs,
                   store>>

enqueue_manual_index(w) ==
    /\ Disturbance
    /\ manuals < MaxManual
    /\ manuals' = manuals + 1
    /\ \E j \in Jobs : push_index_job(j, "manual", w, 0, {})
    /\ UNCHANGED <<disk, events, edits, faults, seen, desired, automatic_jobs,
                   changed, watcher, producer, gate, runs, store>>

-----------------------------------------------------------------------------
(***************************************************************************)
(* The index worker: one attempt of job j.                                 *)
(***************************************************************************)
(* The attempt moves on to pc, keeping or changing only its own state.      *)
Goto(j, pc) == runs' = [runs EXCEPT ![j].pc = pc]

(* The attempt leaves index_workspace_through_port with a result and drops  *)
(* its ActiveOperation; the generation is completed after that.             *)
Return(j, result) ==
    /\ runs' = [runs EXCEPT ![j] = [NotRunning EXCEPT !.pc = "settle",
                                      !.generation = runs[j].generation,
                                      !.result = result]]
    /\ gate' = NoJob

(* A pass over the inputs of the workspace starts.                          *)
Refresh(j, pc) ==
    /\ runs' = [runs EXCEPT ![j].pc = pc, ![j].view = Nothing]
    /\ gate' = j

Target(j) == jobs[j].workspace

Current(j) == generation_current(Target(j), runs[j].generation)

(* apalis hands a pending or retryable job to the worker (an attempt of the *)
(* same job that was not acknowledged yet excludes another one).            *)
start_attempt(j) ==
    /\ jobs[j].status \in {"Pending", "Failed"} /\ IsActive(jobs[j])
    /\ runs[j] = NotRunning
    /\ jobs' = [jobs EXCEPT ![j].status = "Running"]
    /\ Goto(j, "check")
    /\ UNCHANGED <<world, desired, automatic_jobs, changed, watcher, producer,
                   gate, store>>

(* run_automatic_workspace_job compares the generation of the job, a manual *)
(* run adopts the current one, both before they wait for the gate.          *)
check_generation(j) ==
    /\ runs[j].pc = "check"
    /\ \/ /\ jobs[j].trigger = "automatic"
          /\ generation_current(Target(j), jobs[j].generation)
          /\ runs' = [runs EXCEPT ![j].pc = "begin",
                                  ![j].generation = jobs[j].generation]
       \/ /\ jobs[j].trigger = "automatic"
          /\ ~generation_current(Target(j), jobs[j].generation)
          /\ runs' = [runs EXCEPT ![j].pc = "settle",
                                  ![j].result = "superseded"]
       \/ /\ jobs[j].trigger = "manual"
          /\ runs' = [runs EXCEPT ![j].pc = "begin",
                                  ![j].generation = generations[Target(j)]]
    /\ UNCHANGED <<world, desired, automatic_jobs, changed, watcher, producer,
                   gate, jobs, store>>

(* Mutated form of begin: the gate is taken without waiting for it.         *)
MutantBeginWithoutWaiting(j) ==
    /\ runs[j].pc = "begin"
    /\ Refresh(j, "first")
    /\ UNCHANGED <<world, desired, automatic_jobs, changed, watcher, producer, jobs, store>>

(* begin: wait until no operation is active.  A run whose repositories are  *)
(* all to be reconciled tries the checkpoint first.                         *)
begin(j) ==
    /\ runs[j].pc = "begin"
    /\ gate = NoJob
    /\ Refresh(j, IF jobs[j].trigger = "manual"
                        \/ checkpoint_eligible(jobs[j].intents)
                  THEN "checkpoint" ELSE "first")
    /\ UNCHANGED <<world, desired, automatic_jobs, changed, watcher, producer, jobs, store>>

(* A pass reads the inputs one after the other, and HEAD last.              *)
read_input(j, i) ==
    /\ runs[j].pc \in {"checkpoint", "first", "second"}
    /\ runs[j].view[i] = Unread
    /\ i = HEAD => \A p \in Inputs \ {HEAD} : runs[j].view[p] # Unread
    /\ runs' = [runs EXCEPT ![j].view[i] = disk[Target(j)][i]]
    /\ UNCHANGED <<world, desired, automatic_jobs, changed, watcher, producer,
                   gate, jobs, store>>

ReadAll(j) == \A i \in Inputs : runs[j].view[i] # Unread

(* verify_checkpoint found the stored checkpoint current or not: it is of   *)
(* the content on disk and of the installed workers, and then of the        *)
(* published revision.                                                      *)
checkpoint_verified(j) ==
    /\ runs[j].pc = "checkpoint" /\ ReadAll(j)
    /\ IF checkpoint[Target(j)] # [snapshot |-> runs[j].view,
                                   catalog |-> catalog]
       THEN Refresh(j, "first")
       ELSE IF ~Current(j) THEN Return(j, "error")
       ELSE IF published[Target(j)] = runs[j].view THEN Return(j, "ok")
       ELSE Refresh(j, "first")
    /\ UNCHANGED <<world, desired, automatic_jobs, changed, watcher, producer, jobs, store>>

(* store_checkpoint: a failure to write the file is only logged.            *)
store_checkpoint(j) ==
    \/ /\ checkpoint' = [checkpoint EXCEPT ![Target(j)] =
                           [snapshot |-> runs[j].view, catalog |-> catalog]]
       /\ UNCHANGED faults
    \/ Fault /\ UNCHANGED checkpoint

enrichment_inputs_complete(w) == inputs_for[w] = catalog

(* Mutated form of refreshed: a matching view is enough to end the run.     *)
MutantMatchViewOnly(j) ==
    /\ runs[j].pc = "first" /\ ReadAll(j) /\ Current(j)
    /\ \/ /\ runs[j].view = published[Target(j)]
          /\ Return(j, "ok")
          /\ store_checkpoint(j)
       \/ /\ runs[j].view # published[Target(j)]
          /\ runs' = [runs EXCEPT ![j].pc = "analyze",
                                  ![j].prepared = runs[j].view]
          /\ UNCHANGED <<faults, checkpoint, gate>>
    /\ UNCHANGED <<disk, events, edits, manuals, seen, desired, automatic_jobs,
                   changed, watcher, producer, jobs, published, inputs_for, catalog>>

(* The inventory is refreshed: the run ends here when the view matches the  *)
(* published one and its enrichment inputs are complete.                    *)
refreshed(j) ==
    /\ runs[j].pc = "first" /\ ReadAll(j)
    /\ \/ /\ ~Current(j)
          /\ Return(j, "error")
          /\ UNCHANGED <<faults, checkpoint>>
       \/ /\ Current(j)
          /\ runs[j].view = published[Target(j)]
          /\ enrichment_inputs_complete(Target(j))
          /\ Return(j, "ok")
          /\ store_checkpoint(j)
       \/ /\ Current(j)
          /\ ~(/\ runs[j].view = published[Target(j)]
               /\ enrichment_inputs_complete(Target(j)))
          /\ runs' = [runs EXCEPT ![j].pc = "analyze",
                                  ![j].prepared = runs[j].view]
          /\ UNCHANGED <<faults, checkpoint, gate>>
    /\ UNCHANGED <<disk, events, edits, manuals, seen, desired, automatic_jobs,
                   changed, watcher, producer, jobs, published, inputs_for, catalog>>

(* Analysis of the prepared snapshot, between two generation checks.        *)
analyzed(j) ==
    /\ runs[j].pc = "analyze"
    /\ IF Current(j) THEN Refresh(j, "second") ELSE Return(j, "error")
    /\ UNCHANGED <<world, desired, automatic_jobs, changed, watcher, producer, jobs, store>>

(* The second pass must find the analysed content.  When it does not, the   *)
(* workspace is marked and the analysis discarded.                          *)
reverified(j) ==
    /\ runs[j].pc = "second" /\ ReadAll(j)
    /\ \/ /\ ~Current(j)
          /\ Return(j, "error")
          /\ UNCHANGED <<desired, changed>>
       \/ /\ Current(j) /\ runs[j].view # runs[j].prepared
          /\ dormant' = [dormant EXCEPT ![Target(j)] = 0]
          /\ Bump({Target(j)}, {All})
          /\ changed' = TRUE
          /\ Return(j, "error")
       \/ /\ Current(j) /\ runs[j].view = runs[j].prepared
          /\ Goto(j, "publish")
          /\ UNCHANGED <<desired, changed, gate>>
    /\ UNCHANGED <<world, automatic_jobs, watcher, producer, jobs, store>>

(* The publication commits, with the enrichment inputs of the new view.     *)
publish_verified(j) ==
    /\ runs[j].pc = "publish"
    /\ published' = [published EXCEPT ![Target(j)] = runs[j].prepared]
    /\ inputs_for' = [inputs_for EXCEPT ![Target(j)] = catalog]
    /\ Goto(j, "inputs")
    /\ UNCHANGED <<world, desired, automatic_jobs, changed, watcher, producer,
                   gate, jobs, checkpoint, catalog>>

(* The enrichment inputs are written once more, then the checkpoint.        *)
ensure_enrichment_inputs(j) ==
    /\ runs[j].pc = "inputs"
    /\ inputs_for' = [inputs_for EXCEPT ![Target(j)] = catalog]
    /\ store_checkpoint(j)
    /\ Return(j, "ok")
    /\ UNCHANGED <<disk, events, edits, manuals, seen, desired, automatic_jobs,
                   changed, watcher, producer, jobs, published, catalog>>

(* Reading, analysing, publishing or storing the enrichment inputs fails.   *)
attempt_error(j) ==
    /\ Fault
    /\ runs[j].pc \in {"checkpoint", "first", "analyze", "second", "publish",
                      "inputs"}
    /\ Return(j, "error")
    /\ UNCHANGED <<disk, events, edits, manuals, seen, desired, automatic_jobs,
                   changed, watcher, producer, jobs, store>>

(* The attempt is over but for its acknowledgement.                         *)
Finish(j, result) ==
    runs' = [runs EXCEPT ![j] = [NotRunning EXCEPT !.pc = "ack",
                                                   !.result = result]]

(* The end of run_automatic_workspace_job and run_manual_workspace.  An     *)
(* automatic run that failed under another generation is superseded.        *)
settle(j) ==
    /\ runs[j].pc = "settle"
    /\ \/ /\ runs[j].result = "ok"
          /\ complete_generation(Target(j), runs[j].generation)
          /\ Finish(j, "ok")
       \/ /\ runs[j].result = "superseded"
          /\ Finish(j, "superseded")
          /\ UNCHANGED <<desired, changed>>
       \/ /\ runs[j].result = "error"
          /\ IF jobs[j].trigger = "automatic" /\ ~Current(j)
             THEN Finish(j, "superseded")
             ELSE Goto(j, "failed")
          /\ UNCHANGED <<desired, changed>>
    /\ UNCHANGED <<world, automatic_jobs, watcher, producer, gate, jobs, store>>

(* automatic_job_failed: the last attempt puts its generation to rest.      *)
automatic_job_failed(j) ==
    /\ runs[j].pc = "failed"
    /\ dormant' = IF /\ jobs[j].trigger = "automatic"
                     /\ jobs[j].attempts + 1 >= MAX_ATTEMPTS
                  THEN [dormant EXCEPT ![Target(j)] = jobs[j].generation]
                  ELSE dormant
    /\ Finish(j, "error")
    /\ UNCHANGED <<world, generations, dirty, automatic_jobs, changed, watcher,
                   producer, gate, jobs, store>>

(* The run was successful but its enrichment jobs could not be enqueued.    *)
enrichment_enqueue_error(j) ==
    /\ Fault
    /\ runs[j].pc = "ack" /\ runs[j].result = "ok"
    /\ runs' = [runs EXCEPT ![j].result = "error"]
    /\ UNCHANGED <<disk, events, edits, manuals, seen, desired, automatic_jobs,
                   changed, watcher, producer, gate, jobs, store>>

(* apalis writes the result of the attempt.                                 *)
acknowledge(j) ==
    /\ runs[j].pc = "ack"
    /\ jobs' = [jobs EXCEPT ![j] =
                  IF runs[j].result = "error" THEN Recovered(@)
                  ELSE [@ EXCEPT !.status = "Done"]]
    /\ Goto(j, "acknowledged")
    /\ UNCHANGED <<world, desired, automatic_jobs, changed, watcher, producer,
                   gate, store>>

(* Mutated form of automatic_job_finished: the producer is not notified.    *)
MutantFinishSilently(j) ==
    /\ runs[j].pc = "acknowledged"
    /\ jobs' = [jobs EXCEPT ![j] = IF IsTerminal(@) THEN Free ELSE @]
    /\ runs' = [runs EXCEPT ![j] = NotRunning]
    /\ UNCHANGED <<world, desired, automatic_jobs, changed, watcher, producer,
                   gate, store>>

(* AutomaticIndexAcknowledgement, and automatic_job_finished once the job   *)
(* is over.  A job that is over gives its identity back.                    *)
automatic_job_finished(j) ==
    /\ runs[j].pc = "acknowledged"
    /\ IF jobs[j].trigger = "automatic" /\ IsTerminal(jobs[j])
       THEN /\ automatic_jobs' =
                 [automatic_jobs EXCEPT ![Target(j)] =
                    IF @ = jobs[j].generation THEN 0 ELSE @]
            /\ changed' = TRUE
       ELSE UNCHANGED <<automatic_jobs, changed>>
    /\ jobs' = [jobs EXCEPT ![j] = IF IsTerminal(@) THEN Free ELSE @]
    /\ runs' = [runs EXCEPT ![j] = NotRunning]
    /\ UNCHANGED <<world, desired, watcher, producer, gate, store>>

-----------------------------------------------------------------------------
(* The process ends, at any point, and is started again, perhaps with one   *)
(* more enrichment worker installed: recover, then mark for every           *)
(* registered workspace.  Events in flight are lost.                        *)
restart ==
    /\ Fault
    /\ events' = [w \in Workspaces |-> {}]
    /\ generations' = [w \in Workspaces |-> 1]
    /\ dirty' = [w \in Workspaces |-> {All}]
    /\ dormant' = [w \in Workspaces |-> 0]
    /\ automatic_jobs' = [w \in Workspaces |-> 0]
    /\ changed' = TRUE
    /\ watcher' = {}
    /\ producer' = Waiting
    /\ gate' = NoJob
    /\ runs' = [j \in Jobs |-> NotRunning]
    /\ jobs' = [j \in Jobs |-> LET job == Recovered(jobs[j])
                               IN IF IsTerminal(job) THEN Free ELSE job]
    /\ \/ UNCHANGED catalog
       \/ catalog <= MaxUpgrades /\ catalog' = catalog + 1
    /\ UNCHANGED <<disk, edits, manuals, seen, published, inputs_for, checkpoint>>

Init ==
    /\ disk = [w \in Workspaces |-> [i \in Inputs |-> 1]]
    /\ events = [w \in Workspaces |-> {}]
    /\ edits = 0 /\ manuals = 0 /\ faults = 0
    /\ seen = [w \in Workspaces |-> {disk[w]}]
    /\ generations = [w \in Workspaces |-> 1]
    /\ dirty = [w \in Workspaces |-> {All}]
    /\ dormant = [w \in Workspaces |-> 0]
    /\ automatic_jobs = [w \in Workspaces |-> 0]
    /\ changed = TRUE
    /\ watcher = {}
    /\ producer = Waiting
    /\ gate = NoJob
    /\ runs = [j \in Jobs |-> NotRunning]
    /\ jobs = [j \in Jobs |-> Free]
    /\ published = [w \in Workspaces |-> Nothing]
    /\ inputs_for = [w \in Workspaces |-> 0]
    /\ checkpoint = [w \in Workspaces |-> [snapshot |-> Nothing, catalog |-> 0]]
    /\ catalog = 1

Watching ==
    \/ \E w \in Workspaces, i \in Inputs : add_event(w, i)
    \/ reconcile_after_watcher_error
    \/ watcher_wakes_producer

Producing ==
    \/ producer_woken \/ producer_coalesces \/ enqueue_dirty
    \/ \E w \in Workspaces : enqueue_workspace(w)
    \/ drop_head_only_batch \/ enqueue_automatic_index

Running(j) ==
    \/ start_attempt(j) \/ check_generation(j) \/ begin(j)
    \/ \E i \in Inputs : read_input(j, i)
    \/ checkpoint_verified(j) \/ refreshed(j) \/ analyzed(j) \/ reverified(j)
    \/ publish_verified(j) \/ ensure_enrichment_inputs(j) \/ attempt_error(j)
    \/ settle(j) \/ automatic_job_failed(j)
    \/ enrichment_enqueue_error(j) \/ acknowledge(j) \/ automatic_job_finished(j)

Next ==
    \/ \E w \in Workspaces, i \in Editable : edit(w, i)
    \/ \E w \in Workspaces : enqueue_manual_index(w)
    \/ Watching
    \/ Producing
    \/ \E j \in Jobs : Running(j)
    \/ restart

Spec == Init /\ [][Next]_vars

(* The watcher thread, the producer task and every attempt the worker       *)
(* started make progress; edits, requests and crashes need not happen.      *)
Fairness ==
    /\ WF_vars(Watching)
    /\ WF_vars(Producing)
    /\ \A j \in Jobs : WF_vars(Running(j))

FairSpec == Spec /\ Fairness

-----------------------------------------------------------------------------
Snapshots == [Inputs -> Nat]

Intents == SUBSET (Inputs \cup {All})

ProducerState ==
    [pc : {"wait", "batch", "scan", "noop", "enqueue"},
     todo : SUBSET Workspaces, workspace : Workspaces \cup {NoJob},
     snapshot : [Workspaces -> Nat], intents : Intents]

RunState ==
    [pc : {"idle", "check", "begin", "checkpoint", "first", "analyze", "second",
           "publish", "inputs", "settle", "failed", "ack", "acknowledged"},
     generation : Nat, view : Snapshots, prepared : Snapshots,
     result : {"none", "ok", "error", "superseded"}]

JobRow ==
    [status : {"Free", "Pending", "Running", "Failed", "Done", "Killed"},
     trigger : {"none", "automatic", "manual"},
     workspace : Workspaces \cup {NoJob},
     generation : Nat, intents : Intents, attempts : 0..MAX_ATTEMPTS]

WorldTypeOK ==
    /\ disk \in [Workspaces -> Snapshots]
    /\ events \in [Workspaces -> SUBSET Inputs]
    /\ edits \in 0..MaxEdits
    /\ manuals \in 0..MaxManual
    /\ faults \in 0..MaxFaults
    /\ seen \in [Workspaces -> SUBSET Snapshots]

DaemonTypeOK ==
    /\ generations \in [Workspaces -> Nat]
    /\ dirty \in [Workspaces -> Intents]
    /\ dormant \in [Workspaces -> Nat]
    /\ automatic_jobs \in [Workspaces -> Nat]
    /\ changed \in BOOLEAN
    /\ watcher \in SUBSET Workspaces
    /\ producer \in ProducerState
    /\ gate \in Jobs \cup {NoJob}
    /\ runs \in [Jobs -> RunState]

StoreTypeOK ==
    /\ jobs \in [Jobs -> JobRow]
    /\ published \in [Workspaces -> Snapshots]
    /\ inputs_for \in [Workspaces -> Nat]
    /\ checkpoint \in [Workspaces -> [snapshot : Snapshots, catalog : Nat]]
    /\ catalog \in Nat

(* Every variable has its type; in particular no job is attempted more than *)
(* MAX_ATTEMPTS times, crashes included.                                    *)
TypeOK == WorldTypeOK /\ DaemonTypeOK /\ StoreTypeOK

(* query_metadata: what a query reports of its workspace.                   *)
ActiveOn(w) == gate # NoJob /\ Target(gate) = w

stale(w) == ActiveOn(w) \/ generations[w] # 0

(* A query that does not report staleness was answered from the content     *)
(* that is on disk, up to changes the watcher has not delivered yet:        *)
(* complete_generation never drops a change no run has read.                *)
HonestFreshness ==
    \A w \in Workspaces :
        ~stale(w) /\ events[w] = {} => published[w] = disk[w]

(* The published revision is of a content the workspace really had at one   *)
(* moment, although inputs are read one by one while others are edited: the *)
(* second pass of index_workspace_through_port rejects torn snapshots.      *)
PublishedExisted ==
    \A w \in Workspaces : published[w] \in seen[w] \cup {Nothing}

(* Concurrent runs never publish older content over newer content: the gate *)
(* is held from the first read to the publication.                          *)
PublishedNeverRegresses ==
    [][\A w \in Workspaces, i \in Inputs : published'[w][i] >= published[w][i]]_vars

(* The checkpoint never vouches for a publication whose enrichment inputs   *)
(* are missing, whichever workers are installed when the daemon restarts    *)
(* and wherever a run fails or the process dies: the fast path of           *)
(* index_workspace_through_port would skip them for ever.                   *)
CheckpointIsComplete ==
    \A w \in Workspaces :
        /\ checkpoint[w] = [snapshot |-> published[w], catalog |-> catalog]
        /\ published[w] # Nothing
        => enrichment_inputs_complete(w)

(* The workspace is indexed and its enrichment inputs are stored, or its    *)
(* last generation exhausted its attempts and rests.                        *)
Indexed(w) ==
    \/ published[w] = disk[w] /\ enrichment_inputs_complete(w) /\ ~stale(w)
    \/ generations[w] # 0 /\ dormant[w] = generations[w]

(* Every change is eventually indexed, whatever failures, supersessions and *)
(* crashes happen on the way: no wake-up of the producer is lost between    *)
(* add_event, complete_generation, automatic_job_finished and enqueue_dirty.*)
(* A manual run may complete a generation whose events it did not read,     *)
(* which HonestFreshness is about, so nothing is promised once there is one.*)
EventuallyIndexed == \A w \in Workspaces : <>[](manuals = 0 => Indexed(w))
=============================================================================
