---------------------------- MODULE EnrichmentJobs ----------------------------
(***************************************************************************)
(* Enrichment of one repository of one workspace by one analyzer worker.   *)
(*                                                                         *)
(* An index run publishes the baseline revision, plans the enrichment that *)
(* is not current (automatic_enrichment_jobs), enqueues it                 *)
(* (enqueue_automatic_enrichment) and is acknowledged.  The enrichment     *)
(* worker runs one durable job at a time: it waits for the index jobs the  *)
(* job depends on, reads sources and baseline, runs the analyzer and       *)
(* publishes the result if the inputs are still the current ones.          *)
(*                                                                         *)
(* A content is what it means to the analyzer and how it is laid out: the  *)
(* revision input identifies the whole content, the enrichment input only  *)
(* the meaning, so that an edit of a comment changes one and not the       *)
(* other.  An index run is abstracted to the moment it publishes;          *)
(* IndexScheduler has its details.                                         *)
(***************************************************************************)
EXTENDS Naturals, FiniteSets

CONSTANTS
    Meanings,       \* enrichment input fingerprints
    Layouts,        \* what else a content consists of
    Inactive,       \* contents the analyzer does not apply to
    IndexJobs,      \* identities of index jobs: a bound on their number
    Rows,           \* identities available for enrichment jobs
    None,           \* no value
    MAX_ATTEMPTS,   \* 5 in the code
    MaxEdits,       \* bound on edits
    MaxManual,      \* bound on manual enrichment requests
    MaxIncidents    \* bound on failing attempts, failing index runs and crashes

Contents == [meaning : Meanings, layout : Layouts]

ASSUME EnrichmentJobsAssumption ==
    /\ Inactive \subseteq Contents
    /\ None \notin Meanings \cup IndexJobs \cup Rows
    /\ None \notin Contents
    /\ None \notin [input : Meanings, version : Nat, sources : Contents,
                    baseline : Contents]
    /\ MAX_ATTEMPTS \in Nat \ {0}
    /\ MaxEdits \in Nat /\ MaxManual \in Nat /\ MaxIncidents \in Nat

VARIABLES
    disk,           \* content of the repository
    edits, manuals, failures, index_failures, restarts,  \* bounded counters
    unindexed,      \* a change no index run has read
    version,        \* version of the installed worker
    revision,       \* content of the published baseline, or None
    selection,      \* the selected enrichment, or None
    index,          \* index[i]: index job i
    admission,      \* holder of the admission lock, or None
    rows,           \* rows[e]: row of the enrichment queue
    request,        \* the manual enrichment request being handled
    worker,         \* the attempt in progress
    stopping        \* the scheduler was told to stop

counters == <<edits, manuals, failures, index_failures, restarts>>
store == <<revision, selection>>
repository == <<disk, unindexed, version>>
all_but_index == <<repository, counters, store, admission, rows, request,
                   worker, stopping>>
all_but_worker == <<repository, counters, store, index, admission, rows,
                    request, stopping>>
vars == <<repository, counters, store, index, admission, rows, request, worker,
          stopping>>

NoIndexJob == [pc |-> "free", trigger |-> "none", fingerprint |-> None,
               version |-> 0, obsolete |-> {}]

NoRow == [status |-> "Free", trigger |-> "none", fingerprint |-> None,
          version |-> 0, prerequisites |-> {}, attempts |-> 0]

NoRequest == [pc |-> "idle", prerequisites |-> {}, fingerprint |-> None,
              current |-> FALSE]

Idle == [pc |-> "idle", row |-> None, fingerprint |-> None, snapshot |-> None,
         baseline |-> None, inputs |-> None]

(* The enrichment input of the published revision.                          *)
revision_enrichment_input ==
    IF revision = None THEN None ELSE revision.meaning

enrichment_is_current ==
    /\ selection # None
    /\ selection.version = version
    /\ selection.input = revision_enrichment_input

IsActive(row) ==
    \/ row.status \in {"Pending", "Running"}
    \/ row.status = "Failed" /\ row.attempts < MAX_ATTEMPTS

Active == {e \in Rows : IsActive(rows[e])}

(* One more failure or crash is within the bound.                           *)
Incident == failures + index_failures + restarts < MaxIncidents

index_active == {i \in IndexJobs : index[i].pc \notin {"free", "done"}}

-----------------------------------------------------------------------------
(***************************************************************************)
(* Edits and index runs.                                                   *)
(***************************************************************************)
edit(c) ==
    /\ edits < MaxEdits
    /\ edits' = edits + 1
    /\ c # disk
    /\ disk' = c
    /\ unindexed' = TRUE
    /\ UNCHANGED <<manuals, failures, index_failures, restarts, version, store,
                   index, admission, rows, request, worker, stopping>>

(* A new row of the index queue; automatic ones one at a time.              *)
push_index_job(i, trigger) ==
    /\ index[i] = NoIndexJob
    /\ i = CHOOSE k \in IndexJobs : index[k] = NoIndexJob
    /\ index' = [index EXCEPT ![i] = [NoIndexJob EXCEPT !.pc = "pending",
                                                        !.trigger = trigger]]

enqueue_automatic_index(i) ==
    /\ unindexed /\ ~stopping
    /\ \A k \in index_active : index[k].trigger # "automatic"
    /\ push_index_job(i, "automatic")
    /\ UNCHANGED all_but_index

(* The run publishes what is on disk; the selected enrichment is carried    *)
(* forward.                                                                 *)
index_run(i) ==
    /\ index[i].pc = "pending" /\ ~stopping
    /\ index[i].trigger = "manual" \/ unindexed
    /\ revision' = disk
    /\ unindexed' = FALSE
    /\ index' = [index EXCEPT ![i].pc = "plan"]
    /\ UNCHANGED <<disk, counters, version, selection, admission, rows,
                   request, worker, stopping>>

(* The row of index job i is over.                                          *)
IndexDone(i) == index' = [index EXCEPT ![i] = [NoIndexJob EXCEPT !.pc = "done"]]

(* Another run has completed the generation of an automatic job.            *)
index_superseded(i) ==
    /\ index[i].pc = "pending" /\ index[i].trigger = "automatic" /\ ~unindexed
    /\ IndexDone(i)
    /\ UNCHANGED all_but_index

(* automatic_enrichment_jobs: nothing to do when the enrichment is current. *)
automatic_enrichment_jobs(i) ==
    /\ index[i].pc = "plan"
    /\ index' = [index EXCEPT ![i].pc = IF enrichment_is_current
                                        THEN "ack" ELSE "fingerprint"]
    /\ UNCHANGED all_but_index

(* The fingerprint of the job is read after that, in a query of its own.    *)
plan_fingerprint(i) ==
    /\ index[i].pc = "fingerprint"
    /\ index' = [index EXCEPT ![i] =
                    [@ EXCEPT !.pc = "enqueue",
                              !.fingerprint = revision_enrichment_input,
                              !.version = version]]
    /\ UNCHANGED all_but_index

(* Mutated form of Covers: only jobs that wait for the index job count.     *)
MutantCoversWaitingOnly(row, i) ==
    /\ row.version = index[i].version
    /\ row.trigger = "manual" /\ row.fingerprint = None
    /\ i \in row.prerequisites

(* The row does the work of the automatic job that index job i enqueues.    *)
Covers(row, i) ==
    /\ row.version = index[i].version
    /\ \/ row.fingerprint = index[i].fingerprint
       \/ /\ row.trigger = "manual" /\ row.fingerprint = None
          /\ i \in row.prerequisites

(* Mutated form of select_active_enrichment: running rows do not count.     *)
MutantSelectQueuedOnly(i) ==
    /\ index[i].pc = "enqueue" /\ admission = None /\ ~stopping
    /\ LET queued == {e \in Active : rows[e].status # "Running"}
       IN IF \E e \in queued : Covers(rows[e], i)
          THEN /\ index' = [index EXCEPT ![i].pc = "ack"]
               /\ UNCHANGED admission
          ELSE /\ index' = [index EXCEPT ![i] = [@ EXCEPT !.pc = "push",
                                                          !.obsolete = queued]]
               /\ admission' = i
    /\ UNCHANGED <<repository, counters, store, rows, request, worker,
                   stopping>>

(* enqueue_automatic_enrichment, under the admission lock: first the active *)
(* rows are selected.  One that does the work is enough; the others become  *)
(* obsolete unless they are running.                                        *)
select_active_enrichment(i) ==
    /\ index[i].pc = "enqueue" /\ admission = None /\ ~stopping
    /\ IF \E e \in Active : Covers(rows[e], i)
       THEN /\ index' = [index EXCEPT ![i].pc = "ack"]
            /\ UNCHANGED admission
       ELSE /\ index' = [index EXCEPT ![i] =
                            [@ EXCEPT !.pc = "push",
                                      !.obsolete = {e \in Active :
                                                      rows[e].status # "Running"}]]
            /\ admission' = i
    /\ UNCHANGED <<repository, counters, store, rows, request, worker,
                   stopping>>

(* Obsolete rows are then marked Done one by one, started meanwhile or not. *)
supersede_obsolete(i, e) ==
    /\ index[i].pc = "push" /\ e \in index[i].obsolete
    /\ index' = [index EXCEPT ![i].obsolete = @ \ {e}]
    /\ rows' = [rows EXCEPT ![e] = IF worker.row = e
                                   THEN [@ EXCEPT !.status = "Done"] ELSE NoRow]
    /\ UNCHANGED <<repository, counters, store, admission, request, worker,
                   stopping>>

push_enrichment_job(e, trigger, fingerprint, prerequisites, expected) ==
    /\ rows[e] = NoRow
    /\ e = CHOOSE f \in Rows : rows[f] = NoRow
    /\ rows' = [rows EXCEPT ![e] =
                  [status |-> "Pending", trigger |-> trigger,
                   fingerprint |-> fingerprint, version |-> expected,
                   prerequisites |-> prerequisites, attempts |-> 0]]

enqueue_automatic_enrichment(i) ==
    /\ index[i].pc = "push" /\ index[i].obsolete = {}
    /\ \E e \in Rows : push_enrichment_job(e, "automatic", index[i].fingerprint,
                                           {i}, index[i].version)
    /\ index' = [index EXCEPT ![i].pc = "ack"]
    /\ admission' = None
    /\ UNCHANGED <<repository, counters, store, request, worker, stopping>>

(* The last attempt of an index job has failed.                             *)
index_failed(i) ==
    /\ index[i].pc = "pending" /\ ~stopping
    /\ Incident
    /\ index_failures' = index_failures + 1
    /\ IndexDone(i)
    /\ UNCHANGED <<repository, edits, manuals, failures, restarts, store,
                   admission, rows, request, worker, stopping>>

(* Planning or enqueueing fails, or the queue no longer admits jobs: the    *)
(* index attempt has failed and is retried.                                 *)
enqueue_failed(i) ==
    /\ index[i].pc \in {"plan", "fingerprint", "enqueue", "push"}
    /\ \/ /\ Incident
          /\ index_failures' = index_failures + 1
       \/ index[i].pc = "enqueue" /\ stopping /\ UNCHANGED index_failures
    /\ index' = [index EXCEPT ![i] = [NoIndexJob EXCEPT !.pc = "pending",
                                        !.trigger = index[i].trigger]]
    /\ admission' = IF admission = i THEN None ELSE admission
    /\ UNCHANGED <<repository, edits, manuals, failures, restarts, store, rows,
                   request, worker, stopping>>

acknowledge_index(i) ==
    /\ index[i].pc = "ack"
    /\ IndexDone(i)
    /\ UNCHANGED all_but_index

-----------------------------------------------------------------------------
(***************************************************************************)
(* submit_enrichment: a manual request, one at a time.                     *)
(***************************************************************************)
overlapping_index_jobs ==
    /\ request.pc = "idle" /\ manuals < MaxManual
    /\ manuals' = manuals + 1
    /\ request' = [NoRequest EXCEPT !.pc = "plan",
                                    !.prerequisites = index_active]
    /\ UNCHANGED <<repository, edits, failures, index_failures, restarts,
                   store, index, admission, rows, worker, stopping>>

(* The target is planned if the analyzer applies to the sources.            *)
manual_enrichment_targets ==
    /\ request.pc = "plan"
    /\ request' =
         IF disk \in Inactive THEN NoRequest
         ELSE [request EXCEPT
                 !.pc = IF revision = None /\ request.prerequisites = {}
                        THEN "index" ELSE "enqueue",
                 !.fingerprint = revision_enrichment_input,
                 !.current = enrichment_is_current]
    /\ UNCHANGED <<repository, counters, store, index, admission, rows, worker,
                   stopping>>

(* Without a baseline and without an index job that will provide one, an    *)
(* index job is submitted first.                                            *)
submit_index_prerequisite(i) ==
    /\ request.pc = "index" /\ admission = None /\ ~stopping
    /\ push_index_job(i, "manual")
    /\ request' = [request EXCEPT !.pc = "enqueue", !.prerequisites = {i}]
    /\ UNCHANGED <<repository, counters, store, admission, rows, worker,
                   stopping>>

(* A job that depends on index jobs leaves its fingerprint open; nothing is *)
(* added when the enrichment is current or an equivalent job is active.     *)
enqueue_manual_enrichment ==
    /\ request.pc = "enqueue" /\ admission = None /\ ~stopping
    /\ LET prerequisites == request.prerequisites
           fingerprint == IF prerequisites = {} THEN request.fingerprint
                          ELSE None
           enrichment_jobs_are_equivalent(row) ==
               /\ row.version = version
               /\ row.fingerprint = fingerprint
               /\ row.prerequisites = prerequisites
       IN IF \/ prerequisites = {} /\ request.current
             \/ \E e \in Active : enrichment_jobs_are_equivalent(rows[e])
          THEN UNCHANGED rows
          ELSE \E e \in Rows : push_enrichment_job(e, "manual", fingerprint,
                                                   prerequisites, version)
    /\ request' = NoRequest
    /\ UNCHANGED <<repository, counters, store, index, admission, worker,
                   stopping>>

(* Job admission is closed: the request fails.                              *)
submission_refused ==
    /\ request.pc \in {"index", "enqueue"} /\ admission = None /\ stopping
    /\ request' = NoRequest
    /\ UNCHANGED <<repository, counters, store, index, admission, rows, worker,
                   stopping>>

-----------------------------------------------------------------------------
(***************************************************************************)
(* The enrichment worker: run_enrichment_job.                              *)
(***************************************************************************)
Goto(pc) == worker' = [worker EXCEPT !.pc = pc]

(* The attempt is over and waits to be acknowledged.                        *)
Superseded == Goto("done")

start_attempt(e) ==
    /\ worker = Idle /\ ~stopping
    /\ e \in Active /\ rows[e].status # "Running"
    /\ rows' = [rows EXCEPT ![e].status = "Running"]
    /\ worker' = [Idle EXCEPT !.pc = "await", !.row = e,
                              !.fingerprint = rows[e].fingerprint]
    /\ UNCHANGED <<repository, counters, store, index, admission, request,
                   stopping>>

(* await_prerequisites: a stop ends the job as superseded.                  *)
await_prerequisites ==
    /\ worker.pc = "await"
    /\ \/ stopping /\ Superseded
       \/ ~stopping /\ rows[worker.row].prerequisites \cap index_active = {}
          /\ Goto("snapshot")
    /\ UNCHANGED all_but_worker

(* The sources are read, and the worker must be the one the job expects.    *)
read_sources ==
    /\ worker.pc = "snapshot"
    /\ IF rows[worker.row].version # version THEN Superseded
       ELSE worker' = [worker EXCEPT !.pc = IF worker.fingerprint = None
                                            THEN "fingerprint" ELSE "check",
                                     !.snapshot = disk]
    /\ UNCHANGED all_but_worker

(* A manual job without a fingerprint takes the published one.              *)
read_fingerprint ==
    /\ worker.pc = "fingerprint"
    /\ IF revision = None THEN Goto("error")
       ELSE worker' = [worker EXCEPT !.pc = "check",
                                     !.fingerprint = revision_enrichment_input]
    /\ UNCHANGED all_but_worker

(* enrichment_snapshot is three queries: the fingerprint, the baseline and  *)
(* the revision inputs.                                                     *)
check_fingerprint ==
    /\ worker.pc = "check"
    /\ IF revision_enrichment_input # worker.fingerprint THEN Superseded
       ELSE Goto("baseline")
    /\ UNCHANGED all_but_worker

read_baseline ==
    /\ worker.pc = "baseline"
    /\ worker' = [worker EXCEPT !.pc = "inputs", !.baseline = revision]
    /\ UNCHANGED all_but_worker

(* Mutated form of read_inputs: the sources are not compared.               *)
MutantTrustSources ==
    /\ worker.pc = "inputs"
    /\ worker' = [worker EXCEPT !.pc = "current", !.inputs = revision]
    /\ UNCHANGED all_but_worker

read_inputs ==
    /\ worker.pc = "inputs"
    /\ IF worker.snapshot # revision THEN Superseded
       ELSE worker' = [worker EXCEPT !.pc = "current", !.inputs = revision]
    /\ UNCHANGED all_but_worker

(* A current enrichment needs no work, an analyzer that does not apply      *)
(* contributes nothing.                                                     *)
check_current ==
    /\ worker.pc = "current"
    /\ Goto(IF enrichment_is_current THEN "done"
            ELSE IF worker.snapshot \in Inactive THEN "publish"
            ELSE "enrich")
    /\ UNCHANGED all_but_worker

(* The analyzer has run; the sources must not have changed meanwhile.       *)
enriched ==
    /\ worker.pc = "enrich"
    /\ IF disk # worker.inputs THEN Superseded ELSE Goto("publish")
    /\ UNCHANGED all_but_worker

(* One transaction compares the fingerprint and selects the contribution;   *)
(* selecting what is selected already, by the hash of its content, changes  *)
(* nothing.                                                                 *)
publish_enrichment ==
    /\ worker.pc = "publish"
    /\ IF revision_enrichment_input # worker.fingerprint
       THEN UNCHANGED selection
       ELSE selection' = [input |-> worker.fingerprint, version |-> version,
                          sources |-> worker.snapshot,
                          baseline |-> worker.baseline]
    /\ Goto("done")
    /\ UNCHANGED <<repository, counters, revision, index, admission, rows,
                   request, stopping>>

(* The analyzer or a query fails, or the daemon stops while it runs.        *)
attempt_failed ==
    /\ worker.pc \notin {"idle", "await", "done", "error"}
    /\ \/ Incident /\ failures' = failures + 1
       \/ worker.pc = "enrich" /\ stopping /\ UNCHANGED failures
    /\ Goto("error")
    /\ UNCHANGED <<repository, edits, manuals, index_failures, restarts, store,
                   index, admission, rows, request, stopping>>

(* Mutated form of Failed: attempts are not limited.                        *)
MutantFailedForever(row) == [row EXCEPT !.status = "Failed", !.attempts = @ + 1]

(* One more attempt of the row has failed.                                  *)
Failed(row) ==
    IF row.attempts + 1 >= MAX_ATTEMPTS THEN NoRow
    ELSE [row EXCEPT !.status = "Failed", !.attempts = @ + 1]

(* apalis writes the result of the attempt; a row that is over is free.     *)
acknowledge ==
    /\ worker.pc \in {"done", "error"}
    /\ rows' = [rows EXCEPT ![worker.row] = IF worker.pc = "done" THEN NoRow
                                            ELSE Failed(@)]
    /\ worker' = Idle
    /\ UNCHANGED <<repository, counters, store, index, admission, request,
                   stopping>>

-----------------------------------------------------------------------------
(***************************************************************************)
(* Stop and restart.                                                       *)
(***************************************************************************)
stop ==
    /\ ~stopping
    /\ Incident
    /\ stopping' = TRUE
    /\ UNCHANGED <<repository, counters, store, index, admission, rows,
                   request, worker>>

(* Mutated form of recover: rows left Running are not looked at.            *)
MutantRecoverReservationsOnly ==
    [e \in Rows |-> IF rows[e].status = "Done" THEN NoRow ELSE rows[e]]

(* The attempts that were interrupted have failed.                          *)
recover ==
    [e \in Rows |-> CASE rows[e].status = "Running" -> Failed(rows[e])
                      [] rows[e].status = "Done" -> NoRow
                      [] OTHER -> rows[e]]

(* The process is gone, whether or not it was stopped first, and is started *)
(* again, perhaps with another version of the worker: interrupted attempts  *)
(* have failed, and every workspace is to be indexed.                       *)
restart ==
    /\ Incident
    /\ restarts' = restarts + 1
    /\ stopping' = FALSE
    /\ version' \in {version, version + 1}
    /\ unindexed' = TRUE
    /\ index' = [i \in IndexJobs |->
                   IF i \notin index_active THEN index[i]
                   ELSE [NoIndexJob EXCEPT !.pc = "pending",
                                           !.trigger = index[i].trigger]]
    /\ admission' = None
    /\ rows' = recover
    /\ request' = NoRequest
    /\ worker' = Idle
    /\ UNCHANGED <<disk, edits, manuals, failures, index_failures, store>>

Init ==
    /\ disk \in Contents
    /\ edits = 0 /\ manuals = 0 /\ failures = 0 /\ index_failures = 0
    /\ restarts = 0
    /\ unindexed = TRUE
    /\ version = 1
    /\ revision = None
    /\ selection = None
    /\ index = [i \in IndexJobs |-> NoIndexJob]
    /\ admission = None
    /\ rows = [e \in Rows |-> NoRow]
    /\ request = NoRequest
    /\ worker = Idle
    /\ stopping = FALSE

Indexing(i) ==
    \/ enqueue_automatic_index(i) \/ index_run(i) \/ index_superseded(i)
    \/ automatic_enrichment_jobs(i) \/ plan_fingerprint(i)
    \/ select_active_enrichment(i)
    \/ \E e \in Rows : supersede_obsolete(i, e)
    \/ enqueue_automatic_enrichment(i)
    \/ index_failed(i) \/ enqueue_failed(i)
    \/ acknowledge_index(i)

Submitting ==
    \/ overlapping_index_jobs \/ manual_enrichment_targets
    \/ \E i \in IndexJobs : submit_index_prerequisite(i)
    \/ enqueue_manual_enrichment \/ submission_refused

Enriching ==
    \/ \E e \in Rows : start_attempt(e)
    \/ await_prerequisites \/ read_sources \/ read_fingerprint
    \/ check_fingerprint \/ read_baseline \/ read_inputs \/ check_current
    \/ enriched \/ publish_enrichment \/ attempt_failed \/ acknowledge

Next ==
    \/ \E c \in Contents : edit(c)
    \/ \E i \in IndexJobs : Indexing(i)
    \/ Submitting
    \/ Enriching
    \/ stop \/ restart

Spec == Init /\ [][Next]_vars

(* Index runs and the enrichment worker make progress, and a daemon that    *)
(* was stopped is started again; edits, requests and crashes need not       *)
(* happen.                                                                  *)
Fairness ==
    /\ \A i \in IndexJobs : WF_vars(Indexing(i))
    /\ WF_vars(Enriching)
    /\ WF_vars(stopping /\ restart)

FairSpec == Spec /\ Fairness

-----------------------------------------------------------------------------
IndexJobState == [pc : {"free", "pending", "plan", "fingerprint", "enqueue",
                        "push", "ack", "done"},
                  trigger : {"none", "automatic", "manual"},
                  fingerprint : Meanings \cup {None}, version : Nat,
                  obsolete : SUBSET Rows]

RowState == [status : {"Free", "Pending", "Running", "Failed", "Done"},
             trigger : {"none", "automatic", "manual"},
             fingerprint : Meanings \cup {None}, version : Nat,
             prerequisites : SUBSET IndexJobs, attempts : 0..(MAX_ATTEMPTS - 1)]

RequestState == [pc : {"idle", "plan", "index", "enqueue"},
                 prerequisites : SUBSET IndexJobs,
                 fingerprint : Meanings \cup {None}, current : BOOLEAN]

WorkerState == [pc : {"idle", "await", "snapshot", "fingerprint", "check",
                      "baseline", "inputs", "current", "enrich", "publish",
                      "done", "error"},
                row : Rows \cup {None}, fingerprint : Meanings \cup {None},
                snapshot : Contents \cup {None},
                baseline : Contents \cup {None},
                inputs : Contents \cup {None}]

Selection == [input : Meanings, version : Nat, sources : Contents,
              baseline : Contents]

CountersTypeOK ==
    /\ edits \in 0..MaxEdits
    /\ manuals \in 0..MaxManual
    /\ failures \in Nat /\ index_failures \in Nat /\ restarts \in Nat
    /\ failures + index_failures + restarts <= MaxIncidents

StoreTypeOK ==
    /\ disk \in Contents
    /\ unindexed \in BOOLEAN
    /\ version \in Nat
    /\ revision \in Contents \cup {None}
    /\ selection \in Selection \cup {None}
    /\ stopping \in BOOLEAN

QueueTypeOK ==
    /\ index \in [IndexJobs -> IndexJobState]
    /\ admission \in IndexJobs \cup {None}
    /\ rows \in [Rows -> RowState]
    /\ request \in RequestState
    /\ worker \in WorkerState

(* Every variable has its type; no row has used up its attempts.            *)
TypeOK == CountersTypeOK /\ StoreTypeOK /\ QueueTypeOK

(* The selected enrichment was computed from the input it is selected for:  *)
(* both the sources the analyzer read and the baseline it was given have    *)
(* the meaning that enrichment_is_current compares.                         *)
SelectionIsOfItsInput ==
    selection # None => /\ selection.sources.meaning = selection.input
                        /\ selection.baseline.meaning = selection.input

(* Automatic jobs in their first attempt, not superseded.                   *)
FirstAttempts == {e \in Active : /\ rows[e].trigger = "automatic"
                                 /\ rows[e].attempts = 0}

(* Analyzer work is coalesced: however index runs that plan it and attempts *)
(* that start interleave, at most one automatic job is queued, and no two   *)
(* in their first attempt do the same work.                                 *)
QueueIsCoalesced ==
    \A e, f \in FirstAttempts :
        \/ rows[e].status = "Pending" /\ rows[f].status = "Pending"
        \/ /\ rows[e].fingerprint = rows[f].fingerprint
           /\ rows[e].version = rows[f].version
        => e = f

(* Queued work for the published input is not lost to an equal or an equally *)
(* new plan: while the row for it waits, for its first attempt or for a     *)
(* retry, the only step that ends it is that of an index run which holds    *)
(* the admission lock and planned its own row for another input, before the *)
(* published one.  (That run does replace it: supersede_obsolete.)          *)
PublishedWorkIsKept ==
    [][\A e \in Active :
         /\ rows[e].status # "Running"
         /\ rows[e].fingerprint # None
         /\ rows[e].fingerprint = revision_enrichment_input
         /\ rows[e].version = version
         /\ ~IsActive(rows'[e])
         => \E i \in IndexJobs : /\ admission = i /\ index[i].pc = "push"
                                 /\ index[i].fingerprint # revision_enrichment_input]_vars

(* A worker that completes against obsolete inputs leaves newer work        *)
(* eligible: while the published baseline is not enriched, an index run or  *)
(* an enrichment job is under way (or the daemon is stopping: it indexes    *)
(* every workspace when it is started again).                               *)
NewerWorkRemainsEligible ==
    \/ revision = None
    \/ enrichment_is_current
    \/ unindexed \/ index_active # {} \/ Active # {} \/ stopping

(* What is on disk is eventually published and enriched, whether or not the *)
(* daemon is stopped or crashes on the way, as long as no attempt fails for *)
(* good and no manual run interferes.                                       *)
EventuallyEnriched ==
    <>[](manuals = 0 /\ failures = 0 /\ index_failures = 0
            => revision = disk /\ enrichment_is_current)
=============================================================================
