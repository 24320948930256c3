------------------------- MODULE EnrichmentJobsProofs -------------------------
(***************************************************************************)
(* Proofs about EnrichmentJobs, for any contents, numbers of index jobs    *)
(* and rows, and bounds.                                                   *)
(***************************************************************************)
EXTENDS EnrichmentJobs, TLAPS

(* What the worker has read by the time it gets to a step.                  *)
WorkerWellFormed ==
    /\ IF worker.pc = "idle" THEN worker.row = None ELSE worker.row \in Rows
    /\ worker.pc \in {"fingerprint", "check", "baseline", "inputs", "current",
                      "enrich", "publish"} => worker.snapshot # None
    /\ worker.pc \in {"check", "baseline", "inputs", "current", "enrich",
                      "publish"} => worker.fingerprint # None
    /\ worker.pc \in {"baseline", "inputs", "current", "enrich", "publish"} =>
           revision # None
    /\ worker.pc \in {"inputs", "current", "enrich", "publish"} =>
           worker.baseline # None

TypeInv == TypeOK /\ WorkerWellFormed

(* The values that stand for an absent row, job or request have the type of *)
(* one.                                                                     *)
LEMMA ConstantTypes ==
    /\ NoIndexJob \in IndexJobState
    /\ NoRow \in RowState
    /\ NoRequest \in RequestState
    /\ Idle \in WorkerState
  BY EnrichmentJobsAssumption
  DEF NoIndexJob, IndexJobState, NoRow, RowState, NoRequest, RequestState, Idle,
      WorkerState

(* A published revision has an enrichment input, which is a meaning.        *)
LEMMA InputType ==
    ASSUME StoreTypeOK
    PROVE  /\ revision_enrichment_input \in Meanings \cup {None}
           /\ revision # None => /\ revision_enrichment_input \in Meanings
                                 /\ revision_enrichment_input # None
  BY EnrichmentJobsAssumption
  DEF StoreTypeOK, revision_enrichment_input, Contents

(* A row whose attempt failed is a row.                                     *)
LEMMA FailedType ==
    ASSUME NEW row \in RowState
    PROVE  Failed(row) \in RowState
<1>1. CASE row.attempts + 1 >= MAX_ATTEMPTS
  BY <1>1, ConstantTypes DEF Failed
<1>2. CASE ~(row.attempts + 1 >= MAX_ATTEMPTS)
  <2>1. Failed(row) = [row EXCEPT !.status = "Failed",
                                  !.attempts = row.attempts + 1]
    BY <1>2 DEF Failed
  <2>2. row.attempts + 1 \in 0..(MAX_ATTEMPTS - 1)
    BY <1>2, EnrichmentJobsAssumption DEF RowState
  <2>. QED BY <2>1, <2>2 DEF RowState
<1>. QED BY <1>1, <1>2

(* The model starts in well-typed states.                                   *)
LEMMA TypeInit == Init => TypeInv
<1>. SUFFICES ASSUME Init PROVE TypeInv
  OBVIOUS
<1>1. CountersTypeOK
  BY EnrichmentJobsAssumption DEF Init, CountersTypeOK
<1>2. StoreTypeOK
  BY DEF Init, StoreTypeOK
<1>3. QueueTypeOK
  BY ConstantTypes DEF Init, QueueTypeOK
<1>4. WorkerWellFormed
  BY DEF Init, WorkerWellFormed, Idle
<1>. QED BY <1>1, <1>2, <1>3, <1>4 DEF TypeInv, TypeOK

(* Steps that change only index jobs and rows.                              *)
LEMMA IndexingType ==
    ASSUME TypeInv, NEW i \in IndexJobs, Indexing(i)
    PROVE  TypeInv'
<1>. USE DEF TypeInv, TypeOK
<1>. DEFINE Pc == {"free", "pending", "plan", "fingerprint", "enqueue", "push",
                   "ack", "done"}
<1>a. /\ index[i] \in IndexJobState
      /\ \A new \in IndexJobState : [index EXCEPT ![i] = new]
                                        \in [IndexJobs -> IndexJobState]
  BY DEF QueueTypeOK
<1>b. \A pc \in Pc : [index EXCEPT ![i].pc = pc] \in [IndexJobs -> IndexJobState]
  BY DEF QueueTypeOK, IndexJobState
<1>1. CASE enqueue_automatic_index(i)
  <2>1. index' \in [IndexJobs -> IndexJobState]
    BY <1>1, <1>a, ConstantTypes
    DEF enqueue_automatic_index, push_index_job, IndexJobState
  <2>. QED BY <1>1, <2>1 DEF enqueue_automatic_index, all_but_index, repository,
       counters, store, CountersTypeOK, StoreTypeOK, QueueTypeOK, WorkerWellFormed
<1>2. CASE index_run(i)
  <2>1. index' \in [IndexJobs -> IndexJobState]
    BY <1>2, <1>b DEF index_run
  <2>. QED BY <1>2, <2>1, EnrichmentJobsAssumption
       DEF index_run, counters, CountersTypeOK, StoreTypeOK, QueueTypeOK,
           WorkerWellFormed
<1>3. CASE index_superseded(i) \/ acknowledge_index(i)
  <2>1. index' \in [IndexJobs -> IndexJobState]
    BY <1>3, <1>a, ConstantTypes
    DEF index_superseded, acknowledge_index, IndexDone, IndexJobState
  <2>. QED BY <1>3, <2>1 DEF index_superseded, acknowledge_index, all_but_index,
       repository, counters, store, CountersTypeOK, StoreTypeOK, QueueTypeOK,
       WorkerWellFormed
<1>4. CASE automatic_enrichment_jobs(i)
  <2>1. index' \in [IndexJobs -> IndexJobState]
    BY <1>4, <1>b DEF automatic_enrichment_jobs
  <2>. QED BY <1>4, <2>1 DEF automatic_enrichment_jobs, all_but_index,
       repository, counters, store, CountersTypeOK, StoreTypeOK, QueueTypeOK,
       WorkerWellFormed
<1>5. CASE plan_fingerprint(i)
  <2>1. index' \in [IndexJobs -> IndexJobState]
    <3>1. [index[i] EXCEPT !.pc = "enqueue",
                           !.fingerprint = revision_enrichment_input,
                           !.version = version] \in IndexJobState
      BY <1>a, InputType DEF StoreTypeOK, IndexJobState
    <3>. QED BY <1>5, <1>a, <3>1 DEF plan_fingerprint
  <2>. QED BY <1>5, <2>1 DEF plan_fingerprint, all_but_index,
       repository, counters, store, CountersTypeOK, StoreTypeOK, QueueTypeOK,
       WorkerWellFormed
<1>6. CASE select_active_enrichment(i)
  <2>1. index' \in [IndexJobs -> IndexJobState]
    <3>. DEFINE obsolete == {e \in Active : rows[e].status # "Running"}
    <3>1. obsolete \in SUBSET Rows
      BY DEF Active
    <3>2. [index[i] EXCEPT !.pc = "push", !.obsolete = obsolete] \in IndexJobState
      <4>. HIDE DEF obsolete
      <4>. QED BY <1>a, <3>1 DEF IndexJobState
    <3>. QED BY <1>6, <1>a, <1>b, <3>2 DEF select_active_enrichment
  <2>2. admission' \in IndexJobs \cup {None}
    BY <1>6 DEF select_active_enrichment, QueueTypeOK
  <2>. QED BY <1>6, <2>1, <2>2 DEF select_active_enrichment, repository, counters,
       store, CountersTypeOK, StoreTypeOK, QueueTypeOK, WorkerWellFormed
<1>7. ASSUME NEW e \in Rows, supersede_obsolete(i, e) PROVE TypeInv'
  <2>1. index' \in [IndexJobs -> IndexJobState]
    BY <1>7 DEF supersede_obsolete, QueueTypeOK, IndexJobState
  <2>2. rows' \in [Rows -> RowState]
    BY <1>7, ConstantTypes DEF supersede_obsolete, QueueTypeOK, RowState
  <2>. QED BY <1>7, <2>1, <2>2 DEF supersede_obsolete, repository, counters, store,
       CountersTypeOK, StoreTypeOK, QueueTypeOK, WorkerWellFormed
<1>8. CASE enqueue_automatic_enrichment(i)
  <2>1. index' \in [IndexJobs -> IndexJobState]
    BY <1>8, <1>b DEF enqueue_automatic_enrichment
  <2>2. rows' \in [Rows -> RowState]
    BY <1>8, <1>a, EnrichmentJobsAssumption
    DEF enqueue_automatic_enrichment, push_enrichment_job, QueueTypeOK, RowState,
        IndexJobState
  <2>. QED BY <1>8, <2>1, <2>2 DEF enqueue_automatic_enrichment, repository,
       counters, store, CountersTypeOK, StoreTypeOK, QueueTypeOK, WorkerWellFormed
<1>9. CASE index_failed(i)
  <2>1. index' \in [IndexJobs -> IndexJobState]
    BY <1>9, <1>a, ConstantTypes DEF index_failed, IndexDone, IndexJobState
  <2>2. CountersTypeOK'
    BY <1>9, EnrichmentJobsAssumption DEF index_failed, CountersTypeOK, Incident
  <2>. QED BY <1>9, <2>1, <2>2 DEF index_failed, repository, store, StoreTypeOK,
       QueueTypeOK, WorkerWellFormed
<1>10. CASE enqueue_failed(i)
  <2>1. index' \in [IndexJobs -> IndexJobState]
    BY <1>10, <1>a, ConstantTypes DEF enqueue_failed, IndexJobState
  <2>2. CountersTypeOK'
    BY <1>10, EnrichmentJobsAssumption DEF enqueue_failed, CountersTypeOK, Incident
  <2>. QED BY <1>10, <2>1, <2>2 DEF enqueue_failed, repository, store, StoreTypeOK,
       QueueTypeOK, WorkerWellFormed
<1>. QED BY <1>1, <1>2, <1>3, <1>4, <1>5, <1>6, <1>7, <1>8, <1>9, <1>10
     DEF Indexing

(* Steps of a manual request.                                               *)
LEMMA SubmittingType ==
    ASSUME TypeInv, Submitting
    PROVE  TypeInv'
<1>. USE DEF TypeInv, TypeOK
<1>1. CASE overlapping_index_jobs
  <2>1. request' \in RequestState
    BY <1>1, ConstantTypes
    DEF overlapping_index_jobs, RequestState, index_active
  <2>2. CountersTypeOK'
    BY <1>1, EnrichmentJobsAssumption DEF overlapping_index_jobs, CountersTypeOK
  <2>. QED BY <1>1, <2>1, <2>2 DEF overlapping_index_jobs, repository, store,
       StoreTypeOK, QueueTypeOK, WorkerWellFormed
<1>2. CASE manual_enrichment_targets
  <2>1. enrichment_is_current \in BOOLEAN
    BY DEF enrichment_is_current
  <2>2. \A pc \in {"index", "enqueue"} :
          [request EXCEPT !.pc = pc, !.fingerprint = revision_enrichment_input,
                          !.current = enrichment_is_current] \in RequestState
    BY <2>1, InputType DEF QueueTypeOK, RequestState
  <2>3. request' \in RequestState
    BY <1>2, <2>2, ConstantTypes DEF manual_enrichment_targets
  <2>. QED BY <1>2, <2>3 DEF manual_enrichment_targets, repository, counters,
       store, CountersTypeOK, StoreTypeOK, QueueTypeOK, WorkerWellFormed
<1>3. ASSUME NEW i \in IndexJobs, submit_index_prerequisite(i) PROVE TypeInv'
  <2>1. index' \in [IndexJobs -> IndexJobState]
    <3>1. [NoIndexJob EXCEPT !.pc = "pending", !.trigger = "manual"]
              \in IndexJobState
      BY ConstantTypes DEF IndexJobState
    <3>. QED BY <1>3, <3>1
         DEF submit_index_prerequisite, push_index_job, QueueTypeOK
  <2>2. request' \in RequestState
    BY <1>3 DEF submit_index_prerequisite, QueueTypeOK, RequestState
  <2>. QED BY <1>3, <2>1, <2>2 DEF submit_index_prerequisite, repository,
       counters, store, CountersTypeOK, StoreTypeOK, QueueTypeOK,
       WorkerWellFormed
<1>4. CASE enqueue_manual_enrichment
  <2>1. \A fingerprint \in Meanings \cup {None} :
          [status |-> "Pending", trigger |-> "manual",
           fingerprint |-> fingerprint, version |-> version,
           prerequisites |-> request.prerequisites, attempts |-> 0] \in RowState
    BY EnrichmentJobsAssumption
    DEF QueueTypeOK, StoreTypeOK, RequestState, RowState
  <2>2. (IF request.prerequisites = {} THEN request.fingerprint ELSE None)
            \in Meanings \cup {None}
    BY DEF QueueTypeOK, RequestState
  <2>3. rows' \in [Rows -> RowState]
    BY <1>4, <2>1, <2>2
    DEF enqueue_manual_enrichment, push_enrichment_job, QueueTypeOK
  <2>. QED BY <1>4, <2>3, ConstantTypes DEF enqueue_manual_enrichment,
       repository, counters, store, CountersTypeOK, StoreTypeOK, QueueTypeOK,
       WorkerWellFormed
<1>5. CASE submission_refused
  BY <1>5, ConstantTypes DEF submission_refused, repository, counters, store,
     CountersTypeOK, StoreTypeOK, QueueTypeOK, WorkerWellFormed
<1>. QED BY <1>1, <1>2, <1>3, <1>4, <1>5 DEF Submitting

(* Steps of the enrichment worker.                                          *)
LEMMA EnrichingType ==
    ASSUME TypeInv, Enriching
    PROVE  TypeInv'
<1>. USE DEF TypeInv, TypeOK
<1>a. ASSUME UNCHANGED all_but_worker, (worker \in WorkerState)',
             WorkerWellFormed'
      PROVE  TypeInv'
  BY <1>a DEF all_but_worker, repository, counters, store, CountersTypeOK,
     StoreTypeOK, QueueTypeOK
<1>1. ASSUME NEW e \in Rows, start_attempt(e) PROVE TypeInv'
  <2>1. worker' \in WorkerState
    BY <1>1, ConstantTypes DEF start_attempt, WorkerState, QueueTypeOK, RowState
  <2>2. rows' \in [Rows -> RowState]
    BY <1>1 DEF start_attempt, QueueTypeOK, RowState
  <2>3. WorkerWellFormed'
    BY <1>1 DEF start_attempt, WorkerWellFormed, Idle
  <2>. QED BY <1>1, <2>1, <2>2, <2>3 DEF start_attempt, repository, counters,
       store, CountersTypeOK, StoreTypeOK, QueueTypeOK
<1>2. CASE await_prerequisites
  BY <1>2, <1>a DEF await_prerequisites, Superseded, Goto, QueueTypeOK,
     WorkerState, WorkerWellFormed, all_but_worker, store
<1>3. CASE read_sources
  <2>. DEFINE next == IF worker.fingerprint = None THEN "fingerprint" ELSE "check"
  <2>1. \/ worker' = [worker EXCEPT !.pc = "done"]
        \/ worker' = [worker EXCEPT !.pc = next, !.snapshot = disk]
    BY <1>3, Zenon DEF read_sources, Superseded, Goto
  <2>2. /\ next \in {"fingerprint", "check"}
        /\ next = "check" => worker.fingerprint # None
        /\ disk \in Contents /\ disk # None
    BY EnrichmentJobsAssumption DEF StoreTypeOK
  <2>3. worker' \in WorkerState /\ WorkerWellFormed'
    <3>. HIDE DEF next
    <3>. QED BY <1>3, <2>1, <2>2 DEF read_sources, QueueTypeOK, WorkerState,
         WorkerWellFormed
  <2>. QED BY <1>3, <1>a, <2>3 DEF read_sources
<1>4. CASE read_fingerprint
  BY <1>4, <1>a, InputType DEF read_fingerprint, Goto, QueueTypeOK, WorkerState,
     WorkerWellFormed, all_but_worker, store
<1>5. CASE check_fingerprint
  BY <1>5, <1>a DEF check_fingerprint, revision_enrichment_input, Superseded,
     Goto, QueueTypeOK, WorkerState, WorkerWellFormed, all_but_worker, store
<1>6. CASE read_baseline
  BY <1>6, <1>a DEF read_baseline, QueueTypeOK, StoreTypeOK, WorkerState,
     WorkerWellFormed, all_but_worker, store
<1>7. CASE read_inputs
  BY <1>7, <1>a DEF read_inputs, Superseded, Goto, QueueTypeOK, StoreTypeOK,
     WorkerState, WorkerWellFormed, all_but_worker, store
<1>8. CASE check_current
  BY <1>8, <1>a DEF check_current, Goto, QueueTypeOK, WorkerState,
     WorkerWellFormed, all_but_worker, store
<1>9. CASE enriched
  BY <1>9, <1>a DEF enriched, Superseded, Goto, QueueTypeOK, WorkerState,
     WorkerWellFormed, all_but_worker, store
<1>10. CASE publish_enrichment
  <2>1. worker' \in WorkerState /\ WorkerWellFormed'
    BY <1>10 DEF publish_enrichment, Goto, QueueTypeOK, WorkerState,
       WorkerWellFormed
  <2>2. selection' \in Selection \cup {None}
    BY <1>10 DEF publish_enrichment, QueueTypeOK, StoreTypeOK, WorkerState,
       WorkerWellFormed, Selection
  <2>. QED BY <1>10, <2>1, <2>2 DEF publish_enrichment, repository, counters,
       CountersTypeOK, StoreTypeOK, QueueTypeOK
<1>11. CASE attempt_failed
  <2>1. worker' \in WorkerState /\ WorkerWellFormed'
    BY <1>11 DEF attempt_failed, Goto, QueueTypeOK, WorkerState,
       WorkerWellFormed
  <2>2. CountersTypeOK'
    BY <1>11, EnrichmentJobsAssumption DEF attempt_failed, CountersTypeOK, Incident
  <2>. QED BY <1>11, <2>1, <2>2 DEF attempt_failed, repository, store,
       StoreTypeOK, QueueTypeOK
<1>12. CASE acknowledge
  <2>1. worker.row \in Rows
    BY <1>12 DEF acknowledge, WorkerWellFormed
  <2>2. Failed(rows[worker.row]) \in RowState
    BY <2>1, FailedType DEF QueueTypeOK
  <2>3. rows' \in [Rows -> RowState]
    BY <1>12, <2>1, <2>2, ConstantTypes DEF acknowledge, QueueTypeOK
  <2>4. WorkerWellFormed'
    BY <1>12 DEF acknowledge, WorkerWellFormed, Idle
  <2>. QED BY <1>12, <2>3, <2>4, ConstantTypes DEF acknowledge, repository,
       counters, store, CountersTypeOK, StoreTypeOK, QueueTypeOK
<1>. QED BY <1>1, <1>2, <1>3, <1>4, <1>5, <1>6, <1>7, <1>8, <1>9, <1>10, <1>11,
     <1>12 DEF Enriching

(* Every step keeps the types.                                              *)
LEMMA TypeStep == TypeInv /\ [Next]_vars => TypeInv'
<1>. SUFFICES ASSUME TypeInv, [Next]_vars PROVE TypeInv'
  OBVIOUS
<1>. USE DEF TypeInv, TypeOK
<1>1. ASSUME NEW c \in Contents, edit(c) PROVE TypeInv'
  <2>1. CountersTypeOK'
    BY <1>1, EnrichmentJobsAssumption DEF edit, CountersTypeOK
  <2>. QED BY <1>1, <2>1 DEF edit, store, StoreTypeOK, QueueTypeOK,
       WorkerWellFormed
<1>2. CASE stop
  BY <1>2 DEF stop, repository, counters, store, CountersTypeOK, StoreTypeOK,
     QueueTypeOK, WorkerWellFormed
<1>3. CASE restart
  <2>1. index' \in [IndexJobs -> IndexJobState]
    BY <1>3, ConstantTypes DEF restart, QueueTypeOK, IndexJobState
  <2>2. rows' \in [Rows -> RowState]
    BY <1>3, FailedType, ConstantTypes DEF restart, recover, QueueTypeOK
  <2>3. CountersTypeOK'
    <3>1. /\ Incident /\ restarts' = restarts + 1
          /\ UNCHANGED <<edits, manuals, failures, index_failures>>
      BY <1>3, Zenon DEF restart
    <3>. QED BY <3>1, EnrichmentJobsAssumption DEF CountersTypeOK, Incident
  <2>4. StoreTypeOK'
    <3>1. /\ stopping' = FALSE /\ unindexed' = TRUE
          /\ version' \in {version, version + 1}
          /\ UNCHANGED <<disk, revision, selection>>
      BY <1>3, Zenon DEF restart, store
    <3>2. stopping' \in BOOLEAN /\ unindexed' \in BOOLEAN
      BY <3>1, Zenon
    <3>3. version' \in Nat
      BY <3>1, SMT DEF StoreTypeOK
    <3>. QED BY <3>1, <3>2, <3>3, Zenon DEF StoreTypeOK
  <2>5. WorkerWellFormed'
    BY <1>3 DEF restart, WorkerWellFormed, Idle
  <2>. QED BY <1>3, <2>1, <2>2, <2>3, <2>4, <2>5, ConstantTypes
       DEF restart, QueueTypeOK
<1>4. CASE UNCHANGED vars
  BY <1>4 DEF vars, repository, counters, store, CountersTypeOK, StoreTypeOK,
     QueueTypeOK, WorkerWellFormed
<1>. QED BY <1>1, <1>2, <1>3, <1>4, IndexingType, SubmittingType, EnrichingType
     DEF Next

(* Every variable keeps its type, and no row exceeds its attempts.          *)
THEOREM TypeCorrect == Spec => []TypeOK
<1>1. TypeInv => TypeOK
  BY DEF TypeInv
<1>. QED BY <1>1, TypeInit, TypeStep, PTL DEF Spec

-----------------------------------------------------------------------------
(***************************************************************************)
(* The queue is coalesced.  The invariant is about the index job that      *)
(* holds the admission lock: what it read when it selected the active rows *)
(* still bounds what is in the queue when it pushes its own.               *)
(***************************************************************************)
AdmissionInv == \A i \in IndexJobs : index[i].pc = "push" => admission = i

SelectedInv ==
    \A i \in IndexJobs : index[i].pc = "push" =>
        \A e \in FirstAttempts :
            /\ rows[e].status = "Pending" => e \in index[i].obsolete
            /\ ~ (/\ rows[e].fingerprint = index[i].fingerprint
                  /\ rows[e].version = index[i].version)

CoalescedInv == AdmissionInv /\ SelectedInv /\ QueueIsCoalesced

(* What all steps but an automatic enqueue do to the first attempts: start  *)
(* or end some.                                                             *)
OnlyFewer ==
    \A e \in FirstAttempts' :
        /\ e \in FirstAttempts
        /\ rows'[e].fingerprint = rows[e].fingerprint
        /\ rows'[e].version = rows[e].version
        /\ rows'[e].status = "Pending" => rows[e].status = "Pending"

(* The index jobs in their critical section are still in it, and have       *)
(* marked no row that is a first attempt still.                             *)
SameSelected ==
    \A i \in IndexJobs : index'[i].pc = "push" =>
        /\ index[i].pc = "push"
        /\ admission' = admission
        /\ index'[i].fingerprint = index[i].fingerprint
        /\ index'[i].version = index[i].version
        /\ index[i].obsolete \cap FirstAttempts' \subseteq index'[i].obsolete

(* A step that adds no first attempt and disturbs no selection preserves    *)
(* the invariant.                                                           *)
LEMMA FewerKeeps ==
    ASSUME CoalescedInv, OnlyFewer, SameSelected
    PROVE  CoalescedInv'
<1>1. AdmissionInv'
  BY DEF CoalescedInv, AdmissionInv, SameSelected
<1>2. SelectedInv'
  BY DEF CoalescedInv, SelectedInv, SameSelected, OnlyFewer
<1>3. QueueIsCoalesced'
  BY DEF CoalescedInv, QueueIsCoalesced, OnlyFewer
<1>. QED BY <1>1, <1>2, <1>3 DEF CoalescedInv

(* A row that failed, or is over, is not in its first attempt.              *)
LEMMA FailedNotFirst ==
    ASSUME NEW row \in RowState, IsActive(Failed(row)), Failed(row).attempts = 0
    PROVE  FALSE
<1>1. CASE row.attempts + 1 >= MAX_ATTEMPTS
  BY <1>1 DEF Failed, NoRow, IsActive
<1>2. CASE ~(row.attempts + 1 >= MAX_ATTEMPTS)
  <2>1. Failed(row) = [row EXCEPT !.status = "Failed",
                                  !.attempts = row.attempts + 1]
    BY <1>2 DEF Failed
  <2>2. row.attempts + 1 # 0
    BY EnrichmentJobsAssumption DEF RowState
  <2>. QED BY <2>1, <2>2 DEF RowState
<1>. QED BY <1>1, <1>2

(* Without a change of the rows the first attempts are the same.            *)
LEMMA FirstAttemptsUnchanged ==
    ASSUME UNCHANGED rows
    PROVE  OnlyFewer /\ FirstAttempts' = FirstAttempts
  BY DEF OnlyFewer, FirstAttempts, Active, IsActive

(* The steps of index jobs.                                                 *)
LEMMA IndexingKeeps ==
    ASSUME TypeInv, CoalescedInv, NEW i \in IndexJobs, Indexing(i)
    PROVE  CoalescedInv'
<1>. USE DEF TypeInv, TypeOK
<1>a. index \in [IndexJobs -> IndexJobState] /\ rows \in [Rows -> RowState]
  BY DEF QueueTypeOK
<1>b. ASSUME UNCHANGED <<rows, admission>>,
             NEW new, new.pc # "push", index' = [index EXCEPT ![i] = new]
      PROVE  CoalescedInv'
  <2>1. SameSelected
    BY <1>a, <1>b, FirstAttemptsUnchanged DEF SameSelected
  <2>. QED BY <1>b, <2>1, FirstAttemptsUnchanged, FewerKeeps
<1>1. CASE enqueue_automatic_index(i)
  BY <1>1, <1>b DEF enqueue_automatic_index, push_index_job, NoIndexJob,
     all_but_index
<1>2. CASE index_run(i)
  BY <1>2, <1>a, <1>b DEF index_run, IndexJobState
<1>3. CASE index_superseded(i) \/ acknowledge_index(i)
  BY <1>3, <1>b DEF index_superseded, acknowledge_index, IndexDone, NoIndexJob,
     all_but_index
<1>4. CASE automatic_enrichment_jobs(i)
  BY <1>4, <1>a, <1>b DEF automatic_enrichment_jobs, IndexJobState, all_but_index
<1>5. CASE plan_fingerprint(i)
  BY <1>5, <1>a, <1>b DEF plan_fingerprint, IndexJobState, all_but_index
<1>6. CASE select_active_enrichment(i)
  <2>. DEFINE obsolete == {e \in Active : rows[e].status # "Running"}
  <2>1. CASE \E e \in Active : Covers(rows[e], i)
    <3>1. index' = [index EXCEPT ![i] = [index[i] EXCEPT !.pc = "ack"]]
      BY <1>6, <2>1 DEF select_active_enrichment
    <3>2. [index[i] EXCEPT !.pc = "ack"].pc # "push"
      BY <1>a DEF IndexJobState
    <3>. QED BY <1>6, <2>1, <3>1, <3>2, <1>b DEF select_active_enrichment
  <2>2. CASE ~ \E e \in Active : Covers(rows[e], i)
    <3>1. /\ index' = [index EXCEPT ![i] = [index[i] EXCEPT !.pc = "push",
                                             !.obsolete = obsolete]]
          /\ admission = None /\ admission' = i /\ rows' = rows
      BY <1>6, <2>2 DEF select_active_enrichment
    <3>2. /\ index'[i].obsolete = obsolete
          /\ index'[i].fingerprint = index[i].fingerprint
          /\ index'[i].version = index[i].version
          /\ \A k \in IndexJobs \ {i} : index'[k] = index[k]
      <4>. HIDE DEF obsolete
      <4>. QED BY <3>1, <1>a DEF IndexJobState
    <3>3. \A k \in IndexJobs \ {i} : index'[k].pc # "push"
      BY <3>1, <3>2, EnrichmentJobsAssumption DEF CoalescedInv, AdmissionInv
    <3>4. FirstAttempts' = FirstAttempts
      BY <3>1, FirstAttemptsUnchanged
    <3>5. \A e \in FirstAttempts :
            /\ rows[e].status = "Pending" => e \in obsolete
            /\ ~ (/\ rows[e].fingerprint = index[i].fingerprint
                  /\ rows[e].version = index[i].version)
      BY <2>2 DEF FirstAttempts, Covers
    <3>6. AdmissionInv' /\ SelectedInv'
      BY <3>1, <3>2, <3>3, <3>4, <3>5 DEF AdmissionInv, SelectedInv
    <3>7. QueueIsCoalesced'
      BY <3>1, <3>4 DEF CoalescedInv, QueueIsCoalesced
    <3>. QED BY <3>6, <3>7 DEF CoalescedInv
  <2>. QED BY <2>1, <2>2
<1>7. ASSUME NEW e \in Rows, supersede_obsolete(i, e) PROVE CoalescedInv'
  <2>1. /\ \A f \in Rows \ {e} : rows'[f] = rows[f]
        /\ rows'[e].status \in {"Done", "Free"}
    BY <1>7, <1>a DEF supersede_obsolete, NoRow, RowState
  <2>2. OnlyFewer /\ e \notin FirstAttempts'
    BY <2>1 DEF OnlyFewer, FirstAttempts, Active, IsActive
  <2>3. SameSelected
    BY <1>7, <1>a, <2>2 DEF supersede_obsolete, SameSelected, IndexJobState
  <2>. QED BY <2>2, <2>3, FewerKeeps
<1>8. CASE enqueue_automatic_enrichment(i)
  <2>1. PICK e \in Rows : push_enrichment_job(e, "automatic",
                              index[i].fingerprint, {i}, index[i].version)
    BY <1>8 DEF enqueue_automatic_enrichment
  <2>2. /\ rows'[e].status = "Pending"
        /\ rows'[e].fingerprint = index[i].fingerprint
        /\ rows'[e].version = index[i].version
        /\ \A f \in Rows \ {e} : rows'[f] = rows[f]
    BY <2>1, <1>a DEF push_enrichment_job
  <2>3. FirstAttempts' \ {e} \subseteq FirstAttempts
    BY <2>2 DEF FirstAttempts, Active, IsActive
  <2>4. \A f \in FirstAttempts : /\ rows[f].status # "Pending"
                                 /\ ~ (/\ rows[f].fingerprint = index[i].fingerprint
                                       /\ rows[f].version = index[i].version)
    BY <1>8 DEF enqueue_automatic_enrichment, CoalescedInv, SelectedInv
  <2>5. FirstAttempts' \subseteq Rows
    BY DEF FirstAttempts, Active
  <2>6. QueueIsCoalesced'
    <3>. SUFFICES ASSUME NEW f \in FirstAttempts', NEW g \in FirstAttempts',
                         \/ rows'[f].status = "Pending" /\ rows'[g].status = "Pending"
                         \/ /\ rows'[f].fingerprint = rows'[g].fingerprint
                            /\ rows'[f].version = rows'[g].version,
                         f # g
                  PROVE  FALSE
      BY DEF QueueIsCoalesced
    <3>1. CASE f = e
      BY <3>1, <2>2, <2>3, <2>4, <2>5
    <3>2. CASE g = e
      BY <3>2, <2>2, <2>3, <2>4, <2>5
    <3>3. CASE f # e /\ g # e
      BY <3>3, <2>2, <2>3, <2>5 DEF CoalescedInv, QueueIsCoalesced
    <3>. QED BY <3>1, <3>2, <3>3
  <2>7. \A k \in IndexJobs : index'[k].pc # "push"
    BY <1>8, <1>a DEF enqueue_automatic_enrichment, CoalescedInv, AdmissionInv,
       IndexJobState
  <2>. QED BY <2>6, <2>7 DEF CoalescedInv, AdmissionInv, SelectedInv
<1>9. CASE index_failed(i)
  BY <1>9, <1>b DEF index_failed, IndexDone, NoIndexJob
<1>10. CASE enqueue_failed(i)
  <2>1. /\ rows' = rows /\ index'[i].pc # "push"
        /\ \A k \in IndexJobs \ {i} : index'[k] = index[k]
        /\ admission # i => admission' = admission
    BY <1>10, <1>a DEF enqueue_failed, NoIndexJob
  <2>2. SameSelected
    BY <2>1, FirstAttemptsUnchanged
    DEF SameSelected, CoalescedInv, AdmissionInv
  <2>. QED BY <2>1, <2>2, FirstAttemptsUnchanged, FewerKeeps
<1>. QED BY <1>1, <1>2, <1>3, <1>4, <1>5, <1>6, <1>7, <1>8, <1>9, <1>10
     DEF Indexing

(* All steps keep the queue coalesced.                                      *)
LEMMA CoalescedStep == TypeInv /\ CoalescedInv /\ [Next]_vars => CoalescedInv'
<1>. SUFFICES ASSUME TypeInv, CoalescedInv, [Next]_vars PROVE CoalescedInv'
  OBVIOUS
<1>a. index \in [IndexJobs -> IndexJobState] /\ rows \in [Rows -> RowState]
  BY DEF TypeInv, TypeOK, QueueTypeOK
<1>b. ASSUME UNCHANGED <<index, rows, admission>> PROVE CoalescedInv'
  BY <1>b, FirstAttemptsUnchanged, FewerKeeps DEF SameSelected
<1>c. ASSUME UNCHANGED <<index, admission>>, OnlyFewer PROVE CoalescedInv'
  BY <1>c, FewerKeeps DEF SameSelected
<1>1. ASSUME NEW c \in Contents, edit(c) PROVE CoalescedInv'
  BY <1>1, <1>b DEF edit
<1>2. CASE Submitting
  <2>1. CASE \/ overlapping_index_jobs \/ manual_enrichment_targets
             \/ submission_refused
    BY <2>1, <1>b DEF overlapping_index_jobs, manual_enrichment_targets,
       submission_refused
  <2>2. ASSUME NEW i \in IndexJobs, submit_index_prerequisite(i)
        PROVE  CoalescedInv'
    <3>1. /\ rows' = rows /\ admission' = admission
          /\ index'[i].pc # "push"
          /\ \A k \in IndexJobs \ {i} : index'[k] = index[k]
      BY <2>2, <1>a DEF submit_index_prerequisite, push_index_job, NoIndexJob
    <3>. QED BY <3>1, FirstAttemptsUnchanged, FewerKeeps DEF SameSelected
  <2>3. CASE enqueue_manual_enrichment
    <3>1. CASE rows' = rows
      BY <2>3, <3>1, <1>b DEF enqueue_manual_enrichment
    <3>2. CASE rows' # rows
      <4>1. PICK e \in Rows : rows'[e].trigger = "manual" /\
                              \A f \in Rows \ {e} : rows'[f] = rows[f]
        BY <2>3, <3>2, <1>a DEF enqueue_manual_enrichment, push_enrichment_job
      <4>2. OnlyFewer
        BY <4>1 DEF OnlyFewer, FirstAttempts, Active, IsActive
      <4>. QED BY <2>3, <4>2, <1>c DEF enqueue_manual_enrichment
    <3>. QED BY <3>1, <3>2
  <2>. QED BY <1>2, <2>1, <2>2, <2>3 DEF Submitting
<1>3. CASE Enriching
  <2>1. ASSUME NEW e \in Rows, start_attempt(e) PROVE CoalescedInv'
    <3>1. /\ \A f \in Rows \ {e} : rows'[f] = rows[f]
          /\ rows'[e] = [rows[e] EXCEPT !.status = "Running"]
          /\ e \in Active
      BY <2>1, <1>a DEF start_attempt
    <3>2. OnlyFewer
      BY <3>1, <1>a DEF OnlyFewer, FirstAttempts, Active, IsActive, RowState
    <3>. QED BY <2>1, <3>2, <1>c DEF start_attempt
  <2>2. CASE acknowledge
    <3>1. worker.row \in Rows
      BY <2>2 DEF acknowledge, TypeInv, WorkerWellFormed
    <3>2. /\ \A f \in Rows \ {worker.row} : rows'[f] = rows[f]
          /\ rows'[worker.row] \in {NoRow, Failed(rows[worker.row])}
      BY <2>2, <3>1, <1>a DEF acknowledge
    <3>3. ~ IsActive(NoRow)
      BY DEF IsActive, NoRow
    <3>4. worker.row \notin FirstAttempts'
      BY <3>1, <3>2, <3>3, <1>a, FailedNotFirst DEF FirstAttempts, Active
    <3>5. OnlyFewer
      BY <3>2, <3>4 DEF OnlyFewer, FirstAttempts, Active, IsActive
    <3>. QED BY <2>2, <3>5, <1>c DEF acknowledge
  <2>3. CASE \/ await_prerequisites \/ read_sources \/ read_fingerprint
             \/ check_fingerprint \/ read_baseline \/ read_inputs
             \/ check_current \/ enriched \/ publish_enrichment
             \/ attempt_failed
    BY <2>3, <1>b DEF await_prerequisites, read_sources, read_fingerprint,
       check_fingerprint, read_baseline, read_inputs, check_current, enriched,
       publish_enrichment, attempt_failed, all_but_worker
  <2>. QED BY <1>3, <2>1, <2>2, <2>3 DEF Enriching
<1>4. CASE stop \/ UNCHANGED vars
  BY <1>4, <1>b DEF stop, vars
<1>5. CASE restart
  <2>1. \A e \in Rows :
          rows'[e] \in {rows[e], NoRow, Failed(rows[e])}
    BY <1>5 DEF restart, recover
  <2>2. ~ IsActive(NoRow)
    BY DEF IsActive, NoRow
  <2>3. \A e \in FirstAttempts' : e \in Rows /\ rows'[e] = rows[e]
    BY <2>1, <2>2, <1>a, FailedNotFirst DEF FirstAttempts, Active
  <2>4. OnlyFewer
    BY <2>3 DEF OnlyFewer, FirstAttempts, Active, IsActive
  <2>5. \A i \in IndexJobs : index'[i].pc # "push"
    BY <1>5, <1>a DEF restart, index_active, NoIndexJob
  <2>. QED BY <2>4, <2>5, FewerKeeps DEF SameSelected
<1>. QED BY <1>1, <1>2, <1>3, <1>4, <1>5, IndexingKeeps DEF Next

(* Coalescing holds for any number of index jobs, rows, edits and crashes:  *)
(* the admission lock makes selecting the active rows and pushing the new   *)
(* one atomic with respect to other enqueues, and what the worker does in   *)
(* between only takes rows out of their first attempt.                      *)
THEOREM Coalesced == Spec => []QueueIsCoalesced
<1>1. Init => CoalescedInv
  BY DEF Init, CoalescedInv, AdmissionInv, SelectedInv, QueueIsCoalesced,
     FirstAttempts, Active, IsActive, NoRow, NoIndexJob
<1>2. CoalescedInv => QueueIsCoalesced
  BY DEF CoalescedInv
<1>. QED BY <1>1, <1>2, TypeInit, TypeStep, CoalescedStep, PTL DEF Spec

-----------------------------------------------------------------------------
(***************************************************************************)
(* Contributions and their inputs.  The queries of one attempt see the     *)
(* store at several moments; what they read belongs together as long as no *)
(* edit brings back an earlier meaning in between (section 4 of the README *)
(* has the counterexample).  To say that none does, meanings are numbered  *)
(* and every edit goes to the same or a higher number, which is how the    *)
(* meanings of any sequence without a return can be numbered.              *)
(***************************************************************************)
Numbered == Meanings \subseteq Nat

GoesForward == disk'.meaning >= disk.meaning

(* Steps of the worker after check_fingerprint, read_baseline and           *)
(* read_inputs.                                                             *)
Checked == {"baseline", "inputs", "current", "enrich", "publish"}
Based == {"inputs", "current", "enrich", "publish"}
Compared == {"current", "enrich", "publish"}

(* What was published is no newer than the disk.                            *)
RevisionBehind == revision # None => revision.meaning <= disk.meaning

(* What an attempt reads one after the other, in that order.                *)
ReadInOrder ==
    /\ worker.pc \in Checked => worker.fingerprint <= revision.meaning
    /\ worker.pc \in Based => /\ worker.fingerprint <= worker.baseline.meaning
                              /\ worker.baseline.meaning <= revision.meaning
    /\ worker.pc \in Compared => /\ worker.baseline.meaning <= worker.snapshot.meaning
                                 /\ worker.snapshot.meaning <= revision.meaning

OrderInv == RevisionBehind /\ ReadInOrder /\ SelectionIsOfItsInput

(* A step that changes neither the store, the sources nor the worker.       *)
LEMMA OrderKept ==
    ASSUME OrderInv, UNCHANGED <<disk, revision, selection, worker>>
    PROVE  OrderInv'
  BY DEF OrderInv, RevisionBehind, ReadInOrder, SelectionIsOfItsInput

(* The steps of the worker.                                                 *)
LEMMA EnrichingOrder ==
    ASSUME Numbered, TypeInv, OrderInv, Enriching
    PROVE  OrderInv'
<1>. USE DEF Checked, Based, Compared
<1>a. worker \in WorkerState /\ (revision # None => revision.meaning \in Nat)
  BY DEF TypeInv, TypeOK, QueueTypeOK, StoreTypeOK, Contents, Numbered
<1>b. /\ worker.pc \in Based => worker.baseline.meaning \in Nat
      /\ worker.pc \in Checked => /\ worker.fingerprint \in Nat /\ worker.snapshot.meaning \in Nat
                                  /\ revision # None
  BY <1>a DEF TypeInv, WorkerWellFormed, WorkerState, Contents, Numbered
<1>c. ASSUME UNCHANGED <<disk, revision, selection>>, ReadInOrder' PROVE OrderInv'
  BY <1>c DEF OrderInv, RevisionBehind, SelectionIsOfItsInput
<1>d. ASSUME UNCHANGED <<disk, revision, selection>>, worker'.pc \notin Checked PROVE OrderInv'
  BY <1>c, <1>d DEF ReadInOrder
<1>e. ASSUME UNCHANGED <<disk, revision, selection>>,
             worker'.fingerprint = worker.fingerprint, worker'.baseline = worker.baseline,
             worker'.snapshot = worker.snapshot,
             \/ worker.pc \in Compared /\ worker'.pc \in Compared
             \/ worker'.pc \notin Checked
      PROVE  OrderInv'
  BY <1>c, <1>e DEF OrderInv, ReadInOrder
<1>f. \A pc : Goto(pc) => /\ worker'.pc = pc /\ worker'.fingerprint = worker.fingerprint
                          /\ worker'.baseline = worker.baseline
                          /\ worker'.snapshot = worker.snapshot
  BY <1>a DEF Goto, WorkerState
<1>1. ASSUME NEW e \in Rows, start_attempt(e) PROVE OrderInv'
  BY <1>1, <1>d DEF start_attempt, Idle, repository, store
<1>2. CASE await_prerequisites
  BY <1>2, <1>d, <1>f DEF await_prerequisites, Superseded, all_but_worker, repository, store
<1>3. CASE read_sources
  <2>1. UNCHANGED <<disk, revision, selection>>
    BY <1>3 DEF read_sources, all_but_worker, repository, store
  <2>2. worker'.pc \in {"done", "fingerprint", "check"}
    BY <1>3, <1>a, <1>f DEF read_sources, Superseded, WorkerState
  <2>. QED BY <1>d, <2>1, <2>2
<1>4. CASE read_fingerprint
  <2>1. UNCHANGED <<disk, revision, selection>>
    BY <1>4 DEF read_fingerprint, all_but_worker, repository, store
  <2>2. worker'.pc \in {"error", "check"}
    BY <1>4, <1>a, <1>f DEF read_fingerprint, WorkerState
  <2>. QED BY <1>d, <2>1, <2>2
<1>5. CASE check_fingerprint
  <2>1. UNCHANGED <<disk, revision, selection>>
    BY <1>5 DEF check_fingerprint, all_but_worker, repository, store
  <2>2. CASE Goto("done")
    BY <1>d, <1>f, <2>1, <2>2
  <2>3. CASE Goto("baseline") /\ revision_enrichment_input = worker.fingerprint
    <3>1. revision # None /\ worker.fingerprint = revision.meaning
      BY <1>5, <2>3 DEF check_fingerprint, revision_enrichment_input, TypeInv, WorkerWellFormed
    <3>. QED BY <1>a, <1>c, <1>f, <2>1, <2>3, <3>1 DEF ReadInOrder
  <2>. QED BY <1>5, <2>2, <2>3 DEF check_fingerprint, Superseded
<1>6. CASE read_baseline
  <2>1. UNCHANGED <<disk, revision, selection>> /\ worker.pc = "baseline"
    BY <1>6 DEF read_baseline, all_but_worker, repository, store
  <2>2. /\ worker'.pc = "inputs" /\ worker'.fingerprint = worker.fingerprint
        /\ worker'.baseline = revision
    BY <1>6, <1>a DEF read_baseline, WorkerState
  <2>. QED BY <1>a, <1>b, <1>c, <2>1, <2>2 DEF OrderInv, ReadInOrder
<1>7. CASE read_inputs
  <2>1. UNCHANGED <<disk, revision, selection>> /\ worker.pc = "inputs"
    BY <1>7 DEF read_inputs, all_but_worker, repository, store
  <2>2. CASE Goto("done")
    BY <1>d, <1>f, <2>1, <2>2
  <2>3. CASE /\ worker' = [worker EXCEPT !.pc = "current", !.inputs = revision]
             /\ worker.snapshot = revision
    <3>1. /\ worker'.pc = "current" /\ worker'.fingerprint = worker.fingerprint
          /\ worker'.baseline = worker.baseline /\ worker'.snapshot = worker.snapshot
      BY <1>a, <2>3 DEF WorkerState
    <3>. QED BY <1>a, <1>b, <1>c, <2>1, <2>3, <3>1 DEF OrderInv, ReadInOrder
  <2>. QED BY <1>7, <2>2, <2>3 DEF read_inputs, Superseded
<1>8. CASE check_current
  <2>1. UNCHANGED <<disk, revision, selection>> /\ worker.pc = "current"
    BY <1>8 DEF check_current, all_but_worker, repository, store
  <2>2. \E pc \in {"done", "publish", "enrich"} : Goto(pc)
    BY <1>8 DEF check_current
  <2>. QED BY <1>e, <1>f, <2>1, <2>2
<1>9. CASE enriched
  <2>1. UNCHANGED <<disk, revision, selection>> /\ worker.pc = "enrich"
    BY <1>9 DEF enriched, all_but_worker, repository, store
  <2>2. \E pc \in {"done", "publish"} : Goto(pc)
    BY <1>9 DEF enriched, Superseded
  <2>. QED BY <1>e, <1>f, <2>1, <2>2
<1>10. CASE publish_enrichment
  <2>1. UNCHANGED <<disk, revision>> /\ worker.pc = "publish" /\ Goto("done")
    BY <1>10 DEF publish_enrichment, repository
  <2>2. ReadInOrder' /\ RevisionBehind'
    BY <1>f, <2>1 DEF OrderInv, ReadInOrder, RevisionBehind
  <2>3. SelectionIsOfItsInput'
    <3>1. CASE UNCHANGED selection
      BY <3>1 DEF OrderInv, SelectionIsOfItsInput
    <3>2. CASE /\ revision_enrichment_input = worker.fingerprint
               /\ selection' = [input |-> worker.fingerprint, version |-> version,
                                sources |-> worker.snapshot, baseline |-> worker.baseline]
      <4>1. revision.meaning = worker.fingerprint
        BY <1>b, <2>1, <3>2 DEF revision_enrichment_input
      <4>2. /\ worker.snapshot.meaning = worker.fingerprint
            /\ worker.baseline.meaning = worker.fingerprint
        BY <1>a, <1>b, <2>1, <4>1 DEF OrderInv, ReadInOrder
      <4>. QED BY <3>2, <4>2 DEF SelectionIsOfItsInput
    <3>. QED BY <1>10, <3>1, <3>2 DEF publish_enrichment
  <2>. QED BY <2>2, <2>3 DEF OrderInv
<1>11. CASE attempt_failed
  BY <1>11, <1>d, <1>f DEF attempt_failed, repository, store
<1>12. CASE acknowledge
  BY <1>12, <1>d DEF acknowledge, Idle, repository, store
<1>. QED BY <1>1, <1>2, <1>3, <1>4, <1>5, <1>6, <1>7, <1>8, <1>9, <1>10, <1>11, <1>12
     DEF Enriching

(* A publication of the disk is no older than the one it replaces.          *)
LEMMA OrderForward ==
    ASSUME Numbered, TypeInv, OrderInv, UNCHANGED <<selection, worker>>,
           \/ GoesForward /\ revision' = revision /\ disk' \in Contents
           \/ disk' = disk /\ revision' = disk
    PROVE  OrderInv'
<1>1. /\ disk.meaning \in Nat /\ (revision # None => revision.meaning \in Nat)
      /\ disk # None /\ worker \in WorkerState
      /\ disk' \in Contents => disk'.meaning \in Nat
  BY EnrichmentJobsAssumption
  DEF TypeInv, TypeOK, QueueTypeOK, StoreTypeOK, Contents, Numbered
<1>2. /\ worker.pc \in Based => worker.baseline.meaning \in Nat
      /\ worker.pc \in Checked => /\ worker.fingerprint \in Nat /\ worker.snapshot.meaning \in Nat
                                  /\ revision # None
  BY <1>1 DEF TypeInv, WorkerWellFormed, WorkerState, Contents, Numbered, Checked, Based
<1>3. /\ RevisionBehind'
      /\ revision # None => revision'.meaning \in Nat /\ revision'.meaning >= revision.meaning
  BY <1>1 DEF OrderInv, RevisionBehind, GoesForward
<1>4. ReadInOrder'
  BY <1>1, <1>2, <1>3 DEF OrderInv, ReadInOrder, Checked, Based, Compared
<1>. QED BY <1>3, <1>4 DEF OrderInv, SelectionIsOfItsInput

(* The order is kept by every step that goes forward.                       *)
LEMMA OrderStep ==
    Numbered /\ TypeInv /\ OrderInv /\ [Next]_vars /\ [GoesForward]_vars => OrderInv'
<1>. SUFFICES ASSUME Numbered, TypeInv, OrderInv, [Next]_vars, [GoesForward]_vars
              PROVE  OrderInv'
  OBVIOUS
<1>1. ASSUME NEW c \in Contents, edit(c) PROVE OrderInv'
  <2>1. disk' = c /\ c # disk /\ UNCHANGED <<revision, selection, worker>>
    BY <1>1 DEF edit, store
  <2>2. GoesForward
    BY <2>1 DEF vars, repository
  <2>. QED BY <2>1, <2>2, OrderForward
<1>2. ASSUME NEW i \in IndexJobs, Indexing(i) PROVE OrderInv'
  <2>1. CASE index_run(i)
    <3>1. disk' = disk /\ revision' = disk /\ UNCHANGED <<selection, worker>>
      BY <2>1 DEF index_run
    <3>. QED BY <3>1, OrderForward
  <2>2. CASE \/ enqueue_automatic_index(i) \/ index_superseded(i)
             \/ automatic_enrichment_jobs(i) \/ plan_fingerprint(i) \/ acknowledge_index(i)
    BY <2>2, OrderKept
    DEF enqueue_automatic_index, index_superseded, automatic_enrichment_jobs, plan_fingerprint,
        acknowledge_index, all_but_index, repository, store
  <2>3. CASE \/ select_active_enrichment(i) \/ (\E e \in Rows : supersede_obsolete(i, e))
             \/ enqueue_automatic_enrichment(i) \/ index_failed(i) \/ enqueue_failed(i)
    BY <2>3, OrderKept
    DEF select_active_enrichment, supersede_obsolete, enqueue_automatic_enrichment, index_failed,
        enqueue_failed, repository, store
  <2>. QED BY <1>2, <2>1, <2>2, <2>3 DEF Indexing
<1>3. CASE Submitting
  BY <1>3, OrderKept
  DEF Submitting, overlapping_index_jobs, manual_enrichment_targets, submit_index_prerequisite,
      enqueue_manual_enrichment, submission_refused, repository, store
<1>4. CASE stop \/ UNCHANGED vars
  BY <1>4, OrderKept DEF stop, vars, repository, store
<1>5. CASE restart
  <2>1. UNCHANGED <<disk, revision, selection>> /\ worker'.pc = "idle"
    BY <1>5 DEF restart, store, Idle
  <2>. QED BY <2>1
       DEF OrderInv, RevisionBehind, ReadInOrder, SelectionIsOfItsInput, Checked, Based, Compared
<1>. QED BY <1>1, <1>2, <1>3, <1>4, <1>5, EnrichingOrder DEF Next

(* A contribution is selected for the input its sources and its baseline    *)
(* have, whatever is published between the queries of an attempt, as long   *)
(* as no edit brings back an earlier meaning: the fingerprint is compared   *)
(* before the first query and in the transaction that publishes, and what   *)
(* is read in between lies between the two.                                 *)
THEOREM SelectionsOfTheirInput ==
    Numbered /\ Spec /\ [][GoesForward]_vars => []SelectionIsOfItsInput
<1>1. Init => OrderInv
  BY DEF Init, OrderInv, RevisionBehind, ReadInOrder, SelectionIsOfItsInput, Idle, Checked,
     Based, Compared
<1>2. OrderInv => SelectionIsOfItsInput
  BY DEF OrderInv
<1>3. Numbered => Numbered'
  BY DEF Numbered
<1>4. Numbered /\ Spec /\ [][GoesForward]_vars => [](Numbered /\ OrderInv)
  BY <1>1, <1>3, TypeInit, TypeStep, OrderStep, PTL DEF Spec
<1>. QED BY <1>2, <1>4, PTL

-----------------------------------------------------------------------------
(***************************************************************************)
(* Work for the published input is kept.  What a run that holds the        *)
(* admission lock has found obsolete is other work than its own, and stays *)
(* so until it is discarded: no row is added meanwhile, and the worker     *)
(* does not change what a row is for.                                      *)
(***************************************************************************)
PlannedVersion ==
    \A i \in IndexJobs : index[i].pc \in {"enqueue", "push"} => index[i].version = version

ObsoleteDiffers ==
    \A i \in IndexJobs : index[i].pc = "push" =>
        \A e \in index[i].obsolete :
            /\ rows[e].status # "Done"
            /\ IsActive(rows[e]) => ~ (/\ rows[e].fingerprint = index[i].fingerprint
                                       /\ rows[e].version = index[i].version)

WorkInv == PlannedVersion /\ ObsoleteDiffers

(* No row that is found obsolete becomes other work, or is superseded.  (A  *)
(* row that was superseded while it ran is retried if the attempt fails.)   *)
NoNewWork ==
    \A i \in IndexJobs : index'[i].pc = "push" =>
        \A e \in index'[i].obsolete :
            /\ rows'[e].status = "Done" => rows[e].status = "Done"
            /\ IsActive(rows'[e]) =>
                  /\ IsActive(rows[e]) \/ rows[e].status = "Done"
                  /\ rows'[e].fingerprint = rows[e].fingerprint
                  /\ rows'[e].version = rows[e].version

(* A step that plans nothing and selects nothing.                           *)
LEMMA WorkKept ==
    ASSUME TypeInv, WorkInv, NoNewWork, UNCHANGED version,
           \A k \in IndexJobs : index'[k].pc \in {"enqueue", "push"} =>
              /\ index[k].pc = index'[k].pc
              /\ index'[k].fingerprint = index[k].fingerprint
              /\ index'[k].version = index[k].version
              /\ index'[k].obsolete \subseteq index[k].obsolete
    PROVE  WorkInv'
<1>2. PlannedVersion'
  BY DEF WorkInv, PlannedVersion
<1>3. ObsoleteDiffers'
  BY DEF WorkInv, ObsoleteDiffers, NoNewWork
<1>. QED BY <1>2, <1>3 DEF WorkInv

(* The steps of index runs.                                                 *)
LEMMA IndexingWork ==
    ASSUME TypeInv, CoalescedInv, WorkInv, NEW i \in IndexJobs, Indexing(i)
    PROVE  WorkInv'
<1>a. index \in [IndexJobs -> IndexJobState] /\ rows \in [Rows -> RowState]
  BY DEF TypeInv, TypeOK, QueueTypeOK
<1>b. ASSUME UNCHANGED rows PROVE NoNewWork
  BY <1>b DEF NoNewWork
<1>c. ASSUME UNCHANGED <<rows, version>>, NEW new, new.pc \notin {"enqueue", "push"},
             index' = [index EXCEPT ![i] = new]
      PROVE  WorkInv'
  <2>1. index'[i] = new /\ \A k \in IndexJobs \ {i} : index'[k] = index[k]
    BY <1>a, <1>c
  <2>. QED BY <1>b, <1>c, <2>1, WorkKept
<1>1. CASE enqueue_automatic_index(i)
  BY <1>1, <1>c DEF enqueue_automatic_index, push_index_job, NoIndexJob, all_but_index,
     repository
<1>2. CASE index_run(i)
  <2>1. [index[i] EXCEPT !.pc = "plan"].pc \notin {"enqueue", "push"}
    BY <1>a DEF IndexJobState
  <2>. QED BY <1>2, <1>c, <2>1 DEF index_run
<1>3. CASE index_superseded(i) \/ acknowledge_index(i) \/ index_failed(i)
  BY <1>3, <1>c DEF index_superseded, acknowledge_index, index_failed, IndexDone, NoIndexJob,
     all_but_index, repository
<1>4. CASE automatic_enrichment_jobs(i)
  <2>1. \A pc \in {"ack", "fingerprint"} : [index[i] EXCEPT !.pc = pc].pc \notin {"enqueue", "push"}
    BY <1>a DEF IndexJobState
  <2>2. PICK pc \in {"ack", "fingerprint"} : index' = [index EXCEPT ![i] = [index[i] EXCEPT !.pc = pc]]
    BY <1>4 DEF automatic_enrichment_jobs
  <2>. QED BY <1>4, <1>c, <2>1, <2>2 DEF automatic_enrichment_jobs, all_but_index, repository
<1>5. CASE plan_fingerprint(i)
  <2>1. PICK f : f = revision_enrichment_input
    OBVIOUS
  <2>2. index' = [index EXCEPT ![i] = [index[i] EXCEPT !.pc = "enqueue", !.fingerprint = f,
                                                       !.version = version]]
    BY <1>5, <2>1 DEF plan_fingerprint
  <2>3. /\ index'[i].pc = "enqueue" /\ index'[i].version = version
        /\ \A k \in IndexJobs \ {i} : index'[k] = index[k]
    BY <1>a, <2>2 DEF IndexJobState
  <2>4. UNCHANGED <<version, rows>>
    BY <1>5 DEF plan_fingerprint, all_but_index, repository
  <2>. QED BY <2>3, <2>4 DEF WorkInv, PlannedVersion, ObsoleteDiffers
<1>6. CASE select_active_enrichment(i)
  <2>1. UNCHANGED <<version, rows>> /\ index[i].pc = "enqueue"
    BY <1>6 DEF select_active_enrichment, repository
  <2>2. CASE \E e \in Active : Covers(rows[e], i)
    <3>1. index' = [index EXCEPT ![i] = [index[i] EXCEPT !.pc = "ack"]]
      BY <1>6, <2>2 DEF select_active_enrichment
    <3>2. [index[i] EXCEPT !.pc = "ack"].pc \notin {"enqueue", "push"}
      BY <1>a DEF IndexJobState
    <3>. QED BY <1>c, <2>1, <3>1, <3>2
  <2>3. CASE ~ \E e \in Active : Covers(rows[e], i)
    <3>1. PICK obsolete : obsolete = {e \in Active : rows[e].status # "Running"}
      OBVIOUS
    <3>2. index' = [index EXCEPT ![i] = [index[i] EXCEPT !.pc = "push", !.obsolete = obsolete]]
      BY <1>6, <2>3, <3>1 DEF select_active_enrichment
    <3>3. /\ index'[i].obsolete = obsolete
          /\ index'[i].fingerprint = index[i].fingerprint
          /\ index'[i].version = index[i].version
          /\ \A k \in IndexJobs \ {i} : index'[k] = index[k]
      BY <1>a, <3>2 DEF IndexJobState
    <3>4. \A e \in obsolete : /\ rows[e].status # "Done"
                              /\ ~ (/\ rows[e].fingerprint = index[i].fingerprint
                                    /\ rows[e].version = index[i].version)
      BY <2>3, <3>1 DEF Covers, Active, IsActive
    <3>5. PlannedVersion'
      BY <2>1, <3>3 DEF WorkInv, PlannedVersion
    <3>6. ObsoleteDiffers'
      BY <2>1, <3>3, <3>4 DEF WorkInv, ObsoleteDiffers
    <3>. QED BY <3>5, <3>6 DEF WorkInv
  <2>. QED BY <2>2, <2>3
<1>7. ASSUME NEW e \in Rows, supersede_obsolete(i, e) PROVE WorkInv'
  <2>1. /\ \A f \in Rows \ {e} : rows'[f] = rows[f]
        /\ rows'[e].status \in {"Done", "Free"}
    BY <1>7, <1>a DEF supersede_obsolete, NoRow, RowState
  <2>3. /\ index'[i].pc = index[i].pc
        /\ index'[i].fingerprint = index[i].fingerprint
        /\ index'[i].version = index[i].version
        /\ index'[i].obsolete = index[i].obsolete \ {e}
        /\ \A k \in IndexJobs \ {i} : index'[k] = index[k]
    BY <1>7, <1>a DEF supersede_obsolete, IndexJobState
  <2>5. \A k \in IndexJobs \ {i} : index[k].pc # "push"
    BY <1>7 DEF supersede_obsolete, CoalescedInv, AdmissionInv
  <2>2. NoNewWork
    BY <1>a, <2>1, <2>3, <2>5 DEF NoNewWork, IndexJobState
  <2>4. version' = version
    BY <1>7 DEF supersede_obsolete, repository
  <2>. QED BY <2>2, <2>3, <2>4, WorkKept
<1>8. CASE enqueue_automatic_enrichment(i)
  <2>1. /\ index'[i].pc = "ack" /\ version' = version
        /\ \A k \in IndexJobs \ {i} : index'[k] = index[k] /\ index[k].pc # "push"
    BY <1>8, <1>a DEF enqueue_automatic_enrichment, CoalescedInv, AdmissionInv, IndexJobState,
       repository
  <2>. QED BY <2>1 DEF WorkInv, PlannedVersion, ObsoleteDiffers
<1>9. CASE enqueue_failed(i)
  <2>1. UNCHANGED <<version, rows>>
    BY <1>9 DEF enqueue_failed, repository
  <2>2. [NoIndexJob EXCEPT !.pc = "pending", !.trigger = index[i].trigger].pc \notin {"enqueue", "push"}
    BY DEF NoIndexJob
  <2>. QED BY <1>9, <1>c, <2>1, <2>2 DEF enqueue_failed
<1>. QED BY <1>1, <1>2, <1>3, <1>4, <1>5, <1>6, <1>7, <1>8, <1>9 DEF Indexing

(* The row of an attempt is running, or was superseded.                     *)
AttemptRuns == worker.pc # "idle" => rows[worker.row].status \in {"Running", "Done"}

(* It stays so: rows that were given up while they run are marked and not   *)
(* reused.                                                                  *)
LEMMA AttemptStep == TypeInv /\ AttemptRuns /\ [Next]_vars => AttemptRuns'
<1>. SUFFICES ASSUME TypeInv, AttemptRuns, [Next]_vars PROVE AttemptRuns'
  OBVIOUS
<1>a. /\ rows \in [Rows -> RowState] /\ worker \in WorkerState
      /\ worker.pc # "idle" => worker.row \in Rows
  BY DEF TypeInv, TypeOK, QueueTypeOK, WorkerWellFormed
<1>b. ASSUME UNCHANGED <<rows, worker>> PROVE AttemptRuns'
  BY <1>b DEF AttemptRuns
<1>c. ASSUME UNCHANGED rows, worker.pc # "idle", worker'.row = worker.row PROVE AttemptRuns'
  BY <1>c DEF AttemptRuns
<1>d. ASSUME NEW e \in Rows, NEW trigger, NEW fingerprint, NEW prerequisites, NEW expected,
             push_enrichment_job(e, trigger, fingerprint, prerequisites, expected),
             UNCHANGED worker
      PROVE  AttemptRuns'
  <2>1. worker.pc # "idle" => worker.row # e
    BY <1>d DEF AttemptRuns, push_enrichment_job, NoRow
  <2>2. \A f \in Rows \ {e} : rows'[f] = rows[f]
    BY <1>a, <1>d DEF push_enrichment_job
  <2>. QED BY <1>a, <1>d, <2>1, <2>2 DEF AttemptRuns
<1>1. ASSUME NEW c \in Contents, edit(c) PROVE AttemptRuns'
  BY <1>1, <1>b DEF edit
<1>2. ASSUME NEW i \in IndexJobs, Indexing(i) PROVE AttemptRuns'
  <2>1. ASSUME NEW e \in Rows, supersede_obsolete(i, e) PROVE AttemptRuns'
    <3>1. /\ \A f \in Rows \ {e} : rows'[f] = rows[f] /\ worker' = worker
          /\ worker.row = e => rows'[e].status = "Done"
      BY <2>1, <1>a DEF supersede_obsolete, RowState
    <3>. QED BY <1>a, <2>1, <3>1 DEF AttemptRuns, supersede_obsolete
  <2>2. CASE enqueue_automatic_enrichment(i)
    BY <2>2, <1>d DEF enqueue_automatic_enrichment
  <2>3. CASE \/ enqueue_automatic_index(i) \/ index_run(i) \/ index_superseded(i)
             \/ automatic_enrichment_jobs(i) \/ plan_fingerprint(i)
             \/ select_active_enrichment(i) \/ index_failed(i) \/ enqueue_failed(i)
             \/ acknowledge_index(i)
    BY <2>3, <1>b DEF enqueue_automatic_index, index_run, index_superseded,
       automatic_enrichment_jobs, plan_fingerprint, select_active_enrichment, index_failed,
       enqueue_failed, acknowledge_index, all_but_index
  <2>. QED BY <1>2, <2>1, <2>2, <2>3 DEF Indexing
<1>3. CASE Submitting
  <2>1. CASE \/ overlapping_index_jobs \/ manual_enrichment_targets \/ submission_refused
             \/ (\E i \in IndexJobs : submit_index_prerequisite(i))
    BY <2>1, <1>b DEF overlapping_index_jobs, manual_enrichment_targets, submission_refused,
       submit_index_prerequisite
  <2>2. CASE enqueue_manual_enrichment
    <3>1. PICK fingerprint : fingerprint = IF request.prerequisites = {} THEN request.fingerprint
                                           ELSE None
      OBVIOUS
    <3>2. \/ UNCHANGED rows
          \/ \E e \in Rows : push_enrichment_job(e, "manual", fingerprint,
                                                 request.prerequisites, version)
      BY <2>2, <3>1 DEF enqueue_manual_enrichment
    <3>3. worker' = worker
      BY <2>2 DEF enqueue_manual_enrichment
    <3>. QED BY <1>b, <1>d, <3>2, <3>3
  <2>. QED BY <1>3, <2>1, <2>2 DEF Submitting
<1>4. CASE Enriching
  <2>1. ASSUME NEW e \in Rows, start_attempt(e) PROVE AttemptRuns'
    <3>1. worker'.row = e /\ rows'[e].status = "Running"
      BY <2>1, <1>a DEF start_attempt, Idle, RowState
    <3>. QED BY <3>1 DEF AttemptRuns
  <2>2. CASE acknowledge
    BY <2>2 DEF acknowledge, Idle, AttemptRuns
  <2>3. CASE \/ await_prerequisites \/ check_fingerprint \/ check_current \/ enriched
             \/ publish_enrichment \/ attempt_failed
    <3>1. /\ UNCHANGED rows /\ worker.pc # "idle"
          /\ \E pc : worker' = [worker EXCEPT !.pc = pc]
      BY <2>3 DEF await_prerequisites, check_fingerprint, check_current, enriched,
         publish_enrichment, attempt_failed, all_but_worker, Superseded, Goto
    <3>. QED BY <1>a, <1>c, <3>1 DEF WorkerState
  <2>4. CASE read_sources
    <3>1. worker'.row = worker.row
      BY <2>4, <1>a DEF read_sources, Superseded, Goto, WorkerState
    <3>. QED BY <2>4, <1>c, <3>1 DEF read_sources, all_but_worker
  <2>5. CASE read_fingerprint
    <3>1. worker'.row = worker.row
      BY <2>5, <1>a DEF read_fingerprint, Goto, WorkerState
    <3>. QED BY <2>5, <1>c, <3>1 DEF read_fingerprint, all_but_worker
  <2>6. CASE read_baseline
    <3>1. worker'.row = worker.row
      BY <2>6, <1>a DEF read_baseline, WorkerState
    <3>. QED BY <2>6, <1>c, <3>1 DEF read_baseline, all_but_worker
  <2>7. CASE read_inputs
    <3>1. worker'.row = worker.row
      BY <2>7, <1>a DEF read_inputs, Superseded, Goto, WorkerState
    <3>. QED BY <2>7, <1>c, <3>1 DEF read_inputs, all_but_worker
  <2>. QED BY <1>4, <2>1, <2>2, <2>3, <2>4, <2>5, <2>6, <2>7 DEF Enriching
<1>5. CASE stop \/ UNCHANGED vars
  BY <1>5, <1>b DEF stop, vars
<1>6. CASE restart
  BY <1>6 DEF restart, Idle, AttemptRuns
<1>. QED BY <1>1, <1>2, <1>3, <1>4, <1>5, <1>6 DEF Next

(* A failed row is for what it was for, if it is retried.                   *)
LEMMA FailedIsSameWork ==
    ASSUME NEW row \in RowState, IsActive(Failed(row))
    PROVE  /\ Failed(row).fingerprint = row.fingerprint /\ Failed(row).version = row.version
           /\ Failed(row).status # "Done"
  BY DEF Failed, RowState, NoRow, IsActive

(* All steps.                                                               *)
LEMMA WorkStep == TypeInv /\ CoalescedInv /\ WorkInv /\ AttemptRuns /\ [Next]_vars => WorkInv'
<1>. SUFFICES ASSUME TypeInv, CoalescedInv, WorkInv, AttemptRuns, [Next]_vars PROVE WorkInv'
  OBVIOUS
<1>a. index \in [IndexJobs -> IndexJobState] /\ rows \in [Rows -> RowState]
  BY DEF TypeInv, TypeOK, QueueTypeOK
<1>b. ASSUME UNCHANGED <<index, rows, version>> PROVE WorkInv'
  BY <1>b, WorkKept DEF NoNewWork
<1>c. ASSUME UNCHANGED <<index, version>>, NoNewWork PROVE WorkInv'
  BY <1>c, WorkKept
<1>1. ASSUME NEW c \in Contents, edit(c) PROVE WorkInv'
  BY <1>1, <1>b DEF edit
<1>2. CASE Submitting
  <2>1. CASE overlapping_index_jobs \/ manual_enrichment_targets \/ submission_refused
    BY <2>1, <1>b DEF overlapping_index_jobs, manual_enrichment_targets, submission_refused,
       repository
  <2>2. ASSUME NEW i \in IndexJobs, submit_index_prerequisite(i) PROVE WorkInv'
    <3>1. /\ UNCHANGED <<rows, version>>
          /\ index'[i].pc = "pending"
          /\ \A k \in IndexJobs \ {i} : index'[k] = index[k]
      BY <2>2, <1>a DEF submit_index_prerequisite, push_index_job, NoIndexJob, repository
    <3>2. NoNewWork
      BY <3>1 DEF NoNewWork
    <3>. QED BY <3>1, <3>2, WorkKept
  <2>3. CASE enqueue_manual_enrichment
    <3>1. UNCHANGED <<index, version>> /\ admission = None
      BY <2>3 DEF enqueue_manual_enrichment, repository
    <3>2. \A k \in IndexJobs : index[k].pc # "push"
      BY <3>1, EnrichmentJobsAssumption DEF CoalescedInv, AdmissionInv
    <3>. QED BY <3>1, <3>2 DEF WorkInv, PlannedVersion, ObsoleteDiffers
  <2>. QED BY <1>2, <2>1, <2>2, <2>3 DEF Submitting
<1>3. CASE Enriching
  <2>1. ASSUME NEW e \in Rows, start_attempt(e) PROVE WorkInv'
    <3>1. /\ \A f \in Rows \ {e} : rows'[f] = rows[f]
          /\ rows'[e] = [rows[e] EXCEPT !.status = "Running"]
          /\ IsActive(rows[e])
      BY <2>1, <1>a DEF start_attempt, Active
    <3>2. NoNewWork
      BY <3>1, <2>1, <1>a DEF start_attempt, NoNewWork, RowState, IndexJobState
    <3>. QED BY <2>1, <3>2, <1>c DEF start_attempt, repository
  <2>2. CASE acknowledge
    <3>1. worker.row \in Rows /\ rows[worker.row].status \in {"Running", "Done"}
      BY <2>2 DEF acknowledge, TypeInv, WorkerWellFormed, AttemptRuns
    <3>2. /\ \A f \in Rows \ {worker.row} : rows'[f] = rows[f]
          /\ rows'[worker.row] \in {NoRow, Failed(rows[worker.row])}
      BY <2>2, <3>1, <1>a DEF acknowledge
    <3>3. ~ IsActive(NoRow)
      BY DEF IsActive, NoRow
    <3>4. IsActive(rows[worker.row]) \/ rows[worker.row].status = "Done"
      BY <3>1 DEF IsActive
    <3>5. Failed(rows[worker.row]).status # "Done" /\ NoRow.status # "Done"
      BY <1>a, <3>1 DEF Failed, NoRow, RowState
    <3>6. index' = index /\ \A k \in IndexJobs : index[k].obsolete \subseteq Rows
      BY <2>2, <1>a DEF acknowledge, IndexJobState
    <3>7. NoNewWork
      BY <1>a, <3>1, <3>2, <3>3, <3>4, <3>5, <3>6, FailedIsSameWork DEF NoNewWork
    <3>. QED BY <2>2, <3>7, <1>c DEF acknowledge, repository
  <2>3. CASE \/ await_prerequisites \/ read_sources \/ read_fingerprint
             \/ check_fingerprint \/ read_baseline \/ read_inputs
             \/ check_current \/ enriched \/ publish_enrichment
             \/ attempt_failed
    BY <2>3, <1>b DEF await_prerequisites, read_sources, read_fingerprint,
       check_fingerprint, read_baseline, read_inputs, check_current, enriched,
       publish_enrichment, attempt_failed, all_but_worker, repository
  <2>. QED BY <1>3, <2>1, <2>2, <2>3 DEF Enriching
<1>4. CASE stop \/ UNCHANGED vars
  BY <1>4, <1>b DEF stop, vars, repository
<1>5. CASE restart
  <2>1. \A i \in IndexJobs : index'[i].pc \notin {"enqueue", "push"}
    BY <1>5, <1>a DEF restart, index_active, NoIndexJob
  <2>. QED BY <2>1 DEF WorkInv, PlannedVersion, ObsoleteDiffers
<1>. QED BY <1>1, <1>2, <1>3, <1>4, <1>5, IndexingWork DEF Next

(* What PublishedWorkIsKept says of a step.                                 *)
KeepsPublished ==
    \A e \in Active :
         /\ rows[e].status # "Running"
         /\ rows[e].fingerprint # None
         /\ rows[e].fingerprint = revision_enrichment_input
         /\ rows[e].version = version
         /\ ~IsActive(rows'[e])
         => \E i \in IndexJobs : /\ admission = i /\ index[i].pc = "push"
                                 /\ index[i].fingerprint # revision_enrichment_input

(* Only a run that planned for another input discards such a row.           *)
LEMMA PublishedStep ==
    TypeInv /\ CoalescedInv /\ WorkInv /\ AttemptRuns /\ [Next]_vars => [KeepsPublished]_vars
<1>. SUFFICES ASSUME TypeInv, CoalescedInv, WorkInv, AttemptRuns, Next,
                     NEW e \in Rows, IsActive(rows[e]), rows[e].status # "Running",
                     rows[e].fingerprint = revision_enrichment_input,
                     rows[e].version = version, ~IsActive(rows'[e])
              PROVE  \E i \in IndexJobs : /\ admission = i /\ index[i].pc = "push"
                                          /\ index[i].fingerprint # revision_enrichment_input
  BY DEF KeepsPublished, Active
<1>a. index \in [IndexJobs -> IndexJobState] /\ rows \in [Rows -> RowState]
  BY DEF TypeInv, TypeOK, QueueTypeOK
<1>b. rows[e].status \in {"Pending", "Failed"} /\ rows[e] # NoRow
  BY DEF IsActive, NoRow
<1>c. rows'[e] # rows[e]
  OBVIOUS
<1>1. ASSUME NEW c \in Contents, edit(c) PROVE FALSE
  BY <1>1, <1>c DEF edit
<1>2. ASSUME NEW i \in IndexJobs, Indexing(i)
      PROVE  /\ admission = i /\ index[i].pc = "push"
             /\ index[i].fingerprint # revision_enrichment_input
  <2>1. ASSUME NEW f \in Rows, supersede_obsolete(i, f)
        PROVE  /\ admission = i /\ index[i].pc = "push"
               /\ index[i].fingerprint # revision_enrichment_input
    <3>1. f = e
      BY <2>1, <1>a, <1>c DEF supersede_obsolete
    <3>2. index[i].pc = "push" /\ e \in index[i].obsolete
      BY <2>1, <3>1 DEF supersede_obsolete
    <3>3. admission = i /\ index[i].version = version
      BY <3>2 DEF CoalescedInv, AdmissionInv, WorkInv, PlannedVersion
    <3>. QED BY <3>2, <3>3 DEF WorkInv, ObsoleteDiffers
  <2>2. CASE enqueue_automatic_enrichment(i)
    BY <2>2, <1>a, <1>b, <1>c DEF enqueue_automatic_enrichment, push_enrichment_job
  <2>3. CASE \/ enqueue_automatic_index(i) \/ index_run(i) \/ index_superseded(i)
             \/ automatic_enrichment_jobs(i) \/ plan_fingerprint(i)
             \/ select_active_enrichment(i) \/ index_failed(i) \/ enqueue_failed(i)
             \/ acknowledge_index(i)
    BY <2>3, <1>c DEF enqueue_automatic_index, index_run, index_superseded,
       automatic_enrichment_jobs, plan_fingerprint, select_active_enrichment, index_failed,
       enqueue_failed, acknowledge_index, all_but_index
  <2>. QED BY <1>2, <2>1, <2>2, <2>3 DEF Indexing
<1>3. CASE Submitting
  <2>1. CASE \/ overlapping_index_jobs \/ manual_enrichment_targets \/ submission_refused
             \/ (\E i \in IndexJobs : submit_index_prerequisite(i))
    BY <2>1, <1>c DEF overlapping_index_jobs, manual_enrichment_targets, submission_refused,
       submit_index_prerequisite
  <2>2. CASE enqueue_manual_enrichment
    <3>1. PICK f \in Rows : rows[f] = NoRow /\ \A g \in Rows \ {f} : rows'[g] = rows[g]
      BY <2>2, <1>a, <1>c DEF enqueue_manual_enrichment, push_enrichment_job
    <3>. QED BY <3>1, <1>b, <1>c
  <2>. QED BY <1>3, <2>1, <2>2 DEF Submitting
<1>4. CASE Enriching
  <2>1. ASSUME NEW f \in Rows, start_attempt(f) PROVE FALSE
    <3>1. rows'[e].status \in {rows[e].status, "Running"} /\ rows'[e].attempts = rows[e].attempts
      BY <2>1, <1>a DEF start_attempt, RowState
    <3>. QED BY <3>1 DEF IsActive
  <2>2. CASE acknowledge
    <3>1. worker.row # e
      BY <2>2, <1>b DEF acknowledge, AttemptRuns
    <3>. QED BY <2>2, <3>1, <1>a, <1>c DEF acknowledge
  <2>3. CASE \/ await_prerequisites \/ read_sources \/ read_fingerprint
             \/ check_fingerprint \/ read_baseline \/ read_inputs
             \/ check_current \/ enriched \/ publish_enrichment
             \/ attempt_failed
    BY <2>3, <1>c DEF await_prerequisites, read_sources, read_fingerprint,
       check_fingerprint, read_baseline, read_inputs, check_current, enriched,
       publish_enrichment, attempt_failed, all_but_worker
  <2>. QED BY <1>4, <2>1, <2>2, <2>3 DEF Enriching
<1>5. CASE stop
  BY <1>5, <1>c DEF stop
<1>6. CASE restart
  BY <1>6, <1>b, <1>c DEF restart, recover
<1>. QED BY <1>1, <1>2, <1>3, <1>4, <1>5, <1>6 DEF Next

(* For any number of runs, automatic and manual, edits, failures and        *)
(* crashes: a row that waits to enrich the published input is discarded     *)
(* only by enqueue_automatic_enrichment of a run that planned for another   *)
(* input.  A run that planned for the published one finds the row and       *)
(* leaves it, and nothing else discards rows that wait.                     *)
THEOREM PublishedKept == Spec => PublishedWorkIsKept
<1>1. Init => CoalescedInv /\ WorkInv /\ AttemptRuns
  BY DEF Init, CoalescedInv, AdmissionInv, SelectedInv, QueueIsCoalesced, FirstAttempts, Active,
     IsActive, NoRow, NoIndexJob, WorkInv, PlannedVersion, ObsoleteDiffers, AttemptRuns, Idle
<1>2. Spec => [](TypeInv /\ CoalescedInv /\ WorkInv /\ AttemptRuns)
  BY <1>1, TypeInit, TypeStep, CoalescedStep, WorkStep, AttemptStep, PTL DEF Spec
<1>3. Spec => [][KeepsPublished]_vars
  BY <1>2, PublishedStep, PTL DEF Spec
<1>4. [KeepsPublished]_vars <=> [\A e \in Active :
         /\ rows[e].status # "Running"
         /\ rows[e].fingerprint # None
         /\ rows[e].fingerprint = revision_enrichment_input
         /\ rows[e].version = version
         /\ ~IsActive(rows'[e])
         => \E i \in IndexJobs : /\ admission = i /\ index[i].pc = "push"
                                 /\ index[i].fingerprint # revision_enrichment_input]_vars
  BY DEF KeepsPublished
<1>. QED BY <1>3, <1>4, PTL DEF PublishedWorkIsKept
=============================================================================
