----------------------------- MODULE DirtyIntents -----------------------------
(***************************************************************************)
(* The reduction of filesystem events to repository intents.               *)
(*                                                                         *)
(* crates/daemon/src/indexing/scheduler.rs keeps, per workspace and        *)
(* repository, one DirtyRepository: which paths the watcher named since    *)
(* the last completed generation, or a promise to reconcile everything.    *)
(* add_event folds the paths of one event into a pending DirtyRepository   *)
(* and merges it; enqueue_dirty writes it into a durable job (durable) and *)
(* the run of that job reads it back (from_durable).  This module models   *)
(* one repository of one workspace.                                        *)
(***************************************************************************)
EXTENDS Naturals, FiniteSets

CONSTANTS
    Paths,              \* relative paths inside the repository
    MAX_PENDING_PATHS,  \* 1024 in the code
    MAX_PENDING_EVENTS, \* 4096 in the code
    MaxGeneration,      \* bound on the number of reports between completions
    NoJob               \* no durable job holds intents of this repository

ASSUME DirtyIntentsAssumption ==
    /\ MAX_PENDING_PATHS \in Nat
    /\ MAX_PENDING_EVENTS \in Nat
    /\ MaxGeneration \in Nat
    /\ IsFiniteSet(Paths)

(* struct DirtyRepository.  events is a saturating counter that is only     *)
(* ever compared with MAX_PENDING_EVENTS, so it is kept up to one above.    *)
EventCount == 0..(MAX_PENDING_EVENTS + 1)

DirtyRepository ==
    [all : BOOLEAN, reconcile : BOOLEAN, head : BOOLEAN,
     sources : SUBSET Paths, configuration : SUBSET Paths,
     events : EventCount]

Clean == [all |-> FALSE, reconcile |-> FALSE, head |-> FALSE,
          sources |-> {}, configuration |-> {}, events |-> 0]

(* RepositoryChange of jobs.rs, the form in which a durable job stores it.  *)
DurableChange ==
    [kind : {"SourcePath", "ConfigurationPath"}, path : Paths]
        \cup [kind : {"Head", "Reconciliation"}]

SaturatingAdd(a, b) ==
    IF a + b > MAX_PENDING_EVENTS THEN MAX_PENDING_EVENTS + 1 ELSE a + b

authoritative(d) == d.all \/ d.reconcile

paths(d) == d.sources \cup d.configuration

path_count(d) == Cardinality(d.sources) + Cardinality(d.configuration)

is_empty(d) == ~d.all /\ ~d.reconcile /\ ~d.head /\ paths(d) = {}

(***************************************************************************)
(* DirtyRepository::apply, one operator per intent.                        *)
(***************************************************************************)
ApplyAll(d) ==
    [d EXCEPT !.all = TRUE, !.reconcile = FALSE,
              !.sources = {}, !.configuration = {}]

ApplyReconcile(d) ==
    IF d.all THEN d
    ELSE [d EXCEPT !.reconcile = TRUE, !.sources = {}, !.configuration = {}]

ApplyHead(d, head) == [d EXCEPT !.head = @ \/ head]

ApplyPaths(d, sources, configuration) ==
    IF authoritative(d) THEN d
    ELSE [d EXCEPT !.sources = @ \cup sources,
                   !.configuration = @ \cup configuration]

(* Mutated form of CountEvents: only the number of events is limited.       *)
MutantCountEventsOnly(d, n) ==
    LET counted == [d EXCEPT !.events = SaturatingAdd(@, n)]
    IN IF counted.events > MAX_PENDING_EVENTS
       THEN ApplyReconcile(counted)
       ELSE counted

(* The overflow rule shared by record_event and merge.                      *)
CountEvents(d, n) ==
    LET counted == [d EXCEPT !.events = SaturatingAdd(@, n)]
    IN IF \/ counted.events > MAX_PENDING_EVENTS
          \/ path_count(counted) > MAX_PENDING_PATHS
       THEN ApplyReconcile(counted)
       ELSE counted

record_event(d) == CountEvents(d, 1)

merge(d, incoming) ==
    LET folded ==
          IF incoming.all THEN ApplyAll(d)
          ELSE IF incoming.reconcile THEN ApplyReconcile(d)
          ELSE ApplyPaths(ApplyHead(d, incoming.head),
                          incoming.sources, incoming.configuration)
    IN CountEvents(folded, incoming.events)

(* DirtyRepository::durable; the order of the vector never matters.         *)
durable(d) ==
    (IF authoritative(d)
     THEN {[kind |-> "Reconciliation"]}
     ELSE {[kind |-> "SourcePath", path |-> p] : p \in d.sources}
            \cup {[kind |-> "ConfigurationPath", path |-> p] :
                    p \in d.configuration})
        \cup (IF d.head THEN {[kind |-> "Head"]} ELSE {})

OfKind(changes, kind) == {c \in changes : c.kind = kind}

from_durable(changes) ==
    LET reconciled == IF OfKind(changes, "Reconciliation") # {}
                      THEN ApplyReconcile(Clean) ELSE Clean
    IN ApplyPaths(ApplyHead(reconciled, OfKind(changes, "Head") # {}),
                  {c.path : c \in OfKind(changes, "SourcePath")},
                  {c.path : c \in OfKind(changes, "ConfigurationPath")})

(***************************************************************************)
(* One notify event, after classification of its paths: administrative Git *)
(* paths (head), source inputs, configuration inputs, and structural       *)
(* changes of paths no analyzer accepts (structural).  Ignored paths and   *)
(* Access events leave nothing.                                            *)
(***************************************************************************)
Event ==
    {e \in [head : BOOLEAN, structural : BOOLEAN,
            sources : SUBSET Paths, configuration : SUBSET Paths] :
        e.sources \cap e.configuration = {}}

PendingOf(e) ==
    LET named == ApplyPaths(ApplyHead(Clean, e.head),
                            e.sources, e.configuration)
    IN IF e.structural THEN ApplyReconcile(named) ELSE named

-----------------------------------------------------------------------------
VARIABLES
    generation,    \* the entry of generations, 0 when there is none
    dirty,         \* the entry of dirty_repositories (Clean: no entry)
    job,           \* repository_intents of the queued automatic job, or NoJob
    jobGeneration, \* the generation the job was submitted for
    owed,          \* ghost: what was reported and not yet indexed
    jobOwed,       \* ghost: owed when the job was submitted
    since          \* ghost: what was reported after the job was submitted

vars == <<generation, dirty, job, jobGeneration, owed, jobOwed, since>>

Owed == [head : BOOLEAN, everything : BOOLEAN, paths : SUBSET Paths]

NothingOwed == [head |-> FALSE, everything |-> FALSE, paths |-> {}]

Report(o, r) == [head |-> o.head \/ r.head,
                 everything |-> o.everything \/ r.everything,
                 paths |-> o.paths \cup r.paths]

Init ==
    /\ generation = 0
    /\ dirty = Clean
    /\ job = NoJob
    /\ jobGeneration = 0
    /\ owed = NothingOwed
    /\ jobOwed = NothingOwed
    /\ since = NothingOwed

(* *generations.entry(workspace).or_default() += 1, and the report r the    *)
(* new generation stands for.                                               *)
NextGeneration(r) ==
    /\ generation < MaxGeneration
    /\ generation' = generation + 1
    /\ owed' = Report(owed, r)
    /\ since' = Report(since, r)
    /\ UNCHANGED <<job, jobGeneration, jobOwed>>

(* add_event for one repository: an event that leaves pending empty is      *)
(* dropped, any other is counted and merged.                                *)
add_event(e) ==
    /\ ~is_empty(PendingOf(e))
    /\ dirty' = merge(dirty, record_event(PendingOf(e)))
    /\ NextGeneration([head |-> e.head, everything |-> e.structural,
                       paths |-> e.sources \cup e.configuration])

reconcile_after_watcher_error ==
    /\ dirty' = ApplyReconcile(dirty)
    /\ NextGeneration([NothingOwed EXCEPT !.everything = TRUE])

(* mark replaces the entry, it does not merge into it.                      *)
mark ==
    /\ dirty' = ApplyAll(Clean)
    /\ NextGeneration([NothingOwed EXCEPT !.everything = TRUE])

(* enqueue_dirty copies the entry into the job of the current generation.   *)
enqueue_dirty ==
    /\ generation # 0
    /\ job = NoJob
    /\ job' = durable(dirty)
    /\ jobGeneration' = generation
    /\ jobOwed' = owed
    /\ since' = NothingOwed
    /\ UNCHANGED <<generation, dirty, owed>>

(* Mutated form of complete_generation: the generation is not compared.     *)
MutantCompleteAnyGeneration(indexed) ==
    generation' = 0 /\ dirty' = Clean /\ owed' = since

(* complete_generation removes both entries, and only when the generation   *)
(* is still the one that was indexed.  What was reported since the job was  *)
(* submitted has not been indexed and stays owed.                           *)
complete_generation(indexed) ==
    IF generation = indexed
    THEN generation' = 0 /\ dirty' = Clean /\ owed' = since
    ELSE UNCHANGED <<generation, dirty, owed>>

(* The job of an automatic run ends.  A superseded run completes a          *)
(* generation that is no longer current, which changes nothing.             *)
job_finished ==
    /\ job # NoJob
    /\ complete_generation(jobGeneration)
    /\ job' = NoJob
    /\ jobGeneration' = 0
    /\ jobOwed' = NothingOwed
    /\ since' = NothingOwed

(* The last attempt of the job failed: nothing is completed.                *)
job_failed ==
    /\ job # NoJob
    /\ job' = NoJob
    /\ jobGeneration' = 0
    /\ jobOwed' = NothingOwed
    /\ since' = NothingOwed
    /\ UNCHANGED <<generation, dirty, owed>>

Next ==
    \/ \E e \in Event : add_event(e)
    \/ reconcile_after_watcher_error
    \/ mark
    \/ enqueue_dirty
    \/ job_finished
    \/ job_failed

Spec == Init /\ [][Next]_vars
-----------------------------------------------------------------------------
(* Every variable has its type; in particular the event counter of a        *)
(* repository saturates.                                                    *)
TypeOK ==
    /\ generation \in 0..MaxGeneration
    /\ jobGeneration \in 0..MaxGeneration
    /\ dirty \in DirtyRepository
    /\ job = NoJob \/ job \subseteq DurableChange
    /\ owed \in Owed
    /\ jobOwed \in Owed
    /\ since \in Owed

(* d promises at least the work o stands for.  A reconciliation re-reads    *)
(* every input and the Git state, so it also covers paths and HEAD.         *)
Covers(d, o) ==
    \/ authoritative(d)
    \/ ~o.everything /\ o.paths \subseteq paths(d) /\ (o.head => d.head)

(* Whatever the watcher reported is still covered by the pending intents,   *)
(* however many merges, overflows and promotions lie in between, and is     *)
(* covered by the intents the durable job hands to the run that replays it. *)
NoIntentLost ==
    /\ Covers(dirty, owed)
    /\ job # NoJob => Covers(from_durable(job), jobOwed)

(* The pending intents of a repository stay bounded during a watcher storm: *)
(* never more paths than the limit, and no paths once everything is to be   *)
(* reconciled.                                                              *)
BoundedPending ==
    /\ path_count(dirty) <= MAX_PENDING_PATHS
    /\ authoritative(dirty) => paths(dirty) = {}
=============================================================================
