---------------------------- MODULE InventoryProofs ----------------------------
(***************************************************************************)
(* Proofs about Inventory, for any paths, limits and bounds: a hint vouches *)
(* for the content it was taken with, and a completed generation is what   *)
(* is on disk.                                                             *)
(*                                                                         *)
(* The argument.  Edits are numbered, so an entry whose hint is the number *)
(* of the edit that wrote the file was read after that edit.  What hints   *)
(* cannot tell, an edit without a trace in the metadata, is accounted for: *)
(* its path is still to be reported, is pending, or is recorded as         *)
(* forgotten.  While the generation of a run is the current one nothing    *)
(* was reported since it began, so that what it has read is on disk but    *)
(* for changes still to be reported.                                       *)
(***************************************************************************)
EXTENDS Inventory, FiniteSetTheorems, WellFoundedInduction, TLAPS

(***************************************************************************)
(* The pending intents: the proofs about DirtyIntents, for every set of    *)
(* paths and every limit, that hold of its own specification and that the  *)
(* proofs about Inventory use.                                             *)
(***************************************************************************)
(* The job is of the current generation or of an earlier one, and when it   *)
(* is of the current one, nothing was reported since it was submitted: what *)
(* makes the comparison in complete_generation a sound test.                *)
JobIsCurrentOrOlder ==
    job # NoJob =>
        /\ jobGeneration \in 1..generation
        /\ jobGeneration = generation => since = NothingOwed

(* A generation that was never marked or was completed has nothing pending. *)
CleanWithoutGeneration ==
    generation = 0 => dirty = Clean /\ owed = NothingOwed

IInv ==
    /\ TypeOK
    /\ NoIntentLost
    /\ BoundedPending
    /\ JobIsCurrentOrOlder
    /\ CleanWithoutGeneration

(***************************************************************************)
(* The operators on DirtyRepository.                                       *)
(***************************************************************************)
(* A set of pending paths has a natural number of members.                  *)
LEMMA PathCountType ==
    ASSUME NEW d \in DirtyRepository
    PROVE  path_count(d) \in Nat
<1>1. IsFiniteSet(d.sources) /\ IsFiniteSet(d.configuration)
  BY DirtyIntentsAssumption, FS_Subset DEF DirtyRepository
<1>. QED
  BY <1>1, FS_CardinalityType DEF path_count

(* A repository that is to be reconciled has no pending path.               *)
Collapsed(d) == authoritative(d) => paths(d) = {}

(* Every form of apply yields a DirtyRepository and keeps it collapsed.     *)
LEMMA ApplyType ==
    ASSUME NEW d \in DirtyRepository, Collapsed(d),
           NEW h \in BOOLEAN, NEW s \in SUBSET Paths, NEW c \in SUBSET Paths
    PROVE  /\ ApplyAll(d) \in DirtyRepository
           /\ Collapsed(ApplyAll(d))
           /\ ApplyReconcile(d) \in DirtyRepository
           /\ Collapsed(ApplyReconcile(d))
           /\ ApplyHead(d, h) \in DirtyRepository
           /\ Collapsed(ApplyHead(d, h))
           /\ ApplyPaths(d, s, c) \in DirtyRepository
           /\ Collapsed(ApplyPaths(d, s, c))
  BY DEF DirtyRepository, Collapsed, authoritative, paths,
         ApplyAll, ApplyReconcile, ApplyHead, ApplyPaths

(* The saturating counter stays in its range.                               *)
LEMMA SaturatingAddType ==
    ASSUME NEW a \in EventCount, NEW b \in EventCount
    PROVE  SaturatingAdd(a, b) \in EventCount
  BY DirtyIntentsAssumption DEF EventCount, SaturatingAdd

(* Counting events respects the path limit and only ever widens a promise.  *)
LEMMA CountEventsBounds ==
    ASSUME NEW d \in DirtyRepository, Collapsed(d), NEW n \in EventCount
    PROVE  /\ CountEvents(d, n) \in DirtyRepository
           /\ Collapsed(CountEvents(d, n))
           /\ path_count(CountEvents(d, n)) <= MAX_PENDING_PATHS
           /\ authoritative(d) => authoritative(CountEvents(d, n))
           /\ ~authoritative(CountEvents(d, n)) =>
                 /\ paths(CountEvents(d, n)) = paths(d)
           /\ CountEvents(d, n).head = d.head
<1>. DEFINE counted == [d EXCEPT !.events = SaturatingAdd(@, n)]
<1>1. /\ counted \in DirtyRepository
      /\ counted.all = d.all /\ counted.reconcile = d.reconcile
      /\ counted.head = d.head
      /\ counted.sources = d.sources
      /\ counted.configuration = d.configuration
  BY SaturatingAddType DEF DirtyRepository
<1>2. Collapsed(counted) /\ paths(counted) = paths(d)
      /\ (authoritative(counted) <=> authoritative(d))
  BY <1>1 DEF Collapsed, authoritative, paths
<1>3. ApplyReconcile(counted) \in DirtyRepository
      /\ Collapsed(ApplyReconcile(counted))
  BY <1>1, <1>2, ApplyType
<1>4. authoritative(ApplyReconcile(counted))
      /\ ApplyReconcile(counted).head = d.head
  BY <1>1 DEF ApplyReconcile, authoritative, DirtyRepository
<1>5. path_count(ApplyReconcile(counted)) = 0
  <2>1. ApplyReconcile(counted).sources = {}
        /\ ApplyReconcile(counted).configuration = {}
    BY <1>3, <1>4 DEF Collapsed, paths
  <2>. QED BY <2>1, FS_EmptySet DEF path_count
<1>6. path_count(counted) \in Nat /\ counted.events \in EventCount
  BY <1>1, PathCountType DEF DirtyRepository
<1>. HIDE DEF counted
<1>7. CASE counted.events > MAX_PENDING_EVENTS
           \/ path_count(counted) > MAX_PENDING_PATHS
  <2>1. CountEvents(d, n) = ApplyReconcile(counted)
    BY <1>7 DEF CountEvents, counted
  <2>. QED BY <2>1, <1>3, <1>4, <1>5, DirtyIntentsAssumption
<1>8. CASE ~(counted.events > MAX_PENDING_EVENTS
             \/ path_count(counted) > MAX_PENDING_PATHS)
  <2>1. CountEvents(d, n) = counted
    BY <1>8 DEF CountEvents, counted
  <2>. QED BY <2>1, <1>1, <1>2, <1>6, <1>8, DirtyIntentsAssumption
<1>. QED BY <1>7, <1>8

(* merge keeps every promise of d and takes over every promise of the       *)
(* incoming intents; HEAD alone may be dropped, and only by an incoming     *)
(* batch that reconciles everything.                                        *)
LEMMA MergeCovers ==
    ASSUME NEW d \in DirtyRepository, Collapsed(d),
           NEW i \in DirtyRepository, Collapsed(i)
    PROVE  /\ merge(d, i) \in DirtyRepository
           /\ Collapsed(merge(d, i))
           /\ path_count(merge(d, i)) <= MAX_PENDING_PATHS
           /\ authoritative(d) \/ authoritative(i) => authoritative(merge(d, i))
           /\ ~authoritative(merge(d, i)) =>
                 /\ paths(merge(d, i)) = paths(d) \cup paths(i)
                 /\ merge(d, i).head = (d.head \/ i.head)
<1>. DEFINE folded ==
          IF i.all THEN ApplyAll(d)
          ELSE IF i.reconcile THEN ApplyReconcile(d)
          ELSE ApplyPaths(ApplyHead(d, i.head), i.sources, i.configuration)
<1>0. i.head \in BOOLEAN /\ i.sources \in SUBSET Paths
      /\ i.configuration \in SUBSET Paths /\ i.events \in EventCount
  BY DEF DirtyRepository
<1>1. folded \in DirtyRepository /\ Collapsed(folded)
  <2>1. ApplyHead(d, i.head) \in DirtyRepository
        /\ Collapsed(ApplyHead(d, i.head))
    BY <1>0, ApplyType
  <2>2. ApplyPaths(ApplyHead(d, i.head), i.sources, i.configuration)
            \in DirtyRepository
        /\ Collapsed(ApplyPaths(ApplyHead(d, i.head), i.sources,
                                i.configuration))
    BY <1>0, <2>1, ApplyType
  <2>. QED BY <1>0, <2>2, ApplyType
<1>2. authoritative(d) \/ authoritative(i) => authoritative(folded)
  BY DEF authoritative, ApplyAll, ApplyReconcile, ApplyPaths, ApplyHead,
         DirtyRepository
<1>3. ~authoritative(folded) =>
        /\ paths(folded) = paths(d) \cup paths(i)
        /\ folded.head = (d.head \/ i.head)
  BY DEF authoritative, paths, ApplyAll, ApplyReconcile, ApplyPaths, ApplyHead,
         DirtyRepository
<1>4. merge(d, i) = CountEvents(folded, i.events)
  BY DEF merge
<1>. HIDE DEF folded
<1>. QED BY <1>0, <1>1, <1>2, <1>3, <1>4, CountEventsBounds

(* What an event leaves pending covers what the event reports.              *)
LEMMA PendingCovers ==
    ASSUME NEW e \in Event
    PROVE  LET p == record_event(PendingOf(e)) IN
           /\ p \in DirtyRepository
           /\ Collapsed(p)
           /\ e.structural => authoritative(p)
           /\ ~authoritative(p) =>
                 /\ paths(p) = e.sources \cup e.configuration
                 /\ p.head = e.head
<1>. DEFINE named == ApplyPaths(ApplyHead(Clean, e.head), e.sources,
                                e.configuration)
<1>1. e.head \in BOOLEAN /\ e.structural \in BOOLEAN
      /\ e.sources \in SUBSET Paths /\ e.configuration \in SUBSET Paths
  BY DEF Event
<1>2. Clean \in DirtyRepository /\ Collapsed(Clean) /\ ~authoritative(Clean)
      /\ 1 \in EventCount
  BY DirtyIntentsAssumption
  DEF Clean, DirtyRepository, EventCount, Collapsed, paths, authoritative
<1>3. ApplyHead(Clean, e.head) \in DirtyRepository
      /\ Collapsed(ApplyHead(Clean, e.head))
  BY <1>1, <1>2, ApplyType
<1>4. named \in DirtyRepository /\ Collapsed(named)
  BY <1>1, <1>3, ApplyType
<1>5. paths(named) = e.sources \cup e.configuration /\ named.head = e.head
  BY <1>1 DEF Clean, ApplyHead, ApplyPaths, authoritative, paths
<1>6. ApplyReconcile(named) \in DirtyRepository
      /\ Collapsed(ApplyReconcile(named))
  BY <1>4, ApplyType
<1>7. authoritative(ApplyReconcile(named))
  BY <1>4 DEF ApplyReconcile, authoritative, DirtyRepository
<1>8. PendingOf(e) = IF e.structural THEN ApplyReconcile(named) ELSE named
  BY DEF PendingOf
<1>. HIDE DEF named
<1>9. record_event(PendingOf(e)) = CountEvents(PendingOf(e), 1)
  BY DEF record_event
<1>10. CASE e.structural
  BY <1>10, <1>2, <1>6, <1>7, <1>8, <1>9, CountEventsBounds
<1>11. CASE ~e.structural
  BY <1>11, <1>2, <1>4, <1>5, <1>8, <1>9, CountEventsBounds
<1>. QED BY <1>1, <1>10, <1>11

(* The round trip through a durable job keeps every promise.                *)
LEMMA DurableRoundTrip ==
    ASSUME NEW d \in DirtyRepository, Collapsed(d)
    PROVE  /\ durable(d) \subseteq DurableChange
           /\ authoritative(d) <=> authoritative(from_durable(durable(d)))
           /\ ~authoritative(d) =>
                 /\ paths(from_durable(durable(d))) = paths(d)
                 /\ from_durable(durable(d)).head = d.head
<1>. DEFINE c == durable(d)
<1>1. c \subseteq DurableChange
  BY DEF durable, DurableChange, DirtyRepository
<1>2. (OfKind(c, "Head") # {}) <=> d.head
  <2>1. d.head => [kind |-> "Head"] \in OfKind(c, "Head")
    BY DEF OfKind, durable
  <2>2. ASSUME NEW x \in OfKind(c, "Head") PROVE d.head
    <3>1. x \in c /\ x.kind = "Head"
      BY DEF OfKind
    <3>2. x # [kind |-> "Reconciliation"]
      BY <3>1
    <3>3. \A p : /\ x # [kind |-> "SourcePath", path |-> p]
                 /\ x # [kind |-> "ConfigurationPath", path |-> p]
      BY <3>1
    <3>. QED BY <3>1, <3>2, <3>3 DEF durable
  <2>. QED BY <2>1, <2>2
<1>3. (OfKind(c, "Reconciliation") # {}) <=> authoritative(d)
  <2>1. authoritative(d) =>
            [kind |-> "Reconciliation"] \in OfKind(c, "Reconciliation")
    BY DEF OfKind, durable
  <2>2. ASSUME NEW x \in OfKind(c, "Reconciliation") PROVE authoritative(d)
    <3>1. x \in c /\ x.kind = "Reconciliation"
      BY DEF OfKind
    <3>2. x # [kind |-> "Head"]
      BY <3>1
    <3>3. \A p : /\ x # [kind |-> "SourcePath", path |-> p]
                 /\ x # [kind |-> "ConfigurationPath", path |-> p]
      BY <3>1
    <3>. QED BY <3>1, <3>2, <3>3 DEF durable
  <2>. QED BY <2>1, <2>2
<1>4. ASSUME ~authoritative(d)
      PROVE  /\ {x.path : x \in OfKind(c, "SourcePath")} = d.sources
             /\ {x.path : x \in OfKind(c, "ConfigurationPath")}
                    = d.configuration
  <2>1. ASSUME NEW p \in d.sources
        PROVE  [kind |-> "SourcePath", path |-> p] \in OfKind(c, "SourcePath")
    BY <1>4 DEF OfKind, durable
  <2>2. ASSUME NEW p \in d.configuration
        PROVE  [kind |-> "ConfigurationPath", path |-> p]
                    \in OfKind(c, "ConfigurationPath")
    BY <1>4 DEF OfKind, durable
  <2>3. ASSUME NEW x \in OfKind(c, "SourcePath") PROVE x.path \in d.sources
    <3>1. x \in c /\ x.kind = "SourcePath"
      BY DEF OfKind
    <3>2. x # [kind |-> "Head"]
      BY <3>1
    <3>3. \A p : x # [kind |-> "ConfigurationPath", path |-> p]
      BY <3>1
    <3>4. \E p \in d.sources : x = [kind |-> "SourcePath", path |-> p]
      BY <1>4, <3>1, <3>2, <3>3 DEF durable
    <3>. QED BY <3>4
  <2>4. ASSUME NEW x \in OfKind(c, "ConfigurationPath")
        PROVE  x.path \in d.configuration
    <3>1. x \in c /\ x.kind = "ConfigurationPath"
      BY DEF OfKind
    <3>2. x # [kind |-> "Head"]
      BY <3>1
    <3>3. \A p : x # [kind |-> "SourcePath", path |-> p]
      BY <3>1
    <3>4. \E p \in d.configuration :
             x = [kind |-> "ConfigurationPath", path |-> p]
      BY <1>4, <3>1, <3>2, <3>3 DEF durable
    <3>. QED BY <3>4
  <2>. HIDE DEF c
  <2>5. {x.path : x \in OfKind(c, "SourcePath")} = d.sources
    <3>1. \A p \in d.sources : p = [kind |-> "SourcePath", path |-> p].path
      OBVIOUS
    <3>. QED BY <2>1, <2>3, <3>1
  <2>6. {x.path : x \in OfKind(c, "ConfigurationPath")} = d.configuration
    <3>1. \A p \in d.configuration :
             p = [kind |-> "ConfigurationPath", path |-> p].path
      OBVIOUS
    <3>. QED BY <2>2, <2>4, <3>1
  <2>. QED BY <2>5, <2>6
<1>. HIDE DEF c
<1>5. authoritative(d) <=> authoritative(from_durable(c))
  BY <1>3 DEF from_durable, ApplyPaths, ApplyHead, ApplyReconcile, Clean,
              authoritative
<1>6. ~authoritative(d) => /\ paths(from_durable(c)) = paths(d)
                           /\ from_durable(c).head = d.head
  BY <1>2, <1>3, <1>4
  DEF from_durable, ApplyPaths, ApplyHead, Clean, authoritative, paths,
      DirtyRepository
<1>. QED BY <1>1, <1>5, <1>6 DEF c

-----------------------------------------------------------------------------
(***************************************************************************)
(* The invariant is inductive.                                             *)
(***************************************************************************)
(* Initially nothing is pending and no job exists.                          *)
LEMMA InitIInv == Init => IInv
<1>. SUFFICES ASSUME Init PROVE IInv
  OBVIOUS
<1>1. TypeOK
  BY DirtyIntentsAssumption
  DEF Init, TypeOK, Clean, DirtyRepository, EventCount, NothingOwed, Owed
<1>2. Covers(dirty, owed) /\ job = NoJob /\ generation = 0
      /\ dirty = Clean /\ owed = NothingOwed
  BY DEF Init, Covers, NothingOwed
<1>3. BoundedPending
  <2>1. path_count(Clean) = 0
    BY FS_EmptySet DEF path_count, Clean
  <2>. QED BY <1>2, <2>1, DirtyIntentsAssumption
       DEF BoundedPending, authoritative, paths, Clean
<1>. QED BY <1>1, <1>2, <1>3
     DEF IInv, NoIntentLost, JobIsCurrentOrOlder, CleanWithoutGeneration

(* An event that is merged is covered, with everything owed before it.      *)
LEMMA AddEventCovers ==
    ASSUME dirty \in DirtyRepository, Collapsed(dirty), Covers(dirty, owed),
           owed \in Owed, NEW e \in Event, add_event(e)
    PROVE  /\ dirty' \in DirtyRepository /\ Collapsed(dirty')
           /\ path_count(dirty') <= MAX_PENDING_PATHS
           /\ Covers(dirty', owed')
<1>. DEFINE p == record_event(PendingOf(e))
            r == [head |-> e.head, everything |-> e.structural,
                  paths |-> e.sources \cup e.configuration]
<1>1. dirty' = merge(dirty, p) /\ owed' = Report(owed, r)
  BY DEF add_event, NextGeneration
<1>2. /\ p \in DirtyRepository
      /\ Collapsed(p)
      /\ e.structural => authoritative(p)
      /\ ~authoritative(p) => /\ paths(p) = e.sources \cup e.configuration
                              /\ p.head = e.head
  BY PendingCovers
<1>. HIDE DEF p
<1>3. /\ dirty' \in DirtyRepository
      /\ Collapsed(dirty')
      /\ path_count(dirty') <= MAX_PENDING_PATHS
      /\ authoritative(dirty) \/ authoritative(p) => authoritative(dirty')
      /\ ~authoritative(dirty') =>
            /\ paths(dirty') = paths(dirty) \cup paths(p)
            /\ dirty'.head = (dirty.head \/ p.head)
  BY <1>1, <1>2, MergeCovers
<1>4. ~authoritative(dirty') =>
          /\ ~owed'.everything
          /\ owed'.paths \subseteq paths(dirty')
          /\ owed'.head => dirty'.head
  BY <1>1, <1>2, <1>3 DEF Report, Covers, Owed, Event
<1>5. Covers(dirty', owed')
  BY <1>4 DEF Covers
<1>. QED BY <1>3, <1>5

(* What a step that reports r must show to keep the invariant: the new      *)
(* pending intents are well formed and cover the report and what was owed.  *)
LEMMA ReportStep ==
    ASSUME IInv, NEW r \in Owed, NextGeneration(r),
           dirty' \in DirtyRepository, BoundedPending',
           Covers(dirty', owed')
    PROVE  IInv'
<1>1. TypeOK'
  <2>1. generation' \in 0..MaxGeneration
    BY DirtyIntentsAssumption DEF IInv, TypeOK, NextGeneration
  <2>2. owed' \in Owed /\ since' \in Owed
    BY DEF IInv, TypeOK, NextGeneration, Report, Owed
  <2>. QED BY <2>1, <2>2 DEF IInv, TypeOK, NextGeneration
<1>2. NoIntentLost'
  <2>1. job' # NoJob => Covers(from_durable(job'), jobOwed')
    BY DEF IInv, NoIntentLost, NextGeneration
  <2>. QED BY <2>1 DEF NoIntentLost
<1>3. JobIsCurrentOrOlder'
  BY DirtyIntentsAssumption DEF IInv, TypeOK, JobIsCurrentOrOlder, NextGeneration
<1>4. CleanWithoutGeneration'
  BY DEF IInv, TypeOK, CleanWithoutGeneration, NextGeneration
<1>. QED BY <1>1, <1>2, <1>3, <1>4 DEF IInv

(* Every step preserves the invariant.                                      *)
LEMMA NextIInv == IInv /\ [Next]_vars => IInv'
<1>. SUFFICES ASSUME IInv, [Next]_vars PROVE IInv'
  OBVIOUS
<1>0. dirty \in DirtyRepository /\ Collapsed(dirty) /\ Covers(dirty, owed)
      /\ owed \in Owed
  BY DEF IInv, TypeOK, BoundedPending, Collapsed, NoIntentLost
<1>1. ASSUME NEW e \in Event, add_event(e) PROVE IInv'
  <2>. DEFINE r == [head |-> e.head, everything |-> e.structural,
                    paths |-> e.sources \cup e.configuration]
  <2>1. NextGeneration(r) /\ r \in Owed
    BY <1>1 DEF add_event, Event, Owed
  <2>2. dirty' \in DirtyRepository /\ BoundedPending' /\ Covers(dirty', owed')
    BY <1>0, <1>1, AddEventCovers DEF BoundedPending, Collapsed
  <2>. QED BY <2>1, <2>2, ReportStep
<1>2. ASSUME reconcile_after_watcher_error \/ mark PROVE IInv'
  <2>. DEFINE r == [NothingOwed EXCEPT !.everything = TRUE]
  <2>1. NextGeneration(r) /\ r \in Owed
    BY <1>2 DEF reconcile_after_watcher_error, mark, NothingOwed, Owed
  <2>2. Clean \in DirtyRepository /\ Collapsed(Clean)
    BY DirtyIntentsAssumption
    DEF Clean, DirtyRepository, EventCount, Collapsed, paths, authoritative
  <2>3. dirty' \in DirtyRepository /\ Collapsed(dirty')
    BY <1>0, <1>2, <2>2, ApplyType DEF reconcile_after_watcher_error, mark
  <2>4. authoritative(dirty')
    BY <1>0, <1>2, <2>2
    DEF reconcile_after_watcher_error, mark, authoritative, ApplyReconcile,
        ApplyAll, DirtyRepository
  <2>5. BoundedPending'
    <3>1. dirty'.sources = {} /\ dirty'.configuration = {}
      BY <2>3, <2>4 DEF Collapsed, paths
    <3>2. path_count(dirty') = 0
      BY <3>1, FS_EmptySet DEF path_count
    <3>. QED BY <2>3, <3>2, DirtyIntentsAssumption DEF BoundedPending, Collapsed
  <2>6. Covers(dirty', owed')
    BY <2>4 DEF Covers, authoritative
  <2>. QED BY <2>1, <2>3, <2>5, <2>6, ReportStep
<1>3. ASSUME enqueue_dirty PROVE IInv'
  <2>1. durable(dirty) \subseteq DurableChange
        /\ Covers(from_durable(durable(dirty)), owed)
    BY <1>0, DurableRoundTrip DEF Covers
  <2>2. TypeOK'
    BY <1>3, <2>1 DEF IInv, TypeOK, enqueue_dirty, NothingOwed, Owed
  <2>3. NoIntentLost'
    BY <1>0, <1>3, <2>1 DEF NoIntentLost, enqueue_dirty
  <2>4. JobIsCurrentOrOlder'
    BY <1>3 DEF IInv, TypeOK, JobIsCurrentOrOlder, enqueue_dirty
  <2>. QED BY <1>3, <2>2, <2>3, <2>4
       DEF IInv, enqueue_dirty, BoundedPending,
           CleanWithoutGeneration
<1>4. ASSUME job_finished PROVE IInv'
  <2>1. CASE generation = jobGeneration
    <3>1. generation' = 0 /\ dirty' = Clean /\ owed' = since
          /\ since = NothingOwed /\ job' = NoJob
      BY <1>4, <2>1
      DEF job_finished, complete_generation, IInv, JobIsCurrentOrOlder
    <3>2. TypeOK'
      BY <1>4, <3>1, DirtyIntentsAssumption
      DEF job_finished, IInv, TypeOK, Clean, DirtyRepository, EventCount,
          NothingOwed, Owed
    <3>3. path_count(Clean) = 0 /\ paths(Clean) = {}
      BY FS_EmptySet DEF path_count, paths, Clean
    <3>. QED BY <3>1, <3>2, <3>3, DirtyIntentsAssumption
         DEF IInv, NoIntentLost, BoundedPending,
             JobIsCurrentOrOlder, CleanWithoutGeneration, Covers, NothingOwed
  <2>2. CASE generation # jobGeneration
    <3>1. UNCHANGED <<generation, dirty, owed>> /\ job' = NoJob
          /\ jobGeneration' = 0 /\ jobOwed' = NothingOwed
          /\ since' = NothingOwed
      BY <1>4, <2>2 DEF job_finished, complete_generation
    <3>2. TypeOK'
      BY <3>1, DirtyIntentsAssumption DEF IInv, TypeOK, NothingOwed, Owed
    <3>. QED BY <3>1, <3>2
         DEF IInv, NoIntentLost, BoundedPending,
             JobIsCurrentOrOlder, CleanWithoutGeneration
  <2>. QED BY <2>1, <2>2
<1>6. ASSUME job_failed PROVE IInv'
  <2>1. UNCHANGED <<generation, dirty, owed>> /\ job' = NoJob
        /\ jobGeneration' = 0 /\ jobOwed' = NothingOwed
        /\ since' = NothingOwed
    BY <1>6 DEF job_failed
  <2>2. TypeOK'
    BY <2>1, DirtyIntentsAssumption DEF IInv, TypeOK, NothingOwed, Owed
  <2>. QED BY <2>1, <2>2
       DEF IInv, NoIntentLost, BoundedPending,
           JobIsCurrentOrOlder, CleanWithoutGeneration
<1>5. CASE UNCHANGED vars
  BY <1>5 DEF IInv, TypeOK, NoIntentLost, BoundedPending,
       JobIsCurrentOrOlder, CleanWithoutGeneration,
       vars
<1>. QED BY <1>1, <1>2, <1>3, <1>4, <1>5, <1>6 DEF Next

(* The strengthened invariant holds in every reachable state.               *)
THEOREM Invariance == Spec => []IInv
  BY InitIInv, NextIInv, PTL DEF Spec

(* add_event, mark, enqueue_dirty and complete_generation keep every        *)
(* variable in its type: in particular the event counter saturates.         *)
THEOREM TypeCorrect == Spec => []TypeOK
<1>1. IInv => TypeOK
  BY DEF IInv
<1>. QED BY Invariance, <1>1, PTL

(* Nothing the watcher reported is forgotten before a run that covers it    *)
(* has completed, for any set of paths and any limits.                      *)
THEOREM IntentsAreNeverLost == Spec => []NoIntentLost
<1>1. IInv => NoIntentLost
  BY DEF IInv
<1>. QED BY Invariance, <1>1, PTL

(* The pending paths of a repository never exceed MAX_PENDING_PATHS.        *)
THEOREM PendingIsBounded == Spec => []BoundedPending
<1>1. IInv => BoundedPending
  BY DEF IInv
<1>. QED BY Invariance, <1>1, PTL

(***************************************************************************)
(* The inventory.                                                          *)
(***************************************************************************)
EntryType == [hint : Nat, hash : Nat]
FileType == [content : Nat, stamp : Nat]

Passing == {"files", "read"}
Passed == {"refreshed", "publish", "checkpoint"}

RunType ==
    [pc : {"idle", "verify", "compare", "verified"} \cup Passing \cup Passed,
     owner : {"workspace", "other"}, pass : {1, 2}, intents : DirtyRepository,
     todo : SUBSET Paths, hint : Nat, entries : [Paths -> EntryType],
     prepared : [Paths -> Nat]]

InventoryTyped ==
    /\ generation \in Nat /\ jobGeneration \in Nat
    /\ dirty \in DirtyRepository /\ Collapsed(dirty)
    /\ job = NoJob \/ job \subseteq DurableChange
    /\ disk \in [Paths -> FileType]
    /\ unreported \subseteq Paths /\ changes \in Nat
    /\ manifest = None \/ manifest \in [Paths -> EntryType]
    /\ run \in RunType

(* Contents and hints are numbers of edits there have been.                 *)
EditsNumbered ==
    /\ \A p \in Paths : /\ disk[p].content <= changes
                        /\ disk[p].stamp <= changes
                        /\ disk[p] # Absent => disk[p].stamp >= 1
                        /\ run.entries[p].hint <= changes
    /\ manifest # None => \A p \in Paths : manifest[p].hint <= changes
    /\ run.hint <= changes

(* A change that no run was told of yet, or whose report is no path.        *)
Outstanding(p) == p \in unreported \cup forgotten \cup paths(dirty)

(* An entry whose hint is that of the file has its content, unless an edit  *)
(* without a trace is outstanding.                                          *)
Vouched(entry, p) ==
    disk[p] # Absent /\ entry.hint = disk[p].stamp =>
        \/ entry.hash = disk[p].content
        \/ silent(p) /\ Outstanding(p)

EntriesVouched ==
    /\ manifest # None => \A p \in Paths : Vouched(manifest[p], p)
    /\ \A p \in Paths : Vouched(run.entries[p], p)

(* A job of this process is of the current generation or of an earlier one, *)
(* and holds the intents of its generation; a run belongs to a job.         *)
JobsInOrder ==
    job # NoJob =>
        /\ jobGeneration >= 1
        /\ ~recovered => /\ generation >= jobGeneration
                         /\ generation = jobGeneration => job = durable(dirty)

RunHasJob ==
    /\ run.pc # "idle" /\ run.owner = "workspace" =>
          /\ job # NoJob /\ generation >= jobGeneration
          /\ run.intents = from_durable(job)
    /\ run.pc # "idle" /\ run.owner = "other" => run.pc \in Passing
    /\ run.pc = "verify" => authoritative(run.intents)

(* The run is of the workspace and its generation is the current one.       *)
Current == run.owner = "workspace" /\ generation = jobGeneration

(* What a current run need not have noticed.                                *)
Excused(p) ==
    \/ p \in unreported
    \/ silent(p) /\ (p \in forgotten \/ (recovered /\ p \in paths(dirty)))

(* What a pass has dealt with is on disk.                                   *)
PassIsFresh ==
    run.pc \in Passing \cup Passed /\ Current =>
        \A p \in Paths \ run.todo : \/ run.entries[p].hash = disk[p].content
                                    \/ Excused(p)

(* The metadata that was taken is that of the next file.                    *)
HintIsTaken ==
    run.pc = "read" =>
        /\ run.todo # {} /\ run.hint >= 1
        /\ Current => \/ Min(run.todo) \in unreported
                      \/ run.hint = disk[Min(run.todo)].stamp

(* The files that were compared have the hints of the manifest.             *)
HintsCompared ==
    run.pc \in {"compare", "verified"} =>
        /\ manifest # None
        /\ authoritative(run.intents)
        /\ run.pc = "verified" => run.todo = {}
        /\ Current => \A p \in Paths :
              \/ p \in unreported
              \/ disk[p] = Absent /\ manifest[p] = NoEntry
              \/ /\ disk[p] # Absent
                 /\ p \notin run.todo => manifest[p].hint = disk[p].stamp

(* What a pass read is what the manifest holds, and what is published.      *)
PassIsStored ==
    /\ run.pc \in Passed => run.todo = {} /\ manifest = run.entries
    /\ run.pc = "publish" => run.prepared = hashes(run.entries)
    /\ run.pc = "checkpoint" => published = hashes(run.entries)

InventoryInv ==
    /\ InventoryTyped
    /\ EditsNumbered
    /\ EntriesVouched
    /\ JobsInOrder
    /\ RunHasJob
    /\ PassIsFresh
    /\ HintIsTaken
    /\ HintsCompared
    /\ PassIsStored
    /\ CompletedIsCurrent

-----------------------------------------------------------------------------
(***************************************************************************)
(* The operators.                                                          *)
(***************************************************************************)
(* The next file of a pass is one of the files that are left.               *)
LEMMA NextFileIsLeft ==
    ASSUME NEW S \in SUBSET Paths, S # {}
    PROVE  Min(S) \in S
<1>1. PICK R : R = {e \in Nat \X Nat : e[1] < e[2]}
  OBVIOUS
<1>2. IsWellFoundedOn({e \in Nat \X Nat : e[1] < e[2]}, Nat)
  BY NatLessThanWellFounded, Zenon DEF OpToRel
<1>3. S \in SUBSET Nat
  BY InventoryAssumption
<1>4. PICK x \in S : \A y \in S : ~(<<y, x>> \in R)
  BY <1>1, <1>2, <1>3, WFMin, Zenon
<1>5. \A y \in S : x <= y
  <2>. TAKE y \in S
  <2>1. <<y, x>> \in Nat \X Nat /\ <<y, x>> \notin R
    BY <1>3, <1>4
  <2>2. ~(<<y, x>>[1] < <<y, x>>[2])
    BY <1>1, <2>1, Zenon
  <2>. QED BY <1>3, <2>2
<1>. QED BY <1>5 DEF Min

(* A durable job is read back as the intents of a repository.               *)
LEMMA FromDurableType ==
    ASSUME NEW c \in SUBSET DurableChange
    PROVE  from_durable(c) \in DirtyRepository
<1>. DEFINE s == {x.path : x \in OfKind(c, "SourcePath")}
            k == {x.path : x \in OfKind(c, "ConfigurationPath")}
<1>1. s \in SUBSET Paths /\ k \in SUBSET Paths
  <2>1. ASSUME NEW x \in c,
               x.kind = "SourcePath" \/ x.kind = "ConfigurationPath"
        PROVE  x.path \in Paths
    BY <2>1 DEF DurableChange
  <2>. QED BY <2>1 DEF OfKind
<1>2. Clean \in DirtyRepository /\ Collapsed(Clean)
  BY DirtyIntentsAssumption
  DEF Clean, DirtyRepository, EventCount, Collapsed, paths, authoritative
<1>. DEFINE reconciled == IF OfKind(c, "Reconciliation") # {}
                          THEN ApplyReconcile(Clean) ELSE Clean
            h == OfKind(c, "Head") # {}
<1>3. reconciled \in DirtyRepository /\ Collapsed(reconciled)
  BY <1>2, ApplyType
<1>4. from_durable(c) = ApplyPaths(ApplyHead(reconciled, h), s, k)
  BY DEF from_durable
<1>5. h \in BOOLEAN
  OBVIOUS
<1>. HIDE DEF reconciled, s, k, h
<1>6. ApplyHead(reconciled, h) \in DirtyRepository
      /\ Collapsed(ApplyHead(reconciled, h))
  BY <1>1, <1>3, <1>5, ApplyType
<1>. QED BY <1>1, <1>4, <1>5, <1>6, ApplyType

(* Marked or cleaned, the entry of a repository is well formed.             *)
LEMMA PlainIntents ==
    /\ Clean \in DirtyRepository /\ Collapsed(Clean)
    /\ paths(Clean) = {} /\ ~authoritative(Clean)
    /\ ApplyAll(Clean) \in DirtyRepository /\ Collapsed(ApplyAll(Clean))
    /\ ApplyReconcile(Clean) \in DirtyRepository
<1>1. /\ Clean \in DirtyRepository /\ Collapsed(Clean)
      /\ paths(Clean) = {} /\ ~authoritative(Clean)
  BY DirtyIntentsAssumption
  DEF Clean, DirtyRepository, EventCount, Collapsed, paths, authoritative
<1>. QED BY <1>1, ApplyType

(* The idle run has its type and has read nothing.                          *)
LEMMA IdleRun ==
    /\ Idle \in RunType
    /\ Idle.pc = "idle" /\ Idle.owner = "workspace" /\ Idle.todo = {}
    /\ Idle.hint = 0 /\ Idle.intents = Clean
    /\ Idle.entries = [p \in Paths |-> NoEntry]
    /\ NoEntry \in EntryType
  BY PlainIntents DEF Idle, RunType, NoEntry, EntryType, Passing, Passed, Empty

(* Under Remember no outstanding change and no report gets lost.            *)
LEMMA RememberKeeps ==
    ASSUME NEW r, Remember(r)
    PROVE  forgotten \cup r \cup paths(dirty)
               \subseteq forgotten' \cup paths(dirty')
  BY DEF Remember

(* A run of a job of this process whose generation is the current one has   *)
(* the pending paths, or reads everything.                                  *)
LEMMA RunKnowsPaths ==
    ASSUME dirty \in DirtyRepository, Collapsed(dirty),
           job = durable(dirty), run.intents = from_durable(job)
    PROVE  /\ authoritative(run.intents) <=> authoritative(dirty)
           /\ ~authoritative(run.intents) => paths(run.intents) = paths(dirty)
           /\ authoritative(run.intents) => paths(dirty) = {}
  BY DurableRoundTrip DEF Collapsed

-----------------------------------------------------------------------------
(***************************************************************************)
(* The steps, by what they do to the state the invariant is about.         *)
(***************************************************************************)
(* What a change of the file p does: the metadata are new, or the change    *)
(* left no trace in them, and its event is to be delivered.                 *)
Changed(p) ==
    /\ changes' = changes + 1
    /\ disk' \in [Paths -> FileType]
    /\ \A q \in Paths \ {p} : /\ disk'[q] = disk[q]
                              /\ q \in forgotten' <=> q \in forgotten
    /\ disk'[p].content <= changes' /\ disk'[p].stamp <= changes'
    /\ disk'[p] # Absent =>
          /\ disk'[p].stamp >= 1
          /\ disk'[p].stamp = changes' \/ disk'[p].content # disk'[p].stamp
    /\ unreported' = unreported \cup {p}
    /\ UNCHANGED <<generation, dirty, job, jobGeneration, recovered>>
    /\ UNCHANGED <<manifest, published, run>>

(* The generation is marked: the pending intents are replaced or widened    *)
(* and no change is lost sight of.                                          *)
Marked ==
    /\ generation' = generation + 1
    /\ dirty' \in DirtyRepository /\ Collapsed(dirty')
    /\ unreported' \subseteq Paths
    /\ changes' \in Nat /\ changes' >= changes
    /\ \A p \in Paths : Outstanding(p) => Outstanding(p)'
    /\ UNCHANGED <<job, jobGeneration, recovered, disk>>
    /\ UNCHANGED <<manifest, published, run>>

(* Neither the files nor what is pending or reported changes.               *)
Quiet ==
    /\ UNCHANGED <<generation, dirty, job, jobGeneration, recovered>>
    /\ UNCHANGED <<disk, unreported, changes, forgotten>>

(* edit and remove are changes of one file.                                 *)
LEMMA EditChanges ==
    ASSUME InventoryInv, NEW p \in Paths, edit(p) \/ remove(p)
    PROVE  Changed(p)
<1>0. /\ disk \in [Paths -> FileType] /\ changes \in Nat
      /\ disk[p].stamp <= changes /\ disk[p].stamp \in Nat
  BY DEF InventoryInv, InventoryTyped, EditsNumbered, FileType
<1>1. ASSUME edit(p) PROVE Changed(p)
  <2>1. PICK stamp \in {changes'} \cup ({disk[p].stamp} \ {0}) :
           disk' = [disk EXCEPT ![p] = [content |-> changes', stamp |-> stamp]]
    BY <1>1 DEF edit
  <2>2. changes' = changes + 1
        /\ stamp \in Nat /\ stamp >= 1 /\ stamp <= changes'
        /\ (stamp = changes' \/ stamp # changes')
    BY <1>0, <1>1, <2>1 DEF edit
  <2>3. disk'[p] = [content |-> changes', stamp |-> stamp]
        /\ \A q \in Paths \ {p} : disk'[q] = disk[q]
    BY <1>0, <2>1
  <2>4. [content |-> changes', stamp |-> stamp] \in FileType
    BY <1>0, <2>2 DEF FileType
  <2>5. disk' \in [Paths -> FileType]
    BY <1>0, <2>1, <2>4
  <2>6. \A q \in Paths \ {p} : q \in forgotten' <=> q \in forgotten
    BY <1>1 DEF edit
  <2>7. /\ UNCHANGED <<generation, dirty, job, jobGeneration, recovered>>
        /\ UNCHANGED <<manifest, published, run>>
        /\ unreported' = unreported \cup {p}
    BY <1>1 DEF edit, vars, files
  <2>8. disk'[p].content <= changes' /\ disk'[p].stamp <= changes'
        /\ disk'[p].stamp >= 1
        /\ (disk'[p].stamp = changes' \/ disk'[p].content # disk'[p].stamp)
    BY <1>0, <2>2, <2>3
  <2>. QED BY <2>2, <2>3, <2>5, <2>6, <2>7, <2>8 DEF Changed
<1>2. ASSUME remove(p) PROVE Changed(p)
  <2>1. disk' = [disk EXCEPT ![p] = Absent] /\ changes' = changes + 1
    BY <1>2 DEF remove
  <2>2. Absent \in FileType /\ Absent.content = 0 /\ Absent.stamp = 0
    BY DEF Absent, FileType
  <2>3. disk'[p] = Absent /\ \A q \in Paths \ {p} : disk'[q] = disk[q]
    BY <1>0, <2>1
  <2>4. disk' \in [Paths -> FileType]
    BY <1>0, <2>1, <2>2
  <2>5. \A q \in Paths \ {p} : q \in forgotten' <=> q \in forgotten
    BY <1>2 DEF remove
  <2>6. /\ UNCHANGED <<generation, dirty, job, jobGeneration, recovered>>
        /\ UNCHANGED <<manifest, published, run>>
        /\ unreported' = unreported \cup {p}
    BY <1>2 DEF remove, vars, files
  <2>. QED BY <1>0, <2>1, <2>2, <2>3, <2>4, <2>5, <2>6 DEF Changed
<1>. QED BY <1>1, <1>2

(* A change of a file preserves the invariant.                              *)
LEMMA ChangeStep ==
    ASSUME InventoryInv, NEW p \in Paths, Changed(p)
    PROVE  InventoryInv'
<1>. USE DEF Changed
<1>0. /\ disk \in [Paths -> FileType] /\ changes \in Nat
      /\ run \in RunType /\ run.entries \in [Paths -> EntryType]
      /\ run.hint \in Nat
      /\ manifest # None => manifest \in [Paths -> EntryType]
  BY DEF InventoryInv, InventoryTyped, RunType
<1>1. InventoryTyped'
  BY <1>0 DEF InventoryInv, InventoryTyped
<1>2. EditsNumbered'
  <2>1. \A q \in Paths : /\ disk[q].content \in Nat /\ disk[q].stamp \in Nat
                         /\ run.entries[q].hint \in Nat
                         /\ manifest # None => manifest[q].hint \in Nat
    BY <1>0 DEF FileType, EntryType
  <2>2. ASSUME NEW q \in Paths
        PROVE  /\ disk'[q].content <= changes' /\ disk'[q].stamp <= changes'
               /\ disk'[q] # Absent => disk'[q].stamp >= 1
               /\ run'.entries[q].hint <= changes'
               /\ manifest' # None => manifest'[q].hint <= changes'
    <3>1. /\ disk[q].content <= changes /\ disk[q].stamp <= changes
          /\ disk[q] # Absent => disk[q].stamp >= 1
          /\ run.entries[q].hint <= changes
          /\ manifest # None => manifest[q].hint <= changes
      BY DEF InventoryInv, EditsNumbered
    <3>. QED BY <1>0, <2>1, <3>1
  <2>3. run'.hint <= changes'
    BY <1>0 DEF InventoryInv, EditsNumbered
  <2>. QED BY <2>2, <2>3 DEF EditsNumbered
<1>3. ASSUME NEW e \in EntryType, NEW q \in Paths, Vouched(e, q),
             e.hint <= changes
      PROVE  Vouched(e, q)'
  <2>1. CASE q = p
    <3>1. e.hint \in Nat /\ disk'[p].stamp \in Nat
      BY <1>0 DEF EntryType, FileType
    <3>2. e.hint # changes'
      BY <1>0, <1>3, <3>1
    <3>. QED BY <2>1, <3>2 DEF Vouched, silent, Outstanding
  <2>2. CASE q # p
    <3>1. disk'[q] = disk[q] /\ (Outstanding(q) => Outstanding(q)')
      BY <2>2 DEF Outstanding
    <3>. QED BY <1>3, <3>1 DEF Vouched, silent
  <2>. QED BY <2>1, <2>2
<1>4. EntriesVouched'
  <2>1. ASSUME NEW q \in Paths PROVE Vouched(run.entries[q], q)'
    <3>1. run.entries[q] \in EntryType /\ run.entries[q].hint <= changes
          /\ Vouched(run.entries[q], q)
      BY <1>0 DEF InventoryInv, EditsNumbered, EntriesVouched
    <3>2. PICK e : e = run.entries[q]
      OBVIOUS
    <3>3. Vouched(e, q)' /\ run'.entries[q] = e
      BY <1>3, <3>1, <3>2
    <3>. QED BY <3>3 DEF Vouched
  <2>2. ASSUME NEW q \in Paths, manifest # None
        PROVE  Vouched(manifest[q], q)'
    <3>1. manifest[q] \in EntryType /\ manifest[q].hint <= changes
          /\ Vouched(manifest[q], q)
      BY <1>0, <2>2 DEF InventoryInv, EditsNumbered, EntriesVouched
    <3>2. PICK e : e = manifest[q]
      OBVIOUS
    <3>3. Vouched(e, q)' /\ manifest'[q] = e
      BY <1>3, <3>1, <3>2
    <3>. QED BY <3>3 DEF Vouched
  <2>. QED BY <2>1, <2>2 DEF EntriesVouched
<1>5. JobsInOrder' /\ RunHasJob' /\ PassIsStored'
  BY DEF InventoryInv, JobsInOrder, RunHasJob, PassIsStored, hashes
<1>6. \A q \in Paths : \/ q \in unreported'
                       \/ /\ disk'[q] = disk[q]
                          /\ q \in unreported => q \in unreported'
                          /\ Excused(q) => Excused(q)'
  <2>1. ASSUME NEW q \in Paths, q # p
        PROVE  disk'[q] = disk[q] /\ (Excused(q) => Excused(q)')
    BY <2>1 DEF Excused, silent
  <2>. QED BY <2>1
<1>7. PassIsFresh'
  <2>1. \A q \in Paths : q \in unreported' => Excused(q)'
    BY DEF Excused
  <2>. QED BY <1>6, <2>1 DEF InventoryInv, PassIsFresh, Current
<1>8. HintIsTaken'
  <2>1. run.pc = "read" => Min(run.todo) \in Paths
    BY <1>0, NextFileIsLeft DEF InventoryInv, HintIsTaken, RunType
  <2>. QED BY <1>6, <2>1 DEF InventoryInv, HintIsTaken, Current
<1>9. HintsCompared'
  BY <1>6 DEF InventoryInv, HintsCompared, Current
<1>10. CompletedIsCurrent'
  <2>1. ASSUME NEW q \in Paths, q # p
        PROVE  disk'[q] = disk[q] /\ (q \in forgotten => q \in forgotten')
               /\ (q \in unreported => q \in unreported')
    BY <2>1
  <2>. QED BY <2>1 DEF InventoryInv, CompletedIsCurrent, silent
<1>. QED BY <1>1, <1>2, <1>4, <1>5, <1>7, <1>8, <1>9, <1>10 DEF InventoryInv

(* A marked generation preserves the invariant: a run under way is no       *)
(* longer current.                                                          *)
LEMMA MarkStep ==
    ASSUME InventoryInv, Marked
    PROVE  InventoryInv'
<1>. USE DEF Marked
<1>0. /\ generation \in Nat /\ jobGeneration \in Nat /\ changes \in Nat
      /\ disk \in [Paths -> FileType] /\ run \in RunType
      /\ run.entries \in [Paths -> EntryType] /\ run.hint \in Nat
      /\ manifest # None => manifest \in [Paths -> EntryType]
  BY DEF InventoryInv, InventoryTyped, RunType
<1>1. InventoryTyped'
  BY <1>0 DEF InventoryInv, InventoryTyped
<1>2. EditsNumbered'
  <2>1. \A q \in Paths : /\ disk[q].content \in Nat /\ disk[q].stamp \in Nat
                         /\ run.entries[q].hint \in Nat
                         /\ manifest # None => manifest[q].hint \in Nat
    BY <1>0 DEF FileType, EntryType
  <2>2. ASSUME NEW q \in Paths
        PROVE  /\ disk'[q].content <= changes' /\ disk'[q].stamp <= changes'
               /\ disk'[q] # Absent => disk'[q].stamp >= 1
               /\ run'.entries[q].hint <= changes'
               /\ manifest' # None => manifest'[q].hint <= changes'
    <3>1. /\ disk[q].content <= changes /\ disk[q].stamp <= changes
          /\ disk[q] # Absent => disk[q].stamp >= 1
          /\ run.entries[q].hint <= changes
          /\ manifest # None => manifest[q].hint <= changes
      BY DEF InventoryInv, EditsNumbered
    <3>. QED BY <1>0, <2>1, <3>1
  <2>3. run'.hint <= changes'
    BY <1>0 DEF InventoryInv, EditsNumbered
  <2>. QED BY <2>2, <2>3 DEF EditsNumbered
<1>3. EntriesVouched'
  <2>1. ASSUME NEW q \in Paths PROVE Vouched(run.entries[q], q)'
    BY DEF InventoryInv, EntriesVouched, Vouched, silent
  <2>2. ASSUME NEW q \in Paths, manifest # None
        PROVE  Vouched(manifest[q], q)'
    BY <2>2 DEF InventoryInv, EntriesVouched, Vouched, silent
  <2>. QED BY <2>1, <2>2 DEF EntriesVouched
<1>4. JobsInOrder'
  BY <1>0 DEF InventoryInv, JobsInOrder
<1>5. RunHasJob' /\ PassIsStored'
  BY <1>0 DEF InventoryInv, RunHasJob, PassIsStored, hashes
<1>6. run.pc # "idle" => ~Current'
  BY <1>0 DEF InventoryInv, RunHasJob, Current
<1>7. PassIsFresh' /\ HintIsTaken' /\ HintsCompared'
  BY <1>6 DEF InventoryInv, PassIsFresh, HintIsTaken, HintsCompared, Passing,
              Passed
<1>8. CompletedIsCurrent'
  BY <1>0 DEF CompletedIsCurrent
<1>. QED BY <1>1, <1>2, <1>3, <1>4, <1>5, <1>7, <1>8 DEF InventoryInv

(* report, watcher_error and mark_workspace mark the generation.            *)
LEMMA ReportsMark ==
    ASSUME InventoryInv, report \/ watcher_error \/ mark_workspace
    PROVE  Marked
<1>0. /\ dirty \in DirtyRepository /\ Collapsed(dirty) /\ changes \in Nat
      /\ unreported \subseteq Paths
  BY DEF InventoryInv, InventoryTyped
<1>1. ASSUME report PROVE Marked
  <2>1. PICK reported \in SUBSET unreported, head \in BOOLEAN,
             structural \in BOOLEAN :
          /\ add_event([head |-> head, structural |-> structural,
                        sources |-> reported \ Configuration,
                        configuration |-> reported \cap Configuration])
          /\ changes' = changes \/ changes' = changes + 1
          /\ unreported \ reported \subseteq unreported'
          /\ unreported' \subseteq unreported
          /\ Remember(reported)
          /\ UNCHANGED <<disk, files, published, run, recovered>>
    BY <1>1 DEF report
  <2>. DEFINE e == [head |-> head, structural |-> structural,
                    sources |-> reported \ Configuration,
                    configuration |-> reported \cap Configuration]
              i == record_event(PendingOf(e))
  <2>2. e \in Event
    BY <1>0 DEF Event
  <2>3. i \in DirtyRepository /\ Collapsed(i)
    BY <2>2, PendingCovers
  <2>4. dirty' = merge(dirty, i)
        /\ generation' = generation + 1 /\ UNCHANGED <<job, jobGeneration>>
    BY <2>1 DEF add_event, NextGeneration
  <2>. HIDE DEF e, i
  <2>5. dirty' \in DirtyRepository /\ Collapsed(dirty')
    BY <1>0, <2>3, <2>4, MergeCovers
  <2>6. \A p \in Paths : Outstanding(p) => Outstanding(p)'
    BY <2>1, RememberKeeps DEF Outstanding
  <2>. QED BY <1>0, <2>1, <2>4, <2>5, <2>6 DEF Marked, files
<1>2. ASSUME watcher_error PROVE Marked
  <2>1. dirty' = ApplyReconcile(dirty) /\ Remember(unreported)
        /\ generation' = generation + 1 /\ UNCHANGED <<job, jobGeneration>>
        /\ unreported' = {}
        /\ UNCHANGED <<disk, changes, manifest, published, run, recovered>>
    BY <1>2 DEF watcher_error, reconcile_after_watcher_error, NextGeneration,
                files
  <2>2. dirty' \in DirtyRepository /\ Collapsed(dirty')
    BY <1>0, <2>1, ApplyType
  <2>3. \A p \in Paths : Outstanding(p) => Outstanding(p)'
    BY <2>1, RememberKeeps DEF Outstanding
  <2>. QED BY <1>0, <2>1, <2>2, <2>3 DEF Marked
<1>3. ASSUME mark_workspace PROVE Marked
  <2>1. dirty' = ApplyAll(Clean) /\ Remember({})
        /\ generation' = generation + 1 /\ UNCHANGED <<job, jobGeneration>>
        /\ UNCHANGED <<disk, unreported, changes, manifest, published, run,
                       recovered>>
    BY <1>3 DEF mark_workspace, mark, NextGeneration, world, files
  <2>2. \A p \in Paths : Outstanding(p) => Outstanding(p)'
    BY <2>1, RememberKeeps DEF Outstanding
  <2>. QED BY <1>0, <2>1, <2>2, PlainIntents DEF Marked
<1>. QED BY <1>1, <1>2, <1>3

(* The end of an operation preserves the invariant if what it leaves is     *)
(* accounted for.                                                           *)
LEMMA EndStep ==
    ASSUME InventoryInv, run' = Idle,
           UNCHANGED <<disk, changes, manifest>>,
           unreported' \subseteq Paths,
           generation' \in Nat,
           dirty' \in DirtyRepository, Collapsed(dirty'),
           \/ job' = NoJob /\ jobGeneration' = 0
           \/ UNCHANGED <<job, jobGeneration>>,
           JobsInOrder',
           manifest # None => \A p \in Paths : Vouched(manifest[p], p)',
           CompletedIsCurrent'
    PROVE  InventoryInv'
<1>1. InventoryTyped'
  BY IdleRun DEF InventoryInv, InventoryTyped
<1>2. EditsNumbered'
  <2>1. changes \in Nat
    BY DEF InventoryInv, InventoryTyped
  <2>2. \A p \in Paths : run'.entries[p].hint = 0
    BY IdleRun DEF NoEntry
  <2>3. run'.hint = 0 /\ 0 <= changes
    BY <2>1, IdleRun
  <2>. QED BY <2>2, <2>3 DEF InventoryInv, EditsNumbered
<1>3. EntriesVouched'
  <2>1. ASSUME NEW p \in Paths PROVE Vouched(run.entries[p], p)'
    <3>1. run'.entries[p].hint = 0
      BY IdleRun DEF NoEntry
    <3>2. disk'[p] # Absent => disk'[p].stamp >= 1
      BY DEF InventoryInv, EditsNumbered
    <3>. QED BY <3>1, <3>2 DEF Vouched
  <2>. QED BY <2>1 DEF EntriesVouched
<1>4. /\ RunHasJob' /\ PassIsFresh' /\ HintIsTaken' /\ HintsCompared'
      /\ PassIsStored'
  BY IdleRun DEF RunHasJob, PassIsFresh, HintIsTaken, HintsCompared,
                 PassIsStored, Passing, Passed
<1>. QED BY <1>1, <1>2, <1>3, <1>4 DEF InventoryInv

(* A failed operation preserves the invariant.                              *)
LEMMA FailStep ==
    ASSUME InventoryInv, fail,
           UNCHANGED <<disk, unreported, changes, forgotten, recovered>>,
           UNCHANGED <<manifest, published>>
    PROVE  InventoryInv'
<1>0. run' = Idle /\ UNCHANGED <<generation, dirty>>
  BY DEF fail, job_failed, vars
<1>1. \/ job' = NoJob /\ jobGeneration' = 0
      \/ UNCHANGED <<job, jobGeneration>>
  BY DEF fail, job_failed, vars
<1>2. CompletedIsCurrent'
  BY <1>0 DEF InventoryInv, CompletedIsCurrent, silent
<1>3. manifest # None => \A p \in Paths : Vouched(manifest[p], p)'
  BY <1>0 DEF InventoryInv, EntriesVouched, Vouched, silent, Outstanding
<1>4. JobsInOrder'
  BY <1>0, <1>1 DEF InventoryInv, JobsInOrder
<1>. QED BY <1>0, <1>1, <1>2, <1>3, <1>4, EndStep
     DEF InventoryInv, InventoryTyped

(* A restart preserves the invariant: the job is one of an earlier process  *)
(* and what was still to be reported is recorded as forgotten.              *)
LEMMA RestartStep ==
    ASSUME InventoryInv, restart
    PROVE  InventoryInv'
<1>0. /\ run' = Idle /\ generation' = 1 /\ dirty' = ApplyAll(Clean)
      /\ unreported' = {} /\ Remember(unreported)
      /\ job # NoJob => recovered'
      /\ UNCHANGED <<job, jobGeneration, disk, changes, manifest>>
  BY DEF restart, files
<1>1. \A p \in Paths : Outstanding(p) => Outstanding(p)'
  BY <1>0, RememberKeeps DEF Outstanding
<1>2. manifest # None => \A p \in Paths : Vouched(manifest[p], p)'
  BY <1>0, <1>1 DEF InventoryInv, EntriesVouched, Vouched, silent
<1>3. CompletedIsCurrent' /\ JobsInOrder'
  BY <1>0 DEF InventoryInv, CompletedIsCurrent, JobsInOrder
<1>. QED BY <1>0, <1>2, <1>3, EndStep, PlainIntents

(* A second pass that finds something else marks the workspace again, and   *)
(* preserves the invariant.                                                 *)
LEMMA DiscardStep ==
    ASSUME InventoryInv, discard, UNCHANGED <<world, manifest>>
    PROVE  InventoryInv'
<1>0. /\ run' = Idle /\ generation' = generation + 1
      /\ dirty' = ApplyAll(Clean)
      /\ Remember({})
      /\ job' = NoJob /\ jobGeneration' = 0
      /\ UNCHANGED <<disk, changes, manifest, unreported>>
  BY DEF discard, world
<1>1. \A p \in Paths : Outstanding(p) => Outstanding(p)'
  BY <1>0, RememberKeeps DEF Outstanding
<1>2. manifest # None => \A p \in Paths : Vouched(manifest[p], p)'
  BY <1>0, <1>1 DEF InventoryInv, EntriesVouched, Vouched, silent
<1>3. generation \in Nat /\ unreported \subseteq Paths
  BY DEF InventoryInv, InventoryTyped
<1>4. CompletedIsCurrent' /\ JobsInOrder'
  BY <1>0, <1>3 DEF CompletedIsCurrent, JobsInOrder
<1>. QED BY <1>0, <1>2, <1>3, <1>4, EndStep, PlainIntents

(* A run of the workspace that succeeds preserves the invariant when, the   *)
(* generation being the run's, the manifest is what is published and on     *)
(* disk but for the changes a run may miss.                                 *)
LEMMA SucceedStep ==
    ASSUME InventoryInv, succeed, run.pc # "idle", run.owner = "workspace",
           published = hashes(manifest),
           generation = jobGeneration =>
              \A p \in Paths : \/ manifest[p].hash = disk[p].content
                               \/ Excused(p),
           UNCHANGED <<world, manifest, published>>
    PROVE  InventoryInv'
<1>0. /\ run' = Idle /\ job' = NoJob /\ jobGeneration' = 0
      /\ UNCHANGED <<recovered, disk, unreported, changes>>
      /\ unreported \subseteq Paths
  BY DEF succeed, complete_recovered, job_finished, world, InventoryInv,
         InventoryTyped
<1>1. generation \in Nat /\ jobGeneration \in Nat /\ generation >= 1
  BY DEF InventoryInv, InventoryTyped, RunHasJob, JobsInOrder
<1>2. JobsInOrder'
  BY <1>0 DEF JobsInOrder
<1>3. CASE generation # jobGeneration
  <2>1. UNCHANGED <<generation, dirty, forgotten>>
    BY <1>3 DEF succeed, job_finished, complete_generation
  <2>2. manifest # None => \A p \in Paths : Vouched(manifest[p], p)'
    BY <1>0, <2>1
    DEF InventoryInv, EntriesVouched, Vouched, silent, Outstanding
  <2>3. CompletedIsCurrent'
    BY <1>1, <2>1 DEF CompletedIsCurrent
  <2>. QED BY <1>0, <1>2, <2>1, <2>2, <2>3, EndStep
       DEF InventoryInv, InventoryTyped
<1>4. CASE generation = jobGeneration
  <2>1. /\ generation' = 0 /\ dirty' = Clean
        /\ forgotten \subseteq forgotten'
        /\ recovered => paths(dirty) \subseteq forgotten'
    BY <1>4 DEF succeed, complete_recovered, job_finished, complete_generation
  <2>2. ASSUME NEW p \in Paths, Excused(p)
        PROVE  \/ p \in unreported'
               \/ p \in forgotten' /\ silent(p)'
    BY <1>0, <2>1, <2>2 DEF Excused, silent
  <2>3. CompletedIsCurrent'
    <3>1. \A p \in Paths : published'[p] = manifest[p].hash
      BY DEF hashes
    <3>. QED BY <1>0, <1>4, <2>2, <3>1 DEF CompletedIsCurrent
  <2>4. ASSUME NEW p \in Paths, manifest # None
        PROVE  Vouched(manifest[p], p)'
    <3>1. Vouched(manifest[p], p) /\ manifest' = manifest
      BY <2>4 DEF InventoryInv, EntriesVouched
    <3>2. manifest[p].hash = disk[p].content \/ Excused(p)
      BY <1>4
    <3>. QED BY <1>0, <2>2, <3>1, <3>2 DEF Vouched, silent, Outstanding
  <2>. QED BY <1>0, <1>2, <2>1, <2>3, <2>4, EndStep, PlainIntents
<1>. QED BY <1>3, <1>4

(* A job is submitted while no run of the workspace is under way, and holds *)
(* the intents of its generation.                                           *)
LEMMA SubmitStep ==
    ASSUME InventoryInv, submit
    PROVE  InventoryInv'
<1>0. /\ job = NoJob /\ job' = durable(dirty) /\ jobGeneration' = generation
      /\ generation # 0 /\ recovered' = FALSE
      /\ UNCHANGED <<generation, dirty, disk, unreported, changes, forgotten>>
      /\ UNCHANGED <<manifest, published, run>>
  BY DEF submit, enqueue_dirty, world, files
<1>1. InventoryTyped'
  BY <1>0, DurableRoundTrip DEF InventoryInv, InventoryTyped
<1>2. EditsNumbered' /\ PassIsStored' /\ CompletedIsCurrent'
  BY <1>0 DEF InventoryInv, EditsNumbered, PassIsStored, CompletedIsCurrent,
              hashes, silent
<1>3. EntriesVouched'
  BY <1>0 DEF InventoryInv, EntriesVouched, Vouched, silent, Outstanding
<1>4. JobsInOrder'
  BY <1>0 DEF InventoryInv, InventoryTyped, JobsInOrder
<1>5. run.pc # "idle" => run.owner # "workspace"
  BY <1>0 DEF InventoryInv, RunHasJob
<1>6. RunHasJob' /\ PassIsFresh' /\ HintIsTaken' /\ HintsCompared'
  BY <1>0, <1>5
  DEF InventoryInv, RunHasJob, PassIsFresh, HintIsTaken, HintsCompared,
      Current, Passing, Passed
<1>. QED BY <1>1, <1>2, <1>3, <1>4, <1>6 DEF InventoryInv

(* A job of another generation is given up while nothing runs.              *)
LEMMA SupersededStep ==
    ASSUME InventoryInv, superseded_job
    PROVE  InventoryInv'
<1>0. /\ run' = Idle /\ job' = NoJob /\ jobGeneration' = 0
      /\ UNCHANGED <<generation, dirty, disk, unreported, changes, forgotten>>
      /\ UNCHANGED <<manifest, published>>
  BY DEF superseded_job, job_failed, inventory, world, files, ghosts
<1>1. CompletedIsCurrent' /\ JobsInOrder'
  BY <1>0 DEF InventoryInv, CompletedIsCurrent, JobsInOrder, silent
<1>2. manifest # None => \A p \in Paths : Vouched(manifest[p], p)'
  BY <1>0 DEF InventoryInv, EntriesVouched, Vouched, silent, Outstanding
<1>. QED BY <1>0, <1>1, <1>2, EndStep DEF InventoryInv, InventoryTyped

-----------------------------------------------------------------------------
(***************************************************************************)
(* The steps of a run, which leave the files and the intents alone.        *)
(***************************************************************************)
(* What such a step has to show.                                            *)
LEMMA QuietStep ==
    ASSUME InventoryInv, Quiet, run' \in RunType,
           manifest' = manifest \/ manifest' = run.entries,
           published' = published \/ generation # 0,
           run'.hint <= changes,
           \A p \in Paths : /\ run'.entries[p].hint <= changes
                            /\ Vouched(run'.entries[p], p),
           RunHasJob', PassIsFresh', HintIsTaken', HintsCompared', PassIsStored'
    PROVE  InventoryInv'
<1>. USE DEF Quiet
<1>1. InventoryTyped'
  BY DEF InventoryInv, InventoryTyped, RunType
<1>2. EditsNumbered'
  BY DEF InventoryInv, EditsNumbered
<1>3. ASSUME NEW e, NEW p \in Paths, Vouched(e, p) PROVE Vouched(e, p)'
  BY <1>3 DEF Vouched, silent, Outstanding
<1>4. ASSUME NEW p \in Paths PROVE Vouched(run.entries[p], p)'
  <2>1. PICK e : e = run'.entries[p]
    OBVIOUS
  <2>2. Vouched(e, p)'
    BY <1>3, <2>1
  <2>. QED BY <2>1, <2>2 DEF Vouched
<1>5. ASSUME NEW p \in Paths, manifest' # None PROVE Vouched(manifest[p], p)'
  <2>1. PICK e : e = manifest'[p]
    OBVIOUS
  <2>2. Vouched(e, p)
    BY <1>5, <2>1 DEF InventoryInv, EntriesVouched
  <2>3. Vouched(e, p)'
    BY <1>3, <2>2
  <2>. QED BY <2>1, <2>3 DEF Vouched
<1>6. EntriesVouched'
  BY <1>4, <1>5 DEF EntriesVouched
<1>7. JobsInOrder' /\ CompletedIsCurrent'
  BY DEF InventoryInv, JobsInOrder, CompletedIsCurrent, silent
<1>. QED BY <1>1, <1>2, <1>6, <1>7 DEF InventoryInv

(* A step that touches none of the state the invariant is about.            *)
LEMMA StutterStep ==
    ASSUME InventoryInv, Quiet, UNCHANGED <<manifest, published, run>>
    PROVE  InventoryInv'
<1>1. /\ run' \in RunType /\ run'.hint <= changes
      /\ \A p \in Paths : /\ run'.entries[p].hint <= changes
                          /\ Vouched(run'.entries[p], p)
  BY DEF InventoryInv, InventoryTyped, EditsNumbered, EntriesVouched
<1>2. /\ RunHasJob' /\ PassIsFresh' /\ HintIsTaken' /\ HintsCompared'
      /\ PassIsStored'
  BY DEF InventoryInv, Quiet, RunHasJob, PassIsFresh, HintIsTaken,
         HintsCompared, PassIsStored, Current, Excused, silent, hashes
<1>. QED BY <1>1, <1>2, QuietStep

(* A pass starts with the files that are there; that the others are not is  *)
(* what it has read of them.                                                *)
LEMMA PassStarts ==
    ASSUME InventoryInv, Quiet, UNCHANGED <<manifest, published>>,
           NEW r \in RunType, NEW pass \in {1, 2},
           r.hint <= changes,
           r.owner = "workspace" =>
              /\ job # NoJob /\ generation >= jobGeneration
              /\ r.intents = from_durable(job),
           inventory_candidates(r, pass)
    PROVE  InventoryInv'
<1>0. disk \in [Paths -> FileType] /\ changes \in Nat
  BY DEF InventoryInv, InventoryTyped
<1>1. /\ run'.pc = "files" /\ run'.todo = Present
      /\ run'.owner = r.owner /\ run'.intents = r.intents
      /\ run'.hint = r.hint
      /\ run'.entries = [p \in Paths |-> NoEntry]
  BY DEF inventory_candidates, RunType
<1>2. run' \in RunType
  <2>1. Present \in SUBSET Paths
    BY DEF Present
  <2>2. [p \in Paths |-> NoEntry] \in [Paths -> EntryType]
    BY IdleRun
  <2>. QED BY <2>1, <2>2 DEF inventory_candidates, RunType, Passing
<1>3. \A p \in Paths : run'.entries[p] = NoEntry
  BY <1>1
<1>4. ASSUME NEW p \in Paths
      PROVE  /\ run'.entries[p].hint <= changes
             /\ Vouched(run'.entries[p], p)
  <2>1. run'.entries[p].hint = 0
    BY <1>3 DEF NoEntry
  <2>2. disk[p] # Absent => disk[p].stamp >= 1
    BY DEF InventoryInv, EditsNumbered
  <2>. QED BY <1>0, <2>1, <2>2 DEF Vouched
<1>5. RunHasJob'
  BY <1>1 DEF RunHasJob, Quiet, Passing
<1>6. PassIsFresh'
  <2>1. ASSUME NEW p \in Paths \ Present PROVE disk'[p].content = 0
    BY DEF Present, Absent, Quiet
  <2>2. \A p \in Paths \ run'.todo : run'.entries[p].hash = disk'[p].content
    BY <1>1, <1>3, <2>1 DEF NoEntry
  <2>. QED BY <2>2 DEF PassIsFresh
<1>7. HintIsTaken' /\ HintsCompared' /\ PassIsStored'
  BY <1>1 DEF HintIsTaken, HintsCompared, PassIsStored, Passed
<1>. QED BY <1>1, <1>2, <1>4, <1>5, <1>6, <1>7, QuietStep

(* The run that has begun has its type, its job and a hint of an edit.      *)
LEMMA RunUnderWay ==
    ASSUME InventoryInv, run.pc \notin {"idle"} \cup Passing
    PROVE  /\ run \in RunType /\ run.hint <= changes
           /\ run.owner = "workspace"
           /\ job # NoJob /\ generation >= jobGeneration /\ generation # 0
           /\ run.intents = from_durable(job)
<1>1. run.owner = "workspace"
  BY DEF InventoryInv, InventoryTyped, RunType, RunHasJob
<1>. QED BY <1>1 DEF InventoryInv, InventoryTyped, RunType, EditsNumbered,
                     RunHasJob, JobsInOrder

(* A run begins: of a job, with a checkpoint to verify or with a pass, or   *)
(* of another operation.                                                    *)
LEMMA BeginStep ==
    ASSUME InventoryInv, begin_job \/ begin_other
    PROVE  InventoryInv'
<1>0. changes \in Nat
  BY DEF InventoryInv, InventoryTyped
<1>1. Quiet /\ UNCHANGED <<manifest, published>>
  BY DEF begin_job, begin_other, Quiet, vars, world, files, ghosts
<1>2. ASSUME begin_job PROVE InventoryInv'
  <2>. DEFINE r == [Idle EXCEPT !.intents = from_durable(job)]
  <2>1. job # NoJob /\ generation = jobGeneration /\ job \subseteq DurableChange
        /\ generation \in Nat
    BY <1>2 DEF begin_job, InventoryInv, InventoryTyped
  <2>2. from_durable(job) \in DirtyRepository
    BY <2>1, FromDurableType
  <2>3. r \in RunType /\ r.owner = "workspace" /\ r.intents = from_durable(job)
        /\ r.hint = 0 /\ r.todo = {} /\ r.entries = [p \in Paths |-> NoEntry]
    BY <2>2, IdleRun DEF RunType
  <2>4. IF checkpoint_eligible(r.intents)
          THEN run' = [r EXCEPT !.pc = "verify"]
          ELSE inventory_candidates(r, 1)
    BY <1>2 DEF begin_job
  <2>. HIDE DEF r
  <2>5. CASE ~checkpoint_eligible(r.intents)
    BY <1>0, <1>1, <2>1, <2>3, <2>4, <2>5, PassStarts
  <2>6. CASE checkpoint_eligible(r.intents)
    <3>1. /\ run' \in RunType /\ run'.pc = "verify" /\ run'.hint = 0
          /\ run'.owner = "workspace" /\ run'.intents = from_durable(job)
          /\ run'.entries = [p \in Paths |-> NoEntry]
      BY <2>3, <2>4, <2>6 DEF RunType
    <3>2. ASSUME NEW p \in Paths
          PROVE  /\ run'.entries[p].hint <= changes
                 /\ Vouched(run'.entries[p], p)
      <4>1. run'.entries[p].hint = 0
        BY <3>1 DEF NoEntry
      <4>2. disk[p] # Absent => disk[p].stamp >= 1
        BY DEF InventoryInv, EditsNumbered
      <4>. QED BY <1>0, <4>1, <4>2 DEF Vouched
    <3>3. /\ RunHasJob' /\ PassIsFresh' /\ HintIsTaken' /\ HintsCompared'
          /\ PassIsStored'
      BY <1>1, <2>1, <2>3, <2>6, <3>1
      DEF Quiet, RunHasJob, checkpoint_eligible, PassIsFresh, HintIsTaken,
          HintsCompared, PassIsStored, Passing, Passed
    <3>. QED BY <1>0, <1>1, <3>1, <3>2, <3>3, QuietStep
  <2>. QED BY <2>5, <2>6
<1>3. ASSUME begin_other PROVE InventoryInv'
  <2>1. PICK intents \in {Clean, ApplyReconcile(Clean)} :
           inventory_candidates([Idle EXCEPT !.owner = "other",
                                             !.intents = intents], 1)
    BY <1>3 DEF begin_other
  <2>2. PICK r : r = [Idle EXCEPT !.owner = "other", !.intents = intents]
    OBVIOUS
  <2>3. r \in RunType /\ r.owner = "other" /\ r.hint = 0
    BY <2>2, IdleRun, PlainIntents DEF RunType
  <2>4. inventory_candidates(r, 1)
    BY <2>1, <2>2
  <2>5. r.hint <= changes
    BY <1>0, <2>3
  <2>. QED BY <1>1, <2>3, <2>4, <2>5, PassStarts
<1>. QED BY <1>2, <1>3

(* The checkpoint and the manifest are compared with the files.             *)
LEMMA VerifyStep ==
    ASSUME InventoryInv, verify_checkpoint \/ verify_manifest
    PROVE  InventoryInv'
<1>1. Quiet /\ UNCHANGED <<manifest, published>>
  BY DEF verify_checkpoint, verify_manifest, Quiet, vars, world, files, ghosts
<1>2. run.pc \in {"verify", "compare"}
  BY DEF verify_checkpoint, verify_manifest
<1>3. /\ run \in RunType /\ run.hint <= changes
      /\ run.owner = "workspace"
      /\ job # NoJob /\ generation >= jobGeneration /\ generation # 0
      /\ run.intents = from_durable(job)
  BY <1>2, RunUnderWay DEF Passing
<1>4. ASSUME inventory_candidates(run, 1) PROVE InventoryInv'
  BY <1>1, <1>3, <1>4, PassStarts
<1>5. ASSUME run' \in RunType, run'.pc \in {"compare", "verified"},
             UNCHANGED <<run.entries, run.hint, run.owner, run.intents>>,
             HintsCompared'
      PROVE  InventoryInv'
  <2>1. \A p \in Paths : /\ run'.entries[p].hint <= changes
                         /\ Vouched(run'.entries[p], p)
    BY <1>5 DEF InventoryInv, EditsNumbered, EntriesVouched
  <2>2. /\ RunHasJob' /\ PassIsFresh' /\ HintIsTaken' /\ PassIsStored'
    BY <1>1, <1>3, <1>5
    DEF Quiet, RunHasJob, PassIsFresh, HintIsTaken, PassIsStored, Passing,
        Passed
  <2>. QED BY <1>1, <1>3, <1>5, <2>1, <2>2, QuietStep
<1>6. ASSUME verify_checkpoint PROVE InventoryInv'
  <2>1. CASE /\ checkpoint # None /\ manifest # None
             /\ Present = {p \in Paths : manifest[p] # NoEntry}
    <3>1. run' = [run EXCEPT !.pc = "compare", !.todo = Present]
      BY <1>6, <2>1 DEF verify_checkpoint
    <3>2. /\ run' \in RunType /\ run'.pc = "compare" /\ run'.todo = Present
          /\ UNCHANGED <<run.entries, run.hint, run.owner, run.intents>>
      BY <1>3, <3>1 DEF RunType, Present
    <3>3. authoritative(run.intents)
      BY <1>6 DEF verify_checkpoint, InventoryInv, RunHasJob
    <3>4. \A p \in Paths : disk[p] = Absent <=> manifest[p] = NoEntry
      BY <2>1 DEF Present
    <3>5. HintsCompared'
      BY <1>1, <2>1, <3>2, <3>3, <3>4 DEF HintsCompared, Quiet, Present
    <3>. QED BY <1>5, <3>2, <3>5
  <2>2. CASE ~(/\ checkpoint # None /\ manifest # None
               /\ Present = {p \in Paths : manifest[p] # NoEntry})
    BY <1>4, <1>6, <2>2 DEF verify_checkpoint
  <2>. QED BY <2>1, <2>2
<1>7. ASSUME verify_manifest PROVE InventoryInv'
  <2>0. run.pc = "compare" /\ run.todo \in SUBSET Paths /\ HintsCompared
    BY <1>3, <1>7 DEF verify_manifest, RunType, InventoryInv
  <2>1. CASE run.todo = {}
    <3>1. run' = [run EXCEPT !.pc = "verified"]
      BY <1>7, <2>1 DEF verify_manifest, Goto
    <3>2. /\ run' \in RunType /\ run'.pc = "verified" /\ run'.todo = run.todo
          /\ UNCHANGED <<run.entries, run.hint, run.owner, run.intents>>
      BY <1>3, <3>1 DEF RunType
    <3>3. HintsCompared'
      BY <1>1, <2>0, <2>1, <3>2 DEF HintsCompared, Quiet, Current
    <3>. QED BY <1>5, <3>2, <3>3
  <2>2. CASE run.todo # {}
             /\ disk[Min(run.todo)].stamp = manifest[Min(run.todo)].hint
    <3>1. run' = [run EXCEPT !.todo = @ \ {Min(@)}]
      BY <1>7, <2>2 DEF verify_manifest
    <3>2. /\ run' \in RunType /\ run'.pc = "compare"
          /\ run'.todo = run.todo \ {Min(run.todo)}
          /\ UNCHANGED <<run.entries, run.hint, run.owner, run.intents>>
      BY <1>3, <2>0, <3>1 DEF RunType
    <3>3. HintsCompared'
      BY <1>1, <2>0, <2>2, <3>2 DEF HintsCompared, Quiet, Current
    <3>. QED BY <1>5, <3>2, <3>3
  <2>3. CASE run.todo # {}
             /\ disk[Min(run.todo)].stamp # manifest[Min(run.todo)].hint
    BY <1>4, <1>7, <2>3 DEF verify_manifest
  <2>. QED BY <2>1, <2>2, <2>3
<1>. QED BY <1>6, <1>7

(* The metadata of the next file are taken.                                 *)
LEMMA StatStep ==
    ASSUME InventoryInv, stat
    PROVE  InventoryInv'
<1>. DEFINE p == Min(run.todo)
<1>0. /\ run \in RunType /\ run.pc = "files" /\ run.todo # {}
      /\ run.todo \in SUBSET Paths
      /\ disk \in [Paths -> FileType]
      /\ UNCHANGED <<disk, unreported, changes, forgotten, recovered>>
      /\ UNCHANGED <<manifest, published>>
  BY DEF stat, world, files, ghosts, InventoryInv, InventoryTyped, RunType
<1>1. p \in Paths
  BY <1>0, NextFileIsLeft
<1>. HIDE DEF p
<1>2. CASE disk[p] = Absent
  <2>1. fail
    BY <1>2 DEF stat, p
  <2>. QED BY <1>0, <2>1, FailStep
<1>3. CASE disk[p] # Absent
  <2>1. run' = [run EXCEPT !.pc = "read", !.hint = disk[p].stamp]
        /\ UNCHANGED <<generation, dirty, job, jobGeneration>>
    BY <1>3 DEF stat, p, vars
  <2>2. Quiet
    BY <1>0, <2>1 DEF Quiet
  <2>3. disk[p].stamp \in Nat /\ disk[p].stamp <= changes /\ disk[p].stamp >= 1
    BY <1>0, <1>1, <1>3 DEF FileType, InventoryInv, EditsNumbered
  <2>4. /\ run' \in RunType /\ run'.pc = "read" /\ run'.hint = disk[p].stamp
        /\ UNCHANGED <<run.todo, run.entries, run.owner, run.intents>>
    BY <1>0, <2>1, <2>3 DEF RunType, Passing
  <2>5. \A q \in Paths : /\ run'.entries[q].hint <= changes
                         /\ Vouched(run'.entries[q], q)
    BY <2>4 DEF InventoryInv, EditsNumbered, EntriesVouched
  <2>6. RunHasJob' /\ HintsCompared' /\ PassIsStored'
    BY <1>0, <2>2, <2>4
    DEF InventoryInv, RunHasJob, HintsCompared, PassIsStored, Quiet, Passing,
        Passed
  <2>7. PassIsFresh'
    BY <1>0, <2>2, <2>4
    DEF InventoryInv, PassIsFresh, Quiet, Passing, Passed, Current, Excused,
        silent
  <2>8. HintIsTaken'
    BY <1>0, <2>2, <2>3, <2>4 DEF HintIsTaken, Quiet, p
  <2>. QED BY <1>0, <2>2, <2>3, <2>4, <2>5, <2>6, <2>7, <2>8, QuietStep
<1>. QED BY <1>2, <1>3

(* What is taken from the manifest for a file whose hint it has is what is  *)
(* on disk, but for the changes a run may miss: the paths it was told of    *)
(* are read.                                                                *)
LEMMA KeptIsFresh ==
    ASSUME InventoryInv, NEW p \in Paths, manifest # None,
           run.intents = from_durable(job), job # NoJob,
           generation = jobGeneration,
           authoritative(run.intents) \/ p \notin paths(run.intents),
           disk[p] # Absent, manifest[p].hint = disk[p].stamp
    PROVE  manifest[p].hash = disk[p].content \/ Excused(p)
<1>1. \/ manifest[p].hash = disk[p].content
      \/ silent(p) /\ Outstanding(p)
  BY DEF InventoryInv, EntriesVouched, Vouched
<1>2. ASSUME ~recovered PROVE p \notin paths(dirty)
  <2>1. job = durable(dirty) /\ dirty \in DirtyRepository /\ Collapsed(dirty)
    BY <1>2 DEF InventoryInv, JobsInOrder, InventoryTyped
  <2>. QED BY <2>1, RunKnowsPaths
<1>. QED BY <1>1, <1>2 DEF Outstanding, Excused

(* The next file is read, or its entry of the manifest is kept.             *)
LEMMA ReadStep ==
    ASSUME InventoryInv, read
    PROVE  InventoryInv'
<1>. DEFINE p == Min(run.todo)
            reading == selected(p) \/ ~load_content(p)
            hash == IF reading THEN disk[p].content ELSE manifest[p].hash
            entry == persisted_entry(p, hash)
<1>0. /\ run \in RunType /\ run.pc = "read" /\ run.todo # {}
      /\ run.todo \in SUBSET Paths /\ run.hint \in Nat
      /\ run.entries \in [Paths -> EntryType]
      /\ disk \in [Paths -> FileType]
      /\ UNCHANGED <<disk, unreported, changes, forgotten, recovered>>
      /\ UNCHANGED <<manifest, published>>
  BY DEF read, world, files, ghosts, InventoryInv, InventoryTyped, RunType,
         HintIsTaken
<1>1. p \in Paths
  BY <1>0, NextFileIsLeft
<1>2. \/ reading /\ disk[p] = Absent /\ fail
      \/ /\ run' = [run EXCEPT !.pc = "files", !.todo = @ \ {p},
                               !.entries[p] = entry]
         /\ UNCHANGED <<generation, dirty, job, jobGeneration>>
  BY DEF read, vars
<1>3. ~reading =>
        /\ manifest # None /\ manifest[p].hint = run.hint
        /\ ~authoritative(run.intents) /\ p \notin paths(run.intents)
  BY DEF selected
<1>4. entry = [hint |-> run.hint, hash |-> hash]
  BY DEF persisted_entry
<1>5. hash \in Nat
  BY <1>0, <1>1, <1>3 DEF InventoryInv, InventoryTyped, FileType, EntryType
<1>6. reading => hash = disk[p].content
  OBVIOUS
<1>7. ~reading => hash = manifest[p].hash
  OBVIOUS
<1>. HIDE DEF p, reading, hash, entry
<1>8. CASE fail
  BY <1>0, <1>8, FailStep
<1>9. CASE /\ run' = [run EXCEPT !.pc = "files", !.todo = @ \ {p},
                                 !.entries[p] = entry]
           /\ UNCHANGED <<generation, dirty, job, jobGeneration>>
  <2>1. Quiet
    BY <1>0, <1>9 DEF Quiet
  <2>2. entry \in EntryType /\ entry.hint = run.hint /\ entry.hash = hash
    BY <1>0, <1>4, <1>5 DEF EntryType
  <2>3. /\ run'.pc = "files" /\ run'.todo = run.todo \ {p}
        /\ run'.entries = [run.entries EXCEPT ![p] = entry]
        /\ UNCHANGED <<run.hint, run.owner, run.intents>>
    BY <1>0, <1>9 DEF RunType
  <2>4. run' \in RunType
    BY <1>0, <1>9, <2>2 DEF RunType, Passing
  <2>5. run'.entries[p] = entry
        /\ \A q \in Paths \ {p} : run'.entries[q] = run.entries[q]
    BY <1>0, <1>1, <2>3
  <2>6. Vouched(entry, p)
    <3>1. CASE reading
      BY <1>6, <2>2, <3>1 DEF Vouched
    <3>2. CASE ~reading
      <4>1. Vouched(manifest[p], p)
        BY <1>1, <1>3, <3>2 DEF InventoryInv, EntriesVouched
      <4>. QED BY <1>3, <1>7, <2>2, <3>2, <4>1 DEF Vouched
    <3>. QED BY <3>1, <3>2
  <2>7. ASSUME NEW q \in Paths
        PROVE  /\ run'.entries[q].hint <= changes
               /\ Vouched(run'.entries[q], q)
    <3>1. run.hint <= changes /\ run.entries[q].hint <= changes
          /\ Vouched(run.entries[q], q)
      BY DEF InventoryInv, EditsNumbered, EntriesVouched
    <3>2. CASE q = p
      BY <2>2, <2>5, <2>6, <3>1, <3>2
    <3>3. CASE q # p
      <4>1. run'.entries[q] = run.entries[q]
        BY <2>5, <3>3
      <4>. QED BY <3>1, <4>1
    <3>. QED BY <3>2, <3>3
  <2>8. RunHasJob'
    BY <1>0, <2>1, <2>3 DEF InventoryInv, RunHasJob, Quiet, Passing
  <2>9. HintIsTaken' /\ HintsCompared' /\ PassIsStored'
    BY <2>3 DEF HintIsTaken, HintsCompared, PassIsStored, Passed
  <2>10. ASSUME Current
         PROVE  entry.hash = disk[p].content \/ Excused(p)
    <3>1. CASE reading
      BY <1>6, <2>2, <3>1
    <3>2. CASE ~reading /\ p \notin unreported
      <4>1. run.hint = disk[p].stamp /\ run.hint >= 1
        BY <1>0, <2>10, <3>2 DEF InventoryInv, HintIsTaken, p
      <4>2. disk[p] # Absent
        BY <4>1 DEF Absent
      <4>3. run.intents = from_durable(job) /\ job # NoJob
            /\ generation = jobGeneration
        BY <1>0, <2>10 DEF InventoryInv, RunHasJob, Current
      <4>4. manifest[p].hash = disk[p].content \/ Excused(p)
        BY <1>1, <1>3, <3>2, <4>1, <4>2, <4>3, KeptIsFresh
      <4>. QED BY <1>7, <2>2, <3>2, <4>4
    <3>3. CASE p \in unreported
      BY <3>3 DEF Excused
    <3>. QED BY <3>1, <3>2, <3>3
  <2>11. PassIsFresh'
    <3>. SUFFICES ASSUME Current', NEW q \in Paths \ run'.todo
                  PROVE  run'.entries[q].hash = disk'[q].content \/ Excused(q)'
      BY DEF PassIsFresh
    <3>1. Current /\ disk' = disk /\ (Excused(q) => Excused(q)')
      BY <2>1, <2>3 DEF Current, Quiet, Excused, silent
    <3>2. CASE q = p
      BY <2>5, <2>10, <3>1, <3>2
    <3>3. CASE q # p
      <4>1. q \in Paths \ run.todo
        BY <2>3, <3>3
      <4>2. run.entries[q].hash = disk[q].content \/ Excused(q)
        BY <1>0, <3>1, <4>1 DEF InventoryInv, PassIsFresh, Passing
      <4>. QED BY <2>5, <3>1, <3>3, <4>2
    <3>. QED BY <3>2, <3>3
  <2>12. run'.hint <= changes
    BY <2>3 DEF InventoryInv, EditsNumbered
  <2>. QED BY <1>0, <2>1, <2>4, <2>7, <2>8, <2>9, <2>11, <2>12, QuietStep
<1>. QED BY <1>2, <1>8, <1>9

(* The pass is over and its entries become the manifest.                    *)
LEMMA StoreManifestStep ==
    ASSUME InventoryInv, store_manifest
    PROVE  InventoryInv'
<1>0. /\ run \in RunType /\ run.pc = "files" /\ run.todo = {}
      /\ manifest' = run.entries
      /\ Quiet /\ UNCHANGED published
  BY DEF store_manifest, vars, world, ghosts, InventoryInv, InventoryTyped,
         Quiet
<1>1. CASE run.owner = "other"
  <2>1. run' = Idle
    BY <1>1 DEF store_manifest
  <2>2. changes \in Nat /\ \A p \in Paths : run'.entries[p].hint = 0
    BY <2>1, IdleRun DEF NoEntry, InventoryInv, InventoryTyped
  <2>3. run' \in RunType /\ run'.hint <= changes
    BY <2>1, <2>2, IdleRun
  <2>4. ASSUME NEW p \in Paths
        PROVE  /\ run'.entries[p].hint <= changes
               /\ Vouched(run'.entries[p], p)
    <3>1. disk[p] # Absent => disk[p].stamp >= 1
      BY DEF InventoryInv, EditsNumbered
    <3>. QED BY <2>2, <3>1 DEF Vouched
  <2>5. /\ RunHasJob' /\ PassIsFresh' /\ HintIsTaken' /\ HintsCompared'
        /\ PassIsStored'
    BY <2>1, IdleRun DEF RunHasJob, PassIsFresh, HintIsTaken, HintsCompared,
                         PassIsStored, Passing, Passed
  <2>. QED BY <1>0, <2>3, <2>4, <2>5, QuietStep
<1>2. CASE run.owner # "other"
  <2>1. run' = [run EXCEPT !.pc = "refreshed"]
    BY <1>2 DEF store_manifest
  <2>2. /\ run' \in RunType /\ run'.pc = "refreshed"
        /\ UNCHANGED <<run.todo, run.entries, run.hint, run.owner, run.intents>>
    BY <1>0, <2>1 DEF RunType, Passed
  <2>3. /\ run'.hint <= changes
        /\ \A p \in Paths : /\ run'.entries[p].hint <= changes
                            /\ Vouched(run'.entries[p], p)
    BY <2>2 DEF InventoryInv, EditsNumbered, EntriesVouched
  <2>4. RunHasJob' /\ HintIsTaken' /\ HintsCompared' /\ PassIsStored'
    BY <1>0, <1>2, <2>2
    DEF InventoryInv, RunHasJob, HintIsTaken, HintsCompared, PassIsStored,
        Quiet
  <2>5. PassIsFresh'
    BY <1>0, <2>2
    DEF InventoryInv, PassIsFresh, Quiet, Passing, Passed, Current, Excused,
        silent
  <2>. QED BY <1>0, <2>2, <2>3, <2>4, <2>5, QuietStep
<1>. QED BY <1>1, <1>2

(* A run of the workspace goes on with what it has read: it analyzes,       *)
(* publishes or renews the checkpoint.                                      *)
LEMMA GoesOn ==
    ASSUME InventoryInv, Quiet, UNCHANGED manifest,
           run.pc \in Passed, NEW next \in {"publish", "checkpoint"},
           run' = [run EXCEPT !.pc = next],
           next = "publish" => published' = published
                               /\ run.prepared = hashes(run.entries),
           next = "checkpoint" => published' = hashes(run.entries)
    PROVE  InventoryInv'
<1>1. /\ run \in RunType /\ run.owner = "workspace"
      /\ generation # 0 /\ run.hint <= changes
  BY RunUnderWay DEF Passed, Passing
<1>2. /\ run' \in RunType /\ run'.pc = next
      /\ UNCHANGED <<run.todo, run.entries, run.hint, run.owner, run.intents,
                     run.prepared>>
  BY <1>1 DEF RunType, Passed
<1>3. \A p \in Paths : /\ run'.entries[p].hint <= changes
                       /\ Vouched(run'.entries[p], p)
  BY <1>2 DEF InventoryInv, EditsNumbered, EntriesVouched
<1>4. RunHasJob' /\ HintIsTaken' /\ HintsCompared'
  BY <1>1, <1>2
  DEF InventoryInv, RunHasJob, HintIsTaken, HintsCompared, Quiet, Passed,
      Passing
<1>5. PassIsStored'
  BY <1>2 DEF InventoryInv, PassIsStored, hashes
<1>6. PassIsFresh'
  BY <1>2 DEF InventoryInv, PassIsFresh, Quiet, Passing, Passed, Current,
              Excused, silent
<1>. QED BY <1>1, <1>2, <1>3, <1>4, <1>5, <1>6, QuietStep

(* The decisions after a pass and the publication.                          *)
LEMMA PassedStep ==
    ASSUME InventoryInv, refreshed \/ reverified \/ publish_verified_sharded
    PROVE  InventoryInv'
<1>0. /\ run.pc \in {"refreshed", "publish"} /\ run.pc \in Passed
      /\ UNCHANGED <<disk, unreported, changes, recovered, manifest>>
  BY DEF refreshed, reverified, publish_verified_sharded, world, files, ghosts,
         Passed
<1>1. /\ run \in RunType /\ run.owner = "workspace" /\ run.hint <= changes
      /\ job # NoJob /\ generation >= jobGeneration
      /\ run.intents = from_durable(job)
  BY <1>0, RunUnderWay DEF Passing
<1>2. ASSUME refreshed PROVE InventoryInv'
  <2>0. UNCHANGED <<forgotten, published>>
    BY <1>2 DEF refreshed, ghosts
  <2>1. CASE generation # jobGeneration /\ fail
    BY <1>0, <2>0, <2>1, FailStep
  <2>2. CASE UNCHANGED vars
    <3>1. Quiet
      BY <1>0, <2>0, <2>2 DEF Quiet, vars
    <3>2. CASE snapshot = published /\ Goto("checkpoint")
      BY <1>0, <2>0, <3>1, <3>2, GoesOn DEF snapshot, Goto
    <3>3. CASE inventory_candidates([run EXCEPT !.prepared = snapshot], 2)
      <4>1. PICK r : r = [run EXCEPT !.prepared = snapshot]
        OBVIOUS
      <4>2. snapshot \in [Paths -> Nat]
        BY <1>1 DEF snapshot, hashes, RunType, EntryType
      <4>3. r \in RunType /\ r.hint = run.hint /\ r.owner = run.owner
            /\ r.intents = run.intents
        BY <1>1, <4>1, <4>2 DEF RunType
      <4>4. inventory_candidates(r, 2)
        BY <3>3, <4>1
      <4>. QED BY <1>0, <1>1, <2>0, <3>1, <4>3, <4>4, PassStarts
    <3>. QED BY <1>2, <2>2, <3>2, <3>3, <2>1 DEF refreshed
  <2>. QED BY <1>2, <2>1, <2>2 DEF refreshed
<1>3. ASSUME reverified PROVE InventoryInv'
  <2>0. UNCHANGED published /\ UNCHANGED world
    BY <1>3 DEF reverified
  <2>1. CASE fail /\ UNCHANGED forgotten
    BY <1>0, <2>0, <2>1, FailStep
  <2>2. CASE discard
    BY <1>0, <2>0, <2>2, DiscardStep
  <2>3. CASE snapshot = run.prepared /\ Goto("publish")
             /\ UNCHANGED <<vars, forgotten>>
    <3>1. Quiet
      BY <1>0, <2>3 DEF Quiet, vars
    <3>. QED BY <1>0, <2>0, <2>3, <3>1, GoesOn DEF snapshot, Goto
  <2>. QED BY <1>3, <2>1, <2>2, <2>3 DEF reverified
<1>4. ASSUME publish_verified_sharded PROVE InventoryInv'
  <2>1. Quiet
    BY <1>0, <1>4 DEF publish_verified_sharded, Quiet, vars, ghosts
  <2>2. published' = hashes(run.entries)
    BY <1>4 DEF publish_verified_sharded, InventoryInv, PassIsStored
  <2>3. run' = [run EXCEPT !.pc = "checkpoint"]
    BY <1>4 DEF publish_verified_sharded, Goto
  <2>. QED BY <1>0, <2>1, <2>2, <2>3, GoesOn
<1>. QED BY <1>2, <1>3, <1>4

(* A run of the workspace ends with the checkpoint: the generation is       *)
(* complete when it is still the run's.                                     *)
LEMMA StoreCheckpointStep ==
    ASSUME InventoryInv, store_checkpoint
    PROVE  InventoryInv'
<1>0. /\ run.pc = "checkpoint" /\ succeed
      /\ UNCHANGED <<world, manifest, published>>
  BY DEF store_checkpoint
<1>1. run.owner = "workspace" /\ run \in RunType
  BY <1>0, RunUnderWay DEF Passing
<1>2. /\ run.todo = {} /\ manifest = run.entries
      /\ published = hashes(manifest)
  BY <1>0 DEF InventoryInv, PassIsStored, Passed
<1>3. generation = jobGeneration =>
         \A p \in Paths : manifest[p].hash = disk[p].content \/ Excused(p)
  BY <1>0, <1>1, <1>2 DEF InventoryInv, PassIsFresh, Passed, Current
<1>. QED BY <1>0, <1>1, <1>2, <1>3, SucceedStep

(* A verified checkpoint that is also what is published ends the run        *)
(* without a pass: the hints that were compared vouch for the manifest.     *)
LEMMA AcceptStep ==
    ASSUME InventoryInv, accept_checkpoint
    PROVE  InventoryInv'
<1>0. /\ run.pc = "verified"
      /\ UNCHANGED <<world, manifest, published>>
      /\ UNCHANGED <<disk, unreported, changes>>
  BY DEF accept_checkpoint, world, files
<1>1. /\ run \in RunType /\ run.owner = "workspace" /\ run.hint <= changes
      /\ job # NoJob /\ generation >= jobGeneration
      /\ run.intents = from_durable(job)
  BY <1>0, RunUnderWay DEF Passing
<1>2. ASSUME inventory_candidates(run, 1), UNCHANGED <<vars, ghosts>>
      PROVE  InventoryInv'
  <2>1. Quiet
    BY <1>0, <1>2 DEF Quiet, vars, ghosts
  <2>. QED BY <1>0, <1>1, <1>2, <2>1, PassStarts
<1>3. ASSUME fail, UNCHANGED ghosts PROVE InventoryInv'
  BY <1>0, <1>3, FailStep DEF ghosts
<1>4. ASSUME manifest_matches_checkpoint, generation = jobGeneration,
             published = checkpoint, succeed
      PROVE  InventoryInv'
  <2>1. /\ manifest # None /\ authoritative(run.intents) /\ run.todo = {}
        /\ published = hashes(manifest)
    BY <1>0, <1>4 DEF InventoryInv, HintsCompared, manifest_matches_checkpoint
  <2>2. ASSUME NEW p \in Paths
        PROVE  manifest[p].hash = disk[p].content \/ Excused(p)
    <3>1. \/ p \in unreported
          \/ disk[p] = Absent /\ manifest[p] = NoEntry
          \/ disk[p] # Absent /\ manifest[p].hint = disk[p].stamp
      BY <1>0, <1>1, <1>4, <2>1 DEF InventoryInv, HintsCompared, Current
    <3>2. CASE p \in unreported
      BY <3>2 DEF Excused
    <3>3. CASE disk[p] = Absent /\ manifest[p] = NoEntry
      BY <3>3 DEF Absent, NoEntry
    <3>4. CASE disk[p] # Absent /\ manifest[p].hint = disk[p].stamp
      BY <1>1, <1>4, <2>1, <3>4, KeptIsFresh
    <3>. QED BY <3>1, <3>2, <3>3, <3>4
  <2>. QED BY <1>0, <1>1, <1>4, <2>1, <2>2, SucceedStep
<1>. QED BY <1>2, <1>3, <1>4 DEF accept_checkpoint

-----------------------------------------------------------------------------
(***************************************************************************)
(* The invariant is inductive.                                             *)
(***************************************************************************)
(* Initially the workspace is marked and nothing was read.                  *)
LEMMA InitInventoryInv == InventoryInit => InventoryInv
<1>. SUFFICES ASSUME InventoryInit PROVE InventoryInv
  OBVIOUS
<1>0. /\ generation = 1 /\ dirty = ApplyAll(Clean) /\ job = NoJob
      /\ jobGeneration = 0 /\ unreported = {} /\ manifest = None
      /\ published = None /\ run = Idle /\ changes = 1
      /\ disk = [p \in Paths |-> [content |-> 1, stamp |-> 1]]
  BY DEF InventoryInit
<1>1. [content |-> 1, stamp |-> 1] \in FileType
  BY DEF FileType
<1>2. InventoryTyped
  BY <1>0, <1>1, IdleRun, PlainIntents DEF InventoryTyped
<1>3. \A p \in Paths : run.entries[p].hint = 0
  BY <1>0, IdleRun DEF NoEntry
<1>4. \A p \in Paths : disk[p].content = 1 /\ disk[p].stamp = 1
  BY <1>0
<1>5. EditsNumbered
  BY <1>0, <1>3, <1>4, IdleRun DEF EditsNumbered
<1>6. EntriesVouched
  BY <1>0, <1>3, <1>4 DEF EntriesVouched, Vouched
<1>7. /\ JobsInOrder /\ RunHasJob /\ PassIsFresh /\ HintIsTaken
      /\ HintsCompared /\ PassIsStored /\ CompletedIsCurrent
  BY <1>0, IdleRun
  DEF JobsInOrder, RunHasJob, PassIsFresh, HintIsTaken, HintsCompared,
      PassIsStored, CompletedIsCurrent, Passing, Passed
<1>. QED BY <1>2, <1>5, <1>6, <1>7 DEF InventoryInv

(* Every step preserves the invariant.                                      *)
LEMMA NextInventoryInv ==
    InventoryInv /\ [InventoryNext]_inventoryVars => InventoryInv'
<1>. SUFFICES ASSUME InventoryInv, [InventoryNext]_inventoryVars
              PROVE  InventoryInv'
  OBVIOUS
<1>1. ASSUME NEW p \in Paths, edit(p) \/ remove(p) PROVE InventoryInv'
  BY <1>1, EditChanges, ChangeStep
<1>2. CASE report \/ watcher_error \/ mark_workspace
  BY <1>2, ReportsMark, MarkStep
<1>3. CASE submit
  BY <1>3, SubmitStep
<1>4. CASE begin_job \/ begin_other
  BY <1>4, BeginStep
<1>5. CASE superseded_job
  BY <1>5, SupersededStep
<1>6. CASE clear_cache \/ lose_blobs \/ UNCHANGED inventoryVars
  <2>1. Quiet /\ UNCHANGED <<manifest, published, run>>
    BY <1>6 DEF clear_cache, lose_blobs, inventoryVars, inventory, vars, world,
                files, ghosts, Quiet
  <2>. QED BY <2>1, StutterStep
<1>7. CASE operation_fails
  <2>1. /\ fail /\ run # Idle
        /\ UNCHANGED <<disk, unreported, changes, forgotten, recovered>>
        /\ UNCHANGED <<manifest, published>>
    BY <1>7 DEF operation_fails, world, files, ghosts
  <2>. QED BY <2>1, FailStep
<1>8. CASE verify_checkpoint \/ verify_manifest
  BY <1>8, VerifyStep
<1>9. CASE accept_checkpoint
  BY <1>9, AcceptStep
<1>10. CASE stat
  BY <1>10, StatStep
<1>11. CASE read
  BY <1>11, ReadStep
<1>12. CASE store_manifest
  BY <1>12, StoreManifestStep
<1>13. CASE refreshed \/ reverified \/ publish_verified_sharded
  BY <1>13, PassedStep
<1>14. CASE store_checkpoint
  BY <1>14, StoreCheckpointStep
<1>15. CASE restart
  BY <1>15, RestartStep
<1>. QED BY <1>1, <1>2, <1>3, <1>4, <1>5, <1>6, <1>7, <1>8, <1>9, <1>10,
            <1>11, <1>12, <1>13, <1>14, <1>15
     DEF InventoryNext

(* The strengthened invariant holds in every reachable state.               *)
THEOREM InventoryInvariant == InventorySpec => []InventoryInv
  BY InitInventoryInv, NextInventoryInv, PTL DEF InventorySpec

(* An entry of the manifest whose hint is that of the file has the file's   *)
(* content unless the edit left no trace in the metadata, for any number of *)
(* files, edits, crashes and failures: persisted_entry takes the hint       *)
(* before the bytes.                                                        *)
THEOREM ManifestHonest == InventorySpec => []ManifestIsHonest
<1>1. InventoryInv => ManifestIsHonest
  BY DEF InventoryInv, EntriesVouched, Vouched, ManifestIsHonest, Present
<1>. QED BY InventoryInvariant, <1>1, PTL

(* When complete_generation has left no generation pending, what is         *)
(* published is what is on disk, but for changes whose event is still to    *)
(* come and for edits without a trace whose path no run was told.           *)
THEOREM CompletedCurrent == InventorySpec => []CompletedIsCurrent
<1>1. InventoryInv => CompletedIsCurrent
  BY DEF InventoryInv
<1>. QED BY InventoryInvariant, <1>1, PTL

-----------------------------------------------------------------------------
(***************************************************************************)
(* The intents through restarts and recovered jobs.                        *)
(***************************************************************************)
(* What DirtyIntents promises of its own steps, with the one fact that a    *)
(* completion needs: a current job of this process has seen every report.   *)
IntentsKept ==
    /\ owed \in Owed /\ since \in Owed
    /\ path_count(dirty) <= MAX_PENDING_PATHS
    /\ NoIntentLost
    /\ job # NoJob /\ ~recovered /\ generation = jobGeneration =>
          since = NothingOwed

(* A clean entry has no path, a marked one stands for everything.           *)
LEMMA PlainCounts ==
    /\ path_count(Clean) = 0 /\ path_count(ApplyAll(Clean)) = 0
    /\ Covers(Clean, NothingOwed)
    /\ \A o : Covers(ApplyAll(Clean), o)
    /\ NothingOwed \in Owed
<1>1. path_count(Clean) = 0 /\ path_count(ApplyAll(Clean)) = 0
  BY FS_EmptySet DEF path_count, Clean, ApplyAll
<1>2. Covers(Clean, NothingOwed) /\ NothingOwed \in Owed
  BY DEF Covers, NothingOwed, Owed
<1>3. authoritative(ApplyAll(Clean))
  BY DEF ApplyAll, Clean, authoritative
<1>. QED BY <1>1, <1>2, <1>3 DEF Covers

(* A step that leaves the intents alone keeps them.                         *)
LEMMA IntentsUnchanged ==
    ASSUME IntentsKept, UNCHANGED vars, UNCHANGED recovered
    PROVE  IntentsKept'
  BY DEF IntentsKept, NoIntentLost, vars

(* A report, a watcher error or a mark is covered; the job is no longer     *)
(* current.                                                                 *)
LEMMA ReportsAreKept ==
    ASSUME InventoryInv, IntentsKept, report \/ watcher_error \/ mark_workspace
    PROVE  IntentsKept'
<1>0. /\ dirty \in DirtyRepository /\ Collapsed(dirty) /\ Covers(dirty, owed)
      /\ owed \in Owed /\ since \in Owed /\ unreported \subseteq Paths
      /\ generation \in Nat /\ jobGeneration \in Nat
      /\ job # NoJob => Covers(from_durable(job), jobOwed)
  BY DEF InventoryInv, InventoryTyped, IntentsKept, NoIntentLost
<1>1. ASSUME NEW r \in Owed, NextGeneration(r), UNCHANGED recovered,
             path_count(dirty') <= MAX_PENDING_PATHS, Covers(dirty', owed')
      PROVE  IntentsKept'
  <2>1. owed' \in Owed /\ since' \in Owed
    BY <1>0, <1>1 DEF NextGeneration, Report, Owed
  <2>2. NoIntentLost'
    <3>1. job' # NoJob => Covers(from_durable(job'), jobOwed')
      BY <1>0, <1>1 DEF NextGeneration
    <3>. QED BY <1>1, <3>1 DEF NoIntentLost
  <2>3. job' # NoJob /\ ~recovered' => generation' # jobGeneration'
    BY <1>0, <1>1 DEF NextGeneration, InventoryInv, JobsInOrder
  <2>. QED BY <1>1, <2>1, <2>2, <2>3 DEF IntentsKept
<1>2. ASSUME report PROVE IntentsKept'
  <2>1. PICK reported \in SUBSET unreported, head \in BOOLEAN,
             structural \in BOOLEAN :
          add_event([head |-> head, structural |-> structural,
                     sources |-> reported \ Configuration,
                     configuration |-> reported \cap Configuration])
    BY <1>2 DEF report
  <2>2. PICK e : e = [head |-> head, structural |-> structural,
                      sources |-> reported \ Configuration,
                      configuration |-> reported \cap Configuration]
    OBVIOUS
  <2>3. e \in Event
    BY <1>0, <2>2 DEF Event
  <2>4. add_event(e)
    BY <2>1, <2>2
  <2>5. PICK r : r = [head |-> e.head, everything |-> e.structural,
                      paths |-> e.sources \cup e.configuration]
    OBVIOUS
  <2>6. r \in Owed
    BY <2>3, <2>5 DEF Event, Owed
  <2>7. NextGeneration(r)
    BY <2>4, <2>5 DEF add_event
  <2>8. path_count(dirty') <= MAX_PENDING_PATHS /\ Covers(dirty', owed')
    BY <1>0, <2>3, <2>4, AddEventCovers
  <2>9. UNCHANGED recovered
    BY <1>2 DEF report
  <2>. QED BY <1>1, <2>6, <2>7, <2>8, <2>9
<1>3. ASSUME watcher_error \/ mark_workspace PROVE IntentsKept'
  <2>1. PICK r : r = [NothingOwed EXCEPT !.everything = TRUE]
    OBVIOUS
  <2>2. r \in Owed
    BY <2>1 DEF NothingOwed, Owed
  <2>3. NextGeneration(r) /\ UNCHANGED recovered
        /\ (dirty' = ApplyReconcile(dirty) \/ dirty' = ApplyAll(Clean))
    BY <1>3, <2>1 DEF watcher_error, reconcile_after_watcher_error,
                      mark_workspace, mark
  <2>4. dirty' \in DirtyRepository /\ Collapsed(dirty')
    BY <1>0, <2>3, ApplyType, PlainIntents
  <2>5. authoritative(dirty')
    BY <1>0, <2>3 DEF authoritative, ApplyReconcile, ApplyAll, Clean,
                      DirtyRepository
  <2>6. dirty'.sources = {} /\ dirty'.configuration = {}
    BY <2>4, <2>5 DEF Collapsed, paths
  <2>7. path_count(dirty') = 0
    BY <2>6, FS_EmptySet DEF path_count
  <2>8. path_count(dirty') <= MAX_PENDING_PATHS /\ Covers(dirty', owed')
    BY <2>5, <2>7, DirtyIntentsAssumption DEF Covers
  <2>. QED BY <1>1, <2>2, <2>3, <2>8
<1>. QED BY <1>2, <1>3

(* The end of a job keeps the intents: it completes a generation only when  *)
(* nothing was reported since, or the job is one of an earlier process.     *)
LEMMA EndsAreKept ==
    ASSUME InventoryInv, IntentsKept,
           \/ job_failed
           \/ discard
           \/ succeed
    PROVE  IntentsKept'
<1>0. owed \in Owed /\ Covers(dirty, owed) /\ 0 <= MAX_PENDING_PATHS
      /\ path_count(dirty) <= MAX_PENDING_PATHS
  BY DirtyIntentsAssumption DEF IntentsKept, NoIntentLost
<1>1. job' = NoJob /\ since' = NothingOwed
  BY DEF job_failed, discard, succeed, complete_recovered, job_finished
<1>2. ASSUME owed' \in Owed, Covers(dirty', owed'),
             path_count(dirty') <= MAX_PENDING_PATHS
      PROVE  IntentsKept'
  BY <1>1, <1>2, PlainCounts DEF IntentsKept, NoIntentLost
<1>3. CASE UNCHANGED <<dirty, owed>>
  BY <1>0, <1>2, <1>3
<1>4. CASE dirty' = Clean /\ owed' = NothingOwed
  BY <1>0, <1>2, <1>4, PlainCounts
<1>5. CASE discard
  <2>1. dirty' = ApplyAll(Clean) /\ owed' \in Owed
    BY <1>0, <1>5 DEF discard, Report, NothingOwed, Owed
  <2>. QED BY <1>0, <1>2, <2>1, PlainCounts
<1>6. ASSUME succeed
      PROVE  UNCHANGED <<dirty, owed>> \/ (dirty' = Clean /\ owed' = NothingOwed)
  <2>1. CASE recovered /\ generation = jobGeneration
    BY <1>6, <2>1 DEF succeed, complete_recovered
  <2>2. CASE ~(recovered /\ generation = jobGeneration)
    BY <1>6, <2>2
    DEF succeed, job_finished, complete_generation, IntentsKept
  <2>. QED BY <2>1, <2>2
<1>7. job_failed => UNCHANGED <<dirty, owed>>
  BY DEF job_failed
<1>. QED BY <1>3, <1>4, <1>5, <1>6, <1>7

(* Every step keeps the intents.                                            *)
LEMMA NextIntentsKept ==
    InventoryInv /\ IntentsKept /\ [InventoryNext]_inventoryVars => IntentsKept'
<1>. SUFFICES ASSUME InventoryInv, IntentsKept, [InventoryNext]_inventoryVars
              PROVE  IntentsKept'
  OBVIOUS
<1>1. ASSUME UNCHANGED vars, UNCHANGED recovered PROVE IntentsKept'
  BY <1>1, IntentsUnchanged
<1>2. ASSUME fail, UNCHANGED recovered PROVE IntentsKept'
  BY <1>1, <1>2, EndsAreKept DEF fail
<1>3. CASE report \/ watcher_error \/ mark_workspace
  BY <1>3, ReportsAreKept
<1>4. CASE submit
  <2>1. /\ job' = durable(dirty) /\ jobOwed' = owed /\ since' = NothingOwed
        /\ UNCHANGED <<dirty, owed>>
    BY <1>4 DEF submit, enqueue_dirty
  <2>2. Covers(from_durable(durable(dirty)), owed)
    BY DurableRoundTrip
    DEF Covers, InventoryInv, InventoryTyped, IntentsKept, NoIntentLost
  <2>. QED BY <2>1, <2>2, PlainCounts DEF IntentsKept, NoIntentLost
<1>5. CASE restart
  <2>1. /\ dirty' = ApplyAll(Clean) /\ owed' = NothingOwed
        /\ since' = NothingOwed /\ UNCHANGED <<job, jobOwed>>
    BY <1>5 DEF restart
  <2>. QED BY <2>1, PlainCounts, DirtyIntentsAssumption
       DEF IntentsKept, NoIntentLost
<1>6. CASE superseded_job
  BY <1>6, EndsAreKept DEF superseded_job
<1>7. CASE operation_fails
  BY <1>2, <1>7 DEF operation_fails, ghosts
<1>8. CASE accept_checkpoint
  BY <1>1, <1>2, <1>8, EndsAreKept DEF accept_checkpoint, ghosts
<1>9. CASE stat
  BY <1>1, <1>2, <1>9 DEF stat, ghosts
<1>10. CASE read
  BY <1>1, <1>2, <1>10 DEF read, ghosts
<1>11. CASE refreshed
  BY <1>1, <1>2, <1>11 DEF refreshed, ghosts
<1>12. CASE reverified
  BY <1>1, <1>2, <1>12, EndsAreKept DEF reverified
<1>13. CASE store_checkpoint
  BY <1>13, EndsAreKept DEF store_checkpoint
<1>14. ASSUME NEW p \in Paths, edit(p) \/ remove(p) PROVE IntentsKept'
  BY <1>1, <1>14 DEF edit, remove
<1>15. CASE \/ begin_job \/ begin_other \/ clear_cache \/ verify_checkpoint
            \/ verify_manifest \/ store_manifest \/ publish_verified_sharded
            \/ lose_blobs \/ UNCHANGED inventoryVars
  BY <1>1, <1>15
  DEF begin_job, begin_other, clear_cache, verify_checkpoint, verify_manifest,
      store_manifest, publish_verified_sharded, lose_blobs, inventoryVars,
      inventory, ghosts
<1>. QED BY <1>3, <1>4, <1>5, <1>6, <1>7, <1>8, <1>9, <1>10, <1>11, <1>12,
            <1>13, <1>14, <1>15
     DEF InventoryNext

(* The intents are kept in every reachable state.                           *)
LEMMA IntentsAlwaysKept == InventorySpec => []IntentsKept
<1>1. InventoryInit => IntentsKept
  <2>. SUFFICES ASSUME InventoryInit PROVE IntentsKept
    OBVIOUS
  <2>1. /\ dirty = ApplyAll(Clean) /\ job = NoJob /\ owed \in Owed
        /\ since \in Owed
    BY DEF InventoryInit, NothingOwed, Owed
  <2>. QED BY <2>1, PlainCounts, DirtyIntentsAssumption
       DEF IntentsKept, NoIntentLost
<1>. QED BY <1>1, NextIntentsKept, InventoryInvariant, PTL DEF InventorySpec

(* Nothing the watcher reported is forgotten before a run that covers it    *)
(* has completed, although the process may die at any moment and a job of   *)
(* an earlier one may complete a generation of this one.                    *)
THEOREM IntentsSurvive == InventorySpec => []NoIntentLost
<1>1. IntentsKept => NoIntentLost
  BY DEF IntentsKept
<1>. QED BY IntentsAlwaysKept, <1>1, PTL

(* The pending paths stay within MAX_PENDING_PATHS, restarts included.      *)
THEOREM PendingStaysBounded == InventorySpec => []BoundedPending
<1>1. InventoryInv /\ IntentsKept => BoundedPending
  BY DEF InventoryInv, InventoryTyped, IntentsKept, BoundedPending, Collapsed
<1>. QED BY IntentsAlwaysKept, InventoryInvariant, <1>1, PTL
==============================================================================
