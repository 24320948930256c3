------------------------------- MODULE Inventory -------------------------------
(***************************************************************************)
(* The inventory of a repository (crates/daemon/src/indexing/inventory.rs) *)
(* and the runs that read a workspace through it, composed with the dirty  *)
(* intents that tell a run what to read.                                   *)
(*                                                                         *)
(* The inventory keeps, per repository, a manifest on disk with a metadata *)
(* hint and the hash of the content of every input, the contents by hash   *)
(* (blobs on disk, and in memory), the workspace's checkpoint, and in      *)
(* memory the fact that the manifest was verified in this process.  A      *)
(* refresh reads the content of the inputs it has reason to and takes the  *)
(* others from the manifest.                                               *)
(*                                                                         *)
(* One workspace with one repository.  Contents are numbered by the edit   *)
(* that wrote them; a hash is the content.  A hint is the number of the    *)
(* last edit that changed the metadata: an edit that keeps the length      *)
(* within the resolution of the file system's clock changes no hint.  HEAD *)
(* and the analyzers, which the fingerprints also cover, are in            *)
(* IndexScheduler.                                                         *)
(***************************************************************************)
EXTENDS DirtyIntents, FiniteSetsExt

CONSTANTS
    Configuration,  \* the paths that are configuration inputs
    None,           \* no manifest, checkpoint or publication
    MaxChanges,     \* bound on changes of files and of the Git directory
    MaxIncidents    \* bound on crashes, failures, losses and other operations

ASSUME InventoryAssumption ==
    /\ Paths \subseteq Nat
    /\ Configuration \subseteq Paths

VARIABLES
    disk,        \* path -> what is on disk, Absent when there is no file
    unreported,  \* changed paths whose event has not been delivered
    manifest,    \* path -> PersistedEntry, or None
    blobs,       \* contents stored on disk
    memory,      \* contents kept in memory
    verified,    \* the inventory key is in InventoryStore::verified
    checkpoint,  \* the snapshot the persisted checkpoint vouches for, or None
    published,   \* the snapshot the store's verification fingerprint is of
    run,         \* the operation that holds the gate
    changes,     \* number of the last change; the files are there from number 1
    incidents,   \* how many incidents there were
    seen,        \* ghost: every state the files were in
    forgotten,   \* ghost: changed paths whose report was lost or became a
                 \* reconciliation
    recovered    \* ghost: the job was submitted by an earlier process

files == <<manifest, blobs, checkpoint>>
cache == <<memory, verified>>
world == <<disk, unreported, changes, seen>>
ghosts == <<forgotten, recovered>>
inventory == <<world, files, cache, published, run, incidents, ghosts>>
inventoryVars == <<vars, inventory>>

Absent == [content |-> 0, stamp |-> 0]
NoEntry == [hint |-> 0, hash |-> 0]
Empty == [p \in Paths |-> 0]

Present == {p \in Paths : disk[p] # Absent}

Idle == [pc |-> "idle", owner |-> "workspace", pass |-> 1, intents |-> Clean,
         todo |-> {}, hint |-> 0, entries |-> [p \in Paths |-> NoEntry],
         prepared |-> Empty]

(* The snapshot a pass has read. *)
hashes(entries) == [p \in Paths |-> entries[p].hash]

(* The workspace has been registered, and so marked. *)
InventoryInit ==
    /\ generation = 1
    /\ dirty = ApplyAll(Clean)
    /\ job = NoJob
    /\ jobGeneration = 0
    /\ owed = [NothingOwed EXCEPT !.everything = TRUE]
    /\ jobOwed = NothingOwed
    /\ since = owed
    /\ disk = [p \in Paths |-> [content |-> 1, stamp |-> 1]]
    /\ unreported = {}
    /\ manifest = None
    /\ blobs = {} /\ memory = {}
    /\ verified = FALSE
    /\ checkpoint = None
    /\ published = None
    /\ run = Idle
    /\ changes = 1
    /\ seen = {disk}
    /\ incidents = 0
    /\ forgotten = {}
    /\ recovered = FALSE

Incident == incidents < MaxIncidents /\ incidents' = incidents + 1

-----------------------------------------------------------------------------
(* The file system and its watcher.                                         *)

(* A file is written, or removed; the write may leave the metadata as it    *)
(* was.                                                                     *)
edit(p) ==
    /\ changes <= MaxChanges
    /\ changes' = changes + 1
    /\ \E stamp \in {changes'} \cup ({disk[p].stamp} \ {0}) :
           disk' = [disk EXCEPT ![p] = [content |-> changes', stamp |-> stamp]]
    /\ seen' = seen \cup {disk'}
    /\ unreported' = unreported \cup {p}
    /\ forgotten' = IF disk'[p].stamp = changes' THEN forgotten \ {p} ELSE forgotten
    /\ UNCHANGED <<vars, files, cache, published, run, incidents, recovered>>

remove(p) ==
    /\ changes <= MaxChanges
    /\ disk[p] # Absent
    /\ changes' = changes + 1
    /\ disk' = [disk EXCEPT ![p] = Absent]
    /\ seen' = seen \cup {disk'}
    /\ unreported' = unreported \cup {p}
    /\ forgotten' = forgotten \ {p}
    /\ UNCHANGED <<vars, files, cache, published, run, incidents, recovered>>

(* Reports that are kept as paths are not forgotten, others are. *)
Remember(reported) ==
    forgotten' = (forgotten \ paths(dirty')) \cup ((reported \cup paths(dirty)) \ paths(dirty'))

(* The watcher delivers an event for some of the changed paths, together    *)
(* with or instead of a change of the Git directory or of a path no         *)
(* analyzer accepts.  A change may be reported more than once.              *)
report ==
    \E reported \in SUBSET unreported, head \in BOOLEAN, structural \in BOOLEAN :
        /\ add_event([head |-> head, structural |-> structural,
                      sources |-> reported \ Configuration,
                      configuration |-> reported \cap Configuration])
        /\ IF head \/ structural THEN changes <= MaxChanges /\ changes' = changes + 1
                              ELSE UNCHANGED changes
        /\ \/ unreported' = unreported \ reported /\ UNCHANGED incidents
           \/ unreported' = unreported /\ reported # {} /\ Incident
        /\ Remember(reported)
        /\ UNCHANGED <<disk, seen, files, cache, published, run, recovered>>

(* Events were lost, and an error is reported in their place. *)
watcher_error ==
    /\ Incident
    /\ reconcile_after_watcher_error
    /\ unreported' = {}
    /\ Remember(unreported)
    /\ UNCHANGED <<disk, seen, changes, files, cache, published, run, recovered>>

-----------------------------------------------------------------------------
(* Operations under the gate: one at a time.                                *)

Goto(pc) == run' = [run EXCEPT !.pc = pc]

(* A refresh starts: the accepted files are listed, in order. *)
inventory_candidates(r, pass) ==
    run' = [r EXCEPT !.pc = "files", !.pass = pass, !.todo = Present,
                     !.entries = [p \in Paths |-> NoEntry]]

checkpoint_eligible(intents) == authoritative(intents)

(* run_automatic_workspace_job: a job of another generation is superseded.  *)
begin_job ==
    /\ run = Idle
    /\ job # NoJob
    /\ generation = jobGeneration
    /\ LET r == [Idle EXCEPT !.intents = from_durable(job)]
       IN IF checkpoint_eligible(r.intents)
            THEN run' = [r EXCEPT !.pc = "verify"]
            ELSE inventory_candidates(r, 1)
    /\ UNCHANGED <<vars, world, files, cache, published, incidents, ghosts>>

superseded_job ==
    /\ run = Idle
    /\ generation # jobGeneration
    /\ job_failed
    /\ UNCHANGED inventory

(* Another operation refreshes the same inventory: a run of the repository  *)
(* alone, or of another workspace.                                          *)
begin_other ==
    /\ run = Idle
    /\ \E intents \in {Clean, ApplyReconcile(Clean)} :
           inventory_candidates([Idle EXCEPT !.owner = "other", !.intents = intents], 1)
    /\ Incident
    /\ UNCHANGED <<vars, world, files, cache, published, ghosts>>

clear_cache ==
    /\ run = Idle
    /\ Incident
    /\ verified' = FALSE
    /\ memory' = {}
    /\ UNCHANGED <<vars, world, files, published, run, ghosts>>

(* The operation ends: a run of the workspace leaves an error, the job is   *)
(* given up and its generation stays pending.                               *)
fail ==
    /\ run' = Idle
    /\ IF run.owner = "other" THEN UNCHANGED vars ELSE job_failed

(* A run of the workspace succeeds and completes its generation.  A job of  *)
(* an earlier process may complete a generation of this one, which has the  *)
(* same number but more intents, of whose paths the run was not told.       *)
complete_recovered ==
    /\ generation' = 0
    /\ dirty' = Clean
    /\ job' = NoJob
    /\ jobGeneration' = 0
    /\ owed' = NothingOwed /\ jobOwed' = NothingOwed /\ since' = NothingOwed
    /\ forgotten' = forgotten \cup paths(dirty)

succeed ==
    /\ run' = Idle
    /\ IF recovered /\ generation = jobGeneration
         THEN complete_recovered
         ELSE job_finished /\ UNCHANGED forgotten
    /\ UNCHANGED recovered

operation_fails ==
    /\ run # Idle
    /\ Incident
    /\ fail
    /\ UNCHANGED <<world, files, cache, published, ghosts>>

-----------------------------------------------------------------------------
(* verify_checkpoint, accept_checkpoint                                     *)

(* The checkpoint and the manifest exist and name the files that are there. *)
verify_checkpoint ==
    /\ run.pc = "verify"
    /\ IF /\ checkpoint # None
          /\ manifest # None
          /\ Present = {p \in Paths : manifest[p] # NoEntry}
         THEN run' = [run EXCEPT !.pc = "compare", !.todo = Present]
         ELSE inventory_candidates(run, 1)
    /\ UNCHANGED <<vars, world, files, cache, published, incidents, ghosts>>

(* The files are compared with their hints one after the other. *)
verify_manifest ==
    /\ run.pc = "compare"
    /\ IF run.todo = {} THEN Goto("verified")
       ELSE IF disk[Min(run.todo)].stamp # manifest[Min(run.todo)].hint
         THEN inventory_candidates(run, 1)
         ELSE run' = [run EXCEPT !.todo = @ \ {Min(@)}]
    /\ UNCHANGED <<vars, world, files, cache, published, incidents, ghosts>>

manifest_matches_checkpoint == hashes(manifest) = checkpoint

(* A matching checkpoint that is also of what is published ends the run.    *)
accept_checkpoint ==
    /\ run.pc = "verified"
    /\ \/ /\ ~manifest_matches_checkpoint
          /\ inventory_candidates(run, 1)
          /\ UNCHANGED <<vars, verified, ghosts>>
       \/ /\ manifest_matches_checkpoint
          /\ generation # jobGeneration
          /\ fail
          /\ UNCHANGED <<verified, ghosts>>
       \/ /\ manifest_matches_checkpoint
          /\ generation = jobGeneration
          /\ published # checkpoint
          /\ inventory_candidates(run, 1)
          /\ UNCHANGED <<vars, verified, ghosts>>
       \/ /\ manifest_matches_checkpoint
          /\ generation = jobGeneration
          /\ published = checkpoint
          /\ verified' = TRUE
          /\ succeed
    /\ UNCHANGED <<world, files, memory, published, incidents>>

-----------------------------------------------------------------------------
(* InventoryStore::refresh                                                  *)

(* The metadata of the next file; it may have disappeared. *)
stat ==
    /\ run.pc = "files"
    /\ run.todo # {}
    /\ LET p == Min(run.todo)
       IN IF disk[p] = Absent
            THEN fail
            ELSE /\ run' = [run EXCEPT !.pc = "read", !.hint = disk[p].stamp]
                 /\ UNCHANGED vars
    /\ UNCHANGED <<world, files, cache, published, incidents, ghosts>>

(* Mutant: the paths the watcher named are not read again. *)
MutantHintsOnly(p) ==
    \/ authoritative(run.intents) \/ ~verified
    \/ manifest = None
    \/ manifest[p] = NoEntry \/ manifest[p].hint # run.hint

(* Everything is read until the manifest was verified in this process, then *)
(* what the watcher named and what has another hint.                        *)
selected(p) ==
    \/ authoritative(run.intents) \/ ~verified
    \/ p \in paths(run.intents)
    \/ manifest = None
    \/ manifest[p] = NoEntry \/ manifest[p].hint # run.hint

load_content(p) == manifest[p].hash \in memory \cup blobs

(* Mutant: the metadata is taken after the bytes. *)
MutantLateHint(p, hash) == [hint |-> disk[p].stamp, hash |-> hash]

persisted_entry(p, hash) == [hint |-> run.hint, hash |-> hash]

(* The content of the file, or the one its hash in the manifest stands for; *)
(* when that one is lost the file is read after all.                        *)
read ==
    /\ run.pc = "read"
    /\ LET p == Min(run.todo)
           reading == selected(p) \/ ~load_content(p)
           hash == IF reading THEN disk[p].content ELSE manifest[p].hash
       IN IF reading /\ disk[p] = Absent
            THEN fail /\ UNCHANGED <<memory, blobs>>
            ELSE /\ run' = [run EXCEPT !.pc = "files", !.todo = @ \ {p},
                                       !.entries[p] = persisted_entry(p, hash)]
                 /\ memory' = memory \cup {hash}
                 /\ blobs' = IF reading THEN blobs \cup {hash} ELSE blobs
                 /\ UNCHANGED vars
    /\ UNCHANGED <<world, manifest, checkpoint, verified, published, incidents, ghosts>>

(* The manifest is replaced and counts as verified from now on. *)
store_manifest ==
    /\ run.pc = "files"
    /\ run.todo = {}
    /\ manifest' = run.entries
    /\ verified' = TRUE
    /\ run' = IF run.owner = "other" THEN Idle ELSE [run EXCEPT !.pc = "refreshed"]
    /\ UNCHANGED <<vars, world, blobs, checkpoint, memory, published, incidents, ghosts>>

-----------------------------------------------------------------------------
(* index_workspace_through_port                                             *)

snapshot == hashes(run.entries)

(* The first pass: a snapshot that is published already only renews the     *)
(* checkpoint, any other is analyzed and read again.                        *)
refreshed ==
    /\ run.pc = "refreshed"
    /\ run.pass = 1
    /\ \/ generation # jobGeneration /\ fail
       \/ /\ generation = jobGeneration
          /\ IF snapshot = published
               THEN Goto("checkpoint")
               ELSE inventory_candidates([run EXCEPT !.prepared = snapshot], 2)
          /\ UNCHANGED vars
    /\ UNCHANGED <<world, files, cache, published, incidents, ghosts>>

(* The workspace is marked and the job fails. *)
discard ==
    /\ generation < MaxGeneration
    /\ generation' = generation + 1
    /\ dirty' = ApplyAll(Clean)
    /\ owed' = Report(owed, [NothingOwed EXCEPT !.everything = TRUE])
    /\ job' = NoJob
    /\ jobGeneration' = 0
    /\ jobOwed' = NothingOwed
    /\ since' = NothingOwed
    /\ run' = Idle
    /\ Remember({})

(* Mutant: the second pass is not compared with the first. *)
MutantReverifyGenerationOnly ==
    /\ run.pc = "refreshed"
    /\ run.pass = 2
    /\ IF generation # jobGeneration THEN fail ELSE Goto("publish") /\ UNCHANGED vars
    /\ UNCHANGED <<world, files, cache, published, incidents, ghosts>>

(* The second pass has to find what was analyzed. *)
reverified ==
    /\ run.pc = "refreshed"
    /\ run.pass = 2
    /\ \/ generation # jobGeneration /\ fail /\ UNCHANGED forgotten
       \/ generation = jobGeneration /\ snapshot # run.prepared /\ discard
       \/ /\ generation = jobGeneration
          /\ snapshot = run.prepared
          /\ Goto("publish")
          /\ UNCHANGED <<vars, forgotten>>
    /\ UNCHANGED <<world, files, cache, published, incidents, recovered>>

publish_verified_sharded ==
    /\ run.pc = "publish"
    /\ published' = run.prepared
    /\ Goto("checkpoint")
    /\ UNCHANGED <<vars, world, files, cache, incidents, ghosts>>

(* The checkpoint is replaced, or failing to is logged; the run is over and *)
(* its generation complete.                                                 *)
store_checkpoint ==
    /\ run.pc = "checkpoint"
    /\ \/ checkpoint' = snapshot /\ UNCHANGED incidents
       \/ Incident /\ UNCHANGED checkpoint
    /\ succeed
    /\ UNCHANGED <<world, manifest, blobs, cache, published>>

-----------------------------------------------------------------------------
(* The workspace is registered again or changed. *)
mark_workspace ==
    /\ Incident
    /\ mark
    /\ Remember({})
    /\ UNCHANGED <<world, files, cache, published, run, recovered>>

submit ==
    /\ enqueue_dirty
    /\ recovered' = FALSE
    /\ UNCHANGED <<world, files, cache, published, run, incidents, forgotten>>

(* The cached contents disappear from the disk. *)
lose_blobs ==
    /\ Incident
    /\ blobs # {}
    /\ blobs' = {}
    /\ UNCHANGED <<vars, world, manifest, checkpoint, cache, published, run, ghosts>>

(* The process dies and starts again: what it had in memory is gone, with   *)
(* the events it was not told of; the workspace is marked, the job is kept. *)
restart ==
    /\ Incident
    /\ generation' = 1
    /\ dirty' = ApplyAll(Clean)
    /\ owed' = NothingOwed
    /\ since' = NothingOwed
    /\ unreported' = {}
    /\ verified' = FALSE
    /\ memory' = {}
    /\ run' = Idle
    /\ recovered' = (job # NoJob)
    /\ Remember(unreported)
    /\ UNCHANGED <<job, jobGeneration, jobOwed, disk, seen, changes, files,
                   published>>

InventoryNext ==
    \/ \E p \in Paths : edit(p) \/ remove(p)
    \/ report \/ watcher_error \/ mark_workspace \/ submit
    \/ begin_job \/ superseded_job \/ begin_other \/ clear_cache \/ operation_fails
    \/ verify_checkpoint \/ verify_manifest \/ accept_checkpoint
    \/ stat \/ read \/ store_manifest
    \/ refreshed \/ reverified \/ publish_verified_sharded \/ store_checkpoint
    \/ lose_blobs \/ restart

InventorySpec == InventoryInit /\ [][InventoryNext]_inventoryVars

-----------------------------------------------------------------------------
(* Properties.                                                              *)

(* The last edit of p left its metadata alone. *)
silent(p) == disk[p].content # disk[p].stamp

(* An entry of the manifest whose hint is that of the file is of the file's *)
(* content, although the two are read one after the other while the file    *)
(* may be edited, unless the edit changed no metadata: refresh and          *)
(* verify_manifest rely on it.                                              *)
ManifestIsHonest ==
    manifest # None =>
        \A p \in Present :
            manifest[p].hint = disk[p].stamp /\ ~silent(p) => manifest[p].hash = disk[p].content

(* The published snapshot is of one state the files were in together,       *)
(* although they are read one after the other while others are edited: the  *)
(* second pass of index_workspace_through_port rejects torn snapshots.  A   *)
(* file whose edit changed no metadata may be published as it was before.   *)
PublishedExisted ==
    published # None =>
        \E state \in seen : \A p \in Paths :
            \/ published[p] = state[p].content
            \/ state[p].content # state[p].stamp

(* When no generation is pending, the published snapshot is what is on      *)
(* disk, but for changes whose event is still to be delivered.  That holds  *)
(* for edits that changed no metadata as well, as long as the run was told  *)
(* their path: whichever mode the intents choose, through checkpoints,      *)
(* failed runs, other runs of the repository and restarts.                  *)
CompletedIsCurrent ==
    generation = 0 /\ published # None =>
        \A p \in Paths : \/ published[p] = disk[p].content
                         \/ p \in unreported
                         \/ p \in forgotten /\ silent(p)
=============================================================================
