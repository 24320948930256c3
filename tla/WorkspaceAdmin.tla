---------------------------- MODULE WorkspaceAdmin ----------------------------
(***************************************************************************)
(* Registration of workspaces and repositories by the daemon: the two      *)
(* registries and the files they are kept in, the ownership of filesystem  *)
(* watches, and what the indexer makes of a registration.                  *)
(*                                                                         *)
(* Requests run concurrently.  The registries are behind one mutex, the    *)
(* watcher behind another, runs and deletions behind the operation gate,   *)
(* and the watch calls are served by the thread that also runs the watch   *)
(* callback, which needs the mutex of the registries.  A request that      *)
(* writes both files writes them one after the other; the daemon may crash *)
(* in between and reads them when it starts again.                         *)
(*                                                                         *)
(* A path is a model value.  The display name and the Protobuf descriptors *)
(* of a workspace, which follow its repositories, are left out.            *)
(***************************************************************************)
EXTENDS Naturals, Sequences, FiniteSets, FiniteSetsExt

CONSTANTS
    Clients,        \* requests in progress at the same time
    Workspaces,     \* workspace names
    Repositories,   \* repository identities
    Checkouts,      \* canonical paths of working trees
    Plugins,        \* plugin identities
    IdentityOf,     \* IdentityOf[p]: the repository checkout p belongs to
    Linked,         \* Linked[p]: the other worktrees Git knows of at p
    Administrative, \* Administrative[p]: watch targets of Git at p
    Selections,     \* the path lists a workspace is registered with
    None,           \* an absent value
    MaxRequests,    \* bound on the requests of all clients
    MaxEvents,      \* bound on filesystem events
    MaxFaults       \* bound on crashes, failing writes and failing watches

ASSUME WorkspaceAdminAssumption ==
    /\ IdentityOf \in [Checkouts -> Repositories]
    /\ Linked \in [Checkouts -> SUBSET Checkouts]
    /\ \A p \in Checkouts : \A t \in Administrative[p] :
          t[2] \in {"non_recursive", "recursive"}
    /\ Selections \subseteq Seq(Checkouts) \ {<<>>}
    /\ IsFiniteSet(Workspaces)
    /\ None \notin Clients \cup Workspaces \cup Repositories \cup Checkouts
    /\ MaxRequests \in Nat /\ MaxEvents \in Nat /\ MaxFaults \in Nat

VARIABLES
    \* the files
    repositories_json,  \* selection of each registered repository, or None
    workspaces_json,    \* base of each repository of each workspace, or None
    \* memory of the daemon
    repositories,       \* RepositoryRegistry
    workspaces,         \* WorkspaceRegistry
    registry_lock,      \* holder of the registry mutex
    watcher_lock,       \* holder of the watcher mutex
    gate,               \* holder of the operation gate
    generations,        \* pending generation of each workspace, 0 when none
    owned,              \* WorkspaceWatcher.workspaces: targets of each one
    ownership,          \* WatchOwnership.targets: owners of each target
    watched,            \* mode each path is really watched in, or None
    event_loop,         \* the path whose event the watcher's thread handles
    requests,           \* requests[c]: the request client c waits for
    runs,               \* runs[w]: the index run of workspace w
    \* the store
    published,          \* configuration of the published revision, or None
    \* bounds and ghosts
    issued, events, faults,
    unwatched           \* paths an update that failed was to change

files == <<repositories_json, workspaces_json>>
registries == <<repositories, workspaces>>
locks == <<registry_lock, watcher_lock, gate>>
watches == <<owned, ownership, watched>>
bounds == <<issued, events, faults>>
vars == <<files, registries, locks, generations, watches, event_loop, requests,
          runs, published, bounds, unwatched>>

Idle == [op |-> "idle", pc |-> "idle"]
NoRun == [pc |-> "idle", generation |-> 0, configuration |-> None]

Modes == {"non_recursive", "recursive"}
Paths == Checkouts \cup {t[1] : t \in UNION {Administrative[p] : p \in Checkouts}}
Targets == Paths \X Modes

-----------------------------------------------------------------------------
(***************************************************************************)
(* Selections of checkouts.                                                *)
(***************************************************************************)
(* workspace_repository: the checkout, and the worktrees linked to it.      *)
selection(p) == [base |-> p, alternatives |-> Linked[p] \ {p}]

(* merge_alternatives: the checkouts of both, without the target's base.    *)
merge_alternatives(target, other) ==
    [target EXCEPT !.alternatives =
        (@ \cup {other.base} \cup other.alternatives) \ {target.base}]

(* remember_selection keeps the base that is registered, replace_selection  *)
(* takes the new one.                                                       *)
remember_selection(registered, r, s) ==
    [registered EXCEPT ![r] = IF @ = None THEN s ELSE merge_alternatives(@, s)]

replace_selection(registered, r, s) ==
    [registered EXCEPT ![r] = IF @ = None THEN s ELSE merge_alternatives(s, @)]

(* remember_selection for every repository of a configuration.              *)
remember_all(registered, selected) ==
    [r \in Repositories |->
        IF selected[r] = None THEN registered[r]
        ELSE remember_selection(registered, r, selected[r])[r]]

(* Workspace::new: several checkouts of a repository are one entry; the     *)
(* first is its base, the others are alternatives.                          *)
workspace_repositories(paths) ==
    [r \in Repositories |->
        LET mine == {i \in DOMAIN paths : IdentityOf[paths[i]] = r}
            first == paths[Min(mine)]
        IN IF mine = {} THEN None
           ELSE [base |-> first,
                 alternatives |-> UNION {{paths[i]} \cup Linked[paths[i]] :
                                         i \in mine} \ {first}]]

(* Only identity and base of a selection are written to workspaces.json.    *)
stored_workspaces(ws) ==
    [w \in Workspaces |->
        IF ws[w] = None THEN None
        ELSE [bases |-> [r \in Repositories |->
                            IF ws[w].repositories[r] = None THEN None
                            ELSE ws[w].repositories[r].base],
              plugins |-> ws[w].plugins]]

(* Mutated form of select_checkout: the registered checkout is selected.    *)
MutantRegisteredBase(registered, r, base) == registered[r]

(* select_checkout: a base that is registered, or registered as another     *)
(* checkout, is taken from the registry; any other is read from disk again. *)
select_checkout(registered, r, base) ==
    LET known == registered[r]
    IN IF known # None /\ base = known.base THEN known
       ELSE IF known # None /\ base \in known.alternatives
       THEN [base |-> base,
             alternatives |-> (known.alternatives \ {base}) \cup {known.base}]
       ELSE selection(base)

references(configuration, r) ==
    configuration # None /\ configuration.repositories[r] # None

(* WorkspaceRegistry::open, from the two files.                             *)
opened_workspaces ==
    [w \in Workspaces |->
        LET stored == workspaces_json[w]
        IN IF stored = None THEN None
           ELSE [repositories |->
                    [r \in Repositories |->
                        IF stored.bases[r] = None THEN None
                        ELSE select_checkout(repositories_json, r,
                                             stored.bases[r])],
                 plugins |-> stored.plugins]]

(* Every selection is remembered; the base of a repository that no file     *)
(* knows is that of the workspace that is read first.                       *)
opened_repositories ==
    [r \in Repositories |->
        LET opened == {opened_workspaces[w].repositories[r] :
                       w \in {v \in Workspaces : references(opened_workspaces[v], r)}}
            first == IF repositories_json[r] # None THEN repositories_json[r]
                     ELSE CHOOSE s \in opened : TRUE
        IN IF opened = {} THEN repositories_json[r]
           ELSE [base |-> first.base,
                 alternatives |-> (first.alternatives \cup
                     UNION {{s.base} \cup s.alternatives : s \in opened})
                         \ {first.base}]]

(* Mutated form of workspace_referencing_repository: always no.             *)
MutantNoReference(r) == FALSE

workspace_referencing_repository(r) ==
    \E w \in Workspaces : references(workspaces[w], r)

-----------------------------------------------------------------------------
(***************************************************************************)
(* Watches.                                                                *)
(***************************************************************************)
(* workspace_watch_targets: every base recursively, and what Git keeps      *)
(* outside the bases.  Administrative paths below a base are left out.      *)
workspace_watch_targets(configuration) ==
    LET bases == {configuration.repositories[r].base :
                    r \in {q \in Repositories : references(configuration, q)}}
    IN {<<b, "recursive">> : b \in bases} \cup
       {<<t[1], t[2]>> : t \in {u \in UNION {Administrative[b] : b \in bases} :
                                  u[3] \notin bases}}

(* WatchOwnership::mode                                                     *)
mode(owners, path) ==
    IF owners[<<path, "recursive">>] > 0 THEN "recursive"
    ELSE IF owners[<<path, "non_recursive">>] > 0 THEN "non_recursive"
    ELSE None

(* Mutated form of replace: the targets given up are not counted down.      *)
MutantReplaceWithoutRelease(owners, previous, current) ==
    [t \in Targets |-> owners[t] + (IF t \in current THEN 1 ELSE 0)]

(* WatchOwnership::replace: the counts, which saturate at 0 ...             *)
replace(owners, previous, current) ==
    [t \in Targets |->
        (IF t \in previous /\ owners[t] > 0 THEN owners[t] - 1 ELSE owners[t])
        + (IF t \in current THEN 1 ELSE 0)]

(* ... and the WatchChanges: removals come before additions.                *)
to_remove(before, after) ==
    {p \in Paths : mode(before, p) # None /\ mode(after, p) # mode(before, p)}
to_add(before, after) ==
    {p \in Paths : mode(after, p) # None /\ mode(after, p) # mode(before, p)}

-----------------------------------------------------------------------------
(***************************************************************************)
(* Steps shared by the requests.                                           *)
(***************************************************************************)
Issue(c, request) ==
    /\ requests[c] = Idle
    /\ issued < MaxRequests
    /\ issued' = issued + 1
    /\ requests' = [requests EXCEPT ![c] = request]

At(c, op, pc) == requests[c].op = op /\ requests[c].pc = pc

Goto(c, pc) == requests' = [requests EXCEPT ![c].pc = pc]

Done(c) == requests' = [requests EXCEPT ![c] = Idle]

Fault ==
    /\ faults < MaxFaults
    /\ faults' = faults + 1

(* mark: a new generation of the workspace.                                 *)
mark(w) == generations' = [generations EXCEPT ![w] = @ + 1]

-----------------------------------------------------------------------------
(***************************************************************************)
(* register_workspace                                                      *)
(***************************************************************************)
register_workspace(c, w, paths, plugins) ==
    /\ Issue(c, [op |-> "register_workspace", pc |-> "stage", workspace |-> w,
                 configuration |-> [repositories |-> workspace_repositories(paths),
                                    plugins |-> plugins],
                 removals |-> {}, additions |-> {}])
    /\ UNCHANGED <<files, registries, locks, generations, watches, event_loop,
                   runs, published, events, faults, unwatched>>

(* register_with_plugins up to the repositories file, under the mutex.      *)
persist_repositories(c) ==
    LET staged == remember_all(repositories, requests[c].configuration.repositories)
    IN /\ At(c, "register_workspace", "stage")
       /\ registry_lock = None
       /\ \/ /\ repositories_json' = staged
             /\ registry_lock' = c
             /\ Goto(c, "persist")
             /\ UNCHANGED faults
          \/ /\ Fault
             /\ Done(c)
             /\ UNCHANGED <<repositories_json, registry_lock>>
       /\ UNCHANGED <<workspaces_json, registries, watcher_lock, gate,
                      generations, watches, event_loop, runs, published,
                      issued, events, unwatched>>

(* The rest of register_with_plugins: the workspaces file and then memory.  *)
(* The mutex is released at the end of the block, on success and on error.  *)
persist_workspaces(c) ==
    LET request == requests[c]
        staged == [workspaces EXCEPT ![request.workspace] = request.configuration]
    IN /\ At(c, "register_workspace", "persist")
       /\ registry_lock' = None
       /\ \/ /\ workspaces_json' = stored_workspaces(staged)
             /\ repositories' = remember_all(repositories,
                                             request.configuration.repositories)
             /\ workspaces' = staged
             /\ Goto(c, "watch")
             /\ UNCHANGED faults
          \/ /\ Fault
             /\ Done(c)
             /\ UNCHANGED <<workspaces_json, registries>>
       /\ UNCHANGED <<repositories_json, watcher_lock, gate, generations,
                      watches, event_loop, runs, published, issued, events, unwatched>>

(* WorkspaceWatcher::update: the changes, from what the watcher itself      *)
(* recorded for the workspace and not from the previous registration.       *)
begin_update(c) ==
    LET request == requests[c]
        after == replace(ownership, owned[request.workspace],
                         workspace_watch_targets(request.configuration))
    IN /\ At(c, "register_workspace", "watch")
       /\ watcher_lock = None
       /\ watcher_lock' = c
       /\ requests' = [requests EXCEPT
             ![c].pc = "update",
             ![c].removals = to_remove(ownership, after),
             ![c].additions = to_add(ownership, after)]
       /\ UNCHANGED <<files, registries, registry_lock, gate, generations,
                      watches, event_loop, runs, published, bounds, unwatched>>

(* Mutated form of change_watch: a failing update keeps its new counts.     *)
MutantFailureKeepsCounts(c, p) ==
    LET request == requests[c]
        after == replace(ownership, owned[request.workspace],
                         workspace_watch_targets(request.configuration))
    IN /\ At(c, "register_workspace", "update")
       /\ event_loop = None
       /\ IF request.removals # {} THEN p \in request.removals
          ELSE p \in request.additions
       /\ \/ /\ request.removals = {} \/ watched[p] # None
             /\ watched' = [watched EXCEPT ![p] =
                               IF request.removals # {} THEN None
                               ELSE mode(after, p)]
             /\ requests' = [requests EXCEPT
                   ![c].removals = @ \ {p},
                   ![c].additions = IF request.removals # {} THEN @ ELSE @ \ {p}]
             /\ UNCHANGED <<ownership, watcher_lock, faults, unwatched>>
          \/ /\ Fault
             /\ ownership' = after
             /\ Done(c)
             /\ watcher_lock' = None
             /\ unwatched' = unwatched \cup to_remove(ownership, after)
                                       \cup to_add(ownership, after)
             /\ UNCHANGED watched
       /\ UNCHANGED <<files, registries, registry_lock, gate, generations,
                      owned, event_loop, runs, published, issued, events>>

(* A watch or unwatch call, served by the watcher's thread between two      *)
(* events.  An error leaves the paths already done as they are now.         *)
change_watch(c, p) ==
    LET request == requests[c]
        after == replace(ownership, owned[request.workspace],
                         workspace_watch_targets(request.configuration))
    IN /\ At(c, "register_workspace", "update")
       /\ event_loop = None
       /\ IF request.removals # {} THEN p \in request.removals
          ELSE p \in request.additions
       /\ \/ /\ request.removals = {} \/ watched[p] # None
             /\ watched' = [watched EXCEPT ![p] =
                               IF request.removals # {} THEN None
                               ELSE mode(after, p)]
             /\ requests' = [requests EXCEPT
                   ![c].removals = @ \ {p},
                   ![c].additions = IF request.removals # {} THEN @ ELSE @ \ {p}]
             /\ UNCHANGED <<watcher_lock, faults, unwatched>>
          \/ /\ \/ Fault
                \/ request.removals # {} /\ watched[p] = None /\ UNCHANGED faults
             /\ Done(c)
             /\ watcher_lock' = None
             /\ unwatched' = unwatched \cup to_remove(ownership, after)
                                       \cup to_add(ownership, after)
             /\ UNCHANGED watched
       /\ UNCHANGED <<files, registries, registry_lock, gate, generations,
                      owned, ownership, event_loop, runs, published, issued,
                      events>>

(* The end of update, mark, and the response.                               *)
finish_registration(c) ==
    LET request == requests[c]
        current == workspace_watch_targets(request.configuration)
    IN /\ At(c, "register_workspace", "update")
       /\ request.removals = {} /\ request.additions = {}
       /\ ownership' = replace(ownership, owned[request.workspace], current)
       /\ owned' = [owned EXCEPT ![request.workspace] = current]
       /\ watcher_lock' = None
       /\ mark(request.workspace)
       /\ Done(c)
       /\ UNCHANGED <<files, registries, registry_lock, gate, watched,
                      event_loop, runs, published, bounds, unwatched>>

-----------------------------------------------------------------------------
(***************************************************************************)
(* The other requests.                                                     *)
(***************************************************************************)
(* set_workspace_plugin: the file and memory under the mutex ...            *)
set_workspace_plugin(c, w, plugin, enabled) ==
    LET configured == [workspaces EXCEPT ![w].plugins =
                          IF enabled THEN @ \cup {plugin} ELSE @ \ {plugin}]
    IN /\ registry_lock = None
       /\ workspaces[w] # None
       /\ Issue(c, [op |-> "set_workspace_plugin", pc |-> "mark",
                    workspace |-> w])
       /\ workspaces_json' = stored_workspaces(configured)
       /\ workspaces' = configured
       /\ UNCHANGED <<repositories_json, repositories, locks, generations,
                      watches, event_loop, runs, published, events, faults, unwatched>>

(* Mutated form of mark_plugin: the workspace is not marked.                *)
MutantPluginNotMarked(c) ==
    /\ At(c, "set_workspace_plugin", "mark")
    /\ Done(c)
    /\ UNCHANGED <<files, registries, locks, generations, watches, event_loop,
                   runs, published, bounds, unwatched>>

(* ... and mark once it is released.                                        *)
mark_plugin(c) ==
    /\ At(c, "set_workspace_plugin", "mark")
    /\ mark(requests[c].workspace)
    /\ Done(c)
    /\ UNCHANGED <<files, registries, locks, watches, event_loop, runs,
                   published, bounds, unwatched>>

(* register_repository: one critical section; the request is over with it.  *)
register_repository(c, p) ==
    LET staged == replace_selection(repositories, IdentityOf[p], selection(p))
    IN /\ registry_lock = None
       /\ requests[c] = Idle
       /\ issued < MaxRequests
       /\ issued' = issued + 1
       /\ repositories_json' = staged
       /\ repositories' = staged
       /\ UNCHANGED <<workspaces_json, workspaces, locks, generations, watches,
                      event_loop, requests, runs, published, events, faults, unwatched>>

(* delete_repository waits for the gate with the registries locked.         *)
delete_repository(c, r) ==
    /\ registry_lock = None
    /\ Issue(c, [op |-> "delete_repository", pc |-> "begin", repository |-> r])
    /\ registry_lock' = c
    /\ UNCHANGED <<files, registries, watcher_lock, gate, generations, watches,
                   event_loop, runs, published, events, faults, unwatched>>

(* The gate is free: the repository is checked and removed.  The standalone *)
(* revision that goes with it is not part of this module.                   *)
remove_repository(c) ==
    LET r == requests[c].repository
        staged == [repositories EXCEPT ![r] = None]
    IN /\ At(c, "delete_repository", "begin")
       /\ gate = None
       /\ \/ /\ repositories[r] # None
             /\ ~workspace_referencing_repository(r)
             /\ repositories_json' = staged
             /\ repositories' = staged
             /\ UNCHANGED faults
          \/ /\ repositories[r] = None \/ workspace_referencing_repository(r)
             /\ UNCHANGED <<repositories_json, repositories, faults>>
          \/ /\ Fault
             /\ UNCHANGED <<repositories_json, repositories>>
       /\ registry_lock' = None
       /\ Done(c)
       /\ UNCHANGED <<workspaces_json, workspaces, watcher_lock, gate,
                      generations, watches, event_loop, runs, published,
                      issued, events, unwatched>>

-----------------------------------------------------------------------------
(***************************************************************************)
(* The watcher's thread, and index runs of the registered configuration.   *)
(***************************************************************************)
file_event(p) ==
    /\ event_loop = None
    /\ watched[p] # None
    /\ events < MaxEvents
    /\ events' = events + 1
    /\ event_loop' = p
    /\ UNCHANGED <<files, registries, locks, generations, watches, requests,
                   runs, published, issued, faults, unwatched>>

(* add_event: every registered workspace the path concerns has changed.     *)
add_event ==
    /\ event_loop # None
    /\ registry_lock = None
    /\ generations' = [w \in Workspaces |->
          IF /\ workspaces[w] # None
             /\ \E m \in Modes : <<event_loop, m>> \in
                                 workspace_watch_targets(workspaces[w])
          THEN generations[w] + 1 ELSE generations[w]]
    /\ event_loop' = None
    /\ UNCHANGED <<files, registries, locks, watches, requests, runs,
                   published, bounds, unwatched>>

(* run_automatic_workspace_job: the generation first, then the registry.    *)
start_run(w) ==
    /\ runs[w] = NoRun
    /\ generations[w] # 0
    /\ runs' = [runs EXCEPT ![w].pc = "read", ![w].generation = generations[w]]
    /\ UNCHANGED <<files, registries, locks, generations, watches, event_loop,
                   requests, published, bounds, unwatched>>

read_configuration(w) ==
    /\ runs[w].pc = "read"
    /\ registry_lock = None
    /\ runs' = [runs EXCEPT ![w].pc = "begin",
                            ![w].configuration = workspaces[w]]
    /\ UNCHANGED <<files, registries, locks, generations, watches, event_loop,
                   requests, published, bounds, unwatched>>

begin(w) ==
    /\ runs[w].pc = "begin"
    /\ gate = None
    /\ gate' = w
    /\ runs' = [runs EXCEPT ![w].pc = "index"]
    /\ UNCHANGED <<files, registries, registry_lock, watcher_lock, generations,
                   watches, event_loop, requests, published, bounds, unwatched>>

(* Mutated form of finish_run: the registry is read again to publish.       *)
MutantPublishNeedsRegistry(w) ==
    /\ runs[w].pc = "index"
    /\ registry_lock = None
    /\ published' = [published EXCEPT ![w] = workspaces[w]]
    /\ generations' = [generations EXCEPT ![w] = 0]
    /\ gate' = None
    /\ runs' = [runs EXCEPT ![w] = NoRun]
    /\ UNCHANGED <<files, registries, registry_lock, watcher_lock, watches,
                   event_loop, requests, bounds, unwatched>>

(* index_workspace_through_port publishes while the generation is current;  *)
(* complete_generation follows.                                             *)
finish_run(w) ==
    LET current == generations[w] = runs[w].generation
    IN /\ runs[w].pc = "index"
       /\ published' = IF current
                       THEN [published EXCEPT ![w] = runs[w].configuration]
                       ELSE published
       /\ generations' = IF current THEN [generations EXCEPT ![w] = 0]
                         ELSE generations
       /\ gate' = None
       /\ runs' = [runs EXCEPT ![w] = NoRun]
       /\ UNCHANGED <<files, registries, registry_lock, watcher_lock, watches,
                      event_loop, requests, bounds, unwatched>>

-----------------------------------------------------------------------------
(***************************************************************************)
(* A crash, and the start that follows: the registries are opened, and     *)
(* build watches and marks every workspace.                                *)
(***************************************************************************)
Registered(ws) == {w \in Workspaces : ws[w] # None}

Owners(ws) ==
    [t \in Targets |-> Cardinality({w \in Registered(ws) :
                                      t \in workspace_watch_targets(ws[w])})]

(* build, for the workspaces ws.                                            *)
build(ws) ==
    /\ workspaces' = ws
    /\ owned' = [w \in Workspaces |-> IF ws[w] = None THEN {}
                                      ELSE workspace_watch_targets(ws[w])]
    /\ ownership' = Owners(ws)
    /\ watched' = [p \in Paths |-> mode(Owners(ws), p)]
    /\ generations' = [w \in Workspaces |-> IF ws[w] = None THEN 0 ELSE 1]

restart ==
    /\ Fault
    /\ repositories' = opened_repositories
    /\ repositories_json' = IF Registered(opened_workspaces) # {}
                            THEN opened_repositories ELSE repositories_json
    /\ build(opened_workspaces)
    /\ registry_lock' = None /\ watcher_lock' = None /\ gate' = None
    /\ event_loop' = None
    /\ requests' = [c \in Clients |-> Idle]
    /\ runs' = [w \in Workspaces |-> NoRun]
    /\ unwatched' = {}
    /\ UNCHANGED <<workspaces_json, published, issued, events>>

Init ==
    /\ repositories_json = [r \in Repositories |-> None]
    /\ repositories = [r \in Repositories |-> None]
    /\ workspaces_json = [w \in Workspaces |-> None]
    /\ workspaces = [w \in Workspaces |-> None]
    /\ registry_lock = None /\ watcher_lock = None /\ gate = None
    /\ generations = [w \in Workspaces |-> 0]
    /\ owned = [w \in Workspaces |-> {}]
    /\ ownership = [t \in Targets |-> 0]
    /\ watched = [p \in Paths |-> None]
    /\ event_loop = None
    /\ requests = [c \in Clients |-> Idle]
    /\ runs = [w \in Workspaces |-> NoRun]
    /\ published = [w \in Workspaces |-> None]
    /\ issued = 0 /\ events = 0 /\ faults = 0
    /\ unwatched = {}

-----------------------------------------------------------------------------
Request(c) ==
    \/ \E w \in Workspaces, paths \in Selections :
          register_workspace(c, w, paths, {})
    \/ \E w \in Workspaces, plugin \in Plugins, enabled \in BOOLEAN :
          set_workspace_plugin(c, w, plugin, enabled)
    \/ \E p \in Checkouts : register_repository(c, p)
    \/ \E r \in Repositories : delete_repository(c, r)

Serve(c) ==
    \/ persist_repositories(c)
    \/ persist_workspaces(c)
    \/ begin_update(c)
    \/ \E p \in Paths : change_watch(c, p)
    \/ finish_registration(c)
    \/ mark_plugin(c)
    \/ remove_repository(c)

Run(w) ==
    \/ start_run(w)
    \/ read_configuration(w)
    \/ begin(w)
    \/ finish_run(w)

Next ==
    \/ \E c \in Clients : Request(c) \/ Serve(c)
    \/ \E p \in Paths : file_event(p)
    \/ add_event
    \/ \E w \in Workspaces : Run(w)
    \/ restart

(* A handler whose lock is free runs on, the watcher's thread handles the   *)
(* event it has, and the worker runs the jobs there are.                    *)
Fairness ==
    /\ \A c \in Clients : WF_vars(Serve(c))
    /\ WF_vars(add_event)
    /\ \A w \in Workspaces : WF_vars(Run(w))

Spec == Init /\ [][Next]_vars /\ Fairness

-----------------------------------------------------------------------------
SelectionType == [base : Checkouts, alternatives : SUBSET Checkouts]
RegistryType == [Repositories -> SelectionType \cup {None}]
ConfigurationType == [repositories : RegistryType, plugins : SUBSET Plugins]
StoredType == [bases : [Repositories -> Checkouts \cup {None}],
               plugins : SUBSET Plugins]

ASSUME NoneIsNoValue ==
    None \notin SelectionType \cup ConfigurationType \cup StoredType \cup Modes

(* The variables have their types.                                          *)
TypeOK ==
    /\ repositories_json \in RegistryType /\ repositories \in RegistryType
    /\ workspaces \in [Workspaces -> ConfigurationType \cup {None}]
    /\ published \in [Workspaces -> ConfigurationType \cup {None}]
    /\ registry_lock \in Clients \cup {None}
    /\ watcher_lock \in Clients \cup {None}
    /\ gate \in Workspaces \cup {None}
    /\ generations \in [Workspaces -> Nat]
    /\ owned \in [Workspaces -> SUBSET Targets]
    /\ ownership \in [Targets -> Nat]
    /\ watched \in [Paths -> Modes \cup {None}]
    /\ event_loop \in Paths \cup {None}

(* Whatever the daemon crashes between, the selections in workspaces.json   *)
(* are known to repositories.json: a restart never depends on a checkout    *)
(* still being on disk (select_checkout), and no deletion that runs at the  *)
(* same time as a registration takes a repository away from a workspace.    *)
StoredSelectionsResolve ==
    \A w \in Workspaces, r \in Repositories :
        workspaces_json[w] # None /\ workspaces_json[w].bases[r] # None =>
            /\ repositories_json[r] # None
            /\ workspaces_json[w].bases[r] \in
                  {repositories_json[r].base} \cup repositories_json[r].alternatives

(* A path is really watched as the workspaces that own it ask for, in the   *)
(* strongest mode of theirs, unless an update that failed was to change it: *)
(* a failing call costs no other path its watch, and later updates start    *)
(* from what is watched.  In the middle of an update nothing is said.       *)
WatchedAsOwned ==
    \/ watcher_lock # None
    \/ \A p \in Paths \ unwatched :
          watched[p] = LET wanted == {t[2] : t \in {u \in UNION {owned[w] :
                                              w \in Workspaces} : u[1] = p}}
                       IN IF "recursive" \in wanted THEN "recursive"
                          ELSE IF wanted # {} THEN "non_recursive" ELSE None

(* The counts of WatchOwnership are the numbers of the workspaces that own  *)
(* the targets, also when one of several watch calls fails after others     *)
(* were made, when registrations of a workspace overlap, and after a crash. *)
OwnersOf(o, t) == {w \in Workspaces : t \in o[w]}
OwnersCounted == \A t \in Targets : ownership[t] = Cardinality(OwnersOf(owned, t))

(* A crash takes nothing back that memory, and so a response, showed: the   *)
(* checkouts and plugins of every workspace are those it had.               *)
RegistrationsSurviveRestart ==
    [][restart => \A w \in Registered(workspaces) :
           /\ workspaces'[w] # None
           /\ workspaces'[w].plugins = workspaces[w].plugins
           /\ \A r \in Repositories :
                 references(workspaces[w], r) =>
                    workspaces'[w].repositories[r].base =
                        workspaces[w].repositories[r].base]_vars

(* Handlers, the watcher's thread and index runs wait for each other's      *)
(* locks without a cycle: the requests, of which there are finitely many,   *)
(* all get their response.                                                  *)
RequestsAreAnswered ==
    <>[](event_loop = None /\ \A c \in Clients : requests[c] = Idle)

(* What is registered is in the end what is indexed, unless an update of    *)
(* the watcher failed, which skips mark.                                    *)
RegisteredIsIndexed ==
    <>[](unwatched # {} \/ \A w \in Registered(workspaces) :
            /\ published[w] # None
            /\ published[w].plugins = workspaces[w].plugins
            /\ \A r \in Repositories :
                  (IF references(published[w], r)
                   THEN published[w].repositories[r].base ELSE None)
                  = (IF references(workspaces[w], r)
                     THEN workspaces[w].repositories[r].base ELSE None))
=============================================================================
