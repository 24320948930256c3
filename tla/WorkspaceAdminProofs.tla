------------------------- MODULE WorkspaceAdminProofs -------------------------
(***************************************************************************)
(* Proofs about WorkspaceAdmin, for any clients, workspaces, checkouts,    *)
(* path lists and bounds.                                                  *)
(***************************************************************************)
EXTENDS WorkspaceAdmin, FiniteSetTheorems, WellFoundedInduction, TLAPS

RegistrationType ==
    [op : {"register_workspace"}, pc : {"stage", "persist", "watch", "update"},
     workspace : Workspaces, configuration : ConfigurationType,
     removals : SUBSET Paths, additions : SUBSET Paths]

PluginRequestType ==
    [op : {"set_workspace_plugin"}, pc : {"mark"}, workspace : Workspaces]

DeletionType ==
    [op : {"delete_repository"}, pc : {"begin"}, repository : Repositories]

RequestType == RegistrationType \cup PluginRequestType \cup DeletionType \cup {Idle}

RunType == [pc : {"idle", "read", "begin", "index"}, generation : Nat,
            configuration : ConfigurationType \cup {None}]

RegistriesTyped ==
    /\ repositories_json \in RegistryType /\ repositories \in RegistryType
    /\ workspaces \in [Workspaces -> ConfigurationType \cup {None}]

RequestsTyped ==
    /\ requests \in [Clients -> RequestType]
    /\ registry_lock \in Clients \cup {None}
    /\ watcher_lock \in Clients \cup {None}

WatchesTyped ==
    /\ owned \in [Workspaces -> SUBSET Targets]
    /\ ownership \in [Targets -> Nat]
    /\ watched \in [Paths -> Modes \cup {None}]

RunsTyped ==
    /\ runs \in [Workspaces -> RunType]
    /\ generations \in [Workspaces -> Nat]
    /\ published \in [Workspaces -> ConfigurationType \cup {None}]
    /\ gate \in Workspaces \cup {None}
    /\ event_loop \in Paths \cup {None}

TypeInv ==
    RegistriesTyped /\ RequestsTyped /\ WatchesTyped /\ RunsTyped

(* What workspaces.json holds is what memory holds, in every state.         *)
WorkspacesStored == workspaces_json = stored_workspaces(workspaces)

(* Who is in a critical section holds its lock.                             *)
LocksHeld ==
    \A c \in Clients :
        /\ At(c, "register_workspace", "persist") => registry_lock = c
        /\ At(c, "delete_repository", "begin") => registry_lock = c
        /\ At(c, "register_workspace", "update") => watcher_lock = c

(* The selections a registration is about to refer to are on disk.          *)
RepositoriesStaged ==
    \A c \in Clients : At(c, "register_workspace", "persist") =>
        repositories_json =
            remember_all(repositories, requests[c].configuration.repositories)

Knows(registered, r, base) ==
    /\ registered[r] # None
    /\ base \in {registered[r].base} \cup registered[r].alternatives

(* What a workspace refers to is registered, in memory and on disk.         *)
SelectionsKnown ==
    \A w \in Workspaces, r \in Repositories :
        references(workspaces[w], r) =>
            /\ Knows(repositories, r, workspaces[w].repositories[r].base)
            /\ Knows(repositories_json, r, workspaces[w].repositories[r].base)

(* What is watched in the middle of an update: the paths still to remove as *)
(* before it, those added already as after it, and those removed and not    *)
(* added yet not at all.  Of the paths off, nothing is known.               *)
Midway(removals, additions, before, after, off, actual) ==
    /\ removals \subseteq to_remove(before, after)
    /\ additions \subseteq to_add(before, after)
    /\ removals # {} => additions = to_add(before, after)
    /\ \A p \in Paths \ off :
          actual[p] = IF p \in removals THEN mode(before, p)
                      ELSE IF p \in to_add(before, after) \ additions
                      THEN mode(after, p)
                      ELSE IF p \in to_remove(before, after) THEN None
                      ELSE mode(before, p)

after_update(c) ==
    replace(ownership, owned[requests[c].workspace],
            workspace_watch_targets(requests[c].configuration))

UpdateUnderWay(c) ==
    Midway(requests[c].removals, requests[c].additions, ownership,
           after_update(c), unwatched, watched)

WatchesKept ==
    /\ watcher_lock = None =>
          \A p \in Paths \ unwatched : watched[p] = mode(ownership, p)
    /\ \A c \in Clients :
          At(c, "register_workspace", "update") => UpdateUnderWay(c)

(* The targets a workspace is to own.                                       *)
Wanted(configuration) ==
    IF configuration = None THEN {} ELSE workspace_watch_targets(configuration)

AdminInv ==
    /\ TypeInv
    /\ WorkspacesStored
    /\ LocksHeld
    /\ RepositoriesStaged
    /\ SelectionsKnown
    /\ OwnersCounted
    /\ WatchesKept

-----------------------------------------------------------------------------
(***************************************************************************)
(* The operators.                                                          *)
(***************************************************************************)
(* The least number of a set is one of it.                                  *)
LEMMA MinIsMember ==
    ASSUME NEW S \in SUBSET Nat, S # {}
    PROVE  Min(S) \in S
  <1>1. PICK R : R = {e \in Nat \X Nat : e[1] < e[2]}
    OBVIOUS
  <1>2. IsWellFoundedOn({e \in Nat \X Nat : e[1] < e[2]}, Nat)
    BY NatLessThanWellFounded, Zenon DEF OpToRel
  <1>3. PICK x \in S : \A y \in S : ~(<<y, x>> \in R)
    BY <1>1, <1>2, WFMin, Zenon
  <1>4. \A y \in S : x <= y
    <2> TAKE y \in S
    <2>1. <<y, x>> \in Nat \X Nat /\ <<y, x>> \notin R
      BY <1>3
    <2>2. ~ (<<y, x>>[1] < <<y, x>>[2])
      BY <1>1, <2>1, Zenon
    <2> QED
      BY <2>2
  <1> QED
    BY <1>4 DEF Min

(* The selection of a checkout has its type.                                *)
LEMMA SelectionIsTyped ==
    ASSUME NEW p \in Checkouts
    PROVE  selection(p) \in SelectionType
  BY WorkspaceAdminAssumption DEF selection, SelectionType

(* Merging selections keeps the base and collects the alternatives.         *)
LEMMA MergeIsTyped ==
    ASSUME NEW target \in SelectionType, NEW other \in SelectionType
    PROVE  /\ merge_alternatives(target, other) \in SelectionType
           /\ merge_alternatives(target, other).base = target.base
           /\ merge_alternatives(target, other).alternatives =
                 (target.alternatives \cup {other.base} \cup other.alternatives)
                     \ {target.base}
  BY DEF merge_alternatives, SelectionType

(* Workspace::new makes a selection of what it is given.                    *)
LEMMA WorkspaceIsTyped ==
    ASSUME NEW paths \in Selections
    PROVE  workspace_repositories(paths) \in RegistryType
  <1> SUFFICES ASSUME NEW r \in Repositories
               PROVE  workspace_repositories(paths)[r] \in SelectionType \cup {None}
    BY DEF workspace_repositories, RegistryType
  <1> DEFINE mine == {i \in DOMAIN paths : IdentityOf[paths[i]] = r}
             first == paths[Min(mine)]
             rest == UNION {{paths[i]} \cup Linked[paths[i]] : i \in mine} \ {first}
  <1>1. paths \in Seq(Checkouts)
    BY WorkspaceAdminAssumption
  <1>2. mine \in SUBSET Nat /\ \A i \in mine : paths[i] \in Checkouts
    BY <1>1
  <1>3. \A i \in mine : {paths[i]} \cup Linked[paths[i]] \subseteq Checkouts
    BY <1>2, WorkspaceAdminAssumption
  <1>4. rest \subseteq Checkouts
    BY <1>3
  <1>5. CASE mine = {}
    BY <1>5 DEF workspace_repositories
  <1>6. CASE mine # {}
    <2>1. first \in Checkouts
      BY <1>2, <1>6, MinIsMember
    <2>2. workspace_repositories(paths)[r] = [base |-> first, alternatives |-> rest]
      BY <1>6 DEF workspace_repositories
    <2> QED
      BY <1>4, <2>1, <2>2 DEF SelectionType
  <1> QED
    BY <1>5, <1>6

(* remember_selection and replace_selection know what they knew before and  *)
(* what they are given.                                                     *)
LEMMA RememberKnows ==
    ASSUME NEW registered \in RegistryType, NEW selected \in RegistryType
    PROVE  /\ remember_all(registered, selected) \in RegistryType
           /\ \A r \in Repositories :
                 /\ \A b : Knows(registered, r, b) =>
                              Knows(remember_all(registered, selected), r, b)
                 /\ selected[r] # None =>
                        Knows(remember_all(registered, selected), r, selected[r].base)
  <1> DEFINE all == remember_all(registered, selected)
  <1>1. ASSUME NEW r \in Repositories
        PROVE  all[r] = IF selected[r] = None THEN registered[r]
                        ELSE IF registered[r] = None THEN selected[r]
                        ELSE merge_alternatives(registered[r], selected[r])
    BY DEF remember_all, remember_selection, RegistryType
  <1>2. ASSUME NEW r \in Repositories
        PROVE  all[r] \in SelectionType \cup {None}
    BY <1>1, MergeIsTyped DEF RegistryType
  <1>3. all \in RegistryType
    BY <1>2 DEF remember_all, RegistryType
  <1>4. ASSUME NEW r \in Repositories, selected[r] # None, registered[r] # None
        PROVE  /\ all[r] # None
               /\ all[r].base = registered[r].base
               /\ all[r].alternatives =
                     (registered[r].alternatives \cup {selected[r].base}
                         \cup selected[r].alternatives) \ {registered[r].base}
    <2>1. registered[r] \in SelectionType /\ selected[r] \in SelectionType
      BY <1>4 DEF RegistryType
    <2> QED
      BY <1>1, <1>4, <2>1, MergeIsTyped, NoneIsNoValue
  <1>5. ASSUME NEW r \in Repositories, NEW b, Knows(registered, r, b)
        PROVE  Knows(all, r, b)
    <2>1. CASE selected[r] = None
      BY <1>1, <1>5, <2>1 DEF Knows
    <2>2. CASE selected[r] # None
      BY <1>4, <1>5, <2>2 DEF Knows
    <2> QED
      BY <2>1, <2>2
  <1>6. ASSUME NEW r \in Repositories, selected[r] # None
        PROVE  Knows(all, r, selected[r].base)
    <2>1. CASE registered[r] = None
      BY <1>1, <1>6, <2>1 DEF Knows
    <2>2. CASE registered[r] # None
      BY <1>4, <1>6, <2>2 DEF Knows
    <2> QED
      BY <2>1, <2>2
  <1> QED
    BY <1>3, <1>5, <1>6

(* Replacing a selection forgets no checkout that was known.                *)
LEMMA ReplaceKnows ==
    ASSUME NEW registered \in RegistryType, NEW q \in Repositories,
           NEW s \in SelectionType
    PROVE  /\ replace_selection(registered, q, s) \in RegistryType
           /\ \A r \in Repositories : \A b :
                 Knows(registered, r, b) =>
                     Knows(replace_selection(registered, q, s), r, b)
  <1> DEFINE staged == replace_selection(registered, q, s)
  <1>1. ASSUME NEW r \in Repositories
        PROVE  staged[r] = IF r # q THEN registered[r]
                           ELSE IF registered[r] = None THEN s
                           ELSE merge_alternatives(s, registered[r])
    BY DEF replace_selection, RegistryType
  <1>2. staged \in RegistryType
    <2>1. ASSUME NEW r \in Repositories
          PROVE  staged[r] \in SelectionType \cup {None}
      BY <1>1, MergeIsTyped DEF RegistryType
    <2> QED
      BY <2>1 DEF replace_selection, RegistryType
  <1>3. ASSUME NEW r \in Repositories, NEW b, Knows(registered, r, b)
        PROVE  Knows(staged, r, b)
    <2>1. CASE r # q
      BY <1>1, <1>3, <2>1 DEF Knows
    <2>2. CASE r = q
      <3>1. registered[r] \in SelectionType
        BY <1>3 DEF Knows, RegistryType
      <3>2. staged[r] = merge_alternatives(s, registered[r])
        BY <1>1, <1>3, <2>2 DEF Knows
      <3> QED
        BY <1>3, <3>1, <3>2, MergeIsTyped, NoneIsNoValue DEF Knows
    <2> QED
      BY <2>1, <2>2
  <1> QED
    BY <1>2, <1>3

(* select_checkout selects the checkout it is asked for.                    *)
LEMMA SelectIsTyped ==
    ASSUME NEW registered \in RegistryType, NEW r \in Repositories,
           NEW base \in Checkouts
    PROVE  /\ select_checkout(registered, r, base) \in SelectionType
           /\ select_checkout(registered, r, base) # None
           /\ select_checkout(registered, r, base).base = base
  <1>1. registered[r] # None => registered[r] \in SelectionType
    BY DEF RegistryType
  <1>2. CASE registered[r] # None /\ base = registered[r].base
    BY <1>1, <1>2, NoneIsNoValue DEF select_checkout
  <1>3. CASE /\ registered[r] # None /\ base # registered[r].base
             /\ base \in registered[r].alternatives
    <2> DEFINE s == [base |-> base,
                     alternatives |-> (registered[r].alternatives \ {base})
                                          \cup {registered[r].base}]
    <2>1. select_checkout(registered, r, base) = s
      BY <1>3 DEF select_checkout
    <2>2. s \in SelectionType /\ s.base = base
      BY <1>1, <1>3 DEF SelectionType
    <2> QED
      BY <2>1, <2>2, NoneIsNoValue
  <1>4. CASE /\ registered[r] # None => base # registered[r].base
             /\ registered[r] # None => base \notin registered[r].alternatives
    <2>1. select_checkout(registered, r, base) = selection(base)
      BY <1>4 DEF select_checkout
    <2>2. selection(base).base = base
      BY DEF selection
    <2> QED
      BY <2>1, <2>2, SelectionIsTyped, NoneIsNoValue
  <1> QED
    BY <1>2, <1>3, <1>4

(* What is stored of a registered workspace.                                *)
LEMMA StoredIsTyped ==
    ASSUME NEW ws \in [Workspaces -> ConfigurationType \cup {None}],
           NEW w \in Workspaces
    PROVE  /\ ws[w] = None => stored_workspaces(ws)[w] = None
           /\ ws[w] # None =>
                 /\ stored_workspaces(ws)[w] # None
                 /\ stored_workspaces(ws)[w].plugins = ws[w].plugins
                 /\ stored_workspaces(ws)[w].plugins \in SUBSET Plugins
                 /\ \A r \in Repositories :
                       /\ references(ws[w], r) <=>
                              stored_workspaces(ws)[w].bases[r] # None
                       /\ references(ws[w], r) =>
                              /\ stored_workspaces(ws)[w].bases[r] =
                                     ws[w].repositories[r].base
                              /\ stored_workspaces(ws)[w].bases[r] \in Checkouts
  <1>1. CASE ws[w] = None
    BY <1>1 DEF stored_workspaces
  <1>2. CASE ws[w] # None
    <2> DEFINE bases == [r \in Repositories |->
                            IF ws[w].repositories[r] = None THEN None
                            ELSE ws[w].repositories[r].base]
               stored == [bases |-> bases, plugins |-> ws[w].plugins]
    <2>1. stored_workspaces(ws)[w] = stored
      BY <1>2 DEF stored_workspaces
    <2>2. ws[w] \in ConfigurationType
      BY <1>2
    <2>3. ws[w].plugins \in SUBSET Plugins /\ ws[w].repositories \in RegistryType
      BY <2>2 DEF ConfigurationType
    <2>4. ASSUME NEW r \in Repositories, ws[w].repositories[r] # None
          PROVE  ws[w].repositories[r].base \in Checkouts
      BY <2>3, <2>4 DEF RegistryType, SelectionType
    <2>5. bases \in [Repositories -> Checkouts \cup {None}]
      BY <2>4
    <2>6. stored \in StoredType
      BY <2>3, <2>5 DEF StoredType
    <2>7. stored # None
      BY <2>6, NoneIsNoValue
    <2>8. ASSUME NEW r \in Repositories
          PROVE  /\ references(ws[w], r) <=> stored.bases[r] # None
                 /\ references(ws[w], r) =>
                        /\ stored.bases[r] = ws[w].repositories[r].base
                        /\ stored.bases[r] \in Checkouts
      BY <1>2, <2>4, WorkspaceAdminAssumption DEF references
    <2> QED
      BY <1>2, <2>1, <2>3, <2>7, <2>8
  <1> QED
    BY <1>1, <1>2

(* WorkspaceRegistry::open reads back the checkouts and plugins that memory *)
(* held when the daemon went, whatever repositories.json knows.             *)
LEMMA OpenedAsStored ==
    ASSUME RegistriesTyped, WorkspacesStored, NEW w \in Workspaces
    PROVE  /\ opened_workspaces[w] \in ConfigurationType \cup {None}
           /\ workspaces[w] = None => opened_workspaces[w] = None
           /\ workspaces[w] # None =>
                 /\ opened_workspaces[w] # None
                 /\ opened_workspaces[w].plugins = workspaces[w].plugins
           /\ \A r \in Repositories :
                 /\ references(opened_workspaces[w], r) <=>
                        references(workspaces[w], r)
                 /\ references(workspaces[w], r) =>
                        opened_workspaces[w].repositories[r].base =
                            workspaces[w].repositories[r].base
  <1> DEFINE stored == workspaces_json[w]
  <1>0. /\ workspaces[w] = None => stored = None
        /\ workspaces[w] # None =>
              /\ stored # None
              /\ stored.plugins = workspaces[w].plugins
              /\ stored.plugins \in SUBSET Plugins
              /\ \A r \in Repositories :
                    /\ references(workspaces[w], r) <=> stored.bases[r] # None
                    /\ references(workspaces[w], r) =>
                           /\ stored.bases[r] = workspaces[w].repositories[r].base
                           /\ stored.bases[r] \in Checkouts
    BY StoredIsTyped DEF RegistriesTyped, WorkspacesStored
  <1>1. CASE workspaces[w] = None
    BY <1>0, <1>1 DEF opened_workspaces, references
  <1>2. CASE workspaces[w] # None
    <2> DEFINE selected == [r \in Repositories |->
                   IF stored.bases[r] = None THEN None
                   ELSE select_checkout(repositories_json, r, stored.bases[r])]
               opened == [repositories |-> selected, plugins |-> stored.plugins]
    <2>1. opened_workspaces[w] = opened
      BY <1>0, <1>2 DEF opened_workspaces
    <2>2. ASSUME NEW r \in Repositories
          PROVE  /\ references(workspaces[w], r) <=> selected[r] # None
                 /\ references(workspaces[w], r) =>
                       /\ selected[r] \in SelectionType
                       /\ selected[r].base = workspaces[w].repositories[r].base
      <3>1. CASE references(workspaces[w], r)
        <4>1. /\ stored.bases[r] # None /\ stored.bases[r] \in Checkouts
              /\ stored.bases[r] = workspaces[w].repositories[r].base
          BY <1>0, <1>2, <3>1
        <4>2. selected[r] = select_checkout(repositories_json, r, stored.bases[r])
          BY <4>1
        <4>3. repositories_json \in RegistryType
          BY DEF RegistriesTyped
        <4> HIDE DEF selected, stored
        <4> QED
          BY <3>1, <4>1, <4>2, <4>3, SelectIsTyped
      <3>2. CASE ~references(workspaces[w], r)
        BY <1>0, <1>2, <3>2
      <3> QED
        BY <3>1, <3>2
    <2>3. selected \in RegistryType
      <3>1. ASSUME NEW r \in Repositories
            PROVE  selected[r] \in SelectionType \cup {None}
        <4> HIDE DEF selected
        <4> QED
          BY <2>2
      <3> QED
        BY <3>1 DEF RegistryType
    <2>4. opened \in ConfigurationType
      <3> HIDE DEF selected
      <3> QED
        BY <1>0, <1>2, <2>3 DEF ConfigurationType
    <2>5. opened # None
      BY <2>4, NoneIsNoValue
    <2>6. opened.repositories = selected /\ opened.plugins = stored.plugins
      OBVIOUS
    <2> HIDE DEF selected, opened, stored
    <2> QED
      BY <1>0, <1>2, <2>1, <2>2, <2>4, <2>5, <2>6 DEF references
  <1> QED
    BY <1>1, <1>2

(* The workspaces that are read back have their type.                       *)
LEMMA OpenedIsTyped ==
    ASSUME RegistriesTyped, WorkspacesStored
    PROVE  opened_workspaces \in [Workspaces -> ConfigurationType \cup {None}]
  BY OpenedAsStored DEF opened_workspaces

(* What is read back is what the file holds.                                *)
LEMMA OpenedIsStored ==
    ASSUME RegistriesTyped, WorkspacesStored
    PROVE  workspaces_json = stored_workspaces(opened_workspaces)
  <1>1. ASSUME NEW w \in Workspaces
        PROVE  stored_workspaces(workspaces)[w] =
                   stored_workspaces(opened_workspaces)[w]
    <2>1. CASE workspaces[w] = None
      BY <2>1, OpenedAsStored DEF stored_workspaces
    <2>2. CASE workspaces[w] # None
      <3> DEFINE bases(ws) == [r \in Repositories |->
                                  IF ws[w].repositories[r] = None THEN None
                                  ELSE ws[w].repositories[r].base]
      <3>1. opened_workspaces[w] # None
        BY <2>2, OpenedAsStored
      <3>2. \A r \in Repositories :
               bases(workspaces)[r] = bases(opened_workspaces)[r]
        BY <2>2, <3>1, OpenedAsStored DEF references
      <3>3. bases(workspaces) = bases(opened_workspaces)
        BY <3>2
      <3>4. workspaces[w].plugins = opened_workspaces[w].plugins
        BY <2>2, OpenedAsStored
      <3>5. stored_workspaces(workspaces)[w] =
                [bases |-> bases(workspaces), plugins |-> workspaces[w].plugins]
        BY <2>2 DEF stored_workspaces
      <3>6. stored_workspaces(opened_workspaces)[w] =
                [bases |-> bases(opened_workspaces),
                 plugins |-> opened_workspaces[w].plugins]
        BY <3>1 DEF stored_workspaces
      <3> HIDE DEF bases
      <3> QED
        BY <3>3, <3>4, <3>5, <3>6
    <2> QED
      BY <2>1, <2>2
  <1> QED
    BY <1>1 DEF WorkspacesStored, stored_workspaces

(* RepositoryRegistry::open and the selections remembered after it know     *)
(* what repositories.json knew.                                             *)
LEMMA OpenedKnows ==
    ASSUME RegistriesTyped, WorkspacesStored
    PROVE  /\ opened_repositories \in RegistryType
           /\ \A r \in Repositories : \A b :
                 Knows(repositories_json, r, b) => Knows(opened_repositories, r, b)
  <1>0. repositories_json \in RegistryType
    BY DEF RegistriesTyped
  <1> SUFFICES ASSUME NEW r \in Repositories
               PROVE  /\ opened_repositories[r] \in SelectionType \cup {None}
                      /\ \A b : Knows(repositories_json, r, b) =>
                                    Knows(opened_repositories, r, b)
    BY DEF opened_repositories, RegistryType
  <1> DEFINE users == {v \in Workspaces : references(opened_workspaces[v], r)}
             opened == {opened_workspaces[w].repositories[r] : w \in users}
             first == IF repositories_json[r] # None THEN repositories_json[r]
                      ELSE CHOOSE s \in opened : TRUE
             others == UNION {{s.base} \cup s.alternatives : s \in opened}
             merged == [base |-> first.base,
                        alternatives |-> (first.alternatives \cup others)
                                             \ {first.base}]
  <1>1. \A s \in opened : s \in SelectionType
    <2>1. ASSUME NEW w \in users
          PROVE  opened_workspaces[w].repositories[r] \in SelectionType
      <3>1. /\ opened_workspaces[w] \in ConfigurationType
            /\ opened_workspaces[w].repositories[r] # None
        BY <2>1, OpenedAsStored DEF references
      <3> QED
        BY <3>1 DEF ConfigurationType, RegistryType
    <2> QED
      BY <2>1
  <1>2. CASE opened = {}
    <2>1. opened_repositories[r] = repositories_json[r]
      BY <1>2 DEF opened_repositories
    <2> QED
      BY <1>0, <2>1 DEF Knows, RegistryType
  <1>3. CASE opened # {}
    <2>1. opened_repositories[r] = merged
      BY <1>3 DEF opened_repositories
    <2>2. first \in SelectionType
      <3>1. CASE repositories_json[r] # None
        BY <1>0, <3>1 DEF RegistryType
      <3>2. CASE repositories_json[r] = None
        <4> HIDE DEF opened
        <4> QED
          BY <1>1, <1>3, <3>2
      <3> QED
        BY <3>1, <3>2
    <2>3. others \subseteq Checkouts
      <3> HIDE DEF opened
      <3>1. \A s \in opened : {s.base} \cup s.alternatives \subseteq Checkouts
        BY <1>1 DEF SelectionType
      <3> QED
        BY <3>1
    <2>4. merged \in SelectionType
      <3> HIDE DEF first, others
      <3> QED
        BY <2>2, <2>3 DEF SelectionType
    <2>5. merged # None
      BY <2>4, NoneIsNoValue
    <2>6. ASSUME NEW b, Knows(repositories_json, r, b)
          PROVE  b \in {merged.base} \cup merged.alternatives
      <3>1. first = repositories_json[r]
        BY <2>6 DEF Knows
      <3>2. b \in {first.base} \cup first.alternatives
        BY <2>6, <3>1 DEF Knows
      <3>3. /\ merged.base = first.base
            /\ merged.alternatives = (first.alternatives \cup others) \ {first.base}
        OBVIOUS
      <3> HIDE DEF merged, first, others
      <3> QED
        BY <3>2, <3>3
    <2> HIDE DEF merged
    <2> QED
      BY <2>1, <2>4, <2>5, <2>6 DEF Knows
  <1> QED
    BY <1>2, <1>3

-----------------------------------------------------------------------------
(* A configuration asks for paths and modes of watching.                    *)
LEMMA TargetsAreTyped ==
    ASSUME NEW configuration \in ConfigurationType
    PROVE  workspace_watch_targets(configuration) \subseteq Targets
  <1> DEFINE bases == {configuration.repositories[r].base :
                         r \in {q \in Repositories : references(configuration, q)}}
             outside == {u \in UNION {Administrative[b] : b \in bases} :
                           u[3] \notin bases}
  <1>1. bases \subseteq Checkouts
    BY DEF references, ConfigurationType, RegistryType, SelectionType
  <1>2. workspace_watch_targets(configuration) =
            {<<b, "recursive">> : b \in bases} \cup {<<t[1], t[2]>> : t \in outside}
    BY DEF workspace_watch_targets
  <1>3. ASSUME NEW b \in bases PROVE <<b, "recursive">> \in Targets
    BY <1>1 DEF Targets, Paths, Modes
  <1> HIDE DEF bases
  <1>4. ASSUME NEW t \in outside PROVE <<t[1], t[2]>> \in Targets
    <2>1. PICK b \in bases : t \in Administrative[b]
      OBVIOUS
    <2>2. b \in Checkouts
      BY <1>1
    <2>3. t[1] \in Paths
      BY <2>1, <2>2 DEF Paths
    <2>4. t[2] \in Modes
      BY <2>1, <2>2, WorkspaceAdminAssumption DEF Modes
    <2> QED
      BY <2>3, <2>4 DEF Targets
  <1> HIDE DEF outside
  <1> QED
    BY <1>2, <1>3, <1>4

(* What a registration, or its absence, asks for are targets.               *)
LEMMA WantedIsTyped ==
    ASSUME NEW configuration \in ConfigurationType \cup {None}
    PROVE  Wanted(configuration) \in SUBSET Targets
  BY TargetsAreTyped DEF Wanted

(* The mode in which a path is to be watched is one, or none.               *)
LEMMA ModeIsTyped ==
    ASSUME NEW owners, NEW p
    PROVE  mode(owners, p) \in Modes \cup {None}
  BY DEF mode, Modes

(* Counts of owners stay numbers.                                           *)
LEMMA ReplaceIsTyped ==
    ASSUME NEW owners \in [Targets -> Nat], NEW previous, NEW current
    PROVE  replace(owners, previous, current) \in [Targets -> Nat]
  BY DEF replace

(* The counts after WatchOwnership::replace are numbers of workspaces if    *)
(* those before it were: the workspace leaves its previous targets and      *)
(* joins the current ones.  Nothing is lost to the saturation at 0.         *)
LEMMA ReplaceCounts ==
    ASSUME WatchesTyped, OwnersCounted, NEW w \in Workspaces,
           NEW current \in SUBSET Targets, NEW t \in Targets,
           NEW after \in SUBSET Workspaces,
           \A v \in Workspaces :
               v \in after <=> t \in (IF v = w THEN current ELSE owned[v])
    PROVE  replace(ownership, owned[w], current)[t] = Cardinality(after)
  <1> DEFINE before == OwnersOf(owned, t)
             others == before \ {w}
  <1>0. owned \in [Workspaces -> SUBSET Targets]
    BY DEF WatchesTyped
  <1>1. IsFiniteSet(before)
    BY FS_Subset, WorkspaceAdminAssumption DEF OwnersOf
  <1>2. w \in before <=> t \in owned[w]
    BY DEF OwnersOf
  <1>3. after = IF t \in current THEN others \cup {w} ELSE others
    BY DEF OwnersOf
  <1>4. /\ IsFiniteSet(others)
        /\ Cardinality(others) = IF w \in before THEN Cardinality(before) - 1
                                 ELSE Cardinality(before)
    BY <1>1, FS_RemoveElement
  <1>5. w \notin others
    OBVIOUS
  <1> HIDE DEF others
  <1>6. Cardinality(others \cup {w}) = Cardinality(others) + 1
    BY <1>4, <1>5, FS_AddElement
  <1>7. Cardinality(before) \in Nat /\ (w \in before => Cardinality(before) # 0)
    BY <1>1, FS_CardinalityType, FS_EmptySet
  <1>8. replace(ownership, owned[w], current)[t] =
            (IF t \in owned[w] /\ ownership[t] > 0 THEN ownership[t] - 1
             ELSE ownership[t])
            + (IF t \in current THEN 1 ELSE 0)
    BY DEF replace
  <1> HIDE DEF before
  <1>9. ownership[t] = Cardinality(before)
    BY DEF before, OwnersCounted
  <1> QED
    BY <1>2, <1>3, <1>4, <1>6, <1>7, <1>8, <1>9

-----------------------------------------------------------------------------
(***************************************************************************)
(* The steps.                                                              *)
(***************************************************************************)
(* The watcher's thread and the index runs only read the registries, and    *)
(* have no part in watches and requests.                                    *)
Background ==
    /\ UNCHANGED <<files, registries, registry_lock, watcher_lock, watches,
                   requests, unwatched>>
    /\ \/ UNCHANGED <<runs, generations, published, gate, event_loop>>
       \/ \E p \in Paths : file_event(p)
       \/ add_event
       \/ \E w \in Workspaces : Run(w)

(* Every step is one of a request, one in the background or a restart.      *)
LEMMA StepsOfNext ==
    ASSUME [Next]_vars
    PROVE  \/ \E c \in Clients :
                \/ \E w \in Workspaces, paths \in Selections :
                      register_workspace(c, w, paths, {})
                \/ \E w \in Workspaces, plugin \in Plugins, enabled \in BOOLEAN :
                      set_workspace_plugin(c, w, plugin, enabled)
                \/ \E p \in Checkouts : register_repository(c, p)
                \/ \E r \in Repositories : delete_repository(c, r)
                \/ persist_repositories(c)
                \/ persist_workspaces(c)
                \/ begin_update(c)
                \/ \E p \in Paths : change_watch(c, p)
                \/ finish_registration(c)
                \/ mark_plugin(c)
                \/ remove_repository(c)
           \/ Background
           \/ restart
  <1>1. CASE UNCHANGED vars
    BY <1>1 DEF vars, files, registries, locks, watches, Background
  <1>2. ASSUME NEW p \in Paths, file_event(p) PROVE Background
    BY <1>2 DEF file_event, Background, locks
  <1>3. CASE add_event
    BY <1>3 DEF add_event, Background, locks
  <1>4. ASSUME NEW w \in Workspaces, Run(w) PROVE Background
    <2>1. UNCHANGED <<files, registries, registry_lock, watcher_lock, watches,
                      requests, unwatched>>
      BY <1>4 DEF Run, start_run, read_configuration, begin, finish_run, locks
    <2> QED
      BY <1>4, <2>1 DEF Background
  <1> QED
    BY <1>1, <1>2, <1>3, <1>4 DEF Next, Request, Serve

(* A request has the fields of its operation.                               *)
LEMMA RequestOf ==
    ASSUME RequestsTyped, NEW c \in Clients
    PROVE  /\ requests[c].op = "register_workspace" =>
                  requests[c] \in RegistrationType
           /\ requests[c].op = "set_workspace_plugin" =>
                  requests[c] \in PluginRequestType
           /\ requests[c].op = "delete_repository" => requests[c] \in DeletionType
  BY DEF RequestsTyped, RequestType, RegistrationType, PluginRequestType,
         DeletionType, Idle

(* The registries hold selections, in memory and on disk.                   *)
LEMMA RegistriesStep ==
    ASSUME RegistriesTyped, RequestsTyped, WorkspacesStored, [Next]_vars
    PROVE  RegistriesTyped'
  <1>1. ASSUME NEW c \in Clients, NEW w \in Workspaces, NEW paths \in
               Selections,
               register_workspace(c, w, paths, {})
        PROVE  RegistriesTyped'
    BY <1>1 DEF register_workspace, Issue, files, registries, RegistriesTyped
  <1>2. ASSUME NEW c \in Clients, NEW r \in Repositories,
               delete_repository(c, r)
        PROVE  RegistriesTyped'
    BY <1>2 DEF delete_repository, Issue, files, registries, RegistriesTyped
  <1>3. ASSUME NEW c \in Clients,
               begin_update(c)
        PROVE  RegistriesTyped'
    BY <1>3 DEF begin_update, At, files, registries, RegistriesTyped
  <1>4. ASSUME NEW c \in Clients, NEW p \in Paths,
               change_watch(c, p)
        PROVE  RegistriesTyped'
    BY <1>4 DEF change_watch, At, Done, files, registries, RegistriesTyped
  <1>5. ASSUME NEW c \in Clients,
               finish_registration(c)
        PROVE  RegistriesTyped'
    BY <1>5
    DEF finish_registration, At, Done, mark, files, registries,
        RegistriesTyped
  <1>6. ASSUME NEW c \in Clients,
               mark_plugin(c)
        PROVE  RegistriesTyped'
    BY <1>6
    DEF mark_plugin, At, Done, mark, files, registries, RegistriesTyped
  <1>7. CASE Background
    BY <1>7 DEF Background, files, registries, RegistriesTyped
  <1>8. ASSUME NEW c \in Clients, NEW w \in Workspaces, NEW plugin \in
               Plugins, NEW enabled \in BOOLEAN,
               set_workspace_plugin(c, w, plugin, enabled)
        PROVE  RegistriesTyped'
    <2> DEFINE plugins == IF enabled THEN workspaces[w].plugins \cup {plugin}
                          ELSE workspaces[w].plugins \ {plugin}
    <2>1. workspaces' = [workspaces EXCEPT ![w] = [@ EXCEPT !.plugins = plugins]]
      BY <1>8 DEF set_workspace_plugin, RegistriesTyped
    <2>2. workspaces[w] \in ConfigurationType
      BY <1>8 DEF set_workspace_plugin, RegistriesTyped
    <2>3. plugins \in SUBSET Plugins
      BY <2>2 DEF ConfigurationType
    <2>4. [workspaces[w] EXCEPT !.plugins = plugins] \in ConfigurationType
      <3> HIDE DEF plugins
      <3> QED
        BY <2>2, <2>3 DEF ConfigurationType
    <2> HIDE DEF plugins
    <2> QED
      BY <1>8, <2>1, <2>4 DEF set_workspace_plugin, RegistriesTyped
  <1>9. ASSUME NEW c \in Clients, NEW p \in Checkouts,
               register_repository(c, p)
        PROVE  RegistriesTyped'
    BY <1>9, ReplaceKnows, SelectionIsTyped, WorkspaceAdminAssumption
    DEF register_repository, RegistriesTyped
  <1>10. ASSUME NEW c \in Clients,
               persist_repositories(c)
        PROVE  RegistriesTyped'
    <2>1. requests[c] \in RegistrationType
      BY <1>10, RequestOf DEF persist_repositories, At
    <2>2. requests[c].configuration.repositories \in RegistryType
      BY <2>1 DEF RegistrationType, ConfigurationType
    <2> QED
      BY <1>10, <2>2, RememberKnows
      DEF persist_repositories, registries, RegistriesTyped
  <1>11. ASSUME NEW c \in Clients,
               persist_workspaces(c)
        PROVE  RegistriesTyped'
    <2>1. requests[c] \in RegistrationType
      BY <1>11, RequestOf DEF persist_workspaces, At
    <2>2. /\ requests[c].configuration \in ConfigurationType
          /\ requests[c].workspace \in Workspaces
      BY <2>1 DEF RegistrationType
    <2>3. requests[c].configuration.repositories \in RegistryType
      BY <2>2 DEF ConfigurationType
    <2> QED
      BY <1>11, <2>2, <2>3, RememberKnows
      DEF persist_workspaces, registries, RegistriesTyped
  <1>12. ASSUME NEW c \in Clients,
               remove_repository(c)
        PROVE  RegistriesTyped'
    <2>1. [repositories EXCEPT ![requests[c].repository] = None] \in RegistryType
      BY DEF RegistriesTyped, RegistryType
    <2> QED
      BY <1>12, <2>1 DEF remove_repository, RegistriesTyped
  <1>13. CASE restart
    <2>1. /\ repositories' = opened_repositories
          /\ repositories_json' \in {opened_repositories, repositories_json}
          /\ workspaces' = opened_workspaces
      BY <1>13 DEF restart, build
    <2> QED
      BY <2>1, OpenedIsTyped, OpenedKnows DEF RegistriesTyped
  <1> QED
    BY <1>1, <1>2, <1>3, <1>4, <1>5, <1>6, <1>7, <1>8, <1>9, <1>10, <1>11,
       <1>12, <1>13, StepsOfNext

(* A request has the fields its handler uses.                               *)
LEMMA RequestsStep ==
    ASSUME RequestsTyped, [Next]_vars
    PROVE  RequestsTyped'
  <1>1. ASSUME NEW c \in Clients, NEW w \in Workspaces, NEW paths \in
               Selections,
               register_workspace(c, w, paths, {})
        PROVE  RequestsTyped'
    <2> DEFINE configuration == [repositories |-> workspace_repositories(paths),
                                 plugins |-> {}]
               request == [op |-> "register_workspace", pc |-> "stage",
                           workspace |-> w, configuration |-> configuration,
                           removals |-> {}, additions |-> {}]
    <2>1. configuration \in ConfigurationType
      BY WorkspaceIsTyped DEF ConfigurationType
    <2>2. request \in RegistrationType
      <3> HIDE DEF configuration
      <3> QED
        BY <2>1 DEF RegistrationType
    <2>3. requests' = [requests EXCEPT ![c] = request]
      BY <1>1 DEF register_workspace, Issue
    <2> HIDE DEF request
    <2> QED
      BY <1>1, <2>2, <2>3
      DEF register_workspace, locks, RequestsTyped, RequestType
  <1>2. ASSUME NEW c \in Clients, NEW w \in Workspaces, NEW plugin \in
               Plugins, NEW enabled \in BOOLEAN,
               set_workspace_plugin(c, w, plugin, enabled)
        PROVE  RequestsTyped'
    <2> DEFINE request == [op |-> "set_workspace_plugin", pc |-> "mark",
                           workspace |-> w]
    <2>1. request \in PluginRequestType
      BY DEF PluginRequestType
    <2>2. requests' = [requests EXCEPT ![c] = request]
      BY <1>2 DEF set_workspace_plugin, Issue
    <2> HIDE DEF request
    <2> QED
      BY <1>2, <2>1, <2>2
      DEF set_workspace_plugin, locks, RequestsTyped, RequestType
  <1>3. ASSUME NEW c \in Clients, NEW p \in Checkouts,
               register_repository(c, p)
        PROVE  RequestsTyped'
    BY <1>3 DEF register_repository, locks, RequestsTyped
  <1>4. ASSUME NEW c \in Clients, NEW r \in Repositories,
               delete_repository(c, r)
        PROVE  RequestsTyped'
    <2> DEFINE request == [op |-> "delete_repository", pc |-> "begin",
                           repository |-> r]
    <2>1. request \in DeletionType
      BY DEF DeletionType
    <2>2. requests' = [requests EXCEPT ![c] = request]
      BY <1>4 DEF delete_repository, Issue
    <2> HIDE DEF request
    <2> QED
      BY <1>4, <2>1, <2>2 DEF delete_repository, RequestsTyped, RequestType
  <1>5. ASSUME NEW c \in Clients,
               persist_repositories(c)
        PROVE  RequestsTyped'
    <2>1. requests[c] \in RegistrationType
      BY <1>5, RequestOf DEF persist_repositories, At
    <2>2. [requests[c] EXCEPT !.pc = "persist"] \in RegistrationType
      BY <2>1 DEF RegistrationType
    <2>3. \/ requests' = [requests EXCEPT ![c] = [@ EXCEPT !.pc = "persist"]]
          \/ requests' = [requests EXCEPT ![c] = Idle]
      BY <1>5 DEF persist_repositories, Goto, Done
    <2> QED
      BY <1>5, <2>2, <2>3 DEF persist_repositories, RequestsTyped, RequestType
  <1>6. ASSUME NEW c \in Clients,
               persist_workspaces(c)
        PROVE  RequestsTyped'
    <2>1. requests[c] \in RegistrationType
      BY <1>6, RequestOf DEF persist_workspaces, At
    <2>2. [requests[c] EXCEPT !.pc = "watch"] \in RegistrationType
      BY <2>1 DEF RegistrationType
    <2>3. \/ requests' = [requests EXCEPT ![c] = [@ EXCEPT !.pc = "watch"]]
          \/ requests' = [requests EXCEPT ![c] = Idle]
      BY <1>6 DEF persist_workspaces, Goto, Done
    <2> QED
      BY <1>6, <2>2, <2>3 DEF persist_workspaces, RequestsTyped, RequestType
  <1>7. ASSUME NEW c \in Clients,
               begin_update(c)
        PROVE  RequestsTyped'
    <2> DEFINE removed == to_remove(ownership, after_update(c))
               added == to_add(ownership, after_update(c))
               request == [requests[c] EXCEPT !.pc = "update", !.removals = removed,
                                              !.additions = added]
    <2>1. requests[c] \in RegistrationType
      BY <1>7, RequestOf DEF begin_update, At
    <2>2. removed \in SUBSET Paths /\ added \in SUBSET Paths
      BY DEF to_remove, to_add
    <2>3. request \in RegistrationType
      <3> HIDE DEF removed, added
      <3> QED
        BY <2>1, <2>2 DEF RegistrationType
    <2>4. requests' = [requests EXCEPT ![c] = request]
      BY <1>7 DEF begin_update, after_update, RequestsTyped
    <2> HIDE DEF request
    <2> QED
      BY <1>7, <2>3, <2>4 DEF begin_update, RequestsTyped, RequestType
  <1>8. ASSUME NEW c \in Clients, NEW p \in Paths,
               change_watch(c, p)
        PROVE  RequestsTyped'
    <2> DEFINE request == [requests[c] EXCEPT
                   !.removals = @ \ {p},
                   !.additions = IF requests[c].removals # {} THEN @ ELSE @ \ {p}]
    <2>1. requests[c] \in RegistrationType
      BY <1>8, RequestOf DEF change_watch, At
    <2>2. request \in RegistrationType
      BY <2>1 DEF RegistrationType
    <2>3. \/ requests' = [requests EXCEPT ![c] = request]
          \/ requests' = [requests EXCEPT ![c] = Idle]
      BY <1>8 DEF change_watch, Done, RequestsTyped
    <2> HIDE DEF request
    <2> QED
      BY <1>8, <2>2, <2>3 DEF change_watch, RequestsTyped, RequestType
  <1>9. ASSUME NEW c \in Clients,
               finish_registration(c)
        PROVE  RequestsTyped'
    BY <1>9 DEF finish_registration, Done, RequestsTyped, RequestType
  <1>10. ASSUME NEW c \in Clients,
               mark_plugin(c)
        PROVE  RequestsTyped'
    BY <1>10 DEF mark_plugin, Done, locks, RequestsTyped, RequestType
  <1>11. ASSUME NEW c \in Clients,
               remove_repository(c)
        PROVE  RequestsTyped'
    BY <1>11 DEF remove_repository, Done, RequestsTyped, RequestType
  <1>12. CASE Background
    BY <1>12 DEF Background, RequestsTyped
  <1>13. CASE restart
    BY <1>13 DEF restart, RequestsTyped, RequestType
  <1> QED
    BY <1>1, <1>2, <1>3, <1>4, <1>5, <1>6, <1>7, <1>8, <1>9, <1>10, <1>11,
       <1>12, <1>13, StepsOfNext

(* Workspaces own targets, and targets have counts.                         *)
LEMMA WatchesStep ==
    ASSUME WatchesTyped, RequestsTyped, RegistriesTyped, WorkspacesStored, [Next]_vars
    PROVE  WatchesTyped'
  <1>1. ASSUME NEW c \in Clients, NEW w \in Workspaces, NEW paths \in
               Selections,
               register_workspace(c, w, paths, {})
        PROVE  WatchesTyped'
    BY <1>1 DEF register_workspace, watches, WatchesTyped
  <1>2. ASSUME NEW c \in Clients, NEW w \in Workspaces, NEW plugin \in
               Plugins, NEW enabled \in BOOLEAN,
               set_workspace_plugin(c, w, plugin, enabled)
        PROVE  WatchesTyped'
    BY <1>2 DEF set_workspace_plugin, watches, WatchesTyped
  <1>3. ASSUME NEW c \in Clients, NEW p \in Checkouts,
               register_repository(c, p)
        PROVE  WatchesTyped'
    BY <1>3 DEF register_repository, watches, WatchesTyped
  <1>4. ASSUME NEW c \in Clients, NEW r \in Repositories,
               delete_repository(c, r)
        PROVE  WatchesTyped'
    BY <1>4 DEF delete_repository, watches, WatchesTyped
  <1>5. ASSUME NEW c \in Clients,
               persist_repositories(c)
        PROVE  WatchesTyped'
    BY <1>5 DEF persist_repositories, watches, WatchesTyped
  <1>6. ASSUME NEW c \in Clients,
               persist_workspaces(c)
        PROVE  WatchesTyped'
    BY <1>6 DEF persist_workspaces, watches, WatchesTyped
  <1>7. ASSUME NEW c \in Clients,
               begin_update(c)
        PROVE  WatchesTyped'
    BY <1>7 DEF begin_update, watches, WatchesTyped
  <1>8. ASSUME NEW c \in Clients,
               mark_plugin(c)
        PROVE  WatchesTyped'
    BY <1>8 DEF mark_plugin, watches, WatchesTyped
  <1>9. ASSUME NEW c \in Clients,
               remove_repository(c)
        PROVE  WatchesTyped'
    BY <1>9 DEF remove_repository, watches, WatchesTyped
  <1>10. CASE Background
    BY <1>10 DEF Background, watches, WatchesTyped
  <1>11. ASSUME NEW c \in Clients, NEW p \in Paths,
               change_watch(c, p)
        PROVE  WatchesTyped'
    <2>1. mode(after_update(c), p) \in Modes \cup {None}
      BY ModeIsTyped
    <2> QED
      BY <1>11, <2>1 DEF change_watch, after_update, WatchesTyped
  <1>12. ASSUME NEW c \in Clients,
               finish_registration(c)
        PROVE  WatchesTyped'
    <2>1. requests[c] \in RegistrationType
      BY <1>12, RequestOf DEF finish_registration, At
    <2>2. /\ workspace_watch_targets(requests[c].configuration) \in SUBSET Targets
          /\ requests[c].workspace \in Workspaces
      BY <2>1, TargetsAreTyped DEF RegistrationType
    <2> QED
      BY <1>12, <2>2, ReplaceIsTyped DEF finish_registration, WatchesTyped
  <1>13. CASE restart
    <2>1. /\ owned' = [w \in Workspaces |-> Wanted(opened_workspaces[w])]
          /\ ownership' = Owners(opened_workspaces)
          /\ watched' = [p \in Paths |-> mode(Owners(opened_workspaces), p)]
      BY <1>13 DEF restart, build, Wanted
    <2>2. \A w \in Workspaces : Wanted(opened_workspaces[w]) \in SUBSET Targets
      BY OpenedIsTyped, WantedIsTyped
    <2>3. Owners(opened_workspaces) \in [Targets -> Nat]
      BY FS_Subset, FS_CardinalityType, WorkspaceAdminAssumption
      DEF Owners, Registered
    <2> QED
      BY <2>1, <2>2, <2>3, ModeIsTyped DEF WatchesTyped
  <1> QED
    BY <1>1, <1>2, <1>3, <1>4, <1>5, <1>6, <1>7, <1>8, <1>9, <1>10, <1>11,
       <1>12, <1>13, StepsOfNext

(* Runs and published revisions have registered configurations.              *)
LEMMA RunsStep ==
    ASSUME RunsTyped, RegistriesTyped, RequestsTyped, [Next]_vars
    PROVE  RunsTyped'
  <1>1. ASSUME NEW c \in Clients, NEW w \in Workspaces, NEW paths \in
               Selections,
               register_workspace(c, w, paths, {})
        PROVE  RunsTyped'
    BY <1>1 DEF register_workspace, locks, RunsTyped
  <1>2. ASSUME NEW c \in Clients, NEW w \in Workspaces, NEW plugin \in
               Plugins, NEW enabled \in BOOLEAN,
               set_workspace_plugin(c, w, plugin, enabled)
        PROVE  RunsTyped'
    BY <1>2 DEF set_workspace_plugin, locks, RunsTyped
  <1>3. ASSUME NEW c \in Clients, NEW p \in Checkouts,
               register_repository(c, p)
        PROVE  RunsTyped'
    BY <1>3 DEF register_repository, locks, RunsTyped
  <1>4. ASSUME NEW c \in Clients, NEW r \in Repositories,
               delete_repository(c, r)
        PROVE  RunsTyped'
    BY <1>4 DEF delete_repository, locks, RunsTyped
  <1>5. ASSUME NEW c \in Clients,
               persist_repositories(c)
        PROVE  RunsTyped'
    BY <1>5 DEF persist_repositories, locks, RunsTyped
  <1>6. ASSUME NEW c \in Clients,
               persist_workspaces(c)
        PROVE  RunsTyped'
    BY <1>6 DEF persist_workspaces, locks, RunsTyped
  <1>7. ASSUME NEW c \in Clients,
               begin_update(c)
        PROVE  RunsTyped'
    BY <1>7 DEF begin_update, locks, RunsTyped
  <1>8. ASSUME NEW c \in Clients, NEW p \in Paths,
               change_watch(c, p)
        PROVE  RunsTyped'
    BY <1>8 DEF change_watch, locks, RunsTyped
  <1>9. ASSUME NEW c \in Clients,
               remove_repository(c)
        PROVE  RunsTyped'
    BY <1>9 DEF remove_repository, locks, RunsTyped
  <1>10. ASSUME NEW c \in Clients,
               finish_registration(c)
        PROVE  RunsTyped'
    <2>1. requests[c].workspace \in Workspaces
      BY <1>10, RequestOf DEF finish_registration, At, RegistrationType
    <2>2. generations' \in [Workspaces -> Nat]
      BY <1>10, <2>1 DEF finish_registration, mark, RunsTyped
    <2> QED
      BY <1>10, <2>2 DEF finish_registration, locks, RunsTyped
  <1>11. ASSUME NEW c \in Clients,
               mark_plugin(c)
        PROVE  RunsTyped'
    <2>1. requests[c].workspace \in Workspaces
      BY <1>11, RequestOf DEF mark_plugin, At, PluginRequestType
    <2>2. generations' \in [Workspaces -> Nat]
      BY <1>11, <2>1 DEF mark_plugin, mark, RunsTyped
    <2> QED
      BY <1>11, <2>2 DEF mark_plugin, locks, RunsTyped
  <1>12. CASE Background
    <2>1. CASE UNCHANGED <<runs, generations, published, gate, event_loop>>
      BY <2>1 DEF RunsTyped
    <2>2. ASSUME NEW p \in Paths, file_event(p) PROVE RunsTyped'
      BY <2>2 DEF file_event, locks, RunsTyped
    <2>3. CASE add_event
      <3>1. generations' \in [Workspaces -> Nat]
        BY <2>3 DEF add_event, RunsTyped
      <3>2. UNCHANGED <<runs, published, gate>> /\ event_loop' = None
        BY <2>3 DEF add_event, locks
      <3> QED
        BY <3>1, <3>2 DEF RunsTyped
    <2>4. ASSUME NEW w \in Workspaces, start_run(w) PROVE RunsTyped'
      BY <2>4 DEF start_run, locks, RunsTyped, RunType
    <2>5. ASSUME NEW w \in Workspaces, read_configuration(w) PROVE RunsTyped'
      <3>1. workspaces[w] \in ConfigurationType \cup {None}
        BY DEF RegistriesTyped
      <3> QED
        BY <2>5, <3>1 DEF read_configuration, locks, RunsTyped, RunType
    <2>6. ASSUME NEW w \in Workspaces, begin(w) PROVE RunsTyped'
      BY <2>6 DEF begin, RunsTyped, RunType
    <2>7. ASSUME NEW w \in Workspaces, finish_run(w) PROVE RunsTyped'
      <3>1. NoRun \in RunType
        BY DEF NoRun, RunType
      <3>2. runs[w].configuration \in ConfigurationType \cup {None}
        BY DEF RunsTyped, RunType
      <3> QED
        BY <2>7, <3>1, <3>2 DEF finish_run, RunsTyped
    <2> QED
      BY <1>12, <2>1, <2>2, <2>3, <2>4, <2>5, <2>6, <2>7 DEF Background, Run
  <1>13. CASE restart
    <2>1. NoRun \in RunType
      BY DEF NoRun, RunType
    <2> QED
      BY <1>13, <2>1 DEF restart, build, RunsTyped
  <1> QED
    BY <1>1, <1>2, <1>3, <1>4, <1>5, <1>6, <1>7, <1>8, <1>9, <1>10, <1>11,
       <1>12, <1>13, StepsOfNext

(* workspaces.json is written with the registry in memory, never after it.  *)
LEMMA StoredStep ==
    ASSUME RegistriesTyped, WorkspacesStored, [Next]_vars
    PROVE  WorkspacesStored'
  <1>1. ASSUME NEW c \in Clients, NEW w \in Workspaces, NEW paths \in
               Selections,
               register_workspace(c, w, paths, {})
        PROVE  WorkspacesStored'
    BY <1>1 DEF register_workspace, files, registries, WorkspacesStored
  <1>2. ASSUME NEW c \in Clients, NEW p \in Checkouts,
               register_repository(c, p)
        PROVE  WorkspacesStored'
    BY <1>2 DEF register_repository, files, registries, WorkspacesStored
  <1>3. ASSUME NEW c \in Clients, NEW r \in Repositories,
               delete_repository(c, r)
        PROVE  WorkspacesStored'
    BY <1>3 DEF delete_repository, files, registries, WorkspacesStored
  <1>4. ASSUME NEW c \in Clients,
               persist_repositories(c)
        PROVE  WorkspacesStored'
    BY <1>4 DEF persist_repositories, files, registries, WorkspacesStored
  <1>5. ASSUME NEW c \in Clients,
               begin_update(c)
        PROVE  WorkspacesStored'
    BY <1>5 DEF begin_update, files, registries, WorkspacesStored
  <1>6. ASSUME NEW c \in Clients, NEW p \in Paths,
               change_watch(c, p)
        PROVE  WorkspacesStored'
    BY <1>6 DEF change_watch, files, registries, WorkspacesStored
  <1>7. ASSUME NEW c \in Clients,
               finish_registration(c)
        PROVE  WorkspacesStored'
    BY <1>7 DEF finish_registration, files, registries, WorkspacesStored
  <1>8. ASSUME NEW c \in Clients,
               mark_plugin(c)
        PROVE  WorkspacesStored'
    BY <1>8 DEF mark_plugin, files, registries, WorkspacesStored
  <1>9. ASSUME NEW c \in Clients,
               remove_repository(c)
        PROVE  WorkspacesStored'
    BY <1>9 DEF remove_repository, files, registries, WorkspacesStored
  <1>10. ASSUME NEW c \in Clients, NEW w \in Workspaces, NEW plugin \in
               Plugins, NEW enabled \in BOOLEAN,
               set_workspace_plugin(c, w, plugin, enabled)
        PROVE  WorkspacesStored'
    BY <1>10 DEF set_workspace_plugin, WorkspacesStored
  <1>11. ASSUME NEW c \in Clients,
               persist_workspaces(c)
        PROVE  WorkspacesStored'
    BY <1>11 DEF persist_workspaces, registries, WorkspacesStored
  <1>12. CASE Background
    BY <1>12 DEF Background, files, registries, WorkspacesStored
  <1>13. CASE restart
    <2>1. workspaces_json' = workspaces_json /\ workspaces' = opened_workspaces
      BY <1>13 DEF restart, build
    <2>2. workspaces_json' = stored_workspaces(opened_workspaces)
      BY <2>1, OpenedIsStored
    <2> QED
      BY <2>1, <2>2 DEF WorkspacesStored
  <1> QED
    BY <1>1, <1>2, <1>3, <1>4, <1>5, <1>6, <1>7, <1>8, <1>9, <1>10, <1>11,
       <1>12, <1>13, StepsOfNext

-----------------------------------------------------------------------------
(* What a step of a request does to its record: nothing to the records of   *)
(* the other clients, and a registration keeps its workspace and its        *)
(* configuration to the end.                                                *)
OthersWait(c) == \A d \in Clients : d # c => requests'[d] = requests[d]

Continues(c, pc) ==
    /\ requests'[c].op = "register_workspace"
    /\ requests'[c].pc = pc
    /\ requests'[c].workspace = requests[c].workspace
    /\ requests'[c].configuration = requests[c].configuration

(* A step of one client leaves the requests of the others alone.            *)
LEMMA OthersDoWait ==
    ASSUME RequestsTyped, NEW c \in Clients,
           \/ \E w \in Workspaces, paths \in Selections :
                 register_workspace(c, w, paths, {})
           \/ \E w \in Workspaces, plugin \in Plugins, enabled \in BOOLEAN :
                 set_workspace_plugin(c, w, plugin, enabled)
           \/ \E r \in Repositories : delete_repository(c, r)
           \/ persist_repositories(c) \/ persist_workspaces(c)
           \/ begin_update(c) \/ \E p \in Paths : change_watch(c, p)
           \/ finish_registration(c) \/ mark_plugin(c) \/ remove_repository(c)
    PROVE  OthersWait(c)
  <1>1. PICK x : requests' = [requests EXCEPT ![c] = x]
    BY DEF register_workspace, set_workspace_plugin, delete_repository, Issue,
           persist_repositories, persist_workspaces, begin_update, change_watch,
           finish_registration, mark_plugin, remove_repository, Goto, Done
  <1> QED
    BY <1>1 DEF OthersWait, RequestsTyped

(* How a request begins.                                                    *)
LEMMA RequestBegins ==
    ASSUME RequestsTyped, NEW c \in Clients
    PROVE  /\ \A w, paths : register_workspace(c, w, paths, {}) =>
                 /\ requests[c] = Idle
                 /\ requests'[c].op = "register_workspace"
                 /\ requests'[c].pc = "stage"
                 /\ requests'[c].workspace = w
           /\ \A w, plugin, enabled : set_workspace_plugin(c, w, plugin, enabled) =>
                 /\ requests[c] = Idle
                 /\ requests'[c].op = "set_workspace_plugin"
           /\ \A r : delete_repository(c, r) =>
                 /\ requests[c] = Idle
                 /\ requests'[c].op = "delete_repository"
  BY DEF register_workspace, set_workspace_plugin, delete_repository, Issue,
         RequestsTyped

(* A request goes on with the next step or is answered.                     *)
LEMMA RequestContinues ==
    ASSUME RequestsTyped, NEW c \in Clients
    PROVE  /\ persist_repositories(c) => \/ requests'[c] = Idle
                                        \/ Continues(c, "persist")
           /\ persist_workspaces(c) => \/ requests'[c] = Idle
                                      \/ Continues(c, "watch")
           /\ begin_update(c) => Continues(c, "update")
           /\ \A p : change_watch(c, p) => \/ requests'[c] = Idle
                                           \/ Continues(c, "update")
           /\ finish_registration(c) => requests'[c] = Idle
           /\ mark_plugin(c) => requests'[c] = Idle
           /\ remove_repository(c) => requests'[c] = Idle
  <1>1. requests[c].op = "register_workspace" => requests[c] \in RegistrationType
    BY RequestOf
  <1>2. ASSUME persist_repositories(c)
        PROVE  requests'[c] = Idle \/ Continues(c, "persist")
    BY <1>1, <1>2 DEF persist_repositories, At, Goto, Done, Continues,
                      RequestsTyped, RegistrationType
  <1>3. ASSUME persist_workspaces(c)
        PROVE  requests'[c] = Idle \/ Continues(c, "watch")
    BY <1>1, <1>3 DEF persist_workspaces, At, Goto, Done, Continues,
                      RequestsTyped, RegistrationType
  <1>4. ASSUME begin_update(c) PROVE Continues(c, "update")
    BY <1>1, <1>4 DEF begin_update, At, Continues, RequestsTyped, RegistrationType
  <1>5. ASSUME NEW p, change_watch(c, p)
        PROVE  requests'[c] = Idle \/ Continues(c, "update")
    BY <1>1, <1>5 DEF change_watch, At, Done, Continues, RequestsTyped,
                      RegistrationType
  <1>6. ASSUME finish_registration(c) PROVE requests'[c] = Idle
    BY <1>6 DEF finish_registration, Done, RequestsTyped
  <1>7. ASSUME mark_plugin(c) PROVE requests'[c] = Idle
    BY <1>7 DEF mark_plugin, Done, RequestsTyped
  <1>8. ASSUME remove_repository(c) PROVE requests'[c] = Idle
    BY <1>8 DEF remove_repository, Done, RequestsTyped
  <1> QED
    BY <1>2, <1>3, <1>4, <1>5, <1>6, <1>7, <1>8

(* A critical section is entered with its lock, and left with it.           *)
LEMMA LocksStep ==
    ASSUME RequestsTyped, LocksHeld, [Next]_vars
    PROVE  LocksHeld'
  <1>1. ASSUME NEW c \in Clients, NEW w \in Workspaces, NEW paths \in
               Selections,
               register_workspace(c, w, paths, {})
        PROVE  LocksHeld'
    <2>1. OthersWait(c)
      BY <1>1, OthersDoWait
    <2>2. UNCHANGED <<registry_lock, watcher_lock>>
      BY <1>1 DEF register_workspace, locks
    <2>3. requests'[c].op = "register_workspace" /\ requests'[c].pc = "stage"
      BY <1>1, RequestBegins
    <2>4. \A d \in Clients : d # None
      BY WorkspaceAdminAssumption
    <2> QED
      BY <2>1, <2>2, <2>3, <2>4 DEF At, Idle, Continues, OthersWait, LocksHeld
  <1>2. ASSUME NEW c \in Clients, NEW w \in Workspaces, NEW plugin \in
               Plugins, NEW enabled \in BOOLEAN,
               set_workspace_plugin(c, w, plugin, enabled)
        PROVE  LocksHeld'
    <2>1. OthersWait(c)
      BY <1>2, OthersDoWait
    <2>2. UNCHANGED <<registry_lock, watcher_lock>>
      BY <1>2 DEF set_workspace_plugin, locks
    <2>3. requests'[c].op = "set_workspace_plugin"
      BY <1>2, RequestBegins
    <2>4. \A d \in Clients : d # None
      BY WorkspaceAdminAssumption
    <2> QED
      BY <2>1, <2>2, <2>3, <2>4 DEF At, Idle, Continues, OthersWait, LocksHeld
  <1>3. ASSUME NEW c \in Clients, NEW r \in Repositories,
               delete_repository(c, r)
        PROVE  LocksHeld'
    <2>1. OthersWait(c)
      BY <1>3, OthersDoWait
    <2>2. registry_lock = None /\ registry_lock' = c /\ UNCHANGED watcher_lock
      BY <1>3 DEF delete_repository
    <2>3. requests'[c].op = "delete_repository"
      BY <1>3, RequestBegins
    <2>4. \A d \in Clients : d # None
      BY WorkspaceAdminAssumption
    <2> QED
      BY <2>1, <2>2, <2>3, <2>4 DEF At, Idle, Continues, OthersWait, LocksHeld
  <1>4. ASSUME NEW c \in Clients,
               persist_repositories(c)
        PROVE  LocksHeld'
    <2>1. OthersWait(c)
      BY <1>4, OthersDoWait
    <2>2. /\ registry_lock = None
          /\ registry_lock' = c \/ (UNCHANGED registry_lock /\ requests'[c] = Idle)
          /\ UNCHANGED watcher_lock
      BY <1>4 DEF persist_repositories, Done, RequestsTyped
    <2>3. requests'[c] = Idle \/ Continues(c, "persist")
      BY <1>4, RequestContinues
    <2>4. \A d \in Clients : d # None
      BY WorkspaceAdminAssumption
    <2> QED
      BY <2>1, <2>2, <2>3, <2>4 DEF At, Idle, Continues, OthersWait, LocksHeld
  <1>5. ASSUME NEW c \in Clients,
               persist_workspaces(c)
        PROVE  LocksHeld'
    <2>1. OthersWait(c)
      BY <1>5, OthersDoWait
    <2>2. /\ At(c, "register_workspace", "persist")
          /\ registry_lock' = None /\ UNCHANGED watcher_lock
      BY <1>5 DEF persist_workspaces
    <2>3. requests'[c] = Idle \/ Continues(c, "watch")
      BY <1>5, RequestContinues
    <2>4. \A d \in Clients : d # None
      BY WorkspaceAdminAssumption
    <2> QED
      BY <2>1, <2>2, <2>3, <2>4 DEF At, Idle, Continues, OthersWait, LocksHeld
  <1>6. ASSUME NEW c \in Clients,
               begin_update(c)
        PROVE  LocksHeld'
    <2>1. OthersWait(c)
      BY <1>6, OthersDoWait
    <2>2. watcher_lock = None /\ watcher_lock' = c /\ UNCHANGED registry_lock
      BY <1>6 DEF begin_update
    <2>3. Continues(c, "update")
      BY <1>6, RequestContinues
    <2>4. \A d \in Clients : d # None
      BY WorkspaceAdminAssumption
    <2> QED
      BY <2>1, <2>2, <2>3, <2>4 DEF At, Idle, Continues, OthersWait, LocksHeld
  <1>7. ASSUME NEW c \in Clients, NEW p \in Paths,
               change_watch(c, p)
        PROVE  LocksHeld'
    <2>1. OthersWait(c)
      BY <1>7, OthersDoWait
    <2>2. /\ At(c, "register_workspace", "update") /\ UNCHANGED registry_lock
          /\ UNCHANGED watcher_lock \/ (watcher_lock' = None /\ requests'[c] = Idle)
      BY <1>7 DEF change_watch, Done, RequestsTyped
    <2>3. requests'[c] = Idle \/ Continues(c, "update")
      BY <1>7, RequestContinues
    <2>4. \A d \in Clients : d # None
      BY WorkspaceAdminAssumption
    <2> QED
      BY <2>1, <2>2, <2>3, <2>4 DEF At, Idle, Continues, OthersWait, LocksHeld
  <1>8. ASSUME NEW c \in Clients,
               finish_registration(c)
        PROVE  LocksHeld'
    <2>1. OthersWait(c)
      BY <1>8, OthersDoWait
    <2>2. /\ At(c, "register_workspace", "update")
          /\ watcher_lock' = None /\ UNCHANGED registry_lock
      BY <1>8 DEF finish_registration
    <2>3. requests'[c] = Idle
      BY <1>8, RequestContinues
    <2>4. \A d \in Clients : d # None
      BY WorkspaceAdminAssumption
    <2> QED
      BY <2>1, <2>2, <2>3, <2>4 DEF At, Idle, Continues, OthersWait, LocksHeld
  <1>9. ASSUME NEW c \in Clients,
               mark_plugin(c)
        PROVE  LocksHeld'
    <2>1. OthersWait(c)
      BY <1>9, OthersDoWait
    <2>2. UNCHANGED <<registry_lock, watcher_lock>>
      BY <1>9 DEF mark_plugin, locks
    <2>3. requests'[c] = Idle
      BY <1>9, RequestContinues
    <2>4. \A d \in Clients : d # None
      BY WorkspaceAdminAssumption
    <2> QED
      BY <2>1, <2>2, <2>3, <2>4 DEF At, Idle, Continues, OthersWait, LocksHeld
  <1>10. ASSUME NEW c \in Clients,
               remove_repository(c)
        PROVE  LocksHeld'
    <2>1. OthersWait(c)
      BY <1>10, OthersDoWait
    <2>2. /\ At(c, "delete_repository", "begin")
          /\ registry_lock' = None /\ UNCHANGED watcher_lock
      BY <1>10 DEF remove_repository
    <2>3. requests'[c] = Idle
      BY <1>10, RequestContinues
    <2>4. \A d \in Clients : d # None
      BY WorkspaceAdminAssumption
    <2> QED
      BY <2>1, <2>2, <2>3, <2>4 DEF At, Idle, Continues, OthersWait, LocksHeld
  <1>11. ASSUME NEW c \in Clients, NEW p \in Checkouts,
               register_repository(c, p)
        PROVE  LocksHeld'
    BY <1>11 DEF register_repository, locks, At, LocksHeld
  <1>12. CASE Background
    BY <1>12 DEF Background, At, LocksHeld
  <1>13. CASE restart
    BY <1>13 DEF restart, Idle, At, LocksHeld
  <1> QED
    BY <1>1, <1>2, <1>3, <1>4, <1>5, <1>6, <1>7, <1>8, <1>9, <1>10, <1>11,
       <1>12, <1>13, StepsOfNext

(* Between the two files nobody else writes either of them.                 *)
LEMMA StagedStep ==
    ASSUME RequestsTyped, LocksHeld, RepositoriesStaged, [Next]_vars
    PROVE  RepositoriesStaged'
  <1>1. ASSUME NEW c \in Clients, NEW w \in Workspaces, NEW paths \in
               Selections,
               register_workspace(c, w, paths, {})
        PROVE  RepositoriesStaged'
    <2>1. OthersWait(c)
      BY <1>1, OthersDoWait
    <2>2. UNCHANGED <<repositories_json, repositories>>
      BY <1>1 DEF register_workspace, files, registries
    <2>3. requests'[c].op = "register_workspace" /\ requests'[c].pc = "stage"
      BY <1>1, RequestBegins
    <2> QED
      BY <2>1, <2>2, <2>3
      DEF At, Idle, Continues, OthersWait, RepositoriesStaged
  <1>2. ASSUME NEW c \in Clients, NEW w \in Workspaces, NEW plugin \in
               Plugins, NEW enabled \in BOOLEAN,
               set_workspace_plugin(c, w, plugin, enabled)
        PROVE  RepositoriesStaged'
    <2>1. OthersWait(c)
      BY <1>2, OthersDoWait
    <2>2. UNCHANGED <<repositories_json, repositories>>
      BY <1>2 DEF set_workspace_plugin, files, registries
    <2>3. requests'[c].op = "set_workspace_plugin"
      BY <1>2, RequestBegins
    <2> QED
      BY <2>1, <2>2, <2>3
      DEF At, Idle, Continues, OthersWait, RepositoriesStaged
  <1>3. ASSUME NEW c \in Clients, NEW r \in Repositories,
               delete_repository(c, r)
        PROVE  RepositoriesStaged'
    <2>1. OthersWait(c)
      BY <1>3, OthersDoWait
    <2>2. UNCHANGED <<repositories_json, repositories>>
      BY <1>3 DEF delete_repository, files, registries
    <2>3. requests'[c].op = "delete_repository"
      BY <1>3, RequestBegins
    <2> QED
      BY <2>1, <2>2, <2>3
      DEF At, Idle, Continues, OthersWait, RepositoriesStaged
  <1>4. ASSUME NEW c \in Clients,
               begin_update(c)
        PROVE  RepositoriesStaged'
    <2>1. OthersWait(c)
      BY <1>4, OthersDoWait
    <2>2. UNCHANGED <<repositories_json, repositories>>
      BY <1>4 DEF begin_update, files, registries
    <2>3. Continues(c, "update")
      BY <1>4, RequestContinues
    <2> QED
      BY <2>1, <2>2, <2>3
      DEF At, Idle, Continues, OthersWait, RepositoriesStaged
  <1>5. ASSUME NEW c \in Clients, NEW p \in Paths,
               change_watch(c, p)
        PROVE  RepositoriesStaged'
    <2>1. OthersWait(c)
      BY <1>5, OthersDoWait
    <2>2. UNCHANGED <<repositories_json, repositories>>
      BY <1>5 DEF change_watch, files, registries
    <2>3. requests'[c] = Idle \/ Continues(c, "update")
      BY <1>5, RequestContinues
    <2> QED
      BY <2>1, <2>2, <2>3
      DEF At, Idle, Continues, OthersWait, RepositoriesStaged
  <1>6. ASSUME NEW c \in Clients,
               finish_registration(c)
        PROVE  RepositoriesStaged'
    <2>1. OthersWait(c)
      BY <1>6, OthersDoWait
    <2>2. UNCHANGED <<repositories_json, repositories>>
      BY <1>6 DEF finish_registration, files, registries
    <2>3. requests'[c] = Idle
      BY <1>6, RequestContinues
    <2> QED
      BY <2>1, <2>2, <2>3
      DEF At, Idle, Continues, OthersWait, RepositoriesStaged
  <1>7. ASSUME NEW c \in Clients,
               mark_plugin(c)
        PROVE  RepositoriesStaged'
    <2>1. OthersWait(c)
      BY <1>7, OthersDoWait
    <2>2. UNCHANGED <<repositories_json, repositories>>
      BY <1>7 DEF mark_plugin, files, registries
    <2>3. requests'[c] = Idle
      BY <1>7, RequestContinues
    <2> QED
      BY <2>1, <2>2, <2>3
      DEF At, Idle, Continues, OthersWait, RepositoriesStaged
  <1>8. ASSUME NEW c \in Clients, NEW p \in Checkouts,
               register_repository(c, p)
        PROVE  RepositoriesStaged'
    <2>1. \A d \in Clients : ~At(d, "register_workspace", "persist")
      BY <1>8, WorkspaceAdminAssumption DEF register_repository, LocksHeld
    <2> QED
      BY <1>8, <2>1 DEF register_repository, At, RepositoriesStaged
  <1>9. ASSUME NEW c \in Clients,
               persist_repositories(c)
        PROVE  RepositoriesStaged'
    <2>1. OthersWait(c)
      BY <1>9, OthersDoWait
    <2>2. \A d \in Clients : ~At(d, "register_workspace", "persist")
      BY <1>9, WorkspaceAdminAssumption DEF persist_repositories, LocksHeld
    <2>3. CASE requests'[c] = Idle
      BY <2>1, <2>2, <2>3 DEF At, Idle, OthersWait, RepositoriesStaged
    <2>4. CASE requests'[c] # Idle
      <3>1. Continues(c, "persist")
        BY <1>9, <2>4, RequestContinues
      <3>2. repositories' = repositories
        BY <1>9 DEF persist_repositories, registries
      <3>3. repositories_json' =
                remember_all(repositories, requests[c].configuration.repositories)
        BY <1>9, <2>4 DEF persist_repositories, Done, RequestsTyped
      <3>4. repositories_json' =
                remember_all(repositories', requests'[c].configuration.repositories)
        BY <3>1, <3>2, <3>3 DEF Continues
      <3> QED
        BY <2>1, <2>2, <3>4 DEF At, OthersWait, RepositoriesStaged
    <2> QED
      BY <2>3, <2>4
  <1>10. ASSUME NEW c \in Clients,
               persist_workspaces(c)
        PROVE  RepositoriesStaged'
    <2>1. OthersWait(c) /\ requests'[c].pc # "persist"
      BY <1>10, OthersDoWait, RequestContinues
      DEF persist_workspaces, Idle, Continues
    <2>2. \A d \in Clients : d # c => ~At(d, "register_workspace", "persist")
      BY <1>10 DEF persist_workspaces, LocksHeld
    <2> QED
      BY <2>1, <2>2 DEF At, OthersWait, RepositoriesStaged
  <1>11. ASSUME NEW c \in Clients,
               remove_repository(c)
        PROVE  RepositoriesStaged'
    <2>1. OthersWait(c) /\ requests'[c].pc # "persist"
      BY <1>11, OthersDoWait, RequestContinues
      DEF remove_repository, Idle, Continues
    <2>2. \A d \in Clients : d # c => ~At(d, "register_workspace", "persist")
      BY <1>11 DEF remove_repository, LocksHeld
    <2> QED
      BY <2>1, <2>2 DEF At, OthersWait, RepositoriesStaged
  <1>12. CASE Background
    BY <1>12 DEF Background, files, registries, At, RepositoriesStaged
  <1>13. CASE restart
    BY <1>13 DEF restart, Idle, At, RepositoriesStaged
  <1> QED
    BY <1>1, <1>2, <1>3, <1>4, <1>5, <1>6, <1>7, <1>8, <1>9, <1>10, <1>11,
       <1>12, <1>13, StepsOfNext

(* set_workspace_plugin changes the plugins and nothing else.                *)
LEMMA PluginsOnly ==
    ASSUME RegistriesTyped, RegistriesTyped', NEW c \in Clients,
           NEW w \in Workspaces, NEW plugin \in Plugins, NEW enabled \in BOOLEAN,
           set_workspace_plugin(c, w, plugin, enabled)
    PROVE  \A v \in Workspaces :
              /\ workspaces'[v] = None <=> workspaces[v] = None
              /\ workspaces[v] # None =>
                    workspaces'[v].repositories = workspaces[v].repositories
  <1>1. workspaces[w] \in ConfigurationType
    BY DEF set_workspace_plugin, RegistriesTyped
  <1>2. PICK plugins \in SUBSET Plugins :
            workspaces' = [workspaces EXCEPT ![w] = [@ EXCEPT !.plugins = plugins]]
    <2> DEFINE plugins == IF enabled THEN workspaces[w].plugins \cup {plugin}
                          ELSE workspaces[w].plugins \ {plugin}
    <2>1. plugins \in SUBSET Plugins
      BY <1>1 DEF ConfigurationType
    <2>2. workspaces' = [workspaces EXCEPT ![w] = [@ EXCEPT !.plugins = plugins]]
      BY DEF set_workspace_plugin, RegistriesTyped
    <2> QED
      BY <2>1, <2>2
  <1>3. workspaces'[w] = [workspaces[w] EXCEPT !.plugins = plugins]
    BY <1>2 DEF RegistriesTyped
  <1>4. /\ workspaces'[w].repositories = workspaces[w].repositories
        /\ workspaces'[w] \in ConfigurationType
    BY <1>1, <1>3 DEF ConfigurationType
  <1>5. workspaces[w] # None /\ workspaces'[w] # None
    BY <1>1, <1>4, NoneIsNoValue
  <1>6. \A v \in Workspaces : v # w => workspaces'[v] = workspaces[v]
    BY <1>2 DEF RegistriesTyped
  <1> QED
    BY <1>4, <1>5, <1>6

(* Whatever is written keeps what workspaces refer to, and a workspace that *)
(* is written refers to what was written before it.                         *)
LEMMA KnownStep ==
    ASSUME RegistriesTyped, RequestsTyped, WorkspacesStored,
           RepositoriesStaged, SelectionsKnown, RegistriesTyped', [Next]_vars
    PROVE  SelectionsKnown'
  <1>1. ASSUME NEW c \in Clients, NEW w \in Workspaces, NEW paths \in
               Selections,
               register_workspace(c, w, paths, {})
        PROVE  SelectionsKnown'
    <2>1. UNCHANGED <<repositories_json, repositories, workspaces>>
      BY <1>1 DEF register_workspace, files, registries
    <2> QED
      BY <2>1 DEF SelectionsKnown, Knows, references
  <1>2. ASSUME NEW c \in Clients, NEW r \in Repositories,
               delete_repository(c, r)
        PROVE  SelectionsKnown'
    <2>1. UNCHANGED <<repositories_json, repositories, workspaces>>
      BY <1>2 DEF delete_repository, files, registries
    <2> QED
      BY <2>1 DEF SelectionsKnown, Knows, references
  <1>3. ASSUME NEW c \in Clients,
               begin_update(c)
        PROVE  SelectionsKnown'
    <2>1. UNCHANGED <<repositories_json, repositories, workspaces>>
      BY <1>3 DEF begin_update, files, registries
    <2> QED
      BY <2>1 DEF SelectionsKnown, Knows, references
  <1>4. ASSUME NEW c \in Clients, NEW p \in Paths,
               change_watch(c, p)
        PROVE  SelectionsKnown'
    <2>1. UNCHANGED <<repositories_json, repositories, workspaces>>
      BY <1>4 DEF change_watch, files, registries
    <2> QED
      BY <2>1 DEF SelectionsKnown, Knows, references
  <1>5. ASSUME NEW c \in Clients,
               finish_registration(c)
        PROVE  SelectionsKnown'
    <2>1. UNCHANGED <<repositories_json, repositories, workspaces>>
      BY <1>5 DEF finish_registration, files, registries
    <2> QED
      BY <2>1 DEF SelectionsKnown, Knows, references
  <1>6. ASSUME NEW c \in Clients,
               mark_plugin(c)
        PROVE  SelectionsKnown'
    <2>1. UNCHANGED <<repositories_json, repositories, workspaces>>
      BY <1>6 DEF mark_plugin, files, registries
    <2> QED
      BY <2>1 DEF SelectionsKnown, Knows, references
  <1>7. CASE Background
    BY <1>7
    DEF Background, files, registries, SelectionsKnown, Knows, references
  <1>8. ASSUME NEW c \in Clients, NEW w \in Workspaces, NEW plugin \in
               Plugins, NEW enabled \in BOOLEAN,
               set_workspace_plugin(c, w, plugin, enabled)
        PROVE  SelectionsKnown'
    <2>1. UNCHANGED <<repositories_json, repositories>>
      BY <1>8 DEF set_workspace_plugin
    <2> QED
      BY <1>8, <2>1, PluginsOnly DEF SelectionsKnown, Knows, references
  <1>9. ASSUME NEW c \in Clients, NEW p \in Checkouts,
               register_repository(c, p)
        PROVE  SelectionsKnown'
    <2> DEFINE staged == replace_selection(repositories, IdentityOf[p], selection(p))
    <2>1. /\ repositories' = staged /\ repositories_json' = staged
          /\ workspaces' = workspaces
      BY <1>9 DEF register_repository
    <2>2. \A r \in Repositories :
             \A b : Knows(repositories, r, b) => Knows(staged, r, b)
      BY ReplaceKnows, SelectionIsTyped, WorkspaceAdminAssumption
      DEF RegistriesTyped
    <2> HIDE DEF staged
    <2> QED
      BY <2>1, <2>2 DEF SelectionsKnown, Knows, references
  <1>10. ASSUME NEW c \in Clients,
               persist_repositories(c)
        PROVE  SelectionsKnown'
    <2> DEFINE selected == requests[c].configuration.repositories
               staged == remember_all(repositories, selected)
    <2>1. /\ repositories_json' \in {staged, repositories_json}
          /\ repositories' = repositories /\ workspaces' = workspaces
      BY <1>10 DEF persist_repositories, registries
    <2>2. selected \in RegistryType
      BY <1>10, RequestOf
      DEF persist_repositories, At, RegistrationType, ConfigurationType
    <2>3. \A r \in Repositories :
             \A b : Knows(repositories, r, b) => Knows(staged, r, b)
      BY <2>2, RememberKnows DEF RegistriesTyped
    <2> HIDE DEF staged
    <2> QED
      BY <2>1, <2>3 DEF SelectionsKnown, Knows, references
  <1>11. ASSUME NEW c \in Clients,
               persist_workspaces(c)
        PROVE  SelectionsKnown'
    <2> DEFINE selected == requests[c].configuration.repositories
               staged == remember_all(repositories, selected)
    <2>1. CASE UNCHANGED <<workspaces, repositories>>
      <3>1. UNCHANGED repositories_json
        BY <1>11 DEF persist_workspaces
      <3> QED
        BY <2>1, <3>1 DEF SelectionsKnown, Knows, references
    <2>2. CASE ~UNCHANGED <<workspaces, repositories>>
      <3>1. requests[c] \in RegistrationType
        BY <1>11, RequestOf DEF persist_workspaces, At
      <3>2. selected \in RegistryType
        BY <3>1 DEF RegistrationType, ConfigurationType
      <3>3. /\ workspaces' = [workspaces EXCEPT
                                  ![requests[c].workspace] = requests[c].configuration]
            /\ repositories' = staged
        BY <1>11, <2>2 DEF persist_workspaces, registries
      <3>4. repositories_json' = staged
        BY <1>11 DEF persist_workspaces, RepositoriesStaged
      <3>5. /\ \A r \in Repositories :
                  \A b : Knows(repositories, r, b) => Knows(staged, r, b)
            /\ \A r \in Repositories :
                  selected[r] # None => Knows(staged, r, selected[r].base)
        BY <3>2, RememberKnows DEF RegistriesTyped
      <3> SUFFICES ASSUME NEW w \in Workspaces, NEW r \in Repositories,
                          references(workspaces'[w], r)
                   PROVE  Knows(staged, r, workspaces'[w].repositories[r].base)
        BY <3>3, <3>4 DEF SelectionsKnown, Knows, references
      <3>6. CASE w = requests[c].workspace
        <4>1. workspaces'[w] = requests[c].configuration
          BY <3>3, <3>6 DEF RegistriesTyped
        <4> QED
          BY <3>5, <4>1 DEF references
      <3>7. CASE w # requests[c].workspace
        <4>1. workspaces'[w] = workspaces[w]
          BY <3>3, <3>7 DEF RegistriesTyped
        <4> HIDE DEF staged
        <4> QED
          BY <3>5, <4>1 DEF references, SelectionsKnown
      <3> QED
        BY <3>6, <3>7
    <2> QED
      BY <2>1, <2>2
  <1>12. ASSUME NEW c \in Clients,
               remove_repository(c)
        PROVE  SelectionsKnown'
    <2> DEFINE q == requests[c].repository
    <2>0. workspaces' = workspaces
      BY <1>12 DEF remove_repository
    <2>1. CASE UNCHANGED <<repositories_json, repositories>>
      BY <2>0, <2>1 DEF SelectionsKnown, Knows, references
    <2>2. CASE ~UNCHANGED <<repositories_json, repositories>>
      <3>1. /\ ~workspace_referencing_repository(q)
            /\ repositories_json' = [repositories EXCEPT ![q] = None]
            /\ repositories' = [repositories EXCEPT ![q] = None]
        BY <1>12, <2>2 DEF remove_repository
      <3>2. \A w \in Workspaces, r \in Repositories :
               references(workspaces[w], r) => r # q
        BY <3>1 DEF workspace_referencing_repository
      <3>3. \A r \in Repositories : r # q =>
               repositories'[r] = repositories[r] /\ repositories_json'[r] = repositories[r]
        BY <3>1 DEF RegistriesTyped, RegistryType
      <3> QED
        BY <2>0, <3>2, <3>3 DEF SelectionsKnown, Knows, references
    <2> QED
      BY <2>1, <2>2
  <1>13. CASE restart
    <2>1. /\ repositories' = opened_repositories
          /\ repositories_json' \in {opened_repositories, repositories_json}
          /\ workspaces' = opened_workspaces
      BY <1>13 DEF restart, build
    <2>2. ASSUME NEW w \in Workspaces, NEW r \in Repositories,
                 references(opened_workspaces[w], r)
          PROVE  LET base == opened_workspaces[w].repositories[r].base
                 IN Knows(repositories_json, r, base) /\ Knows(opened_repositories, r, base)
      <3>1. /\ references(workspaces[w], r)
            /\ opened_workspaces[w].repositories[r].base =
                   workspaces[w].repositories[r].base
        BY <2>2, OpenedAsStored
      <3>2. Knows(repositories_json, r, workspaces[w].repositories[r].base)
        BY <3>1 DEF SelectionsKnown
      <3> QED
        BY <3>1, <3>2, OpenedKnows
    <2> QED
      BY <2>1, <2>2 DEF SelectionsKnown, Knows, references
  <1> QED
    BY <1>1, <1>2, <1>3, <1>4, <1>5, <1>6, <1>7, <1>8, <1>9, <1>10, <1>11,
       <1>12, <1>13, StepsOfNext

(* The counts change with the targets of one workspace.                     *)
LEMMA CountedStep ==
    ASSUME RegistriesTyped, RequestsTyped, WatchesTyped,
           WorkspacesStored, OwnersCounted, [Next]_vars
    PROVE  OwnersCounted'
  <1>1. ASSUME NEW c \in Clients, NEW w \in Workspaces, NEW paths \in
               Selections,
               register_workspace(c, w, paths, {})
        PROVE  OwnersCounted'
    <2>1. UNCHANGED <<owned, ownership>>
      BY <1>1 DEF register_workspace, watches
    <2> QED
      BY <2>1 DEF OwnersCounted, OwnersOf
  <1>2. ASSUME NEW c \in Clients, NEW w \in Workspaces, NEW plugin \in
               Plugins, NEW enabled \in BOOLEAN,
               set_workspace_plugin(c, w, plugin, enabled)
        PROVE  OwnersCounted'
    <2>1. UNCHANGED <<owned, ownership>>
      BY <1>2 DEF set_workspace_plugin, watches
    <2> QED
      BY <2>1 DEF OwnersCounted, OwnersOf
  <1>3. ASSUME NEW c \in Clients, NEW p \in Checkouts,
               register_repository(c, p)
        PROVE  OwnersCounted'
    <2>1. UNCHANGED <<owned, ownership>>
      BY <1>3 DEF register_repository, watches
    <2> QED
      BY <2>1 DEF OwnersCounted, OwnersOf
  <1>4. ASSUME NEW c \in Clients, NEW r \in Repositories,
               delete_repository(c, r)
        PROVE  OwnersCounted'
    <2>1. UNCHANGED <<owned, ownership>>
      BY <1>4 DEF delete_repository, watches
    <2> QED
      BY <2>1 DEF OwnersCounted, OwnersOf
  <1>5. ASSUME NEW c \in Clients,
               persist_repositories(c)
        PROVE  OwnersCounted'
    <2>1. UNCHANGED <<owned, ownership>>
      BY <1>5 DEF persist_repositories, watches
    <2> QED
      BY <2>1 DEF OwnersCounted, OwnersOf
  <1>6. ASSUME NEW c \in Clients,
               persist_workspaces(c)
        PROVE  OwnersCounted'
    <2>1. UNCHANGED <<owned, ownership>>
      BY <1>6 DEF persist_workspaces, watches
    <2> QED
      BY <2>1 DEF OwnersCounted, OwnersOf
  <1>7. ASSUME NEW c \in Clients,
               begin_update(c)
        PROVE  OwnersCounted'
    <2>1. UNCHANGED <<owned, ownership>>
      BY <1>7 DEF begin_update, watches
    <2> QED
      BY <2>1 DEF OwnersCounted, OwnersOf
  <1>8. ASSUME NEW c \in Clients, NEW p \in Paths,
               change_watch(c, p)
        PROVE  OwnersCounted'
    <2>1. UNCHANGED <<owned, ownership>>
      BY <1>8 DEF change_watch, watches
    <2> QED
      BY <2>1 DEF OwnersCounted, OwnersOf
  <1>9. ASSUME NEW c \in Clients,
               mark_plugin(c)
        PROVE  OwnersCounted'
    <2>1. UNCHANGED <<owned, ownership>>
      BY <1>9 DEF mark_plugin, watches
    <2> QED
      BY <2>1 DEF OwnersCounted, OwnersOf
  <1>10. ASSUME NEW c \in Clients,
               remove_repository(c)
        PROVE  OwnersCounted'
    <2>1. UNCHANGED <<owned, ownership>>
      BY <1>10 DEF remove_repository, watches
    <2> QED
      BY <2>1 DEF OwnersCounted, OwnersOf
  <1>11. CASE Background
    BY <1>11 DEF Background, watches, OwnersCounted, OwnersOf
  <1>12. ASSUME NEW c \in Clients,
               finish_registration(c)
        PROVE  OwnersCounted'
    <2> DEFINE current == workspace_watch_targets(requests[c].configuration)
               w == requests[c].workspace
    <2>1. requests[c] \in RegistrationType
      BY <1>12, RequestOf DEF finish_registration, At
    <2>2. w \in Workspaces /\ current \in SUBSET Targets
      BY <2>1, TargetsAreTyped DEF RegistrationType
    <2>3. /\ ownership' = replace(ownership, owned[w], current)
          /\ owned' = [owned EXCEPT ![w] = current]
      BY <1>12 DEF finish_registration
    <2> HIDE DEF current, w
    <2>4. ASSUME NEW t \in Targets
          PROVE  ownership'[t] = Cardinality(OwnersOf(owned', t))
      <3> DEFINE after == OwnersOf(owned', t)
      <3>1. /\ after \in SUBSET Workspaces
            /\ \A v \in Workspaces :
                  v \in after <=> t \in (IF v = w THEN current ELSE owned[v])
        BY <2>2, <2>3 DEF OwnersOf, WatchesTyped
      <3> HIDE DEF after
      <3>2. replace(ownership, owned[w], current)[t] = Cardinality(after)
        BY <2>2, <3>1, ReplaceCounts
      <3> QED
        BY <2>3, <3>2 DEF after
    <2> QED
      BY <2>4 DEF OwnersCounted, OwnersOf
  <1>13. CASE restart
    <2>1. /\ owned' = [w \in Workspaces |-> Wanted(opened_workspaces[w])]
          /\ ownership' = Owners(opened_workspaces)
      BY <1>13 DEF restart, build, Wanted
    <2>2. ASSUME NEW t \in Targets
          PROVE  ownership'[t] = Cardinality(OwnersOf(owned', t))
      <3>1. OwnersOf(owned', t) = {w \in Registered(opened_workspaces) :
                                      t \in workspace_watch_targets(opened_workspaces[w])}
        BY <2>1 DEF OwnersOf, Registered, Wanted
      <3> QED
        BY <2>1, <3>1 DEF Owners
    <2> QED
      BY <2>2 DEF OwnersCounted, OwnersOf
  <1> QED
    BY <1>1, <1>2, <1>3, <1>4, <1>5, <1>6, <1>7, <1>8, <1>9, <1>10, <1>11,
       <1>12, <1>13, StepsOfNext

-----------------------------------------------------------------------------
(* An update from what it begins with to what it ends with.                 *)
LEMMA MidwayBegins ==
    ASSUME NEW before, NEW after, NEW off, NEW actual,
           \A p \in Paths \ off : actual[p] = mode(before, p)
    PROVE  Midway(to_remove(before, after), to_add(before, after),
                  before, after, off, actual)
  <1>1. \A p \in to_remove(before, after) : p \in Paths
    BY DEF to_remove
  <1> QED
    BY <1>1 DEF Midway

(* An update under way stays so when a removal is done.                     *)
LEMMA MidwayRemoves ==
    ASSUME NEW removals, NEW additions, NEW before, NEW after, NEW off, NEW actual,
           Midway(removals, additions, before, after, off, actual),
           NEW p \in removals, NEW remaining, remaining = removals \ {p},
           NEW now, now[p] = None, \A q \in Paths : q # p => now[q] = actual[q]
    PROVE  Midway(remaining, additions, before, after, off, now)
  <1>1. /\ removals \subseteq to_remove(before, after)
        /\ additions = to_add(before, after)
    BY DEF Midway
  <1>2. ASSUME NEW q \in Paths \ off
        PROVE  now[q] = IF q \in remaining THEN mode(before, q)
                        ELSE IF q \in to_add(before, after) \ additions
                        THEN mode(after, q)
                        ELSE IF q \in to_remove(before, after) THEN None
                        ELSE mode(before, q)
    <2>1. CASE q = p
      BY <1>1, <2>1
    <2>2. CASE q # p
      BY <2>2 DEF Midway
    <2> QED
      BY <2>1, <2>2
  <1>3. remaining \subseteq removals
    OBVIOUS
  <1> QED
    BY <1>1, <1>2, <1>3 DEF Midway

(* An update under way stays so when an addition is done.                   *)
LEMMA MidwayAdds ==
    ASSUME NEW additions, NEW before, NEW after, NEW off, NEW actual,
           Midway({}, additions, before, after, off, actual),
           NEW p \in additions, NEW remaining, remaining = additions \ {p},
           NEW now, now[p] = mode(after, p),
           \A q \in Paths : q # p => now[q] = actual[q]
    PROVE  Midway({}, remaining, before, after, off, now)
  <1>1. additions \subseteq to_add(before, after)
    BY DEF Midway
  <1>2. ASSUME NEW q \in Paths \ off
        PROVE  now[q] = IF q \in to_add(before, after) \ remaining
                        THEN mode(after, q)
                        ELSE IF q \in to_remove(before, after) THEN None
                        ELSE mode(before, q)
    <2>1. CASE q = p
      BY <1>1, <2>1
    <2>2. CASE q # p
      BY <2>2 DEF Midway
    <2> QED
      BY <2>1, <2>2
  <1>3. remaining \subseteq additions
    OBVIOUS
  <1> QED
    BY <1>1, <1>2, <1>3 DEF Midway

(* When nothing is left to do, paths are watched as the new owners ask.     *)
LEMMA MidwayEnds ==
    ASSUME NEW before, NEW after, NEW off, NEW actual,
           Midway({}, {}, before, after, off, actual), NEW p \in Paths \ off
    PROVE  actual[p] = mode(after, p)
  BY DEF Midway, to_add, to_remove

(* When an update is given up, the paths it was not to change are watched   *)
(* as before it.                                                            *)
LEMMA MidwayFails ==
    ASSUME NEW removals, NEW additions, NEW before, NEW after, NEW off, NEW actual,
           Midway(removals, additions, before, after, off, actual),
           NEW p \in Paths \ off,
           p \notin to_remove(before, after), p \notin to_add(before, after)
    PROVE  actual[p] = mode(before, p)
  BY DEF Midway

(* A step without changes of ownership, watches and updates keeps the       *)
(* watches.                                                                 *)
LEMMA KeptFrame ==
    ASSUME WatchesKept, UNCHANGED <<owned, ownership, watched>>,
           UNCHANGED <<watcher_lock, unwatched>>,
           \A d \in Clients : requests'[d].op = "register_workspace" /\
                              requests'[d].pc = "update" => requests'[d] = requests[d]
    PROVE  WatchesKept'
  BY DEF WatchesKept, UpdateUnderWay, after_update, At

(* Every change of a watch is one the update under way asked for, and what  *)
(* an update leaves behind is what the new counts ask for.                  *)
LEMMA KeptStep ==
    ASSUME RegistriesTyped, RequestsTyped, WatchesTyped,
           WorkspacesStored, LocksHeld, WatchesKept, [Next]_vars
    PROVE  WatchesKept'
  <1>1. ASSUME NEW c \in Clients, NEW w \in Workspaces, NEW paths \in
               Selections,
               register_workspace(c, w, paths, {})
        PROVE  WatchesKept'
    <2>1. UNCHANGED <<owned, ownership, watched>> /\ UNCHANGED <<watcher_lock, unwatched>>
      BY <1>1 DEF register_workspace, watches, locks
    <2>2. OthersWait(c)
      BY <1>1, OthersDoWait
    <2>3. requests'[c].pc = "stage"
      BY <1>1, RequestBegins
    <2> QED
      BY <2>1, <2>2, <2>3, KeptFrame DEF Idle, Continues, OthersWait
  <1>2. ASSUME NEW c \in Clients, NEW w \in Workspaces, NEW plugin \in
               Plugins, NEW enabled \in BOOLEAN,
               set_workspace_plugin(c, w, plugin, enabled)
        PROVE  WatchesKept'
    <2>1. UNCHANGED <<owned, ownership, watched>> /\ UNCHANGED <<watcher_lock, unwatched>>
      BY <1>2 DEF set_workspace_plugin, watches, locks
    <2>2. OthersWait(c)
      BY <1>2, OthersDoWait
    <2>3. requests'[c].op = "set_workspace_plugin"
      BY <1>2, RequestBegins
    <2> QED
      BY <2>1, <2>2, <2>3, KeptFrame DEF Idle, Continues, OthersWait
  <1>3. ASSUME NEW c \in Clients, NEW r \in Repositories,
               delete_repository(c, r)
        PROVE  WatchesKept'
    <2>1. UNCHANGED <<owned, ownership, watched>> /\ UNCHANGED <<watcher_lock, unwatched>>
      BY <1>3 DEF delete_repository, watches, locks
    <2>2. OthersWait(c)
      BY <1>3, OthersDoWait
    <2>3. requests'[c].op = "delete_repository"
      BY <1>3, RequestBegins
    <2> QED
      BY <2>1, <2>2, <2>3, KeptFrame DEF Idle, Continues, OthersWait
  <1>4. ASSUME NEW c \in Clients,
               persist_repositories(c)
        PROVE  WatchesKept'
    <2>1. UNCHANGED <<owned, ownership, watched>> /\ UNCHANGED <<watcher_lock, unwatched>>
      BY <1>4 DEF persist_repositories, watches, locks
    <2>2. OthersWait(c)
      BY <1>4, OthersDoWait
    <2>3. requests'[c] = Idle \/ Continues(c, "persist")
      BY <1>4, RequestContinues
    <2> QED
      BY <2>1, <2>2, <2>3, KeptFrame DEF Idle, Continues, OthersWait
  <1>5. ASSUME NEW c \in Clients,
               persist_workspaces(c)
        PROVE  WatchesKept'
    <2>1. UNCHANGED <<owned, ownership, watched>> /\ UNCHANGED <<watcher_lock, unwatched>>
      BY <1>5 DEF persist_workspaces, watches, locks
    <2>2. OthersWait(c)
      BY <1>5, OthersDoWait
    <2>3. requests'[c] = Idle \/ Continues(c, "watch")
      BY <1>5, RequestContinues
    <2> QED
      BY <2>1, <2>2, <2>3, KeptFrame DEF Idle, Continues, OthersWait
  <1>6. ASSUME NEW c \in Clients,
               mark_plugin(c)
        PROVE  WatchesKept'
    <2>1. UNCHANGED <<owned, ownership, watched>> /\ UNCHANGED <<watcher_lock, unwatched>>
      BY <1>6 DEF mark_plugin, watches, locks
    <2>2. OthersWait(c)
      BY <1>6, OthersDoWait
    <2>3. requests'[c] = Idle
      BY <1>6, RequestContinues
    <2> QED
      BY <2>1, <2>2, <2>3, KeptFrame DEF Idle, Continues, OthersWait
  <1>7. ASSUME NEW c \in Clients,
               remove_repository(c)
        PROVE  WatchesKept'
    <2>1. UNCHANGED <<owned, ownership, watched>> /\ UNCHANGED <<watcher_lock, unwatched>>
      BY <1>7 DEF remove_repository, watches, locks
    <2>2. OthersWait(c)
      BY <1>7, OthersDoWait
    <2>3. requests'[c] = Idle
      BY <1>7, RequestContinues
    <2> QED
      BY <2>1, <2>2, <2>3, KeptFrame DEF Idle, Continues, OthersWait
  <1>8. ASSUME NEW c \in Clients, NEW p \in Checkouts,
               register_repository(c, p)
        PROVE  WatchesKept'
    <2>1. /\ UNCHANGED <<owned, ownership, watched>> /\ UNCHANGED <<watcher_lock, unwatched>>
          /\ UNCHANGED requests
      BY <1>8 DEF register_repository, watches, locks
    <2> QED
      BY <2>1, KeptFrame
  <1>9. CASE Background
    <2>1. /\ UNCHANGED <<owned, ownership, watched>> /\ UNCHANGED <<watcher_lock, unwatched>>
          /\ UNCHANGED requests
      BY <1>9 DEF Background, watches
    <2> QED
      BY <2>1, KeptFrame
  <1>10. ASSUME NEW c \in Clients,
               begin_update(c)
        PROVE  WatchesKept'
    <2> DEFINE after == after_update(c)
    <2>1. /\ watcher_lock = None /\ watcher_lock' = c
          /\ UNCHANGED <<owned, ownership, watched>> /\ unwatched' = unwatched
      BY <1>10 DEF begin_update, watches
    <2>2. requests[c] \in RegistrationType
      BY <1>10, RequestOf DEF begin_update, At
    <2>3. /\ requests'[c].removals = to_remove(ownership, after)
          /\ requests'[c].additions = to_add(ownership, after)
      BY <1>10, <2>2
      DEF begin_update, after_update, RequestsTyped, RegistrationType
    <2>4. OthersWait(c) /\ Continues(c, "update")
      BY <1>10, OthersDoWait, RequestContinues
    <2>5. \A p \in Paths \ unwatched : watched[p] = mode(ownership, p)
      BY <2>1 DEF WatchesKept
    <2>6. \A d \in Clients : d # c => ~At(d, "register_workspace", "update")'
      BY <2>1, <2>4, WorkspaceAdminAssumption DEF LocksHeld, OthersWait, At
    <2>7. Midway(to_remove(ownership, after), to_add(ownership, after),
                 ownership, after, unwatched, watched)
      BY <2>5, MidwayBegins
    <2>8. after_update(c)' = after
      BY <2>1, <2>4 DEF after_update, Continues
    <2> HIDE DEF after
    <2>9. UpdateUnderWay(c)'
      BY <2>1, <2>3, <2>7, <2>8 DEF UpdateUnderWay
    <2>10. watcher_lock' # None
      BY <2>1, WorkspaceAdminAssumption
    <2> QED
      BY <2>6, <2>9, <2>10 DEF WatchesKept
  <1>11. ASSUME NEW c \in Clients, NEW p \in Paths,
               change_watch(c, p)
        PROVE  WatchesKept'
    <2> DEFINE after == after_update(c)
               removals == requests[c].removals
               additions == requests[c].additions
    <2>0. /\ At(c, "register_workspace", "update")
          /\ UNCHANGED <<owned, ownership>>
          /\ IF removals # {} THEN p \in removals ELSE p \in additions
      BY <1>11 DEF change_watch
    <2>2. requests[c] \in RegistrationType /\ watcher_lock = c
      BY <2>0, RequestOf DEF At, LocksHeld
    <2>4. OthersWait(c)
      BY <1>11, OthersDoWait
    <2>5. \A d \in Clients : d # c => ~At(d, "register_workspace", "update")'
      BY <2>2, <2>4, WorkspaceAdminAssumption DEF LocksHeld, OthersWait, At
    <2>6. Midway(removals, additions, ownership, after, unwatched, watched)
      BY <2>0 DEF WatchesKept, UpdateUnderWay
    <2>13. CASE UNCHANGED watched /\ requests' = [requests EXCEPT ![c] = Idle]
      <3>1. unwatched' = unwatched \cup to_remove(ownership, after)
                                   \cup to_add(ownership, after)
        BY <1>11, <2>2, <2>13
        DEF change_watch, after_update, RequestsTyped, RegistrationType, Idle, Done
      <3>2. ~At(c, "register_workspace", "update")'
        BY <2>13 DEF At, Idle, RequestsTyped
      <3> HIDE DEF after, removals, additions
      <3>3. ASSUME NEW q \in Paths \ unwatched'
            PROVE  watched'[q] = mode(ownership', q)
        <4>1. /\ q \in Paths \ unwatched
              /\ q \notin to_remove(ownership, after)
              /\ q \notin to_add(ownership, after)
          BY <3>1
        <4>2. watched[q] = mode(ownership, q)
          BY <2>6, <4>1, MidwayFails
        <4> QED
          BY <2>0, <2>13, <4>2 DEF mode
      <3> QED
        BY <2>5, <3>2, <3>3 DEF WatchesKept
    <2>14. CASE ~(UNCHANGED watched /\ requests' = [requests EXCEPT ![c] = Idle])
      <3>1. /\ unwatched' = unwatched /\ UNCHANGED watcher_lock
            /\ watched' = [watched EXCEPT ![p] = IF removals # {} THEN None
                                                 ELSE mode(after, p)]
        BY <1>11, <2>14 DEF change_watch, after_update, Done
      <3>2. /\ requests'[c].removals = removals \ {p}
            /\ requests'[c].additions = IF removals # {} THEN additions
                                        ELSE additions \ {p}
            /\ Continues(c, "update")
        BY <1>11, <2>2, <2>14
        DEF change_watch, Done, RequestsTyped, RegistrationType, Continues, At
      <3>3. after_update(c)' = after
        BY <2>0, <3>2 DEF after_update, Continues
      <3>4. \A q \in Paths : q # p => watched'[q] = watched[q]
        BY <3>1 DEF WatchesTyped
      <3> HIDE DEF after, removals, additions
      <3>5. ASSUME removals # {} PROVE UpdateUnderWay(c)'
        <4>1. watched'[p] = None
          BY <3>1, <3>5 DEF WatchesTyped
        <4>2. /\ requests'[c].removals = removals \ {p}
              /\ requests'[c].additions = additions /\ p \in removals
          BY <2>0, <3>2, <3>5
        <4>3. Midway(requests'[c].removals, additions, ownership, after,
                     unwatched, watched')
          BY <2>6, <3>4, <4>1, <4>2, MidwayRemoves
        <4> QED
          BY <2>0, <3>1, <3>3, <4>2, <4>3 DEF UpdateUnderWay
      <3>6. ASSUME removals = {} PROVE UpdateUnderWay(c)'
        <4>1. watched'[p] = mode(after, p)
          BY <3>1, <3>6 DEF WatchesTyped
        <4>2. /\ requests'[c].removals = {}
              /\ requests'[c].additions = additions \ {p} /\ p \in additions
          BY <2>0, <3>2, <3>6
        <4>3. Midway({}, requests'[c].additions, ownership, after, unwatched,
                     watched')
          BY <2>6, <3>4, <3>6, <4>1, <4>2, MidwayAdds
        <4> QED
          BY <2>0, <3>1, <3>3, <4>2, <4>3 DEF UpdateUnderWay
      <3>7. watcher_lock' # None
        BY <2>2, <3>1, WorkspaceAdminAssumption
      <3>8. UpdateUnderWay(c)'
        BY <3>5, <3>6
      <3> QED
        BY <2>5, <3>7, <3>8 DEF WatchesKept
    <2> QED
      BY <2>13, <2>14
  <1>12. ASSUME NEW c \in Clients,
               finish_registration(c)
        PROVE  WatchesKept'
    <2> DEFINE after == after_update(c)
    <2>1. /\ At(c, "register_workspace", "update")
          /\ ownership' = after /\ UNCHANGED watched /\ unwatched' = unwatched
          /\ requests[c].removals = {} /\ requests[c].additions = {}
      BY <1>12 DEF finish_registration, after_update
    <2>2. watcher_lock = c
      BY <2>1 DEF LocksHeld
    <2>3. OthersWait(c) /\ requests'[c] = Idle
      BY <1>12, OthersDoWait, RequestContinues
    <2>4. \A d \in Clients : ~At(d, "register_workspace", "update")'
      BY <2>2, <2>3, WorkspaceAdminAssumption
      DEF LocksHeld, OthersWait, At, Idle
    <2>5. Midway({}, {}, ownership, after, unwatched, watched)
      BY <2>1 DEF WatchesKept, UpdateUnderWay
    <2> HIDE DEF after
    <2>6. \A p \in Paths \ unwatched : watched[p] = mode(after, p)
      BY <2>5, MidwayEnds
    <2> QED
      BY <2>1, <2>4, <2>6 DEF WatchesKept
  <1>13. CASE restart
    <2>1. /\ ownership' = Owners(opened_workspaces)
          /\ watched' = [p \in Paths |-> mode(Owners(opened_workspaces), p)]
          /\ requests' = [c \in Clients |-> Idle]
      BY <1>13 DEF restart, build
    <2>2. \A p \in Paths : watched'[p] = mode(ownership', p)
      BY <2>1
    <2>3. \A c \in Clients : ~At(c, "register_workspace", "update")'
      BY <2>1 DEF At, Idle
    <2> QED
      BY <2>2, <2>3 DEF WatchesKept
  <1> QED
    BY <1>1, <1>2, <1>3, <1>4, <1>5, <1>6, <1>7, <1>8, <1>9, <1>10, <1>11,
       <1>12, <1>13, StepsOfNext

-----------------------------------------------------------------------------
(***************************************************************************)
(* The invariant.                                                          *)
(***************************************************************************)
(* Initially the registries are empty and agree with their files.           *)
LEMMA AdminInit ==
    ASSUME Init
    PROVE  AdminInv
  <1>1. RegistriesTyped
    BY DEF Init, RegistriesTyped, RegistryType
  <1>2. RequestsTyped
    BY DEF Init, RequestsTyped, RequestType
  <1>3. WatchesTyped
    BY DEF Init, WatchesTyped
  <1>4. RunsTyped
    <2>1. NoRun \in RunType
      BY DEF NoRun, RunType
    <2> QED
      BY <2>1 DEF Init, RunsTyped
  <1>5. WorkspacesStored
    BY DEF Init, WorkspacesStored, stored_workspaces
  <1>6. \A c \in Clients : requests[c] = Idle
    BY DEF Init
  <1>7. LocksHeld /\ RepositoriesStaged
    BY <1>6 DEF LocksHeld, RepositoriesStaged, At, Idle
  <1>8. SelectionsKnown
    BY DEF Init, SelectionsKnown, references
  <1>9. OwnersCounted
    <2>1. ASSUME NEW t \in Targets PROVE OwnersOf(owned, t) = {}
      BY DEF Init, OwnersOf
    <2> QED
      BY <2>1, FS_EmptySet DEF Init, OwnersCounted
  <1>10. WatchesKept
    <2>1. ASSUME NEW p \in Paths PROVE watched[p] = mode(ownership, p)
      <3>1. <<p, "recursive">> \in Targets /\ <<p, "non_recursive">> \in Targets
        BY DEF Targets, Modes
      <3>2. /\ ownership[<<p, "recursive">>] = 0
            /\ ownership[<<p, "non_recursive">>] = 0
        BY <3>1 DEF Init
      <3> QED
        BY <3>2 DEF Init, mode
    <2> QED
      BY <1>6, <2>1 DEF WatchesKept, At, Idle
  <1> QED
    BY <1>1, <1>2, <1>3, <1>4, <1>5, <1>7, <1>8, <1>9, <1>10
    DEF AdminInv, TypeInv

(* Every step preserves the invariant.                                      *)
LEMMA AdminStep ==
    ASSUME AdminInv, [Next]_vars
    PROVE  AdminInv'
  <1>1. /\ RegistriesTyped /\ RequestsTyped /\ WatchesTyped /\ RunsTyped
        /\ WorkspacesStored /\ LocksHeld /\ RepositoriesStaged
        /\ SelectionsKnown /\ OwnersCounted /\ WatchesKept
    BY DEF AdminInv, TypeInv
  <1>2. RegistriesTyped'
    BY <1>1, RegistriesStep
  <1>3. RequestsTyped'
    BY <1>1, RequestsStep
  <1>4. WatchesTyped'
    BY <1>1, WatchesStep
  <1>5. RunsTyped'
    BY <1>1, RunsStep
  <1>6. WorkspacesStored'
    BY <1>1, StoredStep
  <1>7. LocksHeld'
    BY <1>1, LocksStep
  <1>8. RepositoriesStaged'
    BY <1>1, StagedStep
  <1>9. SelectionsKnown'
    BY <1>1, <1>2, KnownStep
  <1>10. OwnersCounted'
    BY <1>1, CountedStep
  <1>11. WatchesKept'
    BY <1>1, KeptStep
  <1> QED
    BY <1>2, <1>3, <1>4, <1>5, <1>6, <1>7, <1>8, <1>9, <1>10, <1>11
    DEF AdminInv, TypeInv

(* The registries, their files, the requests and the watches stay in step.  *)
THEOREM AdminInvariant == Spec => []AdminInv
  <1>1. Init => AdminInv
    BY AdminInit
  <1>2. AdminInv /\ [Next]_vars => AdminInv'
    BY AdminStep
  <1> QED
    BY <1>1, <1>2, PTL DEF Spec

-----------------------------------------------------------------------------
(***************************************************************************)
(* What follows.                                                           *)
(***************************************************************************)
(* The variables keep their types, whatever the requests, crashes and       *)
(* failures.                                                                *)
THEOREM TypeCorrect == Spec => []TypeOK
  <1>1. AdminInv => TypeOK
    BY DEF AdminInv, TypeInv, RegistriesTyped, RequestsTyped, WatchesTyped,
           RunsTyped, TypeOK
  <1> QED
    BY <1>1, AdminInvariant, PTL

(* In every state a crash can leave behind, what workspaces.json selects is *)
(* known to repositories.json: registrations write the repositories first,  *)
(* and delete_repository checks the workspaces under the same mutex.        *)
THEOREM StoredResolve == Spec => []StoredSelectionsResolve
  <1>1. ASSUME AdminInv PROVE StoredSelectionsResolve
    <2> SUFFICES ASSUME NEW w \in Workspaces, NEW r \in Repositories,
                        workspaces_json[w] # None, workspaces_json[w].bases[r] # None
                 PROVE  Knows(repositories_json, r, workspaces_json[w].bases[r])
      BY DEF StoredSelectionsResolve, Knows
    <2>1. /\ workspaces \in [Workspaces -> ConfigurationType \cup {None}]
          /\ workspaces_json = stored_workspaces(workspaces)
      BY <1>1 DEF AdminInv, TypeInv, RegistriesTyped, WorkspacesStored
    <2>2. workspaces[w] # None
      BY <2>1, StoredIsTyped
    <2>3. /\ references(workspaces[w], r)
          /\ workspaces_json[w].bases[r] = workspaces[w].repositories[r].base
      BY <2>1, <2>2, StoredIsTyped
    <2> QED
      BY <1>1, <2>3 DEF AdminInv, SelectionsKnown
  <1> QED
    BY <1>1, AdminInvariant, PTL

(* Between updates of the watcher a path that no failed update was to       *)
(* change is watched exactly when a workspace owns it and in the strongest  *)
(* mode an owner asks for: the counts of WatchOwnership lose no owner, and the removals and    *)
(* additions of WatchChanges bring the watches to the new counts.           *)
THEOREM WatchedIsOwned == Spec => []WatchedAsOwned
  <1>1. ASSUME AdminInv PROVE WatchedAsOwned
    <2> SUFFICES ASSUME watcher_lock = None, NEW p \in Paths \ unwatched
                 PROVE  watched[p] =
                          LET wanted == {t[2] : t \in {u \in UNION {owned[w] :
                                           w \in Workspaces} : u[1] = p}}
                          IN IF "recursive" \in wanted THEN "recursive"
                             ELSE IF wanted # {} THEN "non_recursive" ELSE None
      BY DEF WatchedAsOwned
    <2> DEFINE all == UNION {owned[w] : w \in Workspaces}
               wanted == {t[2] : t \in {u \in all : u[1] = p}}
    <2>1. /\ owned \in [Workspaces -> SUBSET Targets]
          /\ \A t \in Targets : ownership[t] = Cardinality(OwnersOf(owned, t))
          /\ watched[p] = mode(ownership, p)
      BY <1>1 DEF AdminInv, TypeInv, WatchesTyped, OwnersCounted, WatchesKept
    <2>2. ASSUME NEW t \in Targets PROVE ownership[t] > 0 <=> t \in all
      <3>1. OwnersOf(owned, t) \subseteq Workspaces
        BY DEF OwnersOf
      <3>2. IsFiniteSet(OwnersOf(owned, t))
        BY <3>1, FS_Subset, WorkspaceAdminAssumption
      <3>3. Cardinality(OwnersOf(owned, t)) \in Nat
        BY <3>2, FS_CardinalityType
      <3>4. Cardinality(OwnersOf(owned, t)) = 0 <=> OwnersOf(owned, t) = {}
        BY <3>2, FS_EmptySet
      <3>5. OwnersOf(owned, t) # {} <=> t \in all
        BY DEF OwnersOf
      <3> QED
        BY <2>1, <3>3, <3>4, <3>5
    <2>3. ASSUME NEW m \in Modes PROVE m \in wanted <=> <<p, m>> \in all
      <3>1. ASSUME <<p, m>> \in all PROVE m \in wanted
        <4>1. <<p, m>>[1] = p /\ <<p, m>>[2] = m
          OBVIOUS
        <4> HIDE DEF all
        <4> QED
          BY <3>1, <4>1
      <3>2. ASSUME m \in wanted PROVE <<p, m>> \in all
        <4>1. PICK t \in all : t[1] = p /\ t[2] = m
          BY <3>2
        <4>2. t \in Targets
          BY <2>1, <4>1
        <4>3. t = <<p, m>>
          BY <4>1, <4>2 DEF Targets
        <4> QED
          BY <4>1, <4>3
      <3> QED
        BY <3>1, <3>2
    <2>4. wanted \subseteq Modes
      BY <2>1 DEF Targets
    <2>5. <<p, "recursive">> \in Targets /\ <<p, "non_recursive">> \in Targets
      BY DEF Targets, Modes
    <2> HIDE DEF all
    <2>6. /\ ownership[<<p, "recursive">>] > 0 <=> "recursive" \in wanted
          /\ ownership[<<p, "non_recursive">>] > 0 <=> "non_recursive" \in wanted
      BY <2>2, <2>3, <2>5 DEF Modes
    <2> HIDE DEF wanted
    <2>7. wanted # {} <=> "recursive" \in wanted \/ "non_recursive" \in wanted
      BY <2>4 DEF Modes
    <2>8. watched[p] = IF "recursive" \in wanted THEN "recursive"
                       ELSE IF wanted # {} THEN "non_recursive" ELSE None
      BY <2>1, <2>6, <2>7 DEF mode
    <2> QED
      BY <2>8 DEF wanted, all
  <1> QED
    BY <1>1, AdminInvariant, PTL

(* The counts of WatchOwnership are those of the workspaces' targets in     *)
(* every state: a watch call that fails, overlapping registrations and      *)
(* crashes leave no count that a later update would start from wrongly.     *)
THEOREM CountsAreOfOwners == Spec => []OwnersCounted
  <1>1. AdminInv => OwnersCounted
    BY DEF AdminInv
  <1> QED
    BY <1>1, AdminInvariant, PTL

(* A crash takes back no checkout and no plugin that memory showed, at      *)
(* whatever point between the two files it comes.                           *)
THEOREM RegistrationsSurvive == Spec => RegistrationsSurviveRestart
  <1> DEFINE Survive ==
          restart => \A w \in Registered(workspaces) :
              /\ workspaces'[w] # None
              /\ workspaces'[w].plugins = workspaces[w].plugins
              /\ \A r \in Repositories :
                    references(workspaces[w], r) =>
                       workspaces'[w].repositories[r].base =
                           workspaces[w].repositories[r].base
  <1>1. ASSUME AdminInv, [Next]_vars PROVE Survive
    <2> SUFFICES ASSUME restart, NEW w \in Registered(workspaces)
                 PROVE  /\ workspaces'[w] # None
                        /\ workspaces'[w].plugins = workspaces[w].plugins
                        /\ \A r \in Repositories :
                              references(workspaces[w], r) =>
                                 workspaces'[w].repositories[r].base =
                                     workspaces[w].repositories[r].base
      OBVIOUS
    <2>1. workspaces' = opened_workspaces
      BY DEF restart, build
    <2>2. w \in Workspaces /\ workspaces[w] # None
      BY DEF Registered
    <2>3. RegistriesTyped /\ WorkspacesStored
      BY <1>1 DEF AdminInv, TypeInv
    <2> QED
      BY <2>1, <2>2, <2>3, OpenedAsStored
  <1> HIDE DEF Survive
  <1>2. AdminInv /\ [Next]_vars => [Survive]_vars
    BY <1>1
  <1>3. [][Survive]_vars => RegistrationsSurviveRestart
    BY DEF Survive, RegistrationsSurviveRestart
  <1> QED
    BY <1>2, <1>3, AdminInvariant, PTL DEF Spec
=============================================================================
