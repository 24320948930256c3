------------------------------ MODULE Indexer ------------------------------
(***************************************************************************)
(* The Indexer analyzes a snapshot of a workspace (crates/indexing), with   *)
(* one analyzer per language.  Almost everything it computes is cached, in  *)
(* memory and under cache_dir, at four levels: whole repositories (for any  *)
(* analyzer), repositories of TypeScript, single files, and the downloaded  *)
(* dependencies of Protobuf.  What it returns has to be what an analysis    *)
(* without any cache returns.                                               *)
(*                                                                         *)
(* Three analyzers stand for all: Rust keeps an incremental database of     *)
(* files, TypeScript keeps files and repositories by their contents, and    *)
(* Protobuf depends on the network.  A file defines and calls names, at a   *)
(* range, and has other things of which only the line is known: namespaces, *)
(* GraphQL documents, syntax that was discarded.  Facts carry the versions  *)
(* and plugins that produced them, so that a stale one differs from a fresh *)
(* one.  The order of facts, their split into shards, semantic candidates   *)
(* and statistics are left out.                                             *)
(***************************************************************************)
EXTENDS Naturals, FiniteSets

CONSTANTS
    Repositories,
    Contents,      \* repository -> the inputs it may have
    Builds,        \* the versions a daemon may be built with
    MaxChanges,    \* bound: edits, restarts, changes of the network
    MaxFaults      \* bound: writes that fail and cleared caches

VARIABLES
    snapshot,      \* repository -> its inputs
    build,         \* the versions of the running daemon
    network,       \* whether dependencies can be downloaded
    memory,        \* the caches of the process
    disk,          \* the caches under cache_dir
    result,        \* {the last analysis}, {} once something changed
    failed,        \* ghost: keys whose cached analysis lacks a dependency
    changes,
    faults

indexerVars == <<snapshot, build, network, memory, disk, result, failed, changes, faults>>

Languages == {"protobuf", "rust", "typescript"}
None == "none"

(* A cache is a function from some keys; entry is {} or {what is cached}.   *)
Empty == [k \in {} |-> {}]
entry(cache, k) == IF k \in DOMAIN cache THEN {cache[k]} ELSE {}
TheOnly(S) == CHOOSE x \in S : TRUE

(* What is new replaces what a cache has under the same key.                *)
insert(cache, new) ==
    [k \in DOMAIN cache \cup DOMAIN new |-> IF k \in DOMAIN new THEN new[k] ELSE cache[k]]

EmptyMemory ==
    [repository |-> Empty,      \* key -> analysis
     latest |-> Empty,          \* repository and identity -> key and analysis
     files |-> Empty,           \* repository and path -> SourceFile of Rust
     sources |-> Empty,         \* key of a file -> its analysis
     contributions |-> Empty,   \* repository -> semantic key and contribution
     dependency |-> FALSE]
EmptyDisk ==
    [path |-> Empty,            \* key -> the file it is linked to
     file |-> Empty,            \* file -> {analysis}, {} if it cannot be read
     sources |-> Empty,
     contributions |-> Empty,   \* semantic key -> contribution
     dependency |-> FALSE]

IndexerInit ==
    /\ snapshot \in {f \in [Repositories -> UNION {Contents[r] : r \in Repositories}] :
                  \A r \in Repositories : f[r] \in Contents[r]}
    /\ build \in Builds
    /\ network = TRUE
    /\ memory = EmptyMemory
    /\ disk = EmptyDisk
    /\ result = {}
    /\ failed = {}
    /\ changes = 0
    /\ faults = 0

-----------------------------------------------------------------------------
(* Plugins and identities.                                                  *)

has_sources(r, l) == snapshot[r][l] # {}
languages(r) == {l \in Languages : has_sources(r, l)}

(* The plugins that the manifest of a repository activates: one recognizes  *)
(* constructs in a source, one enriches the facts of a repository.          *)
activate(r, l) ==
    IF snapshot[r].manifest # None /\ has_sources(r, l) /\ l # "protobuf"
      THEN {[id |-> id, version |-> build.plugin] : id \in {"recognizer", "enricher"}}
      ELSE {}
source_identity(r, l) == {p \in activate(r, l) : p.id = "recognizer"}

prepare_repository(r, l) == <<build.frontend, build.resolver, activate(r, l)>>

repository_analysis_identity(r) == {<<l, prepare_repository(r, l)>> : l \in languages(r)}

(* A state's fingerprint covers the repository and all of its inputs.       *)
state_fingerprint(r) == <<r, snapshot[r]>>
repository_key(r) == <<state_fingerprint(r), repository_analysis_identity(r)>>
latest_key(r) == <<r, repository_analysis_identity(r)>>

(* lookup_repository: in memory, then the file its path is linked to.       *)
lookup_repository(m, d, r) ==
    LET k == repository_key(r)
    IN IF k \in DOMAIN m.repository THEN {m.repository[k]}
         ELSE UNION {d.file[f] : f \in entry(d.path, k)}
cached(m, d) == {r \in Repositories : lookup_repository(m, d, r) # {}}
missing(m, d, l) == {r \in Repositories \ cached(m, d) : has_sources(r, l)}

files(l, R) == UNION {{<<r, s>> : s \in snapshot[r][l]} : r \in R}

-----------------------------------------------------------------------------
(* Single files.                                                            *)

(* A comment is not part of an analysis.  A source whose tree cannot be     *)
(* recovered safely has none.                                               *)
analyze_with_plugins(s, recognizers) ==
    IF s.broken THEN {}
      ELSE {[defines |-> s.defines, calls |-> s.calls, range |-> s.range, lined |-> s.lined,
             by |-> <<build.frontend, recognizers>>]}

(* The key of a file under cache_dir names no repository.                   *)
cache_path(l, r, s) == <<l, build.frontend, s, source_identity(r, l)>>

(* TypescriptAnalyzer::analysis: memory, then disk, then the parser.        *)
analysis(m, d, r, s) ==
    LET k == cache_path("typescript", r, s)
    IN IF k \in DOMAIN m.sources THEN {m.sources[k]}
         ELSE IF k \in DOMAIN d.sources THEN {d.sources[k]}
         ELSE analyze_with_plugins(s, source_identity(r, "typescript"))

(* IncrementalRust::analyze_many: the SourceFile of a path is kept, or set  *)
(* to the new text and plugins without a cached analysis; only one that is  *)
(* new in this process is looked up on disk.                                *)
unchanged(file, r, s) == file.text = s /\ file.active = activate(r, "rust")

analyze_many(m, d, r, s) ==
    LET known == entry(m.files, <<r, s.path>>)
    IN IF \E f \in known : unchanged(f, r, s) THEN TheOnly(known)
         ELSE [text |-> s, active |-> activate(r, "rust"),
               cached |-> IF known = {} THEN entry(d.sources, cache_path("rust", r, s)) ELSE {}]

(* parse_file: the cached analysis, or the text parsed.                     *)
parse_file(file) ==
    IF file.cached # {} THEN file.cached
      ELSE analyze_with_plugins(file.text, {p \in file.active : p.id = "recognizer"})

(* What both add to the files under cache_dir, and TypeScript in memory.    *)
kept(found) == [k \in {f.key : f \in found} |-> TheOnly({f \in found : f.key = k}).analysis]
new_rust_files(m, d) ==
    kept(UNION {LET file == analyze_many(m, d, x[1], x[2])
                IN {[key |-> cache_path("rust", x[1], x[2]), analysis |-> a] :
                      a \in IF file \in entry(m.files, <<x[1], x[2].path>>) \/ file.cached # {}
                              THEN {} ELSE parse_file(file)} :
                x \in files("rust", missing(m, d, "rust"))})
new_typescript_files(m, d) ==
    kept(UNION {{[key |-> cache_path("typescript", x[1], x[2]), analysis |-> a] :
                   a \in analysis(m, d, x[1], x[2])} : x \in files("typescript", Repositories)})

-----------------------------------------------------------------------------
(* The contribution of an analyzer to one repository.                       *)

Contribution(r, l) ==
    [definitions |-> {}, calls |-> {}, grats |-> {}, lines |-> {}, skipped |-> {}, failure |-> FALSE,
     resolver |-> build.resolver, enriched |-> {p \in activate(r, l) : p.id = "enricher"}]

(* observations_from_analysis, semantics_from_analysis: found is the set of *)
(* the files of a repository with their analyses.                           *)
analyzed_files(found) ==
    {[path |-> f.path, analysis |-> TheOnly(f.analysis)] : f \in {f \in found : f.analysis # {}}}
definitions_of(l, r, found) ==
    UNION {{[language |-> l, repository |-> r, path |-> f.path, name |-> n,
             range |-> f.analysis.range, by |-> f.analysis.by] :
              n \in f.analysis.defines} : f \in analyzed_files(found)}
calls_of(l, r, found) ==
    UNION {{[language |-> l, repository |-> r, path |-> f.path, package |-> c[1], name |-> c[2],
             range |-> f.analysis.range, by |-> f.analysis.by, target |-> {}] :
               c \in f.analysis.calls} : f \in analyzed_files(found)}
(* The evidence, or the diagnostic, of what has a line and no range.        *)
lines_of(found) ==
    UNION {{[path |-> f.path, name |-> x.name, line |-> x.line] : x \in f.analysis.lined} :
             f \in analyzed_files(found)}
skipped_of(found) == {f.path : f \in {f \in found : f.analysis = {}}}

(* resolve_repository_calls of Rust: a call by a name that is defined once. *)
unique_definition(c, definitions) ==
    LET named == {e \in definitions : e.name = c.name}
    IN IF Cardinality(named) = 1 THEN named ELSE {}

rust_contribution(m, d, r) ==
    LET found == {[path |-> s.path, analysis |-> parse_file(analyze_many(m, d, r, s))] :
                    s \in snapshot[r].rust}
        definitions == definitions_of("rust", r, found)
    IN [Contribution(r, "rust") EXCEPT
          !.definitions = definitions,
          !.calls = {[c EXCEPT !.target = unique_definition(c, definitions)] :
                       c \in calls_of("rust", r, found)},
          !.lines = lines_of(found),
          !.skipped = skipped_of(found)]

(* The files of a TypeScript repository, and those of its entry module      *)
(* that an import of its package reaches.                                   *)
TypescriptRepository(m, d, r) ==
    {[path |-> s.path, analysis |-> analysis(m, d, r, s)] : s \in snapshot[r].typescript}
exports(m, d, r) == {e \in definitions_of("typescript", r, TypescriptRepository(m, d, r)) : e.path = "index"}

(* collect_grats_resolvers reads the comments of the sources; the evidence  *)
(* of a resolver is that of the definition the analysis has for it.         *)
collect_grats_resolvers(r) ==
    {s.path : s \in {s \in snapshot[r].typescript :
                        s.comment = "grats" /\ ~s.broken /\ snapshot[r].manifest # None}}

resolvers_of(found, paths) ==
    {[path |-> f.path, range |-> f.analysis.range] :
       f \in {f \in analyzed_files(found) : f.path \in paths}}

(* Mutant: the shape has no ranges either. *)
MutantShapeWithoutRanges(a) ==
    [defines |-> a.defines, calls |-> a.calls, range |-> 0,
     lined |-> {x.name : x \in a.lined}, by |-> a.by]

(* semantic_shape: an analysis without the lines of what has no range.  Of  *)
(* the resolvers hash_graphql_resolvers leaves the evidence out.            *)
semantic_shape(a) ==
    [defines |-> a.defines, calls |-> a.calls, range |-> a.range,
     lined |-> {x.name : x \in a.lined}, by |-> a.by]
semantic_shapes(found) ==
    {[path |-> f.path, analysis |-> {semantic_shape(a) : a \in f.analysis}] : f \in found}

repository_semantic_key(m, d, r) ==
    <<r, prepare_repository(r, "typescript"), semantic_shapes(TypescriptRepository(m, d, r)),
      snapshot[r].manifest, collect_grats_resolvers(r)>>

(* resolve_repository_calls of TypeScript: a name of the same file, or one  *)
(* that the package of the repository itself exports.                       *)
resolved_calls(r, found, package) ==
    LET resolved(c) == {e \in definitions_of("typescript", r, found) :
                          /\ e.name = c.name
                          /\ \/ c.package = None /\ e.path = c.path
                             \/ c.package # None /\ c.package = package /\ e.path = "index"}
    IN {[c EXCEPT !.target = resolved(c)] : c \in calls_of("typescript", r, found)}

typescript_contribution(m, d, r) ==
    LET found == TypescriptRepository(m, d, r)
    IN [Contribution(r, "typescript") EXCEPT
          !.definitions = definitions_of("typescript", r, found),
          !.calls = resolved_calls(r, found, snapshot[r].manifest),
          !.grats = resolvers_of(found, collect_grats_resolvers(r)),
          !.lines = lines_of(found),
          !.skipped = skipped_of(found)]

(* cached_repository: by the semantic key, in memory (one per repository),  *)
(* then on disk; otherwise the contribution is computed.                    *)
cached_repository(m, d, r) ==
    LET k == repository_semantic_key(m, d, r)
        last == {x.contribution : x \in {x \in entry(m.contributions, r) : x.key = k}}
    IN IF last # {} THEN last ELSE entry(d.contributions, k)
repository_contribution(m, d, r) ==
    IF cached_repository(m, d, r) # {} THEN TheOnly(cached_repository(m, d, r))
      ELSE typescript_contribution(m, d, r)

(* compile_repository: a locked dependency is in memory, on disk or is      *)
(* downloaded.                                                              *)
locked(r) == \E s \in snapshot[r].protobuf : s.locked
compiles(m, d, online, r) == locked(r) => m.dependency \/ d.dependency \/ online
compiled_definitions(r, sources, compiler) ==
    UNION {{[language |-> "protobuf", repository |-> r, path |-> s.path, name |-> n,
             range |-> 0, by |-> compiler] : n \in s.defines} : s \in sources}
protobuf_contribution(m, d, online, r) ==
    IF compiles(m, d, online, r)
      THEN [Contribution(r, "protobuf") EXCEPT
              !.definitions = compiled_definitions(r, snapshot[r].protobuf, build.frontend)]
      ELSE [Contribution(r, "protobuf") EXCEPT !.failure = TRUE]

(* A repository of nothing but Protobuf that does not compile ends the      *)
(* analysis of the workspace.                                               *)
aborts(m, d, online) ==
    \E r \in missing(m, d, "protobuf") :
        ~compiles(m, d, online, r) /\ snapshot[r].manifest = None /\ languages(r) = {"protobuf"}

-----------------------------------------------------------------------------
(* The workspace: what the repositories contribute, cached or not, and the  *)
(* calls between repositories, which are resolved anew every time.          *)

RepositoryAnalysis(m, d, online, r) ==
    [l \in languages(r) |->
        CASE l = "rust" -> rust_contribution(m, d, r)
          [] l = "typescript" -> repository_contribution(m, d, r)
          [] l = "protobuf" -> protobuf_contribution(m, d, online, r)]
repositories(m, d, online) ==
    [r \in Repositories |->
        IF r \in cached(m, d) THEN TheOnly(lookup_repository(m, d, r))
                              ELSE RepositoryAnalysis(m, d, online, r)]

with_sources(l) == {r \in Repositories : has_sources(r, l)}
unresolved_calls(merged, l) ==
    {c \in UNION {merged[r][l].calls : r \in with_sources(l)} : c.target = {}}

rust_overrides(merged) ==
    LET definitions == UNION {merged[r]["rust"].definitions : r \in with_sources("rust")}
    IN {[call |-> c, target |-> unique_definition(c, definitions)] :
          c \in {c \in unresolved_calls(merged, "rust") : unique_definition(c, definitions) # {}}}

(* The repositories whose manifests name a package, from the cached         *)
(* repositories too; a name that several use stands for none.               *)
packages(p) == {r \in with_sources("typescript") : snapshot[r].manifest = p}
resolve_workspace_calls(m, d, merged) ==
    LET target(c) == IF c.package # None /\ Cardinality(packages(c.package)) = 1
                       THEN {e \in exports(m, d, TheOnly(packages(c.package))) : e.name = c.name}
                       ELSE {}
    IN IF Cardinality(with_sources("typescript")) < 2 THEN {}
         ELSE {[call |-> c, target |-> target(c)] :
                 c \in {c \in unresolved_calls(merged, "typescript") : target(c) # {}}}

WorkspaceAnalysis(m, d, online) ==
    LET merged == repositories(m, d, online)
    IN [repositories |-> merged,
        overrides |-> rust_overrides(merged) \cup resolve_workspace_calls(m, d, merged)]

-----------------------------------------------------------------------------
(* What an analysis leaves in the caches.                                   *)

(* prepare: repositories found on disk are kept in memory.                  *)
prepared(m, d) ==
    LET found == {r \in cached(m, d) : repository_key(r) \notin DOMAIN m.repository}
        read(r) == TheOnly(lookup_repository(m, d, r))
    IN [m EXCEPT
          !.repository = insert(@, [k \in {repository_key(r) : r \in found} |->
                             read(TheOnly({r \in found : repository_key(r) = k}))]),
          !.latest = insert(@, [k \in {latest_key(r) : r \in found} |->
                         LET r == TheOnly({r \in found : latest_key(r) = k})
                         IN [key |-> repository_key(r), analysis |-> read(r)]])]

(* The analyzers: their files, their repositories, their dependencies.      *)
analyzer_memory(m, d, online) ==
    LET rust == files("rust", missing(m, d, "rust"))
        semantic == missing(m, d, "typescript")
    IN [m EXCEPT
          !.files = insert(@, [k \in {<<x[1], x[2].path>> : x \in rust} |->
                        LET x == TheOnly({x \in rust : <<x[1], x[2].path>> = k})
                        IN analyze_many(m, d, x[1], x[2])]),
          !.sources = insert(@, new_typescript_files(m, d)),
          !.contributions = insert(@, [r \in semantic |->
                                [key |-> repository_semantic_key(m, d, r),
                                 contribution |-> repository_contribution(m, d, r)]]),
          !.dependency = @ \/ \E r \in missing(m, d, "protobuf") : locked(r) /\ compiles(m, d, online, r)]
analyzer_disk(m, d, online) ==
    [d EXCEPT
       !.sources = insert(insert(new_typescript_files(m, d), new_rust_files(m, d)), @),
       !.contributions = insert(@,
                           [k \in {repository_semantic_key(m, d, r) : r \in missing(m, d, "typescript")} |->
                              repository_contribution(m, d, TheOnly(
                                {r \in missing(m, d, "typescript") : repository_semantic_key(m, d, r) = k}))]),
       !.dependency = @ \/ (online /\ \E r \in missing(m, d, "protobuf") : locked(r))]

(* store_repository: an analysis equal to the latest of the repository is   *)
(* linked to its file, unless there is a file already; any other is written *)
(* in place, into the file of all that are linked to it.                    *)
is_linked(m, d, r, a) ==
    /\ \E x \in entry(m.latest, latest_key(r)) : x.analysis = a /\ x.key \in DOMAIN d.path
    /\ repository_key(r) \notin DOMAIN d.path
file_of(m, d, r, a) ==
    IF is_linked(m, d, r, a) THEN d.path[m.latest[latest_key(r)].key]
      ELSE IF repository_key(r) \in DOMAIN d.path THEN d.path[repository_key(r)]
      ELSE repository_key(r)

(* lost: the repositories whose file is cut off.                            *)
stored_disk(m, d, merged, R, lost) ==
    LET written == {r \in R : ~is_linked(m, d, r, merged[r])}
    IN [d EXCEPT
          !.path = insert(@, [k \in {repository_key(r) : r \in R} |->
                       LET r == TheOnly({r \in R : repository_key(r) = k})
                       IN file_of(m, d, r, merged[r])]),
          !.file = insert(@, [f \in {file_of(m, d, r, merged[r]) : r \in written} |->
                       LET r == TheOnly({r \in written : file_of(m, d, r, merged[r]) = f})
                       IN IF r \in lost THEN {} ELSE {merged[r]}])]
stored_memory(m, merged, R) ==
    [m EXCEPT
       !.repository = insert(@, [k \in {repository_key(r) : r \in R} |->
                          merged[TheOnly({r \in R : repository_key(r) = k})]]),
       !.latest = insert(@, [k \in {latest_key(r) : r \in R} |->
                      LET r == TheOnly({r \in R : latest_key(r) = k})
                      IN [key |-> repository_key(r), analysis |-> merged[r]]])]

has_failure(a) == "protobuf" \in DOMAIN a /\ a["protobuf"].failure
same_file(d, k) == {x \in DOMAIN d.path : d.path[x] = d.path[k]}
(* The keys whose file may lack a dependency: one that failed, of which no  *)
(* analysis was written since, or that shares its file with such a one.     *)
lacking_dependency(stored, old, R, merged) ==
    UNION {same_file(stored, k) :
             k \in (old \ {repository_key(r) : r \in R})
                      \cup {repository_key(r) : r \in {r \in R : has_failure(merged[r])}}}

-----------------------------------------------------------------------------
(* Indexer::analyze: prepare, the analyzers in their order, of which        *)
(* Protobuf is the last, then the repositories are stored.  The caches only *)
(* use what is in the key they look up, under a lock each, so that analyses *)
(* of two workspaces at a time leave what one after the other does.         *)
Analyze(lost) ==
    LET m == analyzer_memory(prepared(memory, disk), disk, network)
        d == IF "analyzers" \in lost THEN disk ELSE analyzer_disk(memory, disk, network)
        analyzed == WorkspaceAnalysis(memory, disk, network)
        R == Repositories \ cached(memory, disk)
        stored == stored_disk(m, d, analyzed.repositories, R, lost)
    IN IF aborts(memory, disk, network)
         THEN /\ memory' = m
              /\ disk' = d
              /\ UNCHANGED <<result, failed>>
         ELSE /\ memory' = stored_memory(m, analyzed.repositories, R)
              /\ disk' = stored
              /\ result' = {analyzed}
              /\ failed' = lacking_dependency(stored, failed, R, analyzed.repositories)

analyze ==
    /\ result = {}
    /\ Analyze({})
    /\ UNCHANGED <<snapshot, build, network, changes, faults>>

(* Fault: the file of a repository is cut off, or those of the analyzers    *)
(* are; what can not be decoded is as good as missing.                      *)
write_fails ==
    /\ result = {}
    /\ faults < MaxFaults
    /\ faults' = faults + 1
    /\ \E x \in (Repositories \ cached(memory, disk)) \cup {"analyzers"} : Analyze({x})
    /\ UNCHANGED <<snapshot, build, network, changes>>

clear_cache ==
    /\ faults < MaxFaults
    /\ memory' = EmptyMemory
    /\ disk' = EmptyDisk
    /\ result' = {}
    /\ failed' = {}
    /\ faults' = faults + 1
    /\ UNCHANGED <<snapshot, build, network, changes>>

change ==
    /\ changes < MaxChanges
    /\ changes' = changes + 1
    /\ result' = {}

edit(r, c) ==
    /\ change
    /\ c # snapshot[r]
    /\ snapshot' = [snapshot EXCEPT ![r] = c]
    /\ UNCHANGED <<build, network, memory, disk, failed, faults>>

restart(b) ==
    /\ change
    /\ build' = b
    /\ memory' = EmptyMemory
    /\ UNCHANGED <<snapshot, network, disk, failed, faults>>

network_changes ==
    /\ change
    /\ network' = ~network
    /\ UNCHANGED <<snapshot, build, memory, disk, failed, faults>>

IndexerNext ==
    \/ analyze
    \/ write_fails
    \/ clear_cache
    \/ \E r \in Repositories : \E c \in Contents[r] : edit(r, c)
    \/ \E b \in Builds : restart(b)
    \/ network_changes

IndexerSpec == IndexerInit /\ [][IndexerNext]_indexerVars

-----------------------------------------------------------------------------
(* A contribution without the lines of what has no range.                   *)
unplaced(c) == [c EXCEPT !.lines = {[path |-> x.path, name |-> x.name] : x \in @}]
facts(l, c) == IF l = "typescript" THEN unplaced(c) ELSE c

(* Whatever was analyzed before, by whichever version and with whichever    *)
(* plugins, and whatever of it is left in memory and on disk: an analysis   *)
(* returns for every repository and between the repositories exactly what   *)
(* one without any cache returns for the current inputs, ranges included.   *)
(* There are two exceptions.  A failed download is kept with the analysis   *)
(* it is missing from.  And the lines of TypeScript facts that have no      *)
(* range may be those of an earlier text, since the semantic key leaves     *)
(* them out; what the lines are of is fresh.                                *)
AnalysisIsFresh ==
    \A x \in result :
        LET cold == WorkspaceAnalysis(EmptyMemory, EmptyDisk, TRUE)
            same(r, l) == facts(l, x.repositories[r][l]) = facts(l, cold.repositories[r][l])
        IN /\ x.overrides = cold.overrides
           /\ \A r \in Repositories :
                /\ DOMAIN x.repositories[r] = languages(r)
                /\ \A l \in languages(r) :
                     same(r, l) \/ (l = "protobuf" /\ repository_key(r) \in failed)
=============================================================================
