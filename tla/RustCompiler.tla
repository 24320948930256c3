---------------------------- MODULE RustCompiler ----------------------------
(***************************************************************************)
(* The compiler workspace of the persistent Rust worker                     *)
(* (crates/worker-rust/src/lib.rs).  It keeps, per shape of a snapshot, the *)
(* texts it has loaded, a summary of every file and the resolution of every *)
(* call, and recomputes only what a change can affect.  Summaries and       *)
(* resolutions survive the process in a cache file per shape.               *)
(*                                                                         *)
(* A file holds one function with at most one call.  Its text is the        *)
(* imports and module declarations it makes, the interface and the body of  *)
(* its function, the files the body names by a path without importing them, *)
(* and whether it can be parsed.  Hashes are modelled by what they hash.    *)
(***************************************************************************)
EXTENDS Naturals, FiniteSets

CONSTANTS
    Files,      \* the Rust sources of a snapshot
    Snapshots   \* the snapshots to analyze: a shape and a text for each file

(* A text names files of the snapshot, and a body is a text too: where two  *)
(* bodies are the same they name the same files.  A shape is a digest.      *)
ASSUME SnapshotsAssumption ==
    /\ IsFiniteSet(Files)
    /\ \A s \in Snapshots :
          /\ s.shape \notin {"none", "poisoned"}
          /\ \A f \in Files : /\ s.text[f].imports \subseteq Files
                              /\ s.text[f].paths \subseteq Files
                              /\ s.text[f].analyzable \in BOOLEAN
    /\ \A s, t \in Snapshots : \A f \in Files :
          s.text[f].body = t.text[f].body => s.text[f].paths = t.text[f].paths

Shapes == {s.shape : s \in Snapshots}

NoCompiler == [shape |-> "none"]
NoCache == [files |-> <<>>, resolutions |-> {}]

-----------------------------------------------------------------------------
(* What rust-analyzer answers (goto_definition).                            *)

(* Everything of a file but the bodies of its functions. *)
surface(t) == [imports |-> t.imports, interface |-> t.interface, analyzable |-> t.analyzable]

(* The files some edges lead to from f. *)
Reachable(edges, f) ==
    LET within[n \in Nat] ==
            IF n = 0 THEN edges[f]
              ELSE LET nearer == within[n - 1] IN nearer \cup UNION {edges[g] : g \in nearer}
    IN within[Cardinality(Files)]

(* The files the resolution of f's call consults: those its imports lead    *)
(* to, those its body names and those their imports lead to.                *)
consulted(text, f) ==
    LET imports == [g \in Files |-> text[g].imports]
        roots == {f} \cup text[f].paths
    IN roots \cup UNION {Reachable(imports, g) : g \in roots}

(* A resolution is what it was derived from. *)
resolve_call(text, f) ==
    <<text[f].body, {<<g, surface(text[g])>> : g \in consulted(text, f)}>>

(* The files with a call to resolve. *)
calling(text) == {f \in Files : text[f].analyzable /\ text[f].body # "empty"}

resolve_module_dependencies(text, f) == text[f].imports \ {f}

-----------------------------------------------------------------------------
(* Summaries and what they invalidate.                                      *)

(* PersistedFileAnalysis; a file that cannot be parsed has no symbols and   *)
(* its module hash is that of its bytes.                                    *)
file_analysis(text, f) ==
    IF text[f].analyzable
      THEN [analyzable |-> TRUE, module_hash |-> text[f].imports,
            symbols |-> {[interface |-> text[f].interface, body |-> text[f].body]},
            dependencies |-> resolve_module_dependencies(text, f)]
      ELSE [analyzable |-> FALSE, module_hash |-> text[f], symbols |-> {}, dependencies |-> {}]

(* The evidence of a symbol, which the code compares as well, stays the     *)
(* same here: a change of it can only affect more files.                    *)
symbol_interfaces_changed(before, after) ==
    {s.interface : s \in before.symbols} # {s.interface : s \in after.symbols}

bodies_changed(before, after) ==
    {s.body : s \in before.symbols} # {s.body : s \in after.symbols}

(* Mutant: only direct dependents are affected. *)
MutantDirectDependents(files, changed) ==
    {f \in Files : f \in changed \/ files[f].dependencies \cap changed # {}}

(* The changed files, what is strongly connected with them and everything   *)
(* that depends on those: all files from which a changed one is reached.    *)
affected_modules(files, changed) ==
    LET dependencies == [f \in Files |-> files[f].dependencies]
    IN {f \in Files : f \in changed \/ Reachable(dependencies, f) \cap changed # {}}

(* The resolutions that survive new summaries of some files.  Nothing does  *)
(* when there were none or a file was or is beyond the parser.              *)
retained_resolutions(resolutions, previous, files, updated) ==
    LET changed_modules == {f \in Files : \/ previous[f].module_hash # files[f].module_hash
                                          \/ symbol_interfaces_changed(previous[f], files[f])}
        invalidated == {f \in Files : bodies_changed(previous[f], files[f])}
                           \cup affected_modules(previous, changed_modules)
                           \cup affected_modules(files, changed_modules)
    IN IF \/ previous = <<>>
          \/ \E f \in updated : ~previous[f].analyzable \/ ~files[f].analyzable
         THEN {}
         ELSE {r \in resolutions : r[1] \notin invalidated}

(* update_file_analyses *)
update_file_analyses(compiler, text, updated) ==
    LET previous == compiler.files
        files == [f \in Files |-> IF f \in updated THEN file_analysis(text, f) ELSE previous[f]]
    IN IF updated = {} \/ files = previous
         THEN compiler
         ELSE [compiler EXCEPT !.files = files, !.cache_dirty = TRUE,
                   !.resolutions = retained_resolutions(@, previous, files, updated)]

-----------------------------------------------------------------------------
(* The workspace.                                                           *)

(* CompilerCargo::load starts from the persisted cache of the shape; every  *)
(* source is dirty and nothing is extracted.                                *)
load(snapshot, cache) ==
    [shape |-> snapshot.shape, sources |-> snapshot.text, dirty |-> Files, files |-> cache.files,
     resolutions |-> cache.resolutions, cache_dirty |-> FALSE]

(* A retained workspace of the same shape takes over the changed sources. *)
update(compiler, snapshot) ==
    [compiler EXCEPT
        !.sources = snapshot.text,
        !.dirty = @ \cup {f \in Files : compiler.sources[f] # snapshot.text[f]}]

prepare(compiler, snapshot, disk) ==
    IF compiler.shape = snapshot.shape
      THEN update(compiler, snapshot)
      ELSE load(snapshot, disk[snapshot.shape])

(* Dirty files are extracted and summarized; then every call takes its      *)
(* cached resolution or is resolved and cached.                             *)
enrich_repository(prepared) ==
    LET text == prepared.sources
        summarized == update_file_analyses([prepared EXCEPT !.dirty = {}], text, prepared.dirty)
        misses == {f \in calling(text) : \A r \in summarized.resolutions : r[1] # f}
    IN [summarized EXCEPT
           !.resolutions = @ \cup {<<f, resolve_call(text, f)>> : f \in misses},
           !.cache_dirty = @ \/ misses # {}]

(* The resolutions of the calls the snapshot has: the contribution. *)
contribution(compiler) ==
    {r \in compiler.resolutions : r[1] \in calling(compiler.sources)}

(* What an analysis without any cache contributes. *)
fresh_contribution(snapshot) ==
    {<<f, resolve_call(snapshot.text, f)>> : f \in calling(snapshot.text)}

persist_request(compiler) ==
    [shape |-> compiler.shape, cache |-> [files |-> compiler.files, resolutions |-> compiler.resolutions]]
=============================================================================
