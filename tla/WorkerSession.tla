---------------------------- MODULE WorkerSession ----------------------------
(***************************************************************************)
(* One compiler worker of the daemon: the session the client keeps          *)
(* (crates/worker-client/src/lib.rs), the worker process with its analyses  *)
(* and its compiler workspace (crates/worker-rust/src/lib.rs), the stream   *)
(* of the analyzer protocol between them (crates/protocol/src/worker.rs)    *)
(* and the memory guard (crates/worker-client/src/process_memory.rs).       *)
(*                                                                         *)
(* The client serializes its calls by the session lock.  A call that times  *)
(* out leaves its analysis running in the worker, where the next call finds *)
(* it; a worker may die, or be killed by the guard, at any moment.  An      *)
(* analysis holds the compiler lock from the preparation of the workspace   *)
(* to the scheduling of the cache, so it is one step.                       *)
(***************************************************************************)
EXTENDS RustCompiler

CONSTANTS
    Order,          \* file -> its place in the stream of a contribution
    MaxCalls,       \* bound: calls of enrich
    MaxProcesses,   \* bound: workers spawned
    MaxFaults       \* bound: deaths, limits exceeded and failed steps

ASSUME BoundsAssumption == MaxCalls \in Nat /\ MaxProcesses \in Nat /\ MaxFaults \in Nat

Calls == 1..MaxCalls
Processes == 1..MaxProcesses
NoProcess == 0
NoSnapshot == [shape |-> "none"]
Poisoned == [shape |-> "poisoned"]
Unavailable == {<<"rust.semantic_resolution_unavailable", {}>>}

VARIABLES
    persistent,  \* the builder's choice: keep the worker between analyses
    session,     \* process of the kept session, or NoProcess
    call,        \* the call holding the session lock: pc, process, snapshot
    calls,       \* calls made
    processes,   \* process -> status, compiler, pending cache, exceeded
    analyses,    \* call number -> the analysis the worker runs for it
    received,    \* chunks accumulated by the call, and whether completed
    disk,        \* shape -> the cache file
    answer,      \* the contribution the last call returned and its snapshot
    faults

vars == <<persistent, session, call, calls, processes, analyses, received, disk, answer, faults>>

NoCall == [pc |-> "idle", process |-> NoProcess, snapshot |-> NoSnapshot]
NoAnalysis == [pc |-> "none", process |-> NoProcess, snapshot |-> NoSnapshot, open |-> FALSE,
               chunks |-> {}]
Down == [status |-> "down", compiler |-> NoCompiler, pending |-> NoCompiler, exceeded |-> FALSE]
Unused == [Down EXCEPT !.status = "unused"]
Ended == [NoAnalysis EXCEPT !.pc = "done"]
Nothing == [chunks |-> {}, completed |-> FALSE]
NoAnswer == [snapshot |-> NoSnapshot, contribution |-> {}]

Init ==
    /\ persistent \in BOOLEAN
    /\ session = NoProcess
    /\ call = NoCall
    /\ calls = 0
    /\ processes = [p \in Processes |-> Unused]
    /\ analyses = [c \in Calls |-> NoAnalysis]
    /\ received = Nothing
    /\ disk = [k \in Shapes |-> NoCache]
    /\ answer = NoAnswer
    /\ faults = 0

Fault == faults < MaxFaults /\ faults' = faults + 1

up(p) == p # NoProcess /\ processes[p].status \in {"spawned", "listening"}
exceeded(p) == p # NoProcess /\ processes[p].exceeded

(* The analyses of a dead process end with it. *)
end_analyses(p) ==
    analyses' = [c \in Calls |-> IF analyses[c].process = p THEN Ended ELSE analyses[c]]

kill(p) ==
    /\ processes' = [processes EXCEPT ![p] = Down]
    /\ end_analyses(p)

-----------------------------------------------------------------------------
(* The client: enrich and start_session.                                    *)

(* Send the snapshot to process p; the worker sees it as a new analysis. *)
request(p, s) ==
    /\ calls' = calls + 1
    /\ call' = [pc |-> "streaming", process |-> p, snapshot |-> s]
    /\ analyses' = [analyses EXCEPT ![calls + 1] =
                        [NoAnalysis EXCEPT !.pc = "received", !.process = p, !.snapshot = s, !.open = TRUE]]
    /\ answer' = NoAnswer

(* The call returns: the lock and what was accumulated are given up. *)
return == call' = NoCall /\ received' = Nothing

(* A session whose worker is still running is used again, whatever became   *)
(* of its last analysis.                                                    *)
enrich(s) ==
    /\ call.pc = "idle" /\ calls < MaxCalls
    /\ up(session)
    /\ request(session, s)
    /\ UNCHANGED <<persistent, session, processes, received, disk, faults>>

(* Otherwise a new worker is spawned, with its memory guard. *)
start_session ==
    /\ call.pc = "idle" /\ calls < MaxCalls
    /\ ~up(session)
    /\ session' = NoProcess
    /\ \E p \in Processes :
           /\ processes[p].status = "unused"
           /\ \A q \in Processes : processes[q].status = "unused" => p <= q
           /\ processes' = [processes EXCEPT ![p] = [Down EXCEPT !.status = "spawned"]]
           /\ call' = [NoCall EXCEPT !.pc = "starting", !.process = p]
    /\ UNCHANGED <<persistent, calls, analyses, received, disk, answer, faults>>

connect(s) ==
    /\ call.pc = "starting"
    /\ processes[call.process].status = "listening" /\ ~exceeded(call.process)
    /\ session' = call.process
    /\ request(call.process, s)
    /\ UNCHANGED <<persistent, processes, received, disk, faults>>

(* Mutant: the child that never listened is left running. *)
MutantConnectFailsQuietly ==
    /\ call.pc = "starting"
    /\ processes[call.process].status # "listening" /\ ~exceeded(call.process)
    /\ return
    /\ UNCHANGED <<persistent, session, calls, processes, analyses, disk, answer, faults>>

(* The worker exited before readiness or the connection timed out: the      *)
(* child is dropped, which kills it.                                        *)
connect_fails ==
    /\ call.pc = "starting"
    /\ processes[call.process].status # "listening" /\ ~exceeded(call.process)
    /\ return
    /\ kill(call.process)
    /\ UNCHANGED <<persistent, session, calls, disk, answer, faults>>

(* The guard's event wins over everything the worker has sent: the process  *)
(* group is killed and the call fails.                                      *)
terminate_for_memory_event ==
    /\ call.pc # "idle" /\ exceeded(call.process)
    /\ return
    /\ kill(call.process)
    /\ UNCHANGED <<persistent, session, calls, disk, answer, faults>>

(* The stream of the current call; chunks arrive in the order of their      *)
(* files.                                                                   *)
stream == analyses[calls]
position(chunk) == IF chunk \in Unavailable THEN 0 ELSE Order[chunk[1]]

(* ContributionAccumulator::push of a repository chunk. *)
receive ==
    /\ call.pc = "streaming" /\ ~exceeded(call.process)
    /\ stream.pc = "sending"
    /\ \E r \in stream.chunks :
           /\ \A q \in stream.chunks : position(r) <= position(q)
           /\ received' = [received EXCEPT !.chunks = @ \cup {r}]
           /\ analyses' = [analyses EXCEPT ![calls].chunks = @ \ {r}]
    /\ UNCHANGED <<persistent, session, call, calls, processes, disk, answer, faults>>

(* The completion is the last event. *)
receive_completed ==
    /\ call.pc = "streaming" /\ ~exceeded(call.process)
    /\ stream.pc = "sending" /\ stream.chunks = {} /\ ~received.completed
    /\ received' = [received EXCEPT !.completed = TRUE]
    /\ analyses' = [analyses EXCEPT ![calls] = Ended]
    /\ UNCHANGED <<persistent, session, call, calls, processes, disk, answer, faults>>

(* The stream has ended: without its completion the contribution is        *)
(* refused, and so is everything after the guard has spoken.  A complete    *)
(* one is refused as well when its analyzer, its overrides or what a plugin *)
(* added do not fit the request.  A worker that is not kept is killed once  *)
(* its contribution is accepted.                                            *)
finish ==
    /\ call.pc = "streaming" /\ ~exceeded(call.process)
    /\ stream.pc = "done"
    /\ return
    /\ \E accepted \in {received.completed, FALSE} :
         /\ IF accepted
              THEN answer' = [snapshot |-> call.snapshot, contribution |-> received.chunks]
              ELSE UNCHANGED answer
         /\ IF accepted /\ ~persistent
              THEN session' = NoProcess /\ kill(call.process)
              ELSE UNCHANGED <<session, processes, analyses>>
    /\ UNCHANGED <<persistent, calls, disk, faults>>

(* Mutant: the inactivity timeout covers the request, not its events. *)
MutantTimeoutOfRequest ==
    /\ call.pc = "streaming" /\ ~exceeded(call.process)
    /\ stream.pc = "received"
    /\ return
    /\ analyses' = [analyses EXCEPT ![calls].open = FALSE]
    /\ UNCHANGED <<persistent, session, calls, processes, disk, answer, faults>>

(* No event for too long: the call fails, its stream is dropped and the     *)
(* session stays.  Only an analysis that was already sending notices.       *)
inactivity_timeout ==
    /\ call.pc = "streaming" /\ ~exceeded(call.process)
    /\ stream.pc \in {"received", "analyzing", "sending"}
    /\ return
    /\ analyses' = [analyses EXCEPT ![calls] =
                        IF @.pc = "sending" THEN Ended ELSE [@ EXCEPT !.open = FALSE]]
    /\ UNCHANGED <<persistent, session, calls, processes, disk, answer, faults>>

-----------------------------------------------------------------------------
(* The worker.                                                              *)

serve(p) ==
    /\ processes[p].status = "spawned"
    /\ processes' = [processes EXCEPT ![p].status = "listening"]
    /\ UNCHANGED <<persistent, session, call, calls, analyses, received, disk, answer, faults>>

(* Progress cannot be sent on a dropped stream: the analysis is given up.   *)
(* Afterwards nothing stops it.                                             *)
analyze(c) ==
    /\ analyses[c].pc = "received"
    /\ analyses' = [analyses EXCEPT ![c] = IF @.open THEN [@ EXCEPT !.pc = "analyzing"] ELSE Ended]
    /\ UNCHANGED <<persistent, session, call, calls, processes, received, disk, answer, faults>>

(* The result of an analysis is streamed unless nobody listens. *)
send(c, chunks) ==
    analyses' = [analyses EXCEPT ![c] =
                     IF @.open THEN [@ EXCEPT !.pc = "sending", !.chunks = chunks] ELSE Ended]

(* enrich_semantics: the workspace is prepared, the calls are resolved and  *)
(* the changed cache is left to the writer thread, which keeps one request. *)
enrich_semantics(c) ==
    LET p == analyses[c].process
        enriched == enrich_repository(prepare(processes[p].compiler, analyses[c].snapshot, disk))
    IN /\ analyses[c].pc = "analyzing" /\ processes[p].compiler # Poisoned
       /\ processes' = [processes EXCEPT
              ![p].compiler = [enriched EXCEPT !.cache_dirty = FALSE],
              ![p].pending = IF enriched.cache_dirty THEN persist_request(enriched) ELSE @]
       /\ send(c, contribution(enriched))
       /\ UNCHANGED <<persistent, session, call, calls, received, disk, answer, faults>>

(* The sources were changed under the compiler: the results are kept but    *)
(* neither contributed nor persisted, and a diagnostic is sent instead.     *)
verification_fails(c) ==
    LET p == analyses[c].process
        enriched == enrich_repository(prepare(processes[p].compiler, analyses[c].snapshot, disk))
    IN /\ analyses[c].pc = "analyzing" /\ processes[p].compiler # Poisoned
       /\ Fault
       /\ processes' = [processes EXCEPT ![p].compiler = enriched]
       /\ send(c, Unavailable)
       /\ UNCHANGED <<persistent, session, call, calls, received, disk, answer>>

(* The workspace cannot be loaded or its files not be written: it stays.    *)
(* After a panic the lock is poisoned and every analysis ends like this.    *)
(* An error halfway, with some sources noted or some files extracted and    *)
(* the compiler not told, is not represented: it takes a source that is not *)
(* UTF-8 or a query the compiler refuses, and the baseline analyzer has     *)
(* read the same sources before.                                            *)
preparation_fails(c) ==
    /\ analyses[c].pc = "analyzing"
    /\ IF processes[analyses[c].process].compiler = Poisoned THEN UNCHANGED faults ELSE Fault
    /\ send(c, Unavailable)
    /\ UNCHANGED <<persistent, session, call, calls, processes, received, disk, answer>>

(* The compiler panics: the stream ends with an error, and the lock the     *)
(* analysis held is poisoned.                                               *)
panic(c) ==
    /\ analyses[c].pc = "analyzing" /\ processes[analyses[c].process].compiler # Poisoned
    /\ Fault
    /\ processes' = [processes EXCEPT ![analyses[c].process].compiler = Poisoned]
    /\ analyses' = [analyses EXCEPT ![c] = Ended]
    /\ UNCHANGED <<persistent, session, call, calls, received, disk, answer>>

(* The writer thread replaces the cache file of a shape, or fails to. *)
persist_resolution_cache(p) ==
    LET scheduled == processes[p].pending
    IN /\ scheduled # NoCompiler
       /\ processes' = [processes EXCEPT ![p].pending = NoCompiler]
       /\ \/ disk' = [disk EXCEPT ![scheduled.shape] = scheduled.cache] /\ UNCHANGED faults
          \/ Fault /\ UNCHANGED disk
       /\ UNCHANGED <<persistent, session, call, calls, analyses, received, answer>>

-----------------------------------------------------------------------------
(* What happens to processes.                                               *)

(* A worker dies.  What its guard has seen it still reports. *)
die(p) ==
    /\ up(p)
    /\ Fault
    /\ processes' = [processes EXCEPT ![p] = [Down EXCEPT !.exceeded = exceeded(p)]]
    /\ end_analyses(p)
    /\ UNCHANGED <<persistent, session, call, calls, received, disk, answer>>

(* The sampler finds the process group over its limit, or cannot tell. *)
sample(p) ==
    /\ up(p) /\ ~exceeded(p)
    /\ Fault
    /\ processes' = [processes EXCEPT ![p].exceeded = TRUE]
    /\ UNCHANGED <<persistent, session, call, calls, analyses, received, disk, answer>>

Client ==
    \/ \E s \in Snapshots : enrich(s) \/ connect(s)
    \/ start_session
    \/ connect_fails
    \/ terminate_for_memory_event
    \/ receive
    \/ receive_completed
    \/ finish
    \/ inactivity_timeout

Worker ==
    \/ \E p \in Processes : serve(p) \/ persist_resolution_cache(p)
    \/ \E c \in Calls : analyze(c) \/ enrich_semantics(c) \/ verification_fails(c)
                          \/ preparation_fails(c) \/ panic(c)

Next ==
    \/ Client
    \/ Worker
    \/ \E p \in Processes : die(p) \/ sample(p)

Spec == Init /\ [][Next]_vars

(* The task that made a call runs, and so do its timers; nothing is assumed *)
(* of the worker.                                                           *)
Proceed ==
    connect_fails \/ terminate_for_memory_event \/ receive \/ receive_completed \/ finish
        \/ inactivity_timeout \/ \E s \in Snapshots : connect(s)

FairSpec == Spec /\ WF_vars(Proceed)

-----------------------------------------------------------------------------
(* Properties.                                                              *)

(* The shape of the state; an idle client holds nothing of its last call.   *)
TypeOK ==
    /\ persistent \in BOOLEAN
    /\ session \in {NoProcess} \cup Processes
    /\ call.pc \in {"idle", "starting", "streaming"}
    /\ call.process \in {NoProcess} \cup Processes
    /\ call.pc = "idle" <=> call = NoCall
    /\ calls \in 0..MaxCalls
    /\ \A p \in Processes : processes[p].status \in {"unused", "spawned", "listening", "down"}
    /\ \A c \in Calls : analyses[c].pc \in {"none", "received", "analyzing", "sending", "done"}
    /\ received.completed \in BOOLEAN
    /\ faults \in 0..MaxFaults

(* The part of a contribution about calls that name only what their file    *)
(* imports, through files that can be parsed.  A call by a path that no use *)
(* declaration brings in is no edge of the module graph, and a file beyond  *)
(* the parser has none, so the cache may keep what these resolved to.       *)
imported_calls(contributed, snapshot) ==
    {r \in contributed :
        /\ snapshot.text[r[1]].paths = {}
        /\ \A g \in consulted(snapshot.text, r[1]) : snapshot.text[g].analyzable}

(* A contribution the client accepts is whole and says of every imported    *)
(* call what the compiler would say from scratch, whatever was analyzed     *)
(* before, abandoned, cut off or taken from a cache file: the invalidation  *)
(* of update_file_analyses forgets every such resolution a change reaches.  *)
AnswersAreCurrent ==
    LET fresh == fresh_contribution(answer.snapshot)
    IN \/ answer = NoAnswer
       \/ answer.contribution = Unavailable
       \/ /\ imported_calls(answer.contribution, answer.snapshot) = imported_calls(fresh, answer.snapshot)
          /\ {r[1] : r \in answer.contribution} = {r[1] : r \in fresh}

(* A worker that runs is the session's or is being started, so no two       *)
(* workers share the cache directory and none outlives its last user.       *)
WorkersAreOwned ==
    \A p \in Processes : up(p) => p = session \/ (call.pc = "starting" /\ p = call.process)

(* Every call of enrich returns, even if its worker hangs, dies or is never *)
(* ready.                                                                   *)
CallsReturn == call.pc # "idle" ~> call.pc = "idle"
=============================================================================
