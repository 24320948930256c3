--------------------------- MODULE DaemonLifecycle ---------------------------
(***************************************************************************)
(* The tasks of one daemon process and how they end: the operation gate,   *)
(* the producer, the job workers, the checkpoint thread, the garbage       *)
(* collection monitor and the collector threads, the shutdown that drains  *)
(* them before a deadline, and the daemon that is started next.            *)
(*                                                                         *)
(* Each step is what a thread does between two points where another can    *)
(* run: a read or write of an atomic flag, a critical section of the       *)
(* gate's mutex, a call that registers with or completes a Notify.  What   *)
(* the operations do to the store is reduced to the garbage they leave.    *)
(***************************************************************************)
EXTENDS Naturals, FiniteSets

CONSTANTS
    Runs,           \* index jobs that run at the same time
    Request,        \* a request of the RPC server that needs the gate
    Checkpointer,   \* the checkpoint thread
    Collectors,     \* threads that collect garbage
    Nobody,         \* no thread
    MaxEvents       \* bound on runs, requests, changes and failing steps

ASSUME DaemonLifecycleAssumption ==
    /\ IsFiniteSet(Runs) /\ IsFiniteSet(Collectors)
    /\ Nobody \notin Runs \cup Collectors \cup {Request, Checkpointer}
    /\ Runs \cap Collectors = {} /\ Request # Checkpointer
    /\ {Request, Checkpointer} \cap (Runs \cup Collectors) = {}
    /\ MaxEvents \in Nat

Users == Runs \cup Collectors \cup {Request, Checkpointer}

VARIABLES
    \* IndexScheduler
    stopping,       \* the flag stop sets
    shutdown,       \* permit of the shutdown Notify
    active,         \* active_operation: the user that holds the gate
    mutex,          \* the user between its check and its wait in begin
    checkpointing,  \* a checkpoint thread exists
    changed,        \* permit of the Notify the producer waits on
    requested,      \* permit of garbage_collection_requested
    \* tasks and threads
    main,           \* where run_daemon is
    stop_at,        \* stop_at[x]: where the call of stop by x is
    user,           \* user[u]: where the gate user u is
    producer,       \* where run_automatic is
    monitor,        \* where run_garbage_collection_monitor is
    trigger,        \* what woke the monitor
    running,        \* garbage_collector_running
    pending,        \* pending[g]: what collector g read at its end
    \* the store, the state directory and the next daemon
    obsolete,       \* repository states no revision uses
    claimed,        \* states queued for the sweep
    lock,           \* owner of the lock on beholderd.pid
    socket,         \* the process beholder.sock connects to
    next,           \* where the daemon that is started next is
    events          \* bounded counter

gate == <<active, mutex, user>>
flags == <<stopping, shutdown, checkpointing, changed, requested>>
tasks == <<main, stop_at, producer>>
collection == <<monitor, trigger, running, pending, obsolete, claimed>>
state_dir == <<lock, socket, next>>
vars == <<gate, flags, tasks, collection, state_dir, events>>

Draining == {"tasks", "checkpoint", "monitor"}
Over == {"exited", "killed"}

(* Every thread of the process ends with it.                                *)
Alive == main \notin Over

Event ==
    /\ events < MaxEvents
    /\ events' = events + 1

-----------------------------------------------------------------------------
(***************************************************************************)
(* begin, and the end of an operation.                                     *)
(***************************************************************************)
Move(u, to) == user' = [user EXCEPT ![u] = to]

(* The first check of begin, before the mutex.                              *)
begin(u) ==
    /\ user[u] = "begin"
    /\ Move(u, IF stopping THEN "refused" ELSE "lock")
    /\ UNCHANGED <<active, mutex, flags, tasks, collection, state_dir, events>>

(* With the mutex: the gate is taken, or stop was called, or the thread is  *)
(* about to wait.                                                           *)
begin_locked(u) ==
    /\ user[u] = "lock"
    /\ mutex = Nobody
    /\ \/ /\ active = Nobody
          /\ active' = u
          /\ Move(u, "holding")
          /\ UNCHANGED mutex
       \/ /\ active # Nobody /\ stopping
          /\ Move(u, "refused")
          /\ UNCHANGED <<active, mutex>>
       \/ /\ active # Nobody /\ ~stopping
          /\ mutex' = u
          /\ Move(u, "checked")
          /\ UNCHANGED active
    /\ UNCHANGED <<flags, tasks, collection, state_dir, events>>

(* Condvar::wait releases the mutex and waits, in one step.                 *)
begin_wait(u) ==
    /\ user[u] = "checked"
    /\ mutex' = Nobody
    /\ Move(u, "waiting")
    /\ UNCHANGED <<active, flags, tasks, collection, state_dir, events>>

Woken == [u \in Users |-> IF user[u] = "waiting" THEN "lock" ELSE user[u]]

(* Mutated form of released: the waiting threads are not notified.          *)
MutantReleaseSilently(u, to) ==
    /\ mutex = Nobody
    /\ active' = Nobody
    /\ user' = [user EXCEPT ![u] = to]
    /\ UNCHANGED mutex

(* ActiveOperation::drop                                                    *)
released(u, to) ==
    /\ mutex = Nobody
    /\ active' = Nobody
    /\ user' = [Woken EXCEPT ![u] = to]
    /\ UNCHANGED mutex

-----------------------------------------------------------------------------
(***************************************************************************)
(* stop, called by main and by a producer that fails.                      *)
(***************************************************************************)
stop_flag(x) ==
    /\ stop_at[x] = "flag"
    /\ stopping' = TRUE
    /\ stop_at' = [stop_at EXCEPT ![x] = "idle"]
    /\ UNCHANGED <<gate, shutdown, checkpointing, changed, requested, main,
                   producer, collection, state_dir, events>>

(* idle.notify_all, without the mutex: a thread that has checked the flag   *)
(* and does not wait yet misses it.                                         *)
stop_idle(x) ==
    /\ stop_at[x] = "idle"
    /\ user' = Woken
    /\ stop_at' = [stop_at EXCEPT ![x] = "notify"]
    /\ UNCHANGED <<active, mutex, flags, main, producer,
                   collection, state_dir, events>>

(* shutdown.notify_waiters reaches the tasks that are registered, and       *)
(* notify_one leaves a permit for the next that asks.                       *)
stop_notify(x) ==
    /\ stop_at[x] = "notify"
    /\ shutdown' = TRUE
    /\ producer' = IF producer = "wait" THEN "checkpoint"
                   ELSE IF x = "producer" THEN "failed" ELSE producer
    /\ monitor' = IF monitor = "select" THEN "done" ELSE monitor
    /\ stop_at' = [stop_at EXCEPT ![x] = "none"]
    /\ main' = IF x = "main" THEN "stop_workers" ELSE main
    /\ UNCHANGED <<gate, stopping, checkpointing, changed, requested, trigger,
                   running, pending, obsolete, claimed, state_dir, events>>

stop(x) == stop_flag(x) \/ stop_idle(x) \/ stop_notify(x)


-----------------------------------------------------------------------------
(***************************************************************************)
(* Jobs, requests and checkpoints.                                         *)
(***************************************************************************)
Admitting == main \in {"serving", "close_admission"}
WorkersRun == Admitting \/ main \in {"stop", "stop_workers"}

start_job(r) ==
    /\ WorkersRun
    /\ user[r] = "out"
    /\ Event
    /\ Move(r, "begin")
    /\ UNCHANGED <<active, mutex, flags, tasks, collection, state_dir>>

(* The run ends, with a publication that leaves states behind, or without.  *)
finish_job(r) ==
    /\ user[r] = "holding"
    /\ \/ released(r, "published") /\ obsolete' = TRUE
       \/ released(r, "out") /\ UNCHANGED obsolete
    /\ UNCHANGED <<flags, tasks, monitor, trigger, running, pending, claimed,
                   state_dir, events>>

refuse_job(r) ==
    /\ user[r] = "refused"
    /\ Move(r, "out")
    /\ UNCHANGED <<active, mutex, flags, tasks, collection, state_dir, events>>

(* schedule_checkpoint: the flag is read ...                                *)
schedule_checkpoint(r) ==
    /\ user[r] = "published"
    /\ Move(r, IF stopping THEN "out" ELSE "swap")
    /\ UNCHANGED <<active, mutex, flags, tasks, collection, state_dir, events>>

(* ... and checkpointing is swapped.                                        *)
swap_checkpointing(r) ==
    /\ user[r] = "swap"
    /\ checkpointing' = TRUE
    /\ user' = [user EXCEPT ![r] = "out",
                            ![Checkpointer] = IF checkpointing THEN @ ELSE "begin"]
    /\ UNCHANGED <<active, mutex, stopping, shutdown, changed, requested, tasks,
                   collection, state_dir, events>>

(* The checkpoint thread, with the gate or refused it.                      *)
checkpoint ==
    /\ \/ user[Checkpointer] = "holding" /\ released(Checkpointer, "flag")
       \/ /\ user[Checkpointer] = "refused"
          /\ Move(Checkpointer, "flag")
          /\ UNCHANGED <<active, mutex>>
    /\ UNCHANGED <<flags, tasks, collection, state_dir, events>>

checkpoint_done ==
    /\ user[Checkpointer] = "flag"
    /\ checkpointing' = FALSE
    /\ requested' = TRUE
    /\ Move(Checkpointer, "out")
    /\ UNCHANGED <<active, mutex, stopping, shutdown, changed, tasks,
                   collection, state_dir, events>>

(* delete_repository: states are claimed with the gate held, and collected  *)
(* by a thread this request starts, or by the one that runs already.        *)
start_request ==
    /\ WorkersRun
    /\ user[Request] = "out"
    /\ Event
    /\ Move(Request, "begin")
    /\ UNCHANGED <<active, mutex, flags, tasks, collection, state_dir>>

delete_repository ==
    /\ \/ /\ user[Request] = "holding"
          /\ released(Request, "start")
          /\ claimed' = TRUE
       \/ /\ user[Request] = "refused"
          /\ Move(Request, "out")
          /\ UNCHANGED <<active, mutex, claimed>>
    /\ UNCHANGED <<flags, tasks, monitor, trigger, running, pending, obsolete,
                   state_dir, events>>

-----------------------------------------------------------------------------
(***************************************************************************)
(* The producer.                                                           *)
(***************************************************************************)
change ==
    /\ Alive /\ ~changed
    /\ Event
    /\ changed' = TRUE
    /\ UNCHANGED <<gate, stopping, shutdown, checkpointing, requested, tasks,
                   collection, state_dir>>

(* run_automatic registers, or takes the permit; it does not read the flag. *)
producer_select ==
    /\ producer = "loop"
    /\ producer' = IF shutdown THEN "checkpoint" ELSE "wait"
    /\ shutdown' = FALSE
    /\ UNCHANGED <<gate, stopping, checkpointing, changed, requested, main,
                   stop_at, collection, state_dir, events>>

producer_changed ==
    /\ producer = "wait" /\ changed
    /\ changed' = FALSE
    /\ producer' = "enqueue"
    /\ UNCHANGED <<gate, stopping, shutdown, checkpointing, requested, main,
                   stop_at, collection, state_dir, events>>

(* enqueue_dirty: an error, of which a closed admission is one, ends the    *)
(* producer; it stops the scheduler unless that is stopping already.        *)
enqueue_dirty ==
    /\ producer = "enqueue"
    /\ \/ /\ Admitting \/ stopping
          /\ producer' = "loop"
          /\ UNCHANGED <<stop_at, events>>
       \/ /\ \/ ~Admitting /\ UNCHANGED events
             \/ Event
          /\ IF stopping
             THEN producer' = "checkpoint" /\ UNCHANGED stop_at
             ELSE /\ producer' = "stop"
                  /\ stop_at' = [stop_at EXCEPT !["producer"] = "flag"]
    /\ UNCHANGED <<gate, flags, main, collection, state_dir>>

producer_checkpoint ==
    /\ producer = "checkpoint"
    /\ ~checkpointing
    /\ producer' = "done"
    /\ UNCHANGED <<gate, flags, main, stop_at, collection,
                   state_dir, events>>

-----------------------------------------------------------------------------
(***************************************************************************)
(* Garbage collection: the monitor and the collector threads.              *)
(***************************************************************************)
(* The trigger matters until collect_garbage has read it.                   *)
MonitorTo(pc) ==
    /\ monitor' = pc
    /\ trigger' = IF pc = "collect" THEN trigger ELSE "none"

(* wait_for_stop after stop: a permit is taken by it.                       *)
monitor_stop ==
    /\ stopping
    /\ monitor \in {"loop", "busy"}
    /\ monitor = "busy" => running
    /\ MonitorTo("done")
    /\ shutdown' \in {shutdown, FALSE}
    /\ UNCHANGED <<gate, stopping, checkpointing, changed, requested, tasks,
                   running, pending, obsolete, claimed, state_dir,
                   events>>

monitor_select ==
    /\ monitor = "loop" /\ ~stopping
    /\ MonitorTo("select")
    /\ UNCHANGED <<gate, flags, tasks, running, pending, obsolete,
                   claimed, state_dir, events>>

(* The interval, or a publication.                                          *)
monitor_triggered ==
    /\ monitor \in {"loop", "select"}
    /\ \E by \in {"automatic_recovery", "publication"} :
          /\ by = "publication" => requested
          /\ requested' = (requested /\ by # "publication")
          /\ monitor' = IF stopping THEN "done" ELSE "busy"
          /\ trigger' = IF stopping THEN "none" ELSE by
    /\ UNCHANGED <<gate, stopping, shutdown, checkpointing, changed, tasks,
                   running, pending, obsolete, claimed, state_dir, events>>

(* The monitor waits for the collector before it starts another.            *)
monitor_idle ==
    /\ monitor = "busy" /\ ~running
    /\ MonitorTo(IF stopping THEN "done" ELSE "collect")
    /\ UNCHANGED <<gate, flags, tasks, running, pending, obsolete,
                   claimed, state_dir, events>>

(* Mutated form of collect_garbage: what is claimed already does not count. *)
MutantRecoverCandidatesOnly ==
    /\ monitor = "collect"
    /\ requested' = (requested \/ running)
    /\ MonitorTo(IF running \/ (trigger = "automatic_recovery" /\ ~obsolete)
                 THEN "loop" ELSE "claim")
    /\ UNCHANGED <<gate, stopping, shutdown, checkpointing, changed, tasks,
                   running, pending, obsolete, claimed, state_dir,
                   events>>

(* collect_garbage up to the claim.                                         *)
collect_garbage ==
    /\ monitor = "collect"
    /\ requested' = (requested \/ running)
    /\ MonitorTo(IF running \/ (trigger = "automatic_recovery"
                                /\ ~obsolete /\ ~claimed)
                 THEN "loop" ELSE "claim")
    /\ UNCHANGED <<gate, stopping, shutdown, checkpointing, changed, tasks,
                   running, pending, obsolete, claimed, state_dir,
                   events>>

garbage_collect ==
    /\ monitor = "claim"
    /\ \/ /\ claimed' = (claimed \/ obsolete)
          /\ obsolete' = FALSE
          /\ MonitorTo("start")
          /\ UNCHANGED events
       \/ /\ Event
          /\ MonitorTo("loop")
          /\ UNCHANGED <<claimed, obsolete>>
    /\ UNCHANGED <<gate, flags, tasks, running, pending, state_dir>>

(* A thread that is not in use yet.                                         *)
Spawned(others) ==
    [others EXCEPT ![CHOOSE g \in Collectors : others[g] = "out"] = "sweep"]

(* Mutated form of claim_running: the flag is stored, not exchanged.        *)
MutantStoreRunning(others) ==
    /\ running' = TRUE
    /\ user' = Spawned(others)

(* start_garbage_collector: compare_exchange, and a thread if it succeeds.  *)
(* Collectors bounds the threads there are at the same time.                *)
claim_running(others) ==
    /\ running \/ \E g \in Collectors : others[g] = "out"
    /\ running' = TRUE
    /\ user' = IF running THEN others ELSE Spawned(others)

start_garbage_collector ==
    /\ \/ monitor = "start" /\ MonitorTo("loop") /\ claim_running(user)
       \/ /\ user[Request] = "start"
          /\ claim_running([user EXCEPT ![Request] = "out"])
          /\ UNCHANGED <<monitor, trigger>>
    /\ UNCHANGED <<active, mutex, flags, tasks, pending, obsolete,
                   claimed, state_dir, events>>

(* The thread: the sweep, which stop interrupts, ...                        *)
sweep(g) ==
    /\ user[g] = "sweep"
    /\ \/ /\ claimed' = (claimed /\ stopping)
          /\ Move(g, IF stopping THEN "end" ELSE "reclaim")
          /\ UNCHANGED events
       \/ /\ claimed
          /\ Event
          /\ Move(g, "end")
          /\ UNCHANGED claimed
    /\ UNCHANGED <<active, mutex, flags, tasks, monitor, trigger, running,
                   pending, obsolete, state_dir>>

(* ... the pages, if there are any to reclaim, ...                          *)
reclaim(g) ==
    /\ \/ user[g] = "reclaim" /\ ~stopping /\ Move(g, "begin")
                              /\ UNCHANGED <<active, mutex>>
       \/ user[g] \in {"reclaim", "refused"} /\ Move(g, "end")
                              /\ UNCHANGED <<active, mutex>>
       \/ user[g] = "holding" /\ released(g, "end")
    /\ UNCHANGED <<flags, tasks, collection, state_dir, events>>

(* ... and the end: what is pending is read, then running is cleared.       *)
read_pending(g) ==
    /\ user[g] = "end"
    /\ pending' = [pending EXCEPT ![g] = claimed]
    /\ Move(g, "clear")
    /\ UNCHANGED <<active, mutex, flags, tasks, monitor, trigger, running,
                   obsolete, claimed, state_dir, events>>

clear_running(g) ==
    /\ user[g] = "clear"
    /\ running' = FALSE
    /\ Move(g, IF pending[g] THEN "restart" ELSE "out")
    /\ UNCHANGED <<active, mutex, flags, tasks, monitor, trigger, pending,
                   obsolete, claimed, state_dir, events>>

restart_collector(g) ==
    /\ user[g] = "restart"
    /\ IF stopping THEN Move(g, "out") /\ UNCHANGED running
       ELSE claim_running([user EXCEPT ![g] = "out"])
    /\ pending' = [pending EXCEPT ![g] = FALSE]
    /\ UNCHANGED <<active, mutex, flags, tasks, monitor, trigger, obsolete,
                   claimed, state_dir, events>>

-----------------------------------------------------------------------------
(***************************************************************************)
(* run_daemon, from the shutdown signal or the exit of a task on, and the  *)
(* daemon that is started after it.                                        *)
(***************************************************************************)
MainTo(from, to) ==
    /\ main = from
    /\ main' = to
    /\ UNCHANGED <<gate, flags, producer, collection, events>>

shutdown_signal ==
    /\ MainTo("serving", "close_admission")
    /\ UNCHANGED <<stop_at, state_dir>>

close_admission ==
    /\ MainTo("close_admission", "stop")
    /\ stop_at' = [stop_at EXCEPT !["main"] = "flag"]
    /\ UNCHANGED state_dir

(* The workers' contexts and the server are told to stop.                   *)
stop_workers ==
    /\ MainTo("stop_workers", "tasks")
    /\ UNCHANGED <<stop_at, state_dir>>

(* The server, the producer and the job workers, which stay finished.       *)
TasksFinished ==
    /\ user[Request] = "out"
    /\ producer \in {"done", "failed"}
    /\ \A r \in Runs : user[r] = "out"

(* Mutated form of drain: the checkpoint is waited for before the tasks.    *)
MutantDrainCheckpointFirst ==
    /\ \/ ~checkpointing /\ MainTo("tasks", "checkpoint")
       \/ TasksFinished /\ MainTo("checkpoint", "monitor")
       \/ monitor = "done" /\ MainTo("monitor", "drained")
    /\ UNCHANGED <<stop_at, state_dir>>

drain ==
    /\ \/ TasksFinished /\ MainTo("tasks", "checkpoint")
       \/ ~checkpointing /\ MainTo("checkpoint", "monitor")
       \/ monitor = "done" /\ MainTo("monitor", "drained")
    /\ UNCHANGED <<stop_at, state_dir>>

(* The process is gone: what its threads were doing, and what it had in     *)
(* memory, is forgotten.  Between the lock's release and the end of main a  *)
(* detached thread may take further steps; that moment is not represented.  *)
Gone(how) ==
    /\ main' = how
    /\ lock' = "none"
    /\ active' = Nobody /\ mutex' = Nobody
    /\ user' = [u \in Users |-> "out"]
    /\ stopping' = TRUE /\ shutdown' = FALSE /\ checkpointing' = FALSE
    /\ changed' = FALSE /\ requested' = FALSE
    /\ stop_at' = [x \in {"main", "producer"} |-> "none"]
    /\ producer' = "done"
    /\ monitor' = "done" /\ trigger' = "none"
    /\ running' = FALSE /\ pending' = [g \in Collectors |-> FALSE]
    /\ UNCHANGED <<obsolete, claimed, next, events>>

(* Mutated form of deadline: the drain has no deadline.                     *)
MutantNoDeadline == FALSE /\ UNCHANGED vars

(* timeout_at: exit without a destructor.  The lock goes with the process,  *)
(* the socket file stays.                                                   *)
deadline ==
    /\ main \in Draining
    /\ Gone("killed")
    /\ UNCHANGED socket

(* Mutated form of drop_socket: the lock is released first, and only then   *)
(* the file is removed.                                                     *)
MutantDropLockFirst ==
    \/ /\ MainTo("drained", "unlinked")
       /\ lock' = "none"
       /\ UNCHANGED <<stop_at, socket, next>>
    \/ /\ MainTo("unlinked", "unlinked")
       /\ socket # "none" /\ socket' = "none"
       /\ UNCHANGED <<stop_at, lock, next>>

(* The values of run_daemon are dropped last to first: SocketFile, which    *)
(* removes the file, ...                                                    *)
drop_socket ==
    /\ MainTo("drained", "unlinked")
    /\ socket' = "none"
    /\ UNCHANGED <<stop_at, lock, next>>

(* ... and then DaemonLock.                                                 *)
drop_lock ==
    /\ main = "unlinked"
    /\ Gone("exited")
    /\ UNCHANGED socket

(* single_instance::acquire and bind_socket, of the daemon started next: it *)
(* gives up when the lock is taken.                                         *)
acquire ==
    /\ next = "absent" /\ lock = "none"
    /\ lock' = "next"
    /\ next' = "locked"
    /\ UNCHANGED <<gate, flags, tasks, collection, socket, events>>

bind_socket ==
    /\ next = "locked"
    /\ socket' = "next"
    /\ next' = "serving"
    /\ UNCHANGED <<gate, flags, tasks, collection, lock, events>>

-----------------------------------------------------------------------------
Init ==
    /\ active = Nobody /\ mutex = Nobody
    /\ user = [u \in Users |-> "out"]
    /\ stopping = FALSE /\ shutdown = FALSE /\ checkpointing = FALSE
    /\ changed = FALSE /\ requested = FALSE
    /\ main = "serving"
    /\ stop_at = [x \in {"main", "producer"} |-> "none"]
    /\ producer = "loop"
    /\ monitor = "loop" /\ trigger = "none"
    /\ running = FALSE /\ pending = [g \in Collectors |-> FALSE]
    /\ obsolete = FALSE /\ claimed = FALSE
    /\ lock = "daemon" /\ socket = "daemon" /\ next = "absent"
    /\ events = 0

Gate(u) == begin(u) \/ begin_locked(u) \/ begin_wait(u)

Job(r) ==
    \/ Gate(r) \/ finish_job(r) \/ refuse_job(r)
    \/ schedule_checkpoint(r) \/ swap_checkpointing(r)

Checkpoint == Gate(Checkpointer) \/ checkpoint \/ checkpoint_done

Serve == Gate(Request) \/ delete_repository

Producer == \/ producer_select \/ producer_changed \/ enqueue_dirty
            \/ producer_checkpoint \/ stop("producer")

Monitor == \/ monitor_stop \/ monitor_select \/ monitor_triggered
           \/ monitor_idle \/ collect_garbage \/ garbage_collect

Collect(g) == \/ Gate(g) \/ sweep(g) \/ reclaim(g) \/ read_pending(g)
              \/ clear_running(g) \/ restart_collector(g)

Main == \/ close_admission \/ stop("main") \/ stop_workers
        \/ drain \/ drop_socket \/ drop_lock

Environment ==
    \/ change \/ start_request
    \/ \E r \in Runs : start_job(r)

Next ==
    \/ /\ Alive
       /\ \/ Environment \/ shutdown_signal
          \/ \E r \in Runs : Job(r)
          \/ Checkpoint \/ Serve \/ Producer \/ Monitor
          \/ start_garbage_collector
          \/ \E g \in Collectors : Collect(g)
          \/ Main \/ deadline
    \/ acquire \/ bind_socket

(* The threads of a living process are scheduled, the interval elapses and  *)
(* so does the deadline.  Nobody has to ask for a shutdown, except after a  *)
(* task exited.                                                             *)
Fairness ==
    /\ WF_vars(Alive /\ \E r \in Runs : Job(r))
    /\ WF_vars(Alive /\ Checkpoint)
    /\ WF_vars(Alive /\ Serve)
    /\ WF_vars(Alive /\ Producer)
    /\ WF_vars(Alive /\ Monitor)
    /\ WF_vars(Alive /\ start_garbage_collector)
    /\ WF_vars(Alive /\ \E g \in Collectors : Collect(g))
    /\ WF_vars(Alive /\ Main)
    /\ WF_vars(Alive /\ deadline)
    /\ WF_vars(Alive /\ producer = "failed" /\ shutdown_signal)

Spec == Init /\ [][Next]_vars /\ Fairness

-----------------------------------------------------------------------------
(* The variables have their types; one user holds the gate, and it is the   *)
(* one active_operation names; one user is between its check and its wait.  *)
TypeOK ==
    /\ {stopping, shutdown, checkpointing, changed, requested,
        running, obsolete, claimed} \subseteq BOOLEAN
    /\ active \in Users \cup {Nobody} /\ mutex \in Users \cup {Nobody}
    /\ user \in [Users -> {"out", "begin", "lock", "checked", "waiting",
                           "holding", "refused", "published", "swap", "flag",
                           "start", "sweep", "reclaim", "end", "clear",
                           "restart"}]
    /\ main \in Draining \cup Over \cup {"serving", "close_admission", "stop",
                           "stop_workers", "drained", "unlinked"}
    /\ producer \in {"loop", "wait", "enqueue", "stop", "checkpoint", "done",
                     "failed"}
    /\ monitor \in {"loop", "select", "busy", "collect", "claim", "start",
                    "done"}
    /\ pending \in [Collectors -> BOOLEAN]
    /\ \A u \in Users : /\ user[u] = "holding" <=> active = u
                        /\ user[u] = "checked" <=> mutex = u
    /\ events \in 0..MaxEvents

(* A shutdown that did not hit its deadline cut nothing off: no job, no     *)
(* request, no checkpoint and no task of the daemon is left, whatever was   *)
(* started while stop was on its way.                                       *)
CleanExitIsQuiet ==
    main \in {"drained", "unlinked", "exited"} =>
        /\ \A u \in Runs \cup {Request, Checkpointer} : user[u] = "out"
        /\ ~checkpointing
        /\ producer \in {"done", "failed"} /\ monitor = "done"

(* At most one thread collects garbage, whoever starts or restarts it.      *)
OneCollector ==
    Cardinality({g \in Collectors : user[g] \notin {"out", "restart"}}) <= 1

(* The socket of the daemon started next is never removed by the one that   *)
(* goes, and the two never serve at the same time.                          *)
NextKeepsItsSocket ==
    /\ next = "serving" => socket = "next"
    /\ next # "absent" => ~Alive

(* A shutdown ends.  The deadline is needed for it: the one permit stop     *)
(* leaves may be taken by a task that did not need it, and the producer,    *)
(* which does not read the flag, waits for good.                            *)
ShutdownEnds == []<>(main = "serving" \/ ~Alive)

(* A thread that waits for the gate is woken up, although stop notifies     *)
(* without the mutex.                                                       *)
WaitersAreWoken == []<>(\A u \in Users : user[u] # "waiting")

(* Obsolete states are swept unless the daemon stops, although a collector  *)
(* reads what is pending before it clears its flag, and a claim in between  *)
(* starts nobody.                                                           *)
GarbageIsSwept == []<>((~obsolete /\ ~claimed) \/ stopping)
=============================================================================
