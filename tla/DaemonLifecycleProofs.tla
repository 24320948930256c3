------------------------ MODULE DaemonLifecycleProofs ------------------------
(***************************************************************************)
(* Proofs about DaemonLifecycle, for any numbers of jobs, collector        *)
(* threads and events.                                                     *)
(***************************************************************************)
EXTENDS DaemonLifecycle, FiniteSetTheorems, TLAPS

Places == {"out", "begin", "lock", "checked", "waiting", "holding", "refused",
           "published", "swap", "flag", "start", "sweep", "reclaim", "end",
           "clear", "restart"}

(* The flags.                                                               *)
FlagsTyped ==
    /\ stopping \in BOOLEAN /\ shutdown \in BOOLEAN /\ checkpointing \in BOOLEAN
    /\ changed \in BOOLEAN /\ requested \in BOOLEAN /\ running \in BOOLEAN
    /\ obsolete \in BOOLEAN /\ claimed \in BOOLEAN
    /\ pending \in [Collectors -> BOOLEAN]

(* Where the tasks are.                                                     *)
TasksTyped ==
    /\ main \in Draining \cup Over \cup {"serving", "close_admission", "stop",
                           "stop_workers", "drained", "unlinked"}
    /\ producer \in {"loop", "wait", "enqueue", "stop", "checkpoint", "done",
                     "failed"}
    /\ monitor \in {"loop", "select", "busy", "collect", "claim", "start",
                    "done"}
    /\ stop_at \in [{"main", "producer"} -> {"none", "flag", "idle", "notify"}]
    /\ events \in 0..MaxEvents

(* The gate and its mutex name the user that has them.                      *)
GateNamesHolder ==
    /\ active \in Users \cup {Nobody} /\ mutex \in Users \cup {Nobody}
    /\ user \in [Users -> Places]
    /\ \A u \in Users : /\ user[u] = "holding" <=> active = u
                        /\ user[u] = "checked" <=> mutex = u

(* checkpointing is set exactly while there is a checkpoint thread.         *)
CheckpointFlagged == checkpointing <=> user[Checkpointer] # "out"

(* A thread that collects: a "restart" has given up running and may get it  *)
(* back.                                                                    *)
Collecting(g) == user[g] \notin {"out", "restart"}

(* running is set while a thread collects, and there are no two of them.    *)
CollectorFlagged ==
    /\ \A g \in Collectors : Collecting(g) => running
    /\ \A g, h \in Collectors : Collecting(g) /\ Collecting(h) => g = h

(* The drain: what one of its stages waited for stays finished in the later *)
(* ones, and stop is not on its way any more.                               *)
DrainedInOrder ==
    /\ stop_at["main"] # "none" => main = "stop"
    /\ main \in {"checkpoint", "monitor", "drained", "unlinked"} \cup Over =>
           TasksFinished
    /\ main \in {"monitor", "drained", "unlinked"} \cup Over => ~checkpointing
    /\ main \in {"drained", "unlinked"} \cup Over => monitor = "done"

(* The lock is held for as long as the process lives, and the next daemon   *)
(* does nothing before it has it.                                           *)
LockGuardsSocket ==
    /\ Alive => lock = "daemon"
    /\ next # "absent" => lock = "next"
    /\ next = "serving" => socket = "next"

LifecycleInv ==
    /\ FlagsTyped
    /\ TasksTyped
    /\ GateNamesHolder
    /\ CheckpointFlagged
    /\ CollectorFlagged
    /\ DrainedInOrder
    /\ LockGuardsSocket

-----------------------------------------------------------------------------
(* The users of the gate are pairwise distinct, and none is Nobody.         *)
LEMMA DistinctUsers ==
    /\ Request \in Users /\ Checkpointer \in Users
    /\ Runs \subseteq Users /\ Collectors \subseteq Users
    /\ Nobody \notin Users
    /\ Request # Checkpointer
    /\ \A r \in Runs : r \notin Collectors /\ r # Request /\ r # Checkpointer
    /\ \A g \in Collectors : g \notin Runs /\ g # Request /\ g # Checkpointer
  BY DaemonLifecycleAssumption DEF Users

(* Initially everything runs, the gate is free and nobody drains.           *)
LEMMA InitLifecycle == Init => LifecycleInv
  <1> SUFFICES ASSUME Init PROVE LifecycleInv
    OBVIOUS
  <1> USE DEF Init
  <1>0. FlagsTyped
    BY DEF FlagsTyped
  <1>1. TasksTyped
    BY DaemonLifecycleAssumption DEF TasksTyped
  <1>2. GateNamesHolder
    BY DistinctUsers DEF GateNamesHolder, Places
  <1>3. CheckpointFlagged
    BY DistinctUsers DEF CheckpointFlagged
  <1>4. CollectorFlagged
    BY DistinctUsers DEF CollectorFlagged, Collecting
  <1>5. DrainedInOrder
    BY DEF DrainedInOrder, Over
  <1>6. LockGuardsSocket
    BY DEF LockGuardsSocket
  <1> QED
    BY <1>0, <1>1, <1>2, <1>3, <1>4, <1>5, <1>6 DEF LifecycleInv

(* The gate passes from one user to the next: whoever moves into "holding"   *)
(* or "checked" found active or mutex free.                                 *)
LEMMA GateStep ==
    ASSUME GateNamesHolder, CheckpointFlagged, [Next]_vars
    PROVE  GateNamesHolder'
  <1>1. CASE monitor_stop \/ monitor_select \/ monitor_triggered \/
            monitor_idle \/ collect_garbage \/ garbage_collect
    BY <1>1, DistinctUsers
    DEF monitor_stop, MonitorTo, monitor_select, monitor_triggered,
        monitor_idle, collect_garbage, garbage_collect, Event,
        GateNamesHolder, Places, CheckpointFlagged, gate
  <1>2. CASE change \/ producer_select \/ producer_changed \/ enqueue_dirty \/
            producer_checkpoint
    BY <1>2, DistinctUsers
    DEF change, Event, producer_select, producer_changed, enqueue_dirty,
        producer_checkpoint, GateNamesHolder, Places, CheckpointFlagged, gate
  <1>3. CASE shutdown_signal \/ close_admission \/ stop_workers \/ drain \/
            drop_socket \/ acquire \/ bind_socket
    BY <1>3, DistinctUsers
    DEF shutdown_signal, MainTo, close_admission, stop_workers, drain,
        drop_socket, acquire, bind_socket, GateNamesHolder, Places,
        CheckpointFlagged, gate
  <1>4. CASE drop_lock \/ deadline
    BY <1>4, DistinctUsers
    DEF drop_lock, Gone, deadline, GateNamesHolder, Places, CheckpointFlagged,
        gate
  <1>5. CASE start_request
    BY <1>5, DistinctUsers
    DEF start_request, Event, Move, GateNamesHolder, Places,
        CheckpointFlagged, gate
  <1>6. ASSUME NEW r \in Runs,
             start_job(r)
      PROVE  GateNamesHolder'
    BY <1>6, DistinctUsers
    DEF start_job, Event, Move, GateNamesHolder, Places, CheckpointFlagged,
        gate
  <1>7. ASSUME NEW r \in Runs,
             finish_job(r) \/ refuse_job(r)
      PROVE  GateNamesHolder'
    BY <1>7, DistinctUsers
    DEF finish_job, released, Woken, refuse_job, Move, GateNamesHolder,
        Places, CheckpointFlagged, gate
  <1>8. ASSUME NEW r \in Runs,
             schedule_checkpoint(r) \/ swap_checkpointing(r)
      PROVE  GateNamesHolder'
    BY <1>8, DistinctUsers
    DEF schedule_checkpoint, Move, swap_checkpointing, GateNamesHolder,
        Places, CheckpointFlagged, gate
  <1>9. ASSUME NEW u \in Users,
             begin(u) \/ begin_locked(u) \/ begin_wait(u)
      PROVE  GateNamesHolder'
    BY <1>9, DistinctUsers
    DEF begin, Move, begin_locked, begin_wait, GateNamesHolder, Places,
        CheckpointFlagged, gate
  <1>10. CASE checkpoint
    BY <1>10, DistinctUsers
    DEF checkpoint, released, Woken, Move, GateNamesHolder, Places,
        CheckpointFlagged, gate
  <1>11. CASE checkpoint_done
    BY <1>11, DistinctUsers
    DEF checkpoint_done, Move, GateNamesHolder, Places, CheckpointFlagged,
        gate
  <1>12. CASE delete_repository
    BY <1>12, DistinctUsers
    DEF delete_repository, released, Woken, Move, GateNamesHolder, Places,
        CheckpointFlagged, gate
  <1>13. ASSUME NEW x \in {"main", "producer"},
             stop_flag(x)
      PROVE  GateNamesHolder'
    BY <1>13, DistinctUsers
    DEF stop_flag, GateNamesHolder, Places, CheckpointFlagged, gate
  <1>14. ASSUME NEW x \in {"main", "producer"},
             stop_idle(x)
      PROVE  GateNamesHolder'
    BY <1>14, DistinctUsers
    DEF stop_idle, Woken, GateNamesHolder, Places, CheckpointFlagged, gate
  <1>15. ASSUME NEW x \in {"main", "producer"},
             stop_notify(x)
      PROVE  GateNamesHolder'
    BY <1>15, DistinctUsers
    DEF stop_notify, GateNamesHolder, Places, CheckpointFlagged, gate
  <1>16. CASE start_garbage_collector
    BY <1>16, DistinctUsers
    DEF start_garbage_collector, claim_running, Spawned, MonitorTo,
        GateNamesHolder, Places, CheckpointFlagged, gate
  <1>17. ASSUME NEW g \in Collectors,
             sweep(g)
      PROVE  GateNamesHolder'
    BY <1>17, DistinctUsers
    DEF sweep, Move, Event, GateNamesHolder, Places, CheckpointFlagged, gate
  <1>18. ASSUME NEW g \in Collectors,
             reclaim(g)
      PROVE  GateNamesHolder'
    BY <1>18, DistinctUsers
    DEF reclaim, Move, released, Woken, GateNamesHolder, Places,
        CheckpointFlagged, gate
  <1>19. ASSUME NEW g \in Collectors,
             read_pending(g)
      PROVE  GateNamesHolder'
    BY <1>19, DistinctUsers
    DEF read_pending, Move, GateNamesHolder, Places, CheckpointFlagged, gate
  <1>20. ASSUME NEW g \in Collectors,
             clear_running(g)
      PROVE  GateNamesHolder'
    BY <1>20, DistinctUsers
    DEF clear_running, Move, GateNamesHolder, Places, CheckpointFlagged, gate
  <1>21. ASSUME NEW g \in Collectors,
             restart_collector(g)
      PROVE  GateNamesHolder'
    BY <1>21, DistinctUsers
    DEF restart_collector, claim_running, Spawned, Move, GateNamesHolder,
        Places, CheckpointFlagged, gate
  <1>22. CASE UNCHANGED vars
    BY <1>22
    DEF vars, tasks, collection, flags, state_dir, GateNamesHolder, Places,
        CheckpointFlagged, gate
  <1> QED
    BY <1>1, <1>2, <1>3, <1>4, <1>5, <1>6, <1>7, <1>8, <1>9, <1>10, <1>11,
       <1>12, <1>13, <1>14, <1>15, <1>16, <1>17, <1>18, <1>19, <1>20, <1>21,
       <1>22
    DEF Next, Environment, Job, Checkpoint, Serve, Producer, Monitor, Collect,
        Main, Gate, stop, Users

(* swap_checkpointing starts a thread only when there is none.              *)
LEMMA CheckpointStep ==
    ASSUME GateNamesHolder, CheckpointFlagged, [Next]_vars
    PROVE  CheckpointFlagged'
  <1>1. CASE monitor_stop \/ monitor_select \/ monitor_triggered \/
            monitor_idle \/ collect_garbage \/ garbage_collect
    BY <1>1, DistinctUsers
    DEF monitor_stop, MonitorTo, monitor_select, monitor_triggered,
        monitor_idle, collect_garbage, garbage_collect, Event,
        GateNamesHolder, Places, CheckpointFlagged, flags, gate
  <1>2. CASE change \/ producer_select \/ producer_changed \/ enqueue_dirty \/
            producer_checkpoint
    BY <1>2, DistinctUsers
    DEF change, Event, producer_select, producer_changed, enqueue_dirty,
        producer_checkpoint, GateNamesHolder, Places, CheckpointFlagged,
        flags, gate
  <1>3. CASE shutdown_signal \/ close_admission \/ stop_workers \/ drain \/
            drop_socket \/ acquire \/ bind_socket
    BY <1>3, DistinctUsers
    DEF shutdown_signal, MainTo, close_admission, stop_workers, drain,
        drop_socket, acquire, bind_socket, GateNamesHolder, Places,
        CheckpointFlagged, flags, gate
  <1>4. CASE drop_lock \/ deadline
    BY <1>4, DistinctUsers
    DEF drop_lock, Gone, deadline, GateNamesHolder, Places, CheckpointFlagged,
        flags, gate
  <1>5. CASE start_request
    BY <1>5, DistinctUsers
    DEF start_request, Event, Move, GateNamesHolder, Places,
        CheckpointFlagged, flags, gate
  <1>6. ASSUME NEW r \in Runs,
             start_job(r)
      PROVE  CheckpointFlagged'
    BY <1>6, DistinctUsers
    DEF start_job, Event, Move, GateNamesHolder, Places, CheckpointFlagged,
        flags, gate
  <1>7. ASSUME NEW r \in Runs,
             finish_job(r) \/ refuse_job(r) \/ schedule_checkpoint(r) \/
             swap_checkpointing(r)
      PROVE  CheckpointFlagged'
    BY <1>7, DistinctUsers
    DEF finish_job, released, Woken, refuse_job, Move, schedule_checkpoint,
        swap_checkpointing, GateNamesHolder, Places, CheckpointFlagged, flags,
        gate
  <1>8. ASSUME NEW u \in Users,
             begin(u) \/ begin_locked(u) \/ begin_wait(u)
      PROVE  CheckpointFlagged'
    BY <1>8, DistinctUsers
    DEF begin, Move, begin_locked, begin_wait, GateNamesHolder, Places,
        CheckpointFlagged, flags, gate
  <1>9. ASSUME NEW g \in Collectors,
             sweep(g) \/ reclaim(g) \/ read_pending(g) \/ clear_running(g) \/
             restart_collector(g)
      PROVE  CheckpointFlagged'
    BY <1>9, DistinctUsers
    DEF sweep, Move, Event, reclaim, released, Woken, read_pending,
        clear_running, restart_collector, claim_running, Spawned,
        GateNamesHolder, Places, CheckpointFlagged, flags, gate
  <1>10. CASE checkpoint
    BY <1>10, DistinctUsers
    DEF checkpoint, released, Woken, Move, GateNamesHolder, Places,
        CheckpointFlagged, flags, gate
  <1>11. CASE checkpoint_done
    BY <1>11, DistinctUsers
    DEF checkpoint_done, Move, GateNamesHolder, Places, CheckpointFlagged,
        flags, gate
  <1>12. CASE delete_repository
    BY <1>12, DistinctUsers
    DEF delete_repository, released, Woken, Move, GateNamesHolder, Places,
        CheckpointFlagged, flags, gate
  <1>13. ASSUME NEW x \in {"main", "producer"},
             stop_flag(x)
      PROVE  CheckpointFlagged'
    BY <1>13, DistinctUsers
    DEF stop_flag, GateNamesHolder, Places, CheckpointFlagged, flags, gate
  <1>14. ASSUME NEW x \in {"main", "producer"},
             stop_idle(x)
      PROVE  CheckpointFlagged'
    BY <1>14, DistinctUsers
    DEF stop_idle, Woken, GateNamesHolder, Places, CheckpointFlagged, flags,
        gate
  <1>15. ASSUME NEW x \in {"main", "producer"},
             stop_notify(x)
      PROVE  CheckpointFlagged'
    BY <1>15, DistinctUsers
    DEF stop_notify, GateNamesHolder, Places, CheckpointFlagged, flags, gate
  <1>16. CASE start_garbage_collector
    BY <1>16, DistinctUsers
    DEF start_garbage_collector, claim_running, Spawned, MonitorTo,
        GateNamesHolder, Places, CheckpointFlagged, flags, gate
  <1>17. CASE UNCHANGED vars
    BY <1>17
    DEF vars, tasks, collection, state_dir, GateNamesHolder, Places,
        CheckpointFlagged, flags, gate
  <1> QED
    BY <1>1, <1>2, <1>3, <1>4, <1>5, <1>6, <1>7, <1>8, <1>9, <1>10, <1>11,
       <1>12, <1>13, <1>14, <1>15, <1>16, <1>17
    DEF Next, Environment, Job, Checkpoint, Serve, Producer, Monitor, Collect,
        Main, Gate, stop, Users

(* claim_running starts a thread only when no thread collects, and          *)
(* clear_running is the step of the one that does.                          *)
LEMMA CollectorStep ==
    ASSUME GateNamesHolder, CheckpointFlagged, CollectorFlagged, [Next]_vars
    PROVE  CollectorFlagged'
  <1>1. CASE monitor_stop \/ monitor_select \/ monitor_triggered \/
            monitor_idle \/ collect_garbage \/ garbage_collect
    <2>1. UNCHANGED <<user, running>>
      BY <1>1
      DEF monitor_stop, MonitorTo, monitor_select, monitor_triggered,
          monitor_idle, collect_garbage, garbage_collect, Event, gate,
          collection
    <2> QED
      BY <2>1 DEF CollectorFlagged, Collecting
  <1>2. CASE change \/ producer_select \/ producer_changed \/ enqueue_dirty \/
            producer_checkpoint
    <2>1. UNCHANGED <<user, running>>
      BY <1>2
      DEF change, Event, producer_select, producer_changed, enqueue_dirty,
          producer_checkpoint, gate, collection
    <2> QED
      BY <2>1 DEF CollectorFlagged, Collecting
  <1>3. CASE shutdown_signal \/ close_admission \/ stop_workers \/ drain \/
            drop_socket \/ acquire \/ bind_socket
    <2>1. UNCHANGED <<user, running>>
      BY <1>3
      DEF shutdown_signal, MainTo, close_admission, stop_workers, drain,
          drop_socket, acquire, bind_socket, gate, collection
    <2> QED
      BY <2>1 DEF CollectorFlagged, Collecting
  <1>4. CASE drop_lock \/ deadline
    BY <1>4, DistinctUsers
    DEF drop_lock, Gone, deadline, GateNamesHolder, CollectorFlagged,
        Collecting, gate, collection
  <1>5. CASE start_request
    BY <1>5, DistinctUsers
    DEF start_request, Event, Move, GateNamesHolder, CollectorFlagged,
        Collecting, gate, collection
  <1>6. ASSUME NEW r \in Runs,
             start_job(r)
      PROVE  CollectorFlagged'
    BY <1>6, DistinctUsers
    DEF start_job, Event, Move, GateNamesHolder, CollectorFlagged, Collecting,
        gate, collection
  <1>7. ASSUME NEW r \in Runs,
             finish_job(r)
      PROVE  CollectorFlagged'
    BY <1>7, DistinctUsers
    DEF finish_job, released, Woken, GateNamesHolder, CollectorFlagged,
        Collecting, gate, collection
  <1>8. ASSUME NEW r \in Runs,
             refuse_job(r)
      PROVE  CollectorFlagged'
    BY <1>8, DistinctUsers
    DEF refuse_job, Move, GateNamesHolder, CollectorFlagged, Collecting, gate,
        collection
  <1>9. ASSUME NEW r \in Runs,
             schedule_checkpoint(r) \/ swap_checkpointing(r)
      PROVE  CollectorFlagged'
    BY <1>9, DistinctUsers
    DEF schedule_checkpoint, Move, swap_checkpointing, GateNamesHolder,
        CollectorFlagged, Collecting, gate, collection
  <1>10. ASSUME NEW u \in Users,
             begin(u) \/ begin_locked(u) \/ begin_wait(u)
      PROVE  CollectorFlagged'
    BY <1>10, DistinctUsers
    DEF begin, Move, begin_locked, begin_wait, GateNamesHolder,
        CollectorFlagged, Collecting, gate, collection
  <1>11. CASE checkpoint
    BY <1>11, DistinctUsers
    DEF checkpoint, released, Woken, Move, GateNamesHolder, CollectorFlagged,
        Collecting, gate, collection
  <1>12. CASE checkpoint_done
    BY <1>12, DistinctUsers
    DEF checkpoint_done, Move, GateNamesHolder, CollectorFlagged, Collecting,
        gate, collection
  <1>13. CASE delete_repository
    BY <1>13, DistinctUsers
    DEF delete_repository, released, Woken, Move, GateNamesHolder,
        CollectorFlagged, Collecting, gate, collection
  <1>14. ASSUME NEW x \in {"main", "producer"},
             stop_flag(x)
      PROVE  CollectorFlagged'
    BY <1>14, DistinctUsers
    DEF stop_flag, GateNamesHolder, CollectorFlagged, Collecting, gate,
        collection
  <1>15. ASSUME NEW x \in {"main", "producer"},
             stop_idle(x)
      PROVE  CollectorFlagged'
    BY <1>15, DistinctUsers
    DEF stop_idle, Woken, GateNamesHolder, CollectorFlagged, Collecting, gate,
        collection
  <1>16. ASSUME NEW x \in {"main", "producer"},
             stop_notify(x)
      PROVE  CollectorFlagged'
    BY <1>16, DistinctUsers
    DEF stop_notify, GateNamesHolder, CollectorFlagged, Collecting, gate,
        collection
  <1>17. CASE start_garbage_collector
    BY <1>17, DistinctUsers
    DEF start_garbage_collector, claim_running, Spawned, MonitorTo,
        GateNamesHolder, CollectorFlagged, Collecting, gate, collection
  <1>18. ASSUME NEW g \in Collectors,
             sweep(g)
      PROVE  CollectorFlagged'
    BY <1>18, DistinctUsers
    DEF sweep, Move, Event, GateNamesHolder, CollectorFlagged, Collecting,
        gate, collection
  <1>19. ASSUME NEW g \in Collectors,
             reclaim(g)
      PROVE  CollectorFlagged'
    BY <1>19, DistinctUsers
    DEF reclaim, Move, released, Woken, GateNamesHolder, CollectorFlagged,
        Collecting, gate, collection
  <1>20. ASSUME NEW g \in Collectors,
             read_pending(g)
      PROVE  CollectorFlagged'
    BY <1>20, DistinctUsers
    DEF read_pending, Move, GateNamesHolder, CollectorFlagged, Collecting,
        gate, collection
  <1>21. ASSUME NEW g \in Collectors,
             clear_running(g)
      PROVE  CollectorFlagged'
    BY <1>21, DistinctUsers
    DEF clear_running, Move, GateNamesHolder, CollectorFlagged, Collecting,
        gate, collection
  <1>22. ASSUME NEW g \in Collectors,
             restart_collector(g)
      PROVE  CollectorFlagged'
    BY <1>22, DistinctUsers
    DEF restart_collector, claim_running, Spawned, Move, GateNamesHolder,
        CollectorFlagged, Collecting, gate, collection
  <1>23. CASE UNCHANGED vars
    BY <1>23
    DEF vars, tasks, flags, state_dir, GateNamesHolder, CollectorFlagged,
        Collecting, gate, collection
  <1> QED
    BY <1>1, <1>2, <1>3, <1>4, <1>5, <1>6, <1>7, <1>8, <1>9, <1>10, <1>11,
       <1>12, <1>13, <1>14, <1>15, <1>16, <1>17, <1>18, <1>19, <1>20, <1>21,
       <1>22, <1>23
    DEF Next, Environment, Job, Checkpoint, Serve, Producer, Monitor, Collect,
        Main, Gate, stop, Users

(* The process lets go of the lock with its last step, after drop_socket.   *)
LEMMA LockStep ==
    ASSUME LockGuardsSocket, [Next]_vars
    PROVE  LockGuardsSocket'
  <1>1. ASSUME Alive,
             monitor_stop \/ monitor_select \/ monitor_triggered \/
             monitor_idle \/ collect_garbage \/ garbage_collect
      PROVE  LockGuardsSocket'
    <2>1. UNCHANGED <<main, state_dir>>
      BY <1>1
      DEF monitor_stop, MonitorTo, monitor_select, monitor_triggered,
          monitor_idle, collect_garbage, garbage_collect, Event, tasks,
          state_dir
    <2> QED
      BY <2>1 DEF LockGuardsSocket, Alive, state_dir
  <1>2. ASSUME Alive,
             change \/ producer_select \/ producer_changed \/ enqueue_dirty \/
             producer_checkpoint
      PROVE  LockGuardsSocket'
    <2>1. UNCHANGED <<main, state_dir>>
      BY <1>2
      DEF change, Event, producer_select, producer_changed, enqueue_dirty,
          producer_checkpoint, tasks, state_dir
    <2> QED
      BY <2>1 DEF LockGuardsSocket, Alive, state_dir
  <1>3. ASSUME Alive,
             drop_lock \/ deadline
      PROVE  LockGuardsSocket'
    BY <1>3
    DEF drop_lock, Gone, deadline, LockGuardsSocket, Alive, Over, Draining,
        state_dir, tasks
  <1>4. CASE Alive /\ start_request
    <2>1. UNCHANGED <<main, state_dir>>
      BY <1>4
      DEF start_request, Event, Move, tasks, state_dir
    <2> QED
      BY <2>1 DEF LockGuardsSocket, Alive, state_dir
  <1>5. ASSUME Alive, NEW r \in Runs,
             start_job(r)
      PROVE  LockGuardsSocket'
    <2>1. UNCHANGED <<main, state_dir>>
      BY <1>5
      DEF start_job, Event, Move, tasks, state_dir
    <2> QED
      BY <2>1 DEF LockGuardsSocket, Alive, state_dir
  <1>6. ASSUME Alive, NEW r \in Runs,
             finish_job(r) \/ refuse_job(r) \/ schedule_checkpoint(r) \/
             swap_checkpointing(r)
      PROVE  LockGuardsSocket'
    <2>1. UNCHANGED <<main, state_dir>>
      BY <1>6
      DEF finish_job, released, Woken, refuse_job, Move, schedule_checkpoint,
          swap_checkpointing, tasks, state_dir
    <2> QED
      BY <2>1 DEF LockGuardsSocket, Alive, state_dir
  <1>7. ASSUME Alive, NEW u \in Users,
             begin(u) \/ begin_locked(u) \/ begin_wait(u)
      PROVE  LockGuardsSocket'
    <2>1. UNCHANGED <<main, state_dir>>
      BY <1>7
      DEF begin, Move, begin_locked, begin_wait, tasks, state_dir
    <2> QED
      BY <2>1 DEF LockGuardsSocket, Alive, state_dir
  <1>8. ASSUME Alive,
             checkpoint \/ checkpoint_done \/ delete_repository \/
             start_garbage_collector
      PROVE  LockGuardsSocket'
    <2>1. UNCHANGED <<main, state_dir>>
      BY <1>8
      DEF checkpoint, released, Woken, Move, checkpoint_done,
          delete_repository, start_garbage_collector, claim_running, Spawned,
          MonitorTo, tasks, state_dir
    <2> QED
      BY <2>1 DEF LockGuardsSocket, Alive, state_dir
  <1>9. ASSUME Alive, NEW g \in Collectors,
             sweep(g) \/ reclaim(g) \/ read_pending(g) \/ clear_running(g) \/
             restart_collector(g)
      PROVE  LockGuardsSocket'
    <2>1. UNCHANGED <<main, state_dir>>
      BY <1>9
      DEF sweep, Move, Event, reclaim, released, Woken, read_pending,
          clear_running, restart_collector, claim_running, Spawned, tasks,
          state_dir
    <2> QED
      BY <2>1 DEF LockGuardsSocket, Alive, state_dir
  <1>10. CASE Alive /\ shutdown_signal
    BY <1>10
    DEF shutdown_signal, MainTo, LockGuardsSocket, Alive, Over, Draining,
        state_dir, tasks
  <1>11. ASSUME Alive, NEW x \in {"main", "producer"},
             stop_flag(x)
      PROVE  LockGuardsSocket'
    BY <1>11
    DEF stop_flag, LockGuardsSocket, Alive, Over, Draining, state_dir, tasks
  <1>12. ASSUME Alive, NEW x \in {"main", "producer"},
             stop_idle(x)
      PROVE  LockGuardsSocket'
    BY <1>12
    DEF stop_idle, Woken, LockGuardsSocket, Alive, Over, Draining, state_dir,
        tasks
  <1>13. ASSUME Alive, NEW x \in {"main", "producer"},
             stop_notify(x)
      PROVE  LockGuardsSocket'
    BY <1>13
    DEF stop_notify, LockGuardsSocket, Alive, Over, Draining, state_dir, tasks
  <1>14. CASE Alive /\ close_admission
    BY <1>14
    DEF close_admission, MainTo, LockGuardsSocket, Alive, Over, Draining,
        state_dir, tasks
  <1>15. CASE Alive /\ stop_workers
    BY <1>15
    DEF stop_workers, MainTo, LockGuardsSocket, Alive, Over, Draining,
        state_dir, tasks
  <1>16. CASE Alive /\ drain
    BY <1>16
    DEF drain, MainTo, LockGuardsSocket, Alive, Over, Draining, state_dir,
        tasks
  <1>17. CASE Alive /\ drop_socket
    BY <1>17
    DEF drop_socket, MainTo, LockGuardsSocket, Alive, Over, Draining,
        state_dir, tasks
  <1>18. CASE acquire
    BY <1>18
    DEF acquire, LockGuardsSocket, Alive, Over, Draining, state_dir, tasks
  <1>19. CASE bind_socket
    BY <1>19
    DEF bind_socket, LockGuardsSocket, Alive, Over, Draining, state_dir, tasks
  <1>20. CASE UNCHANGED vars
    BY <1>20
    DEF vars, collection, flags, gate, LockGuardsSocket, Alive, Over,
        Draining, state_dir, tasks
  <1> QED
    BY <1>1, <1>2, <1>3, <1>4, <1>5, <1>6, <1>7, <1>8, <1>9, <1>10, <1>11,
       <1>12, <1>13, <1>14, <1>15, <1>16, <1>17, <1>18, <1>19, <1>20
    DEF Next, Environment, Job, Checkpoint, Serve, Producer, Monitor, Collect,
        Main, Gate, stop, Users

(* The flags stay Boolean.                                                  *)
LEMMA FlagsStep ==
    ASSUME FlagsTyped, [Next]_vars
    PROVE  FlagsTyped'
  <1>1. CASE shutdown_signal \/ close_admission \/ stop_workers \/ drain \/
            drop_socket \/ acquire \/ bind_socket
    <2>1. UNCHANGED <<flags, collection>>
      BY <1>1
      DEF shutdown_signal, MainTo, close_admission, stop_workers, drain,
          drop_socket, acquire, bind_socket, flags, collection, tasks,
          state_dir
    <2> QED
      BY <2>1 DEF FlagsTyped, flags, collection
  <1>2. CASE start_request
    <2>1. UNCHANGED <<flags, collection>>
      BY <1>2
      DEF start_request, Event, Move, flags, collection, tasks, state_dir
    <2> QED
      BY <2>1 DEF FlagsTyped, flags, collection
  <1>3. ASSUME NEW r \in Runs,
             start_job(r)
      PROVE  FlagsTyped'
    <2>1. UNCHANGED <<flags, collection>>
      BY <1>3
      DEF start_job, Event, Move, flags, collection, tasks, state_dir
    <2> QED
      BY <2>1 DEF FlagsTyped, flags, collection
  <1>4. ASSUME NEW u \in Users,
             begin(u) \/ begin_locked(u) \/ begin_wait(u)
      PROVE  FlagsTyped'
    <2>1. UNCHANGED <<flags, collection>>
      BY <1>4
      DEF begin, Move, begin_locked, begin_wait, flags, collection, tasks,
          state_dir
    <2> QED
      BY <2>1 DEF FlagsTyped, flags, collection
  <1>5. CASE drop_lock \/ deadline
    BY <1>5
    DEF drop_lock, Gone, deadline, FlagsTyped, flags, collection
  <1>6. CASE change
    BY <1>6
    DEF change, Event, FlagsTyped, flags, collection
  <1>7. ASSUME NEW r \in Runs,
             finish_job(r)
      PROVE  FlagsTyped'
    BY <1>7
    DEF finish_job, released, Woken, FlagsTyped, flags, collection
  <1>8. ASSUME NEW r \in Runs,
             refuse_job(r)
      PROVE  FlagsTyped'
    BY <1>8
    DEF refuse_job, Move, FlagsTyped, flags, collection
  <1>9. ASSUME NEW r \in Runs,
             schedule_checkpoint(r)
      PROVE  FlagsTyped'
    BY <1>9
    DEF schedule_checkpoint, Move, FlagsTyped, flags, collection
  <1>10. ASSUME NEW r \in Runs,
             swap_checkpointing(r)
      PROVE  FlagsTyped'
    BY <1>10
    DEF swap_checkpointing, FlagsTyped, flags, collection
  <1>11. CASE checkpoint
    BY <1>11
    DEF checkpoint, released, Woken, Move, FlagsTyped, flags, collection
  <1>12. CASE checkpoint_done
    BY <1>12
    DEF checkpoint_done, Move, FlagsTyped, flags, collection
  <1>13. CASE delete_repository
    BY <1>13
    DEF delete_repository, released, Woken, Move, FlagsTyped, flags,
        collection
  <1>14. CASE producer_select
    BY <1>14
    DEF producer_select, FlagsTyped, flags, collection
  <1>15. CASE producer_changed
    BY <1>15
    DEF producer_changed, FlagsTyped, flags, collection
  <1>16. CASE enqueue_dirty
    BY <1>16
    DEF enqueue_dirty, Event, FlagsTyped, flags, collection
  <1>17. CASE producer_checkpoint
    BY <1>17
    DEF producer_checkpoint, FlagsTyped, flags, collection
  <1>18. ASSUME NEW x \in {"main", "producer"},
             stop_flag(x)
      PROVE  FlagsTyped'
    BY <1>18
    DEF stop_flag, FlagsTyped, flags, collection
  <1>19. ASSUME NEW x \in {"main", "producer"},
             stop_idle(x)
      PROVE  FlagsTyped'
    BY <1>19
    DEF stop_idle, Woken, FlagsTyped, flags, collection
  <1>20. ASSUME NEW x \in {"main", "producer"},
             stop_notify(x)
      PROVE  FlagsTyped'
    BY <1>20
    DEF stop_notify, FlagsTyped, flags, collection
  <1>21. CASE monitor_stop
    BY <1>21
    DEF monitor_stop, MonitorTo, FlagsTyped, flags, collection
  <1>22. CASE monitor_select
    BY <1>22
    DEF monitor_select, MonitorTo, FlagsTyped, flags, collection
  <1>23. CASE monitor_triggered
    BY <1>23
    DEF monitor_triggered, FlagsTyped, flags, collection
  <1>24. CASE monitor_idle
    BY <1>24
    DEF monitor_idle, MonitorTo, FlagsTyped, flags, collection
  <1>25. CASE collect_garbage
    BY <1>25
    DEF collect_garbage, MonitorTo, FlagsTyped, flags, collection
  <1>26. CASE garbage_collect
    BY <1>26
    DEF garbage_collect, MonitorTo, Event, FlagsTyped, flags, collection
  <1>27. CASE start_garbage_collector
    BY <1>27
    DEF start_garbage_collector, claim_running, Spawned, MonitorTo,
        FlagsTyped, flags, collection
  <1>28. ASSUME NEW g \in Collectors,
             sweep(g)
      PROVE  FlagsTyped'
    BY <1>28
    DEF sweep, Move, Event, FlagsTyped, flags, collection
  <1>29. ASSUME NEW g \in Collectors,
             reclaim(g)
      PROVE  FlagsTyped'
    BY <1>29
    DEF reclaim, Move, released, Woken, FlagsTyped, flags, collection
  <1>30. ASSUME NEW g \in Collectors,
             read_pending(g)
      PROVE  FlagsTyped'
    BY <1>30
    DEF read_pending, Move, FlagsTyped, flags, collection
  <1>31. ASSUME NEW g \in Collectors,
             clear_running(g)
      PROVE  FlagsTyped'
    BY <1>31
    DEF clear_running, Move, FlagsTyped, flags, collection
  <1>32. ASSUME NEW g \in Collectors,
             restart_collector(g)
      PROVE  FlagsTyped'
    BY <1>32
    DEF restart_collector, claim_running, Spawned, Move, FlagsTyped, flags,
        collection
  <1>33. CASE UNCHANGED vars
    BY <1>33
    DEF vars, tasks, gate, state_dir, FlagsTyped, flags, collection
  <1> QED
    BY <1>1, <1>2, <1>3, <1>4, <1>5, <1>6, <1>7, <1>8, <1>9, <1>10, <1>11,
       <1>12, <1>13, <1>14, <1>15, <1>16, <1>17, <1>18, <1>19, <1>20, <1>21,
       <1>22, <1>23, <1>24, <1>25, <1>26, <1>27, <1>28, <1>29, <1>30, <1>31,
       <1>32, <1>33
    DEF Next, Environment, Job, Checkpoint, Serve, Producer, Monitor, Collect,
        Main, Gate, stop, Users

(* The tasks stay at known places.                                          *)
LEMMA TasksStep ==
    ASSUME TasksTyped, [Next]_vars
    PROVE  TasksTyped'
  <1>1. CASE shutdown_signal \/ close_admission \/ stop_workers \/ drain \/
            drop_socket \/ acquire \/ bind_socket
    BY <1>1, DaemonLifecycleAssumption
    DEF shutdown_signal, MainTo, close_admission, stop_workers, drain,
        drop_socket, acquire, bind_socket, TasksTyped, Draining, Over, tasks,
        collection
  <1>2. ASSUME NEW u \in Users,
             begin(u) \/ begin_locked(u) \/ begin_wait(u)
      PROVE  TasksTyped'
    BY <1>2, DaemonLifecycleAssumption
    DEF begin, Move, begin_locked, begin_wait, TasksTyped, Draining, Over,
        tasks, collection
  <1>3. CASE drop_lock \/ deadline
    BY <1>3, DaemonLifecycleAssumption
    DEF drop_lock, Gone, deadline, TasksTyped, Draining, Over, tasks,
        collection
  <1>4. ASSUME NEW r \in Runs,
             finish_job(r) \/ refuse_job(r) \/ schedule_checkpoint(r) \/
             swap_checkpointing(r)
      PROVE  TasksTyped'
    BY <1>4, DaemonLifecycleAssumption
    DEF finish_job, released, Woken, refuse_job, Move, schedule_checkpoint,
        swap_checkpointing, TasksTyped, Draining, Over, tasks, collection
  <1>5. CASE checkpoint \/ checkpoint_done \/ delete_repository
    BY <1>5, DaemonLifecycleAssumption
    DEF checkpoint, released, Woken, Move, checkpoint_done, delete_repository,
        TasksTyped, Draining, Over, tasks, collection
  <1>6. CASE change
    BY <1>6, DaemonLifecycleAssumption
    DEF change, Event, TasksTyped, Draining, Over, tasks, collection
  <1>7. CASE start_request
    BY <1>7, DaemonLifecycleAssumption
    DEF start_request, Event, Move, TasksTyped, Draining, Over, tasks,
        collection
  <1>8. ASSUME NEW r \in Runs,
             start_job(r)
      PROVE  TasksTyped'
    BY <1>8, DaemonLifecycleAssumption
    DEF start_job, Event, Move, TasksTyped, Draining, Over, tasks, collection
  <1>9. CASE producer_select
    BY <1>9, DaemonLifecycleAssumption
    DEF producer_select, TasksTyped, Draining, Over, tasks, collection
  <1>10. CASE producer_changed
    BY <1>10, DaemonLifecycleAssumption
    DEF producer_changed, TasksTyped, Draining, Over, tasks, collection
  <1>11. CASE enqueue_dirty
    BY <1>11, DaemonLifecycleAssumption
    DEF enqueue_dirty, Event, TasksTyped, Draining, Over, tasks, collection
  <1>12. CASE producer_checkpoint
    BY <1>12, DaemonLifecycleAssumption
    DEF producer_checkpoint, TasksTyped, Draining, Over, tasks, collection
  <1>13. ASSUME NEW x \in {"main", "producer"},
             stop_flag(x)
      PROVE  TasksTyped'
    BY <1>13, DaemonLifecycleAssumption
    DEF stop_flag, TasksTyped, Draining, Over, tasks, collection
  <1>14. ASSUME NEW x \in {"main", "producer"},
             stop_idle(x)
      PROVE  TasksTyped'
    BY <1>14, DaemonLifecycleAssumption
    DEF stop_idle, Woken, TasksTyped, Draining, Over, tasks, collection
  <1>15. ASSUME NEW x \in {"main", "producer"},
             stop_notify(x)
      PROVE  TasksTyped'
    BY <1>15, DaemonLifecycleAssumption
    DEF stop_notify, TasksTyped, Draining, Over, tasks, collection
  <1>16. CASE monitor_stop
    BY <1>16, DaemonLifecycleAssumption
    DEF monitor_stop, MonitorTo, TasksTyped, Draining, Over, tasks, collection
  <1>17. CASE monitor_select
    BY <1>17, DaemonLifecycleAssumption
    DEF monitor_select, MonitorTo, TasksTyped, Draining, Over, tasks,
        collection
  <1>18. CASE monitor_triggered
    BY <1>18, DaemonLifecycleAssumption
    DEF monitor_triggered, TasksTyped, Draining, Over, tasks, collection
  <1>19. CASE monitor_idle
    BY <1>19, DaemonLifecycleAssumption
    DEF monitor_idle, MonitorTo, TasksTyped, Draining, Over, tasks, collection
  <1>20. CASE collect_garbage
    BY <1>20, DaemonLifecycleAssumption
    DEF collect_garbage, MonitorTo, TasksTyped, Draining, Over, tasks,
        collection
  <1>21. CASE garbage_collect
    BY <1>21, DaemonLifecycleAssumption
    DEF garbage_collect, MonitorTo, Event, TasksTyped, Draining, Over, tasks,
        collection
  <1>22. CASE start_garbage_collector
    BY <1>22, DaemonLifecycleAssumption
    DEF start_garbage_collector, claim_running, Spawned, MonitorTo,
        TasksTyped, Draining, Over, tasks, collection
  <1>23. ASSUME NEW g \in Collectors,
             sweep(g)
      PROVE  TasksTyped'
    BY <1>23, DaemonLifecycleAssumption
    DEF sweep, Move, Event, TasksTyped, Draining, Over, tasks, collection
  <1>24. ASSUME NEW g \in Collectors,
             reclaim(g)
      PROVE  TasksTyped'
    BY <1>24, DaemonLifecycleAssumption
    DEF reclaim, Move, released, Woken, TasksTyped, Draining, Over, tasks,
        collection
  <1>25. ASSUME NEW g \in Collectors,
             read_pending(g)
      PROVE  TasksTyped'
    BY <1>25, DaemonLifecycleAssumption
    DEF read_pending, Move, TasksTyped, Draining, Over, tasks, collection
  <1>26. ASSUME NEW g \in Collectors,
             clear_running(g)
      PROVE  TasksTyped'
    BY <1>26, DaemonLifecycleAssumption
    DEF clear_running, Move, TasksTyped, Draining, Over, tasks, collection
  <1>27. ASSUME NEW g \in Collectors,
             restart_collector(g)
      PROVE  TasksTyped'
    BY <1>27, DaemonLifecycleAssumption
    DEF restart_collector, claim_running, Spawned, Move, TasksTyped, Draining,
        Over, tasks, collection
  <1>28. CASE UNCHANGED vars
    BY <1>28
    DEF vars, flags, gate, state_dir, TasksTyped, Draining, Over, tasks,
        collection
  <1> QED
    BY <1>1, <1>2, <1>3, <1>4, <1>5, <1>6, <1>7, <1>8, <1>9, <1>10, <1>11,
       <1>12, <1>13, <1>14, <1>15, <1>16, <1>17, <1>18, <1>19, <1>20, <1>21,
       <1>22, <1>23, <1>24, <1>25, <1>26, <1>27, <1>28
    DEF Next, Environment, Job, Checkpoint, Serve, Producer, Monitor, Collect,
        Main, Gate, stop, Users

(* Nothing starts a job, a request or a checkpoint again once drain saw   *)
(* it finished, and stop, which moves main, is over before the drain.       *)
LEMMA DrainStep ==
    ASSUME TasksTyped, GateNamesHolder, CheckpointFlagged,
           DrainedInOrder, CheckpointFlagged', [Next]_vars
    PROVE  DrainedInOrder'
  <1>1. CASE acquire \/ bind_socket
    BY <1>1, DistinctUsers
    DEF acquire, bind_socket, DrainedInOrder, TasksFinished, TasksTyped,
        GateNamesHolder, CheckpointFlagged, WorkersRun, Admitting, Alive,
        Draining, Over, gate, tasks, collection, flags
  <1>2. ASSUME Alive,
             drop_lock \/ deadline
      PROVE  DrainedInOrder'
    BY <1>2, DistinctUsers
    DEF drop_lock, Gone, deadline, DrainedInOrder, TasksFinished, TasksTyped,
        GateNamesHolder, CheckpointFlagged, WorkersRun, Admitting, Alive,
        Draining, Over, gate, tasks, collection, flags
  <1>3. CASE Alive /\ change
    BY <1>3, DistinctUsers
    DEF change, Event, DrainedInOrder, TasksFinished, TasksTyped,
        GateNamesHolder, CheckpointFlagged, WorkersRun, Admitting, Alive,
        Draining, Over, gate, tasks, collection, flags
  <1>4. CASE Alive /\ start_request
    BY <1>4, DistinctUsers
    DEF start_request, Event, Move, DrainedInOrder, TasksFinished, TasksTyped,
        GateNamesHolder, CheckpointFlagged, WorkersRun, Admitting, Alive,
        Draining, Over, gate, tasks, collection, flags
  <1>5. ASSUME Alive, NEW r \in Runs,
             start_job(r)
      PROVE  DrainedInOrder'
    BY <1>5, DistinctUsers
    DEF start_job, Event, Move, DrainedInOrder, TasksFinished, TasksTyped,
        GateNamesHolder, CheckpointFlagged, WorkersRun, Admitting, Alive,
        Draining, Over, gate, tasks, collection, flags
  <1>6. CASE Alive /\ shutdown_signal
    BY <1>6, DistinctUsers
    DEF shutdown_signal, MainTo, DrainedInOrder, TasksFinished, TasksTyped,
        GateNamesHolder, CheckpointFlagged, WorkersRun, Admitting, Alive,
        Draining, Over, gate, tasks, collection, flags
  <1>7. ASSUME Alive, NEW u \in Users,
             begin(u)
      PROVE  DrainedInOrder'
    BY <1>7, DistinctUsers
    DEF begin, Move, DrainedInOrder, TasksFinished, TasksTyped,
        GateNamesHolder, CheckpointFlagged, WorkersRun, Admitting, Alive,
        Draining, Over, gate, tasks, collection, flags
  <1>8. ASSUME Alive, NEW u \in Users,
             begin_locked(u)
      PROVE  DrainedInOrder'
    BY <1>8, DistinctUsers
    DEF begin_locked, Move, DrainedInOrder, TasksFinished, TasksTyped,
        GateNamesHolder, CheckpointFlagged, WorkersRun, Admitting, Alive,
        Draining, Over, gate, tasks, collection, flags
  <1>9. ASSUME Alive, NEW u \in Users,
             begin_wait(u)
      PROVE  DrainedInOrder'
    BY <1>9, DistinctUsers
    DEF begin_wait, Move, DrainedInOrder, TasksFinished, TasksTyped,
        GateNamesHolder, CheckpointFlagged, WorkersRun, Admitting, Alive,
        Draining, Over, gate, tasks, collection, flags
  <1>10. ASSUME Alive, NEW r \in Runs,
             finish_job(r)
      PROVE  DrainedInOrder'
    BY <1>10, DistinctUsers
    DEF finish_job, released, Woken, DrainedInOrder, TasksFinished,
        TasksTyped, GateNamesHolder, CheckpointFlagged, WorkersRun, Admitting,
        Alive, Draining, Over, gate, tasks, collection, flags
  <1>11. ASSUME Alive, NEW r \in Runs,
             refuse_job(r)
      PROVE  DrainedInOrder'
    BY <1>11, DistinctUsers
    DEF refuse_job, Move, DrainedInOrder, TasksFinished, TasksTyped,
        GateNamesHolder, CheckpointFlagged, WorkersRun, Admitting, Alive,
        Draining, Over, gate, tasks, collection, flags
  <1>12. ASSUME Alive, NEW r \in Runs,
             schedule_checkpoint(r)
      PROVE  DrainedInOrder'
    BY <1>12, DistinctUsers
    DEF schedule_checkpoint, Move, DrainedInOrder, TasksFinished, TasksTyped,
        GateNamesHolder, CheckpointFlagged, WorkersRun, Admitting, Alive,
        Draining, Over, gate, tasks, collection, flags
  <1>13. ASSUME Alive, NEW r \in Runs,
             swap_checkpointing(r)
      PROVE  DrainedInOrder'
    BY <1>13, DistinctUsers
    DEF swap_checkpointing, DrainedInOrder, TasksFinished, TasksTyped,
        GateNamesHolder, CheckpointFlagged, WorkersRun, Admitting, Alive,
        Draining, Over, gate, tasks, collection, flags
  <1>14. CASE Alive /\ checkpoint
    BY <1>14, DistinctUsers
    DEF checkpoint, released, Woken, Move, DrainedInOrder, TasksFinished,
        TasksTyped, GateNamesHolder, CheckpointFlagged, WorkersRun, Admitting,
        Alive, Draining, Over, gate, tasks, collection, flags
  <1>15. CASE Alive /\ checkpoint_done
    BY <1>15, DistinctUsers
    DEF checkpoint_done, Move, DrainedInOrder, TasksFinished, TasksTyped,
        GateNamesHolder, CheckpointFlagged, WorkersRun, Admitting, Alive,
        Draining, Over, gate, tasks, collection, flags
  <1>16. CASE Alive /\ delete_repository
    BY <1>16, DistinctUsers
    DEF delete_repository, released, Woken, Move, DrainedInOrder,
        TasksFinished, TasksTyped, GateNamesHolder, CheckpointFlagged,
        WorkersRun, Admitting, Alive, Draining, Over, gate, tasks, collection,
        flags
  <1>17. CASE Alive /\ producer_select
    BY <1>17, DistinctUsers
    DEF producer_select, DrainedInOrder, TasksFinished, TasksTyped,
        GateNamesHolder, CheckpointFlagged, WorkersRun, Admitting, Alive,
        Draining, Over, gate, tasks, collection, flags
  <1>18. CASE Alive /\ producer_changed
    BY <1>18, DistinctUsers
    DEF producer_changed, DrainedInOrder, TasksFinished, TasksTyped,
        GateNamesHolder, CheckpointFlagged, WorkersRun, Admitting, Alive,
        Draining, Over, gate, tasks, collection, flags
  <1>19. CASE Alive /\ enqueue_dirty
    BY <1>19, DistinctUsers
    DEF enqueue_dirty, Event, DrainedInOrder, TasksFinished, TasksTyped,
        GateNamesHolder, CheckpointFlagged, WorkersRun, Admitting, Alive,
        Draining, Over, gate, tasks, collection, flags
  <1>20. CASE Alive /\ producer_checkpoint
    BY <1>20, DistinctUsers
    DEF producer_checkpoint, DrainedInOrder, TasksFinished, TasksTyped,
        GateNamesHolder, CheckpointFlagged, WorkersRun, Admitting, Alive,
        Draining, Over, gate, tasks, collection, flags
  <1>21. ASSUME Alive, NEW x \in {"main", "producer"},
             stop_flag(x)
      PROVE  DrainedInOrder'
    BY <1>21, DistinctUsers
    DEF stop_flag, DrainedInOrder, TasksFinished, TasksTyped, GateNamesHolder,
        CheckpointFlagged, WorkersRun, Admitting, Alive, Draining, Over, gate,
        tasks, collection, flags
  <1>22. ASSUME Alive, NEW x \in {"main", "producer"},
             stop_idle(x)
      PROVE  DrainedInOrder'
    BY <1>22, DistinctUsers
    DEF stop_idle, Woken, DrainedInOrder, TasksFinished, TasksTyped,
        GateNamesHolder, CheckpointFlagged, WorkersRun, Admitting, Alive,
        Draining, Over, gate, tasks, collection, flags
  <1>23. ASSUME Alive, NEW x \in {"main", "producer"},
             stop_notify(x)
      PROVE  DrainedInOrder'
    BY <1>23, DistinctUsers
    DEF stop_notify, DrainedInOrder, TasksFinished, TasksTyped,
        GateNamesHolder, CheckpointFlagged, WorkersRun, Admitting, Alive,
        Draining, Over, gate, tasks, collection, flags
  <1>24. CASE Alive /\ monitor_stop
    BY <1>24, DistinctUsers
    DEF monitor_stop, MonitorTo, DrainedInOrder, TasksFinished, TasksTyped,
        GateNamesHolder, CheckpointFlagged, WorkersRun, Admitting, Alive,
        Draining, Over, gate, tasks, collection, flags
  <1>25. CASE Alive /\ monitor_select
    BY <1>25, DistinctUsers
    DEF monitor_select, MonitorTo, DrainedInOrder, TasksFinished, TasksTyped,
        GateNamesHolder, CheckpointFlagged, WorkersRun, Admitting, Alive,
        Draining, Over, gate, tasks, collection, flags
  <1>26. CASE Alive /\ monitor_triggered
    BY <1>26, DistinctUsers
    DEF monitor_triggered, DrainedInOrder, TasksFinished, TasksTyped,
        GateNamesHolder, CheckpointFlagged, WorkersRun, Admitting, Alive,
        Draining, Over, gate, tasks, collection, flags
  <1>27. CASE Alive /\ monitor_idle
    BY <1>27, DistinctUsers
    DEF monitor_idle, MonitorTo, DrainedInOrder, TasksFinished, TasksTyped,
        GateNamesHolder, CheckpointFlagged, WorkersRun, Admitting, Alive,
        Draining, Over, gate, tasks, collection, flags
  <1>28. CASE Alive /\ collect_garbage
    BY <1>28, DistinctUsers
    DEF collect_garbage, MonitorTo, DrainedInOrder, TasksFinished, TasksTyped,
        GateNamesHolder, CheckpointFlagged, WorkersRun, Admitting, Alive,
        Draining, Over, gate, tasks, collection, flags
  <1>29. CASE Alive /\ garbage_collect
    BY <1>29, DistinctUsers
    DEF garbage_collect, MonitorTo, Event, DrainedInOrder, TasksFinished,
        TasksTyped, GateNamesHolder, CheckpointFlagged, WorkersRun, Admitting,
        Alive, Draining, Over, gate, tasks, collection, flags
  <1>30. CASE Alive /\ start_garbage_collector
    BY <1>30, DistinctUsers
    DEF start_garbage_collector, claim_running, Spawned, MonitorTo,
        DrainedInOrder, TasksFinished, TasksTyped, GateNamesHolder,
        CheckpointFlagged, WorkersRun, Admitting, Alive, Draining, Over, gate,
        tasks, collection, flags
  <1>31. ASSUME Alive, NEW g \in Collectors,
             sweep(g)
      PROVE  DrainedInOrder'
    BY <1>31, DistinctUsers
    DEF sweep, Move, Event, DrainedInOrder, TasksFinished, TasksTyped,
        GateNamesHolder, CheckpointFlagged, WorkersRun, Admitting, Alive,
        Draining, Over, gate, tasks, collection, flags
  <1>32. ASSUME Alive, NEW g \in Collectors,
             reclaim(g)
      PROVE  DrainedInOrder'
    BY <1>32, DistinctUsers
    DEF reclaim, Move, released, Woken, DrainedInOrder, TasksFinished,
        TasksTyped, GateNamesHolder, CheckpointFlagged, WorkersRun, Admitting,
        Alive, Draining, Over, gate, tasks, collection, flags
  <1>33. ASSUME Alive, NEW g \in Collectors,
             read_pending(g)
      PROVE  DrainedInOrder'
    BY <1>33, DistinctUsers
    DEF read_pending, Move, DrainedInOrder, TasksFinished, TasksTyped,
        GateNamesHolder, CheckpointFlagged, WorkersRun, Admitting, Alive,
        Draining, Over, gate, tasks, collection, flags
  <1>34. ASSUME Alive, NEW g \in Collectors,
             clear_running(g)
      PROVE  DrainedInOrder'
    BY <1>34, DistinctUsers
    DEF clear_running, Move, DrainedInOrder, TasksFinished, TasksTyped,
        GateNamesHolder, CheckpointFlagged, WorkersRun, Admitting, Alive,
        Draining, Over, gate, tasks, collection, flags
  <1>35. ASSUME Alive, NEW g \in Collectors,
             restart_collector(g)
      PROVE  DrainedInOrder'
    BY <1>35, DistinctUsers
    DEF restart_collector, claim_running, Spawned, Move, DrainedInOrder,
        TasksFinished, TasksTyped, GateNamesHolder, CheckpointFlagged,
        WorkersRun, Admitting, Alive, Draining, Over, gate, tasks, collection,
        flags
  <1>36. CASE Alive /\ close_admission
    BY <1>36, DistinctUsers
    DEF close_admission, MainTo, DrainedInOrder, TasksFinished, TasksTyped,
        GateNamesHolder, CheckpointFlagged, WorkersRun, Admitting, Alive,
        Draining, Over, gate, tasks, collection, flags
  <1>37. CASE Alive /\ stop_workers
    BY <1>37, DistinctUsers
    DEF stop_workers, MainTo, DrainedInOrder, TasksFinished, TasksTyped,
        GateNamesHolder, CheckpointFlagged, WorkersRun, Admitting, Alive,
        Draining, Over, gate, tasks, collection, flags
  <1>38. CASE Alive /\ drain
    BY <1>38, DistinctUsers
    DEF drain, MainTo, DrainedInOrder, TasksFinished, TasksTyped,
        GateNamesHolder, CheckpointFlagged, WorkersRun, Admitting, Alive,
        Draining, Over, gate, tasks, collection, flags
  <1>39. CASE Alive /\ drop_socket
    BY <1>39, DistinctUsers
    DEF drop_socket, MainTo, DrainedInOrder, TasksFinished, TasksTyped,
        GateNamesHolder, CheckpointFlagged, WorkersRun, Admitting, Alive,
        Draining, Over, gate, tasks, collection, flags
  <1>40. CASE UNCHANGED vars
    BY <1>40
    DEF vars, state_dir, DrainedInOrder, TasksFinished, TasksTyped,
        GateNamesHolder, CheckpointFlagged, WorkersRun, Admitting, Alive,
        Draining, Over, gate, tasks, collection, flags
  <1> QED
    BY <1>1, <1>2, <1>3, <1>4, <1>5, <1>6, <1>7, <1>8, <1>9, <1>10, <1>11,
       <1>12, <1>13, <1>14, <1>15, <1>16, <1>17, <1>18, <1>19, <1>20, <1>21,
       <1>22, <1>23, <1>24, <1>25, <1>26, <1>27, <1>28, <1>29, <1>30, <1>31,
       <1>32, <1>33, <1>34, <1>35, <1>36, <1>37, <1>38, <1>39, <1>40
    DEF Next, Environment, Job, Checkpoint, Serve, Producer, Monitor, Collect,
        Main, Gate, stop, Users

-----------------------------------------------------------------------------
(* Every step of the daemon and of its tasks preserves the invariant.       *)
LEMMA LifecycleStep == LifecycleInv /\ [Next]_vars => LifecycleInv'
  BY FlagsStep, TasksStep, GateStep, CheckpointStep, CollectorStep, DrainStep,
     LockStep DEF LifecycleInv

(* The strengthened invariant holds in every reachable state.               *)
LEMMA LifecycleInvariant == Spec => []LifecycleInv
  BY InitLifecycle, LifecycleStep, PTL DEF Spec

(* The variables have their types, and active_operation and its mutex name  *)
(* the one user that has them, whatever order begin, ActiveOperation::drop  *)
(* and stop run in.                                                         *)
THEOREM TypeCorrect == Spec => []TypeOK
  <1>1. LifecycleInv => TypeOK
    <2> SUFFICES ASSUME LifecycleInv PROVE TypeOK
      OBVIOUS
    <2>1. {stopping, shutdown, checkpointing, changed, requested,
           running, obsolete, claimed} \subseteq BOOLEAN
      BY Zenon DEF LifecycleInv, FlagsTyped
    <2> QED
      BY <2>1 DEF LifecycleInv, FlagsTyped, TasksTyped, GateNamesHolder, Places,
                  TypeOK
  <1> QED
    BY <1>1, LifecycleInvariant, PTL

(* A shutdown that got through drain before its deadline left no job, no    *)
(* request, no checkpoint thread and no task behind.                        *)
THEOREM CleanExitQuiet == Spec => []CleanExitIsQuiet
  <1>1. LifecycleInv => CleanExitIsQuiet
    BY DEF LifecycleInv, DrainedInOrder, TasksFinished, CheckpointFlagged,
           CleanExitIsQuiet, Over
  <1> QED
    BY <1>1, LifecycleInvariant, PTL

(* garbage_collector_running keeps a second collector from starting: by the *)
(* monitor, by delete_repository, or by a collector that restarts itself.   *)
THEOREM CollectorIsOne == Spec => []OneCollector
  <1>1. LifecycleInv => OneCollector
    <2> DEFINE S == {g \in Collectors : user[g] \notin {"out", "restart"}}
    <2> SUFFICES ASSUME LifecycleInv PROVE Cardinality(S) <= 1
      BY DEF OneCollector
    <2>1. \A g, h \in S : g = h
      BY DEF LifecycleInv, CollectorFlagged, Collecting
    <2>2. CASE S = {}
      BY <2>2, FS_EmptySet
    <2>3. CASE S # {}
      <3>1. PICK g \in S : TRUE
        BY <2>3
      <3>2. S = {g}
        BY <2>1, <3>1
      <3>3. Cardinality({g}) = 1
        BY FS_Singleton
      <3> QED
        BY <3>2, <3>3
    <2> QED
      BY <2>2, <2>3
  <1> QED
    BY <1>1, LifecycleInvariant, PTL

(* The daemon that goes removes the socket before it lets go of the lock,   *)
(* and the next one binds after it has the lock: its socket stays, and the  *)
(* two processes never serve at the same time.                              *)
THEOREM NextSocketKept == Spec => []NextKeepsItsSocket
  <1>1. LifecycleInv => NextKeepsItsSocket
    BY DEF LifecycleInv, LockGuardsSocket, NextKeepsItsSocket
  <1> QED
    BY <1>1, LifecycleInvariant, PTL
=============================================================================
