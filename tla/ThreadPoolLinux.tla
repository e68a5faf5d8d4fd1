--------------------------- MODULE ThreadPoolLinux ---------------------------
(***************************************************************************)
(* A dispatch queue on ThreadPoolSchedulerLinux                            *)
(* (threadPoolScheduler_linux.cpp).  Pool thread i is m_threads[i - 1].    *)
(* Threads are started on demand, up to m_maxThreads, and sleep on the     *)
(* condition variable m_wakeUpThread between tasks.                        *)
(*                                                                         *)
(* Sections of m_threadMutex that make no nested call are atomic steps;    *)
(* the one of RunInThread calls into the service while it holds the lock,  *)
(* so the lock has an owner here.                                          *)
(***************************************************************************)
EXTENDS QueueService, FiniteSets

CONSTANTS MaxConcurrentThreads,  \* size of the m_threads array (64)
          MaxThreadsArgs,        \* constructor arguments to consider
          NoThread

ASSUME LinuxAssumption ==
  /\ MaxConcurrentThreads \in Nat \ {0}
  /\ PoolThreads = 1..MaxConcurrentThreads
  /\ MaxThreadsArgs \subseteq 0..MaxConcurrentThreads
  /\ NoThread \notin Threads

VARIABLES
  m_maxThreads, m_busyThreads, m_threadCount, m_isShutdown,
  m_threadMutex,  \* the owner of m_threadMutex, or NoThread
  pc              \* where in RunInThread a pool thread is

schedulerVars == <<m_maxThreads, m_busyThreads, m_threadCount, m_isShutdown,
                   m_threadMutex, pc>>
vars == <<serviceVars, schedulerVars>>

(* unborn: not started           loop: top of for(;;), GetStrongPtr next   *)
(* drain:  TryDequeTask loop     idle:  before m_threadMutex               *)
(*                               check: holds m_threadMutex, HasTasks next *)
(* again:  continue              leave: break, the queue not yet released  *)
(* wait:   in m_wakeUpThread     woken: notified, must relock m_threadMutex*)
(* dying:  in ~QueueService      exited                                    *)
PcValues == {"unborn", "loop", "drain", "idle", "check", "again", "leave",
             "wait", "woken", "dying", "exited"}

TypeOK ==
  /\ ServiceTypeOK
  /\ m_maxThreads \in 1..MaxConcurrentThreads
  /\ m_busyThreads \in Nat
  /\ m_threadCount \in 0..MaxConcurrentThreads
  /\ m_isShutdown \in BOOLEAN
  /\ m_threadMutex \in PoolThreads \cup {NoThread}
  /\ pc \in [PoolThreads -> PcValues]

Init ==
  /\ ServiceInit
  /\ \E maxThreads \in MaxThreadsArgs :
       m_maxThreads = IF maxThreads = 0 THEN MaxConcurrentThreads ELSE maxThreads
  /\ m_busyThreads = 0
  /\ m_threadCount = 0
  /\ m_isShutdown = FALSE
  /\ m_threadMutex = NoThread
  /\ pc = [w \in PoolThreads |-> "unborn"]
-----------------------------------------------------------------------------
(* IDispatchQueueScheduler, called with m_mutex released. *)

Waiting == {w \in PoolThreads : pc[w] = "wait"}

(* Mutant: the bound on m_threadCount is off by one. *)
NeedsOneThreadTooMany == m_busyThreads = m_threadCount /\ m_threadCount <= m_maxThreads

NeedsThread == m_busyThreads = m_threadCount /\ m_threadCount < m_maxThreads

(* Start a thread when all of them are busy, else wake one that waits. *)
RunPost(th) ==
  /\ NextCall(th, "SchedulerPost")
  /\ m_threadMutex = NoThread
  /\ IF NeedsThread
     THEN /\ m_busyThreads' = m_busyThreads + 1
          /\ m_threadCount' = m_threadCount + 1
          /\ pc' = [pc EXCEPT ![m_threadCount + 1] = "loop"]
     ELSE /\ UNCHANGED <<m_busyThreads, m_threadCount>>
          /\ IF Waiting = {}
             THEN UNCHANGED pc
             ELSE \E w \in Waiting : pc' = [pc EXCEPT ![w] = "woken"]
  /\ Returned(th)
  /\ UNCHANGED <<m_queue, m_shutdownAction, m_suspendCounter, clientRefs, poolRefs,
                 context, fresh, started, canceled, awaited,
                 m_maxThreads, m_isShutdown, m_threadMutex>>

SetShutdown ==
  /\ m_threadMutex = NoThread
  /\ m_isShutdown' = TRUE
  /\ pc' = [w \in PoolThreads |-> IF pc[w] = "wait" THEN "woken" ELSE pc[w]]
  /\ UNCHANGED <<m_maxThreads, m_busyThreads, m_threadCount, m_threadMutex>>

RunShutdown(th) ==
  /\ NextCall(th, "SchedulerShutdown")
  /\ SetShutdown
  /\ Returned(th)
  /\ UNCHANGED <<m_queue, m_shutdownAction, m_suspendCounter, clientRefs, poolRefs,
                 context, fresh, started, canceled, awaited>>

(* AwaitTermination: Shutdown, then m_threads is walked from the front. *)
RunAwait(th) ==
  /\ NextCall(th, "SchedulerAwait")
  /\ SetShutdown
  /\ todo' = [todo EXCEPT ![th] =
                [i \in 1..MaxConcurrentThreads |-> JoinThread(i)] \o Tail(@)]
  /\ UNCHANGED <<m_queue, m_shutdownAction, m_suspendCounter, clientRefs, poolRefs,
                 context, fresh, started, canceled, awaited>>

(* A slot without a thread is not joinable; a join ends when RunInThread   *)
(* of that thread has returned.                                            *)
RunJoin(th) ==
  /\ NextCall(th, "JoinThread")
  /\ pc[Head(todo[th]).arg] \in {"unborn", "exited"}
  /\ Returned(th)
  /\ awaited' = IF th \in Clients /\ Len(todo[th]) = 1
                THEN awaited \cup {th} ELSE awaited
  /\ UNCHANGED <<m_queue, m_shutdownAction, m_suspendCounter, clientRefs, poolRefs,
                 context, fresh, started, canceled, schedulerVars>>
-----------------------------------------------------------------------------
(* RunInThread *)

GoTo(w, from, to) == pc[w] = from /\ pc' = [pc EXCEPT ![w] = to]

GetStrongPtr(w) ==
  /\ GoTo(w, "loop", IF IsAlive THEN "drain" ELSE "exited")
  /\ poolRefs' = IF IsAlive THEN poolRefs \cup {w} ELSE poolRefs
  /\ UNCHANGED <<m_queue, m_shutdownAction, m_suspendCounter, clientRefs, todo,
                 context, fresh, started, canceled, awaited,
                 m_maxThreads, m_busyThreads, m_threadCount, m_isShutdown, m_threadMutex>>

InvokeNext(w) ==
  /\ pc[w] = "drain"
  /\ ~InTask(w)
  /\ DequeueAndInvoke(w)
  /\ UNCHANGED schedulerVars

(* TryDequeTask failed: the thread reports itself idle under the lock.     *)
(* Two steps, as another thread may enqueue between the two locks.         *)
StopDraining(w) ==
  /\ ~InTask(w)
  /\ ~HasTasks
  /\ GoTo(w, "drain", "idle")
  /\ UNCHANGED <<serviceVars, m_maxThreads, m_busyThreads, m_threadCount,
                 m_isShutdown, m_threadMutex>>

LockAndLeaveBusy(w) ==
  /\ m_threadMutex = NoThread
  /\ m_busyThreads' = m_busyThreads - 1
  /\ GoTo(w, "idle", IF m_isShutdown THEN "leave" ELSE "check")
  /\ m_threadMutex' = IF m_isShutdown THEN NoThread ELSE w
  /\ UNCHANGED <<serviceVars, m_maxThreads, m_threadCount, m_isShutdown>>

(* HasTasks: the loop goes on, and with it the scope of the strong pointer *)
(* ends.                                                                   *)
CheckAgain(w) ==
  /\ HasTasks
  /\ m_busyThreads' = m_busyThreads + 1
  /\ m_threadMutex' = NoThread
  /\ GoTo(w, "check", "again")
  /\ UNCHANGED <<serviceVars, m_maxThreads, m_threadCount, m_isShutdown>>

(* Mutant: the thread goes to sleep without a second look at the queue. *)
ReleaseAndWaitUnchecked(w) ==
  /\ ReleasePoolRef(w)
  /\ GoTo(w, "check", IF IsLastPoolRef(w) THEN "dying" ELSE "wait")
  /\ m_threadMutex' = IF IsLastPoolRef(w) THEN w ELSE NoThread
  /\ UNCHANGED <<m_maxThreads, m_busyThreads, m_threadCount, m_isShutdown>>

(* No tasks: the pointer is released and the thread waits.  Both happen    *)
(* under m_threadMutex, which only wait() gives up; a thread that released *)
(* the last reference is in ~QueueService and still owns the lock.         *)
ReleaseAndWait(w) ==
  /\ ~HasTasks
  /\ ReleasePoolRef(w)
  /\ GoTo(w, "check", IF IsLastPoolRef(w) THEN "dying" ELSE "wait")
  /\ m_threadMutex' = IF IsLastPoolRef(w) THEN w ELSE NoThread
  /\ UNCHANGED <<m_maxThreads, m_busyThreads, m_threadCount, m_isShutdown>>

(* The strong pointer goes out of scope at the continue or at the break. *)
LeaveScope(w) ==
  /\ ReleasePoolRef(w)
  /\ \/ GoTo(w, "again", IF IsLastPoolRef(w) THEN "dying" ELSE "loop")
     \/ GoTo(w, "leave", IF IsLastPoolRef(w) THEN "dying" ELSE "exited")
  /\ UNCHANGED <<m_maxThreads, m_busyThreads, m_threadCount, m_isShutdown, m_threadMutex>>

(* A condition variable may wake up without a notification. *)
SpuriousWakeUp(w) ==
  /\ GoTo(w, "wait", "woken")
  /\ UNCHANGED <<serviceVars, m_maxThreads, m_busyThreads, m_threadCount,
                 m_isShutdown, m_threadMutex>>

(* Mutant: a woken thread does not count itself busy again. *)
WakeUpUncounted(w) ==
  /\ m_threadMutex = NoThread
  /\ GoTo(w, "woken", "loop")
  /\ UNCHANGED <<serviceVars, m_maxThreads, m_busyThreads, m_threadCount, m_isShutdown,
                 m_threadMutex>>

(* wait() returns once it has the lock back. *)
WakeUp(w) ==
  /\ m_threadMutex = NoThread
  /\ GoTo(w, "woken", "loop")
  /\ m_busyThreads' = m_busyThreads + 1
  /\ UNCHANGED <<serviceVars, m_maxThreads, m_threadCount, m_isShutdown, m_threadMutex>>

WorkerStep(w) ==
  \/ GetStrongPtr(w)
  \/ InvokeNext(w)
  \/ StopDraining(w)
  \/ LockAndLeaveBusy(w)
  \/ CheckAgain(w)
  \/ ReleaseAndWait(w)
  \/ LeaveScope(w)
  \/ WakeUp(w)

CallStep(th) == RunPost(th) \/ RunShutdown(th) \/ RunAwait(th) \/ RunJoin(th)

Next ==
  \/ \E th \in Threads : (ServiceStep(th) /\ UNCHANGED schedulerVars) \/ CallStep(th)
  \/ \E w \in PoolThreads : WorkerStep(w) \/ SpuriousWakeUp(w)

(* Threads that have something to do are scheduled, and a task returns;    *)
(* nobody is obliged to call the queue.                                    *)
Fairness ==
  /\ \A th \in Threads :
       WF_vars(CallStep(th) \/ ((RunCancelTask(th) \/ TaskReturns(th))
                                /\ UNCHANGED schedulerVars))
  /\ \A w \in PoolThreads : WF_vars(WorkerStep(w))

Spec == Init /\ [][Next]_vars
FairSpec == Spec /\ Fairness

-----------------------------------------------------------------------------
(* Properties *)

(* The queue on this scheduler does what the abstract dispatch queue       *)
(* promises: every task is invoked or canceled once, in posting order.     *)
ImplementsDispatchQueue == Abstract!Spec

(* Never more tasks at once than m_maxThreads: with one thread the queue   *)
(* is serial (IsSerial), tasks of it never overlap.                        *)
ConcurrencyLimit == Cardinality({w \in PoolThreads : InTask(w)}) <= m_maxThreads

(* m_busyThreads, which Post compares with m_threadCount, counts the       *)
(* threads between a wake-up and the next idle report, so it never wraps   *)
(* below zero, as long as the queue lives.                                 *)
Busy == {w \in PoolThreads : pc[w] \in {"loop", "drain", "idle", "again"}}
BusyThreadsExact == IsAlive => m_busyThreads = Cardinality(Busy)

(* No lost wake-up: while a task can be dequeued and the pool is not shut  *)
(* down, some thread is on its way to the queue or a scheduler Post is     *)
(* still to be made.                                                       *)
Awake == {w \in PoolThreads :
            pc[w] \in {"loop", "drain", "idle", "check", "again", "woken"}}
NoLostWakeUp == HasTasks /\ ~m_isShutdown => PostOwed \/ Awake # {}

(* The queue refers to its owner exactly while it holds tasks, so that it  *)
(* is never destroyed with tasks in it (the ~TaskQueue check), and it does *)
(* not keep itself alive without any.                                      *)
OwnerRefMatchesContents == m_queue.m_strongOwnerPtr <=> Contents(m_queue) # <<>>

(* A task that can run is run (or canceled by a shutdown), unless the      *)
(* queue is suspended or its pool is shut down.                            *)
EveryTaskHandled ==
  \A t \in Tasks :
    t \in TasksOf(Contents(m_queue))
      ~> t \notin TasksOf(Contents(m_queue)) \/ m_suspendCounter > 0 \/ m_isShutdown

(* AwaitTermination "waits until all pending tasks are completed": when it *)
(* has returned, no task is left in the queue.                             *)
AwaitCompletesPending == awaited # {} => Contents(m_queue) = <<>>

(* The scheduler can always be shut down: no thread waits for a lock it    *)
(* owns or joins itself.                                                   *)
NoSelfWait ==
  \A w \in PoolThreads :
    /\ m_threadMutex = w => ~NextCall(w, "SchedulerShutdown")
    /\ NextCall(w, "JoinThread") => Head(todo[w]).arg # w

=============================================================================
