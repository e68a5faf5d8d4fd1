------------------------------ MODULE Scheduler ------------------------------
(***************************************************************************)
(* What the schedulers of LooperScheduler, ThreadPoolWin and               *)
(* UISchedulerWinRT have in common: a dispatch queue (QueueService) whose  *)
(* scheduler is chosen when it is made, the positions of the threads that  *)
(* run its tasks, and one event (eventWaitHandle).                         *)
(***************************************************************************)
EXTENDS QueueService, FiniteSets

CONSTANT SchedulerKinds  \* the schedulers to consider

ASSUME SchedulerAssumption ==
  /\ SchedulerKinds \subseteq {"Looper", "ThreadPoolWin", "UIWinRT"}
  /\ IsFiniteSet(Clients)
  /\ IsFiniteSet(PoolThreads)
  /\ PoolThreads # {}
  /\ PoolThreads = 1..Cardinality(PoolThreads)

VARIABLES
  scheduler,      \* the kind of m_scheduler
  m_isShutdown,
  submitted,      \* callbacks the system (thread pool, dispatcher) has to run
  event,          \* m_wakeUpEvent, m_terminationEvent
  pc              \* where a pool thread is in the code of the scheduler

commonVars == <<scheduler, m_isShutdown, submitted, event, pc>>

(* rest: runs nothing of this queue   begin: before GetStrongPtr           *)
(* first, drain: TryDequeTask loop, before and after the first task        *)
(* done, recheck, leave: after the loop                                    *)
(* check, wait, reset: the sleep of a looper                               *)
(* drop, cleanup, leaveCleanup: a handler is released                      *)
(* exited: the thread has returned                                         *)
PcValues == {"rest", "begin", "first", "drain", "done", "recheck", "leave",
             "check", "wait", "reset", "drop", "cleanup", "leaveCleanup", "exited"}

CommonTypeOK ==
  /\ scheduler \in SchedulerKinds
  /\ m_isShutdown \in BOOLEAN
  /\ submitted \in Nat
  /\ event \in [m_state : BOOLEAN, m_cond : SUBSET Threads]
  /\ pc \in [PoolThreads -> PcValues]

(* The one thread of a looper, or of a CoreDispatcher. *)
TheThread == 1

GoTo(w, from, to) == pc[w] = from /\ pc' = [pc EXCEPT ![w] = to]

(* What a scheduler call that only returns leaves alone. *)
KeepQueue == UNCHANGED <<m_queue, m_shutdownAction, m_suspendCounter, clientRefs, poolRefs,
                         context, fresh, started, canceled, awaited>>

(* AwaitTermination of a client returns. *)
ReturnedFromAwait(th) ==
  /\ Returned(th)
  /\ awaited' = IF th \in Clients THEN awaited \cup {th} ELSE awaited
  /\ UNCHANGED <<m_queue, m_shutdownAction, m_suspendCounter, clientRefs, poolRefs,
                 context, fresh, started, canceled>>

(* m_queue.GetStrongPtr() *)
TakePoolRef(w) ==
  /\ poolRefs' = IF IsAlive THEN poolRefs \cup {w} ELSE poolRefs
  /\ UNCHANGED <<m_queue, m_shutdownAction, m_suspendCounter, clientRefs, todo,
                 context, fresh, started, canceled, awaited>>
-----------------------------------------------------------------------------
(* A ManualResetEvent: m_state, and the threads blocked in m_cond.  Every  *)
(* method holds the mutex of the event, so it is one step.                 *)
NewEvent == [m_state |-> FALSE, m_cond |-> {}]

Set(e) == [m_state |-> TRUE, m_cond |-> {}]

Reset(e) == [m_state |-> FALSE, m_cond |-> e.m_cond]

(* Wait() blocks a thread that does not find m_state set; one that is not  *)
(* blocked any more looks again.                                           *)
MayReturn(e, th) == th \notin e.m_cond /\ e.m_state
MustBlock(e, th) == th \notin e.m_cond /\ ~e.m_state
Block(e, th) == [m_state |-> e.m_state, m_cond |-> e.m_cond \cup {th}]
=============================================================================
