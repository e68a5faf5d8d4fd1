---------------------------- MODULE ThreadPoolWin ----------------------------
(***************************************************************************)
(* ThreadPoolSchedulerWin (threadPoolScheduler_win.cpp): the threads are   *)
(* those of the Windows thread pool, each of which runs WorkCallback once  *)
(* per SubmitThreadpoolWork.                                               *)
(***************************************************************************)
EXTENDS Scheduler

CONSTANTS MaxThreadsArgs,        \* constructor arguments to consider
          MaxConcurrentThreads

ASSUME WinAssumption ==
  /\ MaxConcurrentThreads \in Nat \ {0}
  /\ MaxThreadsArgs \subseteq 0..MaxConcurrentThreads

VARIABLES m_maxThreads, m_usedThreads

winVars == <<m_maxThreads, m_usedThreads>>

(* Mutant: the limit is tested one too late. *)
WinPostOneMore(th) ==
  /\ scheduler = "ThreadPoolWin"
  /\ NextCall(th, "SchedulerPost")
  /\ IF m_usedThreads > m_maxThreads
     THEN UNCHANGED <<m_usedThreads, submitted>>
     ELSE /\ m_usedThreads' = m_usedThreads + 1
          /\ submitted' = submitted + 1
  /\ Returned(th)
  /\ KeepQueue
  /\ UNCHANGED <<m_maxThreads, scheduler, m_isShutdown, event, pc>>

(* A compare-exchange that does not succeed is retried: one step.  Nothing *)
(* can tell the exchange from the SubmitThreadpoolWork that follows it.    *)
WinPost(th) ==
  /\ scheduler = "ThreadPoolWin"
  /\ NextCall(th, "SchedulerPost")
  /\ IF m_usedThreads = m_maxThreads
     THEN UNCHANGED <<m_usedThreads, submitted>>
     ELSE /\ m_usedThreads' = m_usedThreads + 1
          /\ submitted' = submitted + 1
  /\ Returned(th)
  /\ KeepQueue
  /\ UNCHANGED <<m_maxThreads, scheduler, m_isShutdown, event, pc>>

WinShutdown(th) ==
  /\ scheduler = "ThreadPoolWin"
  /\ NextCall(th, "SchedulerShutdown")
  /\ Returned(th)
  /\ KeepQueue
  /\ UNCHANGED <<commonVars, winVars>>

(* Mutant: fCancelPendingCallbacks is TRUE. *)
WinAwaitCancels(th) ==
  /\ scheduler = "ThreadPoolWin"
  /\ NextCall(th, "SchedulerAwait")
  /\ submitted' = 0
  /\ \A w \in PoolThreads : pc[w] = "rest"
  /\ ReturnedFromAwait(th)
  /\ UNCHANGED <<scheduler, m_isShutdown, event, pc, winVars>>

(* WaitForThreadpoolWorkCallbacks: every callback has returned. *)
WinAwait(th) ==
  /\ scheduler = "ThreadPoolWin"
  /\ NextCall(th, "SchedulerAwait")
  /\ submitted = 0
  /\ \A w \in PoolThreads : pc[w] = "rest"
  /\ ReturnedFromAwait(th)
  /\ UNCHANGED <<commonVars, winVars>>
-----------------------------------------------------------------------------
(* The thread pool gives a callback to one of its threads. *)
StartCallback(w) ==
  /\ submitted > 0
  /\ \A v \in PoolThreads : v < w => pc[v] # "rest"
  /\ GoTo(w, "rest", "begin")
  /\ submitted' = submitted - 1
  /\ UNCHANGED <<serviceVars, scheduler, m_isShutdown, event, winVars>>

(* A callback that finds no queue does not give m_usedThreads back. *)
CallbackTakeQueue(w) ==
  /\ GoTo(w, "begin", IF IsAlive THEN "first" ELSE "rest")
  /\ TakePoolRef(w)
  /\ UNCHANGED <<scheduler, m_isShutdown, submitted, event, winVars>>

CallbackInvokeNext(w) ==
  /\ pc[w] \in {"first", "drain"}
  /\ ~InTask(w)
  /\ DequeueAndInvoke(w)
  /\ pc' = [pc EXCEPT ![w] = "drain"]
  /\ UNCHANGED <<scheduler, m_isShutdown, submitted, event, winVars>>

(* The queue is empty, or the 100 ms are over after a task. *)
CallbackStops(w) ==
  /\ ~InTask(w)
  /\ todo[w] = <<>>
  /\ \/ ~HasTasks /\ GoTo(w, "first", "done")
     \/ GoTo(w, "drain", "done")
  /\ UNCHANGED <<serviceVars, scheduler, m_isShutdown, submitted, event, winVars>>

CallbackReleaseThread(w) ==
  /\ GoTo(w, "done", "recheck")
  /\ m_usedThreads' = m_usedThreads - 1
  /\ UNCHANGED <<serviceVars, scheduler, m_isShutdown, submitted, event, m_maxThreads>>

(* Mutant: no second look at the queue after --m_usedThreads. *)
CallbackForgetsTasks(w) ==
  /\ GoTo(w, "recheck", "leave")
  /\ UNCHANGED <<serviceVars, scheduler, m_isShutdown, submitted, event, winVars>>

CallbackRecheck(w) ==
  /\ GoTo(w, "recheck", "leave")
  /\ todo' = [todo EXCEPT ![w] = IF HasTasks THEN <<SchedulerPost>> ELSE <<>>]
  /\ KeepQueue
  /\ UNCHANGED <<scheduler, m_isShutdown, submitted, event, winVars>>

(* The scope of the strong pointer ends; ~QueueService, if it was the      *)
(* last one, is still inside of the callback.                              *)
CallbackReleaseQueue(w) ==
  /\ pc[w] = "leave"
  /\ w \in poolRefs
  /\ todo[w] = <<>>
  /\ ReleasePoolRef(w)
  /\ UNCHANGED <<commonVars, winVars>>

CallbackReturns(w) ==
  /\ w \notin poolRefs
  /\ todo[w] = <<>>
  /\ GoTo(w, "leave", "rest")
  /\ UNCHANGED <<serviceVars, scheduler, m_isShutdown, submitted, event, winVars>>

WinCall(th) == WinPost(th) \/ WinShutdown(th) \/ WinAwait(th)

WinThread(w) ==
  /\ scheduler = "ThreadPoolWin"
  /\ \/ StartCallback(w) \/ CallbackTakeQueue(w) \/ CallbackInvokeNext(w) \/ CallbackStops(w)
     \/ CallbackReleaseThread(w) \/ CallbackRecheck(w) \/ CallbackReleaseQueue(w)
     \/ CallbackReturns(w)
=============================================================================
