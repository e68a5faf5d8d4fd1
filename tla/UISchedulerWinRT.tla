--------------------------- MODULE UISchedulerWinRT ---------------------------
(***************************************************************************)
(* UISchedulerWinRT (uiScheduler_winrt.cpp): a task of the queue for every *)
(* handler that the CoreDispatcher of a UI thread invokes.  A dispatcher   *)
(* that is closed drops its handlers without invoking them.                *)
(***************************************************************************)
EXTENDS Scheduler

VARIABLES
  m_handlerRefCount,
  m_taskCount,
  crashed             \* a VerifyElseCrash of the scheduler failed

uiVars == <<m_handlerRefCount, m_taskCount, crashed>>

(* The handler is counted under m_mutex, then given to the dispatcher. *)
UIPost(th) ==
  /\ scheduler = "UIWinRT"
  /\ NextCall(th, "SchedulerPost")
  /\ IF m_isShutdown
     THEN UNCHANGED <<m_taskCount, m_handlerRefCount, submitted>>
     ELSE /\ m_taskCount' = m_taskCount + 1
          /\ m_handlerRefCount' = m_handlerRefCount + 1
          /\ submitted' = submitted + 1
  /\ Returned(th)
  /\ KeepQueue
  /\ UNCHANGED <<crashed, scheduler, m_isShutdown, event, pc>>

(* CleanupContext::CheckTermination, and what its destructor does. *)
IfTerminated(e, isShutdown, refCount) == IF isShutdown /\ refCount = 0 THEN Set(e) ELSE e

UIShutdown(th) ==
  /\ scheduler = "UIWinRT"
  /\ NextCall(th, "SchedulerShutdown")
  /\ m_isShutdown' = TRUE
  /\ event' = IfTerminated(event, TRUE, m_handlerRefCount)
  /\ Returned(th)
  /\ KeepQueue
  /\ UNCHANGED <<uiVars, scheduler, submitted, pc>>

(* Shutdown, then the wait for m_terminationEvent. *)
UIAwait(th) ==
  /\ scheduler = "UIWinRT"
  /\ NextCall(th, "SchedulerAwait")
  /\ todo' = [todo EXCEPT ![th] = <<SchedulerShutdown, JoinThread(TheThread)>> \o Tail(@)]
  /\ KeepQueue
  /\ UNCHANGED <<commonVars, uiVars>>

UIWait(th) ==
  /\ scheduler = "UIWinRT"
  /\ NextCall(th, "JoinThread")
  /\ \/ /\ MustBlock(event, th)
        /\ event' = Block(event, th)
        /\ UNCHANGED serviceVars
     \/ /\ MayReturn(event, th)
        /\ ReturnedFromAwait(th)
        /\ UNCHANGED event
  /\ UNCHANGED <<scheduler, m_isShutdown, submitted, pc, uiVars>>
-----------------------------------------------------------------------------
(* TaskDispatchedHandler::Invoke, the first part of TryTakeTask. *)
InvokeHandler(w) ==
  /\ submitted > 0
  /\ GoTo(w, "rest", "begin")
  /\ submitted' = submitted - 1
  /\ m_taskCount' = IF m_taskCount = 0 THEN 0 ELSE m_taskCount - 1
  /\ crashed' = (m_taskCount = 0)
  /\ UNCHANGED <<serviceVars, scheduler, m_isShutdown, event, m_handlerRefCount>>

(* The dispatcher gives a handler up. *)
DropHandler(w) ==
  /\ submitted > 0
  /\ GoTo(w, "rest", "drop")
  /\ submitted' = submitted - 1
  /\ UNCHANGED <<serviceVars, scheduler, m_isShutdown, event, uiVars>>

(* Mutant: a handler that finds no queue keeps its reference. *)
HandlerTakeQueueLeaky(w) ==
  /\ GoTo(w, "begin", IF IsAlive THEN "first" ELSE "rest")
  /\ TakePoolRef(w)
  /\ UNCHANGED <<scheduler, m_isShutdown, submitted, event, uiVars>>

HandlerTakeQueue(w) ==
  /\ GoTo(w, "begin", IF IsAlive THEN "first" ELSE "drop")
  /\ TakePoolRef(w)
  /\ UNCHANGED <<scheduler, m_isShutdown, submitted, event, uiVars>>

(* TryDequeTask, which a suspended or an empty queue refuses. *)
HandlerInvokeTask(w) ==
  /\ GoTo(w, "first", "leave")
  /\ IF HasTasks THEN DequeueAndInvoke(w) ELSE UNCHANGED serviceVars
  /\ UNCHANGED <<scheduler, m_isShutdown, submitted, event, uiVars>>

HandlerReleaseQueue(w) ==
  /\ ~InTask(w)
  /\ todo[w] = <<>>
  /\ GoTo(w, "leave", "drop")
  /\ ReleasePoolRef(w)
  /\ UNCHANGED <<scheduler, m_isShutdown, submitted, event, uiVars>>

(* CheckShutdown: tasks are left, but no handler that would invoke them. *)
HandlersLost == m_taskCount # 0 /\ m_handlerRefCount = 1

(* ReleaseHandlerRef: the section of m_mutex, then the event if the        *)
(* scheduler has terminated,                                               *)
ReleaseHandlerRef(w) ==
  /\ todo[w] = <<>>
  /\ m_handlerRefCount' = m_handlerRefCount - 1
  /\ crashed' = (m_handlerRefCount = 0)
  /\ m_taskCount' = IF HandlersLost THEN 0 ELSE m_taskCount
  /\ m_isShutdown' = (m_isShutdown \/ HandlersLost)
  /\ event' = IfTerminated(event, m_isShutdown', m_handlerRefCount')
  /\ GoTo(w, "drop", IF HandlersLost THEN "cleanup" ELSE "rest")
  /\ UNCHANGED <<serviceVars, scheduler, submitted>>

(* Mutant: the queue is emptied, but nobody cancels its tasks. *)
CleanupDropsTasks(w) ==
  /\ GoTo(w, "cleanup", "rest")
  /\ m_queue' = AfterDequeueAll(m_queue)
  /\ UNCHANGED <<m_shutdownAction, m_suspendCounter, clientRefs, poolRefs, todo, context,
                 fresh, started, canceled, awaited>>
  /\ UNCHANGED <<scheduler, m_isShutdown, submitted, event, uiVars>>

(* then the queue, if it is still there, is shut down. *)
CleanupShutdown(w) ==
  /\ IF IsAlive
     THEN /\ GoTo(w, "cleanup", "leaveCleanup")
          /\ poolRefs' = poolRefs \cup {w}
          /\ ShutdownThen(w, "Cancel", <<>>)
          /\ UNCHANGED <<m_suspendCounter, clientRefs, context, fresh, started, canceled, awaited>>
     ELSE /\ GoTo(w, "cleanup", "rest")
          /\ UNCHANGED serviceVars
  /\ UNCHANGED <<scheduler, m_isShutdown, submitted, event, uiVars>>

CleanupReleaseQueue(w) ==
  /\ todo[w] = <<>>
  /\ GoTo(w, "leaveCleanup", "rest")
  /\ ReleasePoolRef(w)
  /\ UNCHANGED <<scheduler, m_isShutdown, submitted, event, uiVars>>

UICall(th) == UIPost(th) \/ UIShutdown(th) \/ UIAwait(th) \/ UIWait(th)

UIThread(w) ==
  /\ scheduler = "UIWinRT"
  /\ \/ w = TheThread /\ (InvokeHandler(w) \/ DropHandler(w))
     \/ HandlerTakeQueue(w) \/ HandlerInvokeTask(w) \/ HandlerReleaseQueue(w)
     \/ ReleaseHandlerRef(w) \/ CleanupShutdown(w) \/ CleanupReleaseQueue(w)
=============================================================================
