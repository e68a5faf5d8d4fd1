--------------------------- MODULE LooperScheduler ---------------------------
(***************************************************************************)
(* LooperScheduler (looperScheduler.cpp): one thread, started by the       *)
(* constructor, drains the queue and sleeps on m_wakeUpEvent.              *)
(***************************************************************************)
EXTENDS Scheduler

VARIABLE isInitialized   \* IntializeScheduler has stored m_queue

(* The thread may run before the constructor of QueueService has passed    *)
(* the queue to the scheduler.                                             *)
IntializeScheduler ==
  /\ scheduler = "Looper"
  /\ ~isInitialized
  /\ isInitialized' = TRUE
  /\ UNCHANGED <<serviceVars, commonVars>>

LooperPost(th) ==
  /\ scheduler = "Looper"
  /\ NextCall(th, "SchedulerPost")
  /\ event' = Set(event)
  /\ Returned(th)
  /\ KeepQueue
  /\ UNCHANGED <<scheduler, m_isShutdown, submitted, pc, isInitialized>>

(* The flag, then the event, as in Post. *)
LooperShutdown(th) ==
  /\ scheduler = "Looper"
  /\ NextCall(th, "SchedulerShutdown")
  /\ m_isShutdown' = TRUE
  /\ todo' = [todo EXCEPT ![th] = <<SchedulerPost>> \o Tail(@)]
  /\ KeepQueue
  /\ UNCHANGED <<scheduler, submitted, event, pc, isInitialized>>

(* Mutant: the looper thread joins itself. *)
LooperAwaitJoins(th) ==
  /\ scheduler = "Looper"
  /\ NextCall(th, "SchedulerAwait")
  /\ todo' = [todo EXCEPT ![th] = <<SchedulerShutdown, JoinThread(TheThread)>> \o Tail(@)]
  /\ KeepQueue
  /\ UNCHANGED <<commonVars, isInitialized>>

(* The looper thread detaches itself, any other thread joins it. *)
LooperAwait(th) ==
  /\ scheduler = "Looper"
  /\ NextCall(th, "SchedulerAwait")
  /\ todo' = [todo EXCEPT ![th] =
                <<SchedulerShutdown>>
                \o (IF th = TheThread THEN <<>> ELSE <<JoinThread(TheThread)>>) \o Tail(@)]
  /\ KeepQueue
  /\ UNCHANGED <<commonVars, isInitialized>>

LooperJoin(th) ==
  /\ scheduler = "Looper"
  /\ NextCall(th, "JoinThread")
  /\ pc[TheThread] = "exited"
  /\ ReturnedFromAwait(th)
  /\ UNCHANGED <<commonVars, isInitialized>>
-----------------------------------------------------------------------------
(* RunLoop.  The scheduler outlives the loop: the queue refers to it, and  *)
(* the destructor of the queue joins the thread or runs on it.             *)

LoopTakeQueue(w) ==
  /\ GoTo(w, "begin", IF isInitialized /\ IsAlive THEN "drain" ELSE "check")
  /\ IF isInitialized THEN TakePoolRef(w) ELSE UNCHANGED serviceVars
  /\ UNCHANGED <<scheduler, m_isShutdown, submitted, event, isInitialized>>

LoopInvokeNext(w) ==
  /\ pc[w] = "drain"
  /\ ~InTask(w)
  /\ DequeueAndInvoke(w)
  /\ UNCHANGED <<commonVars, isInitialized>>

(* TryDequeTask failed; the end of the scope releases the queue. *)
LoopReleaseQueue(w) ==
  /\ ~InTask(w)
  /\ ~HasTasks
  /\ GoTo(w, "drain", "check")
  /\ ReleasePoolRef(w)
  /\ UNCHANGED <<scheduler, m_isShutdown, submitted, event, isInitialized>>

(* Mutant: the event is reset before the wait, not after it. *)
LoopCheckShutdownResets(w) ==
  /\ todo[w] = <<>>
  /\ GoTo(w, "check", IF m_isShutdown THEN "exited" ELSE "wait")
  /\ event' = Reset(event)
  /\ UNCHANGED <<serviceVars, scheduler, m_isShutdown, submitted, isInitialized>>

(* After the calls of ~QueueService, if the scope ended with that. *)
LoopCheckShutdown(w) ==
  /\ todo[w] = <<>>
  /\ GoTo(w, "check", IF m_isShutdown THEN "exited" ELSE "wait")
  /\ UNCHANGED <<serviceVars, scheduler, m_isShutdown, submitted, event, isInitialized>>

LoopWait(w) ==
  /\ pc[w] = "wait"
  /\ \/ /\ MustBlock(event, w)
        /\ event' = Block(event, w)
        /\ UNCHANGED pc
     \/ /\ MayReturn(event, w)
        /\ GoTo(w, "wait", "reset")
        /\ UNCHANGED event
  /\ UNCHANGED <<serviceVars, scheduler, m_isShutdown, submitted, isInitialized>>

LoopReset(w) ==
  /\ GoTo(w, "reset", "begin")
  /\ event' = Reset(event)
  /\ UNCHANGED <<serviceVars, scheduler, m_isShutdown, submitted, isInitialized>>

LooperCall(th) == LooperPost(th) \/ LooperShutdown(th) \/ LooperAwait(th) \/ LooperJoin(th)

LooperThread(w) ==
  /\ scheduler = "Looper"
  /\ \/ LoopTakeQueue(w) \/ LoopInvokeNext(w) \/ LoopReleaseQueue(w)
     \/ LoopCheckShutdown(w) \/ LoopWait(w) \/ LoopReset(w)
=============================================================================
