------------------------------ MODULE Schedulers ------------------------------
(***************************************************************************)
(* A dispatch queue on any of the three schedulers, and what its users can *)
(* rely on whichever it is.                                                *)
(***************************************************************************)
EXTENDS LooperScheduler, ThreadPoolWin, UISchedulerWinRT

schedulerVars == <<commonVars, isInitialized, winVars, uiVars>>
vars == <<serviceVars, schedulerVars>>

Init ==
  /\ ServiceInit
  /\ scheduler \in SchedulerKinds
  /\ m_isShutdown = FALSE
  /\ submitted = 0
  /\ event = NewEvent
  /\ pc = [w \in PoolThreads |->
             IF scheduler = "Looper" /\ w = TheThread THEN "begin" ELSE "rest"]
  /\ isInitialized = (scheduler # "Looper")
  /\ IF scheduler = "ThreadPoolWin"
     THEN \E maxThreads \in MaxThreadsArgs :
            m_maxThreads = IF maxThreads = 0 THEN MaxConcurrentThreads ELSE maxThreads
     ELSE m_maxThreads = 1
  /\ m_usedThreads = 0
  /\ m_handlerRefCount = 0
  /\ m_taskCount = 0
  /\ crashed = FALSE

CallStep(th) ==
  \/ LooperCall(th) /\ UNCHANGED <<winVars, uiVars>>
  \/ WinCall(th) /\ UNCHANGED <<isInitialized, uiVars>>
  \/ UICall(th) /\ UNCHANGED <<isInitialized, winVars>>

ThreadStep(w) ==
  \/ LooperThread(w) /\ UNCHANGED <<winVars, uiVars>>
  \/ WinThread(w) /\ UNCHANGED <<isInitialized, uiVars>>
  \/ UIThread(w) /\ UNCHANGED <<isInitialized, winVars>>

(* A failed VerifyElseCrash ends the process. *)
Next ==
  /\ ~crashed
  /\ \/ IntializeScheduler /\ UNCHANGED <<winVars, uiVars>>
     \/ \E th \in Threads : \/ isInitialized /\ ServiceStep(th) /\ UNCHANGED schedulerVars
                            \/ CallStep(th)
     \/ \E w \in PoolThreads : ThreadStep(w)

(* A thread that has something to do is scheduled, a task returns after    *)
(* finitely many calls of the queue, and a dispatcher runs or drops its    *)
(* handlers; nobody has to call the queue.                                 *)
Fairness ==
  /\ WF_vars(IntializeScheduler /\ UNCHANGED <<winVars, uiVars>>)
  /\ \A th \in Threads :
       /\ WF_vars(CallStep(th) \/ (RunCancelTask(th) /\ UNCHANGED schedulerVars))
       /\ SF_vars(TaskReturns(th) /\ UNCHANGED schedulerVars)
  /\ \A w \in PoolThreads : WF_vars(ThreadStep(w))

Spec == Init /\ [][Next]_vars /\ Fairness
-----------------------------------------------------------------------------
TypeOK ==
  /\ ServiceTypeOK
  /\ CommonTypeOK
  /\ isInitialized \in BOOLEAN
  /\ m_maxThreads \in 1..MaxConcurrentThreads
  /\ m_usedThreads \in 0..m_maxThreads
  /\ m_handlerRefCount \in Nat
  /\ m_taskCount \in Nat
  /\ crashed \in BOOLEAN

(* On every scheduler the queue does what the abstract dispatch queue      *)
(* promises: every task is invoked or canceled once, in posting order.     *)
ImplementsDispatchQueue == Abstract!Spec

(* Tasks of a serial queue (IsSerial of the looper and of the UI           *)
(* scheduler, or MakeThreadPoolScheduler(1)) never overlap, and no more    *)
(* than m_maxThreads tasks run at once on the Windows pool, although a     *)
(* callback gives m_usedThreads back before it returns.                    *)
ConcurrencyLimit == Cardinality({w \in PoolThreads : InTask(w)}) <= m_maxThreads

(* No lost wake-up: while a task can be dequeued and the scheduler accepts *)
(* work, a Post is owed, the system has a callback to run, a thread is     *)
(* going to look at the queue, the event will wake one that does, or the   *)
(* release of the last handler will shut the queue down.                   *)
GoesToLook(w) ==
  \/ pc[w] \in {"begin", "first", "drain", "done", "recheck", "reset"}
  \/ pc[w] \in {"check", "wait"} /\ event.m_state
  \/ pc[w] \in {"leave", "drop"} /\ HandlersLost
NoLostWakeUp ==
  HasTasks /\ ~m_isShutdown =>
    PostOwed \/ submitted > 0 \/ \E w \in PoolThreads : GoesToLook(w)

(* The checks "Ref count cannot be negative" and "Task count cannot be     *)
(* negative" of the UI scheduler never fail: there is a handler reference  *)
(* for every handler the dispatcher has or is releasing, and no more tasks *)
(* than that wait for one.                                                 *)
HandlersCounted ==
  /\ ~crashed
  /\ scheduler = "UIWinRT" =>
       /\ m_handlerRefCount =
            submitted + Cardinality({w \in PoolThreads :
                                       pc[w] \in {"begin", "first", "leave", "drop"}})
       /\ m_taskCount >= submitted

(* AwaitTermination "waits until all pending tasks are completed": on the  *)
(* Windows pool, when it returns to the only client of a queue no task is  *)
(* left, those a task posted while the client waited included, unless the  *)
(* queue is suspended.                                                     *)
(* The other two do not promise it: the looper leaves its loop when it     *)
(* sees m_isShutdown, whatever was enqueued since TryDequeTask failed, and *)
(* the UI scheduler turns away the Post of a task the queue has accepted.  *)
AwaitCompletesPending ==
  [][awaited' # awaited /\ scheduler = "ThreadPoolWin" =>
       Contents(m_queue) = <<>> \/ m_suspendCounter > 0]_vars

(* A thread of the scheduler that destroys the queue from inside of its    *)
(* own loop or callback, and waits there for itself.                       *)
WaitsForItself(w) == scheduler # "Looper" /\ w \in PoolThreads /\ ~IsAlive /\ todo[w] # <<>>

(* A task that can run is run or canceled, unless its queue is suspended   *)
(* or the scheduler shut down.                                             *)
EveryTaskHandled ==
  \A t \in Tasks :
    t \in TasksOf(Contents(m_queue))
      ~> t \notin TasksOf(Contents(m_queue)) \/ m_suspendCounter > 0 \/ m_isShutdown

(* AwaitTermination and ~QueueService return to every client, and to the   *)
(* looper thread too, which detaches itself; a thread of the Windows pool  *)
(* or of a dispatcher that destroys the queue waits for itself.            *)
AwaitReturns ==
  \A th \in Threads :
    todo[th] # <<>> ~> todo[th] = <<>> \/ \E w \in PoolThreads : WaitsForItself(w)
=============================================================================
