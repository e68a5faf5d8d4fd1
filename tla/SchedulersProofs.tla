--------------------------- MODULE SchedulersProofs ---------------------------
(***************************************************************************)
(* Proofs about Schedulers, for every number of clients, threads and       *)
(* tasks: an inductive invariant for each scheduler and what follows.      *)
(***************************************************************************)
EXTENDS Schedulers, QueueServiceProofs, FiniteSetTheorems

(* A pool thread runs tasks only at one place of its loop, and holds calls *)
(* to make only inside of a task or in ~QueueService.                      *)
LooperControl ==
  /\ \A w \in PoolThreads :
       pc[w] \in IF w = TheThread
                 THEN {"begin", "drain", "check", "wait", "reset", "exited"}
                 ELSE {"rest"}
  /\ \A th \in Threads : InTask(th) => th \in PoolThreads /\ pc[th] = "drain"
  /\ \A w \in PoolThreads : todo[w] # <<>> => InTask(w) \/ pc[w] = "check"

(* The looper gives up only after a shutdown, and nobody can use the queue *)
(* before IntializeScheduler.                                              *)
LooperInv ==
  /\ LooperControl
  /\ m_maxThreads = 1
  /\ \A w \in PoolThreads : pc[w] = "exited" => m_isShutdown
  /\ ~isInitialized => IsEmpty(m_queue)

WinControl ==
  /\ \A w \in PoolThreads :
       pc[w] \in {"rest", "begin", "first", "drain", "done", "recheck", "leave"}
  /\ \A th \in Threads : InTask(th) => th \in PoolThreads /\ pc[th] = "drain"
  /\ \A w \in PoolThreads : todo[w] # <<>> => InTask(w) \/ pc[w] = "leave"
  /\ \A w \in PoolThreads : pc[w] \in {"first", "drain", "done", "recheck"} => w \in poolRefs

(* m_usedThreads counts the callbacks that are submitted or have not given *)
(* it back, exactly while the queue lives.                                 *)
UsedBy == {w \in PoolThreads : pc[w] \in {"begin", "first", "drain", "done"}}
WinInv ==
  /\ WinControl
  /\ submitted + Cardinality(UsedBy) <= m_usedThreads
  /\ IsAlive => submitted + Cardinality(UsedBy) = m_usedThreads

UIControl ==
  /\ \A w \in PoolThreads :
       pc[w] \in IF w = TheThread
                 THEN {"rest", "begin", "first", "leave", "drop", "cleanup", "leaveCleanup"}
                 ELSE {"rest"}
  /\ \A th \in Threads : InTask(th) => th \in PoolThreads /\ pc[th] = "leave"
  /\ \A w \in PoolThreads :
       /\ todo[w] # <<>> => InTask(w) \/ pc[w] \in {"drop", "leaveCleanup", "rest"}
       /\ pc[w] \in {"cleanup", "leaveCleanup"} \/ (pc[w] = "rest" /\ todo[w] # <<>>) =>
            m_isShutdown /\ submitted = 0

(* How many of the places X the one thread of the dispatcher is at. *)
Here(X) == IF pc[TheThread] \in X THEN 1 ELSE 0

(* The calls of the scheduler's Post that are still to be made.  They are  *)
(* numbered from the last call back, so that a call that returns does not  *)
(* renumber those behind it.                                               *)
OwedBy(th, s) == {<<th, Len(s) - i>> : i \in {i \in DOMAIN s : s[i] = SchedulerPost}}
OwedIn(calls) == UNION {OwedBy(th, calls[th]) : th \in Threads}
Owed == OwedIn(todo)

(* Every task that can be dequeued has a Post to come, a handler that was  *)
(* counted, or one that is about to dequeue.                               *)
UIInv ==
  /\ UIControl
  /\ m_maxThreads = 1
  /\ m_handlerRefCount = submitted + Here({"begin", "first", "leave", "drop"})
  /\ m_taskCount >= submitted
  /\ m_taskCount > 0 /\ ~m_isShutdown => m_handlerRefCount > 0
  /\ m_suspendCounter = 0 /\ ~m_isShutdown =>
       Size(m_queue) <= Cardinality(Owed) + m_taskCount + Here({"begin", "first"})

IndInv ==
  /\ TypeOK
  /\ QueueOK(m_queue)
  /\ ~crashed
  /\ scheduler # "Looper" => isInitialized
  /\ scheduler # "UIWinRT" => m_taskCount = 0
  /\ scheduler = "Looper" => LooperInv
  /\ scheduler = "ThreadPoolWin" => WinInv
  /\ scheduler = "UIWinRT" => UIInv
  /\ NoLostWakeUp
-----------------------------------------------------------------------------
(* The threads are finitely many, and the first one is among them. *)
LEMMA ThreadsFinite ==
  /\ IsFiniteSet(PoolThreads) /\ IsFiniteSet(Threads) /\ PoolThreads \subseteq Threads
  /\ TheThread \in PoolThreads /\ TheThread \in Threads /\ PoolThreads \subseteq Nat
  <1>1. Cardinality(PoolThreads) \in Nat
    BY SchedulerAssumption, FS_CardinalityType
  <1>2. TheThread \in PoolThreads /\ PoolThreads \subseteq Nat
    BY <1>1, SchedulerAssumption DEF TheThread
  <1>3. IsFiniteSet(Threads)
    BY SchedulerAssumption, FS_Union DEF Threads
  <1> QED BY <1>2, <1>3, SchedulerAssumption DEF Threads

(* A call of the scheduler changes nothing of the service but the calls    *)
(* its thread has to make, and cancels nothing.                            *)
LEMMA CallEffect ==
  ASSUME ServiceOK, NEW th \in Threads, CallStep(th)
  PROVE  /\ UNCHANGED <<m_queue, m_shutdownAction, m_suspendCounter, clientRefs, poolRefs,
                        context, fresh, started, canceled>>
         /\ awaited' \in SUBSET Clients
         /\ \/ todo' = todo
            \/ /\ todo[th] # <<>> /\ Head(todo[th]).call # "CancelTask"
               /\ \E p \in Seq(Calls) : /\ TasksOf(p) \cap CancelCalls = {}
                                        /\ todo' = [todo EXCEPT ![th] = p \o Tail(todo[th])]
  <1> DEFINE Same == UNCHANGED <<m_queue, m_shutdownAction, m_suspendCounter, clientRefs,
                                 poolRefs, context, fresh, started, canceled>>
             Calling == todo[th] # <<>> /\ Head(todo[th]).call # "CancelTask"
  <1>1. awaited \in SUBSET Clients /\ todo \in [Threads -> Seq(Calls)]
    BY DEF ServiceOK, ServiceTypeOK
  <1>2. ASSUME \/ LooperPost(th) \/ LooperJoin(th) \/ WinPost(th) \/ WinShutdown(th)
               \/ WinAwait(th) \/ UIPost(th) \/ UIShutdown(th)
        PROVE  Same /\ awaited' \in SUBSET Clients /\ Calling /\ Returned(th)
    BY <1>1, <1>2 DEF LooperPost, LooperJoin, WinPost, WinShutdown, WinAwait, UIPost,
                      UIShutdown, NextCall, KeepQueue, ReturnedFromAwait
  <1>3. ASSUME Calling, Returned(th)
        PROVE  \E p \in Seq(Calls) : /\ TasksOf(p) \cap CancelCalls = {}
                                     /\ todo' = [todo EXCEPT ![th] = p \o Tail(todo[th])]
    <2> DEFINE e == <<>>
    <2>1. e \in Seq(Calls) /\ TasksOf(e) \cap CancelCalls = {}
      BY DEF TasksOf
    <2>2. e \o Tail(todo[th]) = Tail(todo[th])
      BY <1>1, <1>3, ConcatEmptySeq
    <2>3. todo' = [todo EXCEPT ![th] = e \o Tail(todo[th])]
      BY <1>3, <2>2 DEF Returned
    <2> HIDE DEF e
    <2> QED BY <2>1, <2>3
  <1>4. CASE UIWait(th)
    <2>1. /\ Same /\ awaited' \in SUBSET Clients /\ Calling
          /\ todo' = todo \/ Returned(th)
      BY <1>1, <1>4 DEF UIWait, NextCall, ReturnedFromAwait, serviceVars
    <2> QED BY <1>3, <2>1
  <1>5. CASE LooperShutdown(th)
    <2> DEFINE p == <<SchedulerPost>>
    <2>1. p \in Seq(Calls) /\ TasksOf(p) \cap CancelCalls = {}
      BY CallTypes, OneTask, CancelCallsDistinct
    <2>2. /\ Same /\ awaited' = awaited /\ Calling
          /\ todo' = [todo EXCEPT ![th] = p \o Tail(todo[th])]
      BY <1>5 DEF LooperShutdown, NextCall, KeepQueue
    <2> HIDE DEF p
    <2> QED BY <1>1, <2>1, <2>2
  <1>6. JoinThread(TheThread) \in Calls
    BY CallTypes, ThreadsFinite
  <1>7. CASE UIAwait(th)
    <2> DEFINE p == <<SchedulerShutdown, JoinThread(TheThread)>>
    <2>1. p \in Seq(Calls)
      BY <1>6, CallTypes
    <2>2. TasksOf(p) \cap CancelCalls = {}
      <3>1. TasksOf(p) \subseteq {SchedulerShutdown, JoinThread(TheThread)}
        BY DEF TasksOf
      <3> QED BY <3>1, CancelCallsDistinct
    <2>3. /\ Same /\ awaited' = awaited /\ Calling
          /\ todo' = [todo EXCEPT ![th] = p \o Tail(todo[th])]
      BY <1>7 DEF UIAwait, NextCall, KeepQueue
    <2> HIDE DEF p
    <2> QED BY <1>1, <2>1, <2>2, <2>3
  <1>8. CASE LooperAwait(th)
    <2> DEFINE h == <<SchedulerShutdown>>
               j == IF th = TheThread THEN <<>> ELSE <<JoinThread(TheThread)>>
    <2>1. h \in Seq(Calls) /\ TasksOf(h) = {SchedulerShutdown}
      BY CallTypes, OneTask
    <2>2. j \in Seq(Calls) /\ TasksOf(j) \subseteq {JoinThread(TheThread)}
      BY <1>6 DEF TasksOf
    <2>3. /\ Same /\ awaited' = awaited /\ Calling
          /\ todo' = [todo EXCEPT ![th] = h \o j \o Tail(todo[th])]
      BY <1>8 DEF LooperAwait, NextCall, KeepQueue
    <2> HIDE DEF h, j
    <2> DEFINE p == h \o j
    <2>4. p \in Seq(Calls) /\ TasksOf(p) = TasksOf(h) \cup TasksOf(j)
      BY <2>1, <2>2, ConcatTasks
    <2>5. TasksOf(p) \cap CancelCalls = {}
      BY <2>1, <2>2, <2>4, CancelCallsDistinct
    <2>6. todo' = [todo EXCEPT ![th] = p \o Tail(todo[th])]
      BY <2>3
    <2> HIDE DEF p
    <2> QED BY <1>1, <2>3, <2>4, <2>5, <2>6
  <1> QED BY <1>2, <1>3, <1>4, <1>5, <1>7, <1>8
          DEF CallStep, LooperCall, WinCall, UICall

(* What a step of a pool thread does to the service: nothing but take a    *)
(* reference, start a task, drop a reference, owe a Post, or shut the      *)
(* queue down; a thread that does the last four has no calls to make.      *)
LEMMA ThreadEffect ==
  ASSUME IndInv, NEW w \in PoolThreads, ThreadStep(w)
  PROVE  \/ /\ todo' = todo /\ poolRefs' \in {poolRefs, poolRefs \cup {w}} /\ Kept
            /\ UNCHANGED <<m_suspendCounter, clientRefs, awaited>>
         \/ DequeueAndInvoke(w) /\ ~InTask(w)
         \/ ReleasePoolRef(w) /\ todo[w] = <<>> /\ ~InTask(w)
         \/ /\ todo' = [todo EXCEPT ![w] = IF HasTasks THEN <<SchedulerPost>> ELSE <<>>]
            /\ todo[w] = <<>> /\ ~InTask(w) /\ KeepQueue
         \/ /\ ShutdownThen(w, "Cancel", <<>>) /\ todo[w] = <<>> /\ ~InTask(w)
            /\ poolRefs' = poolRefs \cup {w}
            /\ UNCHANGED <<m_suspendCounter, clientRefs, context, fresh, started, canceled,
                           awaited>>
  <1> USE DEF IndInv
  <1>0. w \in Threads
    BY ThreadsFinite
  <1>1. CASE scheduler = "Looper" /\ LooperThread(w)
    <2>1. CASE LoopTakeQueue(w)
      BY <2>1 DEF LoopTakeQueue, TakePoolRef, Kept, serviceVars
    <2>2. CASE LoopInvokeNext(w)
      BY <2>2 DEF LoopInvokeNext
    <2>3. CASE LoopReleaseQueue(w)
      BY <1>0, <1>1, <2>3 DEF LoopReleaseQueue, GoTo, LooperInv, LooperControl
    <2>4. CASE LoopCheckShutdown(w) \/ LoopWait(w) \/ LoopReset(w)
      BY <2>4 DEF LoopCheckShutdown, LoopWait, LoopReset, Kept, serviceVars
    <2> QED BY <1>1, <2>1, <2>2, <2>3, <2>4 DEF LooperThread
  <1>2. CASE scheduler = "ThreadPoolWin" /\ WinThread(w)
    <2>1. CASE CallbackTakeQueue(w)
      BY <2>1 DEF CallbackTakeQueue, TakePoolRef, Kept
    <2>2. CASE CallbackInvokeNext(w)
      BY <2>2 DEF CallbackInvokeNext
    <2>3. CASE CallbackReleaseQueue(w)
      BY <1>0, <1>2, <2>3 DEF CallbackReleaseQueue, WinInv, WinControl
    <2>4. CASE CallbackRecheck(w)
      BY <1>0, <1>2, <2>4 DEF CallbackRecheck, GoTo, WinInv, WinControl
    <2>5. CASE StartCallback(w) \/ CallbackStops(w) \/ CallbackReleaseThread(w) \/ CallbackReturns(w)
      BY <2>5 DEF StartCallback, CallbackStops, CallbackReleaseThread, CallbackReturns, Kept,
                  serviceVars
    <2> QED BY <1>2, <2>1, <2>2, <2>3, <2>4, <2>5 DEF WinThread
  <1>3. CASE scheduler = "UIWinRT" /\ UIThread(w)
    <2>1. CASE InvokeHandler(w) \/ DropHandler(w) \/ ReleaseHandlerRef(w)
      BY <2>1 DEF InvokeHandler, DropHandler, ReleaseHandlerRef, Kept, serviceVars
    <2>2. CASE HandlerTakeQueue(w)
      BY <2>2 DEF HandlerTakeQueue, TakePoolRef, Kept
    <2>3. CASE HandlerInvokeTask(w)
      BY <1>0, <1>3, <2>3 DEF HandlerInvokeTask, GoTo, UIInv, UIControl, Kept, serviceVars
    <2>4. CASE HandlerReleaseQueue(w)
      BY <2>4 DEF HandlerReleaseQueue
    <2>5. CASE CleanupReleaseQueue(w)
      BY <1>0, <1>3, <2>5 DEF CleanupReleaseQueue, GoTo, UIInv, UIControl
    <2>6. CASE CleanupShutdown(w)
      BY <1>0, <1>3, <2>6 DEF CleanupShutdown, GoTo, UIInv, UIControl, Kept, serviceVars
    <2> QED BY <1>3, <2>1, <2>2, <2>3, <2>4, <2>5, <2>6 DEF UIThread
  <1> QED BY <1>1, <1>2, <1>3 DEF ThreadStep, LooperThread, WinThread, UIThread

(* Whoever takes a step, the service stays well formed, and the step is    *)
(* one of the abstract dispatch queue or none.                             *)
LEMMA ServiceEffect ==
  ASSUME IndInv, [Next]_vars
  PROVE  ServiceOK' /\ (Places => Places' /\ [Abstract!Next]_(Abstract!vars))
  <1> DEFINE Result == ServiceOK' /\ (Places => Places' /\ [Abstract!Next]_(Abstract!vars))
  <1>1. ServiceOK /\ PoolThreads \subseteq Threads
    BY ThreadsFinite DEF IndInv, ServiceOK, TypeOK
  <1>2. ASSUME NEW th \in Threads, ServiceStep(th) PROVE Result
    BY <1>1, <1>2, ServiceStepOK, ServiceStepPlaces
  <1>3. ASSUME NEW th \in Threads, CallStep(th) PROVE Result
    <2>1. /\ UNCHANGED <<m_queue, m_shutdownAction, m_suspendCounter, clientRefs, poolRefs,
                         context, fresh, started, canceled>>
          /\ awaited' \in SUBSET Clients
          /\ \/ todo' = todo
             \/ /\ todo[th] # <<>> /\ Head(todo[th]).call # "CancelTask"
                /\ \E p \in Seq(Calls) : /\ TasksOf(p) \cap CancelCalls = {}
                                         /\ todo' = [todo EXCEPT ![th] = p \o Tail(todo[th])]
      BY <1>1, <1>3, CallEffect
    <2>2. CASE todo' = todo
      BY <1>1, <2>1, <2>2, StutterPlaces DEF ServiceOK, ServiceTypeOK, Kept
    <2>3. CASE todo' # todo
      <3>1. PICK p \in Seq(Calls) : /\ TasksOf(p) \cap CancelCalls = {}
                                    /\ todo' = [todo EXCEPT ![th] = p \o Tail(todo[th])]
        BY <2>1, <2>3
      <3>2. Tail(todo[th]) \in Seq(Calls)
        BY <1>1, <2>1, <2>3 DEF ServiceOK, ServiceTypeOK
      <3>3. p \o Tail(todo[th]) \in Seq(Calls)
        BY <3>1, <3>2
      <3>4. ServiceOK'
        BY <1>1, <2>1, <3>1, <3>3 DEF ServiceOK, ServiceTypeOK
      <3>5. ASSUME Places PROVE Places' /\ UNCHANGED Abstract!vars
        BY <1>1, <2>1, <2>3, <3>1, <3>5, CallPlaces DEF Kept
      <3> QED BY <3>4, <3>5
    <2> QED BY <2>2, <2>3
  <1>4. ASSUME NEW w \in PoolThreads, ThreadStep(w) PROVE Result
    <2>1. CASE /\ todo' = todo /\ poolRefs' \in {poolRefs, poolRefs \cup {w}} /\ Kept
               /\ UNCHANGED <<m_suspendCounter, clientRefs, awaited>>
      <3>1. ServiceOK'
        BY <1>1, <2>1 DEF ServiceOK, ServiceTypeOK, Kept
      <3> QED BY <2>1, <3>1, StutterPlaces
    <2>2. CASE DequeueAndInvoke(w) /\ ~InTask(w)
      BY <1>1, <2>2, DequeueAndInvokeOK, DequeuePlaces
    <2>3. CASE ReleasePoolRef(w) /\ todo[w] = <<>>
      <3>1. ServiceOK'
        BY <1>1, <2>3, ReleasePoolRefOK
      <3>2. PICK last : DestroyIf(last, w)
        BY <2>3 DEF ReleasePoolRef
      <3> QED BY <1>1, <2>3, <3>1, <3>2, DestroyPlaces DEF ReleasePoolRef
    <2>4. CASE /\ todo' = [todo EXCEPT ![w] = IF HasTasks THEN <<SchedulerPost>> ELSE <<>>]
               /\ todo[w] = <<>> /\ KeepQueue
      <3> DEFINE s == IF HasTasks THEN <<SchedulerPost>> ELSE <<>>
      <3>1. s \in Seq(Calls) /\ TasksOf(s) \subseteq {SchedulerPost}
        BY CallTypes DEF TasksOf
      <3>2. todo' = [todo EXCEPT ![w] = s]
        BY <2>4
      <3> HIDE DEF s
      <3>3. ServiceOK'
        BY <1>1, <2>4, <3>1, <3>2 DEF KeepQueue, ServiceOK, ServiceTypeOK
      <3>4. Kept /\ TasksOf(s) \cap CancelCalls = {}
        BY <2>4, <3>1, CancelCallsDistinct DEF KeepQueue, Kept
      <3> QED BY <1>1, <2>4, <3>1, <3>2, <3>3, <3>4, IdlePlaces
    <2>5. CASE /\ ShutdownThen(w, "Cancel", <<>>) /\ todo[w] = <<>>
               /\ poolRefs' = poolRefs \cup {w}
               /\ UNCHANGED <<m_suspendCounter, clientRefs, context, fresh, started, canceled,
                              awaited>>
      <3>1. <<>> \in Seq(Calls) /\ "Cancel" \in PendingTaskAction /\ w \in Threads
            /\ TasksOf(<<>>) \cap CancelCalls = {}
        BY <1>1 DEF TasksOf, PendingTaskAction
      <3>2. /\ QueueOK(m_queue') /\ todo' \in [Threads -> Seq(Calls)]
            /\ m_shutdownAction' \in PendingTaskAction
        BY <1>1, <2>5, <3>1, ShutdownThenOK
      <3>3. ServiceOK'
        BY <1>1, <2>5, <3>2 DEF ServiceOK, ServiceTypeOK, QueueOK
      <3> QED BY <1>1, <2>5, <3>1, <3>3, ShutdownPlaces
    <2> QED BY <1>4, <2>1, <2>2, <2>3, <2>4, <2>5, ThreadEffect
  <1>5. CASE UNCHANGED serviceVars
    BY <1>1, <1>5, StutterPlaces DEF serviceVars, ServiceOK, ServiceTypeOK, Kept
  <1> QED BY <1>2, <1>3, <1>4, <1>5 DEF Next, vars, IntializeScheduler

(* The event stays one. *)
LEMMA EventTypes ==
  ASSUME NEW e \in [m_state : BOOLEAN, m_cond : SUBSET Threads], NEW th \in Threads
  PROVE  /\ Set(e) \in [m_state : BOOLEAN, m_cond : SUBSET Threads]
         /\ Reset(e) \in [m_state : BOOLEAN, m_cond : SUBSET Threads]
         /\ Block(e, th) \in [m_state : BOOLEAN, m_cond : SUBSET Threads]
         /\ Set(e).m_state = TRUE /\ Block(e, th).m_state = e.m_state
  BY DEF Set, Reset, Block

(* Finite sets of threads that differ by one thread. *)
LEMMA CountChange ==
  ASSUME NEW A \in SUBSET PoolThreads, NEW w \in PoolThreads
  PROVE  /\ IsFiniteSet(A) /\ Cardinality(A) \in Nat
         /\ w \in A => Cardinality(A) >= 1 /\ Cardinality(A \ {w}) = Cardinality(A) - 1
         /\ w \notin A => Cardinality(A \cup {w}) = Cardinality(A) + 1
         /\ A # {} => Cardinality(A) >= 1
         /\ Cardinality({}) = 0
  <1>1. IsFiniteSet(A) /\ Cardinality(A) \in Nat
    BY ThreadsFinite, FS_Subset, FS_CardinalityType
  <1>2. w \in A => Cardinality(A \ {w}) = Cardinality(A) - 1
    BY <1>1, FS_RemoveElement
  <1>3. w \notin A => Cardinality(A \cup {w}) = Cardinality(A) + 1
    BY <1>1, FS_AddElement
  <1>4. A # {} => Cardinality(A) # 0
    BY <1>1, FS_EmptySet
  <1>5. Cardinality({}) = 0
    BY FS_EmptySet
  <1> QED BY <1>1, <1>2, <1>3, <1>4, <1>5

SchedulerTypeOK ==
  /\ CommonTypeOK
  /\ isInitialized \in BOOLEAN
  /\ m_maxThreads \in 1..MaxConcurrentThreads
  /\ m_usedThreads \in 0..m_maxThreads
  /\ m_handlerRefCount \in Nat
  /\ m_taskCount \in Nat
  /\ crashed \in BOOLEAN

(* The steps of a looper keep the scheduler's own state well typed. *)
LEMMA LooperTypes ==
  ASSUME IndInv, NEW th \in Threads, UNCHANGED <<winVars, uiVars>>,
         LooperCall(th) \/ (th \in PoolThreads /\ LooperThread(th)) \/ IntializeScheduler
  PROVE  SchedulerTypeOK' /\ scheduler' = scheduler /\ ~crashed'
         /\ (isInitialized => isInitialized')
  <1> USE DEF IndInv, TypeOK, SchedulerTypeOK, CommonTypeOK
  <1>1. /\ UNCHANGED <<m_maxThreads, m_usedThreads, m_handlerRefCount, m_taskCount, crashed>>
        /\ SchedulerTypeOK
    BY DEF winVars, uiVars
  <1>2. /\ scheduler' = scheduler /\ submitted' = submitted
        /\ isInitialized' \in BOOLEAN /\ (isInitialized => isInitialized')
        /\ m_isShutdown' \in BOOLEAN
    BY DEF LooperCall, LooperThread, IntializeScheduler, LooperPost, LooperShutdown,
           LooperAwait, LooperJoin, LoopTakeQueue, LoopInvokeNext, LoopReleaseQueue,
           LoopCheckShutdown, LoopWait, LoopReset, commonVars
  <1>3. event' \in {event, Set(event), Reset(event), Block(event, th)}
    BY DEF LooperCall, LooperThread, IntializeScheduler, LooperPost, LooperShutdown,
           LooperAwait, LooperJoin, LoopTakeQueue, LoopInvokeNext, LoopReleaseQueue,
           LoopCheckShutdown, LoopWait, LoopReset, commonVars
  <1>4. \/ pc' = pc
        \/ th \in PoolThreads /\ \E to \in PcValues : pc' = [pc EXCEPT ![th] = to]
    BY DEF LooperCall, LooperThread, IntializeScheduler, LooperPost, LooperShutdown,
           LooperAwait, LooperJoin, LoopTakeQueue, LoopInvokeNext, LoopReleaseQueue,
           LoopCheckShutdown, LoopWait, LoopReset, commonVars, GoTo, PcValues
  <1>5. event' \in [m_state : BOOLEAN, m_cond : SUBSET Threads]
    <2>1. event \in [m_state : BOOLEAN, m_cond : SUBSET Threads]
      BY <1>1
    <2> HIDE DEF IndInv, TypeOK, SchedulerTypeOK, CommonTypeOK
    <2> DEFINE events == [m_state : BOOLEAN, m_cond : SUBSET Threads]
    <2>2. Set(event) \in events /\ Reset(event) \in events /\ Block(event, th) \in events
      BY <2>1, EventTypes
    <2> HIDE DEF events
    <2>3. event \in events
      BY <2>1 DEF events
    <2>4. event' \in events
      BY <1>3, <2>2, <2>3
    <2> QED BY <2>4 DEF events
  <1>6. pc' \in [PoolThreads -> PcValues]
    BY <1>4
  <1> QED BY <1>1, <1>2, <1>5, <1>6

(* So do those of the Windows pool: m_usedThreads does not wrap. *)
LEMMA WinTypes ==
  ASSUME IndInv, NEW th \in Threads, UNCHANGED <<isInitialized, uiVars>>,
         WinCall(th) \/ (th \in PoolThreads /\ WinThread(th))
  PROVE  SchedulerTypeOK' /\ scheduler' = scheduler /\ ~crashed'
         /\ (isInitialized => isInitialized')
  <1> USE DEF IndInv, TypeOK, SchedulerTypeOK, CommonTypeOK
  <1>1. /\ UNCHANGED <<isInitialized, m_handlerRefCount, m_taskCount, crashed>>
        /\ SchedulerTypeOK
    BY DEF uiVars
  <1>2. UNCHANGED <<scheduler, m_isShutdown, event, m_maxThreads>>
    BY DEF WinCall, WinThread, WinPost, WinShutdown, WinAwait, StartCallback,
           CallbackTakeQueue, CallbackInvokeNext, CallbackStops, CallbackReleaseThread,
           CallbackRecheck, CallbackReleaseQueue, CallbackReturns, commonVars, winVars
  <1>3. submitted' \in Nat
    BY DEF WinCall, WinThread, WinPost, WinShutdown, WinAwait, StartCallback,
           CallbackTakeQueue, CallbackInvokeNext, CallbackStops, CallbackReleaseThread,
           CallbackRecheck, CallbackReleaseQueue, CallbackReturns, commonVars
  <1>4. pc' \in [PoolThreads -> PcValues]
    <2>1. \/ pc' = pc
          \/ th \in PoolThreads /\ \E to \in PcValues : pc' = [pc EXCEPT ![th] = to]
      BY DEF WinCall, WinThread, WinPost, WinShutdown, WinAwait, StartCallback,
             CallbackTakeQueue, CallbackInvokeNext, CallbackStops, CallbackReleaseThread,
             CallbackRecheck, CallbackReleaseQueue, CallbackReturns, commonVars, GoTo, PcValues
    <2> QED BY <2>1
  <1>5. m_usedThreads' \in 0..m_maxThreads
    <2>1. CASE WinPost(th)
      BY <2>1, WinAssumption DEF WinPost
    <2>2. CASE th \in PoolThreads /\ scheduler = "ThreadPoolWin" /\ CallbackReleaseThread(th)
      <3>1. th \in UsedBy /\ UsedBy \in SUBSET PoolThreads
        BY <2>2 DEF CallbackReleaseThread, GoTo, UsedBy
      <3>2. Cardinality(UsedBy) >= 1 /\ Cardinality(UsedBy) \in Nat
        BY <2>2, <3>1, CountChange
      <3>3. m_usedThreads >= 1
        BY <2>2, <3>2 DEF WinInv
      <3> QED BY <2>2, <3>3, WinAssumption DEF CallbackReleaseThread
    <2>3. CASE m_usedThreads' = m_usedThreads
      BY <2>3
    <2> QED BY <2>1, <2>2, <2>3 DEF WinCall, WinThread, WinPost, WinShutdown, WinAwait,
           StartCallback, CallbackTakeQueue, CallbackInvokeNext, CallbackStops,
           CallbackReleaseThread, CallbackRecheck, CallbackReleaseQueue, CallbackReturns, winVars
  <1> QED BY <1>1, <1>2, <1>3, <1>4, <1>5

(* And those of the UI scheduler, none of whose checks fails. *)
LEMMA UITypes ==
  ASSUME IndInv, NEW th \in Threads, UNCHANGED <<isInitialized, winVars>>,
         UICall(th) \/ (th \in PoolThreads /\ UIThread(th))
  PROVE  SchedulerTypeOK' /\ scheduler' = scheduler /\ ~crashed'
         /\ (isInitialized => isInitialized')
  <1> USE DEF IndInv, TypeOK, SchedulerTypeOK, CommonTypeOK
  <1>1. /\ UNCHANGED <<isInitialized, m_maxThreads, m_usedThreads>>
        /\ SchedulerTypeOK
    BY DEF winVars
  <1>2. scheduler' = scheduler /\ scheduler = "UIWinRT" /\ UIInv
    BY DEF UICall, UIThread, UIPost, UIShutdown, UIAwait, UIWait, InvokeHandler, DropHandler,
           HandlerTakeQueue, HandlerInvokeTask, HandlerReleaseQueue, ReleaseHandlerRef,
           CleanupShutdown, CleanupReleaseQueue, commonVars
  <1> HIDE DEF IndInv, TypeOK, CommonTypeOK
  <1>3. /\ submitted \in Nat /\ m_isShutdown \in BOOLEAN /\ pc \in [PoolThreads -> PcValues]
        /\ event \in [m_state : BOOLEAN, m_cond : SUBSET Threads]
    BY DEF IndInv, TypeOK, CommonTypeOK
  <1>4. submitted' \in Nat /\ m_isShutdown' \in BOOLEAN
    <2>1. CASE UIPost(th) \/ InvokeHandler(th) \/ DropHandler(th)
      BY <1>3, <2>1 DEF UIPost, InvokeHandler, DropHandler
    <2>2. CASE ReleaseHandlerRef(th)
      <3>1. submitted' = submitted /\ m_isShutdown' = (m_isShutdown \/ HandlersLost)
        BY <2>2 DEF ReleaseHandlerRef
      <3>2. m_isShutdown' \in BOOLEAN
        BY <3>1, Zenon
      <3> QED BY <1>3, <3>1, <3>2
    <2>3. CASE UIShutdown(th)
      BY <1>3, <2>3 DEF UIShutdown
    <2>4. CASE UNCHANGED <<submitted, m_isShutdown>>
      BY <1>3, <2>4
    <2> QED BY <2>1, <2>2, <2>3, <2>4
            DEF UICall, UIThread, UIAwait, UIWait, HandlerTakeQueue, HandlerInvokeTask,
                HandlerReleaseQueue, CleanupShutdown, CleanupReleaseQueue, commonVars
  <1>5. pc' \in [PoolThreads -> PcValues]
    <2>1. CASE UICall(th)
      BY <1>3, <2>1 DEF UICall, UIPost, UIShutdown, UIAwait, UIWait, commonVars
    <2>2. CASE th \in PoolThreads /\ UIThread(th)
      <3>1. \E to \in PcValues : pc' = [pc EXCEPT ![th] = to]
        BY <2>2 DEF UIThread, InvokeHandler, DropHandler, HandlerTakeQueue, HandlerInvokeTask,
                    HandlerReleaseQueue, ReleaseHandlerRef, CleanupShutdown,
                    CleanupReleaseQueue, GoTo, PcValues
      <3> QED BY <1>3, <3>1
    <2> QED BY <2>1, <2>2
  <1>6. event' \in [m_state : BOOLEAN, m_cond : SUBSET Threads]
    <2>1. event' \in {event, Set(event), Block(event, th)}
      BY DEF UICall, UIThread, UIPost, UIShutdown, UIAwait, UIWait, InvokeHandler, DropHandler,
             HandlerTakeQueue, HandlerInvokeTask, HandlerReleaseQueue, ReleaseHandlerRef,
             CleanupShutdown, CleanupReleaseQueue, commonVars, IfTerminated
    <2>2. /\ Set(event) \in [m_state : BOOLEAN, m_cond : SUBSET Threads]
          /\ Block(event, th) \in [m_state : BOOLEAN, m_cond : SUBSET Threads]
      BY <1>3, EventTypes
    <2> QED BY <1>3, <2>1, <2>2
  <1> USE DEF IndInv, TypeOK, CommonTypeOK
  <1>7. m_handlerRefCount' \in Nat /\ m_taskCount' \in Nat /\ crashed' = FALSE
    <2>1. CASE InvokeHandler(th)
      BY <1>2, <2>1 DEF InvokeHandler, UIInv
    <2>2. CASE th \in PoolThreads /\ ReleaseHandlerRef(th)
      <3>1. pc[th] = "drop" /\ th = TheThread
        BY <1>2, <2>2 DEF ReleaseHandlerRef, GoTo, UIInv, UIControl
      <3>2. m_handlerRefCount >= 1
        BY <1>2, <3>1 DEF UIInv, Here
      <3> QED BY <2>2, <3>2 DEF ReleaseHandlerRef
    <2>3. CASE UIPost(th)
      BY <2>3 DEF UIPost
    <2>4. CASE UNCHANGED uiVars
      BY <2>4 DEF uiVars
    <2> QED BY <2>1, <2>2, <2>3, <2>4 DEF UICall, UIThread, UIShutdown, UIAwait, UIWait,
           DropHandler, HandlerTakeQueue, HandlerInvokeTask, HandlerReleaseQueue,
           CleanupShutdown, CleanupReleaseQueue
  <1> HIDE DEF IndInv, TypeOK
  <1>8. CommonTypeOK'
    BY <1>1, <1>2, <1>4, <1>5, <1>6 DEF CommonTypeOK
  <1> HIDE DEF CommonTypeOK
  <1>9. SchedulerTypeOK'
    BY <1>1, <1>7, <1>8 DEF SchedulerTypeOK
  <1> QED BY <1>1, <1>2, <1>7, <1>9

(* Every step keeps the types; the scheduler is never exchanged, its       *)
(* initialization never undone, and no check of it fails.                  *)
LEMMA TypeStep ==
  ASSUME IndInv, [Next]_vars
  PROVE  /\ TypeOK' /\ QueueOK(m_queue)' /\ ~crashed' /\ scheduler' = scheduler
         /\ (isInitialized => isInitialized')
  <1>1. ServiceOK'
    BY ServiceEffect
  <1>2. SchedulerTypeOK' /\ ~crashed' /\ scheduler' = scheduler /\ (isInitialized => isInitialized')
    <2>0. TheThread \in Threads
      BY ThreadsFinite
    <2>1. CASE IntializeScheduler /\ UNCHANGED <<winVars, uiVars>>
      BY <2>0, <2>1, LooperTypes
    <2>2. ASSUME NEW th \in Threads, CallStep(th)
          PROVE SchedulerTypeOK' /\ ~crashed' /\ scheduler' = scheduler /\ (isInitialized => isInitialized')
      BY <2>2, LooperTypes, WinTypes, UITypes DEF CallStep
    <2>3. ASSUME NEW w \in PoolThreads, ThreadStep(w)
          PROVE SchedulerTypeOK' /\ ~crashed' /\ scheduler' = scheduler /\ (isInitialized => isInitialized')
      <3>1. w \in Threads
        BY ThreadsFinite
      <3> QED BY <2>3, <3>1, LooperTypes, WinTypes, UITypes DEF ThreadStep
    <2>4. CASE UNCHANGED schedulerVars
      BY <2>4 DEF schedulerVars, commonVars, winVars, uiVars, IndInv, TypeOK, CommonTypeOK,
                  SchedulerTypeOK
    <2> QED BY <2>1, <2>2, <2>3, <2>4 DEF Next, vars
  <1> QED BY <1>1, <1>2 DEF ServiceOK, TypeOK, SchedulerTypeOK, QueueOK
-----------------------------------------------------------------------------
(* The values of a function on a finite set are finitely many. *)
LEMMA FiniteImage ==
  ASSUME NEW S, IsFiniteSet(S), NEW f, f = [x \in S |-> f[x]]
  PROVE  IsFiniteSet({f[x] : x \in S})
  <1> DEFINE T == {f[x] : x \in S}
  <1>1. f \in Surjection(S, T)
    BY DEF Surjection
  <1> HIDE DEF T
  <1>2. IsFiniteSet(T)
    BY <1>1, FS_Surjection
  <1> QED BY <1>2 DEF T

(* What it is for a Post to be owed. *)
LEMMA OwedMember ==
  ASSUME NEW f \in [Threads -> Seq(Calls)]
  PROVE  \A x : x \in OwedIn(f) <=>
           \E th \in Threads : \E i \in 1..Len(f[th]) :
             f[th][i] = SchedulerPost /\ x = <<th, Len(f[th]) - i>>
  <1>1. \A th \in Threads : DOMAIN f[th] = 1..Len(f[th])
    OBVIOUS
  <1> QED BY <1>1 DEF OwedIn, OwedBy

(* Finitely many are. *)
LEMMA OwedFinite ==
  ASSUME NEW f \in [Threads -> Seq(Calls)]
  PROVE  IsFiniteSet(OwedIn(f)) /\ Cardinality(OwedIn(f)) \in Nat
  <1>1. ASSUME NEW th \in Threads PROVE IsFiniteSet(OwedBy(th, f[th]))
    <2> DEFINE s == f[th]
               D == {i \in DOMAIN s : s[i] = SchedulerPost}
               g == [i \in D |-> <<th, Len(s) - i>>]
    <2>1. Len(s) \in Nat /\ DOMAIN s = 1..Len(s)
      OBVIOUS
    <2>2. IsFiniteSet(D)
      <3>1. IsFiniteSet(1..Len(s)) /\ D \in SUBSET (1..Len(s))
        BY <2>1, FS_Interval
      <3> QED BY <3>1, FS_Subset
    <2>3. OwedBy(th, s) = {g[i] : i \in D} /\ g = [i \in D |-> g[i]]
      BY DEF OwedBy
    <2> HIDE DEF D, g
    <2>4. IsFiniteSet({g[i] : i \in D})
      BY <2>2, <2>3, FiniteImage
    <2> QED BY <2>3, <2>4
  <1>2. IsFiniteSet(OwedIn(f))
    <2> DEFINE g == [th \in Threads |-> OwedBy(th, f[th])]
               F == {g[th] : th \in Threads}
    <2>1. g = [th \in Threads |-> g[th]] /\ \A T \in F : IsFiniteSet(T)
      BY <1>1
    <2>2. OwedIn(f) = UNION F
      BY DEF OwedIn
    <2> HIDE DEF g
    <2>3. IsFiniteSet(F)
      BY <2>1, ThreadsFinite, FiniteImage
    <2> HIDE DEF F
    <2> QED BY <2>1, <2>2, <2>3, FS_UNION
  <1> QED BY <1>2, FS_CardinalityType

(* If any is, then PostOwed. *)
LEMMA OwedPosts ==
  ASSUME ServiceOK
  PROVE  Cardinality(Owed) \in Nat /\ (Cardinality(Owed) > 0 => PostOwed)
  <1>1. todo \in [Threads -> Seq(Calls)]
    BY DEF ServiceOK, ServiceTypeOK
  <1>2. Cardinality(Owed) \in Nat
    BY <1>1, OwedFinite DEF Owed
  <1>3. ASSUME Cardinality(Owed) > 0 PROVE PostOwed
    <2>1. Owed # {}
      BY <1>3, FS_EmptySet
    <2>2. PICK th \in Threads : \E i \in 1..Len(todo[th]) : todo[th][i] = SchedulerPost
      BY <1>1, <2>1, OwedMember DEF Owed
    <2> QED BY <1>1, <2>2 DEF PostOwed, TasksOf
  <1> QED BY <1>2, <1>3

(* Size() counts the tasks. *)
LEMMA SizeCounts ==
  ASSUME NEW q, QueueOK(q)
  PROVE  Size(q) = Len(Contents(q)) /\ Size(q) \in Nat /\ (IsEmpty(q) <=> Size(q) = 0)
  <1> DEFINE u == SubSeq(q.m_buffer, q.m_index + 1, Len(q.m_buffer))
  <1>1. /\ u \in Seq(Tasks) /\ Len(u) = Len(q.m_buffer) - q.m_index
        /\ q.m_writeBuffer \in Seq(Tasks) /\ q.m_index \in Nat
        /\ Len(q.m_buffer) \in Nat /\ q.m_index <= Len(q.m_buffer)
    BY UnreadType DEF QueueOK, TaskQueueType
  <1> DEFINE w == q.m_writeBuffer
             n == Len(q.m_buffer)
             k == q.m_index
  <1>2. Contents(q) = u \o w
    BY DEF Contents
  <1>3. /\ Size(q) = n - k + Len(w) /\ (IsEmpty(q) <=> k = n /\ w = <<>>)
        /\ k \in Nat /\ n \in Nat /\ k <= n /\ Len(u) = n - k /\ w \in Seq(Tasks)
        /\ u \in Seq(Tasks)
    BY <1>1 DEF Size, ReadSize, IsEmpty, ReadIsEmpty
  <1> HIDE DEF u, w, n, k
  <1>4. Len(Contents(q)) = Len(u) + Len(w)
    BY <1>2, <1>3, ConcatProperties
  <1>5. (w = <<>> <=> Len(w) = 0) /\ Len(w) \in Nat
    BY <1>3, EmptySeq
  <1> QED BY <1>3, <1>4, <1>5

(* What the operations do to it. *)
LEMMA SizeChange ==
  ASSUME NEW q, QueueOK(q)
  PROVE  /\ \A task \in Tasks : Size(Enqueue(q, task)) = Size(q) + 1
         /\ ~IsEmpty(q) => Size(AfterDequeue(q)) = Size(q) - 1
         /\ Size(AfterDequeueAll(q)) = 0
  <1>1. Contents(q) \in Seq(Tasks) /\ Size(q) = Len(Contents(q))
    <2>1. AllTasks(q) \in Seq(Tasks) /\ Contents(q) = AllTasks(q)
      BY DequeueAllOK DEF Contents, AllTasks
    <2> QED BY <2>1, SizeCounts
  <1>2. ASSUME NEW task \in Tasks PROVE Size(Enqueue(q, task)) = Size(q) + 1
    <2>1. QueueOK(Enqueue(q, task)) /\ Contents(Enqueue(q, task)) = Append(Contents(q), task)
      BY EnqueueOK, EnqueueAppends
    <2>2. Size(Enqueue(q, task)) = Len(Append(Contents(q), task))
      BY <2>1, SizeCounts
    <2> QED BY <1>1, <2>2
  <1>3. ASSUME ~IsEmpty(q) PROVE Size(AfterDequeue(q)) = Size(q) - 1
    <2>1. /\ QueueOK(AfterDequeue(q)) /\ Contents(AfterDequeue(q)) = Tail(Contents(q))
          /\ Contents(q) # <<>>
      BY <1>3, DequeueOK, DequeueTakesHead
    <2>2. Size(AfterDequeue(q)) = Len(Tail(Contents(q)))
      BY <2>1, SizeCounts
    <2> QED BY <1>1, <2>1, <2>2
  <1>4. QueueOK(AfterDequeueAll(q)) /\ IsEmpty(AfterDequeueAll(q))
    BY DequeueAllOK
  <1>5. Size(AfterDequeueAll(q)) = 0
    BY <1>4, SizeCounts
  <1> QED BY <1>2, <1>3, <1>5

(* A queue starts in a state of the invariant, on each scheduler. *)
LEMMA InitInd == Init => IndInv
  <1> SUFFICES ASSUME Init PROVE IndInv
    OBVIOUS
  <1>1. ServiceOK
    BY ServiceInitOK DEF Init
  <1>2. /\ scheduler \in SchedulerKinds /\ scheduler \in {"Looper", "ThreadPoolWin", "UIWinRT"}
        /\ \A w \in PoolThreads :
             pc[w] = IF scheduler = "Looper" /\ w = TheThread THEN "begin" ELSE "rest"
        /\ \A th \in Threads : todo[th] = <<>> /\ ~InTask(th)
        /\ submitted = 0 /\ m_taskCount = 0 /\ m_handlerRefCount = 0 /\ m_usedThreads = 0
    BY SchedulerAssumption DEF Init, ServiceInit, NoContext, InTask
  <1>3. IsEmpty(m_queue) /\ Size(m_queue) = 0
    <2>1. IsEmpty(m_queue)
      BY DEF Init, ServiceInit, EmptyTaskQueue, IsEmpty, ReadIsEmpty
    <2> QED BY <1>1, <2>1, SizeCounts DEF ServiceOK
  <1>4. m_maxThreads \in 1..MaxConcurrentThreads /\ (scheduler # "ThreadPoolWin" => m_maxThreads = 1)
    <2>1. CASE scheduler = "ThreadPoolWin"
      <3>1. PICK maxThreads \in MaxThreadsArgs :
              m_maxThreads = IF maxThreads = 0 THEN MaxConcurrentThreads ELSE maxThreads
        BY <2>1 DEF Init
      <3> QED BY <2>1, <3>1, WinAssumption
    <2>2. CASE scheduler # "ThreadPoolWin"
      BY <2>2, WinAssumption DEF Init
    <2> QED BY <2>1, <2>2
  <1>5. TypeOK
    <2>1. pc \in [PoolThreads -> PcValues]
      BY DEF Init, PcValues
    <2>2. event \in [m_state : BOOLEAN, m_cond : SUBSET Threads]
      BY DEF Init, NewEvent
    <2>3. isInitialized \in BOOLEAN
      BY Zenon DEF Init
    <2>4. m_isShutdown \in BOOLEAN /\ crashed \in BOOLEAN
      BY DEF Init
    <2> QED BY <1>1, <1>2, <1>4, <2>1, <2>2, <2>3, <2>4
            DEF TypeOK, CommonTypeOK, ServiceOK
  <1>6. NoLostWakeUp
    BY <1>3 DEF NoLostWakeUp, HasTasks
  <1>7. ASSUME scheduler = "Looper" PROVE LooperInv
    BY <1>2, <1>3, <1>4, <1>7, ThreadsFinite DEF LooperInv, LooperControl
  <1>8. ASSUME scheduler = "ThreadPoolWin" PROVE WinInv
    <2>1. UsedBy = {} /\ Cardinality({}) = 0
      BY <1>2, <1>8, FS_EmptySet DEF UsedBy
    <2> QED BY <1>2, <1>8, <2>1, ThreadsFinite DEF WinInv, WinControl
  <1>9. ASSUME scheduler = "UIWinRT" PROVE UIInv
    <2>1. UIControl
      BY <1>2, <1>9, ThreadsFinite DEF UIControl
    <2>2. /\ Here({"begin", "first", "leave", "drop"}) = 0 /\ Here({"begin", "first"}) = 0
          /\ Cardinality(Owed) \in Nat
      BY <1>1, <1>2, <1>9, ThreadsFinite, OwedPosts DEF Here
    <2> QED BY <1>2, <1>3, <1>4, <1>9, <2>1, <2>2 DEF UIInv
  <1> QED BY <1>1, <1>2, <1>5, <1>6, <1>7, <1>8, <1>9
          DEF IndInv, Init, ServiceOK

-----------------------------------------------------------------------------
(* A call, of the queue or of its scheduler, moves no thread into a task,  *)
(* and gives a pool thread calls to make only inside of one.               *)
LEMMA OutsideControl ==
  ASSUME IndInv, NEW th \in Threads, ServiceStep(th) \/ CallStep(th)
  PROVE  /\ poolRefs' = poolRefs
         /\ \A o \in Threads : InTask(o)' => InTask(o)
         /\ \A w \in PoolThreads :
              todo'[w] # <<>> => InTask(w)' \/ (todo[w] # <<>> /\ ~InTask(w))
  <1>1. ServiceOK /\ PoolThreads \subseteq Threads
    BY ThreadsFinite DEF IndInv, ServiceOK, TypeOK
  <1>2. CASE ServiceStep(th)
    <2>1. /\ poolRefs' = poolRefs
          /\ \A o \in Threads \ {th} : todo'[o] = todo[o] /\ context'[o] = context[o]
          /\ InTask(th)' => InTask(th)
          /\ th \in PoolThreads /\ todo'[th] # <<>> =>
               InTask(th)' \/ (todo[th] # <<>> /\ context' = context)
      BY <1>1, <1>2, ServiceStepControl
    <2>2. \A o \in Threads \ {th} : InTask(o)' <=> InTask(o)
      BY <2>1 DEF InTask
    <2>3. context' = context => (InTask(th)' <=> InTask(th))
      BY DEF InTask
    <2> QED BY <1>1, <2>1, <2>2, <2>3
  <1>3. CASE CallStep(th)
    <2>1. /\ poolRefs' = poolRefs /\ context' = context
          /\ \/ todo' = todo
             \/ todo[th] # <<>> /\ \E p : todo' = [todo EXCEPT ![th] = p]
      BY <1>1, <1>3, CallEffect
    <2>2. \A o \in Threads : todo'[o] # <<>> => todo[o] # <<>>
      BY <1>1, <2>1 DEF ServiceOK, ServiceTypeOK
    <2>3. \A o \in Threads : InTask(o)' <=> InTask(o)
      BY <2>1 DEF InTask
    <2> QED BY <1>1, <2>1, <2>2, <2>3
  <1> QED BY <1>2, <1>3

(* What a pool thread does when it starts a task. *)
LEMMA DequeueControl ==
  ASSUME ServiceOK, NEW w \in Threads, DequeueAndInvoke(w)
  PROVE  /\ poolRefs' = poolRefs /\ todo' = todo /\ IsAlive /\ ~IsEmpty(m_queue)
         /\ InTask(w)' /\ \A o \in Threads \ {w} : InTask(o)' <=> InTask(o)
  <1>1. /\ poolRefs' = poolRefs /\ todo' = todo /\ ~IsEmpty(m_queue)
        /\ context' = [context EXCEPT ![w] = [stack |-> <<DequeuedTask(m_queue)>>,
                                              deferQueue |-> context[w].deferQueue]]
    BY DEF DequeueAndInvoke, HasTasks
  <1>2. context'[w].stack = <<DequeuedTask(m_queue)>>
        /\ \A o \in Threads \ {w} : context'[o] = context[o]
    BY <1>1 DEF ServiceOK, ServiceTypeOK
  <1>3. IsAlive
    BY <1>1 DEF ServiceOK, QueueOK, IsAlive
  <1> QED BY <1>1, <1>2, <1>3 DEF InTask

(* And when it drops its reference. *)
LEMMA ReleaseControl ==
  ASSUME ServiceOK, NEW w \in Threads, ReleasePoolRef(w)
  PROVE  /\ poolRefs' = poolRefs \ {w} /\ m_queue' = m_queue /\ clientRefs' = clientRefs
         /\ m_suspendCounter' = m_suspendCounter
         /\ \A o \in Threads \ {w} : todo'[o] = todo[o]
         /\ \A o \in Threads : InTask(o)' <=> InTask(o)
         /\ ~IsEmpty(m_queue) => todo' = todo
  <1>1. context' = context /\ m_queue' = m_queue
    BY DEF ReleasePoolRef, DestroyIf, ShutdownThen
  <1>2. ~IsEmpty(m_queue) => ~IsLastPoolRef(w)
    BY DEF ServiceOK, QueueOK, IsLastPoolRef
  <1>3. /\ \A o \in Threads \ {w} : todo'[o] = todo[o]
        /\ ~IsLastPoolRef(w) => todo' = todo
    BY DEF ReleasePoolRef, DestroyIf, ShutdownThen, ServiceOK, ServiceTypeOK
  <1> QED BY <1>1, <1>2, <1>3 DEF ReleasePoolRef, InTask

(* The looper's own invariant. *)
LEMMA LooperStep ==
  ASSUME IndInv, scheduler = "Looper", [Next]_vars
  PROVE  LooperInv'
  <1> USE DEF LooperInv, LooperControl
  <1>1. ServiceOK /\ PoolThreads \subseteq Threads /\ TheThread \in PoolThreads
        /\ pc \in [PoolThreads -> PcValues] /\ LooperInv
    BY ThreadsFinite DEF IndInv, ServiceOK, TypeOK, CommonTypeOK
  <1>2. ASSUME NEW th \in Threads, ServiceStep(th), isInitialized, UNCHANGED schedulerVars
        PROVE  LooperInv'
    <2>1. /\ \A o \in Threads : InTask(o)' => InTask(o)
          /\ \A w \in PoolThreads :
               todo'[w] # <<>> => InTask(w)' \/ (todo[w] # <<>> /\ ~InTask(w))
      BY <1>2, OutsideControl
    <2>2. UNCHANGED <<pc, m_isShutdown, m_maxThreads, isInitialized>>
      BY <1>2 DEF schedulerVars, commonVars, winVars
    <2> QED BY <1>1, <1>2, <2>1, <2>2
  <1>3. ASSUME NEW th \in Threads, CallStep(th) PROVE LooperInv'
    <2>1. /\ \A o \in Threads : InTask(o)' => InTask(o)
          /\ \A w \in PoolThreads :
               todo'[w] # <<>> => InTask(w)' \/ (todo[w] # <<>> /\ ~InTask(w))
      BY <1>3, OutsideControl
    <2>2. LooperCall(th) /\ UNCHANGED <<winVars, uiVars>>
      <3> USE DEF CallStep
      <3>1. ~WinCall(th)
        BY DEF WinCall, WinPost, WinShutdown, WinAwait
      <3>2. ~UICall(th)
        BY DEF UICall, UIPost, UIShutdown, UIAwait, UIWait
      <3> QED BY <1>3, <3>1, <3>2
    <2>3. UNCHANGED <<pc, m_maxThreads, isInitialized, m_queue>>
      BY <2>2 DEF LooperCall, LooperPost, LooperShutdown, LooperAwait, LooperJoin, KeepQueue,
                  ReturnedFromAwait, commonVars, winVars
    <2>4. m_isShutdown' = m_isShutdown \/ m_isShutdown' = TRUE
      BY <2>2 DEF LooperCall, LooperPost, LooperShutdown, LooperAwait, LooperJoin, commonVars
    <2> QED BY <1>1, <2>1, <2>3, <2>4
  <1>4. ASSUME NEW w \in PoolThreads, ThreadStep(w) PROVE LooperInv'
    <2>0. LooperThread(w) /\ UNCHANGED m_maxThreads
      BY <1>4 DEF ThreadStep, WinThread, UIThread, winVars
    <2>1. CASE LoopTakeQueue(w) \/ LoopCheckShutdown(w) \/ LoopWait(w) \/ LoopReset(w)
      <3>1. UNCHANGED <<context, todo, m_queue, m_isShutdown, isInitialized>>
        BY <2>1 DEF LoopTakeQueue, LoopCheckShutdown, LoopWait, LoopReset, TakePoolRef,
                    serviceVars
      <3>2. \A o \in Threads : InTask(o)' <=> InTask(o)
        BY <3>1 DEF InTask
      <3>3. /\ \A o \in PoolThreads \ {w} : pc'[o] = pc[o]
            /\ w = TheThread /\ pc[w] # "drain"
            /\ pc'[w] \in {"begin", "drain", "check", "wait", "reset", "exited"}
            /\ pc'[w] = "exited" => m_isShutdown
            /\ pc[w] = "check" => todo[w] = <<>>
        BY <1>1, <2>1 DEF LoopTakeQueue, LoopCheckShutdown, LoopWait, LoopReset, GoTo
      <3> QED BY <1>1, <2>0, <3>1, <3>2, <3>3
    <2>2. CASE LoopInvokeNext(w)
      <3>1. DequeueAndInvoke(w) /\ pc[w] = "drain"
            /\ UNCHANGED <<pc, m_isShutdown, isInitialized>>
        BY <2>2 DEF LoopInvokeNext, commonVars
      <3>2. /\ todo' = todo /\ ~IsEmpty(m_queue)
            /\ \A o \in Threads \ {w} : InTask(o)' <=> InTask(o)
        BY <1>1, <3>1, DequeueControl
      <3>3. InTask(w)'
        BY <1>1, <3>1, DequeueControl
      <3> QED BY <1>1, <2>0, <3>1, <3>2, <3>3
    <2>3. CASE LoopReleaseQueue(w)
      <3>1. ReleasePoolRef(w) /\ GoTo(w, "drain", "check")
            /\ UNCHANGED <<m_isShutdown, isInitialized>>
        BY <2>3 DEF LoopReleaseQueue
      <3>2. /\ m_queue' = m_queue /\ \A o \in Threads \ {w} : todo'[o] = todo[o]
            /\ \A o \in Threads : InTask(o)' <=> InTask(o)
        BY <1>1, <3>1, ReleaseControl
      <3>3. ~InTask(w)
        BY <2>3 DEF LoopReleaseQueue
      <3>4. \A o \in PoolThreads \ {w} : pc'[o] = pc[o]
        BY <1>1, <3>1 DEF GoTo
      <3>5. pc'[w] = "check" /\ w = TheThread
        BY <1>1, <3>1 DEF GoTo
      <3> QED BY <1>1, <2>0, <3>1, <3>2, <3>3, <3>4, <3>5
    <2> QED BY <2>0, <2>1, <2>2, <2>3 DEF LooperThread
  <1>5. CASE UNCHANGED <<serviceVars, commonVars, m_maxThreads>> /\ (isInitialized => isInitialized')
    BY <1>1, <1>5 DEF serviceVars, commonVars, InTask
  <1> QED BY <1>2, <1>3, <1>4, <1>5
          DEF Next, vars, schedulerVars, winVars, IntializeScheduler

-----------------------------------------------------------------------------
(* A step of the Windows pool is one of its own calls or callbacks. *)
LEMMA WinKind ==
  ASSUME scheduler = "ThreadPoolWin"
  PROVE  /\ \A th \in Threads : CallStep(th) => WinCall(th) /\ UNCHANGED <<isInitialized, uiVars>>
         /\ \A w \in PoolThreads : ThreadStep(w) => WinThread(w) /\ UNCHANGED <<isInitialized, uiVars>>
         /\ ~IntializeScheduler
  <1>1. \A th \in Threads : ~LooperCall(th)
    BY DEF LooperCall, LooperPost, LooperShutdown, LooperAwait, LooperJoin
  <1>2. \A th \in Threads : ~UICall(th)
    BY DEF UICall, UIPost, UIShutdown, UIAwait, UIWait
  <1>3. \A w \in PoolThreads : ~LooperThread(w) /\ ~UIThread(w)
    BY DEF LooperThread, UIThread
  <1> QED BY <1>1, <1>2, <1>3 DEF CallStep, ThreadStep, IntializeScheduler

(* Callbacks run tasks only between first and done, and hold the queue     *)
(* while they do.                                                          *)
LEMMA WinControlStep ==
  ASSUME IndInv, scheduler = "ThreadPoolWin", [Next]_vars
  PROVE  WinControl'
  <1> USE DEF WinControl
  <1>1. ServiceOK /\ PoolThreads \subseteq Threads /\ pc \in [PoolThreads -> PcValues] /\ WinControl
    BY ThreadsFinite DEF IndInv, ServiceOK, TypeOK, CommonTypeOK, WinInv
  <1>2. ASSUME NEW th \in Threads, ServiceStep(th) \/ CallStep(th), pc' = pc
        PROVE  WinControl'
    <2>1. /\ \A o \in Threads : InTask(o)' => InTask(o)
          /\ \A w \in PoolThreads :
               todo'[w] # <<>> => InTask(w)' \/ (todo[w] # <<>> /\ ~InTask(w))
          /\ poolRefs' = poolRefs
      BY <1>2, OutsideControl
    <2> QED BY <1>1, <1>2, <2>1
  <1>3. ASSUME NEW th \in Threads, CallStep(th) PROVE pc' = pc
    BY <1>3, WinKind DEF WinCall, WinPost, WinShutdown, WinAwait, commonVars
  <1>4. ASSUME NEW w \in PoolThreads, ThreadStep(w) PROVE WinControl'
    <2>0. WinThread(w)
      BY <1>4, WinKind
    <2>1. CASE \/ StartCallback(w) \/ CallbackTakeQueue(w) \/ CallbackStops(w)
               \/ CallbackReleaseThread(w) \/ CallbackReturns(w)
      <3>1. UNCHANGED <<context, todo>>
        BY <2>1 DEF StartCallback, CallbackTakeQueue, CallbackStops, CallbackReleaseThread,
                    CallbackReturns, TakePoolRef, serviceVars
      <3>2. \A o \in Threads : InTask(o)' <=> InTask(o)
        BY <3>1 DEF InTask
      <3>3. \A o \in PoolThreads \ {w} : pc'[o] = pc[o] /\ (o \in poolRefs => o \in poolRefs')
        BY <1>1, <2>1 DEF StartCallback, CallbackTakeQueue, CallbackStops,
                    CallbackReleaseThread, CallbackReturns, TakePoolRef, serviceVars, GoTo
      <3>4. /\ pc'[w] \in {"rest", "begin", "first", "done", "recheck"}
            /\ pc'[w] \in {"first", "done", "recheck"} => w \in poolRefs'
        BY <1>1, <2>1 DEF StartCallback, CallbackTakeQueue, CallbackStops,
                    CallbackReleaseThread, CallbackReturns, TakePoolRef, serviceVars, GoTo
      <3>5. todo[w] = <<>> /\ ~InTask(w)
        BY <1>1, <2>1 DEF StartCallback, CallbackTakeQueue, CallbackStops,
                    CallbackReleaseThread, CallbackReturns, GoTo
      <3> QED BY <1>1, <3>1, <3>2, <3>3, <3>4, <3>5
    <2>2. CASE CallbackInvokeNext(w)
      <3>1. DequeueAndInvoke(w) /\ pc[w] \in {"first", "drain"}
            /\ pc'[w] = "drain" /\ \A o \in PoolThreads \ {w} : pc'[o] = pc[o]
        BY <1>1, <2>2 DEF CallbackInvokeNext
      <3>2. todo' = todo /\ poolRefs' = poolRefs /\ \A o \in Threads \ {w} : InTask(o)' <=> InTask(o)
        BY <1>1, <3>1, DequeueControl
      <3>3. InTask(w)'
        BY <1>1, <3>1, DequeueControl
      <3> QED BY <1>1, <3>1, <3>2, <3>3
    <2>3. CASE CallbackRecheck(w)
      <3>1. /\ pc[w] = "recheck" /\ pc'[w] = "leave" /\ poolRefs' = poolRefs
            /\ \A o \in PoolThreads \ {w} : pc'[o] = pc[o] /\ todo'[o] = todo[o]
        BY <1>1, <2>3 DEF CallbackRecheck, GoTo, KeepQueue, ServiceOK, ServiceTypeOK
      <3>2. \A o \in Threads : InTask(o)' <=> InTask(o)
        BY <2>3 DEF CallbackRecheck, KeepQueue, InTask
      <3> QED BY <1>1, <3>1, <3>2
    <2>4. CASE CallbackReleaseQueue(w)
      <3>1. ReleasePoolRef(w) /\ pc' = pc /\ pc[w] = "leave"
        BY <2>4 DEF CallbackReleaseQueue, commonVars
      <3>2. /\ poolRefs' = poolRefs \ {w} /\ \A o \in Threads \ {w} : todo'[o] = todo[o]
            /\ \A o \in Threads : InTask(o)' <=> InTask(o)
        BY <1>1, <3>1, ReleaseControl
      <3> QED BY <1>1, <3>1, <3>2
    <2> QED BY <2>0, <2>1, <2>2, <2>3, <2>4 DEF WinThread
  <1>5. CASE UNCHANGED vars
    BY <1>1, <1>5 DEF vars, serviceVars, schedulerVars, commonVars, InTask
  <1> QED BY <1>2, <1>3, <1>4, <1>5, WinKind DEF Next, schedulerVars, commonVars

(* A queue of the Windows pool that died stays dead. *)
LEMMA WinAliveStep ==
  ASSUME IndInv, scheduler = "ThreadPoolWin", [Next]_vars
  PROVE  IsAlive' => IsAlive
  <1>1. ServiceOK /\ PoolThreads \subseteq Threads /\ WinControl
    BY ThreadsFinite DEF IndInv, ServiceOK, TypeOK, WinInv
  <1>2. ASSUME NEW th \in Threads, ServiceStep(th) PROVE IsAlive' => IsAlive
    <2>1. InTask(th) => th \in poolRefs
      BY <1>1 DEF WinControl
    <2> QED BY <1>1, <1>2, <2>1, ServiceStepAlive
  <1>3. ASSUME NEW th \in Threads, CallStep(th) PROVE IsAlive' => IsAlive
    <2>1. UNCHANGED <<m_queue, clientRefs, poolRefs>>
      BY <1>1, <1>3, CallEffect
    <2> QED BY <2>1 DEF IsAlive
  <1>4. ASSUME NEW w \in PoolThreads, ThreadStep(w) PROVE IsAlive' => IsAlive
    <2>0. WinThread(w)
      BY <1>4, WinKind
    <2>1. CASE CallbackTakeQueue(w)
      BY <2>1 DEF CallbackTakeQueue, TakePoolRef, IsAlive
    <2>2. CASE CallbackInvokeNext(w)
      BY <1>1, <2>2, DequeueControl DEF CallbackInvokeNext
    <2>3. CASE CallbackReleaseQueue(w)
      <3>1. /\ poolRefs' = poolRefs \ {w} /\ m_queue' = m_queue /\ clientRefs' = clientRefs
        BY <1>1, <2>3, ReleaseControl DEF CallbackReleaseQueue
      <3> QED BY <3>1 DEF IsAlive
    <2>4. CASE \/ StartCallback(w) \/ CallbackStops(w) \/ CallbackReleaseThread(w)
               \/ CallbackRecheck(w) \/ CallbackReturns(w)
      <3>1. UNCHANGED <<m_queue, clientRefs, poolRefs>>
        BY <2>4 DEF StartCallback, CallbackStops, CallbackReleaseThread, CallbackRecheck,
                    CallbackReturns, serviceVars, KeepQueue
      <3> QED BY <3>1 DEF IsAlive
    <2> QED BY <2>0, <2>1, <2>2, <2>3, <2>4 DEF WinThread
  <1>5. CASE UNCHANGED vars
    BY <1>5 DEF vars, serviceVars, IsAlive
  <1> QED BY <1>2, <1>3, <1>4, <1>5, WinKind DEF Next

(* How the number of callbacks that count as used follows the control. *)
LEMMA UsedChange ==
  ASSUME pc \in [PoolThreads -> PcValues], NEW w \in PoolThreads, NEW to,
         pc' = [pc EXCEPT ![w] = to]
  PROVE  LET used == {"begin", "first", "drain", "done"}
         IN /\ pc[w] \in used /\ to \in used => Cardinality(UsedBy') = Cardinality(UsedBy)
            /\ pc[w] \in used /\ to \notin used =>
                 Cardinality(UsedBy') = Cardinality(UsedBy) - 1 /\ Cardinality(UsedBy) >= 1
            /\ pc[w] \notin used /\ to \in used => Cardinality(UsedBy') = Cardinality(UsedBy) + 1
            /\ pc[w] \notin used /\ to \notin used => Cardinality(UsedBy') = Cardinality(UsedBy)
            /\ Cardinality(UsedBy) \in Nat
  <1> DEFINE used == {"begin", "first", "drain", "done"}
  <1>1. UsedBy' = IF to \in used THEN UsedBy \cup {w} ELSE UsedBy \ {w}
    BY DEF UsedBy
  <1>2. (w \in UsedBy <=> pc[w] \in used) /\ UsedBy \in SUBSET PoolThreads
    BY DEF UsedBy
  <1>3. /\ w \in UsedBy => UsedBy \cup {w} = UsedBy
        /\ w \notin UsedBy => UsedBy \ {w} = UsedBy
    OBVIOUS
  <1>4. /\ Cardinality(UsedBy) \in Nat
        /\ w \in UsedBy => Cardinality(UsedBy) >= 1 /\ Cardinality(UsedBy \ {w}) = Cardinality(UsedBy) - 1
        /\ w \notin UsedBy => Cardinality(UsedBy \cup {w}) = Cardinality(UsedBy) + 1
    BY <1>2, CountChange
  <1> QED BY <1>1, <1>2, <1>3, <1>4

(* m_usedThreads follows the callbacks. *)
LEMMA WinStep ==
  ASSUME IndInv, scheduler = "ThreadPoolWin", [Next]_vars
  PROVE  WinInv'
  <1> DEFINE Count == submitted + Cardinality(UsedBy)
  <1>1. (IsAlive' => IsAlive) /\ WinControl'
    BY WinAliveStep, WinControlStep
  <1>2. /\ submitted \in Nat /\ m_usedThreads \in Nat /\ pc \in [PoolThreads -> PcValues]
        /\ m_maxThreads \in Nat /\ m_usedThreads <= m_maxThreads
        /\ Count <= m_usedThreads /\ (IsAlive => Count = m_usedThreads)
    BY WinAssumption DEF IndInv, TypeOK, CommonTypeOK, WinInv
  <1>3. Cardinality(UsedBy) \in Nat
    <2>1. UsedBy \in SUBSET PoolThreads /\ TheThread \in PoolThreads
      BY ThreadsFinite DEF UsedBy
    <2> QED BY <2>1, CountChange
  <1>4. ASSUME submitted' + Cardinality(UsedBy') = submitted + Cardinality(UsedBy),
               m_usedThreads' = m_usedThreads
        PROVE  WinInv'
    BY <1>1, <1>2, <1>4 DEF WinInv
  <1>5. ASSUME NEW th \in Threads, CallStep(th) PROVE WinInv'
    <2>0. WinCall(th)
      BY <1>5, WinKind
    <2>1. Cardinality(UsedBy') = Cardinality(UsedBy)
      BY <2>0 DEF WinCall, WinPost, WinShutdown, WinAwait, commonVars, UsedBy
    <2>2. CASE WinPost(th) /\ m_usedThreads # m_maxThreads
      <3>1. m_usedThreads' = m_usedThreads + 1 /\ submitted' = submitted + 1
        BY <2>2 DEF WinPost
      <3> QED BY <1>1, <1>2, <1>3, <2>1, <3>1 DEF WinInv
    <2>3. CASE UNCHANGED <<m_usedThreads, submitted>>
      BY <1>4, <2>1, <2>3
    <2> QED BY <2>0, <2>2, <2>3 DEF WinCall, WinPost, WinShutdown, WinAwait, commonVars, winVars
  <1>6. ASSUME NEW w \in PoolThreads, ThreadStep(w) PROVE WinInv'
    <2>0. WinThread(w)
      BY <1>6, WinKind
    <2>1. CASE StartCallback(w)
      <3>1. /\ pc[w] = "rest" /\ pc' = [pc EXCEPT ![w] = "begin"]
            /\ submitted' = submitted - 1 /\ m_usedThreads' = m_usedThreads
        BY <2>1 DEF StartCallback, GoTo, winVars
      <3>2. Cardinality(UsedBy') = Cardinality(UsedBy) + 1
        BY <1>2, <3>1, UsedChange
      <3> QED BY <1>2, <1>3, <1>4, <3>1, <3>2
    <2>2. CASE CallbackTakeQueue(w) /\ ~IsAlive
      <3>1. /\ pc[w] = "begin" /\ pc' = [pc EXCEPT ![w] = "rest"]
            /\ submitted' = submitted /\ m_usedThreads' = m_usedThreads
        BY <2>2 DEF CallbackTakeQueue, GoTo, winVars
      <3>2. pc[w] \in {"begin", "first", "drain", "done"} /\ "rest" \notin {"begin", "first", "drain", "done"}
        BY <3>1
      <3>3. Cardinality(UsedBy') = Cardinality(UsedBy) - 1
        BY <1>2, <3>1, <3>2, UsedChange
      <3> QED BY <1>1, <1>2, <1>3, <2>2, <3>1, <3>3 DEF WinInv
    <2>3. CASE \/ CallbackTakeQueue(w) /\ IsAlive
               \/ CallbackInvokeNext(w) \/ CallbackStops(w)
      <3>1. PICK to \in {"first", "drain", "done"} : pc' = [pc EXCEPT ![w] = to]
        BY <2>3 DEF CallbackTakeQueue, CallbackInvokeNext, CallbackStops, GoTo
      <3>2. /\ pc[w] \in {"begin", "first", "drain"}
            /\ submitted' = submitted /\ m_usedThreads' = m_usedThreads
        BY <2>3 DEF CallbackTakeQueue, CallbackInvokeNext, CallbackStops, GoTo, winVars
      <3>3. to \in {"begin", "first", "drain", "done"} /\ pc[w] \in {"begin", "first", "drain", "done"}
        BY <3>1, <3>2
      <3>4. Cardinality(UsedBy') = Cardinality(UsedBy)
        BY <1>2, <3>1, <3>3, UsedChange
      <3> QED BY <1>4, <3>2, <3>4
    <2>4. CASE CallbackReleaseThread(w)
      <3>1. /\ pc[w] = "done" /\ pc' = [pc EXCEPT ![w] = "recheck"]
            /\ submitted' = submitted /\ m_usedThreads' = m_usedThreads - 1
        BY <2>4 DEF CallbackReleaseThread, GoTo
      <3>2. pc[w] \in {"begin", "first", "drain", "done"} /\ "recheck" \notin {"begin", "first", "drain", "done"}
        BY <3>1
      <3>3. Cardinality(UsedBy') = Cardinality(UsedBy) - 1
        BY <1>2, <3>1, <3>2, UsedChange
      <3> QED BY <1>1, <1>2, <1>3, <3>1, <3>3 DEF WinInv
    <2>5. CASE CallbackRecheck(w) \/ CallbackReturns(w)
      <3>1. PICK to \in {"leave", "rest"} : pc' = [pc EXCEPT ![w] = to]
        BY <2>5 DEF CallbackRecheck, CallbackReturns, GoTo
      <3>2. /\ pc[w] \in {"recheck", "leave"}
            /\ submitted' = submitted /\ m_usedThreads' = m_usedThreads
        BY <2>5 DEF CallbackRecheck, CallbackReturns, GoTo, winVars
      <3>3. /\ to \notin {"begin", "first", "drain", "done"}
            /\ pc[w] \notin {"begin", "first", "drain", "done"}
        BY <3>1, <3>2
      <3>4. Cardinality(UsedBy') = Cardinality(UsedBy)
        BY <1>2, <3>1, <3>3, UsedChange
      <3> QED BY <1>4, <3>2, <3>4
    <2>6. CASE CallbackReleaseQueue(w)
      BY <1>4, <2>6 DEF CallbackReleaseQueue, commonVars, winVars, UsedBy
    <2> QED BY <2>0, <2>1, <2>2, <2>3, <2>4, <2>5, <2>6 DEF WinThread
  <1>7. CASE UNCHANGED schedulerVars
    BY <1>4, <1>7 DEF schedulerVars, commonVars, winVars, UsedBy
  <1> QED BY <1>5, <1>6, <1>7, WinKind DEF Next, vars

-----------------------------------------------------------------------------
(* A call that returns, or makes further calls, takes at most itself from  *)
(* the calls that are owed.                                                *)
LEMMA OwedAfterCall ==
  ASSUME ServiceOK, ServiceOK', NEW th \in Threads, todo[th] # <<>>, NEW p \in Seq(Calls),
         todo' = [todo EXCEPT ![th] = p \o Tail(todo[th])]
  PROVE  /\ Cardinality(Owed') >= Cardinality(Owed) - 1
         /\ Head(todo[th]) # SchedulerPost => Cardinality(Owed') >= Cardinality(Owed)
         /\ Head(todo[th]) # SchedulerPost /\ PostOwed => PostOwed'
  <1> DEFINE s == todo[th]
             r == Tail(s)
             q == p \o r
             x == <<th, Len(s) - 1>>
  <1>1. /\ s \in Seq(Calls) /\ s # <<>> /\ r \in Seq(Calls) /\ Len(s) \in Nat /\ Len(p) \in Nat
        /\ Len(r) = Len(s) - 1 /\ \A i \in 1..Len(r) : r[i] = s[i + 1]
        /\ Head(s) = s[1]
    BY DEF ServiceOK, ServiceTypeOK
  <1>2. /\ Len(q) = Len(p) + Len(r)
        /\ \A i \in 1..(Len(p) + Len(r)) : q[i] = IF i <= Len(p) THEN p[i] ELSE r[i - Len(p)]
    BY <1>1, ConcatProperties
  <1>3. todo'[th] = q /\ \A o \in Threads \ {th} : todo'[o] = todo[o]
    BY DEF ServiceOK, ServiceTypeOK
  <1>m. /\ \A y : y \in Owed <=>
             \E o \in Threads : \E i \in 1..Len(todo[o]) :
               todo[o][i] = SchedulerPost /\ y = <<o, Len(todo[o]) - i>>
        /\ \A y : y \in Owed' <=>
             \E o \in Threads : \E i \in 1..Len(todo'[o]) :
               todo'[o][i] = SchedulerPost /\ y = <<o, Len(todo'[o]) - i>>
    BY OwedMember DEF Owed, ServiceOK, ServiceTypeOK
  <1>4. ASSUME NEW y \in Owed PROVE y \in Owed' \/ (y = x /\ Head(s) = SchedulerPost)
    <2>1. PICK o \in Threads : \E i \in 1..Len(todo[o]) :
            todo[o][i] = SchedulerPost /\ y = <<o, Len(todo[o]) - i>>
      BY <1>m
    <2>2. PICK i \in 1..Len(todo[o]) : todo[o][i] = SchedulerPost /\ y = <<o, Len(todo[o]) - i>>
      BY <2>1
    <2>3. CASE o # th
      BY <1>3, <1>m, <2>2, <2>3
    <2>4. CASE o = th /\ i = 1
      BY <1>1, <2>2, <2>4
    <2>5. CASE o = th /\ i # 1
      <3> DEFINE j == Len(p) + i - 1
      <3>0. i \in 2..Len(s) /\ s[i] = SchedulerPost /\ y = <<th, Len(s) - i>>
        BY <1>1, <2>2, <2>5
      <3> HIDE DEF s, r, q, x
      <3>1. j \in 1..(Len(p) + Len(r)) /\ j > Len(p) /\ i - 1 \in 1..Len(r) /\ j - Len(p) = i - 1
        BY <1>1, <3>0
      <3>2. r[i - 1] = s[i]
        BY <1>1, <3>0, <3>1
      <3>3. q[j] = r[i - 1]
        <4>1. ~(j <= Len(p))
          BY <1>1, <3>1
        <4> HIDE DEF j
        <4>2. q[j] = r[j - Len(p)]
          BY <1>2, <3>1, <4>1
        <4> QED BY <3>1, <4>2
      <3>4. Len(q) - j = Len(s) - i /\ j \in 1..Len(q)
        BY <1>1, <1>2, <3>0, <3>1
      <3>5. j \in 1..Len(todo'[th]) /\ todo'[th][j] = SchedulerPost
            /\ y = <<th, Len(todo'[th]) - j>>
        BY <1>3, <3>0, <3>2, <3>3, <3>4
      <3> QED BY <1>m, <3>5
    <2> QED BY <2>3, <2>4, <2>5
  <1> HIDE DEF s, r, q, x
  <1>5. /\ IsFiniteSet(Owed) /\ Cardinality(Owed) \in Nat
        /\ IsFiniteSet(Owed') /\ Cardinality(Owed') \in Nat
    BY OwedFinite DEF Owed, ServiceOK, ServiceTypeOK
  <1>6. Cardinality(Owed') >= Cardinality(Owed) - 1
    <2>1. IsFiniteSet(Owed \ {x}) /\ Cardinality(Owed \ {x}) >= Cardinality(Owed) - 1
          /\ Cardinality(Owed \ {x}) \in Nat
      <3>1. /\ IsFiniteSet(Owed \ {x})
            /\ Cardinality(Owed \ {x}) = IF x \in Owed THEN Cardinality(Owed) - 1 ELSE Cardinality(Owed)
        BY <1>5, FS_RemoveElement
      <3>2. Cardinality(Owed \ {x}) \in Nat
        BY <3>1, FS_CardinalityType
      <3> QED BY <1>5, <3>1, <3>2
    <2>2. Owed \ {x} \in SUBSET Owed'
      BY <1>4
    <2>3. Cardinality(Owed \ {x}) <= Cardinality(Owed')
      BY <1>5, <2>2, FS_Subset
    <2> QED BY <1>5, <2>1, <2>3
  <1>7. ASSUME Head(s) # SchedulerPost PROVE Cardinality(Owed') >= Cardinality(Owed)
    <2>1. Owed \in SUBSET Owed'
      BY <1>4, <1>7
    <2> QED BY <1>5, <2>1, FS_Subset
  <1>8. ASSUME Head(s) # SchedulerPost, PostOwed PROVE PostOwed'
    <2>1. PICK o \in Threads : SchedulerPost \in TasksOf(todo[o])
      BY <1>8 DEF PostOwed
    <2>2. CASE o # th
      BY <1>3, <2>1, <2>2 DEF PostOwed
    <2>3. CASE o = th
      <3>1. SchedulerPost \in TasksOf(r)
        <4>1. TasksOf(s) = {Head(s)} \cup TasksOf(r)
          BY <1>1, TasksOfTail DEF r
        <4>2. SchedulerPost \in TasksOf(s)
          BY <2>1, <2>3 DEF s
        <4> QED BY <1>8, <4>1, <4>2
      <3>2. TasksOf(q) = TasksOf(p) \cup TasksOf(r)
        BY <1>1, ConcatTasks DEF q
      <3> QED BY <1>3, <3>1, <3>2 DEF PostOwed
    <2> QED BY <2>2, <2>3
  <1> QED BY <1>6, <1>7, <1>8 DEF s

(* A thread with nothing to do can only come to owe more. *)
LEMMA OwedMore ==
  ASSUME ServiceOK, ServiceOK', NEW th \in Threads, todo[th] = <<>>,
         \A o \in Threads \ {th} : todo'[o] = todo[o]
  PROVE  /\ Owed \in SUBSET Owed' /\ Cardinality(Owed') >= Cardinality(Owed)
         /\ PostOwed => PostOwed'
         /\ todo'[th] = <<SchedulerPost>> => Cardinality(Owed') >= Cardinality(Owed) + 1
  <1>1. /\ \A y : y \in Owed <=>
             \E o \in Threads : \E i \in 1..Len(todo[o]) :
               todo[o][i] = SchedulerPost /\ y = <<o, Len(todo[o]) - i>>
        /\ \A y : y \in Owed' <=>
             \E o \in Threads : \E i \in 1..Len(todo'[o]) :
               todo'[o][i] = SchedulerPost /\ y = <<o, Len(todo'[o]) - i>>
    BY OwedMember DEF Owed, ServiceOK, ServiceTypeOK
  <1>2. \A o \in Threads : \A i \in 1..Len(todo[o]) : o # th
    OBVIOUS
  <1>3. Owed \in SUBSET Owed'
    <2> SUFFICES ASSUME NEW y \in Owed PROVE y \in Owed'
      OBVIOUS
    <2>1. PICK o \in Threads : \E i \in 1..Len(todo[o]) :
            todo[o][i] = SchedulerPost /\ y = <<o, Len(todo[o]) - i>>
      BY <1>1
    <2>2. todo'[o] = todo[o]
      BY <1>2, <2>1
    <2> QED BY <1>1, <2>1, <2>2
  <1>4. /\ IsFiniteSet(Owed) /\ Cardinality(Owed) \in Nat
        /\ IsFiniteSet(Owed') /\ Cardinality(Owed') \in Nat
    BY OwedFinite DEF Owed, ServiceOK, ServiceTypeOK
  <1>5. Cardinality(Owed') >= Cardinality(Owed)
    BY <1>3, <1>4, FS_Subset
  <1>6. PostOwed => PostOwed'
    <2>1. TasksOf(todo[th]) = {}
      BY DEF TasksOf
    <2> QED BY <2>1 DEF PostOwed
  <1>7. ASSUME todo'[th] = <<SchedulerPost>>
        PROVE  Cardinality(Owed') >= Cardinality(Owed) + 1
    <2> DEFINE x == <<th, 0>>
    <2>1. x \in Owed'
      <3>1. 1 \in 1..Len(todo'[th]) /\ todo'[th][1] = SchedulerPost /\ Len(todo'[th]) - 1 = 0
        BY <1>7
      <3> QED BY <1>1, <3>1
    <2>2. x \notin Owed
      BY <1>1, <1>2
    <2> HIDE DEF x
    <2>3. IsFiniteSet(Owed \cup {x}) /\ Cardinality(Owed \cup {x}) = Cardinality(Owed) + 1
      BY <1>4, <2>2, FS_AddElement
    <2>4. Owed \cup {x} \in SUBSET Owed'
      BY <1>3, <2>1
    <2> QED BY <1>4, <2>3, <2>4, FS_Subset
  <1> QED BY <1>3, <1>5, <1>6, <1>7

(* Resume owes as many calls as there are tasks. *)
LEMMA OwedResumed ==
  ASSUME ServiceOK', NEW th \in Threads, NEW n \in Nat,
         todo'[th] = [i \in 1..n |-> SchedulerPost]
  PROVE  Cardinality(Owed') >= n
  <1>1. \A y : y \in Owed' <=>
             \E o \in Threads : \E i \in 1..Len(todo'[o]) :
               todo'[o][i] = SchedulerPost /\ y = <<o, Len(todo'[o]) - i>>
    BY OwedMember DEF Owed, ServiceOK, ServiceTypeOK
  <1>2. IsFiniteSet(Owed') /\ Cardinality(Owed') \in Nat
    BY OwedFinite DEF Owed, ServiceOK, ServiceTypeOK
  <1>3. Len(todo'[th]) = n
    BY PostCallsType
  <1> DEFINE f == [i \in 1..n |-> <<th, n - i>>]
  <1>4. f \in Injection(1..n, Owed')
    <2>1. \A i \in 1..n : f[i] \in Owed'
      BY <1>1, <1>3
    <2>2. \A i, j \in 1..n : f[i] = f[j] => i = j
      OBVIOUS
    <2>3. f \in [1..n -> Owed']
      BY <2>1
    <2> HIDE DEF f
    <2> QED BY <2>2, <2>3 DEF Injection, IsInjective
  <1> HIDE DEF f
  <1>5. Cardinality(1..n) <= Cardinality(Owed')
    BY <1>2, <1>4, FS_Injection
  <1>6. Cardinality(1..n) = n
    BY FS_Interval
  <1> QED BY <1>2, <1>5, <1>6

(* A step of the service never makes more tasks than it owes calls for:    *)
(* Post comes with one, and the last Resume with one for every task.       *)
LEMMA ServiceStepOwed ==
  ASSUME ServiceOK, ServiceOK', NEW th \in Threads, ServiceStep(th), m_suspendCounter' = 0
  PROVE  \/ /\ m_suspendCounter = 0
            /\ Size(m_queue') - Cardinality(Owed') <= Size(m_queue) - Cardinality(Owed)
         \/ Size(m_queue') <= Cardinality(Owed')
  <1> DEFINE Result == \/ /\ m_suspendCounter = 0
                          /\ Size(m_queue') - Cardinality(Owed')
                               <= Size(m_queue) - Cardinality(Owed)
                       \/ Size(m_queue') <= Cardinality(Owed')
  <1>1. /\ Cardinality(Owed) \in Nat /\ Cardinality(Owed') \in Nat
        /\ Size(m_queue) \in Nat /\ Size(m_queue') \in Nat /\ m_suspendCounter \in Nat
        /\ QueueOK(m_queue) /\ todo \in [Threads -> Seq(Calls)]
    BY OwedFinite, SizeCounts DEF Owed, ServiceOK, ServiceTypeOK
  <1>2. InUserCode(th) => todo[th] = <<>>
    BY DEF InUserCode
  <1>3. ASSUME NEW s, todo' = [todo EXCEPT ![th] = s], todo[th] = <<>>,
               m_suspendCounter' = m_suspendCounter, Size(m_queue') <= Size(m_queue)
        PROVE  Result
    <2>1. \A o \in Threads \ {th} : todo'[o] = todo[o]
      BY <1>1, <1>3
    <2>2. Cardinality(Owed') >= Cardinality(Owed)
      BY <1>3, <2>1, OwedMore
    <2> QED BY <1>1, <1>3, <2>2
  <1>4. ASSUME UNCHANGED <<m_queue, todo, m_suspendCounter>>
        PROVE  Result
    BY <1>1, <1>4 DEF Owed
  <1>5. ASSUME NEW task \in Tasks, EnqueueElseCancel(th, task), todo[th] = <<>>,
               m_suspendCounter' = m_suspendCounter
        PROVE  Result
    <2>1. CASE m_shutdownAction = NoAction
      <3>1. /\ m_queue' = Enqueue(m_queue, task) /\ todo'[th] = <<SchedulerPost>>
            /\ \A o \in Threads \ {th} : todo'[o] = todo[o]
        BY <1>1, <1>5, <2>1 DEF EnqueueElseCancel
      <3>2. Size(m_queue') = Size(m_queue) + 1
        BY <1>1, <3>1, SizeChange
      <3>3. Cardinality(Owed') >= Cardinality(Owed) + 1
        BY <1>5, <3>1, OwedMore
      <3> QED BY <1>1, <1>5, <3>2, <3>3
    <2>2. CASE m_shutdownAction # NoAction
      <3>1. m_queue' = m_queue /\ todo' = [todo EXCEPT ![th] = <<CancelTask(task)>>]
        BY <1>5, <2>2 DEF EnqueueElseCancel
      <3>2. Size(m_queue') <= Size(m_queue)
        BY <1>1, <3>1
      <3> QED BY <1>3, <1>5, <3>1, <3>2
    <2> QED BY <2>1, <2>2
  <1>6. ASSUME NEW task \in Tasks,
               Post(th, task) \/ InvokeElsePost(th, task) \/ DeferElsePost(th, task)
        PROVE  Result
    <2>1. todo[th] = <<>> /\ m_suspendCounter' = m_suspendCounter
      BY <1>2, <1>6 DEF Post, InvokeElsePost, DeferElsePost
    <2>2. EnqueueElseCancel(th, task) \/ UNCHANGED <<m_queue, todo>>
      BY <1>6 DEF Post, InvokeElsePost, DeferElsePost
    <2> QED BY <1>4, <1>5, <2>1, <2>2
  <1>7. CASE Suspend(th)
    BY <1>1, <1>7 DEF Suspend
  <1>8. CASE Resume(th)
    <2>1. m_suspendCounter = 1 /\ m_queue' = m_queue
      BY <1>1, <1>8 DEF Resume
    <2>2. todo'[th] = [i \in 1..Size(m_queue) |-> SchedulerPost]
      BY <1>1, <1>8, <2>1 DEF Resume
    <2>3. Cardinality(Owed') >= Size(m_queue)
      BY <1>1, <2>2, OwedResumed
    <2> QED BY <1>1, <2>1, <2>3
  <1>9. CASE \/ \E action \in PendingTaskAction : Shutdown(th, action)
             \/ AwaitTermination(th) \/ Release(th)
    <2>1. /\ m_suspendCounter' = m_suspendCounter /\ todo[th] = <<>>
          /\ m_queue' \in {m_queue, AfterDequeueAll(m_queue)}
      BY <1>2, <1>9 DEF Shutdown, AwaitTermination, Release, DestroyIf, ShutdownThen
    <2>2. \A o \in Threads \ {th} : todo'[o] = todo[o]
      BY <1>1, <1>9 DEF Shutdown, AwaitTermination, Release, DestroyIf, ShutdownThen
    <2>3. Size(m_queue') <= Size(m_queue)
      BY <1>1, <2>1, SizeChange
    <2>4. Cardinality(Owed') >= Cardinality(Owed)
      BY <2>1, <2>2, OwedMore
    <2> QED BY <1>1, <2>1, <2>3, <2>4
  <1>10. CASE RunCancelTask(th)
    <2> DEFINE e == <<>>
    <2>1. /\ todo[th] # <<>> /\ Head(todo[th]) # SchedulerPost
          /\ m_queue' = m_queue /\ m_suspendCounter' = m_suspendCounter
      BY <1>10 DEF RunCancelTask, NextCall, SchedulerPost
    <2>2. e \in Seq(Calls) /\ e \o Tail(todo[th]) = Tail(todo[th])
      BY <1>1, <2>1, ConcatEmptySeq
    <2>3. todo' = [todo EXCEPT ![th] = e \o Tail(todo[th])]
      BY <1>10, <2>2 DEF RunCancelTask, Returned
    <2> HIDE DEF e
    <2>4. Cardinality(Owed') >= Cardinality(Owed)
      BY <2>1, <2>2, <2>3, OwedAfterCall
    <2> QED BY <1>1, <2>1, <2>4
  <1>11. CASE TaskReturns(th)
    BY <1>4, <1>11 DEF TaskReturns
  <1> QED BY <1>6, <1>7, <1>8, <1>9, <1>10, <1>11 DEF ServiceStep

(* A step of the UI scheduler is one of its own calls or handlers. *)
LEMMA UIKind ==
  ASSUME scheduler = "UIWinRT"
  PROVE  /\ \A th \in Threads : CallStep(th) => UICall(th) /\ UNCHANGED <<isInitialized, winVars>>
         /\ \A w \in PoolThreads : ThreadStep(w) => UIThread(w) /\ UNCHANGED <<isInitialized, winVars>>
         /\ ~IntializeScheduler
  <1>1. \A th \in Threads : ~LooperCall(th)
    BY DEF LooperCall, LooperPost, LooperShutdown, LooperAwait, LooperJoin
  <1>2. \A th \in Threads : ~WinCall(th)
    BY DEF WinCall, WinPost, WinShutdown, WinAwait
  <1>3. \A w \in PoolThreads : ~LooperThread(w) /\ ~WinThread(w)
    BY DEF LooperThread, WinThread
  <1> QED BY <1>1, <1>2, <1>3 DEF CallStep, ThreadStep, IntializeScheduler

(* Only the dispatcher's thread runs handlers, and once one was lost the   *)
(* scheduler is shut down with nothing left to invoke.                     *)
LEMMA UIControlStep ==
  ASSUME IndInv, scheduler = "UIWinRT", [Next]_vars
  PROVE  UIControl'
  <1> USE DEF UIControl
  <1>1. /\ ServiceOK /\ PoolThreads \subseteq Threads /\ TheThread \in PoolThreads
        /\ pc \in [PoolThreads -> PcValues] /\ UIControl /\ submitted \in Nat
    BY ThreadsFinite DEF IndInv, ServiceOK, TypeOK, CommonTypeOK, UIInv
  <1>2. ASSUME NEW th \in Threads, ServiceStep(th) \/ CallStep(th), pc' = pc,
               m_isShutdown /\ submitted = 0 => m_isShutdown' /\ submitted' = 0
        PROVE  UIControl'
    <2>1. /\ \A o \in Threads : InTask(o)' => InTask(o)
          /\ \A w \in PoolThreads :
               todo'[w] # <<>> => InTask(w)' \/ (todo[w] # <<>> /\ ~InTask(w))
      BY <1>2, OutsideControl
    <2> QED BY <1>1, <1>2, <2>1
  <1>3. ASSUME NEW th \in Threads, CallStep(th)
        PROVE  pc' = pc /\ (m_isShutdown /\ submitted = 0 => m_isShutdown' /\ submitted' = 0)
    <2> HIDE DEF UIControl
    <2>1. UICall(th)
      BY <1>3, UIKind
    <2>2. CASE UIPost(th)
      BY <2>2 DEF UIPost
    <2>3. CASE UIShutdown(th)
      BY <2>3 DEF UIShutdown
    <2>4. CASE UIAwait(th) \/ UIWait(th)
      BY <2>4 DEF UIAwait, UIWait, commonVars
    <2> QED BY <2>1, <2>2, <2>3, <2>4 DEF UICall
  <1>4. ASSUME NEW w \in PoolThreads, ThreadStep(w) PROVE UIControl'
    <2>0. UIThread(w)
      BY <1>4, UIKind
    <2>a. w = TheThread /\ pc' \in [PoolThreads -> PcValues]
          /\ \A o \in PoolThreads \ {w} : pc'[o] = pc[o] /\ pc[o] = "rest"
      <3>1. w = TheThread
        BY <1>1, <2>0 DEF UIThread, HandlerTakeQueue, HandlerInvokeTask, HandlerReleaseQueue,
                    ReleaseHandlerRef, CleanupShutdown, CleanupReleaseQueue, GoTo
      <3>2. \E to \in PcValues : pc' = [pc EXCEPT ![w] = to]
        BY <2>0 DEF UIThread, InvokeHandler, DropHandler, HandlerTakeQueue, HandlerInvokeTask,
                    HandlerReleaseQueue, ReleaseHandlerRef, CleanupShutdown,
                    CleanupReleaseQueue, GoTo, PcValues
      <3> QED BY <1>1, <3>1, <3>2
    <2>b. ASSUME NEW o \in PoolThreads \ {w} PROVE ~InTask(o)
      BY <1>1, <2>a
    <2>1. CASE InvokeHandler(w) \/ DropHandler(w) \/ HandlerTakeQueue(w)
      <3>1. UNCHANGED <<context, todo, m_isShutdown>>
        BY <2>1 DEF InvokeHandler, DropHandler, HandlerTakeQueue, TakePoolRef, serviceVars
      <3>2. \A o \in Threads : InTask(o)' <=> InTask(o)
        BY <3>1 DEF InTask
      <3>3. /\ pc[w] \in {"rest", "begin"} /\ pc'[w] \in {"begin", "first", "drop"}
            /\ pc[w] = "rest" => submitted > 0
        BY <1>1, <2>1 DEF InvokeHandler, DropHandler, HandlerTakeQueue, GoTo
      <3>4. todo[w] = <<>> /\ ~InTask(w)
        BY <1>1, <3>3
      <3>5. \A o \in PoolThreads : todo[o] = <<>> \/ submitted' = submitted
        BY <1>1, <2>1, <2>a, <2>b, <3>4 DEF InvokeHandler, DropHandler, HandlerTakeQueue
      <3> QED BY <1>1, <2>a, <2>b, <3>1, <3>2, <3>3, <3>4, <3>5
    <2>2. CASE HandlerInvokeTask(w)
      <3>1. /\ pc[w] = "first" /\ pc'[w] = "leave" /\ todo' = todo
            /\ UNCHANGED <<m_isShutdown, submitted>>
        BY <1>1, <2>2 DEF HandlerInvokeTask, GoTo, DequeueAndInvoke, serviceVars
      <3>2. \A o \in Threads \ {w} : InTask(o)' <=> InTask(o)
        BY <1>1, <2>2, DequeueControl DEF HandlerInvokeTask, serviceVars, InTask
      <3>3. todo[w] = <<>>
        BY <1>1, <3>1
      <3> QED BY <1>1, <2>a, <2>b, <3>1, <3>2, <3>3
    <2>3. CASE HandlerReleaseQueue(w) \/ CleanupReleaseQueue(w)
      <3>1. /\ pc[w] \in {"leave", "leaveCleanup"} /\ ReleasePoolRef(w) /\ todo[w] = <<>>
            /\ pc[w] = "leave" => pc'[w] = "drop"
            /\ pc[w] = "leaveCleanup" => pc'[w] = "rest"
            /\ UNCHANGED <<m_isShutdown, submitted>>
        BY <1>1, <2>3 DEF HandlerReleaseQueue, CleanupReleaseQueue, GoTo
      <3>2. /\ \A o \in Threads \ {w} : todo'[o] = todo[o]
            /\ \A o \in Threads : InTask(o)' <=> InTask(o)
        BY <1>1, <3>1, ReleaseControl
      <3>3. ~InTask(w)
        BY <1>1, <2>3 DEF HandlerReleaseQueue, CleanupReleaseQueue, GoTo
      <3> QED BY <1>1, <2>a, <2>b, <3>1, <3>2, <3>3
    <2>4. CASE ReleaseHandlerRef(w)
      <3>1. /\ pc[w] = "drop" /\ todo[w] = <<>> /\ pc'[w] \in {"cleanup", "rest"}
            /\ pc'[w] = "cleanup" => HandlersLost
            /\ UNCHANGED <<context, todo, submitted>>
        BY <1>1, <2>4 DEF ReleaseHandlerRef, GoTo, serviceVars
      <3>2. \A o \in Threads : InTask(o)' <=> InTask(o)
        BY <3>1 DEF InTask
      <3>3. HandlersLost => m_isShutdown' /\ submitted' = 0
        <4>1. m_handlerRefCount = submitted + 1
          BY <2>a, <3>1 DEF IndInv, UIInv, Here
        <4>2. HandlersLost => m_isShutdown'
          BY <2>4 DEF ReleaseHandlerRef
        <4> QED BY <1>1, <3>1, <4>1, <4>2 DEF HandlersLost
      <3>4. m_isShutdown => m_isShutdown'
        BY <2>4 DEF ReleaseHandlerRef
      <3> QED BY <1>1, <2>a, <2>b, <3>1, <3>2, <3>3, <3>4
    <2>5. CASE CleanupShutdown(w)
      <3>1. /\ pc[w] = "cleanup" /\ pc'[w] \in {"leaveCleanup", "rest"}
            /\ UNCHANGED <<context, m_isShutdown, submitted>>
            /\ \A o \in Threads \ {w} : todo'[o] = todo[o]
        BY <1>1, <2>5 DEF CleanupShutdown, GoTo, ShutdownThen, serviceVars, ServiceOK, ServiceTypeOK
      <3>2. \A o \in Threads : InTask(o)' <=> InTask(o)
        BY <3>1 DEF InTask
      <3> QED BY <1>1, <2>a, <2>b, <3>1, <3>2
    <2> QED BY <2>0, <2>1, <2>2, <2>3, <2>4, <2>5 DEF UIThread
  <1>5. CASE UNCHANGED vars
    BY <1>1, <1>5 DEF vars, serviceVars, schedulerVars, commonVars, InTask
  <1> QED BY <1>2, <1>3, <1>4, <1>5, UIKind DEF Next, schedulerVars, commonVars

(* What the numbers of UIInv do in a step. *)
UICounted ==
  /\ m_handlerRefCount = submitted + Here({"begin", "first", "leave", "drop"})
  /\ m_taskCount >= submitted
  /\ m_taskCount > 0 /\ ~m_isShutdown => m_handlerRefCount > 0
  /\ m_suspendCounter = 0 /\ ~m_isShutdown =>
       Size(m_queue) <= Cardinality(Owed) + m_taskCount + Here({"begin", "first"})

(* A call keeps the handlers counted, and every runnable task has a Post   *)
(* or a handler.                                                           *)
LEMMA UICallCounts ==
  ASSUME IndInv, ServiceOK', scheduler = "UIWinRT", NEW th \in Threads, UICall(th)
  PROVE  UICounted'
  <1> DEFINE all == Here({"begin", "first", "leave", "drop"})
             some == Here({"begin", "first"})
  <1>0. /\ ServiceOK /\ submitted \in Nat /\ m_taskCount \in Nat /\ m_handlerRefCount \in Nat
        /\ all \in Nat /\ some \in Nat /\ UICounted /\ todo \in [Threads -> Seq(Calls)]
    BY DEF IndInv, ServiceOK, TypeOK, ServiceTypeOK, CommonTypeOK, UIInv, UICounted, Here
  <1>1. /\ Cardinality(Owed) \in Nat /\ Cardinality(Owed') \in Nat
        /\ Size(m_queue) \in Nat /\ Size(m_queue') \in Nat
    BY <1>0, OwedFinite, SizeCounts DEF Owed, ServiceOK, ServiceTypeOK
  <1>2. UNCHANGED <<pc, m_queue, m_suspendCounter>>
    BY DEF UICall, UIPost, UIShutdown, UIAwait, UIWait, KeepQueue, ReturnedFromAwait,
           commonVars, serviceVars
  <1>3. all' = all /\ some' = some
    BY <1>2 DEF Here
  <1> HIDE DEF all, some
  <1>4. todo[th] # <<>> /\ (Head(todo[th]) = SchedulerPost => NextCall(th, "SchedulerPost"))
    <2>1. todo[th] # <<>>
      BY DEF UICall, UIPost, UIShutdown, UIAwait, UIWait, NextCall
    <2> QED BY <2>1 DEF NextCall, SchedulerPost
  <1>5. ASSUME NEW p \in Seq(Calls), todo' = [todo EXCEPT ![th] = p \o Tail(todo[th])]
        PROVE  /\ Cardinality(Owed') >= Cardinality(Owed) - 1
               /\ ~NextCall(th, "SchedulerPost") => Cardinality(Owed') >= Cardinality(Owed)
    BY <1>0, <1>4, <1>5, OwedAfterCall
  <1>6. ASSUME Returned(th)
        PROVE  /\ Cardinality(Owed') >= Cardinality(Owed) - 1
               /\ ~NextCall(th, "SchedulerPost") => Cardinality(Owed') >= Cardinality(Owed)
    <2> DEFINE e == <<>>
    <2>1. e \in Seq(Calls) /\ e \o Tail(todo[th]) = Tail(todo[th])
      BY <1>0, <1>4, ConcatEmptySeq
    <2>2. todo' = [todo EXCEPT ![th] = e \o Tail(todo[th])]
      BY <1>6, <2>1 DEF Returned
    <2> HIDE DEF e
    <2> QED BY <1>5, <2>1, <2>2
  <1>c. /\ m_handlerRefCount = submitted + all
        /\ m_taskCount >= submitted
        /\ m_taskCount > 0 /\ ~m_isShutdown => m_handlerRefCount > 0
        /\ m_suspendCounter = 0 /\ ~m_isShutdown =>
             Size(m_queue) <= Cardinality(Owed) + m_taskCount + some
    BY <1>0 DEF UICounted, all, some
  <1>g. ASSUME /\ m_handlerRefCount' = submitted' + all
               /\ m_taskCount' >= submitted'
               /\ m_taskCount' > 0 /\ ~m_isShutdown' => m_handlerRefCount' > 0
               /\ m_suspendCounter = 0 /\ ~m_isShutdown' =>
                    Size(m_queue) <= Cardinality(Owed') + m_taskCount' + some
        PROVE  UICounted'
    BY <1>2, <1>3, <1>g DEF UICounted, all, some
  <1>7. CASE UIPost(th) /\ ~m_isShutdown
    <2>1. /\ m_taskCount' = m_taskCount + 1 /\ m_handlerRefCount' = m_handlerRefCount + 1
          /\ submitted' = submitted + 1 /\ m_isShutdown' = m_isShutdown /\ Returned(th)
      BY <1>7 DEF UIPost
    <2> QED BY <1>0, <1>1, <1>6, <1>7, <1>c, <1>g, <2>1
  <1>8. CASE UIPost(th) /\ m_isShutdown
    <2>1. UNCHANGED <<m_taskCount, m_handlerRefCount, submitted, m_isShutdown>>
      BY <1>8 DEF UIPost
    <2> QED BY <1>8, <1>c, <1>g, <2>1
  <1>9. CASE UIShutdown(th)
    <2>1. UNCHANGED <<m_taskCount, m_handlerRefCount, submitted>> /\ m_isShutdown'
      BY <1>9 DEF UIShutdown, uiVars
    <2> QED BY <1>c, <1>g, <2>1
  <1>10. CASE UIAwait(th) \/ UIWait(th)
    <2>1. /\ UNCHANGED <<m_taskCount, m_handlerRefCount, submitted, m_isShutdown>>
          /\ ~NextCall(th, "SchedulerPost")
      BY <1>10 DEF UIAwait, UIWait, uiVars, commonVars, NextCall
    <2>2. Cardinality(Owed') >= Cardinality(Owed)
      <3>1. CASE UIAwait(th)
        <4> DEFINE p == <<SchedulerShutdown, JoinThread(TheThread)>>
        <4>1. p \in Seq(Calls)
          BY CallTypes, ThreadsFinite
        <4>2. todo' = [todo EXCEPT ![th] = p \o Tail(todo[th])]
          BY <3>1 DEF UIAwait
        <4> HIDE DEF p
        <4> QED BY <1>5, <2>1, <4>1, <4>2
      <3>2. CASE UIWait(th) /\ todo' = todo
        BY <1>1, <3>2 DEF Owed
      <3>3. CASE UIWait(th) /\ Returned(th)
        BY <1>6, <2>1, <3>3
      <3> QED BY <1>10, <3>1, <3>2, <3>3 DEF UIWait, ReturnedFromAwait, serviceVars
    <2> QED BY <1>0, <1>1, <1>c, <1>g, <2>1, <2>2
  <1> QED BY <1>7, <1>8, <1>9, <1>10 DEF UICall

(* So does a handler. *)
LEMMA UIThreadCounts ==
  ASSUME IndInv, ServiceOK', scheduler = "UIWinRT", NEW w \in PoolThreads, UIThread(w)
  PROVE  UICounted'
  <1>0. /\ ServiceOK /\ submitted \in Nat /\ m_taskCount \in Nat /\ m_handlerRefCount \in Nat
        /\ UICounted /\ UIControl /\ pc \in [PoolThreads -> PcValues]
        /\ todo \in [Threads -> Seq(Calls)] /\ w \in Threads
    BY ThreadsFinite
       DEF IndInv, ServiceOK, TypeOK, ServiceTypeOK, CommonTypeOK, UIInv, UICounted
  <1>1. /\ Cardinality(Owed) \in Nat /\ Cardinality(Owed') \in Nat
        /\ Size(m_queue) \in Nat /\ Size(m_queue') \in Nat /\ QueueOK(m_queue)
        /\ (IsEmpty(m_queue) <=> Size(m_queue) = 0)
    BY <1>0, OwedFinite, SizeCounts DEF Owed, ServiceOK, ServiceTypeOK
  <1>2. w = TheThread
    BY <1>0 DEF UIThread, HandlerTakeQueue, HandlerInvokeTask, HandlerReleaseQueue,
                ReleaseHandlerRef, CleanupShutdown, CleanupReleaseQueue, GoTo, UIControl
  <1>3. todo' = todo => Cardinality(Owed') = Cardinality(Owed)
    BY DEF Owed
  <1>4. CASE InvokeHandler(w)
    <2>1. /\ pc[w] = "rest" /\ pc'[w] = "begin" /\ submitted > 0 /\ submitted' = submitted - 1
          /\ m_taskCount' = IF m_taskCount = 0 THEN 0 ELSE m_taskCount - 1
          /\ UNCHANGED <<m_handlerRefCount, m_isShutdown, m_queue, m_suspendCounter, todo>>
      BY <1>0, <1>4 DEF InvokeHandler, GoTo, serviceVars
    <2> QED BY <1>0, <1>1, <1>2, <1>3, <2>1 DEF UICounted, Here
  <1>5. CASE DropHandler(w)
    <2>1. /\ pc[w] = "rest" /\ pc'[w] = "drop" /\ submitted > 0 /\ submitted' = submitted - 1
          /\ UNCHANGED <<m_taskCount, m_handlerRefCount, m_isShutdown, m_queue,
                         m_suspendCounter, todo>>
      BY <1>0, <1>5 DEF DropHandler, GoTo, serviceVars, uiVars
    <2> QED BY <1>0, <1>1, <1>2, <1>3, <2>1 DEF UICounted, Here
  <1>6. CASE HandlerTakeQueue(w)
    <2>1. /\ pc[w] = "begin" /\ pc'[w] = IF IsAlive THEN "first" ELSE "drop"
          /\ UNCHANGED <<submitted, m_taskCount, m_handlerRefCount, m_isShutdown, m_queue,
                         m_suspendCounter, todo>>
      BY <1>0, <1>6 DEF HandlerTakeQueue, GoTo, TakePoolRef, uiVars
    <2>2. ~IsAlive => IsEmpty(m_queue)
      BY <1>1 DEF QueueOK, IsAlive
    <2> QED BY <1>0, <1>1, <1>2, <1>3, <2>1, <2>2 DEF UICounted, Here
  <1>7. CASE HandlerInvokeTask(w)
    <2>1. /\ pc[w] = "first" /\ pc'[w] = "leave" /\ todo' = todo
          /\ UNCHANGED <<submitted, m_taskCount, m_handlerRefCount, m_isShutdown,
                         m_suspendCounter>>
          /\ m_queue' = IF HasTasks THEN AfterDequeue(m_queue) ELSE m_queue
      BY <1>0, <1>7 DEF HandlerInvokeTask, GoTo, DequeueAndInvoke, serviceVars, uiVars
    <2>2. m_suspendCounter = 0 => Size(m_queue') = 0 \/ Size(m_queue') = Size(m_queue) - 1
      BY <1>1, <2>1, SizeChange DEF HasTasks
    <2> QED BY <1>0, <1>1, <1>2, <1>3, <2>1, <2>2 DEF UICounted, Here
  <1>8. CASE HandlerReleaseQueue(w)
    <2>1. /\ pc[w] = "leave" /\ pc'[w] = "drop" /\ todo[w] = <<>> /\ ReleasePoolRef(w)
          /\ UNCHANGED <<submitted, m_taskCount, m_handlerRefCount, m_isShutdown>>
      BY <1>0, <1>8 DEF HandlerReleaseQueue, GoTo, uiVars
    <2>2. /\ m_queue' = m_queue /\ m_suspendCounter' = m_suspendCounter
          /\ \A o \in Threads \ {w} : todo'[o] = todo[o]
      BY <1>0, <2>1, ReleaseControl
    <2>3. Cardinality(Owed') >= Cardinality(Owed)
      BY <1>0, <2>1, <2>2, OwedMore
    <2> QED BY <1>0, <1>1, <1>2, <2>1, <2>2, <2>3 DEF UICounted, Here
  <1>9. CASE ReleaseHandlerRef(w)
    <2>1. /\ pc[w] = "drop" /\ pc'[w] \in {"cleanup", "rest"}
          /\ UNCHANGED <<submitted, m_queue, m_suspendCounter, todo>>
          /\ m_handlerRefCount' = m_handlerRefCount - 1
          /\ m_taskCount' = IF HandlersLost THEN 0 ELSE m_taskCount
          /\ m_isShutdown' <=> m_isShutdown \/ HandlersLost
      BY <1>0, <1>9 DEF ReleaseHandlerRef, GoTo, serviceVars
    <2> QED BY <1>0, <1>1, <1>2, <1>3, <2>1 DEF UICounted, Here, HandlersLost
  <1>10. CASE CleanupShutdown(w) \/ CleanupReleaseQueue(w)
    <2>1. /\ pc[w] \in {"cleanup", "leaveCleanup"} /\ pc'[w] \in {"leaveCleanup", "rest"}
          /\ UNCHANGED <<submitted, m_taskCount, m_handlerRefCount, m_isShutdown>>
      BY <1>0, <1>10 DEF CleanupShutdown, CleanupReleaseQueue, GoTo, uiVars
    <2>2. m_isShutdown
      BY <1>0, <2>1 DEF UIControl
    <2> QED BY <1>0, <1>1, <1>2, <2>1, <2>2 DEF UICounted, Here
  <1> QED BY <1>4, <1>5, <1>6, <1>7, <1>8, <1>9, <1>10 DEF UIThread

(* The invariant of the UI scheduler. *)
LEMMA UIStep ==
  ASSUME IndInv, scheduler = "UIWinRT", [Next]_vars
  PROVE  UIInv'
  <1>1. UIControl' /\ ServiceOK'
    BY UIControlStep, ServiceEffect
  <1>2. m_maxThreads' = 1
    <2>1. m_maxThreads = 1
      BY DEF IndInv, UIInv
    <2> QED BY <2>1, UIKind DEF Next, vars, schedulerVars, winVars
  <1>3. ASSUME NEW th \in Threads, ServiceStep(th), UNCHANGED schedulerVars
        PROVE  UICounted'
    <2>1. /\ ServiceOK /\ m_taskCount \in Nat /\ UICounted
          /\ Here({"begin", "first"}) \in Nat
      BY DEF IndInv, ServiceOK, TypeOK, UIInv, UICounted, Here
    <2>2. UNCHANGED <<m_handlerRefCount, submitted, m_taskCount, m_isShutdown, pc>>
      BY <1>3 DEF schedulerVars, commonVars, uiVars
    <2>3. /\ Cardinality(Owed) \in Nat /\ Cardinality(Owed') \in Nat
          /\ Size(m_queue) \in Nat /\ Size(m_queue') \in Nat
      BY <1>1, <2>1, OwedFinite, SizeCounts DEF Owed, ServiceOK, ServiceTypeOK
    <2>4. /\ Here({"begin", "first"})' = Here({"begin", "first"})
          /\ Here({"begin", "first", "leave", "drop"})' = Here({"begin", "first", "leave", "drop"})
      BY <2>2 DEF Here
    <2>5. m_suspendCounter' = 0 =>
            \/ /\ m_suspendCounter = 0
               /\ Size(m_queue') - Cardinality(Owed') <= Size(m_queue) - Cardinality(Owed)
            \/ Size(m_queue') <= Cardinality(Owed')
      BY <1>1, <1>3, <2>1, ServiceStepOwed
    <2> HIDE DEF Owed
    <2> QED BY <2>1, <2>2, <2>3, <2>4, <2>5 DEF UICounted
  <1>4. ASSUME UNCHANGED vars PROVE UICounted'
    <2>1. UNCHANGED <<m_handlerRefCount, submitted, m_taskCount, m_isShutdown, pc, todo, m_queue,
                      m_suspendCounter>>
      BY <1>4 DEF vars, serviceVars, schedulerVars, commonVars, uiVars
    <2>2. UICounted
      BY DEF IndInv, UIInv, UICounted
    <2> QED BY <2>1, <2>2 DEF UICounted, Here, Owed
  <1>5. UICounted'
    <2>1. ASSUME NEW th \in Threads, CallStep(th) PROVE UICounted'
      BY <1>1, <2>1, UIKind, UICallCounts
    <2>2. ASSUME NEW w \in PoolThreads, ThreadStep(w) PROVE UICounted'
      BY <1>1, <2>2, UIKind, UIThreadCounts
    <2> QED BY <1>3, <1>4, <2>1, <2>2, UIKind DEF Next
  <1> QED BY <1>1, <1>2, <1>5 DEF UIInv, UICounted

-----------------------------------------------------------------------------
(* A call of the scheduler other than Post takes no Post from those owed,  *)
(* and none makes a task runnable.                                         *)
LEMMA CallWake ==
  ASSUME IndInv, ServiceOK', NEW th \in Threads, CallStep(th)
  PROVE  /\ HasTasks' <=> HasTasks
         /\ PostOwed => PostOwed' \/ NextCall(th, "SchedulerPost")
  <1>1. ServiceOK /\ todo \in [Threads -> Seq(Calls)]
    BY DEF IndInv, ServiceOK, TypeOK, ServiceTypeOK
  <1>2. /\ UNCHANGED <<m_queue, m_suspendCounter>>
        /\ \/ todo' = todo
           \/ /\ todo[th] # <<>>
              /\ \E p \in Seq(Calls) : todo' = [todo EXCEPT ![th] = p \o Tail(todo[th])]
    BY <1>1, CallEffect
  <1>3. HasTasks' <=> HasTasks
    BY <1>2 DEF HasTasks
  <1>4. CASE todo' = todo
    BY <1>3, <1>4 DEF PostOwed
  <1>5. ASSUME NEW p \in Seq(Calls), todo' = [todo EXCEPT ![th] = p \o Tail(todo[th])],
               todo[th] # <<>>
        PROVE  PostOwed => PostOwed' \/ NextCall(th, "SchedulerPost")
    <2>1. Head(todo[th]) # SchedulerPost /\ PostOwed => PostOwed'
      BY <1>1, <1>5, OwedAfterCall
    <2>2. Head(todo[th]) = SchedulerPost => NextCall(th, "SchedulerPost")
      BY <1>5 DEF NextCall, SchedulerPost
    <2> QED BY <2>1, <2>2
  <1> QED BY <1>2, <1>3, <1>4, <1>5

(* A step of the service loses no wake-up on any scheduler. *)
LEMMA ServiceWake ==
  ASSUME IndInv, NEW th \in Threads, ServiceStep(th), UNCHANGED schedulerVars
  PROVE  NoLostWakeUp'
  <1>1. ServiceOK /\ NoLostWakeUp
    BY DEF IndInv, ServiceOK, TypeOK
  <1>2. (PostOwed => PostOwed') /\ (HasTasks' => HasTasks \/ PostOwed')
    BY <1>1, ServiceStepWake
  <1>3. UNCHANGED <<pc, event, m_isShutdown, submitted, m_taskCount, m_handlerRefCount>>
    BY DEF schedulerVars, commonVars, uiVars
  <1>4. \A w \in PoolThreads : GoesToLook(w)' <=> GoesToLook(w)
    BY <1>3 DEF GoesToLook, HandlersLost
  <1> QED BY <1>1, <1>2, <1>3, <1>4 DEF NoLostWakeUp

(* The looper is woken by the event even if it was not waiting yet when    *)
(* the event was set: Reset comes after the wait, not before it.           *)
LEMMA LooperWake ==
  ASSUME IndInv, scheduler = "Looper", ServiceOK', [Next]_vars
  PROVE  NoLostWakeUp'
  <1>0. /\ ServiceOK /\ NoLostWakeUp /\ LooperInv /\ m_taskCount = 0
        /\ pc \in [PoolThreads -> PcValues] /\ PoolThreads \subseteq Threads
        /\ TheThread \in PoolThreads
        /\ event \in [m_state : BOOLEAN, m_cond : SUBSET Threads]
    BY ThreadsFinite DEF IndInv, ServiceOK, TypeOK, CommonTypeOK
  <1>1. \A w \in PoolThreads :
          GoesToLook(w) => w = TheThread /\ ( \/ pc[w] \in {"begin", "drain", "reset"}
                                              \/ pc[w] \in {"check", "wait"} /\ event.m_state)
    BY <1>0 DEF GoesToLook, HandlersLost, LooperInv, LooperControl
  <1>2. ASSUME NEW th \in Threads, CallStep(th) PROVE NoLostWakeUp'
    <2>1. LooperCall(th)
      <3>1. ~WinCall(th)
        BY DEF WinCall, WinPost, WinShutdown, WinAwait
      <3>2. ~UICall(th)
        BY DEF UICall, UIPost, UIShutdown, UIAwait, UIWait
      <3> QED BY <1>2, <3>1, <3>2 DEF CallStep
    <2>2. (HasTasks' <=> HasTasks) /\ (PostOwed => PostOwed' \/ NextCall(th, "SchedulerPost"))
      BY <1>2, CallWake
    <2>3. CASE LooperPost(th)
      <3>1. event'.m_state /\ pc' = pc /\ m_isShutdown' = m_isShutdown
        BY <2>3 DEF LooperPost, Set
      <3>2. m_isShutdown \/ GoesToLook(TheThread)'
        BY <1>0, <3>1 DEF GoesToLook, LooperInv, LooperControl
      <3> QED BY <1>0, <3>1, <3>2 DEF NoLostWakeUp
    <2>4. CASE LooperShutdown(th)
      BY <2>4 DEF LooperShutdown, NoLostWakeUp
    <2>5. CASE LooperAwait(th) \/ LooperJoin(th)
      <3>1. UNCHANGED <<pc, event, m_isShutdown, submitted>> /\ ~NextCall(th, "SchedulerPost")
        BY <2>5 DEF LooperAwait, LooperJoin, NextCall, commonVars
      <3>2. \A w \in PoolThreads : GoesToLook(w) => GoesToLook(w)'
        BY <1>1, <3>1 DEF GoesToLook
      <3> QED BY <1>0, <2>2, <3>1, <3>2 DEF NoLostWakeUp
    <2> QED BY <2>1, <2>3, <2>4, <2>5 DEF LooperCall
  <1>3. ASSUME NEW w \in PoolThreads, ThreadStep(w) PROVE NoLostWakeUp'
    <2>0. LooperThread(w)
      BY <1>3 DEF ThreadStep, WinThread, UIThread
    <2>1. CASE LoopTakeQueue(w)
      <3>1. HasTasks' => isInitialized /\ IsAlive
        BY <1>0, <2>1 DEF LoopTakeQueue, TakePoolRef, serviceVars, HasTasks, LooperInv, ServiceOK,
                    QueueOK, IsAlive
      <3>2. HasTasks' => pc'[w] = "drain"
        BY <1>0, <2>1, <3>1 DEF LoopTakeQueue, GoTo
      <3> QED BY <3>2 DEF NoLostWakeUp, GoesToLook
    <2>2. CASE LoopInvokeNext(w) \/ LoopReset(w)
      <3>1. pc'[w] \in {"drain", "begin"}
        BY <1>0, <2>2 DEF LoopInvokeNext, LoopReset, GoTo, commonVars
      <3> QED BY <3>1 DEF NoLostWakeUp, GoesToLook
    <2>3. CASE LoopReleaseQueue(w)
      <3>1. ReleasePoolRef(w) /\ ~HasTasks
        BY <2>3 DEF LoopReleaseQueue
      <3>2. m_queue' = m_queue /\ m_suspendCounter' = m_suspendCounter
        BY <1>0, <3>1, ReleaseControl
      <3> QED BY <3>1, <3>2 DEF NoLostWakeUp, HasTasks
    <2>4. CASE LoopCheckShutdown(w) \/ LoopWait(w)
      <3>1. /\ UNCHANGED <<m_queue, m_suspendCounter, todo, m_isShutdown, submitted>>
            /\ w = TheThread
        BY <1>0, <2>4 DEF LoopCheckShutdown, LoopWait, GoTo, serviceVars, LooperInv, LooperControl
      <3>2. (HasTasks' <=> HasTasks) /\ (PostOwed' <=> PostOwed)
        BY <3>1 DEF HasTasks, PostOwed
      <3>3. GoesToLook(TheThread) /\ ~m_isShutdown => GoesToLook(TheThread)'
        <4>1. CASE LoopCheckShutdown(w)
          <5>1. pc[w] = "check" /\ event' = event /\ (~m_isShutdown => pc'[w] = "wait")
            BY <1>0, <4>1 DEF LoopCheckShutdown, GoTo
          <5>2. GoesToLook(TheThread) => event.m_state
            BY <1>0, <1>1, <3>1, <5>1
          <5> QED BY <3>1, <5>1, <5>2 DEF GoesToLook
        <4>2. CASE LoopWait(w)
          <5>1. pc[w] = "wait" /\ (event.m_state => pc'[w] = "reset")
            BY <1>0, <4>2 DEF LoopWait, GoTo, MustBlock
          <5>2. GoesToLook(TheThread) => event.m_state
            BY <1>0, <1>1, <3>1, <5>1
          <5> QED BY <3>1, <5>1, <5>2 DEF GoesToLook
        <4> QED BY <2>4, <4>1, <4>2
      <3> QED BY <1>0, <1>1, <3>1, <3>2, <3>3 DEF NoLostWakeUp
    <2> QED BY <2>0, <2>1, <2>2, <2>3, <2>4 DEF LooperThread
  <1>4. CASE UNCHANGED <<serviceVars, commonVars, uiVars>>
    <2>1. UNCHANGED <<m_queue, m_suspendCounter, todo, pc, event, m_isShutdown, submitted,
                      m_taskCount, m_handlerRefCount>>
      BY <1>4 DEF serviceVars, commonVars, uiVars
    <2>2. (HasTasks' <=> HasTasks) /\ (PostOwed' <=> PostOwed)
      BY <2>1 DEF HasTasks, PostOwed
    <2>3. \A w \in PoolThreads : GoesToLook(w)' <=> GoesToLook(w)
      BY <2>1 DEF GoesToLook, HandlersLost
    <2> QED BY <1>0, <2>1, <2>2, <2>3 DEF NoLostWakeUp
  <1> QED BY <1>2, <1>3, <1>4, ServiceWake DEF Next, vars, schedulerVars, IntializeScheduler

(* When the Windows pool is at its limit one of its callbacks will still   *)
(* look at the queue, and one that stopped looks again.                    *)
LEMMA WinWake ==
  ASSUME IndInv, scheduler = "ThreadPoolWin", ServiceOK', [Next]_vars
  PROVE  NoLostWakeUp'
  <1>0. /\ ServiceOK /\ NoLostWakeUp /\ WinInv /\ m_taskCount = 0
        /\ pc \in [PoolThreads -> PcValues] /\ PoolThreads \subseteq Threads
        /\ submitted \in Nat /\ m_maxThreads \in Nat /\ m_maxThreads >= 1
    BY ThreadsFinite, WinAssumption DEF IndInv, ServiceOK, TypeOK, CommonTypeOK
  <1>1. /\ \A w \in PoolThreads :
             GoesToLook(w) <=> pc[w] \in {"begin", "first", "drain", "done", "recheck"}
        /\ HasTasks => IsAlive
    <2>1. \A w \in PoolThreads :
            GoesToLook(w) <=> pc[w] \in {"begin", "first", "drain", "done", "recheck"}
      BY <1>0 DEF GoesToLook, HandlersLost, WinInv, WinControl
    <2>2. HasTasks => IsAlive
      BY <1>0 DEF HasTasks, ServiceOK, QueueOK, IsAlive
    <2> QED BY <2>1, <2>2
  <1>2. ASSUME NEW th \in Threads, CallStep(th) PROVE NoLostWakeUp'
    <2>1. WinCall(th)
      BY <1>2, WinKind
    <2>2. (HasTasks' <=> HasTasks) /\ (PostOwed => PostOwed' \/ NextCall(th, "SchedulerPost"))
      BY <1>2, CallWake
    <2>3. UNCHANGED <<pc, m_isShutdown>>
      BY <2>1 DEF WinCall, WinPost, WinShutdown, WinAwait, commonVars
    <2>4. \A w \in PoolThreads : GoesToLook(w) => GoesToLook(w)'
      BY <1>1, <2>3 DEF GoesToLook
    <2>5. CASE WinPost(th) /\ m_usedThreads = m_maxThreads
      <3>1. submitted' = submitted
        BY <2>5 DEF WinPost
      <3>2. HasTasks => submitted > 0 \/ UsedBy # {}
        <4>1. HasTasks => submitted + Cardinality(UsedBy) >= 1
          BY <1>0, <1>1, <2>5 DEF WinInv
        <4>2. UsedBy = {} => Cardinality(UsedBy) = 0
          BY FS_EmptySet
        <4> QED BY <1>0, <4>1, <4>2
      <3>3. UsedBy # {} => \E w \in PoolThreads : GoesToLook(w)
        BY <1>1 DEF UsedBy
      <3> QED BY <2>2, <2>4, <3>1, <3>2, <3>3 DEF NoLostWakeUp
    <2>6. CASE WinPost(th) /\ m_usedThreads # m_maxThreads
      <3>1. submitted' > 0
        BY <1>0, <2>6 DEF WinPost
      <3> QED BY <3>1 DEF NoLostWakeUp
    <2>7. CASE WinShutdown(th) \/ WinAwait(th)
      <3>1. submitted' = submitted /\ ~NextCall(th, "SchedulerPost")
        BY <2>7 DEF WinShutdown, WinAwait, NextCall, commonVars
      <3> QED BY <1>0, <2>2, <2>3, <2>4, <3>1 DEF NoLostWakeUp
    <2> QED BY <2>1, <2>5, <2>6, <2>7 DEF WinCall
  <1>3. ASSUME NEW w \in PoolThreads, ThreadStep(w) PROVE NoLostWakeUp'
    <2>0. WinThread(w)
      BY <1>3, WinKind
    <2>1. CASE CallbackTakeQueue(w)
      <3>1. HasTasks' => IsAlive
        BY <1>1, <2>1 DEF CallbackTakeQueue, TakePoolRef, HasTasks
      <3>2. HasTasks' => pc'[w] = "first"
        BY <1>0, <2>1, <3>1 DEF CallbackTakeQueue, GoTo
      <3> QED BY <3>2 DEF NoLostWakeUp, GoesToLook
    <2>2. CASE \/ StartCallback(w) \/ CallbackInvokeNext(w) \/ CallbackStops(w)
               \/ CallbackReleaseThread(w)
      <3>1. pc'[w] \in {"begin", "drain", "done", "recheck"}
        BY <1>0, <2>2 DEF StartCallback, CallbackInvokeNext, CallbackStops,
                          CallbackReleaseThread, GoTo
      <3> QED BY <3>1 DEF NoLostWakeUp, GoesToLook
    <2>3. CASE CallbackRecheck(w)
      <3>1. HasTasks' <=> HasTasks
        BY <2>3 DEF CallbackRecheck, KeepQueue, HasTasks
      <3>2. HasTasks => todo'[w] = <<SchedulerPost>>
        BY <1>0, <2>3 DEF CallbackRecheck, ServiceOK, ServiceTypeOK
      <3>3. SchedulerPost \in TasksOf(<<SchedulerPost>>)
        BY OneTask
      <3> QED BY <1>0, <3>1, <3>2, <3>3 DEF NoLostWakeUp, PostOwed
    <2>4. CASE CallbackReleaseQueue(w)
      <3>1. ReleasePoolRef(w) /\ UNCHANGED <<pc, m_isShutdown, submitted>>
        BY <2>4 DEF CallbackReleaseQueue, commonVars
      <3>2. /\ m_queue' = m_queue /\ m_suspendCounter' = m_suspendCounter
            /\ ~IsEmpty(m_queue) => todo' = todo
        BY <1>0, <3>1, ReleaseControl
      <3>3. (HasTasks' <=> HasTasks) /\ (HasTasks => (PostOwed' <=> PostOwed))
        BY <3>2 DEF HasTasks, PostOwed
      <3>4. \A o \in PoolThreads : GoesToLook(o) => GoesToLook(o)'
        BY <1>1, <3>1 DEF GoesToLook
      <3> QED BY <1>0, <3>1, <3>3, <3>4 DEF NoLostWakeUp
    <2>5. CASE CallbackReturns(w)
      <3>1. /\ UNCHANGED <<m_queue, m_suspendCounter, todo, m_isShutdown, submitted>>
            /\ pc[w] = "leave" /\ \A o \in PoolThreads \ {w} : pc'[o] = pc[o]
        BY <1>0, <2>5 DEF CallbackReturns, GoTo, serviceVars
      <3>2. (HasTasks' <=> HasTasks) /\ (PostOwed' <=> PostOwed)
        BY <3>1 DEF HasTasks, PostOwed
      <3>3. \A o \in PoolThreads : GoesToLook(o) => GoesToLook(o)'
        BY <1>1, <3>1 DEF GoesToLook
      <3> QED BY <1>0, <3>1, <3>2, <3>3 DEF NoLostWakeUp
    <2> QED BY <2>0, <2>1, <2>2, <2>3, <2>4, <2>5 DEF WinThread
  <1>4. CASE UNCHANGED vars
    <2>1. UNCHANGED <<m_queue, m_suspendCounter, todo, pc, event, m_isShutdown, submitted>>
      BY <1>4 DEF vars, serviceVars, schedulerVars, commonVars
    <2>2. (HasTasks' <=> HasTasks) /\ (PostOwed' <=> PostOwed)
      BY <2>1 DEF HasTasks, PostOwed
    <2>3. \A w \in PoolThreads : GoesToLook(w) => GoesToLook(w)'
      BY <1>1, <2>1 DEF GoesToLook
    <2> QED BY <1>0, <2>1, <2>2, <2>3 DEF NoLostWakeUp
  <1> QED BY <1>2, <1>3, <1>4, ServiceWake, WinKind DEF Next

(* A task the UI scheduler accepted has a Post to come or a handler; if    *)
(* the handlers were dropped, the last one shuts the queue down.           *)
LEMMA UIWake ==
  ASSUME TypeOK, QueueOK(m_queue), UIInv
  PROVE  NoLostWakeUp
  <1> SUFFICES ASSUME HasTasks, ~m_isShutdown
               PROVE  PostOwed \/ submitted > 0 \/ \E w \in PoolThreads : GoesToLook(w)
    BY DEF NoLostWakeUp
  <1>1. /\ ServiceOK /\ m_taskCount \in Nat /\ submitted \in Nat /\ TheThread \in PoolThreads
    BY ThreadsFinite DEF TypeOK, ServiceOK, CommonTypeOK
  <1>2. /\ Cardinality(Owed) \in Nat /\ (Cardinality(Owed) > 0 => PostOwed)
        /\ Size(m_queue) \in Nat /\ Size(m_queue) # 0 /\ m_suspendCounter = 0
    BY <1>1, OwedPosts, SizeCounts DEF HasTasks
  <1>3. CASE pc[TheThread] \in {"begin", "first"}
    BY <1>1, <1>3 DEF GoesToLook
  <1>4. CASE pc[TheThread] \notin {"begin", "first"} /\ Cardinality(Owed) = 0 /\ submitted = 0
    <2>1. Here({"begin", "first"}) = 0
      BY <1>4 DEF Here
    <2>2. m_taskCount > 0
      BY <1>1, <1>2, <1>4, <2>1 DEF UIInv
    <2>3. m_handlerRefCount > 0 /\ m_handlerRefCount = Here({"begin", "first", "leave", "drop"})
      BY <1>1, <1>4, <2>2 DEF UIInv, Here
    <2>4. m_handlerRefCount = 1 /\ pc[TheThread] \in {"leave", "drop"}
      BY <1>4, <2>3 DEF Here
    <2> QED BY <1>1, <2>2, <2>4 DEF GoesToLook, HandlersLost
  <1> QED BY <1>1, <1>2, <1>3, <1>4

-----------------------------------------------------------------------------
(* Every step keeps the invariant. *)
LEMMA IndStep ==
  ASSUME IndInv, [Next]_vars
  PROVE  IndInv'
  <1>1. /\ TypeOK' /\ QueueOK(m_queue)' /\ ~crashed' /\ scheduler' = scheduler
        /\ (isInitialized => isInitialized') /\ ServiceOK'
    BY TypeStep, ServiceEffect
  <1>2. scheduler # "UIWinRT" => m_taskCount' = 0
    <2> SUFFICES ASSUME scheduler # "UIWinRT" PROVE m_taskCount' = m_taskCount
      BY DEF IndInv
    <2>1. \A th \in Threads : ~UICall(th)
      BY DEF UICall, UIPost, UIShutdown, UIAwait, UIWait
    <2>2. \A w \in PoolThreads : ~UIThread(w)
      BY DEF UIThread
    <2> QED BY <2>1, <2>2 DEF Next, CallStep, ThreadStep, vars, schedulerVars, uiVars
  <1>3. scheduler \in {"Looper", "ThreadPoolWin", "UIWinRT"}
    BY SchedulerAssumption DEF IndInv, TypeOK, CommonTypeOK
  <1>4. CASE scheduler = "Looper"
    BY <1>1, <1>2, <1>4, LooperStep, LooperWake DEF IndInv
  <1>5. CASE scheduler = "ThreadPoolWin"
    BY <1>1, <1>2, <1>5, WinStep, WinWake DEF IndInv
  <1>6. CASE scheduler = "UIWinRT"
    <2>1. UIInv'
      BY <1>6, UIStep
    <2>2. (TypeOK /\ QueueOK(m_queue) /\ UIInv => NoLostWakeUp)'
      BY UIWake, PTL
    <2> QED BY <1>1, <1>6, <2>1, <2>2 DEF IndInv
  <1> QED BY <1>3, <1>4, <1>5, <1>6

(* IndInv holds in every reachable state of a queue on each of the three   *)
(* schedulers.                                                             *)
THEOREM Invariance == Spec => []IndInv
  <1>1. IndInv /\ [Next]_vars => IndInv'
    BY IndStep
  <1> QED BY <1>1, InitInd, PTL DEF Spec

(* The fields keep their types: m_usedThreads stays between 0 and          *)
(* m_maxThreads, and the handler counts do not fall below zero.            *)
THEOREM TypeCorrect == Spec => []TypeOK
  BY Invariance, PTL DEF IndInv

(* Whenever a task can be dequeued somebody is going to look at the queue: *)
(* the looper sleeps only on a reset event, the Windows pool is at its     *)
(* limit only with callbacks under way, and every task of the UI scheduler *)
(* has a handler.                                                          *)
THEOREM WakeUpsNeverLost == Spec => []NoLostWakeUp
  BY Invariance, PTL DEF IndInv

(* The looper and the UI scheduler are serial, and the Windows pool runs   *)
(* no more than m_maxThreads tasks at a time.                              *)
THEOREM ConcurrencyBounded == Spec => []ConcurrencyLimit
  <1>1. IndInv => ConcurrencyLimit
    <2> SUFFICES ASSUME IndInv PROVE ConcurrencyLimit
      OBVIOUS
    <2> DEFINE R == {w \in PoolThreads : InTask(w)}
    <2>1. PoolThreads \subseteq Threads /\ TheThread \in PoolThreads
          /\ scheduler \in {"Looper", "ThreadPoolWin", "UIWinRT"}
          /\ m_maxThreads \in Nat /\ m_usedThreads \in Nat /\ m_usedThreads <= m_maxThreads
          /\ submitted \in Nat
      BY ThreadsFinite, SchedulerAssumption, WinAssumption DEF IndInv, TypeOK, CommonTypeOK
    <2>2. CASE scheduler \in {"Looper", "UIWinRT"}
      <3>1. R \in SUBSET {TheThread} /\ m_maxThreads = 1
        BY <2>1, <2>2 DEF IndInv, LooperInv, LooperControl, UIInv, UIControl
      <3> HIDE DEF R
      <3>2. IsFiniteSet({TheThread}) /\ Cardinality({TheThread}) = 1
        BY FS_Singleton
      <3>3. Cardinality(R) <= 1
        BY <3>1, <3>2, FS_Subset
      <3> QED BY <3>1, <3>3 DEF ConcurrencyLimit, R
    <2>3. CASE scheduler = "ThreadPoolWin"
      <3>1. R \in SUBSET UsedBy
        BY <2>1, <2>3 DEF IndInv, WinInv, WinControl, UsedBy
      <3>2. UsedBy \in SUBSET PoolThreads
        BY DEF UsedBy
      <3>3. IsFiniteSet(UsedBy) /\ Cardinality(UsedBy) \in Nat
        BY <2>1, <3>2, CountChange
      <3> HIDE DEF R
      <3>4. Cardinality(R) <= Cardinality(UsedBy) /\ Cardinality(R) \in Nat
        BY <3>1, <3>3, FS_Subset, FS_CardinalityType
      <3>5. submitted + Cardinality(UsedBy) <= m_usedThreads
        BY <2>3 DEF IndInv, WinInv
      <3> QED BY <2>1, <3>3, <3>4, <3>5 DEF ConcurrencyLimit, R
    <2> QED BY <2>1, <2>2, <2>3
  <1> QED BY <1>1, Invariance, PTL

(* No VerifyElseCrash of the UI scheduler can fail: its two counters are   *)
(* those of the handlers the dispatcher holds or runs.                     *)
THEOREM HandlersCountCorrect == Spec => []HandlersCounted
  <1>1. IndInv => HandlersCounted
    <2> SUFFICES ASSUME IndInv, scheduler = "UIWinRT"
                 PROVE  /\ m_handlerRefCount =
                             submitted + Cardinality({w \in PoolThreads :
                                           pc[w] \in {"begin", "first", "leave", "drop"}})
                        /\ m_taskCount >= submitted
      BY DEF HandlersCounted, IndInv
    <2> DEFINE H == {w \in PoolThreads : pc[w] \in {"begin", "first", "leave", "drop"}}
    <2>1. TheThread \in PoolThreads
      BY ThreadsFinite
    <2>2. H = IF pc[TheThread] \in {"begin", "first", "leave", "drop"} THEN {TheThread} ELSE {}
      BY <2>1 DEF IndInv, UIInv, UIControl
    <2> HIDE DEF H
    <2>3. Cardinality(H) = Here({"begin", "first", "leave", "drop"})
      BY <2>2, FS_Singleton, FS_EmptySet DEF Here
    <2> QED BY <2>3 DEF IndInv, UIInv, H
  <1> QED BY <1>1, Invariance, PTL

(* Every reachable state has each task in one place. *)
LEMMA PlacesInvariance == Spec => []Places
  <1>1. Init => Places
    BY PlacesInit DEF Init
  <1>2. IndInv /\ Places /\ [Next]_vars => Places'
    BY ServiceEffect
  <1> QED BY <1>1, <1>2, Invariance, PTL DEF Spec

(* Whichever scheduler it has, the queue implements the abstract one:      *)
(* tasks start in the order they were posted, a queue that was shut down   *)
(* accepts none, and each is invoked or canceled.                          *)
THEOREM SchedulersImplement == Spec => ImplementsDispatchQueue
  <1>1. Init => Abstract!Init
    BY PlacesInit DEF Init
  <1>2. IndInv /\ Places /\ [Next]_vars => [Abstract!Next]_(Abstract!vars)
    <2> SUFFICES ASSUME IndInv, Places, [Next]_vars PROVE [Abstract!Next]_(Abstract!vars)
      OBVIOUS
    <2> QED BY ServiceEffect
  <1> QED BY <1>1, <1>2, Invariance, PlacesInvariance, PTL
          DEF Spec, ImplementsDispatchQueue, Abstract!Spec

(* No scheduler loses a task, runs one twice, or both invokes and cancels  *)
(* one.                                                                    *)
THEOREM SchedulersTaskFate == Spec => []Abstract!OnePlace
  <1>1. Places => Abstract!OnePlace
    BY DEF Places
  <1> QED BY <1>1, PlacesInvariance, PTL
-----------------------------------------------------------------------------
(* What AwaitTermination of the Windows pool waits for. *)

(* The calls of a thread that still has to await termination are those of  *)
(* the Shutdown before it: no Post of the scheduler is among them.         *)
AwaitsOnly(th) == SchedulerAwait \in TasksOf(todo[th]) => SchedulerPost \notin TasksOf(todo[th])

(* The Windows pool is never marked as shut down. *)
AwaitInv ==
  scheduler = "ThreadPoolWin" => ~m_isShutdown /\ \A c \in Clients : AwaitsOnly(c)

(* The calls a Shutdown makes have no Post of the scheduler among them. *)
LEMMA ShutdownPostsNothing ==
  ASSUME NEW tasks \in Seq(Tasks), NEW calls \in Seq(Calls), SchedulerPost \notin TasksOf(calls)
  PROVE  SchedulerPost \notin TasksOf([i \in 1..Len(tasks) |-> CancelTask(tasks[i])]
                                      \o <<SchedulerShutdown>> \o calls)
  <1> DEFINE cancels == [i \in 1..Len(tasks) |-> CancelTask(tasks[i])]
  <1>1. cancels \in Seq(Calls) /\ <<SchedulerShutdown>> \in Seq(Calls)
    BY CancelCallsType, CallTypes
  <1>2. SchedulerPost \notin TasksOf(cancels)
    <2> SUFFICES ASSUME NEW i \in 1..Len(tasks), SchedulerPost = CancelTask(tasks[i]) PROVE FALSE
      BY DEF TasksOf
    <2> QED BY DEF CancelTask, SchedulerPost
  <1>3. SchedulerPost \notin TasksOf(<<SchedulerShutdown>>)
    <2>1. SchedulerPost # SchedulerShutdown
      BY DEF SchedulerShutdown, SchedulerPost
    <2> QED BY <2>1 DEF TasksOf
  <1> HIDE DEF cancels
  <1> DEFINE both == cancels \o <<SchedulerShutdown>>
  <1>4. both \in Seq(Calls)
    BY <1>1, ConcatProperties
  <1>5. TasksOf(both) = TasksOf(cancels) \cup TasksOf(<<SchedulerShutdown>>)
    BY <1>1, ConcatTasks
  <1> HIDE DEF both
  <1>6. TasksOf(both \o calls) = TasksOf(both) \cup TasksOf(calls)
    BY <1>4, ConcatTasks
  <1>7. SchedulerPost \notin TasksOf(both \o calls)
    BY <1>2, <1>3, <1>5, <1>6
  <1> QED BY <1>7 DEF cancels, both

(* Every step of the service and every call of the scheduler keeps a Post  *)
(* out of the calls of a thread that awaits termination.                   *)
LEMMA AwaitsOnlyStep ==
  ASSUME IndInv, NEW th \in Threads, NEW c \in Clients, AwaitsOnly(c),
         ServiceStep(th) \/ WinCall(th)
  PROVE  AwaitsOnly(c)'
  <1>1. /\ ServiceOK /\ todo \in [Threads -> Seq(Calls)] /\ QueueOK(m_queue)
        /\ c \in Threads
    BY DEF IndInv, ServiceOK, TypeOK, ServiceTypeOK, Threads
  <1>2. CASE todo'[c] = todo[c]
    BY <1>2 DEF AwaitsOnly
  <1>3. ASSUME SchedulerPost \notin TasksOf(todo'[c]) \/ SchedulerAwait \notin TasksOf(todo'[c])
        PROVE  AwaitsOnly(c)'
    BY <1>3 DEF AwaitsOnly
  <1>4. ASSUME todo[th] # <<>>, Returned(th)
        PROVE  AwaitsOnly(c)'
    <2>1. CASE th = c
      <3>1. todo'[c] = Tail(todo[c]) /\ todo[c] \in Seq(Calls) /\ todo[c] # <<>>
        BY <1>1, <1>4, <2>1 DEF Returned
      <3>2. TasksOf(todo'[c]) \subseteq TasksOf(todo[c])
        BY <3>1, TasksOfTail
      <3> QED BY <3>2 DEF AwaitsOnly
    <2>2. CASE th # c
      BY <1>1, <1>2, <1>4, <2>2 DEF Returned
    <2> QED BY <2>1, <2>2
  <1>5. ASSUME NEW task \in Tasks, EnqueueElseCancel(th, task)
        PROVE  AwaitsOnly(c)'
    <2>1. \/ todo'[c] = todo[c]
          \/ todo'[c] \in {<<SchedulerPost>>, <<>>, <<CancelTask(task)>>}
      BY <1>1, <1>5 DEF EnqueueElseCancel
    <2>2. \A s \in {<<SchedulerPost>>, <<>>, <<CancelTask(task)>>} : SchedulerAwait \notin TasksOf(s)
      BY DEF TasksOf, SchedulerPost, SchedulerAwait, CancelTask
    <2> QED BY <1>2, <1>3, <2>1, <2>2
  <1>6. ASSUME NEW action, NEW calls \in {<<>>, <<SchedulerAwait>>}, ShutdownThen(th, action, calls)
        PROVE  AwaitsOnly(c)'
    <2> DEFINE tasks == IF action = "Cancel" THEN AllTasks(m_queue) ELSE <<>>
    <2>1. tasks \in Seq(Tasks) /\ calls \in Seq(Calls) /\ SchedulerPost \notin TasksOf(calls)
      <3>1. SchedulerPost # SchedulerAwait
        BY DEF SchedulerPost, SchedulerAwait
      <3>2. tasks \in Seq(Tasks)
        BY <1>1, DequeueAllOK
      <3>3. calls \in Seq(Calls)
        <4>1. SchedulerAwait \in Calls
          BY CallTypes
        <4>2. <<>> \in Seq(Calls) /\ <<SchedulerAwait>> \in Seq(Calls)
          BY <4>1
        <4> QED BY <4>2
      <3> QED BY <3>1, <3>2, <3>3 DEF TasksOf
    <2>2. \/ todo'[c] = todo[c]
          \/ todo'[c] = [i \in 1..Len(tasks) |-> CancelTask(tasks[i])]
                        \o <<SchedulerShutdown>> \o calls
      BY <1>1, <1>6 DEF ShutdownThen
    <2> HIDE DEF tasks
    <2> QED BY <1>2, <1>3, <2>1, <2>2, ShutdownPostsNothing
  <1>7. CASE ServiceStep(th)
    <2>1. CASE \E task \in Tasks : Post(th, task) \/ InvokeElsePost(th, task)
                                   \/ DeferElsePost(th, task)
      BY <1>2, <1>5, <2>1 DEF Post, InvokeElsePost, DeferElsePost
    <2>2. CASE Suspend(th) \/ TaskReturns(th)
      BY <1>2, <2>2 DEF Suspend, TaskReturns
    <2>3. CASE Resume(th)
      <3>1. \/ todo'[c] = todo[c] \/ todo'[c] = <<>>
            \/ todo'[c] = [i \in 1..Size(m_queue) |-> SchedulerPost]
        BY <1>1, <2>3 DEF Resume
      <3>2. SchedulerAwait \notin TasksOf(<<>>)
            /\ SchedulerAwait \notin TasksOf([i \in 1..Size(m_queue) |-> SchedulerPost])
        BY DEF TasksOf, SchedulerPost, SchedulerAwait
      <3> QED BY <1>2, <1>3, <3>1, <3>2
    <2>4. CASE \E action \in PendingTaskAction : Shutdown(th, action)
      BY <1>6, <2>4 DEF Shutdown
    <2>5. CASE AwaitTermination(th)
      BY <1>6, <2>5 DEF AwaitTermination
    <2>6. CASE Release(th)
      BY <1>2, <1>6, <2>6 DEF Release, DestroyIf
    <2>7. CASE RunCancelTask(th)
      BY <1>4, <2>7 DEF RunCancelTask, NextCall
    <2> QED BY <1>7, <2>1, <2>2, <2>3, <2>4, <2>5, <2>6, <2>7 DEF ServiceStep
  <1>8. CASE WinCall(th)
    BY <1>4, <1>8 DEF WinCall, WinPost, WinShutdown, WinAwait, ReturnedFromAwait, NextCall
  <1> QED BY <1>7, <1>8

(* AwaitInv is preserved: threads of the pool write their own calls only. *)
LEMMA AwaitStep ==
  ASSUME IndInv, AwaitInv, [Next]_vars
  PROVE  AwaitInv'
  <1> SUFFICES ASSUME scheduler' = "ThreadPoolWin"
               PROVE  ~m_isShutdown' /\ \A c \in Clients : AwaitsOnly(c)'
    BY DEF AwaitInv
  <1>1. scheduler = "ThreadPoolWin"
    BY TypeStep
  <1>2. /\ ~m_isShutdown /\ (\A c \in Clients : AwaitsOnly(c)) /\ ServiceOK
        /\ Clients \subseteq Threads /\ PoolThreads \subseteq Threads
        /\ todo \in [Threads -> Seq(Calls)] /\ Clients \cap PoolThreads = {}
    BY <1>1, QueueServiceAssumption DEF AwaitInv, IndInv, ServiceOK, TypeOK, ServiceTypeOK, Threads
  <1>3. ASSUME NEW th \in Threads, ServiceStep(th) /\ UNCHANGED schedulerVars
        PROVE  ~m_isShutdown' /\ \A c \in Clients : AwaitsOnly(c)'
    BY <1>2, <1>3, AwaitsOnlyStep DEF schedulerVars, commonVars
  <1>4. ASSUME NEW th \in Threads, CallStep(th)
        PROVE  ~m_isShutdown' /\ \A c \in Clients : AwaitsOnly(c)'
    <2>1. WinCall(th)
      BY <1>1, <1>4, WinKind
    <2>2. m_isShutdown' = m_isShutdown
      BY <2>1 DEF WinCall, WinPost, WinShutdown, WinAwait, commonVars
    <2> QED BY <1>2, <2>1, <2>2, AwaitsOnlyStep
  <1>5. ASSUME NEW w \in PoolThreads, ThreadStep(w)
        PROVE  ~m_isShutdown' /\ \A c \in Clients : AwaitsOnly(c)'
    <2>1. WinThread(w)
      BY <1>1, <1>5, WinKind
    <2>2. m_isShutdown' = m_isShutdown
      BY <2>1 DEF WinThread, StartCallback, CallbackTakeQueue, CallbackInvokeNext, CallbackStops,
                  CallbackReleaseThread, CallbackRecheck, CallbackReleaseQueue, CallbackReturns,
                  commonVars
    <2>3. \A c \in Clients : todo'[c] = todo[c]
      BY <1>2, <1>5, ThreadEffect DEF DequeueAndInvoke, ReleasePoolRef, DestroyIf, ShutdownThen
    <2> QED BY <1>2, <2>2, <2>3 DEF AwaitsOnly
  <1>6. CASE UNCHANGED vars
    BY <1>2, <1>6 DEF vars, serviceVars, schedulerVars, commonVars, AwaitsOnly
  <1> QED BY <1>1, <1>3, <1>4, <1>5, <1>6, WinKind DEF Next

(* The step in which a client's AwaitTermination returns. *)
LEMMA AwaitReturnsWhen ==
  ASSUME IndInv, scheduler = "ThreadPoolWin", [Next]_vars, awaited' # awaited
  PROVE  \E c \in Clients : NextCall(c, "SchedulerAwait") /\ submitted = 0
                            /\ \A w \in PoolThreads : pc[w] = "rest"
  <1>1. \A th \in Threads : ServiceStep(th) => awaited' = awaited
    BY DEF ServiceStep, Post, InvokeElsePost, DeferElsePost, Suspend, Resume, Shutdown,
           AwaitTermination, Release, RunCancelTask, TaskReturns
  <1>2. \A w \in PoolThreads : ThreadStep(w) => awaited' = awaited
    BY ThreadEffect DEF DequeueAndInvoke, ReleasePoolRef, KeepQueue
  <1>3. ~UNCHANGED vars
    BY DEF vars, serviceVars
  <1>4. PICK th \in Threads : WinCall(th)
    BY <1>1, <1>2, <1>3, WinKind DEF Next
  <1>5. WinAwait(th)
    BY <1>4 DEF WinCall, WinPost, WinShutdown, KeepQueue
  <1> QED BY <1>5 DEF WinAwait, ReturnedFromAwait

(* A queue on the Windows pool with a single client: when its              *)
(* AwaitTermination returns, every task it accepted has been started or    *)
(* canceled, those that tasks posted or deferred meanwhile included,       *)
(* unless the queue is suspended.  The callbacks have all returned, and    *)
(* no Post is on its way to the scheduler: neither from a callback nor     *)
(* from the client, whose last call the waiting is.                        *)
THEOREM AwaitCompletes ==
  ASSUME \A c, d \in Clients : c = d
  PROVE  Spec => AwaitCompletesPending
  <1>1. Init => AwaitInv
    <2> SUFFICES ASSUME Init PROVE AwaitInv
      OBVIOUS
    <2>1. ~m_isShutdown /\ \A c \in Clients : todo[c] = <<>>
      BY DEF Init, ServiceInit, Threads
    <2> QED BY <2>1 DEF AwaitInv, AwaitsOnly, TasksOf
  <1>2. ASSUME IndInv, AwaitInv, [Next]_vars, awaited' # awaited, scheduler = "ThreadPoolWin"
        PROVE  Contents(m_queue) = <<>> \/ m_suspendCounter > 0
    <2>1. PICK c \in Clients : NextCall(c, "SchedulerAwait") /\ submitted = 0
                               /\ \A w \in PoolThreads : pc[w] = "rest"
      BY <1>2, AwaitReturnsWhen
    <2>2. /\ QueueOK(m_queue) /\ m_suspendCounter \in Nat /\ ~m_isShutdown /\ AwaitsOnly(c)
          /\ NoLostWakeUp /\ WinControl /\ todo[c] \in Seq(Calls)
      BY <1>2 DEF IndInv, TypeOK, ServiceTypeOK, WinInv, AwaitInv, Threads
    <2>3. \A w \in PoolThreads : ~GoesToLook(w)
      BY <2>1 DEF GoesToLook
    <2>4. \A w \in PoolThreads : todo[w] = <<>>
      BY <2>1, <2>2, ThreadsFinite DEF WinControl
    <2>5. Head(todo[c]) = SchedulerAwait /\ Head(todo[c]) \in TasksOf(todo[c])
      <3>1. todo[c] # <<>> /\ Head(todo[c]).call = "SchedulerAwait"
        BY <2>1 DEF NextCall
      <3>2. Head(todo[c]) \in Calls
        BY <2>2, <3>1
      <3>3. Head(todo[c]) = SchedulerAwait
        BY <3>1, <3>2 DEF Calls, SchedulerPost, SchedulerShutdown, SchedulerAwait, JoinThread,
                          CancelTask
      <3> QED BY <2>2, <3>1, <3>3, TasksOfTail
    <2>6. ~PostOwed
      <3> SUFFICES ASSUME NEW th \in Threads, SchedulerPost \in TasksOf(todo[th]) PROVE FALSE
        BY DEF PostOwed
      <3>1. th \notin PoolThreads
        BY <2>4 DEF TasksOf
      <3>2. th = c
        BY <3>1 DEF Threads
      <3> QED BY <2>2, <2>5, <3>2 DEF AwaitsOnly
    <2>7. ~HasTasks
      BY <2>1, <2>2, <2>3, <2>6 DEF NoLostWakeUp
    <2>8. CASE IsEmpty(m_queue)
      <3>1. Len(Contents(m_queue)) = 0 /\ Contents(m_queue) \in Seq(Tasks)
        BY <2>2, <2>8, SizeCounts, UnreadType DEF Contents, QueueOK, TaskQueueType
      <3> QED BY <3>1, EmptySeq
    <2>9. CASE m_suspendCounter # 0
      BY <2>2, <2>9
    <2> QED BY <2>7, <2>8, <2>9 DEF HasTasks
  <1>3. IndInv /\ AwaitInv /\ [Next]_vars => AwaitInv'
    BY AwaitStep
  <1>4. IndInv /\ AwaitInv /\ [Next]_vars =>
          [awaited' # awaited /\ scheduler = "ThreadPoolWin" =>
             Contents(m_queue) = <<>> \/ m_suspendCounter > 0]_vars
    BY <1>2
  <1> QED BY <1>1, <1>3, <1>4, Invariance, PTL DEF Spec, AwaitCompletesPending
=============================================================================
