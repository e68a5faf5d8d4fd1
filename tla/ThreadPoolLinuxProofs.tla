------------------------ MODULE ThreadPoolLinuxProofs ------------------------
(***************************************************************************)
(* Proofs about ThreadPoolLinux, for every number of clients, threads and  *)
(* tasks: the inductive invariant IndInv and what follows from it.         *)
(***************************************************************************)
EXTENDS ThreadPoolLinux, QueueServiceProofs, FiniteSetTheorems

(* m_threads is filled from the front, and never past m_maxThreads. *)
ThreadsInOrder ==
  /\ m_threadCount <= m_maxThreads
  /\ \A w \in PoolThreads : pc[w] = "unborn" <=> w > m_threadCount

(* A pool thread refers to the service from GetStrongPtr to the end of the *)
(* scope; only then does it run tasks or hold calls to make, except for    *)
(* those of ~QueueService.                                                 *)
Holding == {"drain", "idle", "check", "again", "leave"}
HoldsWhileWorking ==
  /\ \A w \in PoolThreads : w \in poolRefs <=> pc[w] \in Holding
  /\ \A th \in Threads : InTask(th) => th \in PoolThreads /\ pc[th] = "drain"
  /\ \A w \in PoolThreads : todo[w] # <<>> => InTask(w) \/ pc[w] = "dying"

(* A thread gives up only after a shutdown or the end of the queue. *)
LeavesForAReason ==
  \A w \in PoolThreads :
    /\ pc[w] = "leave" => m_isShutdown
    /\ pc[w] = "exited" => m_isShutdown \/ ~IsAlive
    /\ pc[w] = "dying" => ~IsAlive

(* m_busyThreads is exact while the queue lives; a thread that finds the   *)
(* queue gone exits without counting itself out.                           *)
BusyCounted ==
  /\ Cardinality(Busy) <= m_busyThreads
  /\ BusyThreadsExact

IndInv ==
  /\ TypeOK
  /\ QueueOK(m_queue)
  /\ ThreadsInOrder
  /\ HoldsWhileWorking
  /\ LeavesForAReason
  /\ BusyCounted
  /\ NoLostWakeUp
-----------------------------------------------------------------------------
(* The set of pool threads is finite, and so is every part of it. *)
LEMMA PoolFinite ==
  /\ IsFiniteSet(PoolThreads)
  /\ Cardinality(PoolThreads) = MaxConcurrentThreads
  /\ IsFiniteSet(Busy)
  /\ Cardinality(Busy) \in Nat
  <1>1. IsFiniteSet(PoolThreads) /\ Cardinality(PoolThreads) = MaxConcurrentThreads
    BY LinuxAssumption, FS_Interval
  <1>2. IsFiniteSet(Busy) /\ Cardinality(Busy) \in Nat
    <2>1. Busy \subseteq PoolThreads
      BY DEF Busy
    <2> QED BY <1>1, <2>1, FS_Subset, FS_CardinalityType
  <1> QED BY <1>1, <1>2

(* A new queue satisfies the inductive invariant. *)
LEMMA InitInd == Init => IndInv
  <1> SUFFICES ASSUME Init PROVE IndInv
    OBVIOUS
  <1>1. ServiceOK
    BY ServiceInitOK DEF Init
  <1>2. TypeOK
    <2>1. m_maxThreads \in 1..MaxConcurrentThreads
      BY LinuxAssumption DEF Init
    <2>2. m_busyThreads \in Nat /\ m_threadCount \in 0..MaxConcurrentThreads
      BY LinuxAssumption DEF Init
    <2> QED BY <1>1, <2>1, <2>2 DEF Init, TypeOK, ServiceOK, PcValues
  <1>3. QueueOK(m_queue) /\ IsEmpty(m_queue)
    BY <1>1 DEF ServiceOK, Init, ServiceInit, EmptyTaskQueue, IsEmpty, ReadIsEmpty
  <1>4. ThreadsInOrder
    BY <1>2, LinuxAssumption DEF Init, ThreadsInOrder, TypeOK
  <1>5. HoldsWhileWorking
    BY DEF Init, ServiceInit, HoldsWhileWorking, Holding, InTask, NoContext, Threads
  <1>6. LeavesForAReason
    BY DEF Init, LeavesForAReason
  <1>7. BusyCounted
    <2>1. Busy = {}
      BY DEF Init, Busy
    <2> QED BY <2>1, FS_EmptySet DEF Init, BusyCounted, BusyThreadsExact
  <1>8. NoLostWakeUp
    BY <1>3 DEF NoLostWakeUp, HasTasks
  <1> QED BY <1>2, <1>3, <1>4, <1>5, <1>6, <1>7, <1>8 DEF IndInv

(* Every step keeps the state well typed and the task queue well formed.   *)
(* m_busyThreads stays a natural number because an idle thread is busy.    *)
LEMMA TypeStep ==
  ASSUME IndInv, [Next]_vars
  PROVE  TypeOK' /\ QueueOK(m_queue)'
  <1> USE DEF IndInv
  <1>1. ServiceOK
    BY DEF ServiceOK, TypeOK
  <1> SUFFICES /\ ServiceOK'
               /\ m_maxThreads' \in 1..MaxConcurrentThreads
               /\ m_busyThreads' \in Nat
               /\ m_threadCount' \in 0..MaxConcurrentThreads
               /\ m_isShutdown' \in BOOLEAN
               /\ m_threadMutex' \in PoolThreads \cup {NoThread}
               /\ pc' \in [PoolThreads -> PcValues]
    BY DEF ServiceOK, TypeOK
  <1>2. \A w \in PoolThreads : w \in Threads
    BY DEF Threads
  <1>3. ASSUME NEW th \in Threads, ServiceStep(th), UNCHANGED schedulerVars
        PROVE  ServiceOK' /\ TypeOK'
    BY <1>1, <1>3, ServiceStepOK DEF schedulerVars, TypeOK, ServiceOK
  <1>4. ASSUME NEW th \in Threads, RunPost(th)
        PROVE  ServiceOK' /\ TypeOK'
    <2>1. todo' \in [Threads -> Seq(Calls)]
      BY <1>1, <1>4, ReturnedOK DEF RunPost, NextCall
    <2>2. ServiceOK'
      BY <1>1, <1>4, <2>1 DEF RunPost, ServiceOK, ServiceTypeOK
    <2>3. m_threadCount' \in 0..MaxConcurrentThreads /\ m_busyThreads' \in Nat
      BY <1>4, LinuxAssumption DEF RunPost, NeedsThread, TypeOK
    <2>4. pc' \in [PoolThreads -> PcValues]
      BY <1>4 DEF RunPost, TypeOK, PcValues
    <2> QED BY <1>4, <2>2, <2>3, <2>4 DEF RunPost, TypeOK, ServiceOK
  <1>5. ASSUME NEW th \in Threads, RunShutdown(th)
        PROVE  ServiceOK' /\ TypeOK'
    <2>1. todo' \in [Threads -> Seq(Calls)]
      BY <1>1, <1>5, ReturnedOK DEF RunShutdown, NextCall
    <2>2. ServiceOK'
      BY <1>1, <1>5, <2>1 DEF RunShutdown, ServiceOK, ServiceTypeOK
    <2> QED BY <1>5, <2>2 DEF RunShutdown, SetShutdown, TypeOK, ServiceOK, PcValues
  <1>6. ASSUME NEW th \in Threads, RunAwait(th)
        PROVE  ServiceOK' /\ TypeOK'
    <2> DEFINE joins == [i \in 1..MaxConcurrentThreads |-> JoinThread(i)]
    <2>1. joins \in Seq(Calls)
      BY CallTypes, LinuxAssumption, IsASeq
    <2>2. Tail(todo[th]) \in Seq(Calls)
      BY <1>1, <1>6 DEF RunAwait, NextCall, ServiceOK, ServiceTypeOK
    <2>3. todo' = [todo EXCEPT ![th] = joins \o Tail(todo[th])]
      BY <1>6 DEF RunAwait
    <2> HIDE DEF joins
    <2>4. todo' \in [Threads -> Seq(Calls)]
      BY <1>1, <2>1, <2>2, <2>3 DEF ServiceOK, ServiceTypeOK
    <2>5. ServiceOK'
      BY <1>1, <1>6, <2>4 DEF RunAwait, ServiceOK, ServiceTypeOK
    <2> QED BY <1>6, <2>5 DEF RunAwait, SetShutdown, TypeOK, ServiceOK, PcValues
  <1>7. ASSUME NEW th \in Threads, RunJoin(th)
        PROVE  ServiceOK' /\ TypeOK'
    <2>1. todo' \in [Threads -> Seq(Calls)]
      BY <1>1, <1>7, ReturnedOK DEF RunJoin, NextCall
    <2>2. ServiceOK'
      BY <1>1, <1>7, <2>1 DEF RunJoin, ServiceOK, ServiceTypeOK
    <2> QED BY <1>7, <2>2 DEF RunJoin, schedulerVars, TypeOK, ServiceOK
  <1>8. ASSUME NEW w \in PoolThreads, GetStrongPtr(w)
        PROVE  ServiceOK' /\ TypeOK'
    <2>1. ServiceOK'
      BY <1>1, <1>8 DEF GetStrongPtr, ServiceOK, ServiceTypeOK
    <2> QED BY <1>8, <2>1 DEF GetStrongPtr, GoTo, TypeOK, ServiceOK, PcValues
  <1>9. ASSUME NEW w \in PoolThreads, InvokeNext(w)
        PROVE  ServiceOK' /\ TypeOK'
    <2>1. ServiceOK'
      BY <1>1, <1>2, <1>9, DequeueAndInvokeOK DEF InvokeNext
    <2> QED BY <1>9, <2>1 DEF InvokeNext, schedulerVars, TypeOK, ServiceOK
  <1>10. ASSUME NEW w \in PoolThreads,
                StopDraining(w) \/ CheckAgain(w) \/ WakeUp(w) \/ SpuriousWakeUp(w)
         PROVE  ServiceOK' /\ TypeOK'
    <2>1. ServiceOK'
      BY <1>1, <1>10 DEF StopDraining, CheckAgain, WakeUp, SpuriousWakeUp, serviceVars,
                         ServiceOK, ServiceTypeOK
    <2> QED BY <1>10, <2>1 DEF StopDraining, CheckAgain, WakeUp, SpuriousWakeUp, GoTo,
                               TypeOK, ServiceOK, PcValues
  <1>11. ASSUME NEW w \in PoolThreads, LockAndLeaveBusy(w)
         PROVE  ServiceOK' /\ TypeOK'
    <2>1. ServiceOK'
      BY <1>1, <1>11 DEF LockAndLeaveBusy, serviceVars, ServiceOK, ServiceTypeOK
    <2>2. w \in Busy
      BY <1>11 DEF LockAndLeaveBusy, GoTo, Busy
    <2>3. Cardinality(Busy) >= 1
      BY <2>2, PoolFinite, FS_EmptySet
    <2>4. m_busyThreads - 1 \in Nat
      BY <2>3, PoolFinite DEF BusyCounted, TypeOK
    <2> QED BY <1>11, <2>1, <2>4 DEF LockAndLeaveBusy, GoTo, TypeOK, ServiceOK, PcValues
  <1>12. ASSUME NEW w \in PoolThreads, ReleaseAndWait(w) \/ LeaveScope(w)
         PROVE  ServiceOK' /\ TypeOK'
    <2>1. ReleasePoolRef(w)
      BY <1>12 DEF ReleaseAndWait, LeaveScope
    <2>2. ServiceOK'
      BY <1>1, <1>2, <2>1, ReleasePoolRefOK
    <2> QED BY <1>12, <2>2 DEF ReleaseAndWait, LeaveScope, GoTo, TypeOK, ServiceOK, PcValues
  <1>13. CASE UNCHANGED vars
    BY <1>1, <1>13 DEF vars, serviceVars, schedulerVars, TypeOK, ServiceOK, ServiceTypeOK
  <1> QED BY <1>3, <1>4, <1>5, <1>6, <1>7, <1>8, <1>9, <1>10, <1>11, <1>12, <1>13
          DEF Next, CallStep, WorkerStep, TypeOK

(* Once the last reference is gone the service is never alive again. *)
LEMMA AliveStep ==
  ASSUME IndInv, [Next]_vars
  PROVE  IsAlive' => IsAlive
  <1> USE DEF IndInv
  <1>1. ServiceOK
    BY DEF ServiceOK, TypeOK
  <1>2. ASSUME NEW th \in Threads, ServiceStep(th) PROVE IsAlive' => IsAlive
    <2>1. InTask(th) => th \in poolRefs
      BY DEF HoldsWhileWorking, Holding
    <2> QED BY <1>1, <1>2, <2>1, ServiceStepAlive
  <1>3. ASSUME NEW th \in Threads, CallStep(th) PROVE IsAlive' => IsAlive
    BY <1>3 DEF CallStep, RunPost, RunShutdown, RunAwait, RunJoin, IsAlive
  <1>4. ASSUME NEW w \in PoolThreads, WorkerStep(w) \/ SpuriousWakeUp(w)
        PROVE  IsAlive' => IsAlive
    <2>1. CASE GetStrongPtr(w)
      BY <2>1 DEF GetStrongPtr, IsAlive
    <2>2. CASE InvokeNext(w)
      BY <2>2 DEF InvokeNext, DequeueAndInvoke, HasTasks, QueueOK, IsAlive
    <2>3. CASE \/ StopDraining(w) \/ LockAndLeaveBusy(w) \/ CheckAgain(w)
               \/ WakeUp(w) \/ SpuriousWakeUp(w)
      BY <2>3 DEF StopDraining, LockAndLeaveBusy, CheckAgain, WakeUp, SpuriousWakeUp,
                  serviceVars, IsAlive
    <2>4. CASE ReleaseAndWait(w) \/ LeaveScope(w)
      <3>1. ReleasePoolRef(w)
        BY <2>4 DEF ReleaseAndWait, LeaveScope
      <3>2. m_queue' = m_queue /\ clientRefs' = clientRefs /\ poolRefs' \subseteq poolRefs
        BY <3>1 DEF ReleasePoolRef, DestroyIf, ShutdownThen
      <3> QED BY <3>2 DEF IsAlive
    <2> QED BY <1>4, <2>1, <2>2, <2>3, <2>4 DEF WorkerStep
  <1>5. CASE UNCHANGED vars
    BY <1>5 DEF vars, serviceVars, IsAlive
  <1> QED BY <1>2, <1>3, <1>4, <1>5 DEF Next

(* A thread starts in the slot after the last one, and only there. *)
LEMMA ThreadsInOrderStep ==
  ASSUME IndInv, [Next]_vars
  PROVE  ThreadsInOrder'
  <1> USE DEF IndInv, ThreadsInOrder
  <1>1. ASSUME NEW th \in Threads, RunPost(th) PROVE ThreadsInOrder'
    <2>1. CASE NeedsThread
      BY <1>1, <2>1, LinuxAssumption DEF RunPost, NeedsThread, TypeOK
    <2>2. CASE ~NeedsThread
      BY <1>1, <2>2 DEF RunPost, TypeOK, Waiting
    <2> QED BY <2>1, <2>2
  <1>2. ASSUME NEW th \in Threads,
               \/ RunShutdown(th) \/ RunAwait(th) \/ RunJoin(th)
               \/ ServiceStep(th) /\ UNCHANGED schedulerVars
        PROVE  ThreadsInOrder'
    BY <1>2 DEF RunShutdown, RunAwait, RunJoin, SetShutdown, schedulerVars, TypeOK
  <1>3. ASSUME NEW w \in PoolThreads, WorkerStep(w) \/ SpuriousWakeUp(w)
        PROVE  ThreadsInOrder'
    <2>1. /\ m_threadCount' = m_threadCount /\ m_maxThreads' = m_maxThreads
          /\ \/ pc' = pc
             \/ /\ pc[w] # "unborn"
                /\ \E to \in PcValues \ {"unborn"} : pc' = [pc EXCEPT ![w] = to]
      BY <1>3 DEF WorkerStep, GetStrongPtr, InvokeNext, StopDraining, LockAndLeaveBusy,
                  CheckAgain, ReleaseAndWait, LeaveScope, WakeUp, SpuriousWakeUp, GoTo,
                  schedulerVars, PcValues
    <2> QED BY <2>1 DEF TypeOK
  <1>4. CASE UNCHANGED vars
    BY <1>4 DEF vars, schedulerVars
  <1> QED BY <1>1, <1>2, <1>3, <1>4 DEF Next, CallStep

(* References are taken and dropped in step with the control flow. *)
LEMMA HoldsStep ==
  ASSUME IndInv, [Next]_vars
  PROVE  HoldsWhileWorking'
  <1> USE DEF IndInv, HoldsWhileWorking
  <1>1. ServiceOK /\ PoolThreads \subseteq Threads
    BY DEF ServiceOK, TypeOK, Threads
  <1>2. ASSUME NEW th \in Threads, ServiceStep(th), UNCHANGED schedulerVars
        PROVE  HoldsWhileWorking'
    <2>1. /\ poolRefs' = poolRefs /\ pc' = pc
          /\ \A o \in Threads \ {th} : todo'[o] = todo[o] /\ context'[o] = context[o]
          /\ InTask(th)' => InTask(th)
          /\ th \in PoolThreads /\ todo'[th] # <<>> =>
               InTask(th)' \/ (todo[th] # <<>> /\ context' = context)
      BY <1>1, <1>2, ServiceStepControl DEF schedulerVars
    <2>2. \A o \in Threads \ {th} : InTask(o)' <=> InTask(o)
      BY <2>1 DEF InTask
    <2>3. context' = context => (InTask(th)' <=> InTask(th))
      BY DEF InTask
    <2> QED BY <1>1, <2>1, <2>2, <2>3
  <1>3. ASSUME NEW th \in Threads, CallStep(th)
        PROVE  HoldsWhileWorking'
    <2>1. context' = context /\ poolRefs' = poolRefs
      BY <1>3 DEF CallStep, RunPost, RunShutdown, RunAwait, RunJoin
    <2>2. \A o \in Threads : todo'[o] # <<>> => todo[o] # <<>>
      BY <1>1, <1>3 DEF CallStep, RunPost, RunShutdown, RunAwait, RunJoin, NextCall, Returned,
                        ServiceOK, ServiceTypeOK
    <2>3. \A w \in PoolThreads :
            \/ pc'[w] = pc[w]
            \/ pc[w] \in {"unborn", "wait"} /\ pc'[w] \in {"loop", "woken"}
      <3>1. CASE RunPost(th)
        <4>1. CASE NeedsThread
          <5>1. pc[m_threadCount + 1] = "unborn" /\ m_threadCount + 1 \in PoolThreads
            BY <4>1, LinuxAssumption DEF NeedsThread, ThreadsInOrder, TypeOK
          <5> QED BY <3>1, <4>1, <5>1 DEF RunPost, TypeOK
        <4>2. CASE ~NeedsThread
          BY <3>1, <4>2 DEF RunPost, Waiting, TypeOK
        <4> QED BY <4>1, <4>2
      <3>2. CASE RunShutdown(th) \/ RunAwait(th) \/ RunJoin(th)
        BY <3>2 DEF RunShutdown, RunAwait, RunJoin, SetShutdown, schedulerVars
      <3> QED BY <1>3, <3>1, <3>2 DEF CallStep
    <2>4. \A o \in Threads : InTask(o)' <=> InTask(o)
      BY <2>1 DEF InTask
    <2> QED BY <1>1, <2>1, <2>2, <2>3, <2>4 DEF Holding
  <1>4. ASSUME NEW w \in PoolThreads, InvokeNext(w)
        PROVE  HoldsWhileWorking'
    <2>1. /\ pc[w] = "drain" /\ pc' = pc /\ poolRefs' = poolRefs /\ todo' = todo
          /\ \A o \in Threads \ {w} : context'[o] = context[o]
      BY <1>1, <1>4 DEF InvokeNext, DequeueAndInvoke, schedulerVars, ServiceOK, ServiceTypeOK
    <2>2. InTask(w)'
      BY <1>1, <1>4 DEF InvokeNext, DequeueAndInvoke, InTask, ServiceOK, ServiceTypeOK
    <2>3. \A o \in Threads \ {w} : InTask(o)' <=> InTask(o)
      BY <2>1 DEF InTask
    <2> QED BY <1>1, <2>1, <2>2, <2>3
  <1>5. ASSUME NEW w \in PoolThreads,
               \/ GetStrongPtr(w) \/ StopDraining(w) \/ LockAndLeaveBusy(w)
               \/ CheckAgain(w) \/ WakeUp(w) \/ SpuriousWakeUp(w)
        PROVE  HoldsWhileWorking'
    <2>1. context' = context /\ todo' = todo
      BY <1>5 DEF GetStrongPtr, StopDraining, LockAndLeaveBusy, CheckAgain, WakeUp,
                  SpuriousWakeUp, serviceVars
    <2>2. \A o \in Threads : InTask(o)' <=> InTask(o)
      BY <2>1 DEF InTask
    <2>3. /\ ~InTask(w) /\ pc[w] # "dying"
          /\ \A o \in PoolThreads \ {w} : pc'[o] = pc[o]
          /\ w \in poolRefs' <=> pc'[w] \in Holding
          /\ \A o \in PoolThreads \ {w} : o \in poolRefs' <=> o \in poolRefs
      BY <1>1, <1>5 DEF GetStrongPtr, StopDraining, LockAndLeaveBusy, CheckAgain, WakeUp,
                  SpuriousWakeUp, GoTo, Holding, TypeOK, serviceVars
    <2> QED BY <1>1, <2>1, <2>2, <2>3
  <1>6. ASSUME NEW w \in PoolThreads, ReleaseAndWait(w) \/ LeaveScope(w)
        PROVE  HoldsWhileWorking'
    <2>1. ReleasePoolRef(w) /\ context' = context /\ poolRefs' = poolRefs \ {w}
      BY <1>6 DEF ReleaseAndWait, LeaveScope, ReleasePoolRef
    <2>2. \A o \in Threads : InTask(o)' <=> InTask(o)
      BY <2>1 DEF InTask
    <2>3. /\ pc[w] \in {"check", "again", "leave"}
          /\ \A o \in PoolThreads \ {w} : pc'[o] = pc[o]
          /\ pc'[w] \in {"dying", "wait", "loop", "exited"}
          /\ IsLastPoolRef(w) => pc'[w] = "dying"
      BY <1>6 DEF ReleaseAndWait, LeaveScope, GoTo, TypeOK
    <2>4. ~InTask(w) /\ todo[w] = <<>>
      BY <1>1, <2>3
    <2>5. /\ \A o \in Threads \ {w} : todo'[o] = todo[o]
          /\ ~IsLastPoolRef(w) => todo'[w] = todo[w]
      BY <1>1, <2>1 DEF ReleasePoolRef, DestroyIf, ShutdownThen, ServiceOK, ServiceTypeOK
    <2> QED BY <1>1, <2>1, <2>2, <2>3, <2>4, <2>5 DEF Holding
  <1>7. CASE UNCHANGED vars
    BY <1>7 DEF vars, serviceVars, schedulerVars, InTask
  <1> QED BY <1>2, <1>3, <1>4, <1>5, <1>6, <1>7 DEF Next, WorkerStep

(* Threads leave the loop only after a shutdown or the end of the queue. *)
LEMMA LeavesStep ==
  ASSUME IndInv, [Next]_vars
  PROVE  LeavesForAReason'
  <1> USE DEF IndInv, LeavesForAReason
  <1>1. IsAlive' => IsAlive
    BY AliveStep
  <1>2. ASSUME NEW th \in Threads,
               CallStep(th) \/ (ServiceStep(th) /\ UNCHANGED schedulerVars)
        PROVE  LeavesForAReason'
    <2>1. m_isShutdown => m_isShutdown'
      BY <1>2 DEF CallStep, RunPost, RunShutdown, RunAwait, RunJoin, SetShutdown, schedulerVars
    <2>2. \A w \in PoolThreads : pc'[w] = pc[w] \/ pc'[w] \in {"loop", "woken"}
      BY <1>2 DEF CallStep, RunPost, RunShutdown, RunAwait, RunJoin, SetShutdown,
                  schedulerVars, Waiting, TypeOK
    <2> QED BY <1>1, <2>1, <2>2
  <1>3. ASSUME NEW w \in PoolThreads, WorkerStep(w) \/ SpuriousWakeUp(w)
        PROVE  LeavesForAReason'
    <2>1. m_isShutdown' = m_isShutdown
      BY <1>3 DEF WorkerStep, GetStrongPtr, InvokeNext, StopDraining, LockAndLeaveBusy,
                  CheckAgain, ReleaseAndWait, LeaveScope, WakeUp, SpuriousWakeUp,
                  schedulerVars
    <2>2. \A o \in PoolThreads \ {w} : pc'[o] = pc[o]
      BY <1>3 DEF WorkerStep, GetStrongPtr, InvokeNext, StopDraining, LockAndLeaveBusy,
                  CheckAgain, ReleaseAndWait, LeaveScope, WakeUp, SpuriousWakeUp, GoTo,
                  schedulerVars, TypeOK
    <2>3. CASE ReleaseAndWait(w) \/ LeaveScope(w)
      <3>1. ReleasePoolRef(w)
        BY <2>3 DEF ReleaseAndWait, LeaveScope
      <3>2. IsLastPoolRef(w) => ~IsAlive'
        BY <3>1 DEF ReleasePoolRef, DestroyIf, ShutdownThen, IsLastPoolRef, IsAlive
      <3>3. /\ pc'[w] = "dying" => IsLastPoolRef(w)
            /\ pc'[w] # "leave"
            /\ pc'[w] = "exited" => pc[w] = "leave"
        BY <2>3 DEF ReleaseAndWait, LeaveScope, GoTo, TypeOK
      <3> QED BY <1>1, <2>1, <2>2, <3>2, <3>3
    <2>4. CASE ~(ReleaseAndWait(w) \/ LeaveScope(w))
      <3>1. \/ pc'[w] = pc[w]
            \/ pc'[w] \notin {"leave", "exited", "dying"}
            \/ pc'[w] = "leave" /\ m_isShutdown
            \/ pc'[w] = "exited" /\ ~IsAlive
        BY <1>3, <2>4 DEF WorkerStep, GetStrongPtr, InvokeNext, StopDraining,
                    LockAndLeaveBusy, CheckAgain, WakeUp, SpuriousWakeUp, GoTo,
                    schedulerVars, TypeOK
      <3> QED BY <1>1, <2>1, <2>2, <3>1
    <2> QED BY <2>3, <2>4
  <1>4. CASE UNCHANGED vars
    BY <1>4 DEF vars, serviceVars, schedulerVars, IsAlive
  <1> QED BY <1>2, <1>3, <1>4 DEF Next

(* How the number of busy threads follows the control flow. *)
LEMMA BusyChange ==
  ASSUME TypeOK, NEW w \in PoolThreads, NEW to \in PcValues,
         pc' = [pc EXCEPT ![w] = to]
  PROVE  LET b == to \in {"loop", "drain", "idle", "again"}
         IN /\ w \in Busy /\ b => Cardinality(Busy') = Cardinality(Busy)
            /\ w \in Busy /\ ~b => Cardinality(Busy') = Cardinality(Busy) - 1
            /\ w \notin Busy /\ b => Cardinality(Busy') = Cardinality(Busy) + 1
            /\ w \notin Busy /\ ~b => Cardinality(Busy') = Cardinality(Busy)
  <1> DEFINE b == to \in {"loop", "drain", "idle", "again"}
  <1>1. Busy' = IF b THEN Busy \cup {w} ELSE Busy \ {w}
    BY DEF Busy, TypeOK
  <1>2. /\ w \in Busy => Busy \cup {w} = Busy
        /\ w \notin Busy => Busy \ {w} = Busy
    OBVIOUS
  <1>3. /\ w \notin Busy => Cardinality(Busy \cup {w}) = Cardinality(Busy) + 1
        /\ w \in Busy => Cardinality(Busy \ {w}) = Cardinality(Busy) - 1
    BY PoolFinite, FS_AddElement, FS_RemoveElement
  <1> QED BY <1>1, <1>2, <1>3

(* Every step that moves a thread in or out of Busy counts it, except for  *)
(* the exit of a thread that found the queue gone.                         *)
LEMMA BusyStep ==
  ASSUME IndInv, [Next]_vars
  PROVE  BusyCounted'
  <1> USE DEF IndInv
  <1>1. IsAlive' => IsAlive
    BY AliveStep
  <1>2. Cardinality(Busy) \in Nat /\ m_busyThreads \in Nat
    BY PoolFinite DEF TypeOK
  <1>3. ASSUME Busy' = Busy, m_busyThreads' = m_busyThreads
        PROVE  BusyCounted'
    BY <1>1, <1>3 DEF BusyCounted, BusyThreadsExact
  <1>4. ASSUME NEW th \in Threads, RunPost(th) PROVE BusyCounted'
    <2>1. CASE NeedsThread
      <3> DEFINE w == m_threadCount + 1
      <3>1. w \in PoolThreads /\ w \notin Busy
        BY <2>1, LinuxAssumption DEF NeedsThread, ThreadsInOrder, TypeOK, Busy
      <3>2. pc' = [pc EXCEPT ![w] = "loop"] /\ m_busyThreads' = m_busyThreads + 1
        BY <1>4, <2>1 DEF RunPost
      <3>3. Cardinality(Busy') = Cardinality(Busy) + 1
        BY <3>1, <3>2, BusyChange DEF PcValues
      <3> QED BY <1>1, <1>2, <3>2, <3>3 DEF BusyCounted, BusyThreadsExact
    <2>2. CASE ~NeedsThread
      <3>1. Busy' = Busy /\ m_busyThreads' = m_busyThreads
        BY <1>4, <2>2 DEF RunPost, Waiting, Busy, TypeOK
      <3> QED BY <1>3, <3>1
    <2> QED BY <2>1, <2>2
  <1>5. ASSUME NEW th \in Threads,
               \/ RunShutdown(th) \/ RunAwait(th) \/ RunJoin(th)
               \/ ServiceStep(th) /\ UNCHANGED schedulerVars
        PROVE  BusyCounted'
    <2>1. Busy' = Busy /\ m_busyThreads' = m_busyThreads
      BY <1>5 DEF RunShutdown, RunAwait, RunJoin, SetShutdown, schedulerVars, Busy
    <2> QED BY <1>3, <2>1
  <1>6. ASSUME NEW w \in PoolThreads, GetStrongPtr(w) PROVE BusyCounted'
    <2>1. w \in Busy /\ m_busyThreads' = m_busyThreads
      BY <1>6 DEF GetStrongPtr, GoTo, Busy
    <2>2. CASE IsAlive
      <3>1. pc' = [pc EXCEPT ![w] = "drain"]
        BY <1>6, <2>2 DEF GetStrongPtr, GoTo
      <3>2. Cardinality(Busy') = Cardinality(Busy)
        BY <2>1, <3>1, BusyChange DEF PcValues
      <3> QED BY <1>1, <2>1, <3>2 DEF BusyCounted, BusyThreadsExact
    <2>3. CASE ~IsAlive
      <3>1. pc' = [pc EXCEPT ![w] = "exited"]
        BY <1>6, <2>3 DEF GetStrongPtr, GoTo
      <3>2. Cardinality(Busy') = Cardinality(Busy) - 1
        BY <2>1, <3>1, BusyChange DEF PcValues
      <3> QED BY <1>1, <1>2, <2>1, <2>3, <3>2 DEF BusyCounted, BusyThreadsExact
    <2> QED BY <2>2, <2>3
  <1>7. ASSUME NEW w \in PoolThreads, InvokeNext(w) PROVE BusyCounted'
    BY <1>3, <1>7 DEF InvokeNext, schedulerVars, Busy
  <1>8. ASSUME NEW w \in PoolThreads, StopDraining(w) PROVE BusyCounted'
    <2>1. Busy' = Busy /\ m_busyThreads' = m_busyThreads
      BY <1>8 DEF StopDraining, GoTo, Busy, TypeOK
    <2> QED BY <1>3, <2>1
  <1>9. ASSUME NEW w \in PoolThreads, LockAndLeaveBusy(w) PROVE BusyCounted'
    <2>1. PICK to \in {"leave", "check"} : pc' = [pc EXCEPT ![w] = to]
      BY <1>9 DEF LockAndLeaveBusy, GoTo
    <2>2. w \in Busy /\ m_busyThreads' = m_busyThreads - 1
      BY <1>9 DEF LockAndLeaveBusy, GoTo, Busy
    <2>3. Cardinality(Busy') = Cardinality(Busy) - 1
      BY <2>1, <2>2, BusyChange DEF PcValues
    <2> QED BY <1>1, <1>2, <2>2, <2>3 DEF BusyCounted, BusyThreadsExact
  <1>10. ASSUME NEW w \in PoolThreads, CheckAgain(w) PROVE BusyCounted'
    <2>1. /\ pc' = [pc EXCEPT ![w] = "again"] /\ w \notin Busy
          /\ m_busyThreads' = m_busyThreads + 1
      BY <1>10 DEF CheckAgain, GoTo, Busy
    <2>2. Cardinality(Busy') = Cardinality(Busy) + 1
      BY <2>1, BusyChange DEF PcValues
    <2> QED BY <1>1, <1>2, <2>1, <2>2 DEF BusyCounted, BusyThreadsExact
  <1>11. ASSUME NEW w \in PoolThreads, ReleaseAndWait(w) PROVE BusyCounted'
    <2>1. Busy' = Busy /\ m_busyThreads' = m_busyThreads
      BY <1>11 DEF ReleaseAndWait, GoTo, Busy, TypeOK
    <2> QED BY <1>3, <2>1
  <1>12. ASSUME NEW w \in PoolThreads, LeaveScope(w) PROVE BusyCounted'
    <2>1. ReleasePoolRef(w) /\ m_busyThreads' = m_busyThreads
      BY <1>12 DEF LeaveScope
    <2>2. CASE pc[w] = "again" /\ ~IsLastPoolRef(w)
      <3>1. Busy' = Busy
        BY <1>12, <2>2 DEF LeaveScope, GoTo, Busy, TypeOK
      <3> QED BY <1>3, <2>1, <3>1
    <2>3. CASE pc[w] = "again" /\ IsLastPoolRef(w)
      <3>1. ~IsAlive'
        BY <2>1, <2>3 DEF ReleasePoolRef, DestroyIf, ShutdownThen, IsLastPoolRef, IsAlive
      <3>2. pc' = [pc EXCEPT ![w] = "dying"] /\ w \in Busy
        BY <1>12, <2>3 DEF LeaveScope, GoTo, Busy
      <3>3. Cardinality(Busy') = Cardinality(Busy) - 1
        BY <3>2, BusyChange DEF PcValues
      <3> QED BY <1>2, <2>1, <3>1, <3>3 DEF BusyCounted, BusyThreadsExact
    <2>4. CASE pc[w] = "leave"
      <3>1. Busy' = Busy
        BY <1>12, <2>4 DEF LeaveScope, GoTo, Busy, TypeOK
      <3> QED BY <1>3, <2>1, <3>1
    <2> QED BY <1>12, <2>2, <2>3, <2>4 DEF LeaveScope, GoTo
  <1>13. ASSUME NEW w \in PoolThreads, WakeUp(w) PROVE BusyCounted'
    <2>1. /\ pc' = [pc EXCEPT ![w] = "loop"] /\ w \notin Busy
          /\ m_busyThreads' = m_busyThreads + 1
      BY <1>13 DEF WakeUp, GoTo, Busy
    <2>2. Cardinality(Busy') = Cardinality(Busy) + 1
      BY <2>1, BusyChange DEF PcValues
    <2> QED BY <1>1, <1>2, <2>1, <2>2 DEF BusyCounted, BusyThreadsExact
  <1>14. ASSUME NEW w \in PoolThreads, SpuriousWakeUp(w) PROVE BusyCounted'
    <2>1. Busy' = Busy /\ m_busyThreads' = m_busyThreads
      BY <1>14 DEF SpuriousWakeUp, GoTo, Busy, TypeOK
    <2> QED BY <1>3, <2>1
  <1>15. CASE UNCHANGED vars
    BY <1>3, <1>15 DEF vars, schedulerVars, Busy
  <1>16. ASSUME NEW w \in PoolThreads, WorkerStep(w) \/ SpuriousWakeUp(w)
         PROVE  BusyCounted'
    BY <1>6, <1>7, <1>8, <1>9, <1>10, <1>11, <1>12, <1>13, <1>14, <1>16 DEF WorkerStep
  <1> QED BY <1>4, <1>5, <1>15, <1>16 DEF Next, CallStep

(* When a Post neither starts nor wakes a thread, one is on its way. *)
LEMMA SomeoneAwake ==
  ASSUME IndInv, HasTasks, ~m_isShutdown, ~NeedsThread, Waiting = {}
  PROVE  Awake # {}
  <1> USE DEF IndInv
  <1>1. IsAlive
    BY DEF HasTasks, QueueOK, IsAlive
  <1> SUFFICES ASSUME Awake = {} PROVE FALSE
    OBVIOUS
  <1>2. \A w \in PoolThreads : pc[w] = "unborn"
    BY <1>1 DEF Awake, Waiting, LeavesForAReason, TypeOK, PcValues
  <1>3. m_threadCount = 0
    <2>1. 1 \in PoolThreads
      BY LinuxAssumption
    <2> QED BY <1>2, <2>1 DEF ThreadsInOrder, TypeOK
  <1>4. m_busyThreads = 0
    <2>1. Busy = {}
      BY <1>2 DEF Busy
    <2> QED BY <1>1, <2>1, FS_EmptySet DEF BusyCounted, BusyThreadsExact
  <1> QED BY <1>3, <1>4 DEF NeedsThread, TypeOK

(* No step loses a wake-up. *)
LEMMA WakeStep ==
  ASSUME IndInv, [Next]_vars
  PROVE  NoLostWakeUp'
  <1> USE DEF IndInv
  <1>1. ServiceOK
    BY DEF ServiceOK, TypeOK
  <1> SUFFICES ASSUME HasTasks', ~m_isShutdown'
               PROVE  PostOwed' \/ Awake' # {}
    BY DEF NoLostWakeUp
  <1>2. ASSUME NEW th \in Threads, ServiceStep(th), UNCHANGED schedulerVars
        PROVE  PostOwed' \/ Awake' # {}
    <2>1. Awake' = Awake /\ ~m_isShutdown
      BY <1>2 DEF Awake, schedulerVars
    <2>2. /\ PostOwed => PostOwed'
          /\ HasTasks' => HasTasks \/ PostOwed'
      BY <1>1, <1>2, ServiceStepWake
    <2> QED BY <2>1, <2>2 DEF NoLostWakeUp
  <1>3. ASSUME NEW th \in Threads, RunPost(th)
        PROVE  PostOwed' \/ Awake' # {}
    <2>1. HasTasks /\ ~m_isShutdown
      BY <1>3 DEF RunPost, HasTasks
    <2>2. CASE NeedsThread
      <3>1. m_threadCount + 1 \in PoolThreads
        BY <2>2, LinuxAssumption DEF NeedsThread, TypeOK
      <3>2. pc'[m_threadCount + 1] = "loop"
        BY <1>3, <2>2, <3>1 DEF RunPost, TypeOK
      <3> QED BY <3>1, <3>2 DEF Awake
    <2>3. CASE ~NeedsThread /\ Waiting # {}
      <3>1. PICK w \in Waiting : pc' = [pc EXCEPT ![w] = "woken"]
        BY <1>3, <2>3 DEF RunPost
      <3> QED BY <3>1 DEF Awake, Waiting, TypeOK
    <2>4. CASE ~NeedsThread /\ Waiting = {}
      <3>1. Awake # {}
        BY <2>1, <2>4, SomeoneAwake
      <3>2. Awake' = Awake
        BY <1>3, <2>4 DEF RunPost, Awake
      <3> QED BY <3>1, <3>2
    <2> QED BY <2>2, <2>3, <2>4
  <1>4. ASSUME NEW th \in Threads, RunShutdown(th) \/ RunAwait(th)
        PROVE  FALSE
    BY <1>4 DEF RunShutdown, RunAwait, SetShutdown
  <1>5. ASSUME NEW th \in Threads, RunJoin(th)
        PROVE  PostOwed' \/ Awake' # {}
    <2>1. HasTasks /\ ~m_isShutdown /\ Awake' = Awake
      BY <1>5 DEF RunJoin, HasTasks, schedulerVars, Awake
    <2>2. ASSUME PostOwed PROVE PostOwed'
      <3>1. PICK o \in Threads : SchedulerPost \in TasksOf(todo[o])
        BY <2>2 DEF PostOwed
      <3>2. CASE o # th
        BY <1>1, <1>5, <3>1, <3>2
           DEF RunJoin, Returned, PostOwed, ServiceOK, ServiceTypeOK
      <3>3. CASE o = th
        <4>1. /\ todo[th] # <<>> /\ todo[th] \in Seq(Calls)
              /\ Head(todo[th]).call = "JoinThread" /\ todo'[th] = Tail(todo[th])
          BY <1>1, <1>5 DEF RunJoin, NextCall, Returned, ServiceOK, ServiceTypeOK
        <4>2. Head(todo[th]) # SchedulerPost
          BY <4>1 DEF SchedulerPost
        <4>3. SchedulerPost \in TasksOf(Tail(todo[th]))
          BY <3>1, <3>3, <4>1, <4>2, TasksOfTail
        <4> QED BY <4>1, <4>3 DEF PostOwed
      <3> QED BY <3>2, <3>3
    <2> QED BY <2>1, <2>2 DEF NoLostWakeUp
  <1>6. ASSUME NEW w \in PoolThreads, GetStrongPtr(w)
        PROVE  Awake' # {}
    <2>1. IsAlive
      BY <1>6 DEF GetStrongPtr, HasTasks, QueueOK, IsAlive
    <2> QED BY <1>6, <2>1 DEF GetStrongPtr, GoTo, Awake, TypeOK
  <1>7. ASSUME NEW w \in PoolThreads,
               \/ InvokeNext(w) \/ StopDraining(w) \/ LockAndLeaveBusy(w)
               \/ CheckAgain(w) \/ WakeUp(w) \/ SpuriousWakeUp(w)
        PROVE  Awake' # {}
    <2>1. pc'[w] \in {"loop", "drain", "idle", "check", "again", "woken"}
      BY <1>7 DEF InvokeNext, StopDraining, LockAndLeaveBusy, CheckAgain, WakeUp,
                  SpuriousWakeUp, GoTo, schedulerVars, TypeOK
    <2> QED BY <2>1 DEF Awake
  <1>8. ASSUME NEW w \in PoolThreads, ReleaseAndWait(w) \/ LeaveScope(w)
        PROVE  Awake' # {}
    <2>1. ReleasePoolRef(w) /\ m_isShutdown' = m_isShutdown
      BY <1>8 DEF ReleaseAndWait, LeaveScope
    <2>2. m_queue' = m_queue /\ m_suspendCounter' = m_suspendCounter
      BY <2>1 DEF ReleasePoolRef, DestroyIf, ShutdownThen
    <2>3. HasTasks /\ ~IsLastPoolRef(w)
      BY <2>2 DEF HasTasks, IsLastPoolRef, QueueOK
    <2>4. pc[w] # "leave"
      BY <2>1 DEF LeavesForAReason
    <2>5. pc'[w] = "loop"
      BY <1>8, <2>3, <2>4 DEF ReleaseAndWait, LeaveScope, GoTo, TypeOK
    <2> QED BY <2>5 DEF Awake
  <1>9. CASE UNCHANGED vars
    BY <1>9 DEF vars, serviceVars, schedulerVars, NoLostWakeUp, HasTasks, PostOwed, Awake
  <1> QED BY <1>2, <1>3, <1>4, <1>5, <1>6, <1>7, <1>8, <1>9 DEF Next, CallStep, WorkerStep

(* IndInv holds in every reachable state. *)
THEOREM Invariance == Spec => []IndInv
  <1>1. IndInv /\ [Next]_vars => IndInv'
    BY TypeStep, ThreadsInOrderStep, HoldsStep, LeavesStep, BusyStep, WakeStep DEF IndInv
  <1> QED BY <1>1, InitInd, PTL DEF Spec
-----------------------------------------------------------------------------
(* The fields keep their types; in particular m_busyThreads, an unsigned   *)
(* counter in the code, is never decremented below zero.                   *)
THEOREM TypeCorrect == Spec => []TypeOK
  BY Invariance, PTL DEF IndInv

(* Post compares m_busyThreads with m_threadCount to decide whether to     *)
(* start a thread; the count is right in every state of a living queue.    *)
THEOREM BusyThreadsCorrect == Spec => []BusyThreadsExact
  BY Invariance, PTL DEF IndInv, BusyCounted

(* A runnable task always has a thread on its way to it, or a Post that is *)
(* about to provide one.                                                   *)
THEOREM WakeUpsNeverLost == Spec => []NoLostWakeUp
  BY Invariance, PTL DEF IndInv

(* No more tasks run at a time than m_maxThreads; a queue made with one    *)
(* thread is serial.                                                       *)
THEOREM ConcurrencyBounded == Spec => []ConcurrencyLimit
  <1>1. IndInv => ConcurrencyLimit
    <2> SUFFICES ASSUME IndInv PROVE ConcurrencyLimit
      OBVIOUS
    <2> DEFINE R == {w \in PoolThreads : InTask(w)}
    <2>1. R \subseteq 1..m_threadCount
      BY LinuxAssumption DEF IndInv, HoldsWhileWorking, ThreadsInOrder, TypeOK, Threads
    <2>2. IsFiniteSet(1..m_threadCount) /\ Cardinality(1..m_threadCount) = m_threadCount
      BY FS_Interval DEF IndInv, TypeOK
    <2> HIDE DEF R
    <2>3. Cardinality(R) <= m_threadCount /\ Cardinality(R) \in Nat
      BY <2>1, <2>2, FS_Subset, FS_CardinalityType
    <2> QED BY <2>3 DEF IndInv, ThreadsInOrder, ConcurrencyLimit, TypeOK, R
  <1> QED BY <1>1, Invariance, PTL

(* The queue holds its owner exactly while it holds tasks. *)
THEOREM OwnerRefCorrect == Spec => []OwnerRefMatchesContents
  <1>1. IndInv => OwnerRefMatchesContents
    <2> SUFFICES ASSUME IndInv PROVE OwnerRefMatchesContents
      OBVIOUS
    <2>1. QueueOK(m_queue)
      BY DEF IndInv
    <2>2. CASE IsEmpty(m_queue)
      <3>1. m_queue.m_index = Len(m_queue.m_buffer) /\ m_queue.m_writeBuffer = <<>>
            /\ m_queue.m_index \in Nat
        BY <2>1, <2>2 DEF IsEmpty, ReadIsEmpty, QueueOK, TaskQueueType
      <3>2. Contents(m_queue) = <<>>
        BY <2>1, <3>1, UnreadType DEF Contents
      <3> QED BY <2>1, <2>2, <3>2 DEF QueueOK, OwnerRefMatchesContents
    <2>3. CASE ~IsEmpty(m_queue)
      BY <2>1, <2>3, DequeueTakesHead DEF QueueOK, OwnerRefMatchesContents
    <2> QED BY <2>2, <2>3
  <1> QED BY <1>1, Invariance, PTL
-----------------------------------------------------------------------------
(* A step of the pool is a step of the abstract dispatch queue or none:    *)
(* only the service's own steps and the start of a task show.              *)
LEMMA PlacesStep ==
  ASSUME IndInv, Places, [Next]_vars
  PROVE  Places' /\ [Abstract!Next]_(Abstract!vars)
  <1> USE DEF IndInv
  <1>1. ServiceOK /\ PoolThreads \subseteq Threads
    BY DEF ServiceOK, TypeOK, Threads
  <1>2. ASSUME NEW th \in Threads, ServiceStep(th)
        PROVE  Places' /\ [Abstract!Next]_(Abstract!vars)
    BY <1>1, <1>2, ServiceStepPlaces
  <1>3. ASSUME NEW th \in Threads, RunPost(th) \/ RunShutdown(th) \/ RunJoin(th)
        PROVE  Places' /\ UNCHANGED Abstract!vars
    <2>1. /\ Kept /\ Returned(th) /\ todo[th] # <<>>
          /\ Head(todo[th]).call # "CancelTask"
      BY <1>3 DEF RunPost, RunShutdown, RunJoin, NextCall, Kept
    <2> QED BY <1>1, <2>1, ReturnPlaces
  <1>4. ASSUME NEW th \in Threads, RunAwait(th)
        PROVE  Places' /\ UNCHANGED Abstract!vars
    <2> DEFINE joins == [i \in 1..MaxConcurrentThreads |-> JoinThread(i)]
    <2>1. joins \in Seq(Calls)
      BY CallTypes, LinuxAssumption, IsASeq
    <2>2. TasksOf(joins) \cap CancelCalls = {}
      BY CancelCallsDistinct DEF TasksOf
    <2>3. /\ Kept /\ todo[th] # <<>> /\ Head(todo[th]).call # "CancelTask"
          /\ todo' = [todo EXCEPT ![th] = joins \o Tail(todo[th])]
      BY <1>4 DEF RunAwait, NextCall, Kept
    <2> HIDE DEF joins
    <2> QED BY <1>1, <2>1, <2>2, <2>3, CallPlaces
  <1>5. ASSUME NEW w \in PoolThreads, InvokeNext(w)
        PROVE  Places' /\ Abstract!Next
    BY <1>1, <1>5, DequeuePlaces DEF InvokeNext
  <1>6. ASSUME NEW w \in PoolThreads,
               \/ GetStrongPtr(w) \/ StopDraining(w) \/ LockAndLeaveBusy(w) \/ CheckAgain(w)
               \/ WakeUp(w) \/ SpuriousWakeUp(w)
        PROVE  Places' /\ UNCHANGED Abstract!vars
    <2>1. Kept /\ todo' = todo
      BY <1>6 DEF GetStrongPtr, StopDraining, LockAndLeaveBusy, CheckAgain, WakeUp,
                  SpuriousWakeUp, serviceVars, Kept
    <2> QED BY <2>1, StutterPlaces
  <1>7. ASSUME NEW w \in PoolThreads, ReleaseAndWait(w) \/ LeaveScope(w)
        PROVE  Places' /\ [Abstract!Next]_(Abstract!vars)
    <2>1. ReleasePoolRef(w) /\ pc[w] \in {"check", "again", "leave"}
      BY <1>7 DEF ReleaseAndWait, LeaveScope, GoTo
    <2>2. todo[w] = <<>>
      BY <1>1, <2>1 DEF HoldsWhileWorking
    <2>3. PICK last : DestroyIf(last, w)
      BY <2>1 DEF ReleasePoolRef
    <2> QED BY <1>1, <2>1, <2>2, <2>3, DestroyPlaces DEF ReleasePoolRef
  <1>8. CASE UNCHANGED vars
    BY <1>8, StutterPlaces DEF vars, serviceVars, Kept
  <1> QED BY <1>2, <1>3, <1>4, <1>5, <1>6, <1>7, <1>8 DEF Next, CallStep, WorkerStep

(* Every reachable state has each task in one place. *)
LEMMA PlacesInvariance == Spec => []Places
  <1>1. Init => Places
    BY PlacesInit DEF Init
  <1>2. IndInv /\ Places /\ [Next]_vars => Places'
    BY PlacesStep
  <1> QED BY <1>1, <1>2, Invariance, PTL DEF Spec

(* The dispatch queue on the Linux pool implements the abstract one: tasks *)
(* start in the order they were posted, a queue that was shut down accepts *)
(* none, and each is invoked or canceled, whatever the threads do.         *)
THEOREM LinuxImplements == Spec => ImplementsDispatchQueue
  <1>1. Init => Abstract!Init
    BY PlacesInit DEF Init
  <1>2. IndInv /\ Places /\ [Next]_vars => [Abstract!Next]_(Abstract!vars)
    <2> SUFFICES ASSUME IndInv, Places, [Next]_vars PROVE [Abstract!Next]_(Abstract!vars)
      OBVIOUS
    <2> QED BY PlacesStep
  <1> QED BY <1>1, <1>2, Invariance, PlacesInvariance, PTL
          DEF Spec, ImplementsDispatchQueue, Abstract!Spec

(* A task posted to the Linux pool is never lost, never runs twice, and is *)
(* never both invoked and canceled.                                        *)
THEOREM LinuxTaskFate == Spec => []Abstract!OnePlace
  <1>1. Places => Abstract!OnePlace
    BY DEF Places
  <1> QED BY <1>1, PlacesInvariance, PTL
=============================================================================
