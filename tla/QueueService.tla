----------------------------- MODULE QueueService -----------------------------
(***************************************************************************)
(* QueueService (queueService.h, queueService.cpp): the part of a dispatch *)
(* queue that does not depend on the scheduler.  The schedulers extend     *)
(* this module: they say what the calls of IDispatchQueueScheduler do and  *)
(* which threads dequeue and run tasks.                                    *)
(*                                                                         *)
(* A method of QueueService changes the fields inside one critical section *)
(* of m_mutex and calls out (to the scheduler, to CancelTask) only after   *)
(* it.  The section is one atomic step; the calls still to be made are     *)
(* todo[th], so that the steps of other threads interleave with them.      *)
(*                                                                         *)
(* m_taskBatches is always empty here: BeginTaskBatching dereferences the  *)
(* pointer it has just moved from on a thread's first batch.               *)
(***************************************************************************)
EXTENDS TaskQueue

CONSTANTS Clients,       \* threads that hold a DispatchQueue
          PoolThreads,   \* threads a scheduler runs tasks on
          SuspendBound   \* bound on m_suspendCounter

Threads == Clients \cup PoolThreads

ASSUME QueueServiceAssumption ==
  /\ Clients \cap PoolThreads = {}
  /\ SuspendBound \in Nat

VARIABLES
  m_queue,           \* TaskQueue
  m_shutdownAction,  \* the optional PendingTaskAction
  m_suspendCounter,
  clientRefs,        \* clients whose DispatchQueue still refers to the service
  poolRefs,          \* pool threads that hold a strong pointer to the service
  todo,              \* todo[th]: calls left in the method th is executing
  context,           \* context[th]: the TaskContext of a pool thread
  fresh,             \* tasks no one has handed to the queue yet
  started,           \* history: tasks whose Invoke began
  canceled,          \* history: tasks whose OnCancel was called
  awaited            \* history: clients whose AwaitTermination returned

serviceVars == <<m_queue, m_shutdownAction, m_suspendCounter, clientRefs, poolRefs,
                 todo, context, fresh, started, canceled, awaited>>

NoAction == "None"
PendingTaskAction == {"Complete", "Cancel"}

(* Calls a method makes after it has left the critical section. *)
SchedulerPost     == [call |-> "SchedulerPost", arg |-> NoTask]
SchedulerShutdown == [call |-> "SchedulerShutdown", arg |-> NoTask]
SchedulerAwait    == [call |-> "SchedulerAwait", arg |-> NoTask]
JoinThread(w)     == [call |-> "JoinThread", arg |-> w]
CancelTask(task)  == [call |-> "CancelTask", arg |-> task]

Calls == {SchedulerPost, SchedulerShutdown, SchedulerAwait}
         \cup {JoinThread(w) : w \in PoolThreads}
         \cup {CancelTask(t) : t \in Tasks}

(* stack: the tasks being invoked, innermost first (an InvokeElsePost from *)
(* inside a task nests); deferQueue: m_deferQueue from m_readIndex on.     *)
NoContext == [stack |-> <<>>, deferQueue |-> <<>>]
ContextType == [stack : Seq(Tasks), deferQueue : Seq(Tasks)]

ServiceTypeOK ==
  /\ m_queue \in TaskQueueType
  /\ m_shutdownAction \in PendingTaskAction \cup {NoAction}
  /\ m_suspendCounter \in Nat
  /\ clientRefs \in SUBSET Clients
  /\ poolRefs \in SUBSET PoolThreads
  /\ todo \in [Threads -> Seq(Calls)]
  /\ context \in [Threads -> ContextType]
  /\ fresh \in SUBSET Tasks
  /\ started \in SUBSET Tasks
  /\ canceled \in SUBSET Tasks
  /\ awaited \in SUBSET Clients

ServiceInit ==
  /\ m_queue = EmptyTaskQueue
  /\ m_shutdownAction = NoAction
  /\ m_suspendCounter = 0
  /\ clientRefs = Clients
  /\ poolRefs = {}
  /\ todo = [th \in Threads |-> <<>>]
  /\ context = [th \in Threads |-> NoContext]
  /\ fresh = Tasks
  /\ started = {}
  /\ canceled = {}
  /\ awaited = {}
-----------------------------------------------------------------------------
(* A thread can call a method of the queue when it is in user code: a      *)
(* client between two calls, or the innermost task of a pool thread.       *)
InTask(th) == context[th].stack # <<>>

InUserCode(th) ==
  /\ todo[th] = <<>>
  /\ th \in clientRefs \/ InTask(th)

(* IsCurrentQueue: the thread-local TaskContext points to this queue. *)
IsCurrentQueue(th) == InTask(th)

(* ThreadAccessGuard: the thread runs the loop of this queue's scheduler. *)
HasThreadAccess(th) == th \in PoolThreads

(* A m_mutex section that enqueues, or turns the task away after Shutdown. *)
EnqueueElseCancel(th, task) ==
  IF m_shutdownAction = NoAction
  THEN /\ m_queue' = Enqueue(m_queue, task)
       /\ todo' = [todo EXCEPT ![th] =
                     IF m_suspendCounter = 0 THEN <<SchedulerPost>> ELSE <<>>]
  ELSE /\ todo' = [todo EXCEPT ![th] = <<CancelTask(task)>>]
       /\ UNCHANGED m_queue

Post(th, task) ==
  /\ InUserCode(th)
  /\ task \in fresh
  /\ fresh' = fresh \ {task}
  /\ EnqueueElseCancel(th, task)
  /\ UNCHANGED <<m_shutdownAction, m_suspendCounter, clientRefs, poolRefs, context,
                 started, canceled, awaited>>

(* On a thread of the scheduler the task runs inside the current one. *)
InvokeElsePost(th, task) ==
  /\ InUserCode(th)
  /\ task \in fresh
  /\ fresh' = fresh \ {task}
  /\ IF HasThreadAccess(th)
     THEN /\ context' = [context EXCEPT ![th] =
                           [stack |-> <<task>> \o @.stack, deferQueue |-> @.deferQueue]]
          /\ started' = started \cup {task}
          /\ UNCHANGED <<m_queue, todo>>
     ELSE /\ EnqueueElseCancel(th, task)
          /\ UNCHANGED <<context, started>>
  /\ UNCHANGED <<m_shutdownAction, m_suspendCounter, clientRefs, poolRefs, canceled, awaited>>

(* Inside a task of this queue the task waits for that task to return. *)
DeferElsePost(th, task) ==
  /\ InUserCode(th)
  /\ task \in fresh
  /\ fresh' = fresh \ {task}
  /\ IF IsCurrentQueue(th)
     THEN /\ context' = [context EXCEPT ![th] =
                           [stack |-> @.stack, deferQueue |-> Append(@.deferQueue, task)]]
          /\ UNCHANGED <<m_queue, todo>>
     ELSE /\ EnqueueElseCancel(th, task)
          /\ UNCHANGED context
  /\ UNCHANGED <<m_shutdownAction, m_suspendCounter, clientRefs, poolRefs, started,
                 canceled, awaited>>

Suspend(th) ==
  /\ InUserCode(th)
  /\ m_suspendCounter < SuspendBound
  /\ m_suspendCounter' = m_suspendCounter + 1
  /\ UNCHANGED <<m_queue, m_shutdownAction, clientRefs, poolRefs, todo, context, fresh,
                 started, canceled, awaited>>

(* Mutant: Resume without the scheduler calls. *)
ResumeSilently(th) ==
  /\ InUserCode(th)
  /\ m_suspendCounter > 0
  /\ m_suspendCounter' = m_suspendCounter - 1
  /\ UNCHANGED <<m_queue, m_shutdownAction, clientRefs, poolRefs, todo, context, fresh,
                 started, canceled, awaited>>

(* The last Resume schedules once for every task that piled up. *)
Resume(th) ==
  /\ InUserCode(th)
  /\ m_suspendCounter > 0
  /\ m_suspendCounter' = m_suspendCounter - 1
  /\ todo' = [todo EXCEPT ![th] =
                IF m_suspendCounter = 1
                THEN [i \in 1..Size(m_queue) |-> SchedulerPost]
                ELSE <<>>]
  /\ UNCHANGED <<m_queue, m_shutdownAction, clientRefs, poolRefs, context, fresh, 
                 started, canceled, awaited>>

(* The m_mutex section of Shutdown(action) and the calls that follow it,   *)
(* then those of the caller (AwaitTermination).                            *)
ShutdownThen(th, action, calls) ==
  LET tasks == IF action = "Cancel" THEN AllTasks(m_queue) ELSE <<>>
  IN /\ m_shutdownAction' = action
     /\ m_queue' = IF action = "Cancel" THEN AfterDequeueAll(m_queue) ELSE m_queue
     /\ todo' = [todo EXCEPT ![th] =
                   [i \in 1..Len(tasks) |-> CancelTask(tasks[i])]
                   \o <<SchedulerShutdown>> \o calls]

Shutdown(th, action) ==
  /\ InUserCode(th)
  /\ ShutdownThen(th, action, <<>>)
  /\ UNCHANGED <<m_suspendCounter, clientRefs, poolRefs, context, fresh, started,
                 canceled, awaited>>

(* The service lives while a DispatchQueue, a pool thread or the non-empty *)
(* task queue refers to it; a weak pointer then yields a strong one.       *)
IsAlive == clientRefs # {} \/ poolRefs # {} \/ m_queue.m_strongOwnerPtr

(* Who dropped the last reference runs ~QueueService, which awaits         *)
(* termination on that thread.                                             *)
DestroyIf(last, th) ==
  IF last
  THEN ShutdownThen(th, "Complete", <<SchedulerAwait>>)
  ELSE UNCHANGED <<m_queue, m_shutdownAction, todo>>

(* A client drops its DispatchQueue. *)
Release(th) ==
  /\ InUserCode(th)
  /\ th \in clientRefs
  /\ clientRefs' = clientRefs \ {th}
  /\ DestroyIf(clientRefs = {th} /\ poolRefs = {} /\ ~m_queue.m_strongOwnerPtr, th)
  /\ UNCHANGED <<m_suspendCounter, poolRefs, context, fresh, started,
                 canceled, awaited>>

(* A pool thread drops the strong pointer it took from m_queue. *)
IsLastPoolRef(th) ==
  clientRefs = {} /\ poolRefs = {th} /\ ~m_queue.m_strongOwnerPtr

ReleasePoolRef(th) ==
  /\ poolRefs' = poolRefs \ {th}
  /\ DestroyIf(IsLastPoolRef(th), th)
  /\ UNCHANGED <<m_suspendCounter, clientRefs, context, fresh, started,
                 canceled, awaited>>

(* A pool thread would wait for itself: only clients await termination. *)
AwaitTermination(th) ==
  /\ InUserCode(th)
  /\ th \in Clients
  /\ ShutdownThen(th, "Complete", <<SchedulerAwait>>)
  /\ UNCHANGED <<m_suspendCounter, clientRefs, poolRefs, context, fresh, started,
                 canceled, awaited>>
-----------------------------------------------------------------------------
(* What the thread does after it has left the critical section. *)

TasksOf(seq) == {seq[i] : i \in DOMAIN seq}

NextCall(th, call) == todo[th] # <<>> /\ Head(todo[th]).call = call

Returned(th) == todo' = [todo EXCEPT ![th] = Tail(@)]

RunCancelTask(th) ==
  /\ NextCall(th, "CancelTask")
  /\ canceled' = canceled \cup {Head(todo[th]).arg}
  /\ Returned(th)
  /\ UNCHANGED <<m_queue, m_shutdownAction, m_suspendCounter, clientRefs, poolRefs,
                 context, fresh, started, awaited>>

HasTasks == m_suspendCounter = 0 /\ ~IsEmpty(m_queue)

(* TryDequeTask returned a task and InvokeTask begins to run it. *)
DequeueAndInvoke(th) ==
  /\ HasTasks
  /\ m_queue' = AfterDequeue(m_queue)
  /\ context' = [context EXCEPT ![th] =
                     [stack |-> <<DequeuedTask(m_queue)>>, deferQueue |-> @.deferQueue]]
  /\ started' = started \cup {DequeuedTask(m_queue)}
  /\ UNCHANGED <<m_shutdownAction, m_suspendCounter, clientRefs, poolRefs, todo,
                 fresh, canceled, awaited>>

(* The innermost task returns.  When it is the one InvokeTask called, the  *)
(* deferred tasks follow in the order they were deferred.                  *)
TaskReturns(th) ==
  /\ InTask(th)
  /\ todo[th] = <<>>
  /\ LET c == context[th]
         next == IF Len(c.stack) = 1 /\ c.deferQueue # <<>>
                 THEN <<Head(c.deferQueue)>>
                 ELSE <<>>
     IN /\ context' = [context EXCEPT ![th] =
                         [stack      |-> next \o Tail(c.stack),
                          deferQueue |-> IF next = <<>> THEN c.deferQueue
                                         ELSE Tail(c.deferQueue)]]
        /\ started' = started \cup TasksOf(next)
  /\ UNCHANGED <<m_queue, m_shutdownAction, m_suspendCounter, clientRefs, poolRefs, todo,
                 fresh, canceled, awaited>>

(* The steps of the service that involve no scheduler. *)
ServiceStep(th) ==
  \/ \E task \in Tasks : Post(th, task) \/ InvokeElsePost(th, task)
                         \/ DeferElsePost(th, task)
  \/ Suspend(th)
  \/ Resume(th)
  \/ \E action \in PendingTaskAction : Shutdown(th, action)
  \/ AwaitTermination(th)
  \/ Release(th)
  \/ RunCancelTask(th)
  \/ TaskReturns(th)

(* A thread has yet to tell the scheduler of a task. *)
PostOwed == \E th \in Threads : SchedulerPost \in TasksOf(todo[th])
-----------------------------------------------------------------------------
(* The calls the queue answers are those of the abstract DispatchQueue. *)

Deferred == UNION {TasksOf(context[th].deferQueue) : th \in Threads}
Running  == UNION {TasksOf(context[th].stack) : th \in Threads}
Doomed   == {t \in Tasks : \E th \in Threads : CancelTask(t) \in TasksOf(todo[th])}

Abstract == INSTANCE DispatchQueue WITH
  pending   <- Contents(m_queue),
  deferred  <- Deferred,
  running   <- Running,
  finished  <- started \ Running,
  doomed    <- Doomed,
  canceled  <- canceled,
  accepting <- m_shutdownAction = NoAction

=============================================================================
