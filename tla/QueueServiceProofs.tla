-------------------------- MODULE QueueServiceProofs --------------------------
(***************************************************************************)
(* What the operations of TaskQueue preserve and compute, for every set of *)
(* tasks; that the steps of QueueService keep its state well formed, and   *)
(* that each is a step of the abstract dispatch queue or none.  The proofs *)
(* about the schedulers rest on these lemmas.                              *)
(***************************************************************************)
EXTENDS QueueService, SequenceTheorems, TLAPS

(* The representation invariant of the two buffers: the read index stays   *)
(* inside the read buffer, the items from it on have not been moved out,   *)
(* and the queue refers to its owner exactly while it is not empty.        *)
QueueOK(q) ==
  /\ q \in TaskQueueType
  /\ q.m_index <= Len(q.m_buffer)
  /\ \A i \in 1..Len(q.m_buffer) : i > q.m_index => q.m_buffer[i] \in Tasks
  /\ q.m_strongOwnerPtr <=> ~IsEmpty(q)

(* A new queue is well formed. *)
LEMMA EmptyQueueOK == QueueOK(EmptyTaskQueue) /\ Contents(EmptyTaskQueue) = <<>>
  BY DEF QueueOK, EmptyTaskQueue, TaskQueueType, IsEmpty, ReadIsEmpty, Contents

(* The unread rest of the read buffer is a sequence of tasks. *)
LEMMA UnreadType ==
  ASSUME NEW q, QueueOK(q)
  PROVE  /\ SubSeq(q.m_buffer, q.m_index + 1, Len(q.m_buffer)) \in Seq(Tasks)
         /\ Len(SubSeq(q.m_buffer, q.m_index + 1, Len(q.m_buffer)))
              = Len(q.m_buffer) - q.m_index
  <1>1. /\ q.m_buffer \in Seq(Tasks \cup {NoTask})
        /\ q.m_index \in Nat
        /\ Len(q.m_buffer) \in Nat
        /\ q.m_index <= Len(q.m_buffer)
    BY DEF QueueOK, TaskQueueType
  <1>2. \A i \in (q.m_index + 1)..Len(q.m_buffer) : q.m_buffer[i] \in Tasks
    BY <1>1 DEF QueueOK
  <1> QED BY <1>1, <1>2

(* Appending to the second part of a concatenation appends to the whole. *)
LEMMA ConcatAppend ==
  ASSUME NEW S, NEW u \in Seq(S), NEW w \in Seq(S), NEW e \in S
  PROVE  u \o Append(w, e) = Append(u \o w, e)
  <1> DEFINE ee == <<e>>
  <1>1. ee \in Seq(S)
    OBVIOUS
  <1>2. u \o w \in Seq(S)
    BY ConcatProperties
  <1>3. Append(w, e) = w \o ee /\ Append(u \o w, e) = (u \o w) \o ee
    BY <1>2, AppendIsConcat
  <1> HIDE DEF ee
  <1>4. (u \o w) \o ee = u \o (w \o ee)
    BY <1>1, ConcatAssociative
  <1> QED BY <1>3, <1>4

(* Enqueue keeps the queue well formed and appends the task. *)
LEMMA EnqueueOK ==
  ASSUME NEW q, QueueOK(q), NEW task \in Tasks
  PROVE  QueueOK(Enqueue(q, task)) /\ ~IsEmpty(Enqueue(q, task))
  <1> DEFINE e == Enqueue(q, task)
  <1>1. /\ q.m_writeBuffer \in Seq(Tasks) /\ q.m_buffer \in Seq(Tasks \cup {NoTask})
        /\ q.m_index \in Nat /\ q.m_strongOwnerPtr \in BOOLEAN
    BY DEF QueueOK, TaskQueueType
  <1>2. /\ e.m_writeBuffer = Append(q.m_writeBuffer, task)
        /\ e.m_buffer = q.m_buffer
        /\ e.m_index = q.m_index
        /\ e.m_strongOwnerPtr = TRUE
    BY <1>1 DEF Enqueue, QueueOK
  <1>3. e.m_writeBuffer \in Seq(Tasks) /\ e.m_writeBuffer # <<>>
    BY <1>1, <1>2
  <1>4. e \in TaskQueueType
    BY <1>1, <1>2, <1>3 DEF TaskQueueType, Enqueue
  <1>5. ~IsEmpty(e)
    BY <1>3 DEF IsEmpty
  <1> QED BY <1>2, <1>4, <1>5 DEF QueueOK

(* Enqueue appends the task to the contents. *)
LEMMA EnqueueAppends ==
  ASSUME NEW q, QueueOK(q), NEW task \in Tasks
  PROVE  Contents(Enqueue(q, task)) = Append(Contents(q), task)
  <1> DEFINE u == SubSeq(q.m_buffer, q.m_index + 1, Len(q.m_buffer))
  <1>1. u \in Seq(Tasks) /\ q.m_writeBuffer \in Seq(Tasks)
    BY UnreadType DEF QueueOK, TaskQueueType
  <1> HIDE DEF u
  <1>2. u \o Append(q.m_writeBuffer, task) = Append(u \o q.m_writeBuffer, task)
    BY <1>1, ConcatAppend
  <1> QED BY <1>2 DEF Contents, Enqueue, u

(* The queue a dequeue reads from: it has an unread task in its read buffer.*)
LEMMA BeforeReadOK ==
  ASSUME NEW q, QueueOK(q), ~IsEmpty(q)
  PROVE  /\ QueueOK(BeforeRead(q))
         /\ BeforeRead(q).m_index < Len(BeforeRead(q).m_buffer)
         /\ Contents(BeforeRead(q)) = Contents(q)
  <1>1. CASE ReadIsEmpty(q)
    <2> DEFINE u == SubSeq(q.m_buffer, q.m_index + 1, Len(q.m_buffer))
    <2>1. q.m_writeBuffer # <<>> /\ q.m_writeBuffer \in Seq(Tasks)
      BY <1>1 DEF IsEmpty, QueueOK, TaskQueueType
    <2>2. u = <<>> /\ u \in Seq(Tasks)
      BY <1>1, UnreadType DEF ReadIsEmpty, QueueOK, TaskQueueType
    <2>3. BeforeRead(q) = SwapBuffer(q)
      BY <1>1, <2>1 DEF BeforeRead
    <2>4. /\ SwapBuffer(q).m_writeBuffer = <<>>
          /\ SwapBuffer(q).m_buffer = q.m_writeBuffer
          /\ SwapBuffer(q).m_index = 0
          /\ SwapBuffer(q).m_strongOwnerPtr = q.m_strongOwnerPtr
          /\ SwapBuffer(q) \in TaskQueueType
      BY <2>1, <2>2 DEF SwapBuffer, TaskQueueType, QueueOK
    <2>5. QueueOK(SwapBuffer(q)) /\ 0 < Len(SwapBuffer(q).m_buffer)
      BY <2>1, <2>4 DEF QueueOK, IsEmpty, ReadIsEmpty
    <2>6. Contents(SwapBuffer(q)) = Contents(q)
      <3>1. Contents(q) = q.m_writeBuffer
        BY <2>1, <2>2, ConcatEmptySeq DEF Contents
      <3>2. SubSeq(q.m_writeBuffer, 1, Len(q.m_writeBuffer)) = q.m_writeBuffer
        BY <2>1, SubSeqFull
      <3>3. Contents(SwapBuffer(q)) = SubSeq(q.m_writeBuffer, 1, Len(q.m_writeBuffer)) \o <<>>
        BY <2>4 DEF Contents
      <3> QED BY <2>1, <3>1, <3>2, <3>3, ConcatEmptySeq
    <2> QED BY <2>3, <2>4, <2>5, <2>6
  <1>2. CASE ~ReadIsEmpty(q)
    BY <1>2 DEF BeforeRead, ReadIsEmpty, QueueOK, TaskQueueType
  <1> QED BY <1>1, <1>2

(* Taking a task keeps the queue well formed. *)
LEMMA DequeueOK ==
  ASSUME NEW q, QueueOK(q), ~IsEmpty(q)
  PROVE  QueueOK(AfterDequeue(q)) /\ DequeuedTask(q) \in Tasks
  <1> DEFINE b == BeforeRead(q)
             r == ReadTryDequeue(b)
  <1>1. QueueOK(b) /\ b.m_index < Len(b.m_buffer)
    BY BeforeReadOK
  <1>2. b.m_buffer \in Seq(Tasks \cup {NoTask}) /\ b.m_index \in Nat
    BY <1>1 DEF QueueOK, TaskQueueType
  <1>3. DequeuedTask(q) \in Tasks
    BY <1>1, <1>2 DEF QueueOK, DequeuedTask
  <1>4. /\ r.m_buffer \in Seq(Tasks \cup {NoTask})
        /\ Len(r.m_buffer) = Len(b.m_buffer)
        /\ \A i \in 1..Len(r.m_buffer) : i > r.m_index => r.m_buffer[i] \in Tasks
        /\ r.m_index \in Nat
        /\ r.m_index <= Len(r.m_buffer)
    BY <1>1, <1>2 DEF ReadTryDequeue, QueueOK, TaskQueueType
  <1>5. /\ r.m_writeBuffer \in Seq(Tasks)
        /\ r.m_strongOwnerPtr = b.m_strongOwnerPtr
        /\ b.m_strongOwnerPtr = TRUE
    BY <1>1 DEF ReadTryDequeue, QueueOK, TaskQueueType, IsEmpty, ReadIsEmpty
  <1> HIDE DEF b, r
  <1>6. AfterDequeue(q) = [m_writeBuffer |-> r.m_writeBuffer, m_buffer |-> r.m_buffer,
                           m_index |-> r.m_index,
                           m_strongOwnerPtr |-> IF IsEmpty(r) THEN FALSE ELSE TRUE]
    BY <1>5 DEF AfterDequeue, b, r
  <1>7. QueueOK(AfterDequeue(q))
    <2> DEFINE a == AfterDequeue(q)
    <2>1. /\ a.m_writeBuffer = r.m_writeBuffer /\ a.m_buffer = r.m_buffer
          /\ a.m_index = r.m_index
          /\ a.m_strongOwnerPtr = IF IsEmpty(r) THEN FALSE ELSE TRUE
      BY <1>6
    <2>2. a \in TaskQueueType
      BY <1>4, <1>5, <1>6 DEF TaskQueueType
    <2>3. IsEmpty(a) <=> IsEmpty(r)
      BY <2>1 DEF IsEmpty, ReadIsEmpty
    <2> HIDE DEF a
    <2> QED BY <1>4, <2>1, <2>2, <2>3 DEF QueueOK, a
  <1> QED BY <1>3, <1>7

(* DequeueAll leaves an empty, well-formed queue. *)
LEMMA DequeueAllOK ==
  ASSUME NEW q, QueueOK(q)
  PROVE  /\ QueueOK(AfterDequeueAll(q))
         /\ IsEmpty(AfterDequeueAll(q))
         /\ AllTasks(q) \in Seq(Tasks)
  <1>1. AllTasks(q) \in Seq(Tasks)
    BY UnreadType DEF AllTasks, QueueOK, TaskQueueType
  <1>2. QueueOK(AfterDequeueAll(q)) /\ IsEmpty(AfterDequeueAll(q))
    <2> DEFINE a == AfterDequeueAll(q)
    <2>1. /\ q.m_buffer \in Seq(Tasks \cup {NoTask}) /\ q.m_index \in Nat
          /\ q.m_strongOwnerPtr \in BOOLEAN
      BY DEF QueueOK, TaskQueueType
    <2>2. /\ a.m_writeBuffer = <<>>
          /\ a.m_buffer \in Seq(Tasks \cup {NoTask})
          /\ a.m_index \in Nat
          /\ a.m_index = Len(a.m_buffer)
          /\ a.m_strongOwnerPtr = FALSE
      BY <2>1 DEF AfterDequeueAll, ReadIsEmpty, QueueOK
    <2>3. a \in TaskQueueType
      <3>1. a = [m_writeBuffer |-> a.m_writeBuffer, m_buffer |-> a.m_buffer,
                 m_index |-> a.m_index, m_strongOwnerPtr |-> a.m_strongOwnerPtr]
        BY DEF AfterDequeueAll
      <3>2. a.m_writeBuffer \in Seq(Tasks)
        BY <2>2
      <3> HIDE DEF a
      <3> QED BY <2>2, <3>1, <3>2 DEF TaskQueueType
    <2>4. IsEmpty(a)
      BY <2>2 DEF IsEmpty, ReadIsEmpty
    <2> HIDE DEF a
    <2> QED BY <2>2, <2>3, <2>4 DEF QueueOK, a
  <1> QED BY <1>1, <1>2

(* The head and the tail of a concatenation come from its first part. *)
LEMMA HeadTailConcat ==
  ASSUME NEW S, NEW u \in Seq(S), NEW w \in Seq(S), u # <<>>
  PROVE  /\ u \o w # <<>>
         /\ Head(u \o w) = Head(u)
         /\ Tail(u \o w) = Tail(u) \o w
  <1> DEFINE x == Tail(u \o w)
             y == Tail(u) \o w
  <1>1. /\ u \o w \in Seq(S) /\ Len(u \o w) = Len(u) + Len(w)
        /\ \A i \in 1..(Len(u) + Len(w)) :
             (u \o w)[i] = IF i <= Len(u) THEN u[i] ELSE w[i - Len(u)]
    BY ConcatProperties
  <1>2. Len(u) \in Nat /\ Len(w) \in Nat /\ Len(u) >= 1
    BY LenProperties, EmptySeq
  <1>3. u \o w # <<>> /\ Head(u \o w) = Head(u)
    BY <1>1, <1>2
  <1>4. /\ x \in Seq(S) /\ Len(x) = Len(u) + Len(w) - 1
        /\ \A i \in 1..Len(x) : x[i] = (u \o w)[i + 1]
    BY <1>1, <1>2, <1>3, HeadTailProperties
  <1>5. /\ Tail(u) \in Seq(S) /\ Len(Tail(u)) = Len(u) - 1
        /\ \A i \in 1..(Len(u) - 1) : Tail(u)[i] = u[i + 1]
    BY <1>2, HeadTailProperties
  <1>6. /\ y \in Seq(S) /\ Len(y) = Len(u) - 1 + Len(w)
        /\ \A i \in 1..(Len(u) - 1 + Len(w)) :
             y[i] = IF i <= Len(u) - 1 THEN Tail(u)[i] ELSE w[i - (Len(u) - 1)]
    BY <1>5, ConcatProperties
  <1> HIDE DEF x, y
  <1>7. Len(x) = Len(y) /\ \A i \in 1..Len(x) : x[i] = y[i]
    <2>1. Len(x) = Len(y)
      BY <1>2, <1>4, <1>6
    <2> SUFFICES ASSUME NEW i \in 1..Len(x) PROVE x[i] = y[i]
      BY <2>1
    <2>2. x[i] = IF i + 1 <= Len(u) THEN u[i + 1] ELSE w[i + 1 - Len(u)]
      BY <1>1, <1>2, <1>4
    <2>3. y[i] = IF i <= Len(u) - 1 THEN Tail(u)[i] ELSE w[i - (Len(u) - 1)]
      BY <1>2, <1>4, <1>6
    <2>4. i <= Len(u) - 1 => Tail(u)[i] = u[i + 1]
      BY <1>2, <1>5
    <2>5. i \in Nat /\ i - (Len(u) - 1) = i + 1 - Len(u)
      BY <1>2, <1>4
    <2> QED BY <1>2, <2>2, <2>3, <2>4, <2>5
  <1>8. x = y
    BY <1>4, <1>6, <1>7, SeqEqual
  <1> QED BY <1>3, <1>8 DEF x, y

(* A task comes out at the front: the queue is first in, first out. *)
LEMMA DequeueTakesHead ==
  ASSUME NEW q, QueueOK(q), ~IsEmpty(q)
  PROVE  /\ Contents(q) # <<>>
         /\ DequeuedTask(q) = Head(Contents(q))
         /\ Contents(AfterDequeue(q)) = Tail(Contents(q))
  <1> DEFINE b == BeforeRead(q)
             n == Len(b.m_buffer)
             m == b.m_index + 1
             w == b.m_writeBuffer
             u == SubSeq(b.m_buffer, m, n)
             c == [b.m_buffer EXCEPT ![m] = NoTask]
             v == SubSeq(c, m + 1, n)
  <1>1. QueueOK(b) /\ b.m_index < n /\ Contents(b) = Contents(q)
    BY BeforeReadOK
  <1>2. /\ b.m_buffer \in Seq(Tasks \cup {NoTask})
        /\ n \in Nat /\ m \in 1..n
        /\ w \in Seq(Tasks)
    BY <1>1 DEF QueueOK, TaskQueueType
  <1>3. u \in Seq(Tasks) /\ Len(u) = n - m + 1
    BY <1>1, <1>2, UnreadType DEF QueueOK, TaskQueueType
  <1>4. Head(u) = b.m_buffer[m] /\ Tail(u) = SubSeq(b.m_buffer, m + 1, n)
    <2> DEFINE s == b.m_buffer
    <2>1. s \in Seq(Tasks \cup {NoTask}) /\ m \in 1..Len(s) /\ n \in m..Len(s)
      BY <1>2
    <2> HIDE DEF s, n, m
    <2> QED BY <2>1, HeadTailOfSubSeq DEF s
  <1>5. /\ c \in Seq(Tasks \cup {NoTask}) /\ Len(c) = n
        /\ \A j \in 1..n : j # m => c[j] = b.m_buffer[j]
    BY <1>2, ExceptSeq
  <1>6. Contents(b) = u \o w
    BY DEF Contents
  <1>7. Contents(AfterDequeue(q)) = v \o w
    <2>1. /\ AfterDequeue(q).m_buffer = c
          /\ AfterDequeue(q).m_index = m
          /\ AfterDequeue(q).m_writeBuffer = w
      BY DEF AfterDequeue, ReadTryDequeue
    <2> HIDE DEF b, c, w, m
    <2> QED BY <2>1, <1>5 DEF Contents
  <1>8. DequeuedTask(q) = b.m_buffer[m]
    BY DEF DequeuedTask
  <1> HIDE DEF b, n, m, w, c
  <1>9. v = SubSeq(b.m_buffer, m + 1, n)
    <2> DEFINE x == SubSeq(b.m_buffer, m + 1, n)
    <2>1. \A i \in (m + 1)..n : /\ b.m_buffer[i] \in Tasks \cup {NoTask}
                                /\ c[i] = b.m_buffer[i]
      BY <1>2, <1>5, ElementOfSeq DEF n
    <2>2. /\ x \in Seq(Tasks \cup {NoTask})
          /\ Len(x) = IF m + 1 <= n THEN n - m ELSE 0
          /\ \A i \in 1..(n - m) : x[i] = b.m_buffer[m + i]
      <3>1. /\ x \in Seq(Tasks \cup {NoTask})
            /\ Len(x) = IF m + 1 <= n THEN n - (m + 1) + 1 ELSE 0
            /\ \A i \in 1..(n - (m + 1) + 1) : x[i] = b.m_buffer[m + 1 + i - 1]
        BY <1>2, <2>1, SubSeqProperties
      <3> QED BY <1>2, <3>1
    <2>3. /\ v \in Seq(Tasks \cup {NoTask})
          /\ Len(v) = IF m + 1 <= n THEN n - m ELSE 0
          /\ \A i \in 1..(n - m) : v[i] = c[m + i]
      <3>1. /\ v \in Seq(Tasks \cup {NoTask})
            /\ Len(v) = IF m + 1 <= n THEN n - (m + 1) + 1 ELSE 0
            /\ \A i \in 1..(n - (m + 1) + 1) : v[i] = c[m + 1 + i - 1]
        BY <1>2, <2>1, SubSeqProperties
      <3> QED BY <1>2, <3>1
    <2> HIDE DEF x, v
    <2>4. Len(x) = Len(v) /\ \A i \in 1..Len(x) : x[i] = v[i]
      BY <1>2, <2>1, <2>2, <2>3
    <2> QED BY <2>2, <2>3, <2>4, SeqEqual DEF x
  <1> HIDE DEF u, v
  <1>10. u \o w # <<>> /\ Head(u \o w) = Head(u) /\ Tail(u \o w) = Tail(u) \o w
    <2>1. u # <<>>
      BY <1>2, <1>3
    <2> QED BY <1>2, <1>3, <2>1, HeadTailConcat
  <1> QED BY <1>1, <1>4, <1>6, <1>7, <1>8, <1>9, <1>10
-----------------------------------------------------------------------------
(* The service: its queue, contexts and calls are well formed. *)
ServiceOK == ServiceTypeOK /\ QueueOK(m_queue)

(* The service starts well formed. *)
LEMMA ServiceInitOK == ServiceInit => ServiceOK
  <1> SUFFICES ASSUME ServiceInit PROVE ServiceOK
    OBVIOUS
  <1>1. NoContext \in ContextType
    BY DEF NoContext, ContextType
  <1>2. m_queue \in TaskQueueType /\ QueueOK(m_queue)
    BY EmptyQueueOK DEF ServiceInit, QueueOK
  <1> QED BY <1>1, <1>2 DEF ServiceInit, ServiceOK, ServiceTypeOK

(* The kinds of calls, and the sequences of calls the methods make. *)
LEMMA CallTypes ==
  /\ SchedulerPost \in Calls
  /\ SchedulerShutdown \in Calls
  /\ SchedulerAwait \in Calls
  /\ \A w \in PoolThreads : JoinThread(w) \in Calls
  /\ \A t \in Tasks : CancelTask(t) \in Calls
  BY DEF Calls

(* A call to cancel each of some tasks. *)
LEMMA CancelCallsType ==
  ASSUME NEW tasks \in Seq(Tasks)
  PROVE  [i \in 1..Len(tasks) |-> CancelTask(tasks[i])] \in Seq(Calls)
  <1>1. \A i \in 1..Len(tasks) : CancelTask(tasks[i]) \in Calls
    BY CallTypes, ElementOfSeq
  <1>2. Len(tasks) \in Nat
    BY LenProperties
  <1> QED BY <1>1, <1>2, IsASeq

(* A number of calls to the scheduler. *)
LEMMA PostCallsType ==
  ASSUME NEW n \in Nat
  PROVE  /\ [i \in 1..n |-> SchedulerPost] \in Seq(Calls)
         /\ Len([i \in 1..n |-> SchedulerPost]) = n
  BY CallTypes, IsASeq

(* A call that returns leaves the calls behind it. *)
LEMMA ReturnedOK ==
  ASSUME ServiceOK, NEW th \in Threads, todo[th] # <<>>, Returned(th)
  PROVE  todo' \in [Threads -> Seq(Calls)]
  BY DEF Returned, ServiceOK, ServiceTypeOK

(* EnqueueElseCancel keeps the queue well formed and leaves one call or none. *)
LEMMA EnqueueElseCancelOK ==
  ASSUME ServiceOK, NEW th \in Threads, NEW task \in Tasks, EnqueueElseCancel(th, task)
  PROVE  QueueOK(m_queue') /\ todo' \in [Threads -> Seq(Calls)]
  <1>1. QueueOK(m_queue')
    BY EnqueueOK DEF EnqueueElseCancel, ServiceOK
  <1>2. todo' \in [Threads -> Seq(Calls)]
    <2>1. <<SchedulerPost>> \in Seq(Calls) /\ <<CancelTask(task)>> \in Seq(Calls)
          /\ <<>> \in Seq(Calls)
      BY CallTypes
    <2> QED BY <2>1 DEF EnqueueElseCancel, ServiceOK, ServiceTypeOK
  <1> QED BY <1>1, <1>2

(* Shutdown keeps the queue well formed and leaves calls for what it took out. *)
LEMMA ShutdownThenOK ==
  ASSUME ServiceOK, NEW th \in Threads, NEW action \in PendingTaskAction,
         NEW calls \in Seq(Calls), ShutdownThen(th, action, calls)
  PROVE  /\ QueueOK(m_queue')
         /\ todo' \in [Threads -> Seq(Calls)]
         /\ m_shutdownAction' \in PendingTaskAction
  <1> DEFINE tasks == IF action = "Cancel" THEN AllTasks(m_queue) ELSE <<>>
             cancels == [i \in 1..Len(tasks) |-> CancelTask(tasks[i])]
  <1>1. tasks \in Seq(Tasks)
    BY DequeueAllOK DEF ServiceOK
  <1>2. cancels \in Seq(Calls)
    <2> HIDE DEF tasks
    <2> QED BY <1>1, CancelCallsType
  <1>3. QueueOK(m_queue') /\ m_shutdownAction' \in PendingTaskAction
    BY DequeueAllOK DEF ServiceOK, ShutdownThen
  <1>4. todo' = [todo EXCEPT ![th] = cancels \o <<SchedulerShutdown>> \o calls]
    BY DEF ShutdownThen
  <1>5. <<SchedulerShutdown>> \in Seq(Calls)
    BY CallTypes
  <1>6. cancels \o <<SchedulerShutdown>> \o calls \in Seq(Calls)
    <2> HIDE DEF cancels
    <2> QED BY <1>2, <1>5
  <1> HIDE DEF cancels
  <1> QED BY <1>3, <1>4, <1>6 DEF ServiceOK, ServiceTypeOK

(* So does the destructor, which shuts the queue down. *)
LEMMA DestroyIfOK ==
  ASSUME ServiceOK, NEW th \in Threads, NEW last, DestroyIf(last, th)
  PROVE  /\ QueueOK(m_queue')
         /\ todo' \in [Threads -> Seq(Calls)]
         /\ m_shutdownAction' \in PendingTaskAction \cup {NoAction}
  <1>1. CASE last
    <2>1. <<SchedulerAwait>> \in Seq(Calls) /\ "Complete" \in PendingTaskAction
      BY CallTypes DEF PendingTaskAction
    <2>2. ShutdownThen(th, "Complete", <<SchedulerAwait>>)
      BY <1>1 DEF DestroyIf
    <2> QED BY <2>1, <2>2, ShutdownThenOK
  <1>2. CASE ~last
    BY <1>2 DEF DestroyIf, ServiceOK, ServiceTypeOK
  <1> QED BY <1>1, <1>2

(* A thread that dequeues a task and begins to run it. *)
LEMMA DequeueAndInvokeOK ==
  ASSUME ServiceOK, NEW th \in Threads, DequeueAndInvoke(th)
  PROVE  ServiceOK'
  <1> DEFINE t == DequeuedTask(m_queue)
             new == [stack |-> <<t>>, deferQueue |-> context[th].deferQueue]
  <1>1. QueueOK(m_queue') /\ t \in Tasks
    BY DequeueOK DEF DequeueAndInvoke, HasTasks, ServiceOK
  <1>2. new \in ContextType
    BY <1>1 DEF ContextType, ServiceOK, ServiceTypeOK
  <1>3. context' = [context EXCEPT ![th] = new]
    BY DEF DequeueAndInvoke
  <1> HIDE DEF new
  <1>4. context' \in [Threads -> ContextType]
    BY <1>2, <1>3 DEF ServiceOK, ServiceTypeOK
  <1> QED BY <1>1, <1>4 DEF DequeueAndInvoke, ServiceOK, ServiceTypeOK, QueueOK

(* A pool thread that drops its reference. *)
LEMMA ReleasePoolRefOK ==
  ASSUME ServiceOK, NEW th \in Threads, ReleasePoolRef(th)
  PROVE  ServiceOK'
  <1>1. /\ QueueOK(m_queue') /\ todo' \in [Threads -> Seq(Calls)]
        /\ m_shutdownAction' \in PendingTaskAction \cup {NoAction}
    BY DestroyIfOK DEF ReleasePoolRef
  <1> QED BY <1>1 DEF ReleasePoolRef, ServiceOK, ServiceTypeOK, QueueOK

(* Every step of the service that involves no scheduler, on any thread. *)
LEMMA ServiceStepOK ==
  ASSUME ServiceOK, NEW th \in Threads, ServiceStep(th)
  PROVE  ServiceOK'
  <1> USE DEF ServiceOK
  <1>1. context[th] \in ContextType /\ context \in [Threads -> ContextType]
    BY DEF ServiceTypeOK
  <1>2. ASSUME NEW task \in Tasks, Post(th, task) PROVE ServiceOK'
    <2>1. QueueOK(m_queue') /\ todo' \in [Threads -> Seq(Calls)]
      BY <1>2, EnqueueElseCancelOK DEF Post
    <2> QED BY <1>2, <2>1 DEF Post, ServiceTypeOK, QueueOK
  <1>3. ASSUME NEW task \in Tasks, InvokeElsePost(th, task) PROVE ServiceOK'
    <2>1. CASE HasThreadAccess(th)
      <3> DEFINE new == [stack |-> <<task>> \o context[th].stack,
                         deferQueue |-> context[th].deferQueue]
      <3>1. new \in ContextType
        BY <1>1 DEF ContextType
      <3>2. context' = [context EXCEPT ![th] = new]
        BY <1>3, <2>1 DEF InvokeElsePost
      <3>3. context' \in [Threads -> ContextType]
        BY <1>1, <3>1, <3>2
      <3> QED BY <1>3, <2>1, <3>3 DEF InvokeElsePost, ServiceTypeOK
    <2>2. CASE ~HasThreadAccess(th)
      <3>1. QueueOK(m_queue') /\ todo' \in [Threads -> Seq(Calls)]
        BY <1>3, <2>2, EnqueueElseCancelOK DEF InvokeElsePost
      <3> QED BY <1>3, <2>2, <3>1 DEF InvokeElsePost, ServiceTypeOK, QueueOK
    <2> QED BY <2>1, <2>2
  <1>4. ASSUME NEW task \in Tasks, DeferElsePost(th, task) PROVE ServiceOK'
    <2>1. CASE IsCurrentQueue(th)
      <3> DEFINE new == [stack |-> context[th].stack,
                         deferQueue |-> Append(context[th].deferQueue, task)]
      <3>1. new \in ContextType
        BY <1>1 DEF ContextType
      <3>2. context' = [context EXCEPT ![th] = new]
        BY <1>4, <2>1 DEF DeferElsePost
      <3>3. context' \in [Threads -> ContextType]
        BY <1>1, <3>1, <3>2
      <3> QED BY <1>4, <2>1, <3>3 DEF DeferElsePost, ServiceTypeOK
    <2>2. CASE ~IsCurrentQueue(th)
      <3>1. QueueOK(m_queue') /\ todo' \in [Threads -> Seq(Calls)]
        BY <1>4, <2>2, EnqueueElseCancelOK DEF DeferElsePost
      <3> QED BY <1>4, <2>2, <3>1 DEF DeferElsePost, ServiceTypeOK, QueueOK
    <2> QED BY <2>1, <2>2
  <1>5. CASE Suspend(th)
    BY <1>5 DEF Suspend, ServiceTypeOK
  <1>6. CASE Resume(th)
    <2>1. Size(m_queue) \in Nat
      BY DEF Size, ReadSize, QueueOK, TaskQueueType
    <2> DEFINE posts == [i \in 1..Size(m_queue) |-> SchedulerPost]
    <2>2. posts \in Seq(Calls)
      BY <2>1, PostCallsType, Zenon
    <2>3. todo' = [todo EXCEPT ![th] = IF m_suspendCounter = 1 THEN posts ELSE <<>>]
      BY <1>6 DEF Resume
    <2> HIDE DEF posts
    <2>4. todo' \in [Threads -> Seq(Calls)]
      BY <2>2, <2>3 DEF ServiceTypeOK
    <2> QED BY <1>6, <2>4 DEF Resume, ServiceTypeOK
  <1>7. ASSUME NEW action \in PendingTaskAction, Shutdown(th, action) PROVE ServiceOK'
    <2>1. ShutdownThen(th, action, <<>>) /\ <<>> \in Seq(Calls)
      BY <1>7 DEF Shutdown
    <2>2. /\ QueueOK(m_queue') /\ todo' \in [Threads -> Seq(Calls)]
          /\ m_shutdownAction' \in PendingTaskAction
      BY <2>1, ShutdownThenOK
    <2> QED BY <1>7, <2>2 DEF Shutdown, ServiceTypeOK, QueueOK
  <1>8. CASE AwaitTermination(th)
    <2>1. /\ ShutdownThen(th, "Complete", <<SchedulerAwait>>)
          /\ <<SchedulerAwait>> \in Seq(Calls) /\ "Complete" \in PendingTaskAction
      BY <1>8, CallTypes DEF AwaitTermination, PendingTaskAction
    <2>2. /\ QueueOK(m_queue') /\ todo' \in [Threads -> Seq(Calls)]
          /\ m_shutdownAction' \in PendingTaskAction
      BY <2>1, ShutdownThenOK
    <2> QED BY <1>8, <2>2 DEF AwaitTermination, ServiceTypeOK, QueueOK
  <1>9. CASE Release(th)
    <2>1. /\ QueueOK(m_queue') /\ todo' \in [Threads -> Seq(Calls)]
          /\ m_shutdownAction' \in PendingTaskAction \cup {NoAction}
      BY <1>9, DestroyIfOK DEF Release
    <2> QED BY <1>9, <2>1 DEF Release, ServiceTypeOK, QueueOK
  <1>10. CASE RunCancelTask(th)
    <2>1. todo' \in [Threads -> Seq(Calls)]
      BY <1>10, ReturnedOK DEF RunCancelTask, NextCall
    <2>2. Head(todo[th]) \in Calls /\ Head(todo[th]).call = "CancelTask"
      BY <1>10 DEF RunCancelTask, NextCall, ServiceTypeOK
    <2>3. Head(todo[th]).arg \in Tasks
      BY <2>2 DEF Calls, SchedulerPost, SchedulerShutdown, SchedulerAwait, JoinThread,
                  CancelTask
    <2> QED BY <1>10, <2>1, <2>3 DEF RunCancelTask, ServiceTypeOK
  <1>11. CASE TaskReturns(th)
    <2> DEFINE c == context[th]
               next == IF Len(c.stack) = 1 /\ c.deferQueue # <<>>
                       THEN <<Head(c.deferQueue)>> ELSE <<>>
               new == [stack |-> next \o Tail(c.stack),
                       deferQueue |-> IF next = <<>> THEN c.deferQueue
                                      ELSE Tail(c.deferQueue)]
    <2>1. c.stack \in Seq(Tasks) /\ c.stack # <<>> /\ c.deferQueue \in Seq(Tasks)
      BY <1>1, <1>11 DEF TaskReturns, InTask, ContextType
    <2>2. next \in Seq(Tasks) /\ TasksOf(next) \subseteq Tasks
      BY <2>1 DEF TasksOf
    <2>3. new \in ContextType
      <3>1. Tail(c.stack) \in Seq(Tasks)
            /\ (next # <<>> => Tail(c.deferQueue) \in Seq(Tasks))
        BY <2>1
      <3> HIDE DEF c, next
      <3> QED BY <2>1, <2>2, <3>1 DEF ContextType
    <2>4. context' = [context EXCEPT ![th] = new] /\ started' = started \cup TasksOf(next)
      BY <1>11 DEF TaskReturns
    <2> HIDE DEF new, next
    <2> QED BY <1>1, <1>11, <2>2, <2>3, <2>4 DEF TaskReturns, ServiceTypeOK
  <1> QED BY <1>2, <1>3, <1>4, <1>5, <1>6, <1>7, <1>8, <1>9, <1>10, <1>11
          DEF ServiceStep

(* A step of the service changes only the thread that takes it; a pool     *)
(* thread enters a task only from within one, and gets calls to make only  *)
(* inside a task.                                                          *)
LEMMA ServiceStepControl ==
  ASSUME ServiceOK, NEW th \in Threads, ServiceStep(th)
  PROVE  /\ poolRefs' = poolRefs
         /\ \A o \in Threads \ {th} : todo'[o] = todo[o] /\ context'[o] = context[o]
         /\ InTask(th)' => InTask(th)
         /\ th \in PoolThreads /\ todo'[th] # <<>> =>
              InTask(th)' \/ (todo[th] # <<>> /\ context' = context)
  <1> USE DEF ServiceOK, ServiceTypeOK
  <1>1. InUserCode(th) /\ th \in PoolThreads => InTask(th)
    BY QueueServiceAssumption DEF InUserCode
  <1>2. ASSUME NEW task \in Tasks, Post(th, task) \/ DeferElsePost(th, task)
        PROVE  /\ InUserCode(th) /\ poolRefs' = poolRefs
               /\ InTask(th)' <=> InTask(th)
               /\ \A o \in Threads \ {th} : todo'[o] = todo[o] /\ context'[o] = context[o]
    BY <1>2 DEF Post, DeferElsePost, EnqueueElseCancel, IsCurrentQueue, InTask
  <1>3. ASSUME NEW task \in Tasks, InvokeElsePost(th, task)
        PROVE  /\ InUserCode(th) /\ poolRefs' = poolRefs
               /\ InTask(th)' => InTask(th)
               /\ InTask(th) => InTask(th)'
               /\ \A o \in Threads \ {th} : todo'[o] = todo[o] /\ context'[o] = context[o]
    <2>1. CASE HasThreadAccess(th)
      <3>1. context[th].stack \in Seq(Tasks)
        BY DEF ContextType
      <3>2. context'[th].stack = <<task>> \o context[th].stack
        BY <1>3, <2>1 DEF InvokeElsePost
      <3>3. <<task>> \o context[th].stack # <<>>
        BY <3>1
      <3>4. InTask(th)
        BY <1>1, <1>3, <2>1 DEF InvokeElsePost, HasThreadAccess
      <3> QED BY <1>3, <2>1, <3>2, <3>3, <3>4 DEF InvokeElsePost, InTask
    <2>2. CASE ~HasThreadAccess(th)
      BY <1>3, <2>2 DEF InvokeElsePost, EnqueueElseCancel, InTask
    <2> QED BY <2>1, <2>2
  <1>4. CASE Suspend(th) \/ Resume(th)
    BY <1>1, <1>4 DEF Suspend, Resume, InTask
  <1>5. CASE \/ \E action \in PendingTaskAction : Shutdown(th, action)
             \/ AwaitTermination(th) \/ Release(th)
    <2>1. InUserCode(th) /\ context' = context /\ poolRefs' = poolRefs
      BY <1>5 DEF Shutdown, AwaitTermination, Release
    <2>2. \A o \in Threads \ {th} : todo'[o] = todo[o]
      BY <1>5 DEF Shutdown, AwaitTermination, Release, DestroyIf, ShutdownThen
    <2> QED BY <1>1, <2>1, <2>2 DEF InTask
  <1>6. CASE RunCancelTask(th)
    BY <1>6 DEF RunCancelTask, NextCall, Returned, InTask
  <1>7. CASE TaskReturns(th)
    <2>1. \A o \in Threads \ {th} : context'[o] = context[o]
      BY <1>7 DEF TaskReturns
    <2> QED BY <1>7, <2>1 DEF TaskReturns
  <1> QED BY <1>1, <1>2, <1>3, <1>4, <1>5, <1>6, <1>7 DEF ServiceStep

(* A dead service stays dead: whoever can call it holds a reference. *)
LEMMA ServiceStepAlive ==
  ASSUME ServiceOK, NEW th \in Threads, ServiceStep(th),
         InTask(th) => th \in poolRefs
  PROVE  IsAlive' => IsAlive
  <1> USE DEF ServiceOK, IsAlive
  <1>1. InUserCode(th) => IsAlive
    BY DEF InUserCode
  <1>2. \/ InUserCode(th)
        \/ m_queue' = m_queue /\ clientRefs' = clientRefs /\ poolRefs' = poolRefs
    BY DEF ServiceStep, Post, InvokeElsePost, DeferElsePost, Suspend, Resume, Shutdown,
           AwaitTermination, Release, RunCancelTask, TaskReturns
  <1> QED BY <1>1, <1>2

(* The tasks of a nonempty sequence: its head and those of its tail. *)
LEMMA TasksOfTail ==
  ASSUME NEW S, NEW s \in Seq(S), s # <<>>
  PROVE  TasksOf(s) = {Head(s)} \cup TasksOf(Tail(s))
  <1>1. ASSUME NEW x \in TasksOf(s) PROVE x \in {Head(s)} \cup TasksOf(Tail(s))
    <2>1. PICK i \in 1..Len(s) : x = s[i]
      BY <1>1 DEF TasksOf
    <2>2. CASE i = 1
      BY <2>1, <2>2
    <2>3. CASE i # 1
      <3>1. i - 1 \in 1..Len(Tail(s)) /\ Tail(s)[i - 1] = s[i]
        BY <2>1, <2>3
      <3>2. i - 1 \in DOMAIN Tail(s)
        BY <3>1
      <3> QED BY <2>1, <3>1, <3>2, Zenon DEF TasksOf
    <2> QED BY <2>2, <2>3
  <1>2. ASSUME NEW x \in TasksOf(Tail(s)) PROVE x \in TasksOf(s)
    <2>1. PICK i \in 1..Len(Tail(s)) : x = Tail(s)[i]
      BY <1>2 DEF TasksOf
    <2>2. i + 1 \in 1..Len(s) /\ Tail(s)[i] = s[i + 1]
      BY <2>1
    <2> QED BY <2>1, <2>2 DEF TasksOf
  <1>3. Head(s) \in TasksOf(s)
    <2>1. 1 \in 1..Len(s) /\ Head(s) = s[1]
      OBVIOUS
    <2> QED BY <2>1 DEF TasksOf
  <1> QED BY <1>1, <1>2, <1>3

(* A task becomes runnable only together with a call to the scheduler, and *)
(* a step of the service drops no such call.                               *)
LEMMA ServiceStepWake ==
  ASSUME ServiceOK, NEW th \in Threads, ServiceStep(th)
  PROVE  /\ PostOwed => PostOwed'
         /\ HasTasks' => HasTasks \/ PostOwed'
  <1> USE DEF ServiceOK
  <1>1. InUserCode(th) \/ TaskReturns(th) \/ RunCancelTask(th)
    BY DEF ServiceStep, Post, InvokeElsePost, DeferElsePost, Suspend, Resume, Shutdown,
           AwaitTermination, Release
  <1>2. ASSUME PostOwed PROVE PostOwed'
    <2>1. PICK o \in Threads : SchedulerPost \in TasksOf(todo[o])
      BY <1>2 DEF PostOwed
    <2>2. CASE o # th
      BY <2>1, <2>2, ServiceStepControl DEF PostOwed
    <2>3. CASE o = th
      <3>1. todo[th] # <<>> /\ todo[th] \in Seq(Calls)
        BY <2>1, <2>3 DEF TasksOf, ServiceTypeOK
      <3>2. Head(todo[th]).call = "CancelTask" /\ todo'[th] = Tail(todo[th])
        BY <1>1, <3>1 DEF InUserCode, TaskReturns, RunCancelTask, NextCall, Returned,
                         ServiceTypeOK
      <3>3. Head(todo[th]) # SchedulerPost
        BY <3>2 DEF SchedulerPost
      <3>4. SchedulerPost \in TasksOf(Tail(todo[th]))
        BY <2>1, <2>3, <3>1, <3>3, TasksOfTail
      <3> QED BY <3>2, <3>4 DEF PostOwed
    <2> QED BY <2>2, <2>3
  <1>3. ASSUME HasTasks' PROVE HasTasks \/ PostOwed'
    <2>1. ASSUME NEW task \in Tasks, EnqueueElseCancel(th, task),
                 m_suspendCounter' = m_suspendCounter
          PROVE  HasTasks \/ PostOwed'
      <3>1. CASE m_shutdownAction = NoAction
        <4>1. todo'[th] = <<SchedulerPost>>
          BY <1>3, <2>1, <3>1 DEF EnqueueElseCancel, HasTasks, ServiceTypeOK
        <4>2. SchedulerPost \in TasksOf(<<SchedulerPost>>)
          BY DEF TasksOf
        <4> QED BY <4>1, <4>2 DEF PostOwed
      <3>2. CASE m_shutdownAction # NoAction
        BY <1>3, <2>1, <3>2 DEF EnqueueElseCancel, HasTasks
      <3> QED BY <3>1, <3>2
    <2>2. CASE \E task \in Tasks : \/ Post(th, task) \/ InvokeElsePost(th, task)
                                   \/ DeferElsePost(th, task)
      BY <1>3, <2>1, <2>2 DEF Post, InvokeElsePost, DeferElsePost, HasTasks
    <2>3. CASE Suspend(th)
      BY <1>3, <2>3 DEF Suspend, HasTasks, ServiceTypeOK
    <2>4. CASE Resume(th)
      <3>1. m_suspendCounter = 1 /\ ~IsEmpty(m_queue)
        BY <1>3, <2>4 DEF Resume, HasTasks, ServiceTypeOK
      <3>2. Size(m_queue) \in Nat /\ Size(m_queue) >= 1
        BY <3>1 DEF Size, ReadSize, IsEmpty, ReadIsEmpty, QueueOK, TaskQueueType
      <3>3. todo'[th] = [i \in 1..Size(m_queue) |-> SchedulerPost]
        BY <2>4, <3>1 DEF Resume, ServiceTypeOK
      <3>4. SchedulerPost \in TasksOf(todo'[th])
        BY <3>2, <3>3 DEF TasksOf
      <3> QED BY <3>4 DEF PostOwed
    <2>5. CASE \/ \E action \in PendingTaskAction : Shutdown(th, action)
               \/ AwaitTermination(th) \/ Release(th)
      <3>1. m_suspendCounter' = m_suspendCounter
            /\ m_queue' \in {m_queue, AfterDequeueAll(m_queue)}
        BY <2>5 DEF Shutdown, AwaitTermination, Release, DestroyIf, ShutdownThen
      <3> QED BY <1>3, <3>1, DequeueAllOK DEF HasTasks
    <2>6. CASE RunCancelTask(th) \/ TaskReturns(th)
      BY <1>3, <2>6 DEF RunCancelTask, TaskReturns, HasTasks
    <2> QED BY <2>2, <2>3, <2>4, <2>5, <2>6 DEF ServiceStep
  <1> QED BY <1>2, <1>3
-----------------------------------------------------------------------------
(* The service implements the abstract dispatch queue, which loses no task *)
(* and hands none on twice.                                                *)

(* A sequence without repetition has none without its head,              *)
LEMMA DistinctTail ==
  ASSUME NEW S, NEW s \in Seq(S), s # <<>>, \A i, j \in DOMAIN s : s[i] = s[j] => i = j
  PROVE  /\ Tail(s) \in Seq(S) /\ Head(s) \in {s[i] : i \in DOMAIN s}
         /\ \A i, j \in DOMAIN Tail(s) : Tail(s)[i] = Tail(s)[j] => i = j
         /\ {Tail(s)[i] : i \in DOMAIN Tail(s)} = {s[i] : i \in DOMAIN s} \ {Head(s)}
  <1> DEFINE t == Tail(s)
  <1>1. /\ t \in Seq(S) /\ Head(s) = s[1] /\ 1 \in DOMAIN s
        /\ \A i \in DOMAIN t : i \in Nat /\ i + 1 \in DOMAIN s /\ i + 1 # 1 /\ t[i] = s[i + 1]
        /\ \A k \in DOMAIN s : k # 1 => k - 1 \in DOMAIN t /\ t[k - 1] = s[k]
    OBVIOUS
  <1> HIDE DEF t
  <1>2. ASSUME NEW i \in DOMAIN t, NEW j \in DOMAIN t, t[i] = t[j] PROVE i = j
    <2>1. i + 1 = j + 1
      BY <1>1, <1>2
    <2> QED BY <1>1, <2>1
  <1>3. ASSUME NEW i \in DOMAIN t PROVE t[i] \in {s[k] : k \in DOMAIN s} \ {Head(s)}
    BY <1>1
  <1>4. ASSUME NEW x \in {s[k] : k \in DOMAIN s} \ {Head(s)} PROVE \E i \in DOMAIN t : t[i] = x
    <2>1. PICK k \in DOMAIN s : s[k] = x
      OBVIOUS
    <2>2. k - 1 \in DOMAIN t /\ t[k - 1] = x
      BY <1>1, <2>1
    <2> QED BY <2>2
  <1> QED BY <1>1, <1>2, <1>3, <1>4 DEF t

(* and none with a new element at its end.                                *)
LEMMA DistinctAppend ==
  ASSUME NEW S, NEW s \in Seq(S), NEW x \in S, x \notin {s[i] : i \in DOMAIN s},
         \A i, j \in DOMAIN s : s[i] = s[j] => i = j
  PROVE  /\ Append(s, x) \in Seq(S)
         /\ \A i, j \in DOMAIN Append(s, x) : Append(s, x)[i] = Append(s, x)[j] => i = j
         /\ {Append(s, x)[i] : i \in DOMAIN Append(s, x)} = {s[i] : i \in DOMAIN s} \cup {x}
  <1> DEFINE t == Append(s, x)
  <1>1. /\ t \in Seq(S) /\ DOMAIN t = 1..(Len(s) + 1) /\ DOMAIN s = 1..Len(s) /\ Len(s) \in Nat
        /\ \A i \in 1..Len(s) : t[i] = s[i]
        /\ t[Len(s) + 1] = x
    OBVIOUS
  <1> HIDE DEF t
  <1>2. \A i, j \in DOMAIN t : t[i] = t[j] => i = j
    BY <1>1
  <1>3. {t[i] : i \in DOMAIN t} = {s[i] : i \in DOMAIN s} \cup {x}
    BY <1>1
  <1> QED BY <1>1, <1>2, <1>3 DEF t

(* A new queue has been handed nothing. *)
LEMMA OnePlaceInit == ASSUME Abstract!Init PROVE Abstract!OnePlace
  BY DEF Abstract!Init, Abstract!OnePlace, Abstract!Pending

(* Every step of the abstract queue moves tasks from one place to another. *)
LEMMA OnePlaceStep ==
  ASSUME Abstract!OnePlace, [Abstract!Next]_(Abstract!vars)
  PROVE  Abstract!OnePlace'
  <1> USE DEF Abstract!OnePlace
  <1>1. ASSUME NEW t \in Tasks, Abstract!Accept(t) PROVE Abstract!OnePlace'
    <2>1. t \in fresh /\ Contents(m_queue)' = Append(Contents(m_queue), t)
      BY <1>1 DEF Abstract!Accept
    <2>2. t \notin Abstract!Pending
      BY <2>1
    <2>3. /\ Abstract!Pending' = Abstract!Pending \cup {t} /\ Contents(m_queue)' \in Seq(Tasks)
          /\ (\A i, j \in DOMAIN Contents(m_queue) : Contents(m_queue)[i] = Contents(m_queue)[j] => i = j)'
      BY <1>1, <2>1, <2>2, DistinctAppend DEF Abstract!Pending
    <2> QED BY <1>1, <2>1, <2>2, <2>3 DEF Abstract!Accept
  <1>2. ASSUME NEW t \in Tasks,
               Abstract!Reject(t) \/ Abstract!InvokeInside(t) \/ Abstract!Defer(t) \/ Abstract!Cancel(t)
        PROVE  Abstract!OnePlace'
    BY <1>2 DEF Abstract!Reject, Abstract!InvokeInside, Abstract!Defer, Abstract!Cancel, Abstract!Pending
  <1>3. ASSUME NEW t \in Tasks, Abstract!Finish(t) PROVE Abstract!OnePlace'
    <2>1. PICK next \in {{}} \cup {{u} : u \in Deferred} :
            Running' = (Running \ {t}) \cup next /\ Deferred' = Deferred \ next
      BY <1>3 DEF Abstract!Finish
    <2>2. next \subseteq Deferred
      BY <2>1
    <2> QED BY <1>3, <2>1, <2>2 DEF Abstract!Finish, Abstract!Pending
  <1>4. CASE Abstract!Start
    <2>1. Contents(m_queue) # <<>> /\ Contents(m_queue)' = Tail(Contents(m_queue))
      BY <1>4 DEF Abstract!Start
    <2>2. PICK s \in Seq(Tasks) : s = Contents(m_queue)
      OBVIOUS
    <2>3. PICK t, h : t = Tail(s) /\ h = Head(s)
      OBVIOUS
    <2>4. \A i, j \in DOMAIN s : s[i] = s[j] => i = j
      BY <2>2
    <2>5. /\ t \in Seq(Tasks) /\ h \in {s[i] : i \in DOMAIN s}
          /\ \A i, j \in DOMAIN t : t[i] = t[j] => i = j
          /\ {t[i] : i \in DOMAIN t} = {s[i] : i \in DOMAIN s} \ {h}
      BY <2>1, <2>2, <2>3, <2>4, DistinctTail
    <2>6. Contents(m_queue)' = t /\ Abstract!Pending' = Abstract!Pending \ {h} /\ h \in Abstract!Pending
      BY <2>1, <2>2, <2>3, <2>5 DEF Abstract!Pending
    <2>7. Running' = Running \cup {h}
      BY <1>4, <2>2, <2>3 DEF Abstract!Start
    <2> QED BY <1>4, <2>5, <2>6, <2>7 DEF Abstract!Start
  <1>5. ASSUME NEW action \in {"Complete", "Cancel"}, Abstract!Shutdown(action)
        PROVE  Abstract!OnePlace'
    BY <1>5 DEF Abstract!Shutdown, Abstract!Pending
  <1>6. CASE UNCHANGED Abstract!vars
    BY <1>6 DEF Abstract!vars, Abstract!Pending
  <1> QED BY <1>1, <1>2, <1>3, <1>4, <1>5, <1>6 DEF Abstract!Next

(* Nothing is left in the queue after DequeueAll. *)
LEMMA DequeueAllContents ==
  ASSUME NEW q, QueueOK(q)
  PROVE  Contents(AfterDequeueAll(q)) = <<>>
  <1> DEFINE a == AfterDequeueAll(q)
  <1>1. QueueOK(a) /\ IsEmpty(a)
    BY DequeueAllOK
  <1> HIDE DEF a
  <1>2. a.m_index = Len(a.m_buffer) /\ a.m_writeBuffer = <<>> /\ a.m_index \in Nat
    BY <1>1 DEF IsEmpty, ReadIsEmpty, QueueOK, TaskQueueType
  <1> QED BY <1>1, <1>2, UnreadType DEF Contents, a

(* What the threads of a function of sequences have between them, and that *)
(* no member of C is there twice.                                          *)
Spread(f) == UNION {TasksOf(f[th]) : th \in Threads}

UniqueIn(f, C) ==
  \A a, b \in Threads : \A i \in DOMAIN f[a], j \in DOMAIN f[b] :
    f[a][i] \in C /\ f[a][i] = f[b][j] => a = b /\ i = j

stacks == [th \in Threads |-> context[th].stack]
deferQueues == [th \in Threads |-> context[th].deferQueue]
CancelCalls == {CancelTask(t) : t \in Tasks}

(* Every task is in one place, also in the detailed state: on one stack,   *)
(* in one defer queue, or in one call of CancelTask, and there once.       *)
Places ==
  /\ Abstract!OnePlace
  /\ Running \subseteq started
  /\ UniqueIn(stacks, Tasks)
  /\ UniqueIn(deferQueues, Tasks)
  /\ UniqueIn(todo, CancelCalls)

(* One thread's sequence is replaced by one whose members of C occur once  *)
(* in it and nowhere else.                                                 *)
LEMMA ReplaceOne ==
  ASSUME NEW S, NEW f \in [Threads -> Seq(S)], NEW th \in Threads, NEW s \in Seq(S),
         NEW g, g = [f EXCEPT ![th] = s], NEW C, UniqueIn(f, C),
         \A i, j \in DOMAIN s : s[i] \in C /\ s[i] = s[j] => i = j,
         \A x \in TasksOf(s) : x \in C => x \in TasksOf(f[th]) \/ x \notin Spread(f)
  PROVE  /\ UniqueIn(g, C)
         /\ \A x \in C : x \in Spread(g) <=> \/ x \in Spread(f) /\ x \notin TasksOf(f[th])
                                             \/ x \in TasksOf(s)
  <1>1. /\ g[th] = s /\ \A o \in Threads \ {th} : g[o] = f[o]
    OBVIOUS
  <1>2. \A o \in Threads \ {th} : \A i \in DOMAIN f[o] :
          f[o][i] \in C => f[o][i] \notin TasksOf(f[th]) /\ f[o][i] \notin TasksOf(s)
    <2> SUFFICES ASSUME NEW o \in Threads \ {th}, NEW i \in DOMAIN f[o], f[o][i] \in C
                 PROVE  f[o][i] \notin TasksOf(f[th]) /\ f[o][i] \notin TasksOf(s)
      OBVIOUS
    <2>1. f[o][i] \notin TasksOf(f[th])
      BY DEF UniqueIn, TasksOf
    <2>2. f[o][i] \in Spread(f)
      BY DEF Spread, TasksOf
    <2> QED BY <2>1, <2>2
  <1>3. UniqueIn(g, C)
    <2> SUFFICES ASSUME NEW a \in Threads, NEW b \in Threads, NEW i \in DOMAIN g[a],
                        NEW j \in DOMAIN g[b], g[a][i] \in C, g[a][i] = g[b][j]
                 PROVE  a = b /\ i = j
      BY DEF UniqueIn
    <2>1. CASE a = th /\ b = th
      BY <1>1, <2>1
    <2>2. CASE a # th /\ b # th
      BY <1>1, <2>2 DEF UniqueIn
    <2>3. CASE a = th /\ b # th
      BY <1>1, <1>2, <2>3 DEF TasksOf
    <2>4. CASE a # th /\ b = th
      BY <1>1, <1>2, <2>4 DEF TasksOf
    <2> QED BY <2>1, <2>2, <2>3, <2>4
  <1>4. ASSUME NEW x \in C
        PROVE  x \in Spread(g) <=> \/ x \in Spread(f) /\ x \notin TasksOf(f[th])
                                   \/ x \in TasksOf(s)
    <2>1. x \in Spread(g) <=> x \in TasksOf(s) \/ \E o \in Threads \ {th} : x \in TasksOf(f[o])
      BY <1>1 DEF Spread
    <2>2. x \in Spread(f) <=> x \in TasksOf(f[th]) \/ \E o \in Threads \ {th} : x \in TasksOf(f[o])
      BY DEF Spread
    <2>3. \A o \in Threads \ {th} : x \in TasksOf(f[o]) => x \notin TasksOf(f[th])
      BY <1>2, <1>4 DEF TasksOf
    <2> QED BY <2>1, <2>2, <2>3
  <1> QED BY <1>3, <1>4

(* What the tail of a sequence without repetitions of C holds. *)
LEMMA UniqueTail ==
  ASSUME NEW S, NEW s \in Seq(S), s # <<>>, NEW C,
         \A i, j \in DOMAIN s : s[i] \in C /\ s[i] = s[j] => i = j
  PROVE  /\ \A i, j \in DOMAIN Tail(s) : Tail(s)[i] \in C /\ Tail(s)[i] = Tail(s)[j] => i = j
         /\ \A x \in C : x \in TasksOf(Tail(s)) <=> x \in TasksOf(s) /\ x # Head(s)
  <1> DEFINE r == Tail(s)
  <1>1. /\ r \in Seq(S) /\ Len(r) = Len(s) - 1 /\ Len(s) \in Nat \ {0}
        /\ \A i \in 1..Len(r) : r[i] = s[i + 1]
        /\ Head(s) = s[1] /\ DOMAIN s = 1..Len(s) /\ DOMAIN r = 1..Len(r)
    OBVIOUS
  <1>2. TasksOf(s) = {Head(s)} \cup TasksOf(r)
    BY TasksOfTail
  <1> HIDE DEF r
  <1>3. \A i, j \in DOMAIN r : r[i] \in C /\ r[i] = r[j] => i = j
    BY <1>1
  <1>4. Head(s) \in C => Head(s) \notin TasksOf(r)
    BY <1>1 DEF TasksOf
  <1> QED BY <1>2, <1>3, <1>4 DEF r

(* What a concatenation holds. *)
LEMMA ConcatTasks ==
  ASSUME NEW S, NEW p \in Seq(S), NEW s \in Seq(S)
  PROVE  TasksOf(p \o s) = TasksOf(p) \cup TasksOf(s)
  <1> DEFINE r == p \o s
  <1>1. /\ Len(p) \in Nat /\ Len(s) \in Nat
        /\ DOMAIN p = 1..Len(p) /\ DOMAIN s = 1..Len(s) /\ DOMAIN r = 1..(Len(p) + Len(s))
        /\ \A i \in 1..(Len(p) + Len(s)) : r[i] = IF i <= Len(p) THEN p[i] ELSE s[i - Len(p)]
    BY ConcatProperties
  <1> HIDE DEF r
  <1>2. ASSUME NEW x \in TasksOf(r) PROVE x \in TasksOf(p) \cup TasksOf(s)
    <2>1. PICK i \in DOMAIN r : x = r[i]
      BY DEF TasksOf
    <2>2. \/ i \in DOMAIN p /\ x = p[i]
          \/ i - Len(p) \in DOMAIN s /\ x = s[i - Len(p)]
      BY <1>1, <2>1
    <2> QED BY <2>2 DEF TasksOf
  <1>3. ASSUME NEW x \in TasksOf(p) PROVE x \in TasksOf(r)
    <2>1. PICK i \in DOMAIN p : x = p[i]
      BY <1>3 DEF TasksOf
    <2>2. i \in DOMAIN r /\ r[i] = x
      BY <1>1, <2>1
    <2> QED BY <2>2 DEF TasksOf
  <1>4. ASSUME NEW x \in TasksOf(s) PROVE x \in TasksOf(r)
    <2>1. PICK i \in DOMAIN s : x = s[i]
      BY <1>4 DEF TasksOf
    <2>2. i + Len(p) \in DOMAIN r /\ r[i + Len(p)] = x
      BY <1>1, <2>1
    <2> QED BY <2>2 DEF TasksOf
  <1> QED BY <1>2, <1>3, <1>4 DEF r

(* It repeats no member of C if its parts do not and have none in common. *)
LEMMA UniqueConcat ==
  ASSUME NEW S, NEW p \in Seq(S), NEW s \in Seq(S), NEW C,
         \A i, j \in DOMAIN p : p[i] \in C /\ p[i] = p[j] => i = j,
         \A i, j \in DOMAIN s : s[i] \in C /\ s[i] = s[j] => i = j,
         \A x \in C : ~(x \in TasksOf(p) /\ x \in TasksOf(s))
  PROVE  \A i, j \in DOMAIN (p \o s) :
           (p \o s)[i] \in C /\ (p \o s)[i] = (p \o s)[j] => i = j
  <1> DEFINE r == p \o s
  <1>1. /\ Len(p) \in Nat /\ Len(s) \in Nat
        /\ DOMAIN p = 1..Len(p) /\ DOMAIN s = 1..Len(s) /\ DOMAIN r = 1..(Len(p) + Len(s))
        /\ \A i \in 1..(Len(p) + Len(s)) : r[i] = IF i <= Len(p) THEN p[i] ELSE s[i - Len(p)]
    BY ConcatProperties
  <1> HIDE DEF r
  <1>2. ASSUME NEW i \in DOMAIN r, NEW j \in DOMAIN r, r[i] \in C, r[i] = r[j]
        PROVE  i = j
    <2>1. \A k \in DOMAIN r : \/ k <= Len(p) /\ k \in DOMAIN p /\ r[k] = p[k]
                              \/ k > Len(p) /\ k - Len(p) \in DOMAIN s /\ r[k] = s[k - Len(p)]
      BY <1>1
    <2>2. CASE i <= Len(p) /\ j <= Len(p)
      BY <1>1, <1>2, <2>1, <2>2
    <2>3. CASE i > Len(p) /\ j > Len(p)
      <3>1. i - Len(p) = j - Len(p)
        BY <1>1, <1>2, <2>1, <2>3
      <3> QED BY <1>1, <3>1
    <2>4. CASE (i <= Len(p)) # (j <= Len(p))
      <3>1. r[i] \in TasksOf(p) /\ r[i] \in TasksOf(s)
        BY <1>1, <1>2, <2>1, <2>4 DEF TasksOf
      <3> QED BY <1>2, <3>1
    <2> QED BY <1>1, <2>2, <2>3, <2>4
  <1> QED BY <1>2 DEF r

(* What a sequence of one task holds. *)
LEMMA OneTask ==
  ASSUME NEW x
  PROVE  /\ TasksOf(<<x>>) = {x} /\ TasksOf(<<>>) = {}
         /\ \A i, j \in DOMAIN <<x>> : i = j
  BY DEF TasksOf

(* The abstract state in terms of what the threads hold. *)
LEMMA Spreads ==
  ASSUME ServiceOK
  PROVE  /\ stacks \in [Threads -> Seq(Tasks)] /\ deferQueues \in [Threads -> Seq(Tasks)]
         /\ Running = Spread(stacks) /\ Deferred = Spread(deferQueues)
         /\ Doomed = {t \in Tasks : CancelTask(t) \in Spread(todo)}
         /\ Running \subseteq Tasks /\ Deferred \subseteq Tasks
  <1>1. stacks \in [Threads -> Seq(Tasks)] /\ deferQueues \in [Threads -> Seq(Tasks)]
    BY DEF ServiceOK, ServiceTypeOK, ContextType, stacks, deferQueues
  <1>2. Running = Spread(stacks) /\ Deferred = Spread(deferQueues)
    BY DEF Running, Deferred, Spread, stacks, deferQueues
  <1>3. Doomed = {t \in Tasks : CancelTask(t) \in Spread(todo)}
    BY DEF Doomed, Spread
  <1>4. Running \subseteq Tasks /\ Deferred \subseteq Tasks
    BY <1>1, <1>2 DEF Spread, TasksOf
  <1> QED BY <1>1, <1>2, <1>3, <1>4

(* The calls are distinct, and two calls of CancelTask for two tasks. *)
LEMMA CancelCallsDistinct ==
  /\ \A t, u \in Tasks : CancelTask(t) = CancelTask(u) => t = u
  /\ \A t \in Tasks : CancelTask(t) \in CancelCalls
  /\ SchedulerPost \notin CancelCalls /\ SchedulerShutdown \notin CancelCalls
  /\ SchedulerAwait \notin CancelCalls
  /\ \A w : JoinThread(w) \notin CancelCalls
  /\ \A c \in CancelCalls : c.call = "CancelTask" /\ c.arg \in Tasks /\ c = CancelTask(c.arg)
  /\ \A c \in Calls : c.call = "CancelTask" => c \in CancelCalls
  <1>1. \A t, u \in Tasks : CancelTask(t) = CancelTask(u) => t = u
    BY DEF CancelTask
  <1>2. \A t \in Tasks : CancelTask(t).call = "CancelTask" /\ CancelTask(t).arg = t
    BY DEF CancelTask
  <1>3. /\ SchedulerPost.call # "CancelTask" /\ SchedulerShutdown.call # "CancelTask"
        /\ SchedulerAwait.call # "CancelTask" /\ \A w : JoinThread(w).call # "CancelTask"
    BY DEF SchedulerPost, SchedulerShutdown, SchedulerAwait, JoinThread
  <1>4. \A c \in CancelCalls : c.call = "CancelTask" /\ c.arg \in Tasks /\ c = CancelTask(c.arg)
    BY <1>2 DEF CancelCalls
  <1>5. \A c \in Calls : c.call = "CancelTask" => c \in CancelCalls
    BY <1>3 DEF Calls, CancelCalls
  <1> QED BY <1>1, <1>3, <1>4, <1>5 DEF CancelCalls

(* A thread's calls are replaced by others. *)
LEMMA TodoReplaced ==
  ASSUME ServiceOK, UniqueIn(todo, CancelCalls), NEW th \in Threads, NEW s \in Seq(Calls),
         todo' = [todo EXCEPT ![th] = s],
         \A i, j \in DOMAIN s : s[i] \in CancelCalls /\ s[i] = s[j] => i = j,
         \A x \in TasksOf(s) :
           x \in CancelCalls => x \in TasksOf(todo[th]) \/ x \notin Spread(todo)
  PROVE  /\ UniqueIn(todo, CancelCalls)'
         /\ \A t \in Tasks : t \in Doomed' <=>
              \/ t \in Doomed /\ CancelTask(t) \notin TasksOf(todo[th])
              \/ CancelTask(t) \in TasksOf(s)
  <1>1. todo \in [Threads -> Seq(Calls)]
    BY DEF ServiceOK, ServiceTypeOK
  <1> DEFINE C == CancelCalls
             g == todo'
  <1>2. /\ UniqueIn(g, C)
        /\ \A x \in C : x \in Spread(g) <=> \/ x \in Spread(todo) /\ x \notin TasksOf(todo[th])
                                            \/ x \in TasksOf(s)
    <2>1. /\ UniqueIn(todo, C) /\ g = [todo EXCEPT ![th] = s]
          /\ \A i, j \in DOMAIN s : s[i] \in C /\ s[i] = s[j] => i = j
          /\ \A x \in TasksOf(s) : x \in C => x \in TasksOf(todo[th]) \/ x \notin Spread(todo)
      OBVIOUS
    <2> HIDE DEF C, g
    <2> QED BY <1>1, <2>1, ReplaceOne
  <1>3. /\ Doomed = {t \in Tasks : CancelTask(t) \in Spread(todo)}
        /\ Doomed' = {t \in Tasks : CancelTask(t) \in Spread(todo')}
    BY DEF Doomed, Spread
  <1>4. UniqueIn(todo, CancelCalls)'
    BY <1>2 DEF UniqueIn, CancelCalls, CancelTask
  <1> QED BY <1>2, <1>3, <1>4, CancelCallsDistinct

(* A thread that has nothing to do gets calls that cancel nothing. *)
LEMMA TodoNoCancels ==
  ASSUME ServiceOK, UniqueIn(todo, CancelCalls), NEW th \in Threads, NEW s \in Seq(Calls),
         todo' = [todo EXCEPT ![th] = s], todo[th] = <<>>,
         TasksOf(s) \cap CancelCalls = {}
  PROVE  UniqueIn(todo, CancelCalls)' /\ Doomed' = Doomed
  <1>1. \A i \in DOMAIN s : s[i] \notin CancelCalls
    BY DEF TasksOf
  <1>2. \A t \in Tasks : CancelTask(t) \notin TasksOf(todo[th]) /\ CancelTask(t) \notin TasksOf(s)
    BY CancelCallsDistinct, OneTask
  <1>3. /\ UniqueIn(todo, CancelCalls)'
        /\ \A t \in Tasks : t \in Doomed' <=>
              \/ t \in Doomed /\ CancelTask(t) \notin TasksOf(todo[th])
              \/ CancelTask(t) \in TasksOf(s)
    BY <1>1, TodoReplaced
  <1> QED BY <1>2, <1>3 DEF Doomed

(* A call of the scheduler returns, or is replaced by others.  *)
LEMMA TodoReturned ==
  ASSUME ServiceOK, UniqueIn(todo, CancelCalls), NEW th \in Threads, NEW p \in Seq(Calls),
         todo[th] # <<>>, Head(todo[th]).call # "CancelTask",
         todo' = [todo EXCEPT ![th] = p \o Tail(todo[th])],
         TasksOf(p) \cap CancelCalls = {}
  PROVE  UniqueIn(todo, CancelCalls)' /\ Doomed' = Doomed
  <1> DEFINE s == todo[th]
             r == Tail(s)
  <1>1. s \in Seq(Calls) /\ r \in Seq(Calls) /\ s # <<>> /\ Head(s) \notin CancelCalls
    BY CancelCallsDistinct DEF ServiceOK, ServiceTypeOK
  <1>2. \A i, j \in DOMAIN s : s[i] \in CancelCalls /\ s[i] = s[j] => i = j
    BY DEF UniqueIn
  <1> HIDE DEF s
  <1>3. /\ \A i, j \in DOMAIN r : r[i] \in CancelCalls /\ r[i] = r[j] => i = j
        /\ \A x \in CancelCalls : x \in TasksOf(r) <=> x \in TasksOf(s)
    BY <1>1, <1>2, UniqueTail
  <1> HIDE DEF r
  <1>4. \A i \in DOMAIN p : p[i] \notin CancelCalls
    BY DEF TasksOf
  <1>5. p \o r \in Seq(Calls) /\ TasksOf(p \o r) = TasksOf(p) \cup TasksOf(r)
    BY <1>1, ConcatTasks
  <1>6. \A i, j \in DOMAIN (p \o r) :
           (p \o r)[i] \in CancelCalls /\ (p \o r)[i] = (p \o r)[j] => i = j
    BY <1>1, <1>3, <1>4, UniqueConcat
  <1> DEFINE q == p \o r
  <1>7. \A x \in CancelCalls : x \in TasksOf(q) <=> x \in TasksOf(todo[th])
    BY <1>3, <1>5 DEF s
  <1>8. todo' = [todo EXCEPT ![th] = q] /\ q \in Seq(Calls)
    BY <1>5 DEF s, r
  <1>9. \A i, j \in DOMAIN q : q[i] \in CancelCalls /\ q[i] = q[j] => i = j
    BY <1>6
  <1> HIDE DEF q
  <1>10. /\ UniqueIn(todo, CancelCalls)'
         /\ \A t \in Tasks : t \in Doomed' <=>
              \/ t \in Doomed /\ CancelTask(t) \notin TasksOf(todo[th])
              \/ CancelTask(t) \in TasksOf(q)
    BY <1>7, <1>8, <1>9, TodoReplaced
  <1> QED BY <1>7, <1>10, CancelCallsDistinct DEF Doomed

Kept == UNCHANGED <<m_queue, m_shutdownAction, context, fresh, started, canceled>>

(* A step that the abstract queue does not see. *)
LEMMA PlacesKept ==
  ASSUME Places, Kept, UniqueIn(todo, CancelCalls)', Doomed' = Doomed
  PROVE  Places' /\ UNCHANGED Abstract!vars
  <1> USE DEF Kept
  <1>1. Running' = Running /\ Deferred' = Deferred
    BY DEF Running, Deferred
  <1>2. UNCHANGED Abstract!vars
    BY <1>1 DEF Abstract!vars
  <1>3. UniqueIn(stacks, Tasks)' /\ UniqueIn(deferQueues, Tasks)'
    BY DEF Places, UniqueIn, stacks, deferQueues
  <1>4. Abstract!OnePlace'
    BY <1>2, OnePlaceStep DEF Places
  <1> QED BY <1>1, <1>2, <1>3, <1>4 DEF Places

(* A call of the scheduler is such a step. *)
LEMMA CallPlaces ==
  ASSUME ServiceOK, Places, Kept, NEW th \in Threads, NEW p \in Seq(Calls),
         todo[th] # <<>>, Head(todo[th]).call # "CancelTask",
         todo' = [todo EXCEPT ![th] = p \o Tail(todo[th])],
         TasksOf(p) \cap CancelCalls = {}
  PROVE  Places' /\ UNCHANGED Abstract!vars
  BY TodoReturned, PlacesKept DEF Places

(* Its return too. *)
LEMMA ReturnPlaces ==
  ASSUME ServiceOK, Places, Kept, NEW th \in Threads,
         todo[th] # <<>>, Head(todo[th]).call # "CancelTask", Returned(th)
  PROVE  Places' /\ UNCHANGED Abstract!vars
  <1> DEFINE p == <<>>
  <1>1. p \in Seq(Calls) /\ TasksOf(p) \cap CancelCalls = {}
    BY DEF TasksOf
  <1>2. p \o Tail(todo[th]) = Tail(todo[th])
    BY ConcatEmptySeq DEF ServiceOK, ServiceTypeOK
  <1>3. todo' = [todo EXCEPT ![th] = p \o Tail(todo[th])]
    BY <1>2 DEF Returned
  <1> HIDE DEF p
  <1> QED BY <1>1, <1>3, CallPlaces

(* A step that touches nothing but references. *)
LEMMA StutterPlaces ==
  ASSUME Places, Kept, todo' = todo
  PROVE  Places' /\ UNCHANGED Abstract!vars
  <1>1. Doomed' = Doomed /\ UniqueIn(todo, CancelCalls)'
    BY DEF Doomed, UniqueIn, Places
  <1> QED BY <1>1, PlacesKept

(* A step that gives an idle thread calls of the scheduler to make. *)
LEMMA IdlePlaces ==
  ASSUME ServiceOK, Places, Kept, NEW th \in Threads, NEW s \in Seq(Calls),
         todo' = [todo EXCEPT ![th] = s], todo[th] = <<>>,
         TasksOf(s) \cap CancelCalls = {}
  PROVE  Places' /\ UNCHANGED Abstract!vars
  BY TodoNoCancels, PlacesKept DEF Places

(* A step of the abstract queue that leaves the contexts alone. *)
LEMMA PlacesMoved ==
  ASSUME Places, Abstract!Next, UNCHANGED <<context, started>>, UniqueIn(todo, CancelCalls)'
  PROVE  Places'
  <1>1. Running' = Running /\ started' = started
    BY DEF Running
  <1>2. UniqueIn(stacks, Tasks)' /\ UniqueIn(deferQueues, Tasks)'
    BY DEF Places, UniqueIn, stacks, deferQueues
  <1>3. Abstract!OnePlace'
    BY OnePlaceStep DEF Places
  <1> QED BY <1>1, <1>2, <1>3 DEF Places

(* EnqueueElseCancel accepts a task or turns it away. *)
LEMMA EnqueuePlaces ==
  ASSUME ServiceOK, Places, NEW th \in Threads, NEW task \in fresh, todo[th] = <<>>,
         EnqueueElseCancel(th, task), fresh' = fresh \ {task},
         UNCHANGED <<m_shutdownAction, context, started, canceled>>
  PROVE  Places' /\ Abstract!Next
  <1>1. Running' = Running /\ Deferred' = Deferred /\ task \in Tasks
    BY DEF Running, Deferred, ServiceOK, ServiceTypeOK
  <1>2. CASE m_shutdownAction = NoAction
    <2> DEFINE s == IF m_suspendCounter = 0 THEN <<SchedulerPost>> ELSE <<>>
    <2>1. s \in Seq(Calls) /\ TasksOf(s) \cap CancelCalls = {}
      BY CallTypes, CancelCallsDistinct, OneTask
    <2>2. todo' = [todo EXCEPT ![th] = s] /\ m_queue' = Enqueue(m_queue, task)
      BY <1>2 DEF EnqueueElseCancel
    <2> HIDE DEF s
    <2>3. UniqueIn(todo, CancelCalls)' /\ Doomed' = Doomed
      BY <2>1, <2>2, TodoNoCancels DEF Places
    <2>4. Contents(m_queue') = Append(Contents(m_queue), task)
      BY <1>1, <2>2, EnqueueAppends DEF ServiceOK
    <2>5. Abstract!Accept(task)
      BY <1>1, <1>2, <2>3, <2>4 DEF Abstract!Accept
    <2>6. Abstract!Next
      BY <1>1, <2>5 DEF Abstract!Next
    <2> QED BY <2>3, <2>6, PlacesMoved
  <1>3. CASE m_shutdownAction # NoAction
    <2> DEFINE s == <<CancelTask(task)>>
    <2>1. /\ s \in Seq(Calls) /\ TasksOf(s) = {CancelTask(task)}
          /\ \A i, j \in DOMAIN s : i = j
      BY <1>1, CallTypes, OneTask
    <2>2. todo' = [todo EXCEPT ![th] = s] /\ m_queue' = m_queue
      BY <1>3 DEF EnqueueElseCancel
    <2> HIDE DEF s
    <2>3. CancelTask(task) \notin Spread(todo) /\ TasksOf(todo[th]) = {}
      <3>1. task \notin Doomed
        BY DEF Places, Abstract!OnePlace
      <3> QED BY <1>1, <3>1, Spreads, OneTask
    <2>4. /\ UniqueIn(todo, CancelCalls)'
          /\ \A t \in Tasks : t \in Doomed' <=> \/ t \in Doomed /\ CancelTask(t) \notin TasksOf(todo[th])
                                                \/ CancelTask(t) \in TasksOf(s)
      BY <2>1, <2>2, <2>3, TodoReplaced DEF Places
    <2>5. Doomed' = Doomed \cup {task}
      BY <1>1, <2>1, <2>3, <2>4, CancelCallsDistinct DEF Doomed
    <2>6. Abstract!Reject(task)
      BY <1>1, <1>3, <2>2, <2>5 DEF Abstract!Reject
    <2>7. Abstract!Next
      BY <1>1, <2>6 DEF Abstract!Next
    <2> QED BY <2>4, <2>7, PlacesMoved
  <1> QED BY <1>2, <1>3

(* Shutdown leaves the pending tasks or dooms all of them. *)
LEMMA ShutdownPlaces ==
  ASSUME ServiceOK, Places, NEW th \in Threads, todo[th] = <<>>,
         NEW action \in PendingTaskAction, NEW calls \in Seq(Calls),
         TasksOf(calls) \cap CancelCalls = {}, ShutdownThen(th, action, calls),
         UNCHANGED <<context, fresh, started, canceled>>
  PROVE  Places' /\ Abstract!Next
  <1> DEFINE tasks == IF action = "Cancel" THEN AllTasks(m_queue) ELSE <<>>
             cancels == [i \in 1..Len(tasks) |-> CancelTask(tasks[i])]
             more == <<SchedulerShutdown>> \o calls
             s == cancels \o more
  <1>1. Running' = Running /\ Deferred' = Deferred
    BY DEF Running, Deferred
  <1>2. tasks \in Seq(Tasks) /\ AllTasks(m_queue) = Contents(m_queue)
    BY DequeueAllOK DEF ServiceOK, AllTasks, Contents
  <1>3. m_shutdownAction' = action /\ action # NoAction
    BY DEF ShutdownThen, PendingTaskAction, NoAction
  <1>4. cancels \in Seq(Calls) /\ DOMAIN cancels = 1..Len(tasks) /\ Len(tasks) \in Nat
    <2> HIDE DEF tasks
    <2> QED BY <1>2, CancelCallsType
  <1>5. TasksOf(cancels) = {CancelTask(t) : t \in TasksOf(tasks)}
    <2>1. DOMAIN tasks = 1..Len(tasks)
      BY <1>2
    <2> HIDE DEF tasks
    <2> QED BY <2>1 DEF TasksOf
  <1>6. \A i, j \in DOMAIN tasks : tasks[i] = tasks[j] => i = j
    BY <1>2 DEF Places, Abstract!OnePlace
  <1>7. \A i, j \in DOMAIN cancels : cancels[i] \in CancelCalls /\ cancels[i] = cancels[j] => i = j
    <2>1. \A i \in 1..Len(tasks) : tasks[i] \in Tasks /\ i \in DOMAIN tasks
      BY <1>2
    <2> HIDE DEF tasks
    <2> QED BY <1>4, <1>6, <2>1, CancelCallsDistinct
  <1> HIDE DEF cancels
  <1>8. /\ more \in Seq(Calls) /\ TasksOf(more) \cap CancelCalls = {}
        /\ \A i \in DOMAIN more : more[i] \notin CancelCalls
    <2> DEFINE h == <<SchedulerShutdown>>
    <2>1. h \in Seq(Calls) /\ TasksOf(h) = {SchedulerShutdown}
      BY CallTypes, OneTask
    <2> HIDE DEF h
    <2>2. h \o calls \in Seq(Calls) /\ TasksOf(h \o calls) = TasksOf(h) \cup TasksOf(calls)
      BY <2>1, ConcatTasks
    <2>3. TasksOf(more) \cap CancelCalls = {}
      BY <2>1, <2>2, CancelCallsDistinct DEF h
    <2> QED BY <2>2, <2>3 DEF h, TasksOf
  <1> HIDE DEF more
  <1>9. /\ s \in Seq(Calls) /\ TasksOf(s) = TasksOf(cancels) \cup TasksOf(more)
        /\ \A i, j \in DOMAIN s : s[i] \in CancelCalls /\ s[i] = s[j] => i = j
    BY <1>4, <1>7, <1>8, ConcatTasks, UniqueConcat
  <1>10. todo' = [todo EXCEPT ![th] = s]
    <2>1. todo' = [todo EXCEPT ![th] = cancels \o <<SchedulerShutdown>> \o calls]
      BY DEF ShutdownThen, cancels
    <2>2. cancels \o <<SchedulerShutdown>> \o calls = cancels \o more
      <3> DEFINE h == <<SchedulerShutdown>>
      <3>1. h \in Seq(Calls)
        BY CallTypes
      <3> HIDE DEF h
      <3>2. (cancels \o h) \o calls = cancels \o (h \o calls)
        BY <1>4, <3>1, ConcatAssociative
      <3> QED BY <3>2 DEF h, more
    <2> QED BY <2>1, <2>2
  <1> HIDE DEF s
  <1>11. \A t \in Tasks : CancelTask(t) \in TasksOf(s) <=> t \in TasksOf(tasks)
    <2>1. TasksOf(tasks) \subseteq Tasks
      BY <1>2 DEF TasksOf
    <2> HIDE DEF tasks
    <2> QED BY <1>5, <1>8, <1>9, <2>1, CancelCallsDistinct
  <1>12. \A x \in TasksOf(s) : x \in CancelCalls => x \notin Spread(todo)
    <2> SUFFICES ASSUME NEW x \in TasksOf(s), x \in CancelCalls PROVE x \notin Spread(todo)
      OBVIOUS
    <2>1. x = CancelTask(x.arg) /\ x.arg \in Tasks
      BY CancelCallsDistinct
    <2>2. x.arg \in TasksOf(tasks)
      BY <1>11, <2>1
    <2>3. x.arg \in TasksOf(Contents(m_queue))
      BY <1>2, <2>2, OneTask
    <2>4. x.arg \notin Doomed
      BY <2>3 DEF Places, Abstract!OnePlace, Abstract!Pending, TasksOf
    <2> QED BY <2>1, <2>4, Spreads
  <1>13. /\ UniqueIn(todo, CancelCalls)'
         /\ \A t \in Tasks : t \in Doomed' <=> \/ t \in Doomed /\ CancelTask(t) \notin TasksOf(todo[th])
                                               \/ CancelTask(t) \in TasksOf(s)
    BY <1>9, <1>10, <1>12, TodoReplaced DEF Places
  <1>14. Doomed' = Doomed \cup TasksOf(tasks)
    <2>1. TasksOf(todo[th]) = {} /\ TasksOf(tasks) \subseteq Tasks
      BY <1>2, OneTask DEF TasksOf
    <2> HIDE DEF tasks
    <2> QED BY <1>11, <1>13, <2>1 DEF Doomed
  <1>15. Contents(m_queue') = IF action = "Cancel" THEN <<>> ELSE Contents(m_queue)
    <2>1. m_queue' = IF action = "Cancel" THEN AfterDequeueAll(m_queue) ELSE m_queue
      BY DEF ShutdownThen
    <2> QED BY <2>1, DequeueAllContents DEF ServiceOK
  <1>16. Abstract!Shutdown(action)
    <2>1. Doomed' = IF action = "Cancel" THEN Doomed \cup TasksOf(Contents(m_queue)) ELSE Doomed
      BY <1>2, <1>14, OneTask
    <2>2. ~(m_shutdownAction' = NoAction)
      BY <1>3
    <2> QED BY <1>1, <1>15, <2>1, <2>2 DEF Abstract!Shutdown, TasksOf
  <1>17. Abstract!Next
    BY <1>16 DEF Abstract!Next, PendingTaskAction
  <1> QED BY <1>13, <1>17, PlacesMoved

(* The destructor shuts the queue down. *)
LEMMA DestroyPlaces ==
  ASSUME ServiceOK, Places, NEW th \in Threads, todo[th] = <<>>, NEW last,
         DestroyIf(last, th), UNCHANGED <<context, fresh, started, canceled>>
  PROVE  Places' /\ [Abstract!Next]_(Abstract!vars)
  <1>1. CASE last
    <2>1. /\ <<SchedulerAwait>> \in Seq(Calls) /\ "Complete" \in PendingTaskAction
          /\ TasksOf(<<SchedulerAwait>>) \cap CancelCalls = {}
      BY CallTypes, OneTask, CancelCallsDistinct DEF PendingTaskAction
    <2>2. ShutdownThen(th, "Complete", <<SchedulerAwait>>)
      BY <1>1 DEF DestroyIf
    <2> QED BY <2>1, <2>2, ShutdownPlaces
  <1>2. CASE ~last
    BY <1>2, StutterPlaces DEF DestroyIf, Kept
  <1> QED BY <1>1, <1>2

(* The stack and the defer queue of one thread change. *)
LEMMA ContextReplaced ==
  ASSUME ServiceOK, Places, NEW th \in Threads, NEW st \in Seq(Tasks), NEW dq \in Seq(Tasks),
         context' = [context EXCEPT ![th] = [stack |-> st, deferQueue |-> dq]],
         \A i, j \in DOMAIN st : st[i] = st[j] => i = j,
         \A i, j \in DOMAIN dq : dq[i] = dq[j] => i = j,
         \A x \in TasksOf(st) : x \in TasksOf(context[th].stack) \/ x \notin Running,
         \A x \in TasksOf(dq) : x \in TasksOf(context[th].deferQueue) \/ x \notin Deferred
  PROVE  /\ UniqueIn(stacks, Tasks)' /\ UniqueIn(deferQueues, Tasks)'
         /\ Running' = (Running \ TasksOf(context[th].stack)) \cup TasksOf(st)
         /\ Deferred' = (Deferred \ TasksOf(context[th].deferQueue)) \cup TasksOf(dq)
  <1> DEFINE f == stacks
             g == deferQueues
             fp == stacks'
             gp == deferQueues'
  <1>1. /\ f \in [Threads -> Seq(Tasks)] /\ g \in [Threads -> Seq(Tasks)]
        /\ Running = Spread(f) /\ Deferred = Spread(g)
        /\ Running \subseteq Tasks /\ Deferred \subseteq Tasks
    BY Spreads
  <1>2. f[th] = context[th].stack /\ g[th] = context[th].deferQueue
    BY DEF stacks, deferQueues
  <1>3. /\ fp = [f EXCEPT ![th] = st] /\ gp = [g EXCEPT ![th] = dq]
        /\ Running' = Spread(fp) /\ Deferred' = Spread(gp)
    <2>1. context \in [Threads -> ContextType]
      BY DEF ServiceOK, ServiceTypeOK
    <2>2. fp = [f EXCEPT ![th] = st] /\ gp = [g EXCEPT ![th] = dq]
      BY <2>1 DEF stacks, deferQueues
    <2>3. Running' = Spread(fp) /\ Deferred' = Spread(gp)
      BY DEF Running, Deferred, Spread, stacks, deferQueues
    <2> QED BY <2>2, <2>3
  <1>4. UniqueIn(f, Tasks) /\ UniqueIn(g, Tasks)
    BY DEF Places
  <1>5. TasksOf(st) \subseteq Tasks /\ TasksOf(dq) \subseteq Tasks
    BY DEF TasksOf
  <1> HIDE DEF f, g, fp, gp
  <1>6. /\ UniqueIn(fp, Tasks)
        /\ \A x \in Tasks : x \in Spread(fp) <=> \/ x \in Spread(f) /\ x \notin TasksOf(f[th])
                                                 \/ x \in TasksOf(st)
    <2> DEFINE C == Tasks
    <2>1. /\ UniqueIn(f, C) /\ fp = [f EXCEPT ![th] = st] /\ f \in [Threads -> Seq(Tasks)]
          /\ \A i, j \in DOMAIN st : st[i] \in C /\ st[i] = st[j] => i = j
          /\ \A x \in TasksOf(st) : x \in C => x \in TasksOf(f[th]) \/ x \notin Spread(f)
      BY <1>1, <1>2, <1>3, <1>4
    <2> HIDE DEF C
    <2>2. /\ UniqueIn(fp, C)
          /\ \A x \in C : x \in Spread(fp) <=> \/ x \in Spread(f) /\ x \notin TasksOf(f[th])
                                              \/ x \in TasksOf(st)
      BY <2>1, ReplaceOne
    <2> QED BY <2>2 DEF C
  <1>7. /\ UniqueIn(gp, Tasks)
        /\ \A x \in Tasks : x \in Spread(gp) <=> \/ x \in Spread(g) /\ x \notin TasksOf(g[th])
                                                 \/ x \in TasksOf(dq)
    <2> DEFINE C == Tasks
    <2>1. /\ UniqueIn(g, C) /\ gp = [g EXCEPT ![th] = dq] /\ g \in [Threads -> Seq(Tasks)]
          /\ \A i, j \in DOMAIN dq : dq[i] \in C /\ dq[i] = dq[j] => i = j
          /\ \A x \in TasksOf(dq) : x \in C => x \in TasksOf(g[th]) \/ x \notin Spread(g)
      BY <1>1, <1>2, <1>3, <1>4
    <2> HIDE DEF C
    <2>2. /\ UniqueIn(gp, C)
          /\ \A x \in C : x \in Spread(gp) <=> \/ x \in Spread(g) /\ x \notin TasksOf(g[th])
                                              \/ x \in TasksOf(dq)
      BY <2>1, ReplaceOne
    <2> QED BY <2>2 DEF C
  <1>8. Spread(fp) \subseteq Tasks /\ Spread(gp) \subseteq Tasks
    <2>1. fp \in [Threads -> Seq(Tasks)] /\ gp \in [Threads -> Seq(Tasks)]
      BY <1>1, <1>3
    <2> QED BY <2>1 DEF Spread, TasksOf
  <1>9. Running' = (Running \ TasksOf(context[th].stack)) \cup TasksOf(st)
    BY <1>1, <1>2, <1>3, <1>5, <1>6, <1>8
  <1>10. Deferred' = (Deferred \ TasksOf(context[th].deferQueue)) \cup TasksOf(dq)
    BY <1>1, <1>2, <1>3, <1>5, <1>7, <1>8
  <1>11. UniqueIn(stacks, Tasks)' /\ UniqueIn(deferQueues, Tasks)'
    BY <1>6, <1>7 DEF fp, gp, UniqueIn
  <1> QED BY <1>9, <1>10, <1>11

(* A thread's own tasks, one by one. *)
LEMMA OwnContext ==
  ASSUME ServiceOK, Places, NEW th \in Threads
  PROVE  /\ context[th].stack \in Seq(Tasks) /\ context[th].deferQueue \in Seq(Tasks)
         /\ TasksOf(context[th].stack) \subseteq Running
         /\ TasksOf(context[th].deferQueue) \subseteq Deferred
         /\ \A i, j \in DOMAIN context[th].stack :
              context[th].stack[i] = context[th].stack[j] => i = j
         /\ \A i, j \in DOMAIN context[th].deferQueue :
              context[th].deferQueue[i] = context[th].deferQueue[j] => i = j
  <1>1. context[th].stack \in Seq(Tasks) /\ context[th].deferQueue \in Seq(Tasks)
    BY DEF ServiceOK, ServiceTypeOK, ContextType
  <1>2. /\ TasksOf(context[th].stack) \subseteq Running
        /\ TasksOf(context[th].deferQueue) \subseteq Deferred
    BY DEF Running, Deferred
  <1>3. stacks[th] = context[th].stack /\ deferQueues[th] = context[th].deferQueue
    BY DEF stacks, deferQueues
  <1>4. /\ \A i \in DOMAIN context[th].stack : context[th].stack[i] \in Tasks
        /\ \A i \in DOMAIN context[th].deferQueue : context[th].deferQueue[i] \in Tasks
    BY <1>1
  <1>5. /\ \A i, j \in DOMAIN stacks[th] : stacks[th][i] \in Tasks /\ stacks[th][i] = stacks[th][j] => i = j
        /\ \A i, j \in DOMAIN deferQueues[th] :
              deferQueues[th][i] \in Tasks /\ deferQueues[th][i] = deferQueues[th][j] => i = j
    BY DEF Places, UniqueIn
  <1> QED BY <1>1, <1>2, <1>3, <1>4, <1>5

(* A step of the abstract queue that leaves the calls alone. *)
LEMMA PlacesRun ==
  ASSUME Places, Abstract!Next, Running' \subseteq started', todo' = todo,
         UniqueIn(stacks, Tasks)', UniqueIn(deferQueues, Tasks)'
  PROVE  Places'
  <1>1. UniqueIn(todo, CancelCalls)'
    BY DEF Places, UniqueIn
  <1>2. Abstract!OnePlace'
    BY OnePlaceStep DEF Places
  <1> QED BY <1>1, <1>2 DEF Places

(* A task that is dequeued starts, once. *)
LEMMA DequeuePlaces ==
  ASSUME ServiceOK, Places, NEW th \in Threads, ~InTask(th), DequeueAndInvoke(th)
  PROVE  Places' /\ Abstract!Next
  <1> DEFINE t == DequeuedTask(m_queue)
             dq == context[th].deferQueue
             st == <<t>>
  <1>1. /\ Contents(m_queue) # <<>> /\ t = Head(Contents(m_queue)) /\ t \in Tasks
        /\ Contents(m_queue') = Tail(Contents(m_queue))
    BY DequeueTakesHead, DequeueOK DEF ServiceOK, DequeueAndInvoke, HasTasks
  <1>2. t \in Abstract!Pending
    BY <1>1, DistinctTail DEF Places, Abstract!OnePlace, Abstract!Pending
  <1>3. t \notin Running /\ t \notin Deferred /\ t \notin started
    BY <1>2 DEF Places, Abstract!OnePlace
  <1>4. /\ context[th].stack = <<>>
        /\ context' = [context EXCEPT ![th] = [stack |-> st, deferQueue |-> dq]]
    BY DEF InTask, DequeueAndInvoke
  <1>5. st \in Seq(Tasks) /\ TasksOf(st) = {t} /\ \A i, j \in DOMAIN st : i = j
    BY <1>1, OneTask
  <1>6. TasksOf(context[th].stack) = {}
    BY <1>4 DEF TasksOf
  <1> HIDE DEF st, t, dq
  <1>7. /\ UniqueIn(stacks, Tasks)' /\ UniqueIn(deferQueues, Tasks)'
        /\ Running' = (Running \ TasksOf(context[th].stack)) \cup TasksOf(st)
        /\ Deferred' = (Deferred \ TasksOf(context[th].deferQueue)) \cup TasksOf(dq)
    <2>1. /\ dq \in Seq(Tasks) /\ \A i, j \in DOMAIN dq : dq[i] = dq[j] => i = j
          /\ TasksOf(dq) = TasksOf(context[th].deferQueue)
      BY OwnContext DEF dq
    <2>2. /\ \A i, j \in DOMAIN st : st[i] = st[j] => i = j
          /\ \A x \in TasksOf(st) : x \in TasksOf(context[th].stack) \/ x \notin Running
          /\ \A x \in TasksOf(dq) : x \in TasksOf(context[th].deferQueue) \/ x \notin Deferred
      BY <1>3, <1>5, <2>1
    <2> QED BY <1>4, <1>5, <2>1, <2>2, ContextReplaced
  <1>8. Running' = Running \cup {t} /\ Deferred' = Deferred
    BY <1>5, <1>6, <1>7, OwnContext DEF dq
  <1>9. /\ started' = started \cup {t} /\ todo' = todo
        /\ UNCHANGED <<m_shutdownAction, fresh, canceled>>
    BY DEF DequeueAndInvoke, t
  <1>10. Doomed' = Doomed
    BY <1>9 DEF Doomed
  <1>11. started' \ Running' = started \ Running
    BY <1>3, <1>8, <1>9
  <1>12. Abstract!Start
    BY <1>1, <1>8, <1>9, <1>10, <1>11 DEF Abstract!Start
  <1>13. Abstract!Next
    BY <1>12 DEF Abstract!Next
  <1>14. Running' \subseteq started'
    BY <1>8, <1>9 DEF Places
  <1> QED BY <1>7, <1>9, <1>13, <1>14, PlacesRun

(* InvokeElsePost on a thread of the scheduler starts the task at once. *)
LEMMA InvokePlaces ==
  ASSUME ServiceOK, Places, NEW th \in Threads, NEW task \in Tasks,
         InvokeElsePost(th, task), HasThreadAccess(th)
  PROVE  Places' /\ Abstract!Next
  <1> DEFINE old == context[th].stack
             st == <<task>> \o old
             dq == context[th].deferQueue
  <1>1. /\ task \in fresh /\ fresh' = fresh \ {task} /\ started' = started \cup {task}
        /\ UNCHANGED <<m_queue, m_shutdownAction, todo, canceled>>
        /\ context' = [context EXCEPT ![th] = [stack |-> st, deferQueue |-> dq]]
        /\ InUserCode(th)
    BY DEF InvokeElsePost
  <1>2. old # <<>>
    BY <1>1, QueueServiceAssumption DEF InUserCode, InTask, HasThreadAccess, ServiceOK,
                                        ServiceTypeOK
  <1>3. task \notin Running /\ task \notin started
    BY <1>1 DEF Places, Abstract!OnePlace
  <1>4. /\ old \in Seq(Tasks) /\ dq \in Seq(Tasks) /\ TasksOf(old) \subseteq Running
        /\ TasksOf(dq) \subseteq Deferred
        /\ \A i, j \in DOMAIN old : old[i] = old[j] => i = j
        /\ \A i, j \in DOMAIN dq : dq[i] = dq[j] => i = j
    BY OwnContext
  <1>5. Running # {}
    <2>1. Head(old) \in TasksOf(old)
      BY <1>2, <1>4, TasksOfTail
    <2> QED BY <1>4, <2>1
  <1>6. /\ st \in Seq(Tasks) /\ TasksOf(st) = {task} \cup TasksOf(old)
        /\ \A i, j \in DOMAIN st : st[i] = st[j] => i = j
    <2> DEFINE h == <<task>>
    <2>1. h \in Seq(Tasks) /\ TasksOf(h) = {task} /\ \A i, j \in DOMAIN h : i = j
      BY OneTask
    <2> HIDE DEF h, old
    <2>2. h \o old \in Seq(Tasks) /\ TasksOf(h \o old) = TasksOf(h) \cup TasksOf(old)
      BY <1>4, <2>1, ConcatTasks
    <2>3. \A i, j \in DOMAIN (h \o old) :
            (h \o old)[i] \in Tasks /\ (h \o old)[i] = (h \o old)[j] => i = j
      <3>1. \A y \in Tasks : ~(y \in TasksOf(h) /\ y \in TasksOf(old))
        BY <1>3, <1>4, <2>1
      <3>2. \A i, j \in DOMAIN h : h[i] \in Tasks /\ h[i] = h[j] => i = j
        BY <2>1
      <3>3. \A i, j \in DOMAIN old : old[i] \in Tasks /\ old[i] = old[j] => i = j
        BY <1>4
      <3> QED BY <1>4, <2>1, <3>1, <3>2, <3>3, UniqueConcat
    <2> DEFINE x == h \o old
    <2>4. \A i \in DOMAIN x : x[i] \in Tasks
      <3> HIDE DEF x
      <3>1. x \in Seq(Tasks)
        BY <2>2 DEF x
      <3> QED BY <3>1
    <2> QED BY <2>1, <2>2, <2>3, <2>4 DEF h
  <1> HIDE DEF old, st, dq
  <1>7. /\ UniqueIn(stacks, Tasks)' /\ UniqueIn(deferQueues, Tasks)'
        /\ Running' = (Running \ TasksOf(context[th].stack)) \cup TasksOf(st)
        /\ Deferred' = (Deferred \ TasksOf(context[th].deferQueue)) \cup TasksOf(dq)
    <2>1. /\ \A x \in TasksOf(st) : x \in TasksOf(context[th].stack) \/ x \notin Running
          /\ \A x \in TasksOf(dq) : x \in TasksOf(context[th].deferQueue) \/ x \notin Deferred
      BY <1>3, <1>6 DEF old, dq
    <2> QED BY <1>1, <1>4, <1>6, <2>1, ContextReplaced
  <1>8. Running' = Running \cup {task} /\ Deferred' = Deferred
    BY <1>4, <1>6, <1>7 DEF old, dq
  <1>9. Doomed' = Doomed /\ started' \ Running' = started \ Running
    BY <1>1, <1>3, <1>8 DEF Doomed
  <1>10. Abstract!InvokeInside(task)
    BY <1>1, <1>5, <1>8, <1>9 DEF Abstract!InvokeInside
  <1>11. Abstract!Next
    BY <1>10 DEF Abstract!Next
  <1>12. Running' \subseteq started' /\ todo' = todo
    BY <1>1, <1>8 DEF Places
  <1> QED BY <1>7, <1>11, <1>12, PlacesRun

(* DeferElsePost inside of a task puts the task aside. *)
LEMMA DeferPlaces ==
  ASSUME ServiceOK, Places, NEW th \in Threads, NEW task \in Tasks,
         DeferElsePost(th, task), IsCurrentQueue(th)
  PROVE  Places' /\ Abstract!Next
  <1> DEFINE st == context[th].stack
             old == context[th].deferQueue
             dq == Append(old, task)
  <1>1. /\ task \in fresh /\ fresh' = fresh \ {task} /\ st # <<>>
        /\ UNCHANGED <<m_queue, m_shutdownAction, todo, canceled, started>>
        /\ context' = [context EXCEPT ![th] = [stack |-> st, deferQueue |-> dq]]
    BY DEF DeferElsePost, IsCurrentQueue, InTask
  <1>2. task \notin Deferred
    BY <1>1 DEF Places, Abstract!OnePlace
  <1>3. /\ old \in Seq(Tasks) /\ st \in Seq(Tasks) /\ TasksOf(st) \subseteq Running
        /\ TasksOf(old) \subseteq Deferred
        /\ \A i, j \in DOMAIN st : st[i] = st[j] => i = j
        /\ \A i, j \in DOMAIN old : old[i] = old[j] => i = j
    BY OwnContext
  <1>4. Running # {}
    <2>1. Head(st) \in TasksOf(st)
      BY <1>1, <1>3, TasksOfTail
    <2> QED BY <1>3, <2>1
  <1>5. /\ dq \in Seq(Tasks) /\ TasksOf(dq) = TasksOf(old) \cup {task}
        /\ \A i, j \in DOMAIN dq : dq[i] = dq[j] => i = j
    <2> HIDE DEF old
    <2>1. /\ dq \in Seq(Tasks) /\ DOMAIN dq = 1..(Len(old) + 1) /\ Len(old) \in Nat
          /\ DOMAIN old = 1..Len(old)
          /\ \A i \in 1..Len(old) : dq[i] = old[i]
          /\ dq[Len(old) + 1] = task
      BY <1>3
    <2> HIDE DEF dq
    <2>2. TasksOf(dq) = TasksOf(old) \cup {task}
      BY <2>1 DEF TasksOf
    <2>3. \A i \in DOMAIN old : old[i] # task
      BY <1>2, <1>3 DEF TasksOf
    <2> QED BY <1>3, <2>1, <2>2, <2>3
  <1> HIDE DEF old, st, dq
  <1>6. /\ UniqueIn(stacks, Tasks)' /\ UniqueIn(deferQueues, Tasks)'
        /\ Running' = (Running \ TasksOf(context[th].stack)) \cup TasksOf(st)
        /\ Deferred' = (Deferred \ TasksOf(context[th].deferQueue)) \cup TasksOf(dq)
    <2>1. /\ \A x \in TasksOf(st) : x \in TasksOf(context[th].stack) \/ x \notin Running
          /\ \A x \in TasksOf(dq) : x \in TasksOf(context[th].deferQueue) \/ x \notin Deferred
      BY <1>2, <1>5 DEF old, st
    <2> QED BY <1>1, <1>3, <1>5, <2>1, ContextReplaced
  <1>7. Running' = Running /\ Deferred' = Deferred \cup {task}
    BY <1>3, <1>5, <1>6 DEF old, st
  <1>8. Doomed' = Doomed /\ started' \ Running' = started \ Running
    BY <1>1, <1>7 DEF Doomed
  <1>9. Abstract!Defer(task)
    BY <1>1, <1>4, <1>7, <1>8 DEF Abstract!Defer
  <1>10. Abstract!Next
    BY <1>9 DEF Abstract!Next
  <1>11. Running' \subseteq started' /\ todo' = todo
    BY <1>1, <1>7 DEF Places
  <1> QED BY <1>6, <1>10, <1>11, PlacesRun

(* A task returns once, and the next deferred task of its thread starts. *)
LEMMA ReturnsPlaces ==
  ASSUME ServiceOK, Places, NEW th \in Threads, TaskReturns(th)
  PROVE  Places' /\ Abstract!Next
  <1> DEFINE c == context[th]
             next == IF Len(c.stack) = 1 /\ c.deferQueue # <<>>
                     THEN <<Head(c.deferQueue)>> ELSE <<>>
             t == Head(c.stack)
             st == next \o Tail(c.stack)
             dq == IF next = <<>> THEN c.deferQueue ELSE Tail(c.deferQueue)
  <1>1. /\ context' = [context EXCEPT ![th] = [stack |-> st, deferQueue |-> dq]]
        /\ started' = started \cup TasksOf(next)
        /\ UNCHANGED <<m_queue, m_shutdownAction, todo, fresh, canceled>>
        /\ c.stack # <<>>
    BY DEF TaskReturns, InTask
  <1>2. /\ c.stack \in Seq(Tasks) /\ c.deferQueue \in Seq(Tasks)
        /\ TasksOf(c.stack) \subseteq Running /\ TasksOf(c.deferQueue) \subseteq Deferred
        /\ \A i, j \in DOMAIN c.stack : c.stack[i] = c.stack[j] => i = j
        /\ \A i, j \in DOMAIN c.deferQueue : c.deferQueue[i] = c.deferQueue[j] => i = j
    BY OwnContext
  <1>3. Running \subseteq Tasks /\ Deferred \subseteq Tasks /\ Running \subseteq started
        /\ Deferred \cap started = {}
    BY Spreads DEF Places, Abstract!OnePlace
  <1> DEFINE r == Tail(c.stack)
  <1>4. /\ r \in Seq(Tasks) /\ t \in TasksOf(c.stack)
        /\ TasksOf(r) = TasksOf(c.stack) \ {t}
        /\ \A i, j \in DOMAIN r : r[i] = r[j] => i = j
    <2> DEFINE s == c.stack
    <2>1. s \in Seq(Tasks) /\ s # <<>> /\ \A i, j \in DOMAIN s : s[i] = s[j] => i = j
      BY <1>1, <1>2
    <2> HIDE DEF s
    <2>2. TasksOf(s) = {Head(s)} \cup TasksOf(Tail(s)) /\ Tail(s) \in Seq(Tasks)
          /\ TasksOf(s) \subseteq Tasks
      BY <2>1, TasksOfTail DEF TasksOf
    <2>3. /\ \A i, j \in DOMAIN Tail(s) : Tail(s)[i] \in Tasks /\ Tail(s)[i] = Tail(s)[j] => i = j
          /\ \A x \in Tasks : x \in TasksOf(Tail(s)) <=> x \in TasksOf(s) /\ x # Head(s)
      BY <2>1, UniqueTail
    <2>4. \A i \in DOMAIN Tail(s) : Tail(s)[i] \in Tasks
      BY <2>2
    <2> QED BY <2>2, <2>3, <2>4 DEF s
  <1>5. /\ next \in Seq(Tasks) /\ dq \in Seq(Tasks)
        /\ TasksOf(next) \in {{}} \cup {{u} : u \in Deferred}
        /\ TasksOf(next) \subseteq TasksOf(c.deferQueue)
        /\ TasksOf(dq) = TasksOf(c.deferQueue) \ TasksOf(next)
        /\ \A i, j \in DOMAIN next : i = j
        /\ \A i, j \in DOMAIN dq : dq[i] = dq[j] => i = j
    <2>1. CASE next = <<>>
      <3>1. TasksOf(next) = {} /\ dq = c.deferQueue /\ \A i, j \in DOMAIN next : i = j
        BY <2>1 DEF TasksOf
      <3> QED BY <1>2, <2>1, <3>1
    <2>2. CASE next # <<>>
      <3> DEFINE s == c.deferQueue
      <3>1. /\ s \in Seq(Tasks) /\ s # <<>> /\ next = <<Head(s)>> /\ dq = Tail(s)
            /\ \A i, j \in DOMAIN s : s[i] = s[j] => i = j
        BY <1>2, <2>2
      <3> HIDE DEF s, next, dq
      <3>2. TasksOf(s) = {Head(s)} \cup TasksOf(Tail(s)) /\ Tail(s) \in Seq(Tasks)
            /\ TasksOf(s) \subseteq Tasks /\ Head(s) \in Tasks
        <4>1. TasksOf(s) = {Head(s)} \cup TasksOf(Tail(s))
          BY <3>1, TasksOfTail
        <4>2. TasksOf(s) \subseteq Tasks
          BY <3>1 DEF TasksOf
        <4> QED BY <3>1, <4>1, <4>2
      <3>3. /\ \A i, j \in DOMAIN Tail(s) : Tail(s)[i] \in Tasks /\ Tail(s)[i] = Tail(s)[j] => i = j
            /\ \A x \in Tasks : x \in TasksOf(Tail(s)) <=> x \in TasksOf(s) /\ x # Head(s)
        BY <3>1, UniqueTail
      <3>4. \A i \in DOMAIN Tail(s) : Tail(s)[i] \in Tasks
        BY <3>2
      <3>5. next \in Seq(Tasks) /\ TasksOf(next) = {Head(s)} /\ \A i, j \in DOMAIN next : i = j
        BY <3>1, <3>2, OneTask
      <3>6. TasksOf(dq) = TasksOf(s) \ TasksOf(next)
        BY <3>1, <3>2, <3>3, <3>5
      <3>7. Head(s) \in Deferred /\ TasksOf(next) \subseteq TasksOf(s)
        BY <1>2, <3>2, <3>5 DEF s
      <3> QED BY <3>1, <3>2, <3>3, <3>4, <3>5, <3>6, <3>7 DEF s
    <2> QED BY <2>1, <2>2
  <1> HIDE DEF next, t, dq, r
  <1>6. /\ st \in Seq(Tasks) /\ TasksOf(st) = TasksOf(next) \cup TasksOf(r)
        /\ \A i, j \in DOMAIN st : st[i] = st[j] => i = j
    <2> DEFINE x == next \o r
    <2>1. x \in Seq(Tasks) /\ TasksOf(x) = TasksOf(next) \cup TasksOf(r)
      BY <1>4, <1>5, ConcatTasks
    <2>2. \A i, j \in DOMAIN x : x[i] \in Tasks /\ x[i] = x[j] => i = j
      <3>1. \A y \in Tasks : ~(y \in TasksOf(next) /\ y \in TasksOf(r))
        BY <1>2, <1>3, <1>4, <1>5
      <3>2. \A i, j \in DOMAIN next : next[i] \in Tasks /\ next[i] = next[j] => i = j
        BY <1>5
      <3>3. \A i, j \in DOMAIN r : r[i] \in Tasks /\ r[i] = r[j] => i = j
        BY <1>4
      <3> QED BY <1>4, <1>5, <3>1, <3>2, <3>3, UniqueConcat
    <2> HIDE DEF x
    <2>3. \A i, j \in DOMAIN x : x[i] = x[j] => i = j
      BY <2>1, <2>2
    <2> QED BY <2>1, <2>3 DEF x, r
  <1> HIDE DEF st
  <1>7. /\ UniqueIn(stacks, Tasks)' /\ UniqueIn(deferQueues, Tasks)'
        /\ Running' = (Running \ TasksOf(c.stack)) \cup TasksOf(st)
        /\ Deferred' = (Deferred \ TasksOf(c.deferQueue)) \cup TasksOf(dq)
    <2>1. /\ \A x \in TasksOf(st) : x \in TasksOf(c.stack) \/ x \notin Running
          /\ \A x \in TasksOf(dq) : x \in TasksOf(c.deferQueue) \/ x \notin Deferred
      BY <1>2, <1>3, <1>4, <1>5, <1>6
    <2> QED BY <1>1, <1>5, <1>6, <2>1, ContextReplaced
  <1>8. Running' = (Running \ {t}) \cup TasksOf(next) /\ Deferred' = Deferred \ TasksOf(next)
    BY <1>2, <1>3, <1>4, <1>5, <1>6, <1>7
  <1>9. t \in Running /\ t \in Tasks /\ t \notin TasksOf(next)
    BY <1>2, <1>3, <1>4, <1>5
  <1>10. started' \ Running' = (started \ Running) \cup {t}
    BY <1>1, <1>2, <1>3, <1>5, <1>8, <1>9
  <1>11. Doomed' = Doomed
    BY <1>1 DEF Doomed
  <1>12. Abstract!Finish(t)
    BY <1>1, <1>5, <1>8, <1>9, <1>10, <1>11 DEF Abstract!Finish
  <1>13. Abstract!Next
    BY <1>9, <1>12 DEF Abstract!Next
  <1>14. Running' \subseteq started' /\ todo' = todo
    BY <1>1, <1>3, <1>8
  <1> QED BY <1>7, <1>13, <1>14, PlacesRun

(* OnCancel of a task is called once. *)
LEMMA CancelPlaces ==
  ASSUME ServiceOK, Places, NEW th \in Threads, RunCancelTask(th)
  PROVE  Places' /\ Abstract!Next
  <1> DEFINE s == todo[th]
             t == Head(s).arg
             r == Tail(s)
  <1>1. /\ s \in Seq(Calls) /\ s # <<>> /\ r \in Seq(Calls) /\ Head(s) \in Calls
        /\ Head(s).call = "CancelTask" /\ todo' = [todo EXCEPT ![th] = r]
        /\ canceled' = canceled \cup {t}
        /\ UNCHANGED <<m_queue, m_shutdownAction, context, fresh, started>>
    BY DEF RunCancelTask, NextCall, Returned, ServiceOK, ServiceTypeOK
  <1>2. t \in Tasks /\ Head(s) = CancelTask(t) /\ Head(s) \in CancelCalls
    BY <1>1, CancelCallsDistinct
  <1>3. \A i, j \in DOMAIN s : s[i] \in CancelCalls /\ s[i] = s[j] => i = j
    BY DEF Places, UniqueIn
  <1>4. TasksOf(s) = {Head(s)} \cup TasksOf(r)
    BY <1>1, TasksOfTail
  <1> HIDE DEF s
  <1>5. /\ \A i, j \in DOMAIN r : r[i] \in CancelCalls /\ r[i] = r[j] => i = j
        /\ \A x \in CancelCalls : x \in TasksOf(r) <=> x \in TasksOf(s) /\ x # Head(s)
    BY <1>1, <1>3, UniqueTail
  <1> HIDE DEF r, t
  <1>6. /\ UniqueIn(todo, CancelCalls)'
        /\ \A u \in Tasks : u \in Doomed' <=> \/ u \in Doomed /\ CancelTask(u) \notin TasksOf(todo[th])
                                              \/ CancelTask(u) \in TasksOf(r)
    BY <1>1, <1>4, <1>5, TodoReplaced DEF Places, s
  <1>7. t \in Doomed
    BY <1>2, <1>4 DEF Doomed, s
  <1>8. Doomed' = Doomed \ {t}
    <2>1. \A u \in Tasks : CancelTask(u) \in TasksOf(s) => u \in Doomed
      BY DEF Doomed, s
    <2>2. Doomed \subseteq Tasks /\ Doomed' \subseteq Tasks
      BY DEF Doomed
    <2>3. \A u \in Tasks : /\ CancelTask(u) \in CancelCalls
                           /\ CancelTask(u) = Head(s) <=> u = t
      BY <1>2, CancelCallsDistinct
    <2>4. \A u \in Tasks : u \in Doomed' <=> u \in Doomed /\ u # t
      BY <1>2, <1>4, <1>5, <1>6, <2>1, <2>3 DEF s
    <2> QED BY <2>2, <2>4
  <1>9. Running' = Running /\ Deferred' = Deferred
    BY <1>1 DEF Running, Deferred
  <1>10. Abstract!Cancel(t)
    BY <1>1, <1>7, <1>8, <1>9 DEF Abstract!Cancel
  <1>11. Abstract!Next
    BY <1>2, <1>10 DEF Abstract!Next
  <1> QED BY <1>1, <1>6, <1>11, PlacesMoved

(* Every step of the service is a step of the abstract queue, or none. *)
LEMMA ServiceStepPlaces ==
  ASSUME ServiceOK, Places, NEW th \in Threads, ServiceStep(th)
  PROVE  Places' /\ [Abstract!Next]_(Abstract!vars)
  <1>1. InUserCode(th) => todo[th] = <<>>
    BY DEF InUserCode
  <1>2. ASSUME NEW task \in Tasks, Post(th, task)
        PROVE  Places' /\ Abstract!Next
    BY <1>1, <1>2, EnqueuePlaces DEF Post
  <1>3. ASSUME NEW task \in Tasks, InvokeElsePost(th, task)
        PROVE  Places' /\ Abstract!Next
    <2>1. CASE HasThreadAccess(th)
      BY <1>3, <2>1, InvokePlaces
    <2>2. CASE ~HasThreadAccess(th)
      BY <1>1, <1>3, <2>2, EnqueuePlaces DEF InvokeElsePost
    <2> QED BY <2>1, <2>2
  <1>4. ASSUME NEW task \in Tasks, DeferElsePost(th, task)
        PROVE  Places' /\ Abstract!Next
    <2>1. CASE IsCurrentQueue(th)
      BY <1>4, <2>1, DeferPlaces
    <2>2. CASE ~IsCurrentQueue(th)
      BY <1>1, <1>4, <2>2, EnqueuePlaces DEF DeferElsePost
    <2> QED BY <2>1, <2>2
  <1>5. CASE Suspend(th)
    BY <1>5, StutterPlaces DEF Suspend, Kept
  <1>6. CASE Resume(th)
    <2> DEFINE posts == [i \in 1..Size(m_queue) |-> SchedulerPost]
               s == IF m_suspendCounter = 1 THEN posts ELSE <<>>
    <2>1. Size(m_queue) \in Nat
      BY DEF Size, ReadSize, ServiceOK, QueueOK, TaskQueueType
    <2>2. posts \in Seq(Calls) /\ TasksOf(posts) \subseteq {SchedulerPost}
      BY <2>1, PostCallsType DEF TasksOf
    <2>3. s \in Seq(Calls) /\ TasksOf(s) \cap CancelCalls = {}
      <3> HIDE DEF posts
      <3>1. <<>> \in Seq(Calls) /\ TasksOf(<<>>) = {}
        BY DEF TasksOf
      <3> QED BY <2>2, <3>1, CancelCallsDistinct
    <2>4. todo' = [todo EXCEPT ![th] = s] /\ Kept /\ todo[th] = <<>>
      BY <1>1, <1>6 DEF Resume, Kept
    <2> HIDE DEF s
    <2> QED BY <2>3, <2>4, IdlePlaces
  <1>7. ASSUME NEW action \in PendingTaskAction, Shutdown(th, action)
        PROVE  Places' /\ Abstract!Next
    <2>1. ShutdownThen(th, action, <<>>) /\ <<>> \in Seq(Calls)
          /\ TasksOf(<<>>) \cap CancelCalls = {}
      BY <1>7 DEF Shutdown, TasksOf
    <2> QED BY <1>1, <1>7, <2>1, ShutdownPlaces DEF Shutdown
  <1>8. CASE AwaitTermination(th)
    <2>1. /\ <<SchedulerAwait>> \in Seq(Calls) /\ "Complete" \in PendingTaskAction
          /\ TasksOf(<<SchedulerAwait>>) \cap CancelCalls = {}
      BY CallTypes, OneTask, CancelCallsDistinct DEF PendingTaskAction
    <2>2. ShutdownThen(th, "Complete", <<SchedulerAwait>>) /\ InUserCode(th)
          /\ UNCHANGED <<context, fresh, started, canceled>>
      BY <1>8 DEF AwaitTermination
    <2> QED BY <1>1, <2>1, <2>2, ShutdownPlaces
  <1>9. CASE Release(th)
    <2>1. PICK last : DestroyIf(last, th)
      BY <1>9 DEF Release
    <2> QED BY <1>1, <1>9, <2>1, DestroyPlaces DEF Release
  <1>10. CASE RunCancelTask(th)
    BY <1>10, CancelPlaces
  <1>11. CASE TaskReturns(th)
    BY <1>11, ReturnsPlaces
  <1> QED BY <1>2, <1>3, <1>4, <1>5, <1>6, <1>7, <1>8, <1>9, <1>10, <1>11 DEF ServiceStep

(* A new queue is a new abstract queue. *)
LEMMA PlacesInit ==
  ASSUME ServiceInit
  PROVE  Abstract!Init /\ Places
  <1>1. Running = {} /\ Deferred = {} /\ Doomed = {}
    BY DEF ServiceInit, Running, Deferred, Doomed, TasksOf, NoContext
  <1>2. Contents(m_queue) = <<>>
    BY EmptyQueueOK DEF ServiceInit
  <1>3. Abstract!Init
    BY <1>1, <1>2 DEF ServiceInit, Abstract!Init
  <1>4. Abstract!OnePlace
    BY <1>3, OnePlaceInit
  <1>5. UniqueIn(stacks, Tasks) /\ UniqueIn(deferQueues, Tasks) /\ UniqueIn(todo, CancelCalls)
    BY DEF ServiceInit, UniqueIn, stacks, deferQueues, NoContext
  <1> QED BY <1>1, <1>3, <1>4, <1>5 DEF Places
=============================================================================
