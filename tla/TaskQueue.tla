------------------------------ MODULE TaskQueue ------------------------------
(***************************************************************************)
(* The two-buffer queue of dispatch tasks (taskQueue.h, taskQueue.cpp).    *)
(* Producers append to m_writeBuffer; consumers advance m_index over the   *)
(* read buffer m_buffer, and the two vectors are swapped when the read     *)
(* side runs dry.  All operations run under the m_mutex of the owning      *)
(* QueueService, so they are pure functions of the queue's value.          *)
(*                                                                         *)
(* m_strongOwnerPtr is the reference a non-empty queue holds on its owner: *)
(* it is a Boolean here, because the owner is always the same object.      *)
(***************************************************************************)
EXTENDS Naturals, Sequences

CONSTANTS Tasks,   \* the DispatchTask objects
          NoTask   \* the empty DispatchTask a move leaves behind

ASSUME NoTaskAssumption == NoTask \notin Tasks

TaskQueueType ==
  [m_writeBuffer    : Seq(Tasks),
   m_buffer         : Seq(Tasks \cup {NoTask}),
   m_index          : Nat,
   m_strongOwnerPtr : BOOLEAN]

EmptyTaskQueue ==
  [m_writeBuffer |-> <<>>, m_buffer |-> <<>>, m_index |-> 0,
   m_strongOwnerPtr |-> FALSE]
-----------------------------------------------------------------------------
(* TaskReadBuffer *)

ReadIsEmpty(q) == q.m_index = Len(q.m_buffer)

ReadSize(q) == Len(q.m_buffer) - q.m_index

(* Mutant: the vectors change places with the items already read. *)
SwapWholeBuffer(q) ==
  [m_writeBuffer    |-> q.m_buffer,
   m_buffer         |-> q.m_writeBuffer,
   m_index          |-> 0,
   m_strongOwnerPtr |-> q.m_strongOwnerPtr]

(* The items already read are erased before the vectors change places, so  *)
(* the unread rest of the read buffer becomes the write buffer.            *)
SwapBuffer(q) ==
  [m_writeBuffer    |-> SubSeq(q.m_buffer, q.m_index + 1, Len(q.m_buffer)),
   m_buffer         |-> q.m_writeBuffer,
   m_index          |-> 0,
   m_strongOwnerPtr |-> q.m_strongOwnerPtr]

(* TryDequeue where m_index is inside the buffer: the item is moved out. *)
ReadTryDequeue(q) ==
  [m_writeBuffer    |-> q.m_writeBuffer,
   m_buffer         |-> [q.m_buffer EXCEPT ![q.m_index + 1] = NoTask],
   m_index          |-> q.m_index + 1,
   m_strongOwnerPtr |-> q.m_strongOwnerPtr]
-----------------------------------------------------------------------------
(* TaskQueue *)

IsEmpty(q) == ReadIsEmpty(q) /\ q.m_writeBuffer = <<>>

Size(q) == ReadSize(q) + Len(q.m_writeBuffer)

Enqueue(q, task) ==
  [m_writeBuffer    |-> Append(q.m_writeBuffer, task),
   m_buffer         |-> q.m_buffer,
   m_index          |-> q.m_index,
   m_strongOwnerPtr |-> IF IsEmpty(q) THEN TRUE ELSE q.m_strongOwnerPtr]

(* TryDequeue finds a task iff the queue is not empty; the task and the    *)
(* queue without it.  The owner is released with the last task.            *)
BeforeRead(q) ==
  IF ReadIsEmpty(q) /\ q.m_writeBuffer # <<>> THEN SwapBuffer(q) ELSE q

DequeuedTask(q) == BeforeRead(q).m_buffer[BeforeRead(q).m_index + 1]

(* Mutant: a dequeue that never gives the owner up. *)
AfterDequeueKeepingOwner(q) == ReadTryDequeue(BeforeRead(q))

AfterDequeue(q) ==
  LET r == ReadTryDequeue(BeforeRead(q))
  IN [m_writeBuffer    |-> r.m_writeBuffer,
      m_buffer         |-> r.m_buffer,
      m_index          |-> r.m_index,
      m_strongOwnerPtr |-> IF IsEmpty(r) THEN FALSE ELSE r.m_strongOwnerPtr]

(* Every task still in the queue, read side first.  The read buffer is     *)
(* swapped with an empty vector unless it holds nothing unread.            *)
AllTasks(q) ==
  SubSeq(q.m_buffer, q.m_index + 1, Len(q.m_buffer)) \o q.m_writeBuffer

AfterDequeueAll(q) ==
  [m_writeBuffer    |-> <<>>,
   m_buffer         |-> IF ReadIsEmpty(q) THEN q.m_buffer ELSE <<>>,
   m_index          |-> IF ReadIsEmpty(q) THEN q.m_index ELSE 0,
   m_strongOwnerPtr |-> IF IsEmpty(q) THEN q.m_strongOwnerPtr ELSE FALSE]
-----------------------------------------------------------------------------
(* What the two buffers stand for: the tasks in the order they will come   *)
(* out.  It is the abstraction the properties speak about, not code.       *)
Contents(q) ==
  SubSeq(q.m_buffer, q.m_index + 1, Len(q.m_buffer)) \o q.m_writeBuffer

=============================================================================
