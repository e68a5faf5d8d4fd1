# TLA+ models of the Mso liblets

This directory holds TLA+ specifications of the concurrent core of the Mso
liblets (`src/libs`), the TLC configurations that check them on small instances
and TLAPS proofs of the main results. Module and definition names follow the
C++ code; `PROJECT.json` maps every definition to the lines it models.

## 1. Inventory

The repository is a set of small C++ libraries. The ones with behaviour of
their own are below; the rest (crash, tags, GUIDs, platform adapters, `span`,
`motifCpp`) carry no state worth checking and are listed in `PROJECT.json`.

| Component | State | Operations | Talks to |
|---|---|---|---|
| `TaskQueue` (dispatchQueue/taskQueue) | reader and writer buffers, read index, strong pointer to the owner while not empty | `Enqueue`, `TryDequeue`, `DequeueAll`, `IsEmpty`, `Size` | owned by `QueueService` |
| `QueueService` | task queue, shutdown action, suspend counter, queue-local values, batches; per thread a `TaskContext` with the deferred tasks | `Post`, `InvokeElsePost`, `DeferElsePost`, `Suspend`, `Resume`, `Shutdown`, `AwaitTermination`, batching, local values | calls the scheduler outside `m_mutex`; is called back through `IDispatchQueueService` |
| `ThreadPoolSchedulerLinux` | 64 thread slots, thread and busy counts, shutdown flag, condition variable | `Post`, `Shutdown`, `AwaitTermination`, `RunInThread` | holds a weak pointer to the queue, dequeues and invokes |
| `ThreadPoolSchedulerWin` | the count of submitted work items, a Win32 work object | `Post`, `WorkCallback`, `AwaitTermination` | Win32 thread pool |
| `LooperScheduler` | one thread, a manual-reset wake-up event, a shutdown flag | `RunLoop`, `Post`, `Shutdown`, `AwaitTermination` | `ManualResetEvent` |
| `UISchedulerWinRT` | handler and task counts, self reference, termination event | `Post`, `RunUITask`, `Shutdown`, `AwaitTermination` | the system's UI dispatcher |
| `FutureImpl` (future) | one packed word: state and continuation list; value, error, task | `AddContinuation`, `TryPostInternal`, `Invoke`, `TrySetSuccess`, `TrySetError`, ... | executors of the dispatch queue; other futures |
| `WhenAll`, `WhenAny`, `PromiseGroup` | completion count, results | combine futures | `FutureImpl` |
| `CancellationToken` (future) | a `Promise<void>` and the shared future of it | `Cancel`, `Abandon`, `WhenCanceled`, `WhenChanged` | `FutureImpl` |
| `EventWaitHandle` | flag, condition variable | `Set`, `Reset`, `Wait`, `WaitFor` | used by the looper, `FutureWait`, `ReleaseAndWait` |
| `ActiveObject` | reference counts, initialised flag | `Make`, `Initialize`, the deleter, `ReleaseAndWait` | a dispatch queue |
| Reference counting (object) | strong and weak counts, `LazyInit` state, swarm list | `AddRef`, `Release`, weak-to-strong, `AddSwarmMember` | everything |
| Smart pointers | the pointer | `CntPtr`, `WeakPtr`: assignment, `Attach`, `Detach`, `swap`; `THolder`: `Clear`, `Place`, `TransferFrom`, `Swap` | destructors of user classes |
| `ErrorCode`, `Maybe` | the shared state of an error with `m_isHandled`; value or error | copy, move, `GetError`, `TakeError`, `Throw` | `OnUnhandledError` |

What is hard in it:

* the queue's critical section ends before the scheduler is called, so the
  scheduler learns of a task late, out of order with other calls, or after a
  shutdown;
* a pool thread that finds the queue empty goes to sleep in two steps, with
  posts in between (lost wake-ups);
* the queue is owned by its users, by the threads that run its tasks and, while
  it holds tasks, by itself; the last owner destroys it, on whatever thread;
* a future's state and its list of continuations share one atomic word;
  completing, adding a continuation and posting race with each other;
* `GetStrongPtr` races with the last `Release`; the cascade of destructors that
  follows runs in steps and may come back to the pointer it started from;
* members join a swarm and instances are published without a lock;
* an active object is released on one thread and finalised on another, on
  the first one after all when the queue rejects the task, or never when the queue is shut
  down after it took the task;
* a dispatcher may run, reorder or drop the handlers it was given;
* shutdown, suspension and cancellation at any moment.

`PROJECT.json` lists the individual hazards with their lines and the properties
that address them.

What correct means, per component: *dispatch queue* - every task that was
handed in is invoked or canceled, exactly once; tasks start in posting order;
never more at a time than the concurrency allowed; a task that can run does
run; the service dies exactly when nobody needs it. *Future* - completed once,
each continuation started exactly once and only after its parent, no task both
invoked and canceled. *Event* - a manual-reset event releases everybody, an
auto-reset event one waiter per `Set`. *Reference counts* - an object is
destroyed once, when the last strong reference goes, its memory when the last
weak one does. *Active object* - initialised before use (with the exceptions that
section 4 names), finalised once, on its queue.

## 2. Plan

Done, in this order:

1. `TaskQueue`, `QueueService`, `ThreadPoolLinux` with the abstract
   `DispatchQueue`; proofs of the pool's invariants.
2. `Future`: the packed state word, continuations, callbacks and executors,
   shared and unique futures, `WhenAll`/`WhenAny`, awaited futures, cancellation
   tokens; the abstract `FutureGraph`; types and transitions proved.
3. `LooperScheduler`, `ThreadPoolWin` and `UISchedulerWinRT` on top of
   `QueueService`, with the manual-reset event, against the same `DispatchQueue`.
4. `RefCounting`, `Swarm`, `LazyInit`, `ErrorCode`, `Holder`, composed in
   `ObjectLifetime`.
5. `ActiveObject` over the abstract `DispatchQueue`.
6. Proofs: the invariants of `Schedulers` and `ActiveObject`, the refinement of
   `DispatchQueue` on all four schedulers, `RunsOnce` of `Future`, and for graphs
   without `WhenAll` and `WhenAny` its results, its lists of continuations, and the
   refinement of `FutureGraph`.
7. Proofs about `ObjectLifetime`: every property of `objects`, for any number of
   threads, addresses and variables.

## 3. Modules

`TaskQueue` - pure operators over a record with the fields of the class. The
two buffers and the read index are kept, as the order of tasks depends on when
they are swapped. A consumed element of the reader is `NoTask`, as the moved-from
entry is in the code.

`QueueService` - the service without a scheduler. A method's `m_mutex` section is
one step; the calls it makes after unlocking are listed in `todo[th]` and carried
out one by one, so the steps of other threads come in between. A pool thread has
a `context`: the tasks being invoked (innermost first) and the deferred ones.
`clientRefs`, `poolRefs` and the queue's own pointer are the strong references to
the service; whoever drops the last one runs `~QueueService`, which awaits
termination. `fresh`, `started`, `canceled` and `awaited` record history.

`ThreadPoolLinux` - the scheduler. `RunInThread` is split where a lock is taken or
given up (`pc`). `m_threadMutex` has an owner because a worker calls the queue
while it holds the lock. `SpuriousWakeUp` models what a condition variable may do.

`DispatchQueue` - the abstract specification: tasks are pending in order, deferred,
running, finished, about to be canceled or canceled; nothing says how.
`QueueService!Abstract` is the refinement mapping.

`Future` - `FutureImpl` and the callbacks the library itself installs. The atomic
word is `state` and `continuation`; `m_link` is the union of next continuation and
parent, `m_error` the error (which error it is is named by the future it came from).
A method is a call record in `todo[th]`; one step performs the call at the head
up to its next atomic operation and puts the calls that follow in front of what
the callers still have to do, so `todo[th]` is the thread's stack. `cur` in a call is
`CurrentFutureImpl` of the thread (what `IsSynchronousCall` compares), `strict` the
`crashIfFailed` of the caller. A failed `VerifyElseCrash` sets `crashed` and ends the
behaviour. `Kind` stands for the `FutureTraits` and the task a future is made with:
promise, promise group, `Then` with a value or a `Maybe`, `Catch`, `Share`, the copy
between a shared and a unique future, `FutureWait`, the completion that a callback
returning a future makes, `WhenAll` and `WhenAny`. `Inputs` is the shape of the graph
an instance explores; when and by whom an edge is added (`links`) is part of the
behaviour. An executor invokes a callback inline, keeps it (`queued`) or cancels it.
A `CancellationTokenSource` is a void promise ("source") and its token the shared
future of it ("token"), made together; `Cancel` sets the value, `Abandon` and the drop
of the last source an error.

`FutureGraph` - the abstract specification of futures: each one waits, is active and
gets one final result, after its parents and in agreement with theirs.
`Future!Graph` is the refinement mapping.

`Scheduler`, `LooperScheduler`, `ThreadPoolWin`, `UISchedulerWinRT`, `Schedulers` - the
same `QueueService` on the other three schedulers. `Scheduler` has what they share: the
kind chosen when the queue is made, `m_isShutdown`, the callbacks the system was given
(`submitted`), the event and `pc`. `LooperScheduler` splits `RunLoop` at the calls of the
queue and of the event, so `Set` comes between its `Wait` and its `Reset`; a looper thread
that drops the last reference detaches itself. `ThreadPoolWin` has the compare-exchange
loop on `m_usedThreads` and `WorkCallback`, which gives the count back before it returns.
`UISchedulerWinRT` has the handler count, the task count, and `CleanupContext`, which shuts
the queue down when the dispatcher dropped a handler. A dispatcher (external) runs
or drops handlers in any order. `Schedulers` is the composition and has the properties.

`RefCounting` - memory, `m_refCount`, `m_weakRefCount`, the `CntPtr` variables of the
threads, one pointer field per object, `WeakPtr`s. A base class template is a `Class`
record: its count policy and the traits the behaviour depends on. `Make` allocates,
constructs (the constructor may throw, take a pointer, or keep a weak pointer to
itself) and returns the pointer; the last `Release` sets off `Delete`, the destruction
of the field, and the release of the weak count, each an entry of `todo[th]` and a step
of its own. Freed addresses are handed out again at once, so a late access
hits a new object. `Swarm` adds members: the lock-free push on `m_headMember`,
members that throw, links within and between swarms, and `FixedSwarm`, whose members
live in its storage. `LazyInit` adds objects published with a compare-exchange (`LazyInit`,
the string of an error, the free-threaded marshaler). `ErrorCode` adds `ErrorCodeState` with
`m_isHandled` and a `Maybe` per thread. `Holder` adds a `THolder` and a raw pointer per
thread, with destructors that call `Clear` of the holder being cleared.
`ObjectLifetime` composes them; `Programs` chooses, per behaviour, the classes
that exist and the memory.

`ActiveObject` - objects whose `Initialize`, `Finalize` and callbacks run in a serial
queue. The queue is the abstract `DispatchQueue` (`Queue!...`), which the other modules
show to be implemented on every scheduler. `stack[th]` holds the frames of a thread: the
lambdas of the make policy, of the deleter and of the `InvokeInQueue` methods, the
constructor of an object, and user code inside them, which may make, call, copy and release
objects, give a pointer to any other thread, shut the queue down, or wait in
`ReleaseAndWait`. `Make` calls the constructor; `ConstructorReturns` is the rest of the make
policy. The count of an object is the number of its holders, as
`StrongCountExact` of `ObjectLifetime` allows. Two variables are history: `outside` has the
objects a client made, `early` the callbacks that were handed over while the constructor ran,
or by the queue's thread on an object of `outside`.

`QueueServiceProofs` (with the lemmas on `TaskQueue`), `ThreadPoolLinuxProofs`,
`SchedulersProofs`, `FutureProofs`, `FutureCrashProofs`, `ActiveObjectProofs` (with
the theorem on `DispatchQueue`),
`ObjectLifetimeInvariant` (the invariant, its operators, and the steps that move references or
make objects) and `ObjectLifetimeProofs` (the steps that destroy, and the
theorems) - the proofs. `MCThreadPoolLinux`, `MCFuture`, `MCSchedulers`, `MCObjectLifetime`,
`MCActiveObject` - the instances for TLC. Definitions commented as mutants change one
definition the way a slip in the code would; `PROJECT.json` says which property notices.

## 4. Runs

| Run | Checks | Instance |
|---|---|---|
| `linux_pool` | types, the concurrency limit, the busy count, the owner reference, no lost wake-up, that the queue implements `DispatchQueue`, and that every task is handled | 1 client, 2 tasks, 2 thread slots, `maxThreads` 0 and 1, with suspension (105,784 states) |
| `linux_await` | violation: `AwaitTermination` returns with accepted tasks still queued | 1 client, 2 tasks |
| `linux_release` | violation: a worker that drops the last reference joins itself, or relocks its mutex | 1 client, 2 tasks |
| `future_share` | types, no crash, no continuation lost or run twice, errors kept and forwarded, the documented transitions, `FutureGraph` | a promise group, a future of it continued and shared, a `Maybe` callback behind a copy: 6 futures, 2 users, 1 executor (74,014 states) |
| `future_await` | no crash, every continuation completes | a posted callback that may return a promise's future, a `Catch` and a `FutureWait` behind it: 5 futures, 2 users, 1 executor |
| `future_when` | no crash, `FutureGraph` | `WhenAny` over a token and a `WhenAll` of a promise and the token's callback: 6 futures, 2 users, one with the source (214,364 states) |
| `future_void_race` | violation: `Cancel` against `Abandon` of one source ends the process | 1 source with its token, 2 users |
| `future_moved_error` | violation: a failed future has no error any more | 1 promise in a `WhenAll`, 2 users |
| `future_lost_action` | violation: a continuation of a token is never run | 1 source with its token, a callback and a `WhenAny` of the token, 2 users |
| `objects` | types, exact strong counts, no dangling pointer, everything destroyed once and nothing leaked, unhandled errors reported, an instance published once | 2 threads, 14 programs of 2 or 3 objects, 3 `CntPtr` variables (671,416 states) |
| `schedulers` | types, the concurrency limit, no lost wake-up, the handler counts, `DispatchQueue`; pending tasks complete before `AwaitTermination` returns (Windows pool), every task is handled, `AwaitTermination` returns | 1 client, 2 tasks, the three schedulers, at most 2 threads (33,044 states) |
| `active_object` | types, `Initialize` before callbacks that are not `early`, `Finalize` in order, destroyed once; every object that is let go is destroyed and `ReleaseAndWait` returns, unless a shut-down queue keeps the task this takes | 1 client, the queue's thread, 1 object, 1 callback of each kind (639,938 states) |

Bounds of the pool. Two threads are enough for one to be busy while the other falls asleep; two
tasks for a buffer swap between them, and for a task that posts or defers the other; the client for
a call that races the workers and the calls of their tasks. A task that is posted while the read
buffer still holds unread ones takes a third: that the buffers then stay as they are and the order
is kept rests on `LinuxImplements` (lemma `BeforeReadOK`), not on the run. More clients, tasks and threads are
covered by the theorems, which state every safety property of the run for any number of them.
`maxThreads` 0 gives the default (all slots), 1 a serial queue. `SuspendBound` bounds
`m_suspendCounter` in `Suspend` only. Everything else is finite by itself, as each
task is handed in once. Deadlock is not checked: a queue everybody has left, or
one whose clients do not call it any more, stops.

Bounds of the futures. Two users and an executor let a completion, an
`AddContinuation` and a callback overlap, and let two completions of one future race.
The graphs hold every kind between them, with a list of two continuations, a
chain of four, and a combinator whose parent is a combinator. Users are
interchangeable (`Symmetry`, used in the runs without liveness). `WaitCyclesRunOut`
says whether the ten seconds `TrySetInvoking` waits for a posting thread can pass:
TRUE in `future_share`, where every safety property must survive it; FALSE in
`future_await`, as a callback given up after ten seconds never completes its future.
A graph is finite, so deadlock is not checked: at the end everybody is done.

Bounds of the objects. Every class template has a program of its own, as behaviours of
different classes do not meet except where the code makes them meet: swarms with their
members, a swarm linked to an object outside, wrappers of functions. Two objects let one own
the other and an address be reused; three let a swarm have two members, a lazily created instance
lose the race, and a holder be refilled by a destructor while it is cleared. Two threads, one with
two variables, are enough for `GetStrongPtr` against the last `Release` with a second weak
pointer alive. Deadlock is checked here: a thread in user code can always do something.

Bounds of the schedulers and active objects. One client and tasks that post and defer
give the races between a `Post`, a callback that leaves its loop and `Shutdown`; a
second thread matters only to the Windows pool. `CallBound` bounds the callbacks of each kind per
object and the other tasks. Both systems stop when everybody has let go, so deadlock is not
checked; the liveness properties say that nobody is left waiting.

Fairness (`ThreadPoolLinux!Fairness`). A thread with a call to finish, a task to
return from or a step of its loop to make eventually makes it: the operating system
schedules runnable threads and user tasks terminate. A waiting thread has no
enabled step except the spurious wake-up, which is not assumed to happen, and no
user is assumed to call anything.

Fairness of the futures (`Future!Fairness`). A thread goes on with the calls it is in,
and an executor eventually runs or cancels a callback it holds. No user is assumed to
complete, continue or drop anything: `EveryContinuationCompletes` starts from a parent
that is done.

Fairness of the schedulers (`Schedulers!Fairness`). A thread goes on with the calls it is in
and with its loop, and the system runs or drops what was submitted (weak fairness). A
task may call the queue as often as it likes, which disables and enables its return;
that it returns after finitely many calls is strong fairness of `TaskReturns`.
`AwaitReturns` excludes what the code cannot avoid: a pool or dispatcher thread that
destroys the queue itself waits for itself (`WaitsForItself`).

Fairness of the active objects (`ActiveObject!Fairness`). Threads go on with their frames, and a
constructor or a callback returns after finitely many calls (strong fairness). The queue
starts a task when it has one and is free, but only as long as nobody shut it down: that is
what `EveryTaskHandled` promises of each scheduler, and all it promises. It also excepts a
suspended queue; `ActiveObject` does not suspend its queue, so both liveness properties are about
queues that are not left suspended. Nobody is assumed to release anything; the properties
start from an object that is not held, or from a thread that waits. They have two exceptions. The queue's own
thread may wait in `ReleaseAndWait`, which the comment on that function warns of. And a
`Finalize` task that was accepted before `Shutdown(Complete)`, or an accepted callback with a strong
pointer, may stay in the queue for ever (`Stranded`), neither invoked nor canceled: on the Linux pool,
the looper and the UI scheduler nobody looks at the queue again, as `linux_await` shows. The
object is then never destroyed, and a `ReleaseAndWait` on it never returns. A task that the queue rejects or
cancels is no exception: its `OnCancel` destroys the object.

What comes before `Initialize`. The make policy hands `Initialize` over with `InvokeElsePost`, "to make
sure that it is called before any object's method" (`activeObject.h:184`), after the
constructor. That gives an order to most calls, not to all. A constructor may call
`InvokeInQueue` on its object, or pass the object to another thread that does; that callback
is ahead of `Initialize`. And a client's object waits for its `Initialize` in the queue's order, while a
task that runs in the queue, and finds the pointer in memory it shares with the client, calls
`InvokeElsePost` from inside: the callback is invoked at once (`queueService.cpp:83-88`) and nobody asks
`m_isInitialized`. `InitializedBeforeUse` leaves out these two kinds of calls, no other.

A canceled `Finalize`. `OnCancel` of the task asserts that it never happens
(`AssertSz(false, ...)`, `activeObject.h:237`) and then destroys the object. In a debug build a last
release after the shutdown is therefore an assertion failure. The model has the release build, and
`FinalizedInOrder` permits an object whose `Finalize` was canceled.

What the two violations of the pool show. The comment on `AwaitTermination` promises to wait
until pending tasks are completed, but a worker that sees `m_isShutdown` breaks out
of its loop without a look at the queue, so a task accepted between its failed
`TryDequeTask` and that look stays there. And `RunInThread` holds the
strong pointer to the queue while it owns `m_threadMutex`: when it is the last one,
`~QueueService` runs on the pool thread, and its `Shutdown` locks the mutex the
thread owns; when the pointer goes at the `break`, the thread joins itself.

What the three violations of the futures show. `TrySetSuccess` accepts `SettingResult`
for every value type, though its comment restricts it to values that are not void: a
`Promise<void>` that one thread is failing is completed by another thread's
`TrySetValue`, and the first thread then crashes in `SetFailed`. A cancellation token
source is such a promise, with `Abandon` as the first thread and `Cancel` as the second. And posting a `WhenAll`
or `WhenAny` moves the error out of the failed parent where the other branch copies it,
so the parent is `Failed` without an error. The same branch leaves `next` empty, and
`PostContinuation` stops there: when a `WhenAny` or a `WhenAll` is added to the future of a token - the one
shared future that is given to them without a copy - the continuations added before it stand
behind it in the list and are never posted. An action registered with `WhenCanceled` is not executed
if somebody gives the token's `WhenChanged` to `WhenAny` afterwards. (Adding the `WhenAny` to its next
parent overwrites the link as well: `AddContinuation` begins with `m_link.Detach()`.)
The passing runs use promises with values, give a source to one user, and state neither `FailedHasError` of the parents of a `WhenAll` nor the
fate of what stands behind a `WhenAny`, so that what follows these three does not hide other results.

What else the runs show. The looper and the UI scheduler share the Linux pool's way out:
a task accepted while `Shutdown` is on its way may stay in the queue when
`AwaitTermination` returns. Only the Windows pool runs everything first
(`AwaitCompletesPending`). The others are held to what they do promise.

## 5. Proofs

The pool, for every set of clients and tasks and any number of thread slots:

* `Invariance`: the inductive invariant `IndInv` holds in every reachable state.
* `TypeCorrect`, `BusyThreadsCorrect`, `WakeUpsNeverLost`, `ConcurrencyBounded`,
  `OwnerRefCorrect`: the properties of the runs with the same content.

Assumptions: `NoTaskAssumption` (the empty slot is no task),
`QueueServiceAssumption` (clients and pool threads are disjoint, the suspend bound
is a number), `LinuxAssumption` (pool threads are `1..MaxConcurrentThreads`, the
constructor argument does not exceed the array). The last one is a precondition the
code does not enforce; it is one of the hazards.

Argument. None of the properties is inductive alone. `QueueOK` describes the
two buffers: the reader is consumed up to the read index, nothing beyond it is
empty, and the owner pointer is set iff a task is left; it makes `TryDequeue`
return the head of the abstract contents. `ThreadsInOrder` says that exactly the
first `m_threadCount` slots have threads, so starting one takes a fresh slot and the
number of running tasks is bounded by the count. `HoldsWhileWorking` ties the strong
pointers to the places in `RunInThread`; with `LeavesForAReason` (a thread
leaves only when the pool is shut down or the service is dead) it says that a pool
that is alive has not lost its threads. `BusyCounted` is `BusyThreadsExact` with
these, and `NoLostWakeUp` then follows for every step: the only thread that
goes to sleep does so after `HasTasks` was false under `m_threadMutex`, and a task that
comes in later is still owed a scheduler `Post`. `TLC` checks the parts of `IndInv` too.

The dispatch queue. `ActiveObjectProofs!TaskFate` proves of the abstract specification
what a user of a queue relies on: a task that was handed in is in exactly one place
(`DispatchQueue!OnePlace`) - pending, deferred, running, finished, about to be canceled, or canceled - so
none is both run and canceled, or either of them twice. `LinuxImplements` and
`SchedulersImplement` prove that the service on each of the four schedulers takes only
steps of that specification, and `LinuxTaskFate` and `SchedulersTaskFate` carry its promise
over (`OnePlaceStep` is proved of the specification and of its image under the mapping). The mapping alone is not preserved by a step: the code could only hand a task on twice if
it were in two threads' stacks, or in a stack and a queue. `QueueServiceProofs!Places` says
that it is not (no task occurs twice in the stacks, the deferred queues and the pending
cancellations of all threads), and is proved once for the actions of `QueueService`; each scheduler adds
only how its own steps call them.

The other schedulers (`SchedulersProofs`): `TypeCorrect`, `ConcurrencyBounded`,
`WakeUpsNeverLost`, `HandlersCountCorrect`, for any clients and tasks and any number of threads,
and `AwaitCompletes` for a queue with a single client.
Assumptions besides those of the queue: `SchedulerAssumption` (finitely many clients
and threads, numbered from 1 - the proofs count them) and `WinAssumption` (the constructor
argument does not exceed the system's maximum). `IndInv` has one part per scheduler. The looper's
(`LooperInv`) places its one thread, and says that it exits only after a
shutdown. The Windows pool's (`WinInv`) counts: callbacks submitted and callbacks running that
have not given their count back are together `m_usedThreads` while the service lives, and never more;
so the compare-exchange loop bounds the callbacks, and a `Post` that finds the count at
the limit knows a callback that will look at the queue again. The UI scheduler's (`UIInv`) counts
handlers and tasks, and bounds the queue's length by the calls of `Post` still owed plus
the tasks counted; `NoLostWakeUp` follows from that, and is itself part of `IndInv`
because the looper's and the pool's steps need it of the state before. `AwaitCompletes` turns
`NoLostWakeUp` around: when the wait ends no callback is submitted or running, so a task that
is left would have a `Post` on its way, and `AwaitInv` says that the client that waits has none.
With a second client the property is false, as that one may post at any time.

The active objects (`ActiveObjectProofs`), for any clients, objects and number of calls:
`TypeCorrect`, `UseIsInitialized`, `FinalizedOnceInOrder`, `DestroyedOnceOnly`.
The only assumption is `ActiveAssumption` (the queue's thread is no client, the null pointer
no object). The queue is `DispatchQueue`, so `TaskFate` is used of it. `IndInv` adds:
`TasksPlaced` (the frames of running and canceled tasks agree with the places the queue has
them in), `RunsInQueue` (only the queue's thread runs tasks, a task just started is
the top frame, and what a client constructs is made outside), `Unmade` (nobody knows an object
that was not made), and per object
`EndsOnce`, `FinalizedFirst`, `BeingMade` and `InitializedFirst`. `EndsOnce` is the heart of it: from
the last release on, the end of an object is in exactly one place - a frame of one thread, or the
one Finalize task - and nothing else holds a pointer, so no callback can revive it. Every
action is shown to be one of three shapes (`StackStep`, `QuietStep`, `OneObjectStep`), and the
invariant is proved once per shape.
`UseIsInitialized` is about the callbacks that are not `early`. `BeingMade` says that until the
constructor returns there are none of them. From then on `InitializedFirst` gives one of four
reasons why none runs yet: `Initialize` is ahead of all of them in the queue; it is on top of
the queue's thread, about to run; it was canceled, and the queue takes nothing any more; or nobody
holds the object. The first and the third only happen to an object of `outside`, which is why the queue's
thread cannot add a callback that is not early (`QueueCallsEarly`). Nothing is claimed of early
callbacks, nor that `Initialize` runs at all.

The futures, for any set of futures, threads, kinds and graph:

* `FutureProofs!TypeCorrect`: fields and pending calls keep their types. In particular a
  list of continuations consists of futures: the placeholder never gets into a link.
* `FutureProofs!TransitionsDocumented`: each change of a state is an arrow of the diagram
  in `futureImpl.h`, the short one for `WhenAll` and `WhenAny`, whatever threads
  complete, post, cancel and invoke at the same time. Results are therefore final.
* `FutureProofs!CallbackRunsOnce`: a callback runs at most once, only in `Invoking`, and
  never after a cancellation, whether the executor invokes it inline, later or drops it.
* `FutureProofs!FailuresHaveErrors`, `FutureProofs!ErrorsForwarded` and
  `FutureProofs!FuturesImplementGraph`, under the hypothesis `SinglePosts` (no future is a
  `WhenAll` or `WhenAny`): a failed future has an error; a future that forwards its parent, or
  awaits what its callback returned, ends as that future does and with its error; and every
  step is one of `FutureGraph` - a link, an activation or a result its parent allows - or a
  stutter. The hypothesis is needed: `WhenAll` and `WhenAny` move the error out of a failed
  parent, and `future_moved_error` shows `FailedHasError` false there.
* `FutureProofs!ContinuationsNeverLost`, under `SinglePosts` and for finitely many futures: a
  continuation that was added is on its way to a list, in the list of its parent, or in a list
  that a thread posts, until it is started, and nowhere from then on. With `WhenAny` it is
  not so, as `future_lost_action` shows.
* `FutureCrashProofs!NoCrashes`, under `SinglePosts`, for finitely many futures and under
  `NoVoidRace` (promises and groups have a value, and a source has one user): no
  `VerifyElseCrash` of `futureImpl.cpp` fails. The last hypothesis is needed: two threads that
  set one promise without a value race in `TrySetSuccess`, and `future_void_race` shows
  the process end there.

Assumptions: `FutureAssumption` (null, the placeholder and the futures are distinct; a
completion, and nothing else, has a target, which is another future, as `FutureCompletionTask`
is made with a future that exists before it; ...) and `TokenAssumption` (the constructor of a
`CancellationTokenSource` makes one token). The inductive invariant for the first two is `IInv`.
`TypeOK` alone is not inductive, because `AddContinuation` links the new continuation to what
the word holds: `PlaceholderWhenDone` says that this is the placeholder only in a done future,
where nothing is linked. `MultiPostStates` says that a `WhenAll` or `WhenAny` future is never
posted, which the guards of the later transitions do not repeat. There is one lemma per
action for the types and one per action that writes the word for `SafeStep`.
`RunsOnce` needs `RunInv`: the state alone does not stop two `Invoke`s of one future, as the
executor's is accepted in `Posted` and the poster's in `Posting`. `OneDriver` says that the right to take
a future on - a `TaskPost`, `Invoke` or `RunTask` pending in some thread, or a callback an executor
holds - is in one place, and in none before the future leaves `Pending`; and `RanOnce` ties
the count to it.
The results need `GraphInv`, next to these two. What a future ends with is decided long before
it is written: by the callback, by a parent's list, by an executor that cancels. So `AllFit` says of
every pending call that what it will do is still allowed - `Ends(f, r, e)`: the future may start, and
the futures it forwards have result `r` and error `e` - and the core of the proof is that nothing makes it
false afterwards (`EndsStable`), except a new completion of `f`. That one is excluded by
`AllRest`: while the callback of `f` has not run, no call that sets `f` is pending, and only
the run of `f` makes a completion for it. `AllWords` says that a posted future has the error of its
parent (`Inherits`) and that a list holds continuations of its owner only; `LinksOK` that a
future has one parent and a future one completion. Every call of `FutureImpl` is shown to be a
`GraphCall`, every call from outside a `UserEffect`, and `CallStepRest` and `BeginRest`
prove the invariant from these, once for each shape. For the refinement `StepMoves` adds that a step moves one
future or makes one link; `MayStart` then gives the graph's `Ready` and `Ends` its `Result`.
TLC checked the parts of `GraphInv` on the graphs of `future_share` and `future_await`.

`ContinuationsKept` needs `KeptInv`. `AllKept` says that a waiting continuation is in exactly one place - an
`AddContinuation` of one thread, the list of one future, or the `TryPost` of one thread - that no other
future is in any, and that no list runs into itself. The lists are linked
through `m_link`, which is also the parent of a posted future; so each step has to leave alone
every link that is part of another list, and that a future is in one place gives this. `DoneWords` says that
a done future has no list left; `OwnErrors`, who may set an error, is what shows that a
continuation that still waits is completed by nobody else. Like the property, `AllKept` says
nothing after a crash. A list is the set `Chain`, which follows as many links as
there are futures. That a step prepends a future, takes the head off, or hands a whole
list to a `TryPost` rests on two facts: for finitely many futures that set is the least one that is closed under
the link (`ChainLeast`), and it is its head and the chain of the next one (`ChainStep`). Both come from a
least counterexample in `Nat`, in the place of an induction. TLC checked `KeptInv` on the graphs of
`future_share` and `future_await`.

`NoCrash` needs `CrashInv`. A call crashes when it may not be turned down and the word is not
as it expects, so `AllStrict` says of every pending call that may not be turned down
that its future is in a state that call accepts. Other threads do not take the state away because a
future has at most one owner (`Owned`): of the calls that move it (`Moving`), one is pending at
a time. The competing `TryStartSetValue` and `TrySetError` of a promise that still has a
handle are not owners, as they may all be turned down but the first. A completion waits for a
target that only it will set (`Awaited`), and the first continuation of a future that cannot be shared is
added to an empty list (`Alone`). `SettingResult` is no place to stay: a pending call ends it
(`Ending`). `Sound` says how the words and the links fit together. Every step is shown to be a
`CrashStep`, and `CrashStepInv` proves once that such a step keeps the invariant. TLC checked
`CrashInv` on five instances.

The objects (`ObjectLifetimeProofs`), for any threads, variables, addresses and programs, with
all class templates in one program too:

* `StrongCountsExact`, `NothingDangles`, `ObjectsDestroyedOnce`, `NothingLeaked`,
  `UnhandledReported`, `InstancesPublishedOnce`, `TypeCorrect`: the properties of `objects`.
  `TypeCorrect` says more than it seems to: the counts are natural numbers, so no `Release` or
  `ReleaseWeakRef` ever meets a zero.
* `Inductive`: the invariant they follow from.

Assumption: `RefCountingAssumption` (addresses are finitely many numbers, with null not among
them, as counts are compared with numbers of holders and the members of a `FixedSwarm` have an order; a
`CntPtr` variable belongs to a thread; the classes of a program are those of the library, and its
memory is memory).

Argument. The property says that a count is the number of holders, but a step changes one reference
and one count, and the holders that `StrongHolders` collects are spread over variables, fields and
stacks. `Counts` therefore gives every place that can hold a strong count, a weak count, or an
object that is not counted a token, once and for all, and a function from tokens to the counter they count at
(`StrongAt`, `WeakAt`, `OwnerAt`); each of the three counts is the cardinality of the
tokens at an address (`Exact`), and a step that moves one token changes one count by one. What is
not a matter of counting is in the other parts. `RefsLive` and `WeaksLive` say what a
reference may refer to: a strong one to a live object whose destruction has not
begun, a weak one to a container that is still there and, while its count is
not zero, to the live object it was taken from - this is why `IncrementRefCountIfNotZero`
revives nobody. `Heap` says of each address what its class allows: a count that is not zero has
a live object, a live object whose count is zero has its `Delete` on a stack, a dead one its `EndDelete`
or no container any more, the members on the list of a swarm and in the storage of a `FixedSwarm` are in
one container, and the weak count is above zero exactly in a container. `Onces` and
`FramesOK` place the pending calls: an object is destroyed by one call, a member is added by
one, and each call holds what it uses - the member whose constructor threw, for example, is destroyed
while its thread holds the swarm (`Throwing`). `Cascades` says that the members of a `FixedSwarm` are
destroyed before the weak count its object holds is given back; without it the container
could go under the last of them. `Reports` is about errors.
Every action is shown to be one of a few shapes - references move and a stack changes
(`QuietStep`), an address is filled (`AllocStep`), a destructor runs (`DestroyStep`, `FadeStep`), a count is
given back and memory freed (`FreeStep`, `LastWeakStep`) - and the invariant is proved once
for each. That a decrement to one address leaves the others alone, that two destructors of
one object cannot be pending and that a freed address has no token left all come from the exact
counts. TLC checked the parts of the invariant on the instance of `objects` and, in simulation,
with all classes in one program.

The properties follow: `StrongCountExact` by a bijection between the tokens at a counter and
its holders (`HolderOf`), `NoLeak` because a count above zero has a token, and with all stacks empty a
token is a variable or a field, and a field that counts leads out of its own swarm.

Only model-checked. `ImplementsFutureGraph` and `NoCrash` of graphs with `WhenAll` and `WhenAny`
are checked by `future_when`. The liveness properties (`EveryTaskHandled`, `AwaitReturns`,
`EveryContinuationCompletes`, `EveryObjectDestroyed`, `ReleaseAndWaitReturns`) need fairness and `ENABLED`, which
are outside the prover's reach.

## 6. Not modelled

* Task batching and queue-local values. The first `BeginTaskBatching` of a thread
  dereferences a moved-from pointer, so no later state exists to check, and
  `TryLockQueueLocalValue` passes the wrong action, so no value is ever locked. Both are
  listed as hazards.
* Auto-reset events and `WaitFor`: nothing in the libraries uses them. `FutureWait` and
  `ReleaseAndWait` use a manual-reset event once, which is a flag in their modules.
* The layout of a future's memory block and the values in it (its counters are the class
  `FutureImpl` of `RefCounting`), the `CallTaskInvokeOnError` option, which no code in the
  repository sets, and the `SetValue`/`SetError` variants of promises that crash by
  design.
* Raw addresses of smart pointers (`operator&`, `GetAddressOf`, `CntPtrRef`) and the data half of
  `THolderPair`; the invocation of functors; error text.
* `ActiveField`, which only checks the thread of its accessors.
* The platform adapters (crash, assert, tags, GUIDs, memory API, `span`, OACR) and
  `motifCpp`: thin or declarative code without a protocol.
* Of the active objects: the queue as an object. The deleter posts through the `m_queue` of the
  object itself, which the Finalize task destroys, perhaps while that `Post` still runs. The lifetime
  of a queue is in `QueueService`, which knows nothing of the objects.
* Some steps are coarser than the code's. `UIPost` counts and calls `RunAsync` in one step, without
  the reference the posting thread has on its handler meanwhile. A UI thread that calls the queue
  outside of a task (the `InvokeTask` branch of `InvokeElsePost`) does not occur. A constructor that
  throws (`MakeThrows`) does so in one step, so nobody upgrades a weak pointer it gave out
  while it runs. A destructor that comes back to its holder (`RunFree`) clears it, and
  places nothing in it. `CopyMaybe` takes the new reference before it drops the old one; the code
  does so in the other order, which changes no count as the source keeps its own.
