----------------------------- MODULE ActiveObject -----------------------------
(***************************************************************************)
(* Active objects (activeObject.h, activeObject.cpp): objects whose        *)
(* Initialize, Finalize and callbacks run in a serial dispatch queue,      *)
(* while any thread makes, calls and releases them.                        *)
(*                                                                         *)
(* The queue is the abstract DispatchQueue, which QueueService implements  *)
(* on every scheduler; IsSerial is what makes QueueThread one thread.  The *)
(* reference count of an object is the number of its holders               *)
(* (StrongCountExact of ObjectLifetime).  A thread executes the frames of  *)
(* stack[th], topmost first, and user code where a frame says so.          *)
(***************************************************************************)
EXTENDS Naturals, Sequences, FiniteSets

CONSTANTS Clients,       \* threads that are not of the queue
          QueueThread,
          ActiveObjects,
          NoObject,
          CallBound      \* bound on the callbacks of each kind per object, and on other tasks

ASSUME ActiveAssumption ==
  QueueThread \notin Clients /\ NoObject \notin ActiveObjects /\ CallBound \in Nat

Threads == Clients \cup {QueueThread}

(* What is handed to the queue: the lambdas of the make policy, of the     *)
(* deleter and of the two InvokeInQueue methods, and tasks that have       *)
(* nothing to do with an active object but may make one.                   *)
Tasks == [kind : {"Initialize", "Finalize"}, obj : ActiveObjects, n : {0}]
         \cup [kind : {"Weak", "Strong"}, obj : ActiveObjects, n : 1..CallBound]
         \cup [kind : {"Other"}, obj : {NoObject}, n : 1..CallBound]

InitializeTask(o) == [kind |-> "Initialize", obj |-> o, n |-> 0]
FinalizeTask(o)   == [kind |-> "Finalize", obj |-> o, n |-> 0]

VARIABLES
  fresh, pending, deferred, running, finished, doomed, canceled, accepting,  \* the queue
  object,      \* object[o]: the fields of ActiveObjectBase
  held,        \* held[th]: objects a CntPtr of th's user code refers to
  stack,       \* stack[th]: what th is executing, innermost first
  finalized,   \* history: objects whose Finalize returned
  destroyed,   \* history: objects whose destructor returned
  notified,    \* objects whose OnDestructed callback was invoked
  outside,     \* history: objects that were made by a client
  early        \* history: callbacks that nothing orders behind Initialize (CallsEarly)

queueVars == <<fresh, pending, deferred, running, finished, doomed, canceled, accepting>>
objectVars == <<object, held, finalized, destroyed, notified>>
historyVars == <<outside, early>>
vars == <<queueVars, objectVars, historyVars, stack>>

Queue == INSTANCE DispatchQueue

NoFields == [made |-> FALSE, m_hasInitialize |-> FALSE, m_hasFinalize |-> FALSE,
             m_isInitialized |-> FALSE, m_onDestructed |-> FALSE]

(* run: before the lambda      user: the code the lambda calls             *)
(* end: the task has returned  cancel: CancelTask                          *)
(* construct: the constructor of the object, which is user code            *)
(* make: Make returns the object to its caller                             *)
(* release, delete, destruct, notify: Release, ActiveObjectDeleter,        *)
(* DestructObject and the callback it invokes                              *)
(* wait: ReleaseAndWait waits                                              *)
Frame(at, on) == [at |-> at, on |-> on]
Frames == [at : {"run", "user", "end", "cancel"}, on : Tasks]
          \cup [at : {"construct", "make", "release", "delete", "destruct", "notify", "wait"},
                on : ActiveObjects]

TypeOK ==
  /\ fresh \cup deferred \cup running \cup finished \cup doomed \cup canceled \subseteq Tasks
  /\ pending \in Seq(Tasks)
  /\ accepting \in BOOLEAN
  /\ object \in [ActiveObjects -> [made : BOOLEAN, m_hasInitialize : BOOLEAN,
                                   m_hasFinalize : BOOLEAN, m_isInitialized : BOOLEAN,
                                   m_onDestructed : BOOLEAN]]
  /\ held \in [Threads -> SUBSET ActiveObjects]
  /\ stack \in [Threads -> Seq(Frames)]
  /\ finalized \cup destroyed \cup notified \cup outside \subseteq ActiveObjects
  /\ early \subseteq Tasks

Init ==
  /\ Queue!Init
  /\ object = [o \in ActiveObjects |-> NoFields]
  /\ held = [th \in Threads |-> {}]
  /\ stack = [th \in Threads |-> <<>>]
  /\ finalized = {} /\ destroyed = {} /\ notified = {} /\ outside = {} /\ early = {}
-----------------------------------------------------------------------------
AtTop(th, at) == stack[th] # <<>> /\ Head(stack[th]).at = at
Top(th) == Head(stack[th]).on

(* The top frame is done; the given ones take its place. *)
Replace(th, frames) == stack' = [stack EXCEPT ![th] = frames \o Tail(@)]
Push(th, frames) == stack' = [stack EXCEPT ![th] = frames \o @]

(* Frames of any thread. *)
OnStack(at, on) == \E th \in Threads : \E i \in DOMAIN stack[th] : stack[th][i] = Frame(at, on)

(* Frames and tasks with a strong pointer: strongThis, the caller of       *)
(* Release, and the memory guard of Make, which has the first reference.   *)
TaskHolds(t, o) == t.kind = "Strong" /\ t.obj = o
FrameHolds(f, o) ==
  \/ f.at = "user" /\ f.on.obj = o /\ f.on.kind # "Finalize"
  \/ f.at \in {"run", "cancel"} /\ TaskHolds(f.on, o)
  \/ f.at \in {"release", "construct", "make"} /\ f.on = o

HeldIn(stacks, o) ==
  \/ \E th \in Threads : \/ o \in held[th]
                         \/ \E i \in DOMAIN stacks[th] : FrameHolds(stacks[th][i], o)
  \/ \E i \in DOMAIN pending : TaskHolds(pending[i], o)
IsHeld(o) == HeldIn(stack, o)

(* A client between two calls, the queue's thread in a callback, or either *)
(* in a constructor.                                                       *)
InUserCode(th) ==
  \/ th \in Clients /\ stack[th] = <<>>
  \/ AtTop(th, "user") \/ AtTop(th, "construct")

(* Its pointers, and the object it constructs or whose callback it runs;   *)
(* Finalize runs on an object nobody can refer to any more.                *)
Reaches(th, o) == \/ o \in held[th]
                  \/ stack[th] # <<>> /\ FrameHolds(Head(stack[th]), o)

(* DispatchQueue::InvokeElsePost from a thread that goes on with frames. *)
InvokeElsePost(th, t, frames) ==
  \/ /\ th = QueueThread
     /\ Queue!InvokeInside(t)
     /\ stack' = [stack EXCEPT ![th] = <<Frame("run", t)>> \o frames]
  \/ /\ th # QueueThread
     /\ Queue!Accept(t)
     /\ stack' = [stack EXCEPT ![th] = frames]
  \/ /\ th # QueueThread
     /\ Queue!Reject(t)
     /\ stack' = [stack EXCEPT ![th] = <<Frame("cancel", t)>> \o frames]
-----------------------------------------------------------------------------
(* What user code does. *)

(* ActiveObjectMakePolicy::Make: the constructor runs on the caller's      *)
(* thread, and is user code that may call the methods and share `this`.    *)
Make(th, o) ==
  /\ InUserCode(th)
  /\ ~object[o].made
  /\ object' = [object EXCEPT ![o].made = TRUE]
  /\ outside' = IF th = QueueThread THEN outside ELSE outside \cup {o}
  /\ Push(th, <<Frame("construct", o)>>)
  /\ UNCHANGED <<queueVars, held, finalized, destroyed, notified, early>>

(* A callback that may come before Initialize, in the order of the queue   *)
(* or because the thread is in the queue already and invokes it at once.   *)
CallsEarly(th, o) == OnStack("construct", o) \/ (th = QueueThread /\ o \in outside)
CallInQueue(th, t) ==
  /\ InvokeElsePost(th, t, stack[th])
  /\ early' = IF CallsEarly(th, t.obj) THEN early \cup {t} ELSE early
  /\ UNCHANGED <<objectVars, outside>>

(* Either method on an object the thread reaches; Finalize may still use   *)
(* the one that takes a weak pointer.                                      *)
InvokeInQueue(th, t) ==
  /\ InUserCode(th)
  /\ t.kind = "Weak"
  /\ Reaches(th, t.obj) \/ (AtTop(th, "user") /\ Top(th) = FinalizeTask(t.obj))
  /\ CallInQueue(th, t)

InvokeInQueueStrong(th, t) ==
  /\ InUserCode(th)
  /\ t.kind = "Strong"
  /\ Reaches(th, t.obj)
  /\ CallInQueue(th, t)

PostOther(th, t) ==
  /\ InUserCode(th)
  /\ t.kind = "Other"
  /\ InvokeElsePost(th, t, stack[th])
  /\ UNCHANGED <<objectVars, historyVars>>

(* A pointer is copied for any thread, through memory the two share, or to *)
(* keep it after the callback.                                             *)
Share(th, other, o) ==
  /\ InUserCode(th)
  /\ Reaches(th, o)
  /\ o \notin held[other]
  /\ held' = [held EXCEPT ![other] = @ \cup {o}]
  /\ UNCHANGED <<queueVars, historyVars, object, stack, finalized, destroyed, notified>>

ReleasePtr(th, o) ==
  /\ InUserCode(th)
  /\ o \in held[th]
  /\ held' = [held EXCEPT ![th] = @ \ {o}]
  /\ Push(th, <<Frame("release", o)>>)
  /\ UNCHANGED <<queueVars, historyVars, object, finalized, destroyed, notified>>

(* A second callback would crash. *)
SetOnDestructedOnce(th, o) ==
  /\ InUserCode(th)
  /\ Reaches(th, o)
  /\ ~object[o].m_onDestructed
  /\ object' = [object EXCEPT ![o].m_onDestructed = TRUE]
  /\ UNCHANGED <<queueVars, historyVars, held, stack, finalized, destroyed, notified>>

ReleaseAndWait(th, o) ==
  /\ InUserCode(th)
  /\ o \in held[th]
  /\ ~object[o].m_onDestructed
  /\ object' = [object EXCEPT ![o].m_onDestructed = TRUE]
  /\ held' = [held EXCEPT ![th] = @ \ {o}]
  /\ Push(th, <<Frame("release", o), Frame("wait", o)>>)
  /\ UNCHANGED <<queueVars, historyVars, finalized, destroyed, notified>>

(* Any thread may shut the queue down. *)
ShutdownQueue(th, action) ==
  /\ InUserCode(th)
  /\ accepting \/ pending # <<>>
  /\ Queue!Shutdown(action)
  /\ Push(th, IF action = "Cancel"
              THEN [i \in DOMAIN pending |-> Frame("cancel", pending[i])] ELSE <<>>)
  /\ UNCHANGED <<objectVars, historyVars>>

UserStep(th) ==
  \/ \E o \in ActiveObjects :
       \/ Make(th, o) \/ ReleasePtr(th, o) \/ SetOnDestructedOnce(th, o) \/ ReleaseAndWait(th, o)
       \/ \E other \in Threads : Share(th, other, o)
  \/ \E t \in fresh : InvokeInQueue(th, t) \/ InvokeInQueueStrong(th, t) \/ PostOther(th, t)
  \/ \E action \in {"Complete", "Cancel"} : ShutdownQueue(th, action)
-----------------------------------------------------------------------------
(* What a thread does on its own. *)

(* Mutant: Initialize is posted even from inside the queue. *)
ConstructorReturnsPosting(th) ==
  /\ AtTop(th, "construct")
  /\ LET o == Top(th)
         frames == <<Frame("make", o)>> \o Tail(stack[th])
     IN \E hasInitialize, hasFinalize \in BOOLEAN :
          /\ object' = [object EXCEPT ![o].m_hasInitialize = hasInitialize,
                                      ![o].m_hasFinalize = hasFinalize,
                                      ![o].m_isInitialized = ~hasInitialize]
          /\ stack' = [stack EXCEPT ![th] = frames]
          /\ IF hasInitialize /\ accepting THEN Queue!Accept(InitializeTask(o))
             ELSE UNCHANGED queueVars
  /\ UNCHANGED <<historyVars, held, finalized, destroyed, notified>>

(* The rest of the make policy, for a class that may override Initialize   *)
(* and Finalize.                                                           *)
ConstructorReturns(th) ==
  /\ AtTop(th, "construct")
  /\ LET o == Top(th)
         frames == <<Frame("make", o)>> \o Tail(stack[th])
     IN \E hasInitialize, hasFinalize \in BOOLEAN :
          /\ object' = [object EXCEPT ![o].m_hasInitialize = hasInitialize,
                                      ![o].m_hasFinalize = hasFinalize,
                                      ![o].m_isInitialized = ~hasInitialize]
          /\ IF hasInitialize THEN InvokeElsePost(th, InitializeTask(o), frames)
             ELSE stack' = [stack EXCEPT ![th] = frames] /\ UNCHANGED queueVars
  /\ UNCHANGED <<historyVars, held, finalized, destroyed, notified>>

MakeReturns(th) ==
  /\ AtTop(th, "make")
  /\ held' = [held EXCEPT ![th] = @ \cup {Top(th)}]
  /\ Replace(th, <<>>)
  /\ UNCHANGED <<queueVars, historyVars, object, finalized, destroyed, notified>>

(* The queue is serial: one task at a time. *)
StartTask ==
  /\ stack[QueueThread] = <<>>
  /\ Queue!Start
  /\ Push(QueueThread, <<Frame("run", Head(pending))>>)
  /\ UNCHANGED <<objectVars, historyVars>>

(* Mutant: the lambdas capture a raw pointer. *)
RunTaskRaw(th) ==
  /\ AtTop(th, "run")
  /\ Replace(th, <<Frame("user", Top(th))>>)
  /\ UNCHANGED <<queueVars, objectVars, historyVars>>

(* weakThis.GetStrongPtr() fails once the count was zero. *)
RunTask(th) ==
  /\ AtTop(th, "run")
  /\ LET t == Top(th)
         runs == t.kind \in {"Strong", "Finalize", "Other"} \/ IsHeld(t.obj)
     IN Replace(th, <<Frame(IF runs THEN "user" ELSE "end", t)>>)
  /\ UNCHANGED <<queueVars, objectVars, historyVars>>

(* The scope of strongThis ends after the callback; after Finalize the     *)
(* object is destructed.                                                   *)
CallbackReturns(th) ==
  /\ AtTop(th, "user")
  /\ LET t == Top(th)
         next == IF t.kind = "Finalize" THEN <<Frame("destruct", t.obj)>>
                 ELSE IF t.kind = "Other" THEN <<>> ELSE <<Frame("release", t.obj)>>
     IN /\ object' = IF t.kind = "Initialize"
                     THEN [object EXCEPT ![t.obj].m_isInitialized = TRUE] ELSE object
        /\ finalized' = IF t.kind = "Finalize" THEN finalized \cup {t.obj} ELSE finalized
        /\ Replace(th, next \o <<Frame("end", t)>>)
  /\ UNCHANGED <<queueVars, historyVars, held, destroyed, notified>>

TaskReturns(th) ==
  /\ AtTop(th, "end")
  /\ Queue!Finish(Top(th))
  /\ Replace(th, <<>>)
  /\ UNCHANGED <<objectVars, historyVars>>

(* Mutants: every task is taken for one that holds its object, and the     *)
(* Finalize task has no OnCancel.                                          *)
CancelTaskReleases(th) ==
  /\ AtTop(th, "cancel")
  /\ Queue!Cancel(Top(th))
  /\ Replace(th, <<Frame("release", Top(th).obj)>>)
  /\ UNCHANGED <<objectVars, historyVars>>

CancelTaskSilently(th) ==
  /\ AtTop(th, "cancel")
  /\ Queue!Cancel(Top(th))
  /\ Replace(th, IF Top(th).kind = "Strong" THEN <<Frame("release", Top(th).obj)>> ELSE <<>>)
  /\ UNCHANGED <<objectVars, historyVars>>

(* OnCancel of the Finalize task destructs the object on this thread (in a *)
(* debug build it asserts first that this does not happen); the other      *)
(* lambdas are only destroyed.                                             *)
CancelTask(th) ==
  /\ AtTop(th, "cancel")
  /\ Queue!Cancel(Top(th))
  /\ LET t == Top(th)
     IN Replace(th, IF t.kind = "Finalize" THEN <<Frame("destruct", t.obj)>>
                    ELSE IF t.kind = "Strong" THEN <<Frame("release", t.obj)>> ELSE <<>>)
  /\ UNCHANGED <<objectVars, historyVars>>

(* Release: the thread that drops the last reference deletes the object. *)
Release(th) ==
  /\ AtTop(th, "release")
  /\ LET o == Top(th)
         popped == [stack EXCEPT ![th] = Tail(@)]
     IN stack' = IF HeldIn(popped, o) THEN popped
                 ELSE [stack EXCEPT ![th] = <<Frame("delete", o)>> \o Tail(@)]
  /\ UNCHANGED <<queueVars, objectVars, historyVars>>

(* Mutant: m_isInitialized is not asked. *)
DeleteUninitialized(th) ==
  /\ AtTop(th, "delete")
  /\ LET o == Top(th)
     IN IF object[o].m_hasFinalize
        THEN InvokeElsePost(th, FinalizeTask(o), Tail(stack[th]))
        ELSE Replace(th, <<Frame("destruct", o)>>) /\ UNCHANGED queueVars
  /\ UNCHANGED <<objectVars, historyVars>>

(* ActiveObjectDeleter::Delete *)
Delete(th) ==
  /\ AtTop(th, "delete")
  /\ LET o == Top(th)
     IN IF object[o].m_isInitialized /\ object[o].m_hasFinalize
        THEN InvokeElsePost(th, FinalizeTask(o), Tail(stack[th]))
        ELSE Replace(th, <<Frame("destruct", o)>>) /\ UNCHANGED queueVars
  /\ UNCHANGED <<objectVars, historyVars>>

(* Mutant: the callback is left in m_onDestructed. *)
DestructObjectSilently(th) ==
  /\ AtTop(th, "destruct")
  /\ destroyed' = destroyed \cup {Top(th)}
  /\ Replace(th, <<>>)
  /\ UNCHANGED <<queueVars, historyVars, object, held, finalized, notified>>

(* The destructor, then the callback taken from m_onDestructed before it. *)
DestructObject(th) ==
  /\ AtTop(th, "destruct")
  /\ destroyed' = destroyed \cup {Top(th)}
  /\ Replace(th, IF object[Top(th)].m_onDestructed THEN <<Frame("notify", Top(th))>> ELSE <<>>)
  /\ UNCHANGED <<queueVars, historyVars, object, held, finalized, notified>>

InvokeOnDestructed(th) ==
  /\ AtTop(th, "notify")
  /\ notified' = notified \cup {Top(th)}
  /\ Replace(th, <<>>)
  /\ UNCHANGED <<queueVars, historyVars, object, held, finalized, destroyed>>

WaitReturns(th) ==
  /\ AtTop(th, "wait")
  /\ Top(th) \in notified
  /\ Replace(th, <<>>)
  /\ UNCHANGED <<queueVars, objectVars, historyVars>>

ThreadStep(th) ==
  \/ MakeReturns(th) \/ RunTask(th) \/ TaskReturns(th) \/ CancelTask(th) \/ Release(th)
  \/ Delete(th) \/ DestructObject(th) \/ InvokeOnDestructed(th) \/ WaitReturns(th)

UserReturns(th) == ConstructorReturns(th) \/ CallbackReturns(th)

Next ==
  \/ \E th \in Threads : UserStep(th) \/ UserReturns(th) \/ ThreadStep(th)
  \/ StartTask

(* Every thread is scheduled, constructors and callbacks return, and a     *)
(* queue that was not shut down runs its tasks (EveryTaskHandled of the    *)
(* schedulers promises no more); nobody has to call anything.              *)
Fairness ==
  /\ \A th \in Threads : WF_vars(ThreadStep(th)) /\ SF_vars(UserReturns(th))
  /\ WF_vars(accepting /\ StartTask)

Spec == Init /\ [][Next]_vars /\ Fairness
-----------------------------------------------------------------------------
(* "to make sure that it is called before any object's method" (the make   *)
(* policy): a callback runs after Initialize, or inside it.  That is so    *)
(* for every call on an object the queue's thread made, once its           *)
(* constructor has returned, and for every call a client posts after it    *)
(* returned, whatever happens to the queue.  It is not so for a call from  *)
(* within the queue on an object that a client made: it is invoked at once *)
(* and does not ask whether Initialize is still pending.                   *)
InitializedBeforeUse ==
  \A t \in Tasks \ early : t.kind \in {"Weak", "Strong"} /\ OnStack("user", t) =>
    object[t.obj].m_isInitialized \/ OnStack("user", InitializeTask(t.obj))

(* Finalize runs once, only on an object that was initialized, and before  *)
(* the destructor; a destructed object that has Finalize missed it only if *)
(* it was not initialized or the queue canceled the task.                  *)
FinalizedInOrder ==
  /\ \A o \in ActiveObjects :
       OnStack("user", FinalizeTask(o)) =>
         /\ object[o].m_isInitialized
         /\ o \notin finalized \cup destroyed
  /\ \A o \in destroyed :
       object[o].m_hasFinalize /\ object[o].m_isInitialized =>
         o \in finalized \/ FinalizeTask(o) \in canceled

(* "The weak reference cannot be resolved to the strong one" (the          *)
(* deleter): once the count of an object was zero nobody holds it again,   *)
(* one thread or one Finalize task is in charge of its end, and after the  *)
(* destructor none is.                                                     *)
Positions == UNION {{th} \X DOMAIN stack[th] : th \in Threads}
EndsObject(f, o) ==
  \/ f.at \in {"delete", "destruct"} /\ f.on = o
  \/ f.at \in {"run", "user", "cancel"} /\ f.on = FinalizeTask(o)
DestroyedOnce ==
  \A o \in ActiveObjects :
    LET ends == {p \in Positions : EndsObject(stack[p[1]][p[2]], o)}
                \cup {i \in DOMAIN pending : pending[i] = FinalizeTask(o)}
    IN /\ Cardinality(ends) <= 1
       /\ ends # {} => ~IsHeld(o)
       /\ o \in destroyed => ends = {} /\ ~IsHeld(o)

(* A queue that was shut down may keep accepted tasks for ever, neither    *)
(* invoked nor canceled (AwaitCompletesPending of ThreadPoolLinux), and    *)
(* with them an object that waits for its Finalize or that a task holds.   *)
Stranded(o) ==
  /\ ~accepting
  /\ \E i \in DOMAIN pending : pending[i] = FinalizeTask(o) \/ TaskHolds(pending[i], o)

(* An object that nobody refers to is destructed, also when the queue      *)
(* canceled or rejected its Finalize task, unless that task is stranded or *)
(* the thread of the queue itself waits in ReleaseAndWait.                 *)
EveryObjectDestroyed ==
  \A o \in ActiveObjects :
    object[o].made /\ ~IsHeld(o) ~>
      o \in destroyed \/ Stranded(o) \/ AtTop(QueueThread, "wait")

(* ReleaseAndWait "may deadlock if provided obj has more than one          *)
(* reference": it returns to a client when no pointer of user code is left *)
(* (its constructor has one), calls that are still in the queue do not     *)
(* matter, with the same exceptions.                                       *)
WaitsFor(th, o) == AtTop(th, "wait") /\ Top(th) = o
ReleaseAndWaitReturns ==
  \A th \in Clients, o \in ActiveObjects :
    WaitsFor(th, o) ~>
      \/ ~WaitsFor(th, o)
      \/ OnStack("construct", o) \/ \E other \in Threads : o \in held[other]
      \/ Stranded(o)
      \/ AtTop(QueueThread, "wait")
=============================================================================
