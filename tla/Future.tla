------------------------------- MODULE Future -------------------------------
(***************************************************************************)
(* FutureImpl (futureImpl.cpp) and the callbacks the library gives it      *)
(* (futureTask.h, whenAll, whenAny, promise).  A future keeps its state    *)
(* and the head of its list of continuations in one atomic word.           *)
(*                                                                         *)
(* A compare-exchange loop is one step: it has no effect until it          *)
(* succeeds, and the plain fields written after it are read by no other    *)
(* thread until the next step of this one.  What a method still has to do  *)
(* after it, and what its callers have to do when it returns, is todo[th], *)
(* innermost call first; the steps of other threads interleave with it.    *)
(***************************************************************************)
EXTENDS Naturals, Sequences, FiniteSets

CONSTANTS
  Futures,
  Users,                \* threads that call the library
  Executors,            \* threads that run posted callbacks
  NoFuture,             \* the null pointer
  ContinuationInvoked,  \* the placeholder in place of a continuation
  NoError, Canceled,    \* empty ErrorCode, the error of CancellationErrorProvider
  Kind,                 \* the FutureTraits a future was made with
  Void,                 \* futures with ValueSize = 0
  Inputs,               \* futures a future can be a continuation of; those
                        \* of WhenAll and WhenAny in the order of the call
  Target,               \* FutureCompletionTask::FutureToComplete
  SourceUsers,          \* threads that have the CancellationTokenSources
  WaitCyclesRunOut      \* may the ten seconds of TrySetInvoking pass?

(* promise: Promise             group: PromiseGroup                        *)
(* then: Then, PostFuture       maybe: the same with a Maybe argument      *)
(* catch: Catch                                                            *)
(* shared: Future::Share        copy: between a shared future and a unique *)
(* wait: FutureWait             completion: waits for a returned future    *)
(* source: CancellationTokenSource   token: CancellationToken              *)
Kinds == {"promise", "group", "then", "maybe", "catch", "shared", "copy",
          "wait", "completion", "whenAll", "whenAny", "source", "token"}

Threads == Users \cup Executors

ASSUME FutureAssumption ==
  /\ NoFuture \notin Futures
  /\ ContinuationInvoked \notin Futures \cup {NoFuture}
  /\ {NoError, Canceled} \cap Futures = {}
  /\ NoError # Canceled
  /\ Kind \in [Futures -> Kinds]
  /\ Void \subseteq Futures
  /\ Inputs \in [Futures -> Seq(Futures)]
  /\ Target \in [Futures -> Futures \cup {NoFuture}]
  /\ \A f \in Futures : IF Kind[f] = "completion" THEN Target[f] \in Futures \ {f}
                                                  ELSE Target[f] = NoFuture
  /\ \A f \in Futures : Kind[f] = "token" => Inputs[f] # <<>>
  /\ SourceUsers \subseteq Users
  /\ WaitCyclesRunOut \in BOOLEAN

(* The constructor of a CancellationTokenSource makes one token.           *)
ASSUME TokenAssumption ==
  \A c, d \in Futures :
    Kind[c] = "token" /\ Kind[d] = "token" /\ Inputs[c][1] = Inputs[d][1] => c = d

VARIABLES
  state, continuation,  \* m_stateAndContinuation
  m_link,               \* the next continuation, then the parent
  m_error,              \* NoError, Canceled or the future the error comes from
  completeCount,        \* WhenAllFutureTask::CompleteCount
  queued,               \* futures whose FutureCallback an executor holds
  finished,             \* FutureWait events that are set
  dropped,              \* promises whose last handle is gone
  links,                \* <<p, c>>: c was made a continuation of p;
                        \* <<NoFuture, c>>: PostFuture made c
  runs,                 \* history: how often TaskInvoke or TaskCatch was called
  todo,
  crashed               \* a VerifyElseCrash failed

futureVars == <<state, continuation, m_link, m_error, completeCount>>
userVars == <<queued, finished, dropped, links, runs>>
vars == <<futureVars, userVars, todo, crashed>>

Done == {"Succeeded", "Failed"}
FutureState == {"Pending", "Posting", "Posted", "Invoking", "Awaiting",
                "SettingResult"} \cup Done
Errors == Futures \cup {Canceled}

(* FutureTraits *)
IsPromise(f)       == Kind[f] \in {"promise", "group", "source"}
IsShared(f)        == Kind[f] \in {"shared", "group", "token"}
UseParentValue(f)  == Kind[f] \in {"shared", "wait", "completion"}
IsMultiPost(f)     == Kind[f] \in {"whenAll", "whenAny"}
HasTaskPost(f)     == Kind[f] \in {"then", "maybe", "catch"}
HasTaskInvoke(f)   == ~IsPromise(f) /\ Kind[f] # "shared"
HasTaskCatch(f)    == HasTaskInvoke(f) /\ Kind[f] # "then"
IsVoidValue(f)     == f \in Void \/ Kind[f] = "source" \/ UseParentValue(f)

(* Does TaskInvoke, TaskCatch run the user's callback? *)
CallbackOnValue(f) == Kind[f] \in {"then", "maybe"}
CallbackOnError(f) == Kind[f] \in {"maybe", "catch"}

(* A call to make: on future f, with an argument, while cur is the future  *)
(* CurrentFutureImpl holds for the thread; strict is crashIfFailed.        *)
Call(name, f, arg, cur, strict) ==
  [call |-> name, fut |-> f, arg |-> arg, cur |-> cur, strict |-> strict]

CallNames == {"AddContinuation", "TryPost", "TaskPost", "TrySetPosted", "Invoke",
              "RunTask", "StartAwaiting", "TryStartSetValue", "TrySetSuccess",
              "TrySetError", "MoveError", "SetFailed", "SetFinished", "AwaitFinished"}
Args(name) ==
  IF name \in {"AddContinuation", "MoveError"} THEN Futures
  ELSE IF name = "TryPost" THEN Futures \cup {NoFuture}
  ELSE IF name = "TrySetError" THEN Errors \cup {NoError}
  ELSE {NoFuture}
Calls == {op \in [call   : CallNames,
                  fut    : Futures,
                  arg    : Errors \cup {NoFuture, NoError},
                  cur    : Futures \cup {NoFuture},
                  strict : BOOLEAN] : op.arg \in Args(op.call)}

TypeOK ==
  /\ state \in [Futures -> FutureState]
  /\ continuation \in [Futures -> Futures \cup {NoFuture, ContinuationInvoked}]
  /\ m_link \in [Futures -> Futures \cup {NoFuture}]
  /\ m_error \in [Futures -> Errors \cup {NoError}]
  /\ completeCount \in [Futures -> Nat]
  /\ queued \in SUBSET Futures
  /\ finished \in SUBSET Futures
  /\ dropped \in SUBSET Futures
  /\ links \in SUBSET ((Futures \cup {NoFuture}) \X Futures)
  /\ runs \in [Futures -> Nat]
  /\ todo \in [Threads -> Seq(Calls)]
  /\ crashed \in BOOLEAN

(* The constructor of a CancellationTokenSource adds its token. *)
TokenLinks == {<<Inputs[c][1], c>> : c \in {c \in Futures : Kind[c] = "token"}}

Init ==
  /\ state = [f \in Futures |-> "Pending"]
  /\ continuation = [f \in Futures |-> IF \E c \in Futures : <<f, c>> \in TokenLinks
                                       THEN CHOOSE c \in Futures : <<f, c>> \in TokenLinks
                                       ELSE NoFuture]
  /\ m_link = [f \in Futures |-> NoFuture]
  /\ m_error = [f \in Futures |-> NoError]
  /\ completeCount = [f \in Futures |-> 0]
  /\ queued = {}
  /\ finished = {}
  /\ dropped = {}
  /\ links = TokenLinks
  /\ runs = [f \in Futures |-> 0]
  /\ todo = [th \in Threads |-> <<>>]
  /\ crashed = FALSE
-----------------------------------------------------------------------------
(* Calls and returns *)

NextCall(th, name) == todo[th] # <<>> /\ Head(todo[th]).call = name

(* The call at the head of todo[th] returns after it has made these. *)
Return(th, calls) == todo' = [todo EXCEPT ![th] = calls \o Tail(@)]

(* UnexpectedState: false, or a crash. *)
UnexpectedState(th, strict) ==
  /\ crashed' = strict
  /\ Return(th, <<>>)
  /\ UNCHANGED <<futureVars, userVars>>

IsSynchronousCall(op) == op.cur = op.fut

(* PostContinuation of the list that starts at c, by its parent p. *)
PostContinuation(p, c, cur) ==
  IF c \in Futures THEN <<Call("TryPost", c, p, cur, FALSE)>> ELSE <<>>

SetValue(f, cur, strict) ==
  IF IsVoidValue(f)
  THEN <<Call("TrySetSuccess", f, NoFuture, cur, strict)>>
  ELSE <<Call("TryStartSetValue", f, NoFuture, cur, strict)>>
-----------------------------------------------------------------------------
(* FutureImpl *)

(* c enters the word of f, or is posted, and points to next. *)
Store(th, op, isDone, next) ==
  LET f == op.fut
      c == op.arg
  IN /\ continuation' = [continuation EXCEPT ![f] = IF isDone THEN ContinuationInvoked ELSE c]
     /\ m_link' = [m_link EXCEPT ![c] = next]
     /\ Return(th, IF isDone THEN PostContinuation(f, c, op.cur) ELSE <<>>)
     /\ UNCHANGED <<state, m_error, completeCount, userVars, crashed>>

AttachAlways(th, op)   == Store(th, op, FALSE, continuation[op.fut])
AttachOnlyOne(th, op)  == Store(th, op, state[op.fut] \in Done, NoFuture)
AttachUndetached(th, op) == Store(th, op, state[op.fut] \in Done, continuation[op.fut])
AttachAsDone(th, op)   == Store(th, op, TRUE, NoFuture)
Attach(th, op) ==
  LET isDone == state[op.fut] \in Done
  IN Store(th, op, isDone, IF isDone THEN NoFuture ELSE continuation[op.fut])

AddContinuation(th) ==
  /\ NextCall(th, "AddContinuation")
  /\ LET op == Head(todo[th])
         f  == op.fut
         c  == op.arg
     IN IF continuation[f] = NoFuture \/ IsShared(f) \/ (IsShared(c) /\ UseParentValue(c))
        THEN Attach(th, op)
        ELSE UnexpectedState(th, TRUE)

(* WhenAll and WhenAny run their callback inside TryPostInternal, which    *)
(* then reports no next continuation.                                      *)
CompletesBeforeLast(c) == completeCount[c] + 2 = Len(Inputs[c])
CompletesAll(c) == completeCount[c] + 1 = Len(Inputs[c])

MultiPost(th, op) ==
  LET c == op.fut
      p == op.arg
  IN /\ \/ /\ state[p] = "Succeeded"
           /\ Kind[c] = "whenAll"
           /\ completeCount' = [completeCount EXCEPT ![c] = @ + 1]
           /\ Return(th, IF CompletesAll(c) THEN SetValue(c, c, TRUE) ELSE <<>>)
        \/ /\ state[p] = "Succeeded"
           /\ Kind[c] = "whenAny"
           /\ Return(th, SetValue(c, c, FALSE))
           /\ UNCHANGED completeCount
        \/ /\ state[p] # "Succeeded"
           /\ Return(th, <<Call("MoveError", c, p, c, FALSE)>>)
           /\ UNCHANGED completeCount
     /\ crashed' = (state[p] \notin Done)
     /\ runs' = [runs EXCEPT ![c] = @ + 1]
     /\ UNCHANGED <<state, continuation, m_link, m_error, queued, finished, dropped, links>>

(* The parent's value is reached through m_link, its error is copied. *)
TryPostInternal(th) ==
  /\ NextCall(th, "TryPost")
  /\ LET op == Head(todo[th])
         c  == op.fut
         p  == op.arg
         parentFailed == p # NoFuture /\ state[p] = "Failed"
     IN \/ /\ IsMultiPost(c)
           /\ IF p = NoFuture THEN UnexpectedState(th, TRUE) ELSE MultiPost(th, op)
        \/ /\ ~IsMultiPost(c)
           /\ state[c] # "Pending"
           /\ UnexpectedState(th, op.strict \/ m_link[c] # NoFuture)
        \/ /\ ~IsMultiPost(c)
           /\ state[c] = "Pending"
           /\ state' = [state EXCEPT ![c] = "Posting"]
           /\ m_link' = [m_link EXCEPT ![c] = IF parentFailed THEN NoFuture ELSE p]
           /\ m_error' = [m_error EXCEPT ![c] = IF parentFailed THEN m_error[p] ELSE @]
           /\ crashed' = IF p = NoFuture THEN m_link[c] # NoFuture ELSE state[p] \notin Done
           /\ Return(th, <<Call(IF HasTaskPost(c) THEN "TaskPost" ELSE "Invoke",
                                c, NoFuture, c, FALSE)>>
                         \o PostContinuation(p, m_link[c], op.cur))
           /\ UNCHANGED <<continuation, completeCount, userVars>>

(* The executor invokes the FutureCallback inline, keeps it for later, or  *)
(* cancels it (also by dropping it).                                       *)
TaskPost(th) ==
  /\ NextCall(th, "TaskPost")
  /\ LET f == Head(todo[th]).fut
         posted == <<Call("TrySetPosted", f, NoFuture, f, FALSE)>>
     IN \/ /\ Return(th, <<Call("Invoke", f, NoFuture, f, FALSE)>> \o posted)
           /\ UNCHANGED queued
        \/ /\ Return(th, posted)
           /\ queued' = queued \cup {f}
        \/ /\ Return(th, <<Call("TrySetError", f, Canceled, f, FALSE)>> \o posted)
           /\ UNCHANGED queued
  /\ UNCHANGED <<futureVars, finished, dropped, links, runs, crashed>>

TrySetPostedBlindly(th) ==
  /\ NextCall(th, "TrySetPosted")
  /\ state' = [state EXCEPT ![Head(todo[th]).fut] = "Posted"]
  /\ Return(th, <<>>)
  /\ UNCHANGED <<continuation, m_link, m_error, completeCount, userVars, crashed>>
TrySetPosted(th) ==
  /\ NextCall(th, "TrySetPosted")
  /\ LET f == Head(todo[th]).fut
     IN state' = [state EXCEPT ![f] = IF @ = "Posting" THEN "Posted" ELSE @]
  /\ Return(th, <<>>)
  /\ UNCHANGED <<continuation, m_link, m_error, completeCount, userVars, crashed>>

(* Another thread waits until TaskPost has returned to the posting one. *)
MustWait(op) == state[op.fut] = "Posting" /\ ~IsSynchronousCall(op)

(* TrySetInvoking, then the task. *)
Invoke(th) ==
  /\ NextCall(th, "Invoke")
  /\ LET op == Head(todo[th])
         f  == op.fut
     IN \/ /\ state[f] = "Posted" \/ (state[f] = "Posting" /\ IsSynchronousCall(op))
           /\ state' = [state EXCEPT ![f] = "Invoking"]
           /\ Return(th, <<Call("RunTask", f, NoFuture, f, FALSE)>>)
           /\ UNCHANGED <<continuation, m_link, m_error, completeCount, userVars, crashed>>
        \/ /\ state[f] \notin {"Posting", "Posted"}
           /\ UnexpectedState(th, IsSynchronousCall(op))
        \/ /\ MustWait(op)
           /\ WaitCyclesRunOut
           /\ UnexpectedState(th, FALSE)

(* Can c become a continuation of p by the rules of AddContinuation?  A    *)
(* unique future takes one, and shared ones after it.                      *)
InProgress(p) ==
  \E th \in Threads : \E i \in DOMAIN todo[th] :
    todo[th][i].call = "AddContinuation" /\ todo[th][i].fut = p

CanContinue(p, c) ==
  \/ IsShared(p)
  \/ Kind[c] = "shared" /\ ~InProgress(p)
  \/ \A d \in Futures : <<p, d>> \notin links

IsMade(f) == IsPromise(f) \/ \E p \in Futures \cup {NoFuture} : <<p, f>> \in links

ParentsOf(c) == {Inputs[c][i] : i \in DOMAIN Inputs[c]}

(* A parent's handle is at hand; the copy is attached before or after its  *)
(* own continuation (SharedFuture::Then, PromiseGroup::AddFuture).         *)
CanAdd(p, c) ==
  /\ p \in ParentsOf(c) \ dropped
  /\ IsMade(p) \/ Kind[p] = "copy"
  /\ CanContinue(p, c)

(* What the callback of Then or Catch returned: a value, an error, or a    *)
(* future whose completion k completes f.                                  *)
UserCallback(th, f) ==
  \/ Return(th, SetValue(f, f, TRUE)) /\ UNCHANGED links
  \/ Return(th, <<Call("TrySetError", f, f, f, TRUE)>>) /\ UNCHANGED links
  \/ \E k, p \in Futures :
       /\ Kind[k] = "completion" /\ Target[k] = f /\ ~IsMade(k)
       /\ CanAdd(p, k)
       /\ links' = links \cup {<<p, k>>}
       /\ Return(th, <<Call("StartAwaiting", f, NoFuture, f, TRUE),
                       Call("AddContinuation", p, k, f, FALSE)>>)

(* The calls of the library's own callbacks: a completion hands the value  *)
(* on, a copy or a Catch without an error sets the one of its parent.      *)
FutureCompletionTaskInvoke(f) ==
  <<Call("TrySetSuccess", f, NoFuture, f, TRUE)>> \o SetValue(Target[f], f, FALSE)
FutureWaitTaskInvoke(f) ==
  <<Call("TrySetSuccess", f, NoFuture, f, TRUE), Call("SetFinished", f, NoFuture, f, FALSE)>>
CopyTaskInvoke(f) == SetValue(f, f, TRUE)

TaskInvoke(f) ==
  IF Kind[f] = "completion" THEN FutureCompletionTaskInvoke(f)
  ELSE IF Kind[f] = "wait" THEN FutureWaitTaskInvoke(f)
  ELSE CopyTaskInvoke(f)

CatchWith(f, e) ==
  IF Kind[f] = "completion" THEN
    <<Call("TrySetError", Target[f], e, f, FALSE), Call("TrySetError", f, e, f, TRUE)>>
  ELSE IF Kind[f] = "wait" THEN
    <<Call("TrySetError", f, e, f, TRUE), Call("SetFinished", f, NoFuture, f, FALSE)>>
  ELSE IF Kind[f] = "token" THEN SetValue(f, f, TRUE)
  ELSE <<Call("TrySetError", f, e, f, FALSE)>>
TaskCatchMoved(f)    == CatchWith(f, NoError)
TaskCatchCancels(f)  == CatchWith(f, Canceled)
TaskCatch(f)         == CatchWith(f, m_error[f])

(* The part of Invoke after TrySetInvoking. *)
RunTask(th) ==
  /\ NextCall(th, "RunTask")
  /\ LET f == Head(todo[th]).fut
     IN /\ IF m_error[f] = NoError
           THEN \/ CallbackOnValue(f) /\ UserCallback(th, f) /\ UNCHANGED crashed
                \/ /\ HasTaskInvoke(f) /\ ~CallbackOnValue(f)
                   /\ Return(th, TaskInvoke(f))
                   /\ UNCHANGED <<links, crashed>>
                \/ /\ ~HasTaskInvoke(f)
                   /\ crashed' = (m_link[f] = NoFuture)
                   /\ Return(th, <<Call("TrySetSuccess", f, NoFuture, f, TRUE)>>)
                   /\ UNCHANGED links
           ELSE \/ CallbackOnError(f) /\ UserCallback(th, f) /\ UNCHANGED crashed
                \/ /\ HasTaskCatch(f) /\ ~CallbackOnError(f)
                   /\ Return(th, TaskCatch(f))
                   /\ UNCHANGED <<links, crashed>>
                \/ /\ ~HasTaskCatch(f)
                   /\ Return(th, <<Call("TrySetError", f, m_error[f], f, TRUE)>>)
                   /\ UNCHANGED <<links, crashed>>
        /\ runs' = [runs EXCEPT ![f] = @ + 1]
  /\ UNCHANGED <<futureVars, queued, finished, dropped>>

StartAwaiting(th) ==
  /\ NextCall(th, "StartAwaiting")
  /\ LET f == Head(todo[th]).fut
     IN IF state[f] = "Invoking"
        THEN /\ state' = [state EXCEPT ![f] = "Awaiting"]
             /\ Return(th, <<>>)
             /\ UNCHANGED <<continuation, m_link, m_error, completeCount, userVars, crashed>>
        ELSE UnexpectedState(th, TRUE)

CanStartSetValue(op) ==
  LET f == op.fut
  IN /\ ~IsVoidValue(f)
     /\ \/ state[f] = "Pending" /\ (IsMultiPost(f) \/ ~HasTaskInvoke(f))
        \/ state[f] = "Invoking" /\ IsSynchronousCall(op)
        \/ state[f] = "Awaiting"

(* The caller constructs the value and calls TrySetSuccess. *)
TryStartSetValue(th) ==
  /\ NextCall(th, "TryStartSetValue")
  /\ LET op == Head(todo[th])
         f  == op.fut
     IN IF CanStartSetValue(op)
        THEN /\ state' = [state EXCEPT ![f] = "SettingResult"]
             /\ Return(th, <<Call("TrySetSuccess", f, NoFuture, op.cur, TRUE)>>)
             /\ UNCHANGED <<continuation, m_link, m_error, completeCount, userVars, crashed>>
        ELSE UnexpectedState(th, op.strict)

CanSetSuccess(op) ==
  LET f == op.fut
  IN \/ /\ state[f] = "Pending"
        /\ IsMultiPost(f) \/ (~HasTaskInvoke(f) /\ ~UseParentValue(f))
        /\ IsVoidValue(f)
     \/ state[f] = "Posting" /\ ~HasTaskInvoke(f) /\ IsSynchronousCall(op) /\ UseParentValue(f)
     \/ state[f] = "Invoking" /\ IsSynchronousCall(op) /\ IsVoidValue(f)
     \/ state[f] = "Awaiting" /\ IsVoidValue(f)
     \/ state[f] = "SettingResult"

(* The state becomes final and the continuations are posted. *)
Complete(th, op, final) ==
  LET f == op.fut
  IN /\ state' = [state EXCEPT ![f] = final]
     /\ continuation' = [continuation EXCEPT ![f] =
                           IF @ = NoFuture THEN NoFuture ELSE ContinuationInvoked]
     /\ crashed' = (continuation[f] = ContinuationInvoked)
     /\ Return(th, PostContinuation(f, continuation[f], op.cur))

TrySetSuccess(th) ==
  /\ NextCall(th, "TrySetSuccess")
  /\ LET op == Head(todo[th])
         f  == op.fut
     IN IF CanSetSuccess(op)
        THEN /\ Complete(th, op, "Succeeded")
             /\ m_link' = [m_link EXCEPT ![f] = IF UseParentValue(f) THEN @ ELSE NoFuture]
             /\ m_error' = [m_error EXCEPT ![f] = NoError]
             /\ UNCHANGED <<completeCount, userVars>>
        ELSE UnexpectedState(th, op.strict)

CanStartSetErrorAgain(op) ==
  \/ state[op.fut] # "Invoking"
  \/ IsSynchronousCall(op)
CanStartSetError(op) ==
  LET f == op.fut
  IN \/ state[f] = "Pending" /\ m_link[f] = NoFuture
     \/ state[f] \in {"Posted", "Awaiting"}
     \/ state[f] \in {"Posting", "Invoking"} /\ IsSynchronousCall(op)

(* TryStartSetError; its caller stores the error, given as a value or      *)
(* moved out of another future's m_error.                                  *)
TrySetError(th) ==
  /\ NextCall(th, "TrySetError") \/ NextCall(th, "MoveError")
  /\ LET op == Head(todo[th])
         f  == op.fut
         e  == IF op.call = "MoveError" THEN m_error[op.arg] ELSE op.arg
     IN /\ ~MustWait(op)
        /\ IF CanStartSetError(op)
           THEN /\ state' = [state EXCEPT ![f] = "SettingResult"]
                /\ m_error' = [g \in Futures |->
                                 IF g = f THEN e
                                 ELSE IF op.call = "MoveError" /\ g = op.arg THEN NoError
                                 ELSE m_error[g]]
                /\ Return(th, <<Call("SetFailed", f, NoFuture, op.cur, TRUE)>>)
                /\ UNCHANGED <<continuation, m_link, completeCount, userVars, crashed>>
           ELSE UnexpectedState(th, op.strict)

SetFailed(th) ==
  /\ NextCall(th, "SetFailed")
  /\ LET op == Head(todo[th])
         f  == op.fut
     IN IF state[f] = "SettingResult"
        THEN /\ Complete(th, op, "Failed")
             /\ m_link' = [m_link EXCEPT ![f] = NoFuture]
             /\ UNCHANGED <<m_error, completeCount, userVars>>
        ELSE UnexpectedState(th, TRUE)

SetFinished(th) ==
  /\ NextCall(th, "SetFinished")
  /\ finished' = finished \cup {Head(todo[th]).fut}
  /\ Return(th, <<>>)
  /\ UNCHANGED <<futureVars, queued, dropped, links, runs, crashed>>

AwaitFinished(th) ==
  /\ NextCall(th, "AwaitFinished")
  /\ Head(todo[th]).fut \in finished
  /\ Return(th, <<>>)
  /\ UNCHANGED <<futureVars, userVars, crashed>>

CallStep(th) ==
  \/ AddContinuation(th) \/ TryPostInternal(th) \/ TaskPost(th) \/ TrySetPosted(th)
  \/ Invoke(th) \/ RunTask(th) \/ StartAwaiting(th) \/ TryStartSetValue(th)
  \/ TrySetSuccess(th) \/ TrySetError(th) \/ SetFailed(th)
  \/ SetFinished(th) \/ AwaitFinished(th)
-----------------------------------------------------------------------------
(* What a thread outside of the library may do. *)

Begin(th, calls) == todo[th] = <<>> /\ todo' = [todo EXCEPT ![th] = calls]

UserCall(th, f, name, arg) == <<Call(name, f, arg, NoFuture, FALSE)>>

(* c is made and added to p. *)
ContinueWith(th, p, c, calls) ==
  /\ ~IsMade(c)
  /\ CanAdd(p, c)
  /\ links' = links \cup {<<p, c>>}
  /\ Begin(th, UserCall(th, p, "AddContinuation", c) \o calls)
  /\ UNCHANGED <<futureVars, queued, finished, dropped, runs, crashed>>

Then(th, p, c) ==
  /\ Kind[p] # "token"
  /\ Kind[c] \in {"then", "maybe"}
  /\ ContinueWith(th, p, c, <<>>)

Catch(th, p, c) == Kind[c] = "catch" /\ ContinueWith(th, p, c, <<>>)

Share(th, p, c) == Kind[c] = "shared" /\ ContinueWith(th, p, c, <<>>)

(* SharedFuture::Then and Catch: a copy for each, and Then or Catch on it. *)
SharedThen(th, p, c) ==
  Kind[p] # "group" /\ Kind[c] = "copy" /\ ContinueWith(th, p, c, <<>>)

(* PromiseGroup::AddFuture *)
AddFuture(th, p, c) ==
  Kind[p] = "group" /\ Kind[c] = "copy" /\ ContinueWith(th, p, c, <<>>)

(* CancellationToken::WhenChanged().Then, and WhenCanceled. *)
WhenChanged(th, p, c) ==
  /\ Kind[p] = "token"
  /\ Kind[c] \in {"then", "maybe"}
  /\ ContinueWith(th, p, c, <<>>)

(* FutureWait returns at once if its future is done. *)
FutureWait(th, p, c) ==
  /\ Kind[c] = "wait"
  /\ state[p] \notin Done
  /\ ContinueWith(th, p, c, UserCall(th, c, "AwaitFinished", NoFuture))

Continue(th, p, c) ==
  \/ Then(th, p, c) \/ Catch(th, p, c) \/ Share(th, p, c) \/ SharedThen(th, p, c)
  \/ AddFuture(th, p, c) \/ WhenChanged(th, p, c) \/ FutureWait(th, p, c)

When(th, c) ==
  /\ ~IsMade(c)
  /\ \A p \in ParentsOf(c) : CanAdd(p, c)
  /\ links' = links \cup (ParentsOf(c) \X {c})
  /\ Begin(th, [i \in DOMAIN Inputs[c] |->
                  Call("AddContinuation", Inputs[c][i], c, NoFuture, FALSE)])
  /\ UNCHANGED <<futureVars, queued, finished, dropped, runs, crashed>>

WhenAll(th, c) == Kind[c] = "whenAll" /\ When(th, c)
WhenAny(th, c) == Kind[c] = "whenAny" /\ When(th, c)

PostFuture(th, c) ==
  /\ CallbackOnValue(c)
  /\ Inputs[c] = <<>>
  /\ ~IsMade(c)
  /\ links' = links \cup {<<NoFuture, c>>}
  /\ Begin(th, <<Call("TryPost", c, NoFuture, NoFuture, TRUE)>>)
  /\ UNCHANGED <<futureVars, queued, finished, dropped, runs, crashed>>

(* A promise is set: of two callers the later one gets false. *)
SetPromise(th, f, calls) ==
  /\ f \notin dropped
  /\ Begin(th, calls)
  /\ UNCHANGED <<futureVars, userVars, crashed>>

PromiseTrySetValue(th, f) ==
  Kind[f] = "promise" /\ SetPromise(th, f, SetValue(f, NoFuture, FALSE))
PromiseTrySetError(th, f) ==
  Kind[f] = "promise" /\ SetPromise(th, f, UserCall(th, f, "TrySetError", f))
PromiseTryCancel(th, f) ==
  Kind[f] = "promise" /\ SetPromise(th, f, UserCall(th, f, "TrySetError", Canceled))

GroupTrySetValue(th, f) ==
  Kind[f] = "group" /\ SetPromise(th, f, SetValue(f, NoFuture, FALSE))
GroupTrySetError(th, f) ==
  Kind[f] = "group" /\ SetPromise(th, f, UserCall(th, f, "TrySetError", f))

(* CancellationTokenSource::Cancel and Abandon *)
Cancel(th, f) ==
  /\ Kind[f] = "source" /\ th \in SourceUsers
  /\ SetPromise(th, f, SetValue(f, NoFuture, FALSE))
Abandon(th, f) ==
  /\ Kind[f] = "source" /\ th \in SourceUsers
  /\ SetPromise(th, f, UserCall(th, f, "TrySetError", Canceled))

Set(th, f) ==
  \/ PromiseTrySetValue(th, f) \/ PromiseTrySetError(th, f) \/ PromiseTryCancel(th, f)
  \/ GroupTrySetValue(th, f) \/ GroupTrySetError(th, f)
  \/ Cancel(th, f) \/ Abandon(th, f)

(* The last handle of a promise goes away: ~FutureImpl cancels it if it    *)
(* has continuations.                                                      *)
DropPromise(th, f) ==
  /\ IsPromise(f)
  /\ Kind[f] = "source" => th \in SourceUsers
  /\ f \notin dropped
  /\ \A u \in Threads : \A i \in DOMAIN todo[u] : todo[u][i].fut # f
  /\ dropped' = dropped \cup {f}
  /\ Begin(th, IF state[f] \notin Done /\ continuation[f] \in Futures
               THEN <<Call("TrySetError", f, Canceled, NoFuture, TRUE)>> ELSE <<>>)
  /\ UNCHANGED <<futureVars, queued, finished, links, runs, crashed>>

(* An executor invokes or cancels the FutureCallback it kept. *)
RunQueued(th, f) ==
  /\ f \in queued
  /\ queued' = queued \ {f}
  /\ \/ Begin(th, UserCall(th, f, "Invoke", NoFuture))
     \/ Begin(th, UserCall(th, f, "TrySetError", Canceled))
  /\ UNCHANGED <<futureVars, finished, dropped, links, runs, crashed>>

UserStep(th) ==
  \E f \in Futures :
    \/ \E c \in Futures : Continue(th, f, c)
    \/ WhenAll(th, f) \/ WhenAny(th, f)
    \/ PostFuture(th, f)
    \/ Set(th, f)
    \/ DropPromise(th, f)

(* A crash ends the process. *)
Next ==
  /\ ~crashed
  /\ \/ \E th \in Threads : CallStep(th)
     \/ \E th \in Users : UserStep(th)
     \/ \E th \in Executors, f \in Futures : RunQueued(th, f)

(* A thread finishes the calls it is in, and executors run what they hold. *)
Fairness ==
  /\ \A th \in Threads : WF_vars(~crashed /\ CallStep(th))
  /\ \A f \in Futures : WF_vars(~crashed /\ \E th \in Executors : RunQueued(th, f))

Spec == Init /\ [][Next]_vars
FairSpec == Spec /\ Fairness
-----------------------------------------------------------------------------
(* Properties *)

(* No VerifyElseCrash of futureImpl.cpp fails, whatever the order in which *)
(* threads complete, continue, post and cancel futures.                    *)
NoCrash == ~crashed

(* The state moves along the arrows drawn in futureImpl.h, and only along  *)
(* the short ones for WhenAll and WhenAny.                                 *)
Arrows ==
  {"Pending"} \X {"Succeeded", "SettingResult", "Posting"}
  \cup {"Posting"} \X {"Succeeded", "Invoking", "Posted", "SettingResult"}
  \cup {"Posted"} \X {"Invoking", "SettingResult"}
  \cup {"Invoking"} \X {"Succeeded", "Awaiting", "SettingResult"}
  \cup {"Awaiting"} \X {"Succeeded", "SettingResult"}
  \cup {"SettingResult"} \X {"Succeeded", "Failed"}
MultiPostArrows ==
  {"Pending"} \X {"Succeeded", "SettingResult"}
  \cup {"SettingResult"} \X {"Succeeded", "Failed"}
FollowsArrows ==
  \A f \in Futures :
    state'[f] # state[f] =>
      <<state[f], state'[f]>> \in (IF IsMultiPost(f) THEN MultiPostArrows ELSE Arrows)
DocumentedTransitions == [][FollowsArrows]_vars

(* A continuation is in the list of its parent, or in a list that a thread *)
(* is about to post, until it is posted: none is lost in the race between  *)
(* AddContinuation and the completion, and none is posted without it.      *)
Chain(head) ==
  LET reach[n \in 0..Cardinality(Futures)] ==
        IF n = 0 THEN {head}
        ELSE reach[n - 1] \cup {m_link[f] : f \in reach[n - 1] \cap Futures}
  IN reach[Cardinality(Futures)]
CallsOf(name) ==
  {op \in UNION {{todo[th][i] : i \in DOMAIN todo[th]} : th \in Threads} : op.call = name}
InHand(p, c) ==
  \/ \E op \in CallsOf("AddContinuation") : op.fut = p /\ op.arg = c
  \/ c \in Chain(continuation[p])
  \/ \E op \in CallsOf("TryPost") : op.arg = p /\ c \in Chain(op.fut)
ContinuationsKept ==
  \A p, c \in Futures :
    <<p, c>> \in links /\ ~IsMultiPost(c) /\ ~crashed
      => (state[c] = "Pending" <=> InHand(p, c))

(* The callback of a future runs at most once, and only by way of Invoking *)
(* (TrySetInvoking), so never after a cancellation.                        *)
RunsOnce ==
  \A f \in Futures : ~IsMultiPost(f) =>
    /\ runs[f] <= 1
    /\ state[f] \in {"Pending", "Posting", "Posted"} => runs[f] = 0
    /\ \A op \in CallsOf("RunTask") : op.fut = f => state[f] = "Invoking" /\ runs[f] = 0

(* A failed future keeps its error: SetFailed is reached with m_error set, *)
(* and no continuation takes it away.                                      *)
FailedHasError == \A f \in Futures : state[f] = "Failed" => m_error[f] # NoError

(* A future that only forwards its parent, and the future that awaits the  *)
(* parent, end as the parent did, with its error if it failed.             *)
Forwards(p, c) ==
  \/ <<p, c>> \in links /\ Kind[c] \in {"shared", "copy", "wait", "completion"}
  \/ \E k \in Futures : <<p, k>> \in links /\ Target[k] = c
ErrorForwarded ==
  \A p, c \in Futures :
    Forwards(p, c) /\ {state[p], state[c]} \subseteq Done
      => state[c] = state[p] /\ m_error[c] = m_error[p]

(* The futures behave like the graph of FutureGraph: a continuation starts *)
(* after its parent, results respect those of the parents and are final.   *)
Graph == INSTANCE FutureGraph WITH
  status <- [f \in Futures |->
               IF state[f] = "Pending" THEN "waiting"
               ELSE IF state[f] \in Done THEN state[f] ELSE "active"]
ImplementsFutureGraph == Graph!Spec

(* Once its parent is done a continuation is posted, run and completed,    *)
(* unless it waits for a future its callback returned; what awaits the     *)
(* parent is completed with it.                                            *)
EveryContinuationCompletes ==
  \A p, c \in Futures :
    <<p, c>> \in links /\ ~IsMultiPost(c) /\ state[p] \in Done
      ~> /\ state[c] \in Done \cup {"Awaiting"}
         /\ Kind[c] = "completion" => state[Target[c]] \in Done
         /\ Kind[c] = "wait" => c \in finished
=============================================================================
