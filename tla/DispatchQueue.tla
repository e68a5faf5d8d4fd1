----------------------------- MODULE DispatchQueue -----------------------------
(***************************************************************************)
(* What a dispatch queue promises its callers, whatever the scheduler      *)
(* (dispatchQueue.h, README.md of the liblet): a task handed to the queue  *)
(* is invoked once or canceled once, never both; pending tasks start in    *)
(* the order they were posted; a queue that was shut down accepts no new   *)
(* task, and Shutdown(Cancel) leaves none pending.                         *)
(***************************************************************************)
EXTENDS Sequences

CONSTANT Tasks

VARIABLES
  fresh,     \* not handed to the queue
  pending,   \* accepted, in the order of acceptance
  deferred,  \* set aside until the task that runs now returns
  running,
  finished,
  doomed,    \* will not run: OnCancel is owed
  canceled,
  accepting  \* not shut down

vars == <<fresh, pending, deferred, running, finished, doomed, canceled, accepting>>

Init ==
  /\ fresh = Tasks
  /\ pending = <<>>
  /\ deferred = {} /\ running = {} /\ finished = {} /\ doomed = {} /\ canceled = {}
  /\ accepting = TRUE

(* Post, or InvokeElsePost and DeferElsePost off the queue's threads. *)
Accept(t) ==
  /\ accepting
  /\ t \in fresh
  /\ fresh' = fresh \ {t}
  /\ pending' = Append(pending, t)
  /\ UNCHANGED <<deferred, running, finished, doomed, canceled, accepting>>

Reject(t) ==
  /\ ~accepting
  /\ t \in fresh
  /\ fresh' = fresh \ {t}
  /\ doomed' = doomed \cup {t}
  /\ UNCHANGED <<pending, deferred, running, finished, canceled, accepting>>

(* InvokeElsePost and DeferElsePost from inside a running task: these do   *)
(* not ask whether the queue is suspended or shut down.                    *)
InvokeInside(t) ==
  /\ running # {}
  /\ t \in fresh
  /\ fresh' = fresh \ {t}
  /\ running' = running \cup {t}
  /\ UNCHANGED <<pending, deferred, finished, doomed, canceled, accepting>>

Defer(t) ==
  /\ running # {}
  /\ t \in fresh
  /\ fresh' = fresh \ {t}
  /\ deferred' = deferred \cup {t}
  /\ UNCHANGED <<pending, running, finished, doomed, canceled, accepting>>

Start ==
  /\ pending # <<>>
  /\ running' = running \cup {Head(pending)}
  /\ pending' = Tail(pending)
  /\ UNCHANGED <<fresh, deferred, finished, doomed, canceled, accepting>>

(* A task returns, and a deferred one may take its place. *)
Finish(t) ==
  /\ t \in running
  /\ finished' = finished \cup {t}
  /\ \E next \in {{}} \cup {{u} : u \in deferred} :
       /\ running' = (running \ {t}) \cup next
       /\ deferred' = deferred \ next
  /\ UNCHANGED <<fresh, pending, doomed, canceled, accepting>>

Shutdown(action) ==
  /\ accepting' = FALSE
  /\ pending' = IF action = "Cancel" THEN <<>> ELSE pending
  /\ doomed' = IF action = "Cancel"
               THEN doomed \cup {pending[i] : i \in DOMAIN pending} ELSE doomed
  /\ UNCHANGED <<fresh, deferred, running, finished, canceled>>

Cancel(t) ==
  /\ t \in doomed
  /\ doomed' = doomed \ {t}
  /\ canceled' = canceled \cup {t}
  /\ UNCHANGED <<fresh, pending, deferred, running, finished, accepting>>

Next ==
  \/ \E t \in Tasks : Accept(t) \/ Reject(t) \/ InvokeInside(t) \/ Defer(t)
                      \/ Finish(t) \/ Cancel(t)
  \/ Start
  \/ \E action \in {"Complete", "Cancel"} : Shutdown(action)

Spec == Init /\ [][Next]_vars
-----------------------------------------------------------------------------
(* Every task is in exactly one place, and once: it is not handed over,    *)
(* waits, runs, has run, is about to be canceled or was canceled.  In      *)
(* particular none runs twice, none runs and is canceled, none is lost.    *)
Pending == {pending[i] : i \in DOMAIN pending}
OnePlace ==
  /\ pending \in Seq(Tasks)
  /\ \A i, j \in DOMAIN pending : pending[i] = pending[j] => i = j
  /\ Tasks = fresh \cup Pending \cup deferred \cup running \cup finished
             \cup doomed \cup canceled
  /\ fresh \cap (Pending \cup deferred \cup running \cup finished \cup doomed \cup canceled) = {}
  /\ Pending \cap (deferred \cup running \cup finished \cup doomed \cup canceled) = {}
  /\ deferred \cap (running \cup finished \cup doomed \cup canceled) = {}
  /\ running \cap (finished \cup doomed \cup canceled) = {}
  /\ finished \cap (doomed \cup canceled) = {}
  /\ doomed \cap canceled = {}

=============================================================================
