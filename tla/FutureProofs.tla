---------------------------- MODULE FutureProofs ----------------------------
(***************************************************************************)
(* Theorems about Future for any futures, threads and shape of the graph.  *)
(***************************************************************************)
EXTENDS Future, SequenceTheorems, FiniteSetTheorems, WellFoundedInduction, TLAPS

(* The word of a future holds the placeholder only when the future is      *)
(* done, so AddContinuation never links a continuation to the placeholder. *)
PlaceholderWhenDone ==
  \A f \in Futures : continuation[f] = ContinuationInvoked => state[f] \in Done

(* WhenAll and WhenAny futures are never posted. *)
MultiPostStates ==
  \A f \in Futures : IsMultiPost(f) => state[f] \in {"Pending", "SettingResult"} \cup Done

(* The inductive invariant. *)
IInv == TypeOK /\ PlaceholderWhenDone /\ MultiPostStates

(* A call made with an argument of the kind its name asks for is well      *)
(* typed.                                                                  *)
LEMMA CallTyped ==
  ASSUME NEW name \in CallNames, NEW f \in Futures, NEW arg \in Args(name),
         NEW cur \in Futures \cup {NoFuture}, NEW strict \in BOOLEAN
  PROVE  Call(name, f, arg, cur, strict) \in Calls
BY DEF Call, Calls, Args, Errors

(* What the fields of a well-typed call are. *)
LEMMA CallFields ==
  ASSUME NEW op \in Calls
  PROVE  /\ op.call \in CallNames
         /\ op.fut \in Futures
         /\ op.arg \in Args(op.call)
         /\ op.cur \in Futures \cup {NoFuture}
         /\ op.strict \in BOOLEAN
BY DEF Calls

(* The call at the head of todo[th] and those behind it are well typed. *)
LEMMA HeadTyped ==
  ASSUME TypeOK, NEW th \in Threads, NEW name, NextCall(th, name)
  PROVE  /\ Head(todo[th]) \in Calls
         /\ Tail(todo[th]) \in Seq(Calls)
         /\ Head(todo[th]).call = name
<1>1. todo[th] \in Seq(Calls) /\ todo[th] # <<>> BY DEF TypeOK, NextCall
<1>2. Head(todo[th]) \in Calls BY <1>1, HeadTailProperties
<1>3. Tail(todo[th]) \in Seq(Calls) BY <1>1, HeadTailProperties
<1> QED BY <1>2, <1>3 DEF NextCall

(* A call that returns leaves well-typed calls. *)
LEMMA ReturnTyped ==
  ASSUME TypeOK, NEW th \in Threads, NEW name, NextCall(th, name),
         NEW calls \in Seq(Calls), Return(th, calls)
  PROVE  todo' \in [Threads -> Seq(Calls)]
<1>1. Tail(todo[th]) \in Seq(Calls) BY HeadTyped
<1>2. calls \o Tail(todo[th]) \in Seq(Calls) BY <1>1, ConcatProperties
<1> QED BY <1>2 DEF Return, TypeOK

(* Sequences of up to two calls. *)
LEMMA Sequences ==
  ASSUME NEW x \in Calls, NEW y \in Calls
  PROVE  <<>> \in Seq(Calls) /\ <<x>> \in Seq(Calls) /\ <<x, y>> \in Seq(Calls)
OBVIOUS

(* A call in front of a sequence of calls. *)
LEMMA Prepended ==
  ASSUME NEW x \in Calls, NEW s \in Seq(Calls)
  PROVE  <<x>> \o s \in Seq(Calls)
OBVIOUS

(* The calls PostContinuation and SetValue stand for are well typed. *)
LEMMA PostContinuationTyped ==
  ASSUME NEW p \in Futures \cup {NoFuture}, NEW c, NEW cur \in Futures \cup {NoFuture}
  PROVE  PostContinuation(p, c, cur) \in Seq(Calls)
<1>1. CASE c \in Futures
  <2>1. p \in Args("TryPost") /\ "TryPost" \in CallNames BY DEF Args, CallNames
  <2>2. Call("TryPost", c, p, cur, FALSE) \in Calls BY <1>1, <2>1, CallTyped
  <2>3. PostContinuation(p, c, cur) = <<Call("TryPost", c, p, cur, FALSE)>>
    BY <1>1, Zenon DEF PostContinuation
  <2> QED BY <2>2, <2>3, Sequences, Zenon
<1>2. CASE c \notin Futures
  <2>1. PostContinuation(p, c, cur) = <<>> BY <1>2, Zenon DEF PostContinuation
  <2> QED BY <2>1
<1> QED BY <1>1, <1>2

(* SetValue makes a call of the kind its value type asks for. *)
LEMMA SetValueTyped ==
  ASSUME NEW f \in Futures, NEW cur \in Futures \cup {NoFuture}, NEW strict \in BOOLEAN
  PROVE  SetValue(f, cur, strict) \in Seq(Calls)
<1>1. Call("TrySetSuccess", f, NoFuture, cur, strict) \in Calls
  BY CallTyped DEF CallNames, Args
<1>2. Call("TryStartSetValue", f, NoFuture, cur, strict) \in Calls
  BY CallTyped DEF CallNames, Args
<1> QED BY <1>1, <1>2 DEF SetValue

(* A call that UnexpectedState turns down changes nothing but todo. *)
LEMMA UnexpectedTyped ==
  ASSUME TypeOK, NEW th \in Threads, NEW name, NextCall(th, name),
         NEW strict \in BOOLEAN, UnexpectedState(th, strict)
  PROVE  TypeOK'
<1>1. todo' \in [Threads -> Seq(Calls)]
  <2>1. Return(th, <<>>) /\ <<>> \in Seq(Calls) BY DEF UnexpectedState
  <2> QED BY <2>1, ReturnTyped
<1> QED BY <1>1 DEF UnexpectedState, TypeOK, futureVars, userVars

(* TypeOK across the calls of FutureImpl, one lemma for each. *)
LEMMA StoreTyped ==
  ASSUME TypeOK, NEW th \in Threads, NextCall(th, "AddContinuation"),
         NEW isDone \in BOOLEAN, NEW next \in Futures \cup {NoFuture},
         Store(th, Head(todo[th]), isDone, next)
  PROVE  TypeOK'
<1> DEFINE op == Head(todo[th])
<1>1. op \in Calls /\ op.call = "AddContinuation" BY HeadTyped
<1>2. op.fut \in Futures /\ op.arg \in Futures /\ op.cur \in Futures \cup {NoFuture}
  BY <1>1, CallFields DEF Args
<1>3. PostContinuation(op.fut, op.arg, op.cur) \in Seq(Calls) BY <1>2, PostContinuationTyped
<1>4. todo' \in [Threads -> Seq(Calls)]
  <2>1. <<>> \in Seq(Calls) OBVIOUS
  <2>2. PICK calls \in Seq(Calls) : Return(th, calls)
    BY <1>3, <2>1, Zenon DEF Store
  <2> QED BY <2>2, ReturnTyped
<1>5. continuation' \in [Futures -> Futures \cup {NoFuture, ContinuationInvoked}]
  BY <1>2 DEF Store, TypeOK
<1>6. m_link' \in [Futures -> Futures \cup {NoFuture}]
  BY <1>2 DEF Store, TypeOK
<1> QED BY <1>4, <1>5, <1>6 DEF Store, TypeOK, userVars

(* A new continuation is linked to a future or to nothing. *)
LEMMA AddContinuationTyped ==
  ASSUME TypeOK, PlaceholderWhenDone, NEW th \in Threads, AddContinuation(th)
  PROVE  TypeOK'
<1> DEFINE op == Head(todo[th])
<1>1. NextCall(th, "AddContinuation") BY DEF AddContinuation
<1>2. CASE UnexpectedState(th, TRUE) BY <1>1, <1>2, UnexpectedTyped
<1>3. CASE Attach(th, op)
  <2> DEFINE isDone == state[op.fut] \in Done
             next == IF isDone THEN NoFuture ELSE continuation[op.fut]
  <2>1. op.fut \in Futures BY <1>1, HeadTyped, CallFields
  <2>2. next \in Futures \cup {NoFuture} BY <2>1 DEF PlaceholderWhenDone, TypeOK
  <2>3. Store(th, op, isDone, next) BY <1>3 DEF Attach
  <2>4. isDone \in BOOLEAN OBVIOUS
  <2> HIDE DEF isDone, next
  <2> QED BY <1>1, <2>2, <2>3, <2>4, StoreTyped
<1> QED BY <1>2, <1>3 DEF AddContinuation

(* A posted WhenAll or WhenAny completes, fails or counts its parent. *)
LEMMA MultiPostTyped ==
  ASSUME TypeOK, NEW th \in Threads, NextCall(th, "TryPost"),
         Head(todo[th]).arg # NoFuture, MultiPost(th, Head(todo[th]))
  PROVE  TypeOK'
<1> DEFINE op == Head(todo[th])
           c == op.fut
           p == op.arg
           failure == <<Call("MoveError", c, p, c, FALSE)>>
<1>1. op \in Calls /\ op.call = "TryPost" BY HeadTyped
<1>2. c \in Futures /\ p \in Futures BY <1>1, CallFields DEF Args
<1>3. SetValue(c, c, TRUE) \in Seq(Calls) /\ SetValue(c, c, FALSE) \in Seq(Calls)
  BY <1>2, SetValueTyped
<1>4. <<>> \in Seq(Calls) /\ failure \in Seq(Calls)
  <2>1. p \in Args("MoveError") /\ "MoveError" \in CallNames BY <1>2 DEF Args, CallNames
  <2>2. Call("MoveError", c, p, c, FALSE) \in Calls BY <1>2, <2>1, CallTyped
  <2> QED BY <2>2, Sequences, Zenon
<1>5. PICK calls \in Seq(Calls) : Return(th, calls)
  <2> HIDE DEF failure
  <2> QED BY <1>3, <1>4, Zenon DEF MultiPost, failure
<1>6. todo' \in [Threads -> Seq(Calls)] BY <1>5, ReturnTyped
<1>7. completeCount' \in [Futures -> Nat]
  <2>1. \/ completeCount' = [completeCount EXCEPT ![c] = completeCount[c] + 1]
        \/ completeCount' = completeCount
    BY Zenon DEF MultiPost
  <2>2. completeCount \in [Futures -> Nat] BY DEF TypeOK
  <2> HIDE DEF c
  <2> QED BY <1>2, <2>1, <2>2
<1>8. runs' \in [Futures -> Nat] BY <1>2 DEF MultiPost, TypeOK
<1> QED BY <1>6, <1>7, <1>8 DEF MultiPost, TypeOK

(* A posted continuation points to its parent, its list goes on. *)
LEMMA TryPostTyped ==
  ASSUME TypeOK, NEW th \in Threads, TryPostInternal(th)
  PROVE  TypeOK'
<1> DEFINE op == Head(todo[th])
           c == op.fut
           p == op.arg
           first == Call(IF HasTaskPost(c) THEN "TaskPost" ELSE "Invoke", c, NoFuture, c, FALSE)
           rest == PostContinuation(p, m_link[c], op.cur)
<1>1. NextCall(th, "TryPost") BY DEF TryPostInternal
<1>2. op \in Calls /\ op.call = "TryPost" BY <1>1, HeadTyped
<1>3. /\ c \in Futures /\ p \in Futures \cup {NoFuture}
      /\ op.cur \in Futures \cup {NoFuture} /\ op.strict \in BOOLEAN
  BY <1>2, CallFields DEF Args
<1>4. CASE p # NoFuture /\ MultiPost(th, op) BY <1>1, <1>4, MultiPostTyped
<1>5. CASE UnexpectedState(th, TRUE) BY <1>1, <1>5, UnexpectedTyped
<1>6. CASE UnexpectedState(th, op.strict \/ m_link[c] # NoFuture)
  <2>1. (op.strict \/ m_link[c] # NoFuture) \in BOOLEAN OBVIOUS
  <2> QED BY <1>1, <1>6, <2>1, UnexpectedTyped
<1>7. CASE /\ state' = [state EXCEPT ![c] = "Posting"]
           /\ m_link' = [m_link EXCEPT ![c] =
                           IF p # NoFuture /\ state[p] = "Failed" THEN NoFuture ELSE p]
           /\ m_error' = [m_error EXCEPT ![c] =
                            IF p # NoFuture /\ state[p] = "Failed" THEN m_error[p] ELSE @]
           /\ crashed' = IF p = NoFuture THEN m_link[c] # NoFuture ELSE state[p] \notin Done
           /\ Return(th, <<first>> \o rest)
           /\ UNCHANGED <<continuation, completeCount, userVars>>
  <2>1. first \in Calls
    <3>1. "TaskPost" \in CallNames /\ NoFuture \in Args("TaskPost") BY DEF CallNames, Args
    <3>2. "Invoke" \in CallNames /\ NoFuture \in Args("Invoke") BY DEF CallNames, Args
    <3> QED BY <1>3, <3>1, <3>2, CallTyped
  <2>2. rest \in Seq(Calls) BY <1>3, PostContinuationTyped
  <2>3. <<first>> \o rest \in Seq(Calls)
    <3> HIDE DEF first, rest
    <3> QED BY <2>1, <2>2
  <2>4. todo' \in [Threads -> Seq(Calls)] BY <1>1, <1>7, <2>3, ReturnTyped
  <2>5. m_error' \in [Futures -> Errors \cup {NoError}] BY <1>3, <1>7 DEF TypeOK
  <2>6. m_link' \in [Futures -> Futures \cup {NoFuture}] BY <1>3, <1>7 DEF TypeOK
  <2>7. state' \in [Futures -> FutureState] BY <1>3, <1>7 DEF TypeOK, FutureState
  <2>8. crashed' \in BOOLEAN BY <1>7
  <2> QED BY <1>7, <2>4, <2>5, <2>6, <2>7, <2>8 DEF TypeOK, userVars
<1> QED BY <1>4, <1>5, <1>6, <1>7, Zenon DEF TryPostInternal

(* An executor is given a future. *)
LEMMA TaskPostTyped ==
  ASSUME TypeOK, NEW th \in Threads, TaskPost(th)
  PROVE  TypeOK'
<1> DEFINE f == Head(todo[th]).fut
           invoke == Call("Invoke", f, NoFuture, f, FALSE)
           cancel == Call("TrySetError", f, Canceled, f, FALSE)
           posted == Call("TrySetPosted", f, NoFuture, f, FALSE)
<1>1. NextCall(th, "TaskPost") BY DEF TaskPost
<1>2. f \in Futures BY <1>1, HeadTyped, CallFields
<1>3. invoke \in Calls /\ cancel \in Calls /\ posted \in Calls
  <2>1. /\ "Invoke" \in CallNames /\ NoFuture \in Args("Invoke")
        /\ "TrySetError" \in CallNames /\ Canceled \in Args("TrySetError")
        /\ "TrySetPosted" \in CallNames /\ NoFuture \in Args("TrySetPosted")
    BY DEF CallNames, Args, Errors
  <2> QED BY <1>2, <2>1, CallTyped
<1>4. /\ <<invoke>> \o <<posted>> \in Seq(Calls)
      /\ <<cancel>> \o <<posted>> \in Seq(Calls)
      /\ <<posted>> \in Seq(Calls)
  <2> HIDE DEF invoke, cancel, posted
  <2> QED BY <1>3
<1>5. PICK calls \in Seq(Calls) : Return(th, calls)
  BY <1>4, Zenon DEF TaskPost
<1>6. todo' \in [Threads -> Seq(Calls)] BY <1>1, <1>5, ReturnTyped
<1>7. queued' = queued \/ queued' = queued \cup {f} BY Zenon DEF TaskPost
<1>8. queued' \in SUBSET Futures BY <1>2, <1>7 DEF TypeOK
<1> QED BY <1>6, <1>8 DEF TaskPost, TypeOK, futureVars

(* A step that changes only the state of one future and todo. *)
LEMMA StateStepTyped ==
  ASSUME TypeOK, NEW f, NEW s \in FutureState,
         state' = [state EXCEPT ![f] = s], todo' \in [Threads -> Seq(Calls)],
         UNCHANGED <<continuation, m_link, m_error, completeCount, userVars, crashed>>
  PROVE  TypeOK'
BY DEF TypeOK, userVars

(* TrySetPosted moves from Posting or leaves the state. *)
LEMMA TrySetPostedTyped ==
  ASSUME TypeOK, NEW th \in Threads, TrySetPosted(th)
  PROVE  TypeOK'
<1> DEFINE f == Head(todo[th]).fut
           s == IF state[f] = "Posting" THEN "Posted" ELSE state[f]
<1>1. NextCall(th, "TrySetPosted") BY DEF TrySetPosted
<1>2. f \in Futures BY <1>1, HeadTyped, CallFields
<1>3. s \in FutureState BY <1>2 DEF TypeOK, FutureState
<1>4. state' = [state EXCEPT ![f] = s] BY Zenon DEF TrySetPosted
<1>5. todo' \in [Threads -> Seq(Calls)]
  <2>1. Return(th, <<>>) /\ <<>> \in Seq(Calls) BY DEF TrySetPosted
  <2> QED BY <1>1, <2>1, ReturnTyped
<1> HIDE DEF s, f
<1> QED BY <1>3, <1>4, <1>5, StateStepTyped, Zenon DEF TrySetPosted

(* Invoke starts the task or is turned down. *)
LEMMA InvokeTyped ==
  ASSUME TypeOK, NEW th \in Threads, Invoke(th)
  PROVE  TypeOK'
<1> DEFINE op == Head(todo[th])
           f == op.fut
           run == Call("RunTask", f, NoFuture, f, FALSE)
<1>1. NextCall(th, "Invoke") BY DEF Invoke
<1>2. f \in Futures BY <1>1, HeadTyped, CallFields
<1>3. CASE /\ state' = [state EXCEPT ![f] = "Invoking"]
           /\ Return(th, <<run>>)
           /\ UNCHANGED <<continuation, m_link, m_error, completeCount, userVars, crashed>>
  <2>1. "RunTask" \in CallNames /\ NoFuture \in Args("RunTask") BY DEF CallNames, Args
  <2>2. run \in Calls BY <1>2, <2>1, CallTyped
  <2>3. <<run>> \in Seq(Calls) BY <2>2, Sequences, Zenon
  <2>4. todo' \in [Threads -> Seq(Calls)] BY <1>1, <1>3, <2>3, ReturnTyped
  <2>5. "Invoking" \in FutureState BY DEF FutureState
  <2> QED BY <1>3, <2>4, <2>5, StateStepTyped, Zenon
<1>4. CASE UnexpectedState(th, IsSynchronousCall(op))
  <2>1. IsSynchronousCall(op) \in BOOLEAN BY DEF IsSynchronousCall
  <2> QED BY <1>1, <1>4, <2>1, UnexpectedTyped
<1>5. CASE UnexpectedState(th, FALSE) BY <1>1, <1>5, UnexpectedTyped
<1> QED BY <1>3, <1>4, <1>5, Zenon DEF Invoke

(* What a callback makes: a result of its own, or a completion future. *)
LEMMA UserCallbackTyped ==
  ASSUME TypeOK, NEW th \in Threads, NextCall(th, "RunTask"), NEW f \in Futures,
         UserCallback(th, f)
  PROVE  todo' \in [Threads -> Seq(Calls)] /\ links' \in SUBSET ((Futures \cup {NoFuture}) \X Futures)
<1> DEFINE error == Call("TrySetError", f, f, f, TRUE)
           await == Call("StartAwaiting", f, NoFuture, f, TRUE)
<1>1. links \in SUBSET ((Futures \cup {NoFuture}) \X Futures) BY DEF TypeOK
<1>2. CASE Return(th, SetValue(f, f, TRUE)) /\ UNCHANGED links
  <2>1. SetValue(f, f, TRUE) \in Seq(Calls) BY SetValueTyped
  <2>2. todo' \in [Threads -> Seq(Calls)] BY <1>2, <2>1, ReturnTyped
  <2> QED BY <1>1, <1>2, <2>2
<1>3. CASE Return(th, <<error>>) /\ UNCHANGED links
  <2>1. "TrySetError" \in CallNames /\ f \in Args("TrySetError") BY DEF CallNames, Args, Errors
  <2>2. error \in Calls BY <2>1, CallTyped
  <2>3. <<error>> \in Seq(Calls) BY <2>2, Sequences, Zenon
  <2>4. todo' \in [Threads -> Seq(Calls)] BY <1>3, <2>3, ReturnTyped
  <2> QED BY <1>1, <1>3, <2>4
<1>4. CASE \E k, p \in Futures :
             /\ links' = links \cup {<<p, k>>}
             /\ Return(th, <<await, Call("AddContinuation", p, k, f, FALSE)>>)
  <2>1. PICK k \in Futures, p \in Futures :
          /\ links' = links \cup {<<p, k>>}
          /\ Return(th, <<await, Call("AddContinuation", p, k, f, FALSE)>>)
    BY <1>4, Zenon
  <2>2. /\ "StartAwaiting" \in CallNames /\ NoFuture \in Args("StartAwaiting")
        /\ "AddContinuation" \in CallNames /\ k \in Args("AddContinuation")
    BY DEF CallNames, Args
  <2>3. await \in Calls /\ Call("AddContinuation", p, k, f, FALSE) \in Calls
    BY <2>2, CallTyped
  <2>4. <<await, Call("AddContinuation", p, k, f, FALSE)>> \in Seq(Calls)
    BY <2>3, Sequences, Zenon
  <2>5. todo' \in [Threads -> Seq(Calls)] BY <2>1, <2>4, ReturnTyped
  <2>6. links' \in SUBSET ((Futures \cup {NoFuture}) \X Futures) BY <1>1, <2>1
  <2> QED BY <2>5, <2>6
<1> QED BY <1>2, <1>3, <1>4, Zenon DEF UserCallback

(* The calls of the library's callbacks. *)
LEMMA TaskTyped ==
  ASSUME NEW f \in Futures, NEW e \in Errors \cup {NoError}
  PROVE  TaskInvoke(f) \in Seq(Calls) /\ CatchWith(f, e) \in Seq(Calls)
<1> DEFINE success == Call("TrySetSuccess", f, NoFuture, f, TRUE)
           finish == Call("SetFinished", f, NoFuture, f, FALSE)
           error == Call("TrySetError", f, e, f, TRUE)
           weak == Call("TrySetError", f, e, f, FALSE)
           forward == Call("TrySetError", Target[f], e, f, FALSE)
<1>1. /\ "TrySetSuccess" \in CallNames /\ NoFuture \in Args("TrySetSuccess")
      /\ "SetFinished" \in CallNames /\ NoFuture \in Args("SetFinished")
      /\ "TrySetError" \in CallNames /\ e \in Args("TrySetError")
  BY DEF CallNames, Args
<1>2. success \in Calls /\ finish \in Calls /\ error \in Calls /\ weak \in Calls
  BY <1>1, CallTyped
<1>3. SetValue(f, f, TRUE) \in Seq(Calls) BY SetValueTyped
<1>4. CASE Kind[f] = "completion"
  <2>1. Target[f] \in Futures BY <1>4, FutureAssumption
  <2>2. forward \in Calls BY <1>1, <2>1, CallTyped
  <2>3. SetValue(Target[f], f, FALSE) \in Seq(Calls) BY <2>1, SetValueTyped
  <2>4. <<success>> \o SetValue(Target[f], f, FALSE) \in Seq(Calls)
    BY <1>2, <2>3, Sequences, Prepended, Zenon
  <2>5. TaskInvoke(f) = <<success>> \o SetValue(Target[f], f, FALSE)
    BY <1>4, Zenon DEF TaskInvoke, FutureCompletionTaskInvoke
  <2>6. CatchWith(f, e) = <<forward, error>> BY <1>4, Zenon DEF CatchWith
  <2>7. <<forward, error>> \in Seq(Calls) BY <1>2, <2>2, Sequences, Zenon
  <2> QED BY <2>4, <2>5, <2>6, <2>7, Zenon
<1>5. CASE Kind[f] = "wait"
  <2>1. Kind[f] # "completion" BY <1>5
  <2>2. TaskInvoke(f) = <<success, finish>>
    BY <1>5, <2>1, Zenon DEF TaskInvoke, FutureWaitTaskInvoke
  <2>3. CatchWith(f, e) = <<error, finish>> BY <1>5, <2>1, Zenon DEF CatchWith
  <2> QED BY <1>2, <2>2, <2>3, Sequences, Zenon
<1>6. CASE Kind[f] = "token"
  <2>1. Kind[f] # "completion" /\ Kind[f] # "wait" BY <1>6
  <2>2. TaskInvoke(f) = SetValue(f, f, TRUE)
    BY <2>1, Zenon DEF TaskInvoke, CopyTaskInvoke
  <2>3. CatchWith(f, e) = SetValue(f, f, TRUE) BY <1>6, <2>1, Zenon DEF CatchWith
  <2> QED BY <1>3, <2>2, <2>3, Zenon
<1>7. CASE Kind[f] # "completion" /\ Kind[f] # "wait" /\ Kind[f] # "token"
  <2>1. TaskInvoke(f) = SetValue(f, f, TRUE)
    BY <1>7, Zenon DEF TaskInvoke, CopyTaskInvoke
  <2>2. CatchWith(f, e) = <<weak>> BY <1>7, Zenon DEF CatchWith
  <2> QED BY <1>2, <1>3, <2>1, <2>2, Sequences, Zenon
<1> QED BY <1>4, <1>5, <1>6, <1>7

(* A task leaves calls its future accepts, and an error to copy. *)
LEMMA RunTaskTyped ==
  ASSUME TypeOK, NEW th \in Threads, RunTask(th)
  PROVE  TypeOK'
<1> DEFINE f == Head(todo[th]).fut
           success == Call("TrySetSuccess", f, NoFuture, f, TRUE)
           error == Call("TrySetError", f, m_error[f], f, TRUE)
           LinksType == SUBSET ((Futures \cup {NoFuture}) \X Futures)
<1>1. NextCall(th, "RunTask") BY DEF RunTask
<1>2. f \in Futures BY <1>1, HeadTyped, CallFields
<1>3. m_error[f] \in Errors \cup {NoError} BY <1>2 DEF TypeOK
<1>4. <<success>> \in Seq(Calls) /\ <<error>> \in Seq(Calls)
  <2>1. /\ "TrySetSuccess" \in CallNames /\ NoFuture \in Args("TrySetSuccess")
        /\ "TrySetError" \in CallNames /\ m_error[f] \in Args("TrySetError")
    BY <1>3 DEF CallNames, Args
  <2>2. success \in Calls /\ error \in Calls BY <1>2, <2>1, CallTyped
  <2> QED BY <2>2, Sequences, Zenon
<1>5. TaskInvoke(f) \in Seq(Calls) /\ TaskCatch(f) \in Seq(Calls)
  BY <1>2, <1>3, TaskTyped, Zenon DEF TaskCatch
<1>6. \/ UserCallback(th, f)
      \/ \E calls \in Seq(Calls) : Return(th, calls) /\ UNCHANGED links
  BY <1>4, <1>5, Zenon DEF RunTask
<1>7. todo' \in [Threads -> Seq(Calls)] /\ links' \in LinksType
  <2>1. CASE UserCallback(th, f) BY <1>1, <1>2, <2>1, UserCallbackTyped, Zenon
  <2>2. CASE \E calls \in Seq(Calls) : Return(th, calls) /\ UNCHANGED links
    <3>1. PICK calls \in Seq(Calls) : Return(th, calls) /\ UNCHANGED links BY <2>2, Zenon
    <3>2. todo' \in [Threads -> Seq(Calls)] BY <1>1, <3>1, ReturnTyped
    <3>3. links' \in LinksType BY <3>1 DEF TypeOK
    <3> QED BY <3>2, <3>3
  <2> QED BY <1>6, <2>1, <2>2
<1>8. crashed' \in BOOLEAN
  <2>1. crashed' = crashed \/ crashed' = (m_link[f] = NoFuture) BY Zenon DEF RunTask
  <2>2. (m_link[f] = NoFuture) \in BOOLEAN OBVIOUS
  <2>3. crashed \in BOOLEAN BY DEF TypeOK
  <2> QED BY <2>1, <2>2, <2>3, Zenon
<1>9. runs' \in [Futures -> Nat]
  <2>1. runs' = [runs EXCEPT ![f] = runs[f] + 1] BY Zenon DEF RunTask
  <2>2. runs \in [Futures -> Nat] BY DEF TypeOK
  <2> HIDE DEF f
  <2> QED BY <1>2, <2>1, <2>2
<1>10. UNCHANGED <<futureVars, queued, finished, dropped>> BY Zenon DEF RunTask
<1> QED BY <1>7, <1>8, <1>9, <1>10 DEF TypeOK, futureVars

(* StartAwaiting moves to Awaiting or crashes. *)
LEMMA StartAwaitingTyped ==
  ASSUME TypeOK, NEW th \in Threads, StartAwaiting(th)
  PROVE  TypeOK'
<1> DEFINE f == Head(todo[th]).fut
<1>1. NextCall(th, "StartAwaiting") BY DEF StartAwaiting
<1>2. CASE /\ state' = [state EXCEPT ![f] = "Awaiting"]
           /\ Return(th, <<>>)
           /\ UNCHANGED <<continuation, m_link, m_error, completeCount, userVars, crashed>>
  <2>1. <<>> \in Seq(Calls) OBVIOUS
  <2>2. todo' \in [Threads -> Seq(Calls)] BY <1>1, <1>2, <2>1, ReturnTyped
  <2>3. "Awaiting" \in FutureState BY DEF FutureState
  <2> QED BY <1>2, <2>2, <2>3, StateStepTyped, Zenon
<1>3. CASE UnexpectedState(th, TRUE) BY <1>1, <1>3, UnexpectedTyped
<1> QED BY <1>2, <1>3, Zenon DEF StartAwaiting

(* TryStartSetValue reserves the future for one thread. *)
LEMMA TryStartSetValueTyped ==
  ASSUME TypeOK, NEW th \in Threads, TryStartSetValue(th)
  PROVE  TypeOK'
<1> DEFINE op == Head(todo[th])
           f == op.fut
           success == Call("TrySetSuccess", f, NoFuture, op.cur, TRUE)
<1>1. NextCall(th, "TryStartSetValue") BY DEF TryStartSetValue
<1>2. f \in Futures /\ op.cur \in Futures \cup {NoFuture} /\ op.strict \in BOOLEAN
  BY <1>1, HeadTyped, CallFields
<1>3. CASE /\ state' = [state EXCEPT ![f] = "SettingResult"]
           /\ Return(th, <<success>>)
           /\ UNCHANGED <<continuation, m_link, m_error, completeCount, userVars, crashed>>
  <2>1. "TrySetSuccess" \in CallNames /\ NoFuture \in Args("TrySetSuccess") BY DEF CallNames, Args
  <2>2. success \in Calls BY <1>2, <2>1, CallTyped
  <2>3. <<success>> \in Seq(Calls) BY <2>2, Sequences, Zenon
  <2>4. todo' \in [Threads -> Seq(Calls)] BY <1>1, <1>3, <2>3, ReturnTyped
  <2>5. "SettingResult" \in FutureState BY DEF FutureState
  <2> QED BY <1>3, <2>4, <2>5, StateStepTyped, Zenon
<1>4. CASE UnexpectedState(th, op.strict) BY <1>1, <1>2, <1>4, UnexpectedTyped
<1> QED BY <1>3, <1>4, Zenon DEF TryStartSetValue

(* What Complete changes; its callers set m_link and m_error. *)
LEMMA CompleteTyped ==
  ASSUME TypeOK, NEW th \in Threads, NEW name, NextCall(th, name),
         NEW final \in Done, Complete(th, Head(todo[th]), final),
         UNCHANGED <<completeCount, userVars>>,
         m_link' \in [Futures -> Futures \cup {NoFuture}],
         m_error' \in [Futures -> Errors \cup {NoError}]
  PROVE  TypeOK'
<1> DEFINE op == Head(todo[th])
           f == op.fut
           calls == PostContinuation(f, continuation[f], op.cur)
<1>1. f \in Futures /\ op.cur \in Futures \cup {NoFuture} BY HeadTyped, CallFields
<1>2. calls \in Seq(Calls) BY <1>1, PostContinuationTyped
<1>3. todo' \in [Threads -> Seq(Calls)]
  <2>1. Return(th, calls) BY DEF Complete
  <2> QED BY <1>2, <2>1, ReturnTyped
<1>4. state' \in [Futures -> FutureState] BY <1>1 DEF Complete, TypeOK, FutureState
<1>5. continuation' \in [Futures -> Futures \cup {NoFuture, ContinuationInvoked}]
  BY <1>1 DEF Complete, TypeOK
<1>6. crashed' \in BOOLEAN BY DEF Complete
<1> QED BY <1>3, <1>4, <1>5, <1>6 DEF TypeOK, userVars

(* TrySetSuccess completes the future and posts its list. *)
LEMMA TrySetSuccessTyped ==
  ASSUME TypeOK, NEW th \in Threads, TrySetSuccess(th)
  PROVE  TypeOK'
<1> DEFINE op == Head(todo[th])
           f == op.fut
<1>1. NextCall(th, "TrySetSuccess") BY DEF TrySetSuccess
<1>2. f \in Futures /\ op.strict \in BOOLEAN BY <1>1, HeadTyped, CallFields
<1>3. CASE /\ Complete(th, op, "Succeeded")
           /\ m_link' = [m_link EXCEPT ![f] = IF UseParentValue(f) THEN @ ELSE NoFuture]
           /\ m_error' = [m_error EXCEPT ![f] = NoError]
           /\ UNCHANGED <<completeCount, userVars>>
  <2>1. m_link' \in [Futures -> Futures \cup {NoFuture}] BY <1>2, <1>3 DEF TypeOK
  <2>2. m_error' \in [Futures -> Errors \cup {NoError}] BY <1>2, <1>3 DEF TypeOK
  <2>3. "Succeeded" \in Done BY DEF Done
  <2> QED BY <1>1, <1>3, <2>1, <2>2, <2>3, CompleteTyped, Zenon
<1>4. CASE UnexpectedState(th, op.strict) BY <1>1, <1>2, <1>4, UnexpectedTyped
<1> QED BY <1>3, <1>4, Zenon DEF TrySetSuccess

(* SetFailed completes the future and posts its list. *)
LEMMA SetFailedTyped ==
  ASSUME TypeOK, NEW th \in Threads, SetFailed(th)
  PROVE  TypeOK'
<1> DEFINE op == Head(todo[th])
           f == op.fut
<1>1. NextCall(th, "SetFailed") BY DEF SetFailed
<1>2. f \in Futures BY <1>1, HeadTyped, CallFields
<1>3. CASE /\ Complete(th, op, "Failed")
           /\ m_link' = [m_link EXCEPT ![f] = NoFuture]
           /\ UNCHANGED <<m_error, completeCount, userVars>>
  <2>1. m_link' \in [Futures -> Futures \cup {NoFuture}] BY <1>2, <1>3 DEF TypeOK
  <2>2. m_error' \in [Futures -> Errors \cup {NoError}] BY <1>3 DEF TypeOK
  <2>3. "Failed" \in Done BY DEF Done
  <2> QED BY <1>1, <1>3, <2>1, <2>2, <2>3, CompleteTyped, Zenon
<1>4. CASE UnexpectedState(th, TRUE) BY <1>1, <1>4, UnexpectedTyped
<1> QED BY <1>3, <1>4, Zenon DEF SetFailed

(* TrySetError stores an error, given or moved from another future. *)
LEMMA TrySetErrorTyped ==
  ASSUME TypeOK, NEW th \in Threads, TrySetError(th)
  PROVE  TypeOK'
<1> DEFINE op == Head(todo[th])
           f == op.fut
           e == IF op.call = "MoveError" THEN m_error[op.arg] ELSE op.arg
           failed == Call("SetFailed", f, NoFuture, op.cur, TRUE)
<1>1. PICK name \in {"TrySetError", "MoveError"} : NextCall(th, name)
  BY DEF TrySetError
<1>2. op \in Calls /\ op.call = name BY <1>1, HeadTyped
<1>3. f \in Futures /\ op.cur \in Futures \cup {NoFuture} /\ op.strict \in BOOLEAN
  BY <1>2, CallFields
<1>4. e \in Errors \cup {NoError}
  <2>1. CASE name = "MoveError"
    <3>1. op.arg \in Futures BY <1>2, <2>1, CallFields DEF Args
    <3> QED BY <1>2, <2>1, <3>1 DEF TypeOK
  <2>2. CASE name = "TrySetError" BY <1>2, <2>2, CallFields DEF Args
  <2> QED BY <1>1, <2>1, <2>2
<1>5. CASE /\ state' = [state EXCEPT ![f] = "SettingResult"]
           /\ m_error' = [g \in Futures |->
                            IF g = f THEN e
                            ELSE IF op.call = "MoveError" /\ g = op.arg THEN NoError
                            ELSE m_error[g]]
           /\ Return(th, <<failed>>)
           /\ UNCHANGED <<continuation, m_link, completeCount, userVars, crashed>>
  <2>1. "SetFailed" \in CallNames /\ NoFuture \in Args("SetFailed") BY DEF CallNames, Args
  <2>2. failed \in Calls BY <1>3, <2>1, CallTyped
  <2>3. <<failed>> \in Seq(Calls) BY <2>2, Sequences, Zenon
  <2>4. todo' \in [Threads -> Seq(Calls)] BY <1>1, <1>5, <2>3, ReturnTyped
  <2>5. state' \in [Futures -> FutureState] BY <1>5 DEF TypeOK, FutureState
  <2>6. m_error' \in [Futures -> Errors \cup {NoError}]
    <3> HIDE DEF e
    <3> QED BY <1>4, <1>5 DEF TypeOK
  <2> QED BY <1>5, <2>4, <2>5, <2>6 DEF TypeOK, userVars
<1>6. CASE UnexpectedState(th, op.strict) BY <1>1, <1>3, <1>6, UnexpectedTyped
<1> QED BY <1>5, <1>6, Zenon DEF TrySetError

(* Setting and awaiting the event of FutureWait. *)
LEMMA FinishedTyped ==
  ASSUME TypeOK, NEW th \in Threads, SetFinished(th) \/ AwaitFinished(th)
  PROVE  TypeOK'
<1>1. PICK name : NextCall(th, name) BY DEF SetFinished, AwaitFinished
<1>2. Head(todo[th]).fut \in Futures BY <1>1, HeadTyped, CallFields
<1>3. todo' \in [Threads -> Seq(Calls)]
  <2>1. Return(th, <<>>) /\ <<>> \in Seq(Calls) BY DEF SetFinished, AwaitFinished
  <2> QED BY <1>1, <2>1, ReturnTyped
<1>4. CASE SetFinished(th) BY <1>2, <1>3, <1>4 DEF SetFinished, TypeOK, futureVars
<1>5. CASE AwaitFinished(th) BY <1>3, <1>5 DEF AwaitFinished, TypeOK, futureVars, userVars
<1> QED BY <1>4, <1>5

(* Every step of FutureImpl. *)
LEMMA CallStepTyped ==
  ASSUME TypeOK, PlaceholderWhenDone, NEW th \in Threads, CallStep(th)
  PROVE  TypeOK'
BY AddContinuationTyped, TryPostTyped, TaskPostTyped, TrySetPostedTyped, InvokeTyped,
   RunTaskTyped, StartAwaitingTyped, TryStartSetValueTyped, TrySetSuccessTyped,
   TrySetErrorTyped, SetFailedTyped, FinishedTyped, Zenon
   DEF CallStep

(* TypeOK across what threads outside of the library do. *)
LEMMA BeginTyped ==
  ASSUME TypeOK, NEW th \in Threads, NEW calls \in Seq(Calls), Begin(th, calls)
  PROVE  todo' \in [Threads -> Seq(Calls)]
BY DEF Begin, TypeOK

(* A call a thread makes outside of any callback. *)
LEMMA UserCallTyped ==
  ASSUME NEW th, NEW f \in Futures, NEW name \in CallNames, NEW arg \in Args(name)
  PROVE  UserCall(th, f, name, arg) \in Seq(Calls)
<1>1. Call(name, f, arg, NoFuture, FALSE) \in Calls BY CallTyped
<1> QED BY <1>1, Sequences, Zenon DEF UserCall

(* A continuation is added, and what its maker calls next is typed. *)
LEMMA ContinueWithTyped ==
  ASSUME TypeOK, NEW th \in Threads, NEW p \in Futures, NEW c \in Futures,
         NEW calls \in Seq(Calls), ContinueWith(th, p, c, calls)
  PROVE  TypeOK'
<1> DEFINE add == UserCall(th, p, "AddContinuation", c)
<1>1. add \in Seq(Calls)
  <2>1. "AddContinuation" \in CallNames /\ c \in Args("AddContinuation") BY DEF CallNames, Args
  <2> QED BY <2>1, UserCallTyped
<1>2. add \o calls \in Seq(Calls)
  <2> HIDE DEF add
  <2> QED BY <1>1, ConcatProperties, Zenon
<1>3. Begin(th, add \o calls) BY Zenon DEF ContinueWith
<1>4. todo' \in [Threads -> Seq(Calls)]
  <2> HIDE DEF add
  <2> QED BY <1>2, <1>3, BeginTyped
<1>5. links' = links \cup {<<p, c>>} BY Zenon DEF ContinueWith
<1>6. links' \in SUBSET ((Futures \cup {NoFuture}) \X Futures) BY <1>5 DEF TypeOK
<1>7. UNCHANGED <<futureVars, queued, finished, dropped, runs, crashed>> BY Zenon DEF ContinueWith
<1> QED BY <1>4, <1>6, <1>7 DEF TypeOK, futureVars

(* Every operation that adds a continuation: Then, Catch, Share, those of  *)
(* a shared future, a promise group or a token, and FutureWait.            *)
LEMMA ContinueTyped ==
  ASSUME TypeOK, NEW th \in Threads, NEW p \in Futures, NEW c \in Futures, Continue(th, p, c)
  PROVE  TypeOK'
<1> DEFINE wait == UserCall(th, c, "AwaitFinished", NoFuture)
<1>1. <<>> \in Seq(Calls) /\ wait \in Seq(Calls)
  <2>1. "AwaitFinished" \in CallNames /\ NoFuture \in Args("AwaitFinished") BY DEF CallNames, Args
  <2>2. wait \in Seq(Calls) BY <2>1, UserCallTyped
  <2>3. <<>> \in Seq(Calls) OBVIOUS
  <2> QED BY <2>2, <2>3
<1>2. PICK calls \in Seq(Calls) : ContinueWith(th, p, c, calls)
  BY <1>1, Zenon DEF Continue, Then, Catch, Share, SharedThen, AddFuture, WhenChanged, FutureWait
<1> QED BY <1>2, ContinueWithTyped

(* WhenAll and WhenAny call AddContinuation on each of their futures. *)
LEMMA WhenTyped ==
  ASSUME TypeOK, NEW th \in Threads, NEW c \in Futures, When(th, c)
  PROVE  TypeOK'
<1> DEFINE calls == [i \in DOMAIN Inputs[c] |->
                       Call("AddContinuation", Inputs[c][i], c, NoFuture, FALSE)]
<1>1. Inputs[c] \in Seq(Futures) BY FutureAssumption
<1>2. \A i \in DOMAIN Inputs[c] : Inputs[c][i] \in Futures
  BY <1>1, ElementOfSeq
<1>3. \A i \in DOMAIN Inputs[c] :
        Call("AddContinuation", Inputs[c][i], c, NoFuture, FALSE) \in Calls
  <2>1. "AddContinuation" \in CallNames /\ c \in Args("AddContinuation") BY DEF CallNames, Args
  <2> QED BY <1>2, <2>1, CallTyped
<1>4. DOMAIN Inputs[c] = 1..Len(Inputs[c]) /\ Len(Inputs[c]) \in Nat
  BY <1>1, LenProperties
<1>5. calls \in Seq(Calls)
  <2>1. calls \in [1..Len(Inputs[c]) -> Calls] BY <1>3, <1>4
  <2> HIDE DEF calls
  <2> QED BY <1>4, <2>1, SeqDef
<1>6. todo' \in [Threads -> Seq(Calls)]
  <2>1. Begin(th, calls) BY DEF When
  <2> QED BY <1>5, <2>1, BeginTyped
<1>7. ParentsOf(c) \subseteq Futures BY <1>2 DEF ParentsOf
<1>8. links' = links \cup (ParentsOf(c) \X {c}) BY Zenon DEF When
<1>9. links' \in SUBSET ((Futures \cup {NoFuture}) \X Futures) BY <1>7, <1>8 DEF TypeOK
<1>10. UNCHANGED <<futureVars, queued, finished, dropped, runs, crashed>> BY Zenon DEF When
<1> QED BY <1>6, <1>9, <1>10 DEF TypeOK, futureVars

(* PostFuture posts a future that has no parent. *)
LEMMA PostFutureTyped ==
  ASSUME TypeOK, NEW th \in Threads, NEW c \in Futures, PostFuture(th, c)
  PROVE  TypeOK'
<1> DEFINE post == Call("TryPost", c, NoFuture, NoFuture, TRUE)
<1>1. "TryPost" \in CallNames /\ NoFuture \in Args("TryPost") BY DEF CallNames, Args
<1>2. post \in Calls BY <1>1, CallTyped
<1>3. <<post>> \in Seq(Calls) BY <1>2, Sequences, Zenon
<1>4. todo' \in [Threads -> Seq(Calls)]
  <2>1. Begin(th, <<post>>) BY DEF PostFuture
  <2> QED BY <1>3, <2>1, BeginTyped
<1>5. links' = links \cup {<<NoFuture, c>>} BY Zenon DEF PostFuture
<1>6. links' \in SUBSET ((Futures \cup {NoFuture}) \X Futures) BY <1>5 DEF TypeOK
<1>7. UNCHANGED <<futureVars, queued, finished, dropped, runs, crashed>> BY Zenon DEF PostFuture
<1> QED BY <1>4, <1>6, <1>7 DEF TypeOK, futureVars

(* Setting a promise: a value, an error or a cancellation. *)
LEMMA SetTyped ==
  ASSUME TypeOK, NEW th \in Threads, NEW f \in Futures, Set(th, f)
  PROVE  TypeOK'
<1> DEFINE error == UserCall(th, f, "TrySetError", f)
           cancel == UserCall(th, f, "TrySetError", Canceled)
           value == SetValue(f, NoFuture, FALSE)
<1>1. /\ "TrySetError" \in CallNames
      /\ f \in Args("TrySetError") /\ Canceled \in Args("TrySetError")
  BY DEF CallNames, Args, Errors
<1>2. error \in Seq(Calls) /\ cancel \in Seq(Calls) /\ value \in Seq(Calls)
  BY <1>1, UserCallTyped, SetValueTyped
<1>3. PICK calls \in Seq(Calls) : SetPromise(th, f, calls)
  BY <1>2, Zenon DEF Set, PromiseTrySetValue, PromiseTrySetError, PromiseTryCancel,
                     GroupTrySetValue, GroupTrySetError, Cancel, Abandon
<1>4. Begin(th, calls) /\ UNCHANGED <<futureVars, userVars, crashed>> BY <1>3, Zenon DEF SetPromise
<1>5. todo' \in [Threads -> Seq(Calls)] BY <1>4, BeginTyped
<1> QED BY <1>4, <1>5 DEF TypeOK, futureVars, userVars

(* The last handle of a promise goes away. *)
LEMMA DropPromiseTyped ==
  ASSUME TypeOK, NEW th \in Threads, NEW f \in Futures, DropPromise(th, f)
  PROVE  TypeOK'
<1> DEFINE cancel == <<Call("TrySetError", f, Canceled, NoFuture, TRUE)>>
<1>1. "TrySetError" \in CallNames /\ Canceled \in Args("TrySetError")
  BY DEF CallNames, Args, Errors
<1>2. <<>> \in Seq(Calls) /\ cancel \in Seq(Calls)
  <2>1. Call("TrySetError", f, Canceled, NoFuture, TRUE) \in Calls BY <1>1, CallTyped
  <2> QED BY <2>1, Sequences, Zenon
<1>3. PICK calls \in Seq(Calls) : Begin(th, calls) BY <1>2, Zenon DEF DropPromise
<1>4. todo' \in [Threads -> Seq(Calls)] BY <1>3, BeginTyped
<1>5. dropped' = dropped \cup {f} BY Zenon DEF DropPromise
<1>6. dropped' \in SUBSET Futures BY <1>5 DEF TypeOK
<1>7. UNCHANGED <<futureVars, queued, finished, links, runs, crashed>> BY Zenon DEF DropPromise
<1> QED BY <1>4, <1>6, <1>7 DEF TypeOK, futureVars

(* An executor takes a callback out of what it holds. *)
LEMMA RunQueuedTyped ==
  ASSUME TypeOK, NEW th \in Threads, NEW f \in Futures, RunQueued(th, f)
  PROVE  TypeOK'
<1> DEFINE invoke == UserCall(th, f, "Invoke", NoFuture)
           cancel == UserCall(th, f, "TrySetError", Canceled)
<1>1. /\ "Invoke" \in CallNames /\ NoFuture \in Args("Invoke")
      /\ "TrySetError" \in CallNames /\ Canceled \in Args("TrySetError")
  BY DEF CallNames, Args, Errors
<1>2. invoke \in Seq(Calls) /\ cancel \in Seq(Calls) BY <1>1, UserCallTyped
<1>3. PICK calls \in Seq(Calls) : Begin(th, calls) BY <1>2, Zenon DEF RunQueued
<1>4. todo' \in [Threads -> Seq(Calls)] BY <1>3, BeginTyped
<1>5. queued' \in SUBSET Futures BY DEF RunQueued, TypeOK
<1>6. UNCHANGED <<futureVars, finished, dropped, links, runs, crashed>> BY Zenon DEF RunQueued
<1> QED BY <1>4, <1>5, <1>6 DEF TypeOK, futureVars

(* Every step keeps the types. *)
LEMMA NextTyped ==
  ASSUME TypeOK, PlaceholderWhenDone, Next
  PROVE  TypeOK'
<1>1. CASE \E th \in Threads : CallStep(th) BY <1>1, CallStepTyped
<1>2. CASE \E th \in Users : UserStep(th)
  <2>1. PICK th \in Threads : UserStep(th) BY <1>2 DEF Threads
  <2> QED BY <2>1, ContinueTyped, WhenTyped, PostFutureTyped, SetTyped, DropPromiseTyped, Zenon
          DEF UserStep, WhenAll, WhenAny
<1>3. CASE \E th \in Executors, f \in Futures : RunQueued(th, f)
  BY <1>3, RunQueuedTyped DEF Threads
<1> QED BY <1>1, <1>2, <1>3, Zenon DEF Next

(* A step the word of a future may take. *)
SafeStep == PlaceholderWhenDone' /\ MultiPostStates' /\ FollowsArrows

(* A step that touches neither half of any word is safe. *)
LEMMA QuietSafe ==
  ASSUME IInv, UNCHANGED <<state, continuation>>
  PROVE  SafeStep
BY DEF IInv, SafeStep, PlaceholderWhenDone, MultiPostStates, FollowsArrows, IsMultiPost

(* So is one that moves an unfinished future along an arrow and leaves its *)
(* continuations alone.                                                    *)
LEMMA MoveSafe ==
  ASSUME IInv, NEW f \in Futures, NEW s, state[f] \notin Done,
         state' = [state EXCEPT ![f] = s], UNCHANGED continuation,
         <<state[f], s>> \in (IF IsMultiPost(f) THEN MultiPostArrows ELSE Arrows)
  PROVE  SafeStep
<1>1. state \in [Futures -> FutureState] BY DEF IInv, TypeOK
<1>2. \A g \in Futures : state'[g] = IF g = f THEN s ELSE state[g] BY <1>1
<1>3. PlaceholderWhenDone' BY <1>2 DEF IInv, PlaceholderWhenDone
<1>4. IsMultiPost(f) => s \in {"Pending", "SettingResult"} \cup Done
  BY DEF MultiPostArrows, Done
<1>5. MultiPostStates' BY <1>2, <1>4 DEF IInv, MultiPostStates, IsMultiPost
<1>6. FollowsArrows BY <1>2 DEF FollowsArrows, IsMultiPost
<1> QED BY <1>3, <1>5, <1>6 DEF SafeStep

(* Complete is safe where an arrow leads to the final state. *)
LEMMA CompleteSafe ==
  ASSUME IInv, NEW th, NEW op, op.fut \in Futures, NEW final \in Done,
         Complete(th, op, final),
         <<state[op.fut], final>> \in (IF IsMultiPost(op.fut) THEN MultiPostArrows ELSE Arrows)
  PROVE  SafeStep
<1> DEFINE f == op.fut
<1>1. /\ state \in [Futures -> FutureState]
      /\ continuation \in [Futures -> Futures \cup {NoFuture, ContinuationInvoked}]
  BY DEF IInv, TypeOK
<1>2. state' = [state EXCEPT ![f] = final] BY Zenon DEF Complete
<1>3. \E x : continuation' = [continuation EXCEPT ![f] = x] BY Zenon DEF Complete
<1> HIDE DEF f
<1>4. f \in Futures BY DEF f
<1>5. \A g \in Futures : state'[g] = IF g = f THEN final ELSE state[g] BY <1>1, <1>2, <1>4
<1>6. \A g \in Futures : g # f => continuation'[g] = continuation[g] BY <1>1, <1>3, <1>4
<1>7. PlaceholderWhenDone' BY <1>5, <1>6 DEF IInv, PlaceholderWhenDone
<1>8. MultiPostStates' BY <1>5 DEF IInv, MultiPostStates, IsMultiPost
<1>9. FollowsArrows BY <1>5 DEF FollowsArrows, IsMultiPost, f
<1> QED BY <1>7, <1>8, <1>9 DEF SafeStep

(* The calls that change a word, one lemma for each. *)
LEMMA AddContinuationSafe ==
  ASSUME IInv, NEW th \in Threads, AddContinuation(th)
  PROVE  SafeStep
<1> DEFINE op == Head(todo[th])
           f == op.fut
<1>1. NextCall(th, "AddContinuation") /\ TypeOK BY DEF AddContinuation, IInv
<1>2. op \in Calls /\ op.call = "AddContinuation" BY <1>1, HeadTyped
<1>3. f \in Futures /\ op.arg \in Futures BY <1>2, CallFields DEF Args
<1>4. CASE UnexpectedState(th, TRUE) BY <1>4, QuietSafe DEF UnexpectedState, futureVars
<1>5. CASE Attach(th, op)
  <2>1. /\ continuation' = [continuation EXCEPT ![f] =
                              IF state[f] \in Done THEN ContinuationInvoked ELSE op.arg]
        /\ state' = state
    BY <1>5, Zenon DEF Attach, Store
  <2>2. op.arg # ContinuationInvoked BY <1>3, FutureAssumption
  <2>3. PlaceholderWhenDone'
    <3> HIDE DEF f
    <3> QED BY <1>1, <1>3, <2>1, <2>2 DEF IInv, PlaceholderWhenDone, TypeOK
  <2>4. MultiPostStates' BY <2>1 DEF IInv, MultiPostStates, IsMultiPost
  <2> QED BY <2>1, <2>3, <2>4 DEF SafeStep, FollowsArrows
<1> QED BY <1>4, <1>5 DEF AddContinuation

(* TryPostInternal moves only a Pending future that is no WhenAll or WhenAny. *)
LEMMA TryPostSafe ==
  ASSUME IInv, NEW th \in Threads, TryPostInternal(th)
  PROVE  SafeStep
<1> DEFINE op == Head(todo[th])
           c == op.fut
<1>1. NextCall(th, "TryPost") /\ TypeOK BY DEF TryPostInternal, IInv
<1>2. c \in Futures BY <1>1, HeadTyped, CallFields
<1>3. \/ UNCHANGED <<state, continuation>>
      \/ /\ ~IsMultiPost(c) /\ state[c] = "Pending"
         /\ state' = [state EXCEPT ![c] = "Posting"] /\ UNCHANGED continuation
  <2>1. ASSUME NEW strict, UnexpectedState(th, strict) PROVE UNCHANGED <<state, continuation>>
    BY <2>1 DEF UnexpectedState, futureVars
  <2>2. ASSUME MultiPost(th, op) PROVE UNCHANGED <<state, continuation>>
    BY <2>2 DEF MultiPost
  <2> QED BY <2>1, <2>2, Zenon DEF TryPostInternal
<1>4. CASE UNCHANGED <<state, continuation>> BY <1>4, QuietSafe
<1>5. CASE /\ ~IsMultiPost(c) /\ state[c] = "Pending"
           /\ state' = [state EXCEPT ![c] = "Posting"] /\ UNCHANGED continuation
  <2>1. <<"Pending", "Posting">> \in Arrows /\ "Pending" \notin Done BY DEF Arrows, Done
  <2> QED BY <1>2, <1>5, <2>1, MoveSafe
<1> QED BY <1>3, <1>4, <1>5

(* TrySetPosted comes too late for a future that was invoked or canceled. *)
LEMMA TrySetPostedSafe ==
  ASSUME IInv, NEW th \in Threads, TrySetPosted(th)
  PROVE  SafeStep
<1> DEFINE f == Head(todo[th]).fut
<1>1. NextCall(th, "TrySetPosted") /\ TypeOK BY DEF TrySetPosted, IInv
<1>2. f \in Futures BY <1>1, HeadTyped, CallFields
<1>3. /\ state' = [state EXCEPT ![f] = IF state[f] = "Posting" THEN "Posted" ELSE state[f]]
      /\ UNCHANGED continuation
  BY Zenon DEF TrySetPosted
<1> HIDE DEF f
<1>4. CASE state[f] = "Posting"
  <2>1. ~IsMultiPost(f) BY <1>2, <1>4 DEF IInv, MultiPostStates, Done
  <2>2. <<"Posting", "Posted">> \in Arrows /\ "Posting" \notin Done BY DEF Arrows, Done
  <2> QED BY <1>2, <1>3, <1>4, <2>1, <2>2, MoveSafe
<1>5. CASE state[f] # "Posting"
  <2>1. state' = state BY <1>1, <1>2, <1>3, <1>5 DEF TypeOK
  <2> QED BY <1>3, <2>1, QuietSafe
<1> QED BY <1>4, <1>5

(* Invoke moves only a posted future. *)
LEMMA InvokeSafe ==
  ASSUME IInv, NEW th \in Threads, Invoke(th)
  PROVE  SafeStep
<1> DEFINE f == Head(todo[th]).fut
<1>1. NextCall(th, "Invoke") /\ TypeOK BY DEF Invoke, IInv
<1>2. f \in Futures BY <1>1, HeadTyped, CallFields
<1>3. \/ UNCHANGED <<state, continuation>>
      \/ /\ state[f] = "Posted" \/ state[f] = "Posting"
         /\ state' = [state EXCEPT ![f] = "Invoking"] /\ UNCHANGED continuation
  <2>1. ASSUME NEW strict, UnexpectedState(th, strict) PROVE UNCHANGED <<state, continuation>>
    BY <2>1 DEF UnexpectedState, futureVars
  <2> QED BY <2>1, Zenon DEF Invoke
<1> HIDE DEF f
<1>4. CASE UNCHANGED <<state, continuation>> BY <1>4, QuietSafe
<1>5. CASE /\ state[f] = "Posted" \/ state[f] = "Posting"
           /\ state' = [state EXCEPT ![f] = "Invoking"] /\ UNCHANGED continuation
  <2>1. ~IsMultiPost(f) BY <1>2, <1>5 DEF IInv, MultiPostStates, Done
  <2>2. <<state[f], "Invoking">> \in Arrows /\ state[f] \notin Done BY <1>5 DEF Arrows, Done
  <2> QED BY <1>2, <1>5, <2>1, <2>2, MoveSafe
<1> QED BY <1>3, <1>4, <1>5

(* StartAwaiting moves only the future being invoked. *)
LEMMA StartAwaitingSafe ==
  ASSUME IInv, NEW th \in Threads, StartAwaiting(th)
  PROVE  SafeStep
<1> DEFINE f == Head(todo[th]).fut
<1>1. NextCall(th, "StartAwaiting") /\ TypeOK BY DEF StartAwaiting, IInv
<1>2. f \in Futures BY <1>1, HeadTyped, CallFields
<1>3. CASE UnexpectedState(th, TRUE) BY <1>3, QuietSafe DEF UnexpectedState, futureVars
<1>4. CASE /\ state[f] = "Invoking"
           /\ state' = [state EXCEPT ![f] = "Awaiting"] /\ UNCHANGED continuation
  <2> HIDE DEF f
  <2>1. ~IsMultiPost(f) BY <1>2, <1>4 DEF IInv, MultiPostStates, Done
  <2>2. <<"Invoking", "Awaiting">> \in Arrows /\ "Invoking" \notin Done BY DEF Arrows, Done
  <2> QED BY <1>2, <1>4, <2>1, <2>2, MoveSafe
<1> QED BY <1>3, <1>4, Zenon DEF StartAwaiting

(* TryStartSetValue never takes a future that is done or being set. *)
LEMMA TryStartSetValueSafe ==
  ASSUME IInv, NEW th \in Threads, TryStartSetValue(th)
  PROVE  SafeStep
<1> DEFINE op == Head(todo[th])
           f == op.fut
<1>1. NextCall(th, "TryStartSetValue") /\ TypeOK BY DEF TryStartSetValue, IInv
<1>2. f \in Futures BY <1>1, HeadTyped, CallFields
<1>3. CASE UnexpectedState(th, op.strict) BY <1>3, QuietSafe DEF UnexpectedState, futureVars
<1>4. CASE /\ CanStartSetValue(op)
           /\ state' = [state EXCEPT ![f] = "SettingResult"] /\ UNCHANGED continuation
  <2>1. state[f] \in {"Pending", "Invoking", "Awaiting"} BY <1>4, Zenon DEF CanStartSetValue
  <2> HIDE DEF f
  <2>2. IsMultiPost(f) => state[f] = "Pending" BY <1>2, <2>1 DEF IInv, MultiPostStates, Done
  <2>3. <<state[f], "SettingResult">> \in (IF IsMultiPost(f) THEN MultiPostArrows ELSE Arrows)
    BY <2>1, <2>2 DEF Arrows, MultiPostArrows
  <2>4. state[f] \notin Done BY <2>1 DEF Done
  <2> QED BY <1>2, <1>4, <2>3, <2>4, MoveSafe
<1> QED BY <1>3, <1>4, Zenon DEF TryStartSetValue

(* TrySetError never takes a future that is done or being set. *)
LEMMA TrySetErrorSafe ==
  ASSUME IInv, NEW th \in Threads, TrySetError(th)
  PROVE  SafeStep
<1> DEFINE op == Head(todo[th])
           f == op.fut
<1>1. TypeOK BY DEF IInv
<1>2. f \in Futures BY <1>1, HeadTyped, CallFields, Zenon DEF TrySetError
<1>3. CASE UnexpectedState(th, op.strict) BY <1>3, QuietSafe DEF UnexpectedState, futureVars
<1>4. CASE /\ CanStartSetError(op)
           /\ state' = [state EXCEPT ![f] = "SettingResult"] /\ UNCHANGED continuation
  <2>1. state[f] \in {"Pending", "Posting", "Posted", "Invoking", "Awaiting"}
    BY <1>4 DEF CanStartSetError
  <2> HIDE DEF f
  <2>2. IsMultiPost(f) => state[f] = "Pending" BY <1>2, <2>1 DEF IInv, MultiPostStates, Done
  <2>3. <<state[f], "SettingResult">> \in (IF IsMultiPost(f) THEN MultiPostArrows ELSE Arrows)
    BY <2>1, <2>2 DEF Arrows, MultiPostArrows
  <2>4. state[f] \notin Done BY <2>1 DEF Done
  <2> QED BY <1>2, <1>4, <2>3, <2>4, MoveSafe
<1> QED BY <1>3, <1>4, Zenon DEF TrySetError

(* TrySetSuccess never takes a future that is done. *)
LEMMA TrySetSuccessSafe ==
  ASSUME IInv, NEW th \in Threads, TrySetSuccess(th)
  PROVE  SafeStep
<1> DEFINE op == Head(todo[th])
           f == op.fut
<1>1. NextCall(th, "TrySetSuccess") /\ TypeOK BY DEF TrySetSuccess, IInv
<1>2. f \in Futures BY <1>1, HeadTyped, CallFields
<1>3. CASE UnexpectedState(th, op.strict) BY <1>3, QuietSafe DEF UnexpectedState, futureVars
<1>4. CASE CanSetSuccess(op) /\ Complete(th, op, "Succeeded")
  <2>1. state[f] \in {"Pending", "Posting", "Invoking", "Awaiting", "SettingResult"}
    BY <1>4 DEF CanSetSuccess
  <2>2. IsMultiPost(f) => state[f] \in {"Pending", "SettingResult"}
    <3> HIDE DEF f
    <3> QED BY <1>2, <2>1 DEF IInv, MultiPostStates, Done
  <2>3. <<state[f], "Succeeded">> \in (IF IsMultiPost(f) THEN MultiPostArrows ELSE Arrows)
    <3> HIDE DEF f
    <3> QED BY <2>1, <2>2 DEF Arrows, MultiPostArrows
  <2>4. "Succeeded" \in Done BY DEF Done
  <2> QED BY <1>2, <1>4, <2>3, <2>4, CompleteSafe
<1> QED BY <1>3, <1>4, Zenon DEF TrySetSuccess

(* SetFailed ends what TrySetError began. *)
LEMMA SetFailedSafe ==
  ASSUME IInv, NEW th \in Threads, SetFailed(th)
  PROVE  SafeStep
<1> DEFINE op == Head(todo[th])
           f == op.fut
<1>1. NextCall(th, "SetFailed") /\ TypeOK BY DEF SetFailed, IInv
<1>2. f \in Futures BY <1>1, HeadTyped, CallFields
<1>3. CASE UnexpectedState(th, TRUE) BY <1>3, QuietSafe DEF UnexpectedState, futureVars
<1>4. CASE state[f] = "SettingResult" /\ Complete(th, op, "Failed")
  <2>1. <<"SettingResult", "Failed">> \in MultiPostArrows \cap Arrows /\ "Failed" \in Done
    BY DEF Arrows, MultiPostArrows, Done
  <2>2. <<state[f], "Failed">> \in (IF IsMultiPost(f) THEN MultiPostArrows ELSE Arrows)
    BY <1>4, <2>1
  <2> QED BY <1>2, <1>4, <2>1, <2>2, CompleteSafe
<1> QED BY <1>3, <1>4, Zenon DEF SetFailed

(* Every step of a thread, of the library or outside of it, is safe. *)
LEMMA NextSafe ==
  ASSUME IInv, Next
  PROVE  SafeStep
<1>1. CASE \E th \in Threads : CallStep(th)
  <2>1. PICK th \in Threads : CallStep(th) BY <1>1
  <2>2. ASSUME TaskPost(th) \/ RunTask(th) \/ SetFinished(th) \/ AwaitFinished(th)
        PROVE  UNCHANGED <<state, continuation>>
    BY <2>2, Zenon DEF TaskPost, RunTask, SetFinished, AwaitFinished, futureVars
  <2> QED BY <2>1, <2>2, QuietSafe, AddContinuationSafe, TryPostSafe, TrySetPostedSafe, InvokeSafe,
             StartAwaitingSafe, TryStartSetValueSafe, TrySetErrorSafe, TrySetSuccessSafe,
             SetFailedSafe, Zenon DEF CallStep
<1>2. CASE \E th \in Users : UserStep(th)
  <2>1. UNCHANGED <<state, continuation>>
    <3>1. PICK th \in Users, f \in Futures :
                 \/ \E c \in Futures : Continue(th, f, c)
                 \/ When(th, f) \/ PostFuture(th, f) \/ Set(th, f) \/ DropPromise(th, f)
      BY <1>2, Zenon DEF UserStep, WhenAll, WhenAny
    <3>2. ASSUME NEW c \in Futures, Continue(th, f, c)
          PROVE  UNCHANGED <<state, continuation>>
      BY <3>2, Zenon DEF Continue, Then, Catch, Share, SharedThen, AddFuture, WhenChanged,
                         FutureWait, ContinueWith, futureVars
    <3>3. ASSUME Set(th, f) PROVE UNCHANGED <<state, continuation>>
      BY <3>3, Zenon DEF Set, PromiseTrySetValue, PromiseTrySetError, PromiseTryCancel,
                         GroupTrySetValue, GroupTrySetError, Cancel, Abandon, SetPromise, futureVars
    <3>4. ASSUME When(th, f) \/ PostFuture(th, f) \/ DropPromise(th, f)
          PROVE  UNCHANGED <<state, continuation>>
      BY <3>4, Zenon DEF When, PostFuture, DropPromise, futureVars
    <3> QED BY <3>1, <3>2, <3>3, <3>4, Zenon
  <2> QED BY <2>1, QuietSafe
<1>3. CASE \E th \in Executors, f \in Futures : RunQueued(th, f)
  <2>1. UNCHANGED <<state, continuation>> BY <1>3, Zenon DEF RunQueued, futureVars
  <2> QED BY <2>1, QuietSafe
<1> QED BY <1>1, <1>2, <1>3, Zenon DEF Next

(* The links a constructor makes are between futures. *)
LEMMA TokenLinksTyped == TokenLinks \subseteq Futures \X Futures
<1> SUFFICES ASSUME NEW c \in Futures, Kind[c] = "token"
             PROVE  Inputs[c][1] \in Futures
  BY DEF TokenLinks
<1>1. Inputs[c] \in Seq(Futures) /\ Inputs[c] # <<>> BY FutureAssumption
<1>2. Inputs[c][1] = Head(Inputs[c]) BY <1>1
<1> QED BY <1>1, <1>2

(* The inductive invariant holds at the start. *)
LEMMA InitIInv == Init => IInv
<1> SUFFICES ASSUME Init PROVE IInv OBVIOUS
<1>1. TypeOK
  <2>1. todo \in [Threads -> Seq(Calls)] BY DEF Init
  <2>2. links \in SUBSET ((Futures \cup {NoFuture}) \X Futures) BY TokenLinksTyped DEF Init
  <2>3. continuation \in [Futures -> Futures \cup {NoFuture}] BY DEF Init
  <2> QED BY <2>1, <2>2, <2>3 DEF Init, TypeOK, FutureState
<1>2. PlaceholderWhenDone
  <2>1. continuation \in [Futures -> Futures \cup {NoFuture}] BY DEF Init
  <2>2. ContinuationInvoked \notin Futures \cup {NoFuture} BY FutureAssumption
  <2> QED BY <2>1, <2>2 DEF PlaceholderWhenDone
<1>3. MultiPostStates BY DEF Init, MultiPostStates
<1> QED BY <1>1, <1>2, <1>3 DEF IInv

(* A step keeps the invariant, and moves states along arrows. *)
LEMMA StepIInv == IInv /\ [Next]_vars => IInv' /\ [FollowsArrows]_vars
<1> SUFFICES ASSUME IInv, [Next]_vars PROVE IInv' /\ [FollowsArrows]_vars OBVIOUS
<1>1. CASE Next
  <2>1. TypeOK' BY <1>1, NextTyped DEF IInv
  <2>2. SafeStep BY <1>1, NextSafe
  <2> QED BY <2>1, <2>2 DEF IInv, SafeStep
<1>2. CASE UNCHANGED vars
  <2>1. TypeOK' BY <1>2 DEF IInv, TypeOK, vars, futureVars, userVars
  <2>2. SafeStep BY <1>2, QuietSafe DEF vars, futureVars
  <2> QED BY <1>2, <2>1, <2>2 DEF IInv, SafeStep
<1> QED BY <1>1, <1>2

(* Every variable keeps its type: a list of continuations links futures    *)
(* only, and every call pending on a thread has an argument its method     *)
(* takes, for any futures, threads and shape of the graph.                 *)
THEOREM TypeCorrect == Spec => []TypeOK
<1>1. IInv => TypeOK BY DEF IInv
<1> QED BY <1>1, InitIInv, StepIInv, PTL DEF Spec

(* No interleaving of completions, posts, cancellations and callbacks      *)
(* takes a future off the state diagram of futureImpl.h, or takes a        *)
(* WhenAll or WhenAny future through the states of a posted one.           *)
THEOREM TransitionsDocumented == Spec => DocumentedTransitions
BY InitIInv, StepIInv, PTL DEF Spec, DocumentedTransitions
-----------------------------------------------------------------------------
(* A call that can take f on when it is being posted or invoked: the one   *)
(* that posts, invokes or runs it, and what its task calls on it.          *)
Drives(op, f) ==
  /\ op.fut = f
  /\ \/ op.call \in {"TaskPost", "Invoke", "RunTask", "StartAwaiting"}
     \/ op.call \in {"TryStartSetValue", "TrySetSuccess", "TrySetError", "MoveError"} /\ op.cur = f

NoDriver(f) == \A th \in Threads : \A i \in DOMAIN todo[th] : ~Drives(todo[th][i], f)

UniqueDriver(f) ==
  \A th, u \in Threads : \A i \in DOMAIN todo[th], j \in DOMAIN todo[u] :
    Drives(todo[th][i], f) /\ Drives(todo[u][j], f) => th = u /\ i = j

(* The right to take a future on is in one place: one pending call of one  *)
(* thread, or the executor that keeps its callback; before it is posted    *)
(* nobody has it.                                                          *)
DrivenOnce(f) ==
  /\ UniqueDriver(f)
  /\ state[f] = "Pending" \/ f \in queued => NoDriver(f)
  /\ state[f] = "Pending" => f \notin queued
OneDriver == \A f \in Futures : ~IsMultiPost(f) => DrivenOnce(f)

Early == {"Pending", "Posting", "Posted"}
Runs(op, f) == op.call = "RunTask" /\ op.fut = f

(* RunsOnce, with the pending calls named by their place. *)
RanOnce(f) ==
  /\ runs[f] <= 1
  /\ state[f] \in Early => runs[f] = 0
  /\ \A th \in Threads : \A i \in DOMAIN todo[th] :
       Runs(todo[th][i], f) => state[f] = "Invoking" /\ runs[f] = 0
RunInv == OneDriver /\ \A f \in Futures : ~IsMultiPost(f) => RanOnce(f)

(* What a call of th may do to f when it returns with these calls to make: *)
(* hand its right over to one of them or to the executor, take f out of    *)
(* Invoking only by right, and run f only as RunTask.                      *)
HandsOver(th, calls, f) ==
  /\ \A i, j \in DOMAIN calls : Drives(calls[i], f) /\ Drives(calls[j], f) => i = j
  /\ \A i \in DOMAIN calls : Drives(calls[i], f) =>
       Drives(Head(todo[th]), f) \/ (state[f] = "Pending" /\ state'[f] # "Pending")
  /\ f \in queued' => \/ f \in queued
                      \/ /\ Drives(Head(todo[th]), f)
                         /\ \A i \in DOMAIN calls : ~Drives(calls[i], f)
MovesByRight(th, f) ==
  state[f] = "Invoking" /\ state'[f] # "Invoking" => Drives(Head(todo[th]), f)
RunsByRight(th, calls, f) ==
  /\ \A i \in DOMAIN calls : Runs(calls[i], f) => state'[f] = "Invoking" /\ state[f] \in Early
  /\ \/ runs'[f] = runs[f]
     \/ /\ runs'[f] = runs[f] + 1 /\ Runs(Head(todo[th]), f)
        /\ \A i \in DOMAIN calls : ~Runs(calls[i], f)
RightStep(th, calls, f) ==
  HandsOver(th, calls, f) /\ MovesByRight(th, f) /\ RunsByRight(th, calls, f)

(* The calls of a thread after a call has returned: the new ones, then     *)
(* those that were behind it.                                              *)
LEMMA ReturnPlaces ==
  ASSUME TypeOK, NEW th \in Threads, NEW name, NextCall(th, name),
         NEW calls \in Seq(Calls), Return(th, calls)
  PROVE  /\ 1 \in DOMAIN todo[th] /\ todo[th][1] = Head(todo[th])
         /\ \A u \in Threads : u # th => todo'[u] = todo[u]
         /\ \A i \in DOMAIN todo'[th] :
              \/ i \in DOMAIN calls /\ todo'[th][i] = calls[i]
              \/ /\ i \in Nat /\ i > Len(calls)
                 /\ i - Len(calls) + 1 \in DOMAIN todo[th] /\ i - Len(calls) + 1 > 1
                 /\ todo'[th][i] = todo[th][i - Len(calls) + 1]
<1>1. todo[th] \in Seq(Calls) /\ todo[th] # <<>> /\ todo \in [Threads -> Seq(Calls)]
  BY DEF TypeOK, NextCall
<1>2. PICK s \in Seq(Calls) : s = todo[th] BY <1>1
<1>3. s # <<>> /\ Len(s) \in Nat /\ Len(s) # 0 /\ Head(s) = s[1] /\ DOMAIN s = 1..Len(s)
  BY <1>1, <1>2
<1>4. todo'[th] = calls \o Tail(s) /\ \A u \in Threads : u # th => todo'[u] = todo[u]
  BY <1>1, <1>2 DEF Return
<1>5. /\ Tail(s) \in Seq(Calls) /\ Len(Tail(s)) = Len(s) - 1
      /\ \A i \in 1..(Len(s) - 1) : Tail(s)[i] = s[i + 1]
  BY <1>3
<1>6. PICK t \in Seq(Calls) : t = Tail(s) BY <1>5
<1>7. PICK r : r = calls \o t OBVIOUS
<1>8. /\ Len(calls) \in Nat /\ Len(t) \in Nat /\ DOMAIN calls = 1..Len(calls)
      /\ DOMAIN r = 1..(Len(calls) + Len(t))
      /\ \A i \in DOMAIN r : r[i] = IF i <= Len(calls) THEN calls[i] ELSE t[i - Len(calls)]
  BY <1>7
<1>9. ASSUME NEW i \in DOMAIN r
      PROVE  \/ i \in DOMAIN calls /\ r[i] = calls[i]
             \/ /\ i \in Nat /\ i > Len(calls)
                /\ i - Len(calls) + 1 \in DOMAIN s /\ i - Len(calls) + 1 > 1
                /\ r[i] = s[i - Len(calls) + 1]
  BY <1>3, <1>5, <1>6, <1>8, <1>9
<1> QED BY <1>2, <1>3, <1>4, <1>6, <1>7, <1>9

(* A call that keeps to its right keeps f driven and run once. *)
LEMMA RightStepKeeps ==
  ASSUME TypeOK, FollowsArrows, NEW th \in Threads, NEW name, NextCall(th, name),
         NEW calls \in Seq(Calls), Return(th, calls),
         NEW f \in Futures, ~IsMultiPost(f), DrivenOnce(f), RanOnce(f), RightStep(th, calls, f)
  PROVE  DrivenOnce(f)' /\ RanOnce(f)'
<1> DEFINE top == Head(todo[th])
<1>1. /\ 1 \in DOMAIN todo[th] /\ todo[th][1] = top
      /\ \A u \in Threads : u # th => todo'[u] = todo[u]
      /\ \A i \in DOMAIN todo'[th] :
           \/ i \in DOMAIN calls /\ todo'[th][i] = calls[i]
           \/ /\ i \in Nat /\ i > Len(calls)
              /\ i - Len(calls) + 1 \in DOMAIN todo[th] /\ i - Len(calls) + 1 > 1
              /\ todo'[th][i] = todo[th][i - Len(calls) + 1]
  BY ReturnPlaces
<1>2. Len(calls) \in Nat BY LenProperties
<1> HIDE DEF top
<1>3. /\ \A i, j \in DOMAIN calls : Drives(calls[i], f) /\ Drives(calls[j], f) => i = j
      /\ \A i \in DOMAIN calls : Drives(calls[i], f) =>
           Drives(top, f) \/ (state[f] = "Pending" /\ state'[f] # "Pending")
      /\ f \in queued' => \/ f \in queued
                          \/ Drives(top, f) /\ \A i \in DOMAIN calls : ~Drives(calls[i], f)
      /\ state[f] = "Invoking" /\ state'[f] # "Invoking" => Drives(top, f)
      /\ \A i \in DOMAIN calls : Runs(calls[i], f) => state'[f] = "Invoking" /\ state[f] \in Early
      /\ \/ runs'[f] = runs[f]
         \/ /\ runs'[f] = runs[f] + 1 /\ Runs(top, f)
            /\ \A i \in DOMAIN calls : ~Runs(calls[i], f)
  BY DEF RightStep, HandsOver, MovesByRight, RunsByRight, top
(* A driver behind the new calls was there before, and not at the top. *)
<1>4. ASSUME NEW u \in Threads, NEW i \in DOMAIN todo'[u]
      PROVE  \/ u = th /\ i \in DOMAIN calls /\ todo'[u][i] = calls[i]
             \/ \E k \in DOMAIN todo[u] :
                  /\ todo'[u][i] = todo[u][k]
                  /\ u = th => k # 1 /\ i \in Nat /\ i > Len(calls) /\ k = i - Len(calls) + 1
                  /\ u # th => k = i
  BY <1>1, <1>2, <1>4
<1>5. UniqueDriver(f) /\ (state[f] = "Pending" \/ f \in queued => NoDriver(f))
  BY DEF DrivenOnce
<1>6. Drives(top, f) => ~NoDriver(f) BY <1>1 DEF NoDriver
<1>7. ASSUME Drives(top, f) \/ NoDriver(f), NEW u \in Threads, NEW k \in DOMAIN todo[u],
             u = th => k # 1
      PROVE  ~Drives(todo[u][k], f)
  BY <1>1, <1>5, <1>7 DEF UniqueDriver, NoDriver
<1>8. UniqueDriver(f)'
  <2> SUFFICES ASSUME NEW u \in Threads, NEW v \in Threads,
                      NEW i \in DOMAIN todo'[u], NEW j \in DOMAIN todo'[v],
                      Drives(todo'[u][i], f), Drives(todo'[v][j], f)
               PROVE  u = v /\ i = j
    BY DEF UniqueDriver, Drives
  <2>1. CASE u = th /\ i \in DOMAIN calls /\ todo'[u][i] = calls[i]
    <3>1. Drives(top, f) \/ NoDriver(f) BY <1>3, <1>5, <2>1
    <3>2. v = th /\ j \in DOMAIN calls /\ todo'[v][j] = calls[j] BY <1>4, <1>7, <3>1
    <3> QED BY <1>3, <2>1, <3>2
  <2>2. CASE v = th /\ j \in DOMAIN calls /\ todo'[v][j] = calls[j]
    <3>1. Drives(top, f) \/ NoDriver(f) BY <1>3, <1>5, <2>2
    <3>2. u = th /\ i \in DOMAIN calls /\ todo'[u][i] = calls[i] BY <1>4, <1>7, <3>1
    <3> QED BY <1>3, <2>2, <3>2
  <2>3. CASE /\ ~(u = th /\ i \in DOMAIN calls /\ todo'[u][i] = calls[i])
             /\ ~(v = th /\ j \in DOMAIN calls /\ todo'[v][j] = calls[j])
    <3>1. PICK k \in DOMAIN todo[u] :
            /\ todo'[u][i] = todo[u][k]
            /\ u = th => k # 1 /\ i \in Nat /\ i > Len(calls) /\ k = i - Len(calls) + 1
            /\ u # th => k = i
      BY <1>4, <2>3
    <3>2. PICK l \in DOMAIN todo[v] :
            /\ todo'[v][j] = todo[v][l]
            /\ v = th => l # 1 /\ j \in Nat /\ j > Len(calls) /\ l = j - Len(calls) + 1
            /\ v # th => l = j
      BY <1>4, <2>3
    <3>3. u = v /\ k = l BY <1>5, <3>1, <3>2 DEF UniqueDriver
    <3> QED BY <1>2, <3>1, <3>2, <3>3
  <2> QED BY <2>1, <2>2, <2>3
<1>9. state'[f] = "Pending" => state[f] = "Pending"
  BY DEF FollowsArrows, Arrows, Done
<1>10. state'[f] \in Early => state[f] \in Early
  BY DEF FollowsArrows, Arrows, Done, Early
<1>11. state'[f] = "Pending" \/ f \in queued' => NoDriver(f)'
  <2> SUFFICES ASSUME state'[f] = "Pending" \/ f \in queued',
                      NEW u \in Threads, NEW i \in DOMAIN todo'[u]
               PROVE  ~Drives(todo'[u][i], f)
    BY DEF NoDriver, Drives
  <2>1. Drives(top, f) \/ NoDriver(f) BY <1>3, <1>5, <1>9
  <2>2. \A l \in DOMAIN calls : ~Drives(calls[l], f)
    <3>1. CASE f \in queued \/ state'[f] = "Pending"
      <4>1. ~Drives(top, f) BY <1>5, <1>6, <1>9, <3>1
      <4>2. ~(state[f] = "Pending" /\ state'[f] # "Pending")
        BY <3>1 DEF DrivenOnce
      <4> QED BY <1>3, <4>1, <4>2
    <3>2. CASE f \notin queued /\ state'[f] # "Pending" BY <1>3, <3>2
    <3> QED BY <3>1, <3>2
  <2> QED BY <1>4, <1>7, <2>1, <2>2
<1>12. state'[f] = "Pending" => f \notin queued'
  BY <1>3, <1>5, <1>6, <1>9 DEF DrivenOnce
<1>13. DrivenOnce(f)' BY <1>8, <1>11, <1>12 DEF DrivenOnce
<1>14. runs[f] \in Nat /\ runs'[f] \in Nat BY <1>3 DEF TypeOK
<1>15. Runs(top, f) => state[f] = "Invoking" /\ runs[f] = 0 /\ Drives(top, f)
  BY <1>1 DEF RanOnce, Runs, Drives
<1>16. runs'[f] <= 1 BY <1>3, <1>14, <1>15 DEF RanOnce
<1>17. state'[f] \in Early => runs'[f] = 0
  <2>1. "Invoking" \notin Early BY DEF Early
  <2> QED BY <1>3, <1>10, <1>15, <2>1 DEF RanOnce
<1>18. ASSUME NEW u \in Threads, NEW i \in DOMAIN todo'[u], Runs(todo'[u][i], f)
       PROVE  state'[f] = "Invoking" /\ runs'[f] = 0
  <2>1. CASE u = th /\ i \in DOMAIN calls /\ todo'[u][i] = calls[i]
    BY <1>3, <1>18, <2>1 DEF RanOnce
  <2>2. CASE \E k \in DOMAIN todo[u] : todo'[u][i] = todo[u][k] /\ (u = th => k # 1)
    <3>1. PICK k \in DOMAIN todo[u] : todo'[u][i] = todo[u][k] /\ (u = th => k # 1) BY <2>2
    <3>2. Runs(todo[u][k], f) /\ Drives(todo[u][k], f) BY <1>18, <3>1 DEF Runs, Drives
    <3>3. ~Drives(top, f) BY <1>7, <3>1, <3>2
    <3>4. state[f] = "Invoking" /\ runs[f] = 0 BY <3>1, <3>2 DEF RanOnce
    <3> QED BY <1>3, <1>15, <3>3, <3>4
  <2> QED BY <1>4, <2>1, <2>2
<1>19. RanOnce(f)' BY <1>16, <1>17, <1>18 DEF RanOnce, Runs
<1> QED BY <1>13, <1>19

(* A step that posts, invokes or runs no future that was not Pending, and  *)
(* makes no call that can, keeps to its right.                             *)
LEMMA IdleCalls ==
  ASSUME NEW th \in Threads, NEW calls \in Seq(Calls), NEW f \in Futures,
         \A i \in DOMAIN calls : ~Drives(calls[i], f),
         f \in queued' => f \in queued, MovesByRight(th, f), runs'[f] = runs[f]
  PROVE  RightStep(th, calls, f)
<1>1. \A i \in DOMAIN calls : ~Runs(calls[i], f) BY DEF Drives, Runs
<1> QED BY <1>1 DEF RightStep, HandsOver, RunsByRight

(* The calls in sequences of up to two. *)
LEMMA Places ==
  ASSUME NEW x, NEW y
  PROVE  /\ DOMAIN <<>> = {} /\ DOMAIN <<x>> = {1} /\ DOMAIN <<x, y>> = {1, 2}
         /\ <<x>>[1] = x /\ <<x, y>>[1] = x /\ <<x, y>>[2] = y
OBVIOUS

(* PostContinuation only posts. *)
LEMMA PostDrivesNothing ==
  ASSUME NEW p, NEW c, NEW cur, NEW f, NEW i \in DOMAIN PostContinuation(p, c, cur)
  PROVE  ~Drives(PostContinuation(p, c, cur)[i], f)
<1> DEFINE op == Call("TryPost", c, p, cur, FALSE)
<1>1. ~Drives(op, f) BY DEF Drives, Call
<1>2. PostContinuation(p, c, cur) = <<>> \/ PostContinuation(p, c, cur) = <<op>>
  BY Zenon DEF PostContinuation
<1> HIDE DEF op
<1> QED BY <1>1, <1>2, Places

(* SetValue makes one call, on its future. *)
LEMMA SetValueDrives ==
  ASSUME NEW g, NEW cur, NEW strict, NEW f
  PROVE  \E op : /\ SetValue(g, cur, strict) = <<op>>
                 /\ Drives(op, f) => g = f /\ cur = f
                 /\ ~Runs(op, f)
<1> DEFINE succeed == Call("TrySetSuccess", g, NoFuture, cur, strict)
           start == Call("TryStartSetValue", g, NoFuture, cur, strict)
<1>1. /\ Drives(succeed, f) => g = f /\ cur = f
      /\ Drives(start, f) => g = f /\ cur = f
      /\ ~Runs(succeed, f) /\ ~Runs(start, f)
  BY DEF Drives, Runs, Call
<1>2. SetValue(g, cur, strict) = <<succeed>> \/ SetValue(g, cur, strict) = <<start>>
  BY Zenon DEF SetValue
<1> HIDE DEF succeed, start
<1> QED BY <1>1, <1>2

(* A call returns with nothing to make that could take f on; it leaves     *)
(* queued and runs alone, and moves f out of Invoking by right.            *)
LEMMA UnexpectedRight ==
  ASSUME NEW th \in Threads, NEW strict, UnexpectedState(th, strict), NEW f \in Futures
  PROVE  RightStep(th, <<>>, f)
<1>1. UNCHANGED <<state, queued, runs>> BY DEF UnexpectedState, futureVars, userVars
<1>2. MovesByRight(th, f) BY <1>1 DEF MovesByRight
<1>3. <<>> \in Seq(Calls) /\ \A i \in DOMAIN <<>> : ~Drives(<<>>[i], f) OBVIOUS
<1> QED BY <1>1, <1>2, <1>3, IdleCalls

(* Every call returns with calls to make that keep to its right, for every *)
(* future that is posted once.                                             *)
RightCall(th) ==
  \E calls \in Seq(Calls) :
    Return(th, calls) /\ \A f \in Futures : ~IsMultiPost(f) => RightStep(th, calls, f)

(* A call that is turned down. *)
LEMMA UnexpectedCall ==
  ASSUME NEW th \in Threads, NEW strict, UnexpectedState(th, strict)
  PROVE  RightCall(th)
<1>1. Return(th, <<>>) /\ <<>> \in Seq(Calls) BY DEF UnexpectedState
<1>2. \A f \in Futures : RightStep(th, <<>>, f) BY UnexpectedRight
<1> QED BY <1>1, <1>2 DEF RightCall

(* A call that moves one future by right, and posts or makes calls that    *)
(* drive nothing.                                                          *)
LEMMA MoveCall ==
  ASSUME NEW th \in Threads, NEW calls \in Seq(Calls), Return(th, calls),
         NEW f \in Futures, \A g \in Futures : g # f => state'[g] = state[g],
         MovesByRight(th, f), UNCHANGED <<queued, runs>>,
         \A g \in Futures : \A i \in DOMAIN calls : ~Drives(calls[i], g)
  PROVE  RightCall(th)
<1>1. ASSUME NEW g \in Futures PROVE RightStep(th, calls, g)
  <2>1. MovesByRight(th, g) BY DEF MovesByRight
  <2> QED BY <2>1, IdleCalls
<1> QED BY <1>1 DEF RightCall

(* AddContinuation posts a continuation or stores it. *)
LEMMA AddContinuationRight ==
  ASSUME IInv, NEW th \in Threads, AddContinuation(th)
  PROVE  RightCall(th)
<1> DEFINE op == Head(todo[th])
<1>1. NextCall(th, "AddContinuation") /\ TypeOK BY DEF AddContinuation, IInv
<1>2. op \in Calls /\ op.call = "AddContinuation" BY <1>1, HeadTyped
<1>3. op.fut \in Futures /\ op.arg \in Futures /\ op.cur \in Futures \cup {NoFuture}
  BY <1>2, CallFields DEF Args
<1>4. CASE UnexpectedState(th, TRUE) BY <1>4, UnexpectedCall
<1>5. CASE Attach(th, op)
  <2> DEFINE post == PostContinuation(op.fut, op.arg, op.cur)
  <2>1. UNCHANGED <<state, queued, runs>> BY <1>5, Zenon DEF Attach, Store, userVars
  <2>2. Return(th, post) \/ Return(th, <<>>) BY <1>5, Zenon DEF Attach, Store
  <2>3. post \in Seq(Calls) /\ <<>> \in Seq(Calls) BY <1>3, PostContinuationTyped
  <2>4. \A g \in Futures : \A i \in DOMAIN post : ~Drives(post[i], g) BY PostDrivesNothing
  <2>5. \A g \in Futures : \A i \in DOMAIN <<>> : ~Drives(<<>>[i], g) OBVIOUS
  <2>6. MovesByRight(th, op.fut) BY <2>1 DEF MovesByRight
  <2> HIDE DEF post
  <2> QED BY <1>3, <2>1, <2>2, <2>3, <2>4, <2>5, <2>6, MoveCall
<1> QED BY <1>4, <1>5 DEF AddContinuation

(* A posted future is given to its executor or invoked by this thread. *)
LEMMA TryPostRight ==
  ASSUME IInv, RunInv, NEW th \in Threads, TryPostInternal(th)
  PROVE  RightCall(th)
<1> DEFINE op == Head(todo[th])
           c == op.fut
           p == op.arg
           first == Call(IF HasTaskPost(c) THEN "TaskPost" ELSE "Invoke", c, NoFuture, c, FALSE)
           rest == PostContinuation(p, m_link[c], op.cur)
<1>1. NextCall(th, "TryPost") /\ TypeOK BY DEF TryPostInternal, IInv
<1>2. op \in Calls /\ op.call = "TryPost" BY <1>1, HeadTyped
<1>3. c \in Futures /\ p \in Futures \cup {NoFuture} /\ op.cur \in Futures \cup {NoFuture}
  BY <1>2, CallFields DEF Args
<1>4. CASE IsMultiPost(c) /\ p # NoFuture /\ MultiPost(th, op)
  <2> DEFINE failure == Call("MoveError", c, p, c, FALSE)
  <2>1. UNCHANGED <<state, queued>> /\ runs' = [runs EXCEPT ![c] = runs[c] + 1]
    BY <1>4, Zenon DEF MultiPost
  <2>2. PICK calls : /\ Return(th, calls)
                     /\ \/ calls = <<>> \/ calls = <<failure>>
                        \/ calls = SetValue(c, c, TRUE) \/ calls = SetValue(c, c, FALSE)
    BY <1>4, Zenon DEF MultiPost
  <2>3. calls \in Seq(Calls)
    <3>1. SetValue(c, c, TRUE) \in Seq(Calls) /\ SetValue(c, c, FALSE) \in Seq(Calls)
      BY <1>3, SetValueTyped
    <3>2. p \in Args("MoveError") /\ "MoveError" \in CallNames BY <1>3, <1>4 DEF Args, CallNames
    <3>3. failure \in Calls BY <1>3, <3>2, CallTyped
    <3>4. <<>> \in Seq(Calls) /\ <<failure>> \in Seq(Calls) BY <3>3, Sequences, Zenon
    <3> QED BY <2>2, <3>1, <3>4, Zenon
  <2>4. ASSUME NEW f \in Futures, ~IsMultiPost(f) PROVE RightStep(th, calls, f)
    <3>1. f # c BY <1>4, <2>4
    <3>2. ~Drives(failure, f) BY <3>1 DEF Drives, Call
    <3>3. \A i \in DOMAIN calls : ~Drives(calls[i], f)
      <4>1. PICK x : SetValue(c, c, TRUE) = <<x>> /\ (Drives(x, f) => c = f) BY SetValueDrives
      <4>2. PICK y : SetValue(c, c, FALSE) = <<y>> /\ (Drives(y, f) => c = f) BY SetValueDrives
      <4> HIDE DEF failure, c
      <4>3. calls = <<>> \/ \E q : calls = <<q>> /\ ~Drives(q, f)
        BY <2>2, <3>1, <3>2, <4>1, <4>2, Zenon
      <4> QED BY <4>3, Places
    <3>4. runs'[f] = runs[f]
      <4> HIDE DEF c
      <4> QED BY <1>1, <2>1, <3>1 DEF TypeOK
    <3>5. MovesByRight(th, f) BY <2>1 DEF MovesByRight
    <3> QED BY <2>1, <2>3, <3>3, <3>4, <3>5, IdleCalls
  <2> QED BY <2>2, <2>3, <2>4 DEF RightCall
<1>5. CASE \E strict : UnexpectedState(th, strict) BY <1>5, UnexpectedCall
<1>6. CASE /\ ~IsMultiPost(c) /\ state[c] = "Pending"
           /\ state' = [state EXCEPT ![c] = "Posting"]
           /\ Return(th, <<first>> \o rest)
           /\ UNCHANGED userVars
  <2>1. first \in Calls
    <3>1. "TaskPost" \in CallNames /\ NoFuture \in Args("TaskPost") BY DEF CallNames, Args
    <3>2. "Invoke" \in CallNames /\ NoFuture \in Args("Invoke") BY DEF CallNames, Args
    <3> QED BY <1>3, <3>1, <3>2, CallTyped
  <2>2. rest \in Seq(Calls) BY <1>3, PostContinuationTyped
  <2>3. \A f \in Futures : ~Runs(first, f) /\ (Drives(first, f) => f = c)
    BY DEF Runs, Drives, Call
  <2>4. \A f \in Futures : \A i \in DOMAIN rest : ~Drives(rest[i], f) BY PostDrivesNothing
  <2>5. UNCHANGED <<queued, runs>> BY <1>6 DEF userVars
  <2>6. \A f \in Futures : state'[f] = IF f = c THEN "Posting" ELSE state[f]
    <3> HIDE DEF c
    <3> QED BY <1>1, <1>6 DEF TypeOK
  <2> HIDE DEF first, rest
  <2>7. PICK calls : calls = <<first>> \o rest OBVIOUS
  <2>8. /\ calls \in Seq(Calls)
        /\ \A i \in DOMAIN calls : \/ i = 1 /\ calls[i] = first
                                   \/ i - 1 \in DOMAIN rest /\ calls[i] = rest[i - 1]
    BY <2>1, <2>2, <2>7
  <2>9. ASSUME NEW f \in Futures PROVE RightStep(th, calls, f)
    <3>1. \A i \in DOMAIN calls : Drives(calls[i], f) => i = 1 /\ f = c BY <2>3, <2>4, <2>8
    <3>2. \A i \in DOMAIN calls : ~Runs(calls[i], f)
      BY <2>3, <2>4, <2>8 DEF Runs, Drives
    <3>3. HandsOver(th, calls, f) BY <1>6, <2>5, <2>6, <3>1 DEF HandsOver
    <3>4. MovesByRight(th, f) BY <1>6, <2>6 DEF MovesByRight
    <3>5. RunsByRight(th, calls, f) BY <2>5, <3>2 DEF RunsByRight
    <3> QED BY <3>3, <3>4, <3>5 DEF RightStep
  <2> QED BY <1>6, <2>7, <2>8, <2>9 DEF RightCall
<1> QED BY <1>4, <1>5, <1>6, Zenon DEF TryPostInternal

(* The executor gets the right, or this thread keeps it. *)
LEMMA TaskPostRight ==
  ASSUME IInv, NEW th \in Threads, TaskPost(th)
  PROVE  RightCall(th)
<1> DEFINE op == Head(todo[th])
           f == op.fut
           invoke == Call("Invoke", f, NoFuture, f, FALSE)
           cancel == Call("TrySetError", f, Canceled, f, FALSE)
           posted == Call("TrySetPosted", f, NoFuture, f, FALSE)
<1>1. NextCall(th, "TaskPost") /\ TypeOK BY DEF TaskPost, IInv
<1>2. f \in Futures /\ op.call = "TaskPost" BY <1>1, HeadTyped, CallFields
<1>3. invoke \in Calls /\ cancel \in Calls /\ posted \in Calls
  <2>1. /\ "Invoke" \in CallNames /\ NoFuture \in Args("Invoke")
        /\ "TrySetError" \in CallNames /\ Canceled \in Args("TrySetError")
        /\ "TrySetPosted" \in CallNames /\ NoFuture \in Args("TrySetPosted")
    BY DEF CallNames, Args, Errors
  <2> QED BY <1>2, <2>1, CallTyped
<1>4. Drives(op, f) BY <1>2 DEF Drives
<1>5. \A g \in Futures : /\ Drives(invoke, g) => g = f
                         /\ Drives(cancel, g) => g = f
                         /\ ~Drives(posted, g)
                         /\ ~Runs(invoke, g) /\ ~Runs(cancel, g) /\ ~Runs(posted, g)
  BY DEF Drives, Runs, Call
<1>6. UNCHANGED <<state, runs>> BY DEF TaskPost, futureVars
<1>7. \/ Return(th, <<invoke>> \o <<posted>>) /\ UNCHANGED queued
      \/ Return(th, <<posted>>) /\ queued' = queued \cup {f}
      \/ Return(th, <<cancel>> \o <<posted>>) /\ UNCHANGED queued
  BY Zenon DEF TaskPost
<1> HIDE DEF invoke, cancel, posted, f
<1>8. ASSUME NEW x \in {invoke, cancel}
      PROVE  /\ <<x>> \o <<posted>> \in Seq(Calls)
             /\ \A i \in DOMAIN (<<x>> \o <<posted>>) :
                  \/ i = 1 /\ (<<x>> \o <<posted>>)[i] = x
                  \/ (<<x>> \o <<posted>>)[i] = posted
  <2>1. x \in Calls BY <1>3
  <2> QED BY <1>3, <2>1
<1>9. ASSUME NEW g \in Futures PROVE MovesByRight(th, g) BY <1>6 DEF MovesByRight
<1>10. CASE Return(th, <<posted>>) /\ queued' = queued \cup {f}
  <2>1. <<posted>> \in Seq(Calls) BY <1>3
  <2>2. ASSUME NEW g \in Futures PROVE RightStep(th, <<posted>>, g)
    <3>1. \A i \in DOMAIN <<posted>> : ~Drives(<<posted>>[i], g) /\ ~Runs(<<posted>>[i], g)
      BY <1>5, Places
    <3>2. HandsOver(th, <<posted>>, g) BY <1>4, <1>10, <3>1 DEF HandsOver
    <3>3. RunsByRight(th, <<posted>>, g) BY <1>6, <3>1 DEF RunsByRight
    <3> QED BY <1>9, <3>2, <3>3 DEF RightStep
  <2> QED BY <1>10, <2>1, <2>2 DEF RightCall
<1>11. CASE \E x \in {invoke, cancel} : Return(th, <<x>> \o <<posted>>) /\ UNCHANGED queued
  <2>1. PICK x \in {invoke, cancel} : Return(th, <<x>> \o <<posted>>) /\ UNCHANGED queued BY <1>11
  <2>2. PICK calls : calls = <<x>> \o <<posted>> OBVIOUS
  <2>3. /\ calls \in Seq(Calls)
        /\ \A i \in DOMAIN calls : (i = 1 /\ calls[i] = x) \/ calls[i] = posted
    BY <1>8, <2>2
  <2>4. ASSUME NEW g \in Futures PROVE RightStep(th, calls, g)
    <3>1. \A i \in DOMAIN calls : /\ Drives(calls[i], g) => i = 1 /\ g = f
                                  /\ ~Runs(calls[i], g)
      BY <1>5, <2>1, <2>3
    <3>2. HandsOver(th, calls, g) BY <1>4, <2>1, <3>1 DEF HandsOver
    <3>3. RunsByRight(th, calls, g) BY <1>6, <3>1 DEF RunsByRight
    <3> QED BY <1>9, <3>2, <3>3 DEF RightStep
  <2> QED BY <2>1, <2>2, <2>3, <2>4 DEF RightCall
<1> QED BY <1>7, <1>10, <1>11

(* TrySetPosted moves no future that is invoked. *)
LEMMA TrySetPostedRight ==
  ASSUME IInv, NEW th \in Threads, TrySetPosted(th)
  PROVE  RightCall(th)
<1> DEFINE f == Head(todo[th]).fut
<1>1. NextCall(th, "TrySetPosted") /\ TypeOK BY DEF TrySetPosted, IInv
<1>2. f \in Futures BY <1>1, HeadTyped, CallFields
<1>3. /\ state' = [state EXCEPT ![f] = IF state[f] = "Posting" THEN "Posted" ELSE state[f]]
      /\ Return(th, <<>>) /\ UNCHANGED <<queued, runs>>
  BY Zenon DEF TrySetPosted, userVars
<1> HIDE DEF f
<1>4. \A g \in Futures : g # f => state'[g] = state[g] BY <1>1, <1>3 DEF TypeOK
<1>5. state[f] = "Invoking" => state'[f] = "Invoking" BY <1>1, <1>2, <1>3 DEF TypeOK
<1>6. MovesByRight(th, f) BY <1>5 DEF MovesByRight
<1>7. <<>> \in Seq(Calls) /\ \A g \in Futures : \A i \in DOMAIN <<>> : ~Drives(<<>>[i], g) OBVIOUS
<1> QED BY <1>2, <1>3, <1>4, <1>6, <1>7, MoveCall

(* Invoke gets its right from the post and hands it to the task. *)
LEMMA InvokeRight ==
  ASSUME IInv, NEW th \in Threads, Invoke(th)
  PROVE  RightCall(th)
<1> DEFINE op == Head(todo[th])
           f == op.fut
           run == Call("RunTask", f, NoFuture, f, FALSE)
<1>1. NextCall(th, "Invoke") /\ TypeOK BY DEF Invoke, IInv
<1>2. f \in Futures /\ op.call = "Invoke" BY <1>1, HeadTyped, CallFields
<1>3. CASE \E strict : UnexpectedState(th, strict) BY <1>3, UnexpectedCall
<1>4. CASE /\ state[f] = "Posted" \/ state[f] = "Posting"
           /\ state' = [state EXCEPT ![f] = "Invoking"]
           /\ Return(th, <<run>>) /\ UNCHANGED userVars
  <2>1. "RunTask" \in CallNames /\ NoFuture \in Args("RunTask") BY DEF CallNames, Args
  <2>2. run \in Calls BY <1>2, <2>1, CallTyped
  <2>3. <<run>> \in Seq(Calls) BY <2>2, Sequences, Zenon
  <2>4. Drives(op, f) BY <1>2 DEF Drives
  <2>5. \A g \in Futures : (Drives(run, g) => g = f) /\ (Runs(run, g) => g = f)
    BY DEF Drives, Runs, Call
  <2>6. UNCHANGED <<queued, runs>> BY <1>4 DEF userVars
  <2>7. state[f] \in Early /\ "Invoking" \notin Early BY <1>4 DEF Early
  <2> HIDE DEF run, f
  <2>8. \A g \in Futures : state'[g] = IF g = f THEN "Invoking" ELSE state[g]
    BY <1>1, <1>4 DEF TypeOK
  <2>9. ASSUME NEW g \in Futures PROVE RightStep(th, <<run>>, g)
    <3>1. HandsOver(th, <<run>>, g) BY <2>4, <2>5, <2>6, Places DEF HandsOver
    <3>2. MovesByRight(th, g) BY <2>8 DEF MovesByRight
    <3>3. \A i \in DOMAIN <<run>> : Runs(<<run>>[i], g) => g = f BY <2>5, Places
    <3>4. RunsByRight(th, <<run>>, g) BY <1>2, <2>6, <2>7, <2>8, <3>3 DEF RunsByRight
    <3> QED BY <3>1, <3>2, <3>4 DEF RightStep
  <2> QED BY <1>4, <2>3, <2>9 DEF RightCall
<1> QED BY <1>3, <1>4, Zenon DEF Invoke

(* StartAwaiting takes its future out of Invoking by right. *)
LEMMA StartAwaitingRight ==
  ASSUME IInv, NEW th \in Threads, StartAwaiting(th)
  PROVE  RightCall(th)
<1> DEFINE op == Head(todo[th])
           f == op.fut
<1>1. NextCall(th, "StartAwaiting") /\ TypeOK BY DEF StartAwaiting, IInv
<1>2. f \in Futures /\ op.call = "StartAwaiting" BY <1>1, HeadTyped, CallFields
<1>3. CASE UnexpectedState(th, TRUE) BY <1>3, UnexpectedCall
<1>4. CASE /\ state' = [state EXCEPT ![f] = "Awaiting"]
           /\ Return(th, <<>>) /\ UNCHANGED userVars
  <2>1. Drives(op, f) BY <1>2 DEF Drives
  <2>2. MovesByRight(th, f) BY <2>1 DEF MovesByRight
  <2>3. <<>> \in Seq(Calls) /\ \A g \in Futures : \A i \in DOMAIN <<>> : ~Drives(<<>>[i], g) OBVIOUS
  <2>4. UNCHANGED <<queued, runs>> BY <1>4 DEF userVars
  <2> HIDE DEF f
  <2>5. \A g \in Futures : g # f => state'[g] = state[g] BY <1>1, <1>4 DEF TypeOK
  <2> QED BY <1>2, <1>4, <2>2, <2>3, <2>4, <2>5, MoveCall
<1> QED BY <1>3, <1>4, Zenon DEF StartAwaiting

(* One new call in place of another, on the same future and inside the     *)
(* same callback.                                                          *)
LEMMA HandOnCall ==
  ASSUME TypeOK, NEW th \in Threads, NEW name, NextCall(th, name), NEW next \in Calls,
         Return(th, <<next>>), UNCHANGED <<queued, runs>>,
         NEW s, state' = [state EXCEPT ![Head(todo[th]).fut] = s],
         next.fut = Head(todo[th]).fut, next.cur = Head(todo[th]).cur,
         next.call \in {"TrySetSuccess", "SetFailed"},
         name \in {"TryStartSetValue", "TrySetError", "MoveError"},
         state[Head(todo[th]).fut] = "Invoking" => IsSynchronousCall(Head(todo[th]))
  PROVE  RightCall(th)
<1> DEFINE op == Head(todo[th])
<1>1. op.fut \in Futures /\ op.call = name BY HeadTyped, CallFields
<1>2. PICK f \in Futures : f = op.fut BY <1>1
<1>3. op.cur = f => Drives(op, f) BY <1>1, <1>2 DEF Drives
<1>4. \A g \in Futures : ~Runs(next, g) /\ (Drives(next, g) => g = f /\ op.cur = f)
  BY <1>2 DEF Drives, Runs
<1>5. MovesByRight(th, f) BY <1>2, <1>3 DEF MovesByRight, IsSynchronousCall
<1>6. \A g \in Futures : g # f => state'[g] = state[g] BY <1>2 DEF TypeOK
<1>7. <<next>> \in Seq(Calls) OBVIOUS
<1>8. ASSUME NEW g \in Futures PROVE RightStep(th, <<next>>, g)
  <2>1. HandsOver(th, <<next>>, g) BY <1>3, <1>4, Places DEF HandsOver
  <2>2. MovesByRight(th, g) BY <1>5, <1>6 DEF MovesByRight
  <2>3. RunsByRight(th, <<next>>, g) BY <1>4, Places DEF RunsByRight
  <2> QED BY <2>1, <2>2, <2>3 DEF RightStep
<1> QED BY <1>7, <1>8 DEF RightCall

(* TryStartSetValue reserves an invoked future only from its own callback. *)
LEMMA TryStartSetValueRight ==
  ASSUME IInv, NEW th \in Threads, TryStartSetValue(th)
  PROVE  RightCall(th)
<1> DEFINE op == Head(todo[th])
           f == op.fut
           success == Call("TrySetSuccess", f, NoFuture, op.cur, TRUE)
<1>1. NextCall(th, "TryStartSetValue") /\ TypeOK BY DEF TryStartSetValue, IInv
<1>2. f \in Futures /\ op.cur \in Futures \cup {NoFuture} BY <1>1, HeadTyped, CallFields
<1>3. CASE UnexpectedState(th, op.strict) BY <1>3, UnexpectedCall
<1>4. CASE /\ CanStartSetValue(op)
           /\ state' = [state EXCEPT ![f] = "SettingResult"]
           /\ Return(th, <<success>>) /\ UNCHANGED userVars
  <2>1. "TrySetSuccess" \in CallNames /\ NoFuture \in Args("TrySetSuccess") BY DEF CallNames, Args
  <2>2. success \in Calls BY <1>2, <2>1, CallTyped
  <2>3. success.fut = f /\ success.cur = op.cur /\ success.call = "TrySetSuccess" BY DEF Call
  <2>4. state[f] = "Invoking" => IsSynchronousCall(op) BY <1>4 DEF CanStartSetValue
  <2>5. UNCHANGED <<queued, runs>> BY <1>4 DEF userVars
  <2> HIDE DEF success
  <2> QED BY <1>1, <1>4, <2>2, <2>3, <2>4, <2>5, HandOnCall
<1> QED BY <1>3, <1>4, Zenon DEF TryStartSetValue

(* TrySetError takes an invoked future only from its own callback. *)
LEMMA TrySetErrorRight ==
  ASSUME IInv, NEW th \in Threads, TrySetError(th)
  PROVE  RightCall(th)
<1> DEFINE op == Head(todo[th])
           f == op.fut
           failed == Call("SetFailed", f, NoFuture, op.cur, TRUE)
<1>1. TypeOK BY DEF IInv
<1>2. PICK name \in {"TrySetError", "MoveError"} : NextCall(th, name) BY DEF TrySetError
<1>3. f \in Futures /\ op.cur \in Futures \cup {NoFuture} BY <1>1, <1>2, HeadTyped, CallFields
<1>4. CASE UnexpectedState(th, op.strict) BY <1>4, UnexpectedCall
<1>5. CASE /\ CanStartSetError(op)
           /\ state' = [state EXCEPT ![f] = "SettingResult"]
           /\ Return(th, <<failed>>) /\ UNCHANGED userVars
  <2>1. "SetFailed" \in CallNames /\ NoFuture \in Args("SetFailed") BY DEF CallNames, Args
  <2>2. failed \in Calls BY <1>3, <2>1, CallTyped
  <2>3. failed.fut = f /\ failed.cur = op.cur /\ failed.call = "SetFailed" BY DEF Call
  <2>4. state[f] = "Invoking" => IsSynchronousCall(op) BY <1>5 DEF CanStartSetError
  <2>5. UNCHANGED <<queued, runs>> BY <1>5 DEF userVars
  <2> HIDE DEF failed
  <2> QED BY <1>1, <1>2, <1>5, <2>2, <2>3, <2>4, <2>5, HandOnCall
<1> QED BY <1>4, <1>5, Zenon DEF TrySetError

(* A completion posts the continuations, which drives nothing yet. *)
LEMMA CompleteRight ==
  ASSUME TypeOK, NEW th \in Threads, NEW name, NextCall(th, name), NEW final,
         Complete(th, Head(todo[th]), final), UNCHANGED userVars,
         MovesByRight(th, Head(todo[th]).fut)
  PROVE  RightCall(th)
<1> DEFINE op == Head(todo[th])
           post == PostContinuation(op.fut, continuation[op.fut], op.cur)
<1>1. op.fut \in Futures /\ op.cur \in Futures \cup {NoFuture} BY HeadTyped, CallFields
<1>2. post \in Seq(Calls) BY <1>1, PostContinuationTyped
<1>3. \A g \in Futures : \A i \in DOMAIN post : ~Drives(post[i], g) BY PostDrivesNothing
<1>4. Return(th, post) /\ state' = [state EXCEPT ![op.fut] = final] BY Zenon DEF Complete
<1>5. UNCHANGED <<queued, runs>> BY DEF userVars
<1> HIDE DEF post
<1>6. PICK f \in Futures : f = op.fut BY <1>1
<1>7. \A g \in Futures : g # f => state'[g] = state[g] BY <1>4, <1>6 DEF TypeOK
<1> QED BY <1>2, <1>3, <1>4, <1>5, <1>6, <1>7, MoveCall

(* TrySetSuccess completes an invoked future only from its own callback. *)
LEMMA TrySetSuccessRight ==
  ASSUME IInv, NEW th \in Threads, TrySetSuccess(th)
  PROVE  RightCall(th)
<1> DEFINE op == Head(todo[th])
           f == op.fut
<1>1. NextCall(th, "TrySetSuccess") /\ TypeOK BY DEF TrySetSuccess, IInv
<1>2. f \in Futures /\ op.call = "TrySetSuccess" BY <1>1, HeadTyped, CallFields
<1>3. CASE UnexpectedState(th, op.strict) BY <1>3, UnexpectedCall
<1>4. CASE CanSetSuccess(op) /\ Complete(th, op, "Succeeded") /\ UNCHANGED userVars
  <2>1. state[f] = "Invoking" => op.cur = f BY <1>4 DEF CanSetSuccess, IsSynchronousCall
  <2>2. op.cur = f => Drives(op, f) BY <1>2 DEF Drives
  <2>3. MovesByRight(th, f) BY <2>1, <2>2 DEF MovesByRight
  <2> QED BY <1>1, <1>4, <2>3, CompleteRight
<1> QED BY <1>3, <1>4, Zenon DEF TrySetSuccess

(* SetFailed completes a future that is past Invoking. *)
LEMMA SetFailedRight ==
  ASSUME IInv, NEW th \in Threads, SetFailed(th)
  PROVE  RightCall(th)
<1> DEFINE op == Head(todo[th])
           f == op.fut
<1>1. NextCall(th, "SetFailed") /\ TypeOK BY DEF SetFailed, IInv
<1>2. CASE UnexpectedState(th, TRUE) BY <1>2, UnexpectedCall
<1>3. CASE state[f] = "SettingResult" /\ Complete(th, op, "Failed") /\ UNCHANGED userVars
  <2>1. MovesByRight(th, f) BY <1>3 DEF MovesByRight
  <2> QED BY <1>1, <1>3, <2>1, CompleteRight
<1> QED BY <1>2, <1>3, Zenon DEF SetFailed

(* The event of FutureWait has nothing to do with any right. *)
LEMMA FinishedRight ==
  ASSUME IInv, NEW th \in Threads, SetFinished(th) \/ AwaitFinished(th)
  PROVE  RightCall(th)
<1>1. Return(th, <<>>) /\ UNCHANGED <<state, queued, runs>>
  BY DEF SetFinished, AwaitFinished, futureVars, userVars
<1>2. <<>> \in Seq(Calls) OBVIOUS
<1>3. ASSUME NEW f \in Futures PROVE RightStep(th, <<>>, f)
  <2>1. MovesByRight(th, f) BY <1>1 DEF MovesByRight
  <2>2. \A i \in DOMAIN <<>> : ~Drives(<<>>[i], f) OBVIOUS
  <2> QED BY <1>1, <1>2, <2>1, <2>2, IdleCalls
<1> QED BY <1>1, <1>2, <1>3 DEF RightCall

(* What a task may leave to do: one call that drives its own future, and   *)
(* calls that drive nothing.                                               *)
TaskCalls(calls, f) ==
  /\ calls \in Seq(Calls)
  /\ \A g \in Futures : \A i, j \in DOMAIN calls :
       /\ Drives(calls[i], g) => g = f
       /\ Drives(calls[i], g) /\ Drives(calls[j], g) => i = j
       /\ ~Runs(calls[i], g)

(* One call, or two of which at most one drives f. *)
LEMMA TaskCallsOfTwo ==
  ASSUME NEW f \in Futures, NEW x \in Calls, NEW y \in Calls,
         \A g \in Futures : /\ (Drives(x, g) => g = f) /\ ~Runs(x, g)
                            /\ (Drives(y, g) => g = f) /\ ~Runs(y, g)
                            /\ ~(Drives(x, g) /\ Drives(y, g))
  PROVE  TaskCalls(<<x>>, f) /\ TaskCalls(<<x, y>>, f)
<1>1. <<x>> \in Seq(Calls) /\ <<x, y>> \in Seq(Calls) OBVIOUS
<1>2. TaskCalls(<<x>>, f) BY <1>1, Places DEF TaskCalls
<1>3. TaskCalls(<<x, y>>, f) BY <1>1, Places DEF TaskCalls
<1> QED BY <1>2, <1>3

(* A sequence of one call. *)
LEMMA TaskCallsOfOne ==
  ASSUME NEW f \in Futures, NEW x \in Calls,
         \A g \in Futures : (Drives(x, g) => g = f) /\ ~Runs(x, g)
  PROVE  TaskCalls(<<x>>, f)
<1>1. <<x>> \in Seq(Calls) OBVIOUS
<1> QED BY <1>1, Places DEF TaskCalls

(* Setting the value of the task's own future. *)
LEMMA TaskCallsOfSetValue ==
  ASSUME NEW f \in Futures, NEW strict \in BOOLEAN
  PROVE  TaskCalls(SetValue(f, f, strict), f)
<1>1. SetValue(f, f, strict) \in Seq(Calls) BY SetValueTyped
<1>2. ASSUME NEW g \in Futures
      PROVE  \E op : /\ SetValue(f, f, strict) = <<op>>
                     /\ (Drives(op, g) => g = f) /\ ~Runs(op, g)
  BY SetValueDrives
<1> QED BY <1>1, <1>2, Places DEF TaskCalls

(* Every callback, the user's and the library's, leaves such calls. *)
LEMMA LibraryTaskCalls ==
  ASSUME NEW f \in Futures, NEW e \in Errors \cup {NoError}
  PROVE  TaskCalls(TaskInvoke(f), f) /\ TaskCalls(CatchWith(f, e), f)
<1> DEFINE success == Call("TrySetSuccess", f, NoFuture, f, TRUE)
           finish == Call("SetFinished", f, NoFuture, f, FALSE)
           error == Call("TrySetError", f, e, f, TRUE)
           weak == Call("TrySetError", f, e, f, FALSE)
           forward == Call("TrySetError", Target[f], e, f, FALSE)
<1>1. /\ "TrySetSuccess" \in CallNames /\ NoFuture \in Args("TrySetSuccess")
      /\ "SetFinished" \in CallNames /\ NoFuture \in Args("SetFinished")
      /\ "TrySetError" \in CallNames /\ e \in Args("TrySetError")
  BY DEF CallNames, Args
<1>2. success \in Calls /\ finish \in Calls /\ error \in Calls /\ weak \in Calls
  BY <1>1, CallTyped
<1>3. \A g \in Futures : /\ (Drives(success, g) => g = f) /\ ~Runs(success, g)
                         /\ ~Drives(finish, g) /\ ~Runs(finish, g)
                         /\ (Drives(error, g) => g = f) /\ ~Runs(error, g)
                         /\ (Drives(weak, g) => g = f) /\ ~Runs(weak, g)
  BY DEF Drives, Runs, Call
<1>4. TaskCalls(SetValue(f, f, TRUE), f) BY TaskCallsOfSetValue
<1>5. CASE Kind[f] = "completion"
  <2>1. Target[f] \in Futures /\ Target[f] # f BY <1>5, FutureAssumption
  <2>2. forward \in Calls BY <1>1, <2>1, CallTyped
  <2>3. \A g \in Futures : ~Drives(forward, g) /\ ~Runs(forward, g)
    BY <2>1 DEF Drives, Runs, Call
  <2>4. SetValue(Target[f], f, FALSE) \in Seq(Calls) BY <2>1, SetValueTyped
  <2>5. \A g \in Futures : \E op : /\ SetValue(Target[f], f, FALSE) = <<op>>
                                   /\ ~Drives(op, g) /\ ~Runs(op, g)
    BY <2>1, SetValueDrives
  <2>6. TaskInvoke(f) = <<success>> \o SetValue(Target[f], f, FALSE)
    BY <1>5, Zenon DEF TaskInvoke, FutureCompletionTaskInvoke
  <2>7. CatchWith(f, e) = <<forward, error>> BY <1>5, Zenon DEF CatchWith
  <2> HIDE DEF success, forward, error
  <2>8. TaskCalls(<<forward, error>>, f)
    <3>1. \A g \in Futures : /\ (Drives(forward, g) => g = f) /\ ~Runs(forward, g)
                             /\ (Drives(error, g) => g = f) /\ ~Runs(error, g)
                             /\ ~(Drives(forward, g) /\ Drives(error, g))
      BY <1>3, <2>3
    <3> QED BY <1>2, <2>2, <3>1, TaskCallsOfTwo
  <2>9. TaskCalls(TaskInvoke(f), f)
    <3>1. PICK value \in Seq(Calls) : value = SetValue(Target[f], f, FALSE) BY <2>4
    <3>2. ASSUME NEW g \in Futures, NEW i \in DOMAIN value
          PROVE  ~Drives(value[i], g) /\ ~Runs(value[i], g)
      <4>1. PICK op : value = <<op>> /\ ~Drives(op, g) /\ ~Runs(op, g) BY <2>5, <3>1
      <4> QED BY <4>1, Places
    <3>3. PICK calls : calls = <<success>> \o value OBVIOUS
    <3>4. /\ calls \in Seq(Calls)
          /\ \A i \in DOMAIN calls : \/ i = 1 /\ calls[i] = success
                                     \/ i - 1 \in DOMAIN value /\ calls[i] = value[i - 1]
      <4>1. success \in Calls BY <1>2
      <4> QED BY <3>3, <4>1
    <3>5. TaskCalls(calls, f) BY <1>3, <3>2, <3>4 DEF TaskCalls
    <3> QED BY <2>6, <3>1, <3>3, <3>5
  <2> QED BY <2>7, <2>8, <2>9
<1>6. CASE Kind[f] = "wait"
  <2>1. Kind[f] # "completion" BY <1>6
  <2>2. TaskInvoke(f) = <<success, finish>>
    BY <1>6, <2>1, Zenon DEF TaskInvoke, FutureWaitTaskInvoke
  <2>3. CatchWith(f, e) = <<error, finish>> BY <1>6, <2>1, Zenon DEF CatchWith
  <2> HIDE DEF success, finish, error
  <2>4. TaskCalls(<<success, finish>>, f) BY <1>2, <1>3, TaskCallsOfTwo
  <2>5. TaskCalls(<<error, finish>>, f) BY <1>2, <1>3, TaskCallsOfTwo
  <2> QED BY <2>2, <2>3, <2>4, <2>5
<1>7. CASE Kind[f] = "token"
  <2>1. Kind[f] # "completion" /\ Kind[f] # "wait" BY <1>7
  <2>2. TaskInvoke(f) = SetValue(f, f, TRUE)
    BY <2>1, Zenon DEF TaskInvoke, CopyTaskInvoke
  <2>3. CatchWith(f, e) = SetValue(f, f, TRUE) BY <1>7, <2>1, Zenon DEF CatchWith
  <2> QED BY <1>4, <2>2, <2>3, Zenon
<1>8. CASE Kind[f] # "completion" /\ Kind[f] # "wait" /\ Kind[f] # "token"
  <2>1. TaskInvoke(f) = SetValue(f, f, TRUE)
    BY <1>8, Zenon DEF TaskInvoke, CopyTaskInvoke
  <2>2. CatchWith(f, e) = <<weak>> BY <1>8, Zenon DEF CatchWith
  <2> HIDE DEF weak
  <2>3. TaskCalls(<<weak>>, f) BY <1>2, <1>3, TaskCallsOfOne
  <2> QED BY <1>4, <2>1, <2>2, <2>3, Zenon
<1> QED BY <1>5, <1>6, <1>7, <1>8

(* What the user's callback leaves to do: the result, or to await one. *)
LEMMA UserTaskCalls ==
  ASSUME NEW th \in Threads, NEW f \in Futures, UserCallback(th, f)
  PROVE  \E calls : Return(th, calls) /\ TaskCalls(calls, f)
<1> DEFINE error == Call("TrySetError", f, f, f, TRUE)
           await == Call("StartAwaiting", f, NoFuture, f, TRUE)
           Add(p, k) == Call("AddContinuation", p, k, f, FALSE)
<1>1. CASE Return(th, SetValue(f, f, TRUE))
  BY <1>1, TaskCallsOfSetValue
<1>2. CASE Return(th, <<error>>)
  <2>1. "TrySetError" \in CallNames /\ f \in Args("TrySetError") BY DEF CallNames, Args, Errors
  <2>2. error \in Calls BY <2>1, CallTyped
  <2>3. \A g \in Futures : (Drives(error, g) => g = f) /\ ~Runs(error, g) BY DEF Drives, Runs, Call
  <2> HIDE DEF error
  <2> QED BY <1>2, <2>2, <2>3, TaskCallsOfOne
<1>3. CASE \E k, p \in Futures : Return(th, <<await, Add(p, k)>>)
  <2>1. PICK k \in Futures, p \in Futures : Return(th, <<await, Add(p, k)>>) BY <1>3, Zenon
  <2>2. /\ "StartAwaiting" \in CallNames /\ NoFuture \in Args("StartAwaiting")
        /\ "AddContinuation" \in CallNames /\ k \in Args("AddContinuation")
    BY DEF CallNames, Args
  <2>3. await \in Calls /\ Add(p, k) \in Calls BY <2>2, CallTyped
  <2>4. \A g \in Futures : /\ (Drives(await, g) => g = f) /\ ~Runs(await, g)
                           /\ ~Drives(Add(p, k), g) /\ ~Runs(Add(p, k), g)
    BY DEF Drives, Runs, Call
  <2>5. PICK add : add = Add(p, k) OBVIOUS
  <2> HIDE DEF await, Add
  <2>6. TaskCalls(<<await, add>>, f) BY <2>3, <2>4, <2>5, TaskCallsOfTwo
  <2> QED BY <2>1, <2>5, <2>6
<1> QED BY <1>1, <1>2, <1>3, Zenon DEF UserCallback

(* RunTask hands its right to the calls of the task. *)
LEMMA RunTaskRight ==
  ASSUME IInv, NEW th \in Threads, RunTask(th)
  PROVE  RightCall(th)
<1> DEFINE op == Head(todo[th])
           f == op.fut
           success == Call("TrySetSuccess", f, NoFuture, f, TRUE)
           error == Call("TrySetError", f, m_error[f], f, TRUE)
<1>1. NextCall(th, "RunTask") /\ TypeOK BY DEF RunTask, IInv
<1>2. f \in Futures /\ op.call = "RunTask" BY <1>1, HeadTyped, CallFields
<1>3. m_error[f] \in Errors \cup {NoError} BY <1>1, <1>2 DEF TypeOK
<1>4. TaskCalls(<<success>>, f) /\ TaskCalls(<<error>>, f)
  <2>1. /\ "TrySetSuccess" \in CallNames /\ NoFuture \in Args("TrySetSuccess")
        /\ "TrySetError" \in CallNames /\ m_error[f] \in Args("TrySetError")
    BY <1>3 DEF CallNames, Args
  <2>2. success \in Calls /\ error \in Calls BY <1>2, <2>1, CallTyped
  <2>3. \A g \in Futures : /\ (Drives(success, g) => g = f) /\ ~Runs(success, g)
                           /\ (Drives(error, g) => g = f) /\ ~Runs(error, g)
    BY DEF Drives, Runs, Call
  <2> HIDE DEF success, error, f
  <2> QED BY <1>2, <2>2, <2>3, TaskCallsOfOne
<1>5. TaskCalls(TaskInvoke(f), f) /\ TaskCalls(TaskCatch(f), f)
  BY <1>2, <1>3, LibraryTaskCalls, Zenon DEF TaskCatch
<1>6. PICK calls : Return(th, calls) /\ TaskCalls(calls, f)
  <2>1. UserCallback(th, f) \/ \E calls : Return(th, calls) /\ TaskCalls(calls, f)
    BY <1>4, <1>5, Zenon DEF RunTask
  <2> QED BY <1>2, <2>1, UserTaskCalls
<1>7. runs' = [runs EXCEPT ![f] = runs[f] + 1] /\ UNCHANGED <<state, queued>>
  BY Zenon DEF RunTask, futureVars
<1>8. Drives(op, f) /\ Runs(op, f) BY <1>2 DEF Drives, Runs
<1> HIDE DEF f
<1>9. \A g \in Futures : runs'[g] = IF g = f THEN runs[g] + 1 ELSE runs[g]
  BY <1>1, <1>7 DEF TypeOK
<1>10. ASSUME NEW g \in Futures PROVE RightStep(th, calls, g)
  <2>1. HandsOver(th, calls, g) BY <1>6, <1>7, <1>8 DEF HandsOver, TaskCalls
  <2>2. MovesByRight(th, g) BY <1>7 DEF MovesByRight
  <2>3. \A i \in DOMAIN calls : ~Runs(calls[i], g) BY <1>6 DEF TaskCalls
  <2>4. RunsByRight(th, calls, g) BY <1>8, <1>9, <2>3 DEF RunsByRight
  <2> QED BY <2>1, <2>2, <2>4 DEF RightStep
<1> QED BY <1>6, <1>10 DEF RightCall, TaskCalls

(* Every call of FutureImpl keeps to its right. *)
LEMMA CallStepRight ==
  ASSUME IInv, RunInv, NEW th \in Threads, CallStep(th)
  PROVE  RightCall(th) /\ \E name : NextCall(th, name)
<1>1. RightCall(th)
  BY AddContinuationRight, TryPostRight, TaskPostRight, TrySetPostedRight, InvokeRight,
     RunTaskRight, StartAwaitingRight, TryStartSetValueRight, TrySetSuccessRight,
     TrySetErrorRight, SetFailedRight, FinishedRight, Zenon
     DEF CallStep
<1>2. \E name : NextCall(th, name)
  BY Zenon DEF CallStep, AddContinuation, TryPostInternal, TaskPost, TrySetPosted, Invoke,
     RunTask, StartAwaiting, TryStartSetValue, TrySetSuccess, TrySetError, SetFailed,
     SetFinished, AwaitFinished
<1> QED BY <1>1, <1>2

(* The calls of a thread that was outside of the library. *)
LEMMA BeginKeeps ==
  ASSUME TypeOK, NEW th \in Threads, NEW calls \in Seq(Calls), Begin(th, calls),
         NEW f \in Futures, DrivenOnce(f), RanOnce(f), UNCHANGED <<state, runs>>,
         \A i \in DOMAIN calls : ~Runs(calls[i], f),
         \/ /\ f \in queued /\ f \notin queued'
            /\ \A i, j \in DOMAIN calls : Drives(calls[i], f) /\ Drives(calls[j], f) => i = j
         \/ /\ f \in queued' => f \in queued
            /\ \A i \in DOMAIN calls : ~Drives(calls[i], f)
  PROVE  DrivenOnce(f)' /\ RanOnce(f)'
<1>1. /\ todo'[th] = calls /\ todo[th] = <<>>
      /\ \A u \in Threads : u # th => todo'[u] = todo[u]
  BY DEF Begin, TypeOK
<1>2. UniqueDriver(f)' /\ (f \in queued' => NoDriver(f)') /\ (NoDriver(f) /\ f \notin queued => NoDriver(f)')
  <2>1. CASE \A i \in DOMAIN calls : ~Drives(calls[i], f)
    <3>1. \A u \in Threads : \A i \in DOMAIN todo'[u] :
            Drives(todo'[u][i], f) => u # th /\ todo'[u] = todo[u]
      BY <1>1, <2>1
    <3>2. UniqueDriver(f)' BY <3>1 DEF DrivenOnce, UniqueDriver, Drives
    <3>3. NoDriver(f) => NoDriver(f)' BY <3>1 DEF NoDriver, Drives
    <3> QED BY <3>2, <3>3 DEF DrivenOnce
  <2>2. CASE /\ f \in queued /\ f \notin queued'
             /\ \A i, j \in DOMAIN calls : Drives(calls[i], f) /\ Drives(calls[j], f) => i = j
    <3>1. NoDriver(f) BY <2>2 DEF DrivenOnce
    <3>2. \A u \in Threads : \A i \in DOMAIN todo'[u] :
            Drives(todo'[u][i], f) => u = th /\ i \in DOMAIN calls /\ todo'[u][i] = calls[i]
      BY <1>1, <3>1 DEF NoDriver
    <3>3. UniqueDriver(f)' BY <2>2, <3>2 DEF UniqueDriver, Drives
    <3> QED BY <2>2, <3>3
  <2> QED BY <2>1, <2>2
<1>3. DrivenOnce(f)'
  <2>1. f \in queued' => f \in queued OBVIOUS
  <2>2. state[f] = "Pending" => NoDriver(f) /\ f \notin queued BY DEF DrivenOnce
  <2> QED BY <1>2, <2>1, <2>2 DEF DrivenOnce
<1>4. RanOnce(f)'
  <2>1. ASSUME NEW u \in Threads, NEW i \in DOMAIN todo'[u], Runs(todo'[u][i], f)
        PROVE  state[f] = "Invoking" /\ runs[f] = 0
    BY <1>1, <2>1 DEF RanOnce
  <2> QED BY <2>1 DEF RanOnce, Runs
<1> QED BY <1>3, <1>4

(* Outside of the library a thread starts calls that drive no future it    *)
(* did not get from its executor.                                          *)
LEMMA UserStepRight ==
  ASSUME TypeOK, NEW th \in Threads, UserStep(th)
  PROVE  \E calls \in Seq(Calls) :
           /\ Begin(th, calls) /\ UNCHANGED <<state, queued, runs>>
           /\ \A f \in Futures : \A i \in DOMAIN calls : ~Drives(calls[i], f)
<1> DEFINE Idle(calls) == /\ calls \in Seq(Calls)
                          /\ \A f \in Futures : \A i \in DOMAIN calls : ~Drives(calls[i], f)
           Goal == \E calls : Begin(th, calls) /\ UNCHANGED <<state, queued, runs>> /\ Idle(calls)
<1>1. PICK f \in Futures :
        \/ \E c \in Futures : Continue(th, f, c)
        \/ When(th, f) \/ PostFuture(th, f) \/ Set(th, f) \/ DropPromise(th, f)
  BY Zenon DEF UserStep, WhenAll, WhenAny
<1>2. Idle(<<>>) OBVIOUS
<1>3. ASSUME NEW name \in CallNames, NEW g \in Futures, NEW arg \in Args(name),
             NEW strict \in BOOLEAN,
             name \in {"AddContinuation", "TryPost", "AwaitFinished", "TrySetError", "TrySetSuccess",
                       "TryStartSetValue"}
      PROVE  Idle(<<Call(name, g, arg, NoFuture, strict)>>)
  <2> DEFINE op == Call(name, g, arg, NoFuture, strict)
  <2>1. op \in Calls BY CallTyped
  <2>2. \A h \in Futures : ~Drives(op, h)
    BY <1>3, FutureAssumption DEF Drives, Call
  <2> HIDE DEF op
  <2>3. <<op>> \in Seq(Calls) BY <2>1
  <2>4. Idle(<<op>>) BY <2>2, <2>3, Places
  <2> QED BY <2>4 DEF op
<1>4. ASSUME NEW c \in Futures, Continue(th, f, c) PROVE Goal
  <2> DEFINE wait == <<Call("AwaitFinished", c, NoFuture, NoFuture, FALSE)>>
             add == <<Call("AddContinuation", f, c, NoFuture, FALSE)>>
  <2>1. PICK calls : /\ calls = <<>> \/ calls = wait
                     /\ ContinueWith(th, f, c, calls)
    BY <1>4, Zenon DEF Continue, Then, Catch, Share, SharedThen, AddFuture, WhenChanged,
                       FutureWait, UserCall
  <2>2. Begin(th, add \o calls) /\ UNCHANGED <<futureVars, queued, runs>>
    BY <2>1, Zenon DEF ContinueWith, UserCall
  <2>3. /\ "AddContinuation" \in CallNames /\ c \in Args("AddContinuation")
        /\ "AwaitFinished" \in CallNames /\ NoFuture \in Args("AwaitFinished")
    BY DEF CallNames, Args
  <2>4. Idle(add) /\ Idle(wait) BY <1>3, <2>3
  <2> HIDE DEF add, wait
  <2>5. Idle(calls) BY <1>2, <2>1, <2>4
  <2>6. Idle(add \o calls)
    <3>1. PICK s \in Seq(Calls) : s = add BY <2>4
    <3>2. PICK t \in Seq(Calls) : t = calls BY <2>5
    <3>3. PICK r : r = s \o t OBVIOUS
    <3>4. /\ r \in Seq(Calls)
          /\ \A i \in DOMAIN r : \/ i \in DOMAIN s /\ r[i] = s[i]
                                 \/ i - Len(s) \in DOMAIN t /\ r[i] = t[i - Len(s)]
      BY <3>3
    <3>5. Idle(r) BY <2>4, <2>5, <3>1, <3>2, <3>4
    <3> QED BY <3>1, <3>2, <3>3, <3>5
  <2> HIDE DEF Idle
  <2> QED BY <2>2, <2>6 DEF futureVars
<1>5. ASSUME When(th, f) PROVE Goal
  <2> DEFINE Add(i) == Call("AddContinuation", Inputs[f][i], f, NoFuture, FALSE)
             calls == [i \in DOMAIN Inputs[f] |-> Add(i)]
  <2>1. Inputs[f] \in Seq(Futures) BY FutureAssumption
  <2>2. \A i \in DOMAIN Inputs[f] : Inputs[f][i] \in Futures BY <2>1, ElementOfSeq
  <2>3. \A i \in DOMAIN Inputs[f] : Add(i) \in Calls
    <3>1. "AddContinuation" \in CallNames /\ f \in Args("AddContinuation") BY DEF CallNames, Args
    <3> QED BY <2>2, <3>1, CallTyped
  <2>4. DOMAIN Inputs[f] = 1..Len(Inputs[f]) /\ Len(Inputs[f]) \in Nat BY <2>1, LenProperties
  <2>5. calls \in Seq(Calls)
    <3>1. calls \in [1..Len(Inputs[f]) -> Calls] BY <2>3, <2>4
    <3> HIDE DEF calls
    <3> QED BY <2>4, <3>1, SeqDef
  <2>6. \A g \in Futures : \A i \in DOMAIN Inputs[f] : ~Drives(Add(i), g) BY DEF Drives, Call
  <2>7. \A g \in Futures : \A i \in DOMAIN calls : ~Drives(calls[i], g)
    <3> HIDE DEF Add
    <3> QED BY <2>6
  <2>8. Begin(th, calls) BY <1>5 DEF When
  <2>9. UNCHANGED <<futureVars, queued, runs>> BY <1>5, Zenon DEF When
  <2> HIDE DEF calls
  <2> QED BY <2>5, <2>7, <2>8, <2>9 DEF futureVars
<1>6. ASSUME PostFuture(th, f) PROVE Goal
  <2> DEFINE post == <<Call("TryPost", f, NoFuture, NoFuture, TRUE)>>
  <2>1. "TryPost" \in CallNames /\ NoFuture \in Args("TryPost") BY DEF CallNames, Args
  <2>2. Idle(post) BY <1>3, <2>1
  <2>3. Begin(th, post) /\ UNCHANGED <<futureVars, queued, runs>> BY <1>6, Zenon DEF PostFuture
  <2> HIDE DEF post, Idle
  <2> QED BY <2>2, <2>3 DEF futureVars
<1>7. ASSUME Set(th, f) PROVE Goal
  <2> DEFINE error == UserCall(th, f, "TrySetError", f)
             cancel == UserCall(th, f, "TrySetError", Canceled)
             value == SetValue(f, NoFuture, FALSE)
  <2>1. /\ "TrySetError" \in CallNames /\ f \in Args("TrySetError") /\ Canceled \in Args("TrySetError")
        /\ "TrySetSuccess" \in CallNames /\ NoFuture \in Args("TrySetSuccess")
        /\ "TryStartSetValue" \in CallNames /\ NoFuture \in Args("TryStartSetValue")
    BY DEF CallNames, Args, Errors
  <2>2. Idle(error) /\ Idle(cancel) BY <1>3, <2>1 DEF UserCall
  <2>3. Idle(value)
    <3>1. /\ Idle(<<Call("TrySetSuccess", f, NoFuture, NoFuture, FALSE)>>)
          /\ Idle(<<Call("TryStartSetValue", f, NoFuture, NoFuture, FALSE)>>)
      BY <1>3, <2>1
    <3> HIDE DEF Idle
    <3> QED BY <3>1 DEF SetValue
  <2>4. PICK calls : (calls = error \/ calls = cancel \/ calls = value) /\ SetPromise(th, f, calls)
    BY <1>7, Zenon DEF Set, PromiseTrySetValue, PromiseTrySetError, PromiseTryCancel,
                       GroupTrySetValue, GroupTrySetError, Cancel, Abandon
  <2>5. Begin(th, calls) /\ UNCHANGED <<futureVars, userVars>> BY <2>4, Zenon DEF SetPromise
  <2> HIDE DEF Idle, error, cancel, value
  <2>6. Idle(calls) BY <2>2, <2>3, <2>4
  <2> QED BY <2>5, <2>6 DEF futureVars, userVars
<1>8. ASSUME DropPromise(th, f) PROVE Goal
  <2> DEFINE cancel == <<Call("TrySetError", f, Canceled, NoFuture, TRUE)>>
  <2>1. "TrySetError" \in CallNames /\ Canceled \in Args("TrySetError")
    BY DEF CallNames, Args, Errors
  <2>2. Idle(cancel) BY <1>3, <2>1
  <2>3. PICK calls : (calls = <<>> \/ calls = cancel) /\ Begin(th, calls)
    BY <1>8, Zenon DEF DropPromise
  <2>4. UNCHANGED <<futureVars, queued, runs>> BY <1>8, Zenon DEF DropPromise
  <2> HIDE DEF Idle, cancel
  <2> QED BY <1>2, <2>2, <2>3, <2>4 DEF futureVars
<1>9. Goal BY <1>1, <1>4, <1>5, <1>6, <1>7, <1>8, Zenon
<1> QED BY <1>9

(* An executor uses the right it got from the post, or gives it up. *)
LEMMA RunQueuedKeeps ==
  ASSUME TypeOK, NEW th \in Threads, NEW f \in Futures, RunQueued(th, f),
         NEW g \in Futures, DrivenOnce(g), RanOnce(g)
  PROVE  DrivenOnce(g)' /\ RanOnce(g)'
<1> DEFINE invoke == Call("Invoke", f, NoFuture, NoFuture, FALSE)
           cancel == Call("TrySetError", f, Canceled, NoFuture, FALSE)
<1>1. /\ "Invoke" \in CallNames /\ NoFuture \in Args("Invoke")
      /\ "TrySetError" \in CallNames /\ Canceled \in Args("TrySetError")
  BY DEF CallNames, Args, Errors
<1>2. invoke \in Calls /\ cancel \in Calls BY <1>1, CallTyped
<1>3. /\ (Drives(invoke, g) => g = f) /\ ~Runs(invoke, g)
      /\ ~Drives(cancel, g) /\ ~Runs(cancel, g)
  BY FutureAssumption DEF Drives, Runs, Call
<1>4. Begin(th, <<invoke>>) \/ Begin(th, <<cancel>>)
  BY Zenon DEF RunQueued, UserCall
<1>5. f \in queued /\ queued' = queued \ {f} /\ UNCHANGED <<state, runs>>
  BY DEF RunQueued, futureVars
<1> HIDE DEF invoke, cancel
<1>6. PICK x \in Calls : /\ Begin(th, <<x>>) /\ ~Runs(x, g)
                         /\ Drives(x, g) => g = f
  BY <1>2, <1>3, <1>4
<1>7. <<x>> \in Seq(Calls) BY <1>6
<1>8. /\ \A i \in DOMAIN <<x>> : ~Runs(<<x>>[i], g)
      /\ \A i, j \in DOMAIN <<x>> : Drives(<<x>>[i], g) /\ Drives(<<x>>[j], g) => i = j
      /\ g # f => \A i \in DOMAIN <<x>> : ~Drives(<<x>>[i], g)
  BY <1>6, Places
<1>9. CASE g = f BY <1>5, <1>6, <1>7, <1>8, <1>9, BeginKeeps
<1>10. CASE g # f
  <2>1. g \in queued' => g \in queued BY <1>5
  <2> QED BY <1>5, <1>6, <1>7, <1>8, <1>10, <2>1, BeginKeeps
<1> QED BY <1>9, <1>10

(* Every step keeps every future driven and run once. *)
LEMMA StepRunInv ==
  ASSUME IInv, RunInv, Next
  PROVE  RunInv'
<1>1. TypeOK BY DEF IInv
<1>2. FollowsArrows BY NextSafe DEF SafeStep
<1> SUFFICES ASSUME NEW f \in Futures, ~IsMultiPost(f) PROVE DrivenOnce(f)' /\ RanOnce(f)'
  BY DEF RunInv, OneDriver, IsMultiPost
<1>3. DrivenOnce(f) /\ RanOnce(f) BY DEF RunInv, OneDriver
<1>4. CASE \E th \in Threads : CallStep(th)
  <2>1. PICK th \in Threads : CallStep(th) BY <1>4
  <2>2. PICK name : NextCall(th, name) BY <2>1, CallStepRight
  <2>3. PICK calls \in Seq(Calls) : Return(th, calls) /\ RightStep(th, calls, f)
    BY <2>1, CallStepRight DEF RightCall
  <2> QED BY <1>1, <1>2, <1>3, <2>2, <2>3, RightStepKeeps
<1>5. CASE \E th \in Users : UserStep(th)
  <2>1. PICK th \in Threads : UserStep(th) BY <1>5 DEF Threads
  <2>2. PICK calls \in Seq(Calls) :
          /\ Begin(th, calls) /\ UNCHANGED <<state, queued, runs>>
          /\ \A i \in DOMAIN calls : ~Drives(calls[i], f)
    BY <1>1, <2>1, UserStepRight
  <2>3. \A i \in DOMAIN calls : ~Runs(calls[i], f) BY <2>2 DEF Drives, Runs
  <2> QED BY <1>1, <1>3, <2>2, <2>3, BeginKeeps
<1>6. CASE \E th \in Executors, g \in Futures : RunQueued(th, g)
  BY <1>1, <1>3, <1>6, RunQueuedKeeps DEF Threads
<1> QED BY <1>4, <1>5, <1>6, Zenon DEF Next

(* At the start nothing is posted, and nothing has run. *)
LEMMA InitRunInv == Init => RunInv
<1> SUFFICES ASSUME Init, NEW f \in Futures PROVE DrivenOnce(f) /\ RanOnce(f)
  BY DEF RunInv, OneDriver
<1>1. \A th \in Threads : DOMAIN todo[th] = {} BY DEF Init
<1>2. queued = {} /\ runs[f] = 0 BY DEF Init
<1> QED BY <1>1, <1>2 DEF DrivenOnce, UniqueDriver, NoDriver, RanOnce

(* The calls by place are the calls of CallsOf. *)
LEMMA RunInvRunsOnce == RunInv => RunsOnce
<1> SUFFICES ASSUME RunInv, NEW f \in Futures, ~IsMultiPost(f)
             PROVE  /\ runs[f] <= 1
                    /\ state[f] \in {"Pending", "Posting", "Posted"} => runs[f] = 0
                    /\ \A op \in CallsOf("RunTask") : op.fut = f => state[f] = "Invoking" /\ runs[f] = 0
  BY DEF RunsOnce
<1>1. RanOnce(f) BY DEF RunInv
<1>2. ASSUME NEW op \in CallsOf("RunTask")
      PROVE  op.call = "RunTask" /\ \E th \in Threads : \E i \in DOMAIN todo[th] : op = todo[th][i]
  BY DEF CallsOf
<1> QED BY <1>1, <1>2 DEF RanOnce, Runs, Early

(* However posts, cancellations and executors race, the callback of a      *)
(* future runs at most once, never before it is Invoking and never after a *)
(* cancellation that came first, for any futures, threads and shape of the *)
(* graph.                                                                  *)
THEOREM CallbackRunsOnce == Spec => []RunsOnce
<1>1. IInv /\ RunInv /\ [Next]_vars => RunInv'
  <2> SUFFICES ASSUME IInv, RunInv, [Next]_vars PROVE RunInv' OBVIOUS
  <2>1. CASE Next BY <2>1, StepRunInv
  <2>2. CASE UNCHANGED vars
    BY <2>2 DEF vars, futureVars, userVars, RunInv, OneDriver, DrivenOnce, UniqueDriver, NoDriver,
                RanOnce, Drives, Runs, IsMultiPost
  <2> QED BY <2>1, <2>2
<1> QED BY <1>1, InitIInv, StepIInv, InitRunInv, RunInvRunsOnce, PTL DEF Spec
-----------------------------------------------------------------------------
(* WhenAll and WhenAny move the error out of a failed future, so what      *)
(* follows is about graphs without them.                                   *)
SinglePosts == \A f \in Futures : ~IsMultiPost(f)

Linked(c) == \E p \in Futures \cup {NoFuture} : <<p, c>> \in links

(* Another future, the parent of f, is done, or f needs none. *)
MayStart(f) ==
  \/ IsPromise(f)
  \/ <<NoFuture, f>> \in links
  \/ \E p \in Futures \ {f} : <<p, f>> \in links /\ state[p] \in Done

(* The futures f depends on allow it to end with result r and error e. *)
Ends(f, r, e) ==
  /\ MayStart(f)
  /\ \A p \in Futures : Forwards(p, f) => state[p] = r /\ (r = "Failed" => e = m_error[p])
  /\ Kind[f] = "then" /\ r = "Succeeded" =>
       \A p \in Futures : <<p, f>> \in links => state[p] = "Succeeded"
  /\ Kind[f] = "token" => r = "Succeeded"
  /\ r = "Failed" => e # NoError

(* What a pending call relies on. *)
Fits(op) ==
  /\ op.call # "MoveError"
  /\ op.call = "AddContinuation" => <<op.fut, op.arg>> \in links
  /\ op.call = "TryPost" => /\ <<op.arg, op.fut>> \in links
                            /\ op.arg = NoFuture \/ state[op.arg] \in Done
  /\ op.call = "TaskPost" => HasTaskPost(op.fut)
  /\ op.call \in {"TaskPost", "Invoke", "RunTask", "StartAwaiting"} => state[op.fut] # "Pending"
  /\ op.call \in {"TryStartSetValue", "TrySetSuccess"} => Ends(op.fut, "Succeeded", NoError)
  /\ op.call = "TrySetError" => Ends(op.fut, "Failed", op.arg)
  /\ op.call = "SetFailed" =>
       /\ state[op.fut] \in {"SettingResult"} \cup Done
       /\ state[op.fut] = "SettingResult" => Ends(op.fut, "Failed", m_error[op.fut])
AllFit == \A th \in Threads : \A i \in DOMAIN todo[th] : Fits(todo[th][i])

(* A future that is posted or invoked has the error of its parent. *)
Inherits(f) ==
  \/ \E p \in Futures : /\ <<p, f>> \in links /\ state[p] \in Done
                        /\ m_error[f] = IF state[p] = "Failed" THEN m_error[p] ELSE NoError
  \/ <<NoFuture, f>> \in links /\ m_error[f] = NoError

ResultOK(f) ==
  /\ state[f] # "Pending" => MayStart(f)
  /\ state[f] \in Done => Ends(f, state[f], m_error[f])
  /\ state[f] \in {"Pending", "Succeeded"} => m_error[f] = NoError
  /\ state[f] \in {"Posting", "Posted", "Invoking"} => Inherits(f)
  /\ f \in queued => HasTaskPost(f) /\ state[f] # "Pending"

(* The list of p holds continuations of p only. *)
ListOK(f) ==
  /\ continuation[f] \in Futures => <<f, continuation[f]>> \in links
  /\ m_link[f] \in Futures => Linked(f)
  /\ state[f] = "Pending" /\ m_link[f] \in Futures =>
       \A p \in Futures \cup {NoFuture} : <<p, f>> \in links => <<p, m_link[f]>> \in links

AllWords == \A f \in Futures : ResultOK(f) /\ ListOK(f)

(* A future is linked once, and a completion by the run of the future it   *)
(* completes.                                                              *)
LinkedOnce ==
  \A c \in Futures : \A p, q \in Futures \cup {NoFuture} :
    <<p, c>> \in links /\ <<q, c>> \in links => p = q
LinkKinds ==
  \A c \in Futures : /\ Linked(c) => ~IsPromise(c)
                     /\ <<NoFuture, c>> \in links => CallbackOnValue(c)
CompletionOK(k) ==
  /\ HasTaskPost(Target[k]) /\ runs[Target[k]] # 0
  /\ MayStart(Target[k])
  /\ Kind[Target[k]] = "then" =>
       \A p \in Futures : <<p, Target[k]>> \in links => state[p] = "Succeeded"
  /\ \A l \in Futures : Linked(l) /\ Target[l] = Target[k] => l = k
CompletionsOK == \A k \in Futures : Kind[k] = "completion" /\ Linked(k) => CompletionOK(k)
LinksOK == LinkedOnce /\ LinkKinds /\ CompletionsOK

(* A future whose callback has not run yet is completed by nobody. *)
Unrun(op, f) == op.fut = f /\ op.call \in {"TaskPost", "Invoke", "RunTask"}
Sets(op, f) ==
  op.fut = f /\ op.call \in {"TryStartSetValue", "TrySetSuccess", "TrySetError", "SetFailed"}
ToRun(f) == f \in queued \/ \E th \in Threads : \E i \in DOMAIN todo[th] : Unrun(todo[th][i], f)
NoSetter(f) == \A th \in Threads : \A i \in DOMAIN todo[th] : ~Sets(todo[th][i], f)
RestOK(f) ==
  /\ ToRun(f) => runs[f] = 0
  /\ HasTaskPost(f) /\ (state[f] = "Pending" \/ ToRun(f)) => NoSetter(f)
AllRest == \A f \in Futures : RestOK(f)

GraphInv == AllFit /\ AllWords /\ LinksOK /\ AllRest

(* What a step leaves of the facts that results rest on. *)
LinksGrow ==
  /\ links \subseteq links'
  /\ \A p \in Futures \cup {NoFuture}, c \in Futures :
       <<p, c>> \in links' /\ <<p, c>> \notin links => ~IsMade(c)
Steady ==
  /\ \A f \in Futures : state[f] \in Done => state'[f] = state[f]
  /\ \A f \in Futures : state[f] \in {"SettingResult", "Failed"} /\ state'[f] = state[f]
                          => m_error'[f] = m_error[f]
  /\ LinksGrow
(* A new completion of f. *)
NewTarget(f) ==
  \E p \in Futures, k \in Futures : <<p, k>> \in links' /\ <<p, k>> \notin links /\ Target[k] = f

(* A link to a future that was made is no new one. *)
LEMMA OldLink ==
  ASSUME LinksGrow, NEW p \in Futures \cup {NoFuture}, NEW c \in Futures, IsMade(c), <<p, c>> \in links'
  PROVE  <<p, c>> \in links
BY DEF LinksGrow

(* A future that may start was made, and may still start. *)
LEMMA MayStartStable ==
  ASSUME Steady, NEW f \in Futures, MayStart(f)
  PROVE  IsMade(f) /\ MayStart(f)'
<1>1. IsMade(f) BY DEF MayStart, IsMade
<1>2. MayStart(f)' BY DEF MayStart, Steady, LinksGrow, IsPromise
<1> QED BY <1>1, <1>2

(* The result a future may have stays possible. *)
LEMMA EndsStable ==
  ASSUME Steady, NEW f \in Futures, NEW r \in Done, NEW e, Ends(f, r, e), ~NewTarget(f)
  PROVE  Ends(f, r, e)'
<1>1. IsMade(f) /\ MayStart(f)' BY MayStartStable DEF Ends
<1>2. ASSUME NEW p \in Futures, <<p, f>> \in links' PROVE <<p, f>> \in links
  BY <1>1, <1>2, OldLink DEF Steady
<1>3. ASSUME NEW p \in Futures, Forwards(p, f)'
      PROVE  state'[p] = r /\ (r = "Failed" => e = m_error'[p])
  <2>1. Forwards(p, f)
    BY <1>2, <1>3 DEF Forwards, NewTarget
  <2>2. state[p] = r /\ (r = "Failed" => e = m_error[p]) BY <2>1 DEF Ends
  <2> QED BY <2>2 DEF Steady
<1>4. ASSUME NEW p \in Futures, <<p, f>> \in links', Kind[f] = "then", r = "Succeeded"
      PROVE  state'[p] = "Succeeded"
  BY <1>2, <1>4 DEF Ends, Steady
<1> QED BY <1>1, <1>3, <1>4 DEF Ends

(* A call that was made stays possible, unless it completes a future that  *)
(* has just got a completion.                                              *)
LEMMA FitsStable ==
  ASSUME Steady, FollowsArrows, SinglePosts, NEW op \in Calls, Fits(op),
         ~(Sets(op, op.fut) /\ NewTarget(op.fut))
  PROVE  Fits(op)'
<1>1. op.fut \in Futures /\ op.arg \in Args(op.call) BY CallFields
<1>2. "Succeeded" \in Done /\ "Failed" \in Done BY DEF Done
<1>3. CASE op.call \in {"AddContinuation", "TryPost"}
  <2>1. op.call = "TryPost" => op.arg = NoFuture \/ op.arg \in Futures BY <1>1 DEF Args
  <2> QED BY <1>3, <2>1 DEF Fits, Steady, LinksGrow
<1>4. CASE op.call \in {"TaskPost", "Invoke", "RunTask", "StartAwaiting"}
  <2>1. state'[op.fut] # "Pending" BY <1>1, <1>4 DEF Fits, FollowsArrows, SinglePosts, Arrows
  <2> QED BY <1>4, <2>1 DEF Fits, HasTaskPost
<1>5. CASE op.call \in {"TryStartSetValue", "TrySetSuccess", "TrySetError"}
  <2>1. ~NewTarget(op.fut) BY <1>5 DEF Sets
  <2> QED BY <1>1, <1>2, <1>5, <2>1, EndsStable DEF Fits
<1>6. CASE op.call = "SetFailed"
  <2>1. ~NewTarget(op.fut) BY <1>6 DEF Sets
  <2>2. state'[op.fut] \in {"SettingResult"} \cup Done
    BY <1>1, <1>6 DEF Fits, FollowsArrows, SinglePosts, Arrows, Done
  <2>3. ASSUME state'[op.fut] = "SettingResult" PROVE Ends(op.fut, "Failed", m_error[op.fut])'
    <3>1. state[op.fut] = "SettingResult" /\ m_error'[op.fut] = m_error[op.fut]
      BY <1>1, <1>6, <2>3 DEF Fits, Steady, Done
    <3>2. Ends(op.fut, "Failed", m_error[op.fut]) BY <1>6, <3>1 DEF Fits
    <3>3. PICK e : e = m_error[op.fut] OBVIOUS
    <3>4. Ends(op.fut, "Failed", e)' BY <1>1, <1>2, <2>1, <3>2, <3>3, EndsStable
    <3> QED BY <3>1, <3>3, <3>4 DEF Ends
  <2> QED BY <1>6, <2>2, <2>3 DEF Fits
<1>7. CASE op.call \in {"TrySetPosted", "SetFinished", "AwaitFinished"} BY <1>7 DEF Fits
<1>8. op.call # "MoveError" BY DEF Fits
<1>9. op.call \in CallNames BY CallFields
<1> QED BY <1>3, <1>4, <1>5, <1>6, <1>7, <1>8, <1>9 DEF CallNames

(* The result of a future that a step does not touch stays right. *)
LEMMA ResultStable ==
  ASSUME Steady, NEW f \in Futures, ResultOK(f), f \in queued' => f \in queued,
         state'[f] = state[f], m_error'[f] = m_error[f], ~(state[f] \in Done /\ NewTarget(f))
  PROVE  ResultOK(f)'
<1>1. MayStart(f) => MayStart(f)' BY MayStartStable
<1>2. ASSUME state[f] \in Done PROVE Ends(f, state[f], m_error[f])'
  <2>1. PICK r, e : r \in Done /\ r = state[f] /\ e = m_error[f] BY <1>2
  <2>2. Ends(f, r, e) /\ ~NewTarget(f) BY <1>2, <2>1 DEF ResultOK
  <2>3. Ends(f, r, e)' BY <2>1, <2>2, EndsStable
  <2> QED BY <2>1, <2>3 DEF Ends
<1>3. Inherits(f) => Inherits(f)' BY DEF Inherits, Steady, LinksGrow, Done
<1> QED BY <1>1, <1>2, <1>3 DEF ResultOK, HasTaskPost

(* The list of a future that a step does not touch stays right. *)
LEMMA ListStable ==
  ASSUME Steady, NEW f \in Futures, ListOK(f), state'[f] = "Pending" => state[f] = "Pending",
         m_link'[f] = m_link[f], continuation'[f] = continuation[f]
  PROVE  ListOK(f)'
<1>1. Linked(f) => IsMade(f) BY DEF Linked, IsMade
<1>2. ASSUME NEW p \in Futures \cup {NoFuture}, Linked(f), <<p, f>> \in links'
      PROVE  <<p, f>> \in links
  BY <1>1, <1>2, OldLink DEF Steady
<1>3. Linked(f) => Linked(f)' BY DEF Linked, Steady, LinksGrow
<1> QED BY <1>2, <1>3 DEF ListOK, Steady, LinksGrow

(* When no link is new. *)
LEMMA SameLinks ==
  ASSUME links' = links
  PROVE  LinksGrow /\ \A f \in Futures : ~NewTarget(f)
BY DEF LinksGrow, NewTarget

(* A step that moves one future, which is not done, is steady. *)
LEMMA SteadyMove ==
  ASSUME links' = links, NEW f \in Futures,
         \A g \in Futures : g # f => state'[g] = state[g] /\ m_error'[g] = m_error[g],
         state[f] \notin Done, state[f] = "SettingResult" => state'[f] # "SettingResult"
  PROVE  Steady
BY SameLinks DEF Steady, Done

(* The completions stay right while links do. *)
LEMMA CompletionStable ==
  ASSUME Steady, NEW k \in Futures, Kind[k] = "completion", CompletionOK(k),
         \A f \in Futures : runs[f] # 0 => runs'[f] # 0,
         \A l \in Futures : Linked(l)' /\ ~Linked(l) => Target[l] # Target[k]
  PROVE  CompletionOK(k)'
<1>1. PICK t \in Futures : t = Target[k] BY FutureAssumption
<1>2. IsMade(t) /\ MayStart(t)' BY <1>1, MayStartStable DEF CompletionOK
<1>3. \A p \in Futures : <<p, t>> \in links' => <<p, t>> \in links BY <1>2, OldLink DEF Steady
<1>4. Kind[t] = "then" => \A p \in Futures : <<p, t>> \in links' => state'[p] = "Succeeded"
  BY <1>1, <1>3 DEF CompletionOK, Steady, Done
<1>5. \A l \in Futures : Linked(l)' /\ Target[l] = t => l = k
  BY <1>1 DEF CompletionOK
<1> QED BY <1>1, <1>2, <1>4, <1>5 DEF CompletionOK, HasTaskPost

(* The links of a step that makes none. *)
LEMMA LinksStable ==
  ASSUME Steady, LinksOK, links' = links, \A f \in Futures : runs[f] # 0 => runs'[f] # 0
  PROVE  LinksOK'
<1>1. \A c \in Futures : Linked(c)' <=> Linked(c) BY DEF Linked
<1>2. CompletionsOK' BY <1>1, CompletionStable DEF LinksOK, CompletionsOK
<1> QED BY <1>1, <1>2 DEF LinksOK, LinkedOnce, LinkKinds, IsPromise, CallbackOnValue

(* The calls a call may leave to do.  A callback is run by what posts or   *)
(* invokes it, and a future with a callback is completed by its run or by  *)
(* its completion.                                                         *)
Passes(op, x) ==
  /\ Unrun(x, x.fut) => \/ Unrun(op, x.fut) /\ op.call # "RunTask"
                        \/ state[x.fut] = "Pending" /\ state'[x.fut] # "Pending"
  /\ HasTaskPost(x.fut) /\ Sets(x, x.fut) =>
       \/ Sets(op, x.fut)
       \/ Unrun(op, x.fut) /\ Drives(x, x.fut)
       \/ op.call = "RunTask" /\ Target[op.fut] = x.fut

(* What a step may do to the graph. *)
GraphEffect(op) ==
  /\ Steady /\ AllWords' /\ LinksOK'
  /\ \A f \in Futures : f \in queued' => f \in queued \/ (op.call = "TaskPost" /\ op.fut = f)
  /\ \A f \in Futures : NewTarget(f) => Runs(op, f) /\ HasTaskPost(f)
GraphCall(th) ==
  \E calls \in Seq(Calls) :
    /\ Return(th, calls)
    /\ \A i \in DOMAIN calls : Fits(calls[i])' /\ Passes(Head(todo[th]), calls[i])
    /\ GraphEffect(Head(todo[th]))

(* The call at the head of todo[th] fits. *)
LEMMA HeadFits ==
  ASSUME TypeOK, AllFit, NEW th \in Threads, NEW name, NextCall(th, name)
  PROVE  /\ Head(todo[th]) \in Calls /\ Head(todo[th]).call = name /\ Fits(Head(todo[th]))
         /\ 1 \in DOMAIN todo[th] /\ todo[th][1] = Head(todo[th])
<1>1. Head(todo[th]) \in Calls /\ Head(todo[th]).call = name BY HeadTyped
<1>2. todo[th] \in Seq(Calls) /\ todo[th] # <<>> BY DEF TypeOK, NextCall
<1>3. 1 \in DOMAIN todo[th] /\ todo[th][1] = Head(todo[th]) BY <1>2
<1> QED BY <1>1, <1>3 DEF AllFit

(* A call that changes one future. *)
LEMMA OneFuture ==
  ASSUME AllWords, LinksOK, NEW th \in Threads, NEW calls \in Seq(Calls), Return(th, calls),
         NEW f \in Futures, UNCHANGED <<links, queued, runs>>, Steady,
         \A g \in Futures : g # f => /\ state'[g] = state[g] /\ m_error'[g] = m_error[g]
                                     /\ m_link'[g] = m_link[g]
                                     /\ continuation'[g] = continuation[g],
         ResultOK(f)', ListOK(f)',
         \A i \in DOMAIN calls : Fits(calls[i])' /\ Passes(Head(todo[th]), calls[i])
  PROVE  GraphCall(th)
<1>1. LinksOK' BY LinksStable
<1>2. \A g \in Futures : ~NewTarget(g) BY SameLinks
<1>3. ASSUME NEW g \in Futures, g # f PROVE ResultOK(g)' /\ ListOK(g)'
  <2>1. ResultOK(g) /\ ListOK(g) BY DEF AllWords
  <2>2. /\ state'[g] = state[g] /\ m_error'[g] = m_error[g]
        /\ m_link'[g] = m_link[g] /\ continuation'[g] = continuation[g]
    BY <1>3
  <2> QED BY <1>2, <2>1, <2>2, ResultStable, ListStable
<1>4. AllWords' BY <1>3 DEF AllWords
<1>5. GraphEffect(Head(todo[th])) BY <1>1, <1>2, <1>4 DEF GraphEffect
<1> QED BY <1>5 DEF GraphCall

(* A call that changes no future. *)
LEMMA QuietCall ==
  ASSUME AllWords, LinksOK, NEW th \in Threads, NEW calls \in Seq(Calls), Return(th, calls),
         UNCHANGED <<links, queued, runs, state, m_error, m_link, continuation>>,
         \A i \in DOMAIN calls : Fits(calls[i])' /\ Passes(Head(todo[th]), calls[i])
  PROVE  GraphCall(th)
<1>1. Steady BY SameLinks DEF Steady
<1>2. LinksOK' BY <1>1, LinksStable
<1>3. \A g \in Futures : ~NewTarget(g) BY SameLinks
<1>4. AllWords' BY <1>1, <1>3, ResultStable, ListStable DEF AllWords
<1>5. GraphEffect(Head(todo[th])) BY <1>1, <1>2, <1>3, <1>4 DEF GraphEffect
<1> QED BY <1>5 DEF GraphCall

(* A call that is turned down. *)
LEMMA UnexpectedGraph ==
  ASSUME AllWords, LinksOK, NEW th \in Threads, NEW strict, UnexpectedState(th, strict)
  PROVE  GraphCall(th)
<1>1. Return(th, <<>>) /\ UNCHANGED <<links, queued, runs, state, m_error, m_link, continuation>>
  BY DEF UnexpectedState, futureVars, userVars
<1>2. <<>> \in Seq(Calls) /\ DOMAIN <<>> = {} OBVIOUS
<1> QED BY <1>1, <1>2, QuietCall

(* A future that moves on to a state that is not final. *)
LEMMA MovedWord ==
  ASSUME Steady, NEW f \in Futures, ResultOK(f), ListOK(f), queued' = queued, MayStart(f),
         state'[f] \notin Done \cup {"Pending"},
         state'[f] \in {"Posting", "Posted", "Invoking"} =>
           Inherits(f) /\ m_error'[f] = m_error[f],
         m_link'[f] = m_link[f], continuation'[f] = continuation[f]
  PROVE  ResultOK(f)' /\ ListOK(f)'
<1>1. MayStart(f)' BY MayStartStable
<1>2. Inherits(f) /\ m_error'[f] = m_error[f] => Inherits(f)'
  BY DEF Inherits, Steady, LinksGrow, Done
<1>3. ResultOK(f)' BY <1>1, <1>2 DEF ResultOK, HasTaskPost, Done
<1>4. ListOK(f)' BY ListStable
<1> QED BY <1>3, <1>4

(* A future that gets its result. *)
LEMMA DoneWord ==
  ASSUME Steady, NEW f \in Futures, ResultOK(f), ListOK(f), queued' = queued,
         NEW r \in Done, NEW e, Ends(f, r, e)', state'[f] = r, m_error'[f] = e,
         r = "Succeeded" => e = NoError,
         continuation'[f] \notin Futures, m_link'[f] \in Futures => m_link[f] \in Futures
  PROVE  ResultOK(f)' /\ ListOK(f)'
<1>1. state'[f] \notin {"Pending", "Posting", "Posted", "Invoking"} BY DEF Done
<1>2. Ends(f, state[f], m_error[f])' BY DEF Ends
<1>3. MayStart(f)' BY DEF Ends
<1>4. ResultOK(f)' BY <1>1, <1>2, <1>3 DEF ResultOK, HasTaskPost, Done
<1>5. Linked(f) => Linked(f)' BY DEF Linked, Steady, LinksGrow
<1>6. ListOK(f)' BY <1>1, <1>5 DEF ListOK
<1> QED BY <1>4, <1>6

(* TrySetPosted leaves the error and the list of the future alone. *)
LEMMA TrySetPostedGraph ==
  ASSUME IInv, GraphInv, NEW th \in Threads, TrySetPosted(th)
  PROVE  GraphCall(th)
<1>1. NextCall(th, "TrySetPosted") /\ TypeOK BY DEF TrySetPosted, IInv
<1>2. PICK op \in Calls : op = Head(todo[th]) /\ op.call = "TrySetPosted"
  BY <1>1, HeadFits DEF GraphInv
<1>3. PICK f \in Futures : f = op.fut BY CallFields
<1>4. /\ Return(th, <<>>) /\ UNCHANGED <<links, queued, runs, m_error, m_link, continuation>>
      /\ state' = [state EXCEPT ![f] = IF @ = "Posting" THEN "Posted" ELSE @]
  BY <1>2, <1>3 DEF TrySetPosted, userVars
<1>5. <<>> \in Seq(Calls) /\ DOMAIN <<>> = {} OBVIOUS
<1>6. \A g \in Futures : state'[g] = IF g = f /\ state[f] = "Posting" THEN "Posted" ELSE state[g]
  BY <1>1, <1>4 DEF TypeOK
<1>7. AllWords /\ LinksOK /\ ResultOK(f) /\ ListOK(f) BY DEF GraphInv, AllWords
<1>8. CASE state[f] = "Posting"
  <2>1. state[f] \notin Done /\ state'[f] = "Posted" /\ "Posted" \notin Done \cup {"Pending"}
    BY <1>6, <1>8 DEF Done
  <2>2. Steady BY <1>4, <1>6, <2>1, <1>8, SteadyMove
  <2>3. MayStart(f) /\ Inherits(f) BY <1>7, <1>8 DEF ResultOK
  <2>4. ResultOK(f)' /\ ListOK(f)' BY <1>4, <1>7, <2>1, <2>2, <2>3, MovedWord
  <2> QED BY <1>4, <1>5, <1>6, <1>7, <2>2, <2>4, OneFuture
<1>9. CASE state[f] # "Posting"
  <2>1. state' = state
    <3>1. state \in [Futures -> FutureState] /\ state' \in [Futures -> FutureState]
      BY <1>1, <1>4, <1>9 DEF TypeOK
    <3> QED BY <1>6, <1>9, <3>1
  <2> QED BY <1>4, <1>5, <1>7, <2>1, QuietCall
<1> QED BY <1>8, <1>9

(* StartAwaiting moves a future out of its callback. *)
LEMMA StartAwaitingGraph ==
  ASSUME IInv, GraphInv, NEW th \in Threads, StartAwaiting(th)
  PROVE  GraphCall(th)
<1>1. NextCall(th, "StartAwaiting") /\ TypeOK BY DEF StartAwaiting, IInv
<1>2. PICK op \in Calls : op = Head(todo[th]) /\ op.call = "StartAwaiting"
  BY <1>1, HeadFits DEF GraphInv
<1>3. PICK f \in Futures : f = op.fut BY CallFields
<1>4. AllWords /\ LinksOK /\ ResultOK(f) /\ ListOK(f) BY DEF GraphInv, AllWords
<1>5. CASE UnexpectedState(th, TRUE) BY <1>4, <1>5, UnexpectedGraph
<1>6. CASE /\ state[f] = "Invoking" /\ state' = [state EXCEPT ![f] = "Awaiting"]
           /\ Return(th, <<>>) /\ UNCHANGED <<links, queued, runs, m_error, m_link, continuation>>
  <2>1. <<>> \in Seq(Calls) /\ DOMAIN <<>> = {} OBVIOUS
  <2>2. \A g \in Futures : state'[g] = IF g = f THEN "Awaiting" ELSE state[g]
    BY <1>1, <1>6 DEF TypeOK
  <2>3. state[f] \notin Done /\ state'[f] \notin Done \cup {"Pending"} /\ state[f] # "SettingResult"
        /\ state'[f] \notin {"Posting", "Posted", "Invoking"}
    BY <1>6, <2>2 DEF Done
  <2>4. Steady BY <1>6, <2>2, <2>3, SteadyMove
  <2>5. MayStart(f) BY <1>4, <1>6 DEF ResultOK
  <2>6. ResultOK(f)' /\ ListOK(f)' BY <1>4, <1>6, <2>3, <2>4, <2>5, MovedWord
  <2> QED BY <1>4, <1>6, <2>1, <2>2, <2>4, <2>6, OneFuture
<1> QED BY <1>2, <1>3, <1>5, <1>6, Zenon DEF StartAwaiting, userVars

(* Invoke runs a future that was posted. *)
LEMMA InvokeGraph ==
  ASSUME IInv, GraphInv, NEW th \in Threads, Invoke(th)
  PROVE  GraphCall(th)
<1>1. NextCall(th, "Invoke") /\ TypeOK BY DEF Invoke, IInv
<1>2. PICK op \in Calls : op = Head(todo[th]) /\ op.call = "Invoke"
  BY <1>1, HeadFits DEF GraphInv
<1>3. PICK f \in Futures : f = op.fut BY CallFields
<1>4. AllWords /\ LinksOK /\ ResultOK(f) /\ ListOK(f) BY DEF GraphInv, AllWords
<1>5. CASE \E strict : UnexpectedState(th, strict) BY <1>4, <1>5, UnexpectedGraph
<1>6. PICK run : run = Call("RunTask", f, NoFuture, f, FALSE) OBVIOUS
<1>7. CASE /\ state[f] \in {"Posted", "Posting"} /\ state' = [state EXCEPT ![f] = "Invoking"]
           /\ Return(th, <<run>>) /\ UNCHANGED <<links, queued, runs, m_error, m_link, continuation>>
  <2>1. run \in Calls
    <3>1. "RunTask" \in CallNames /\ NoFuture \in Args("RunTask") BY DEF CallNames, Args
    <3> QED BY <1>6, <3>1, CallTyped
  <2>2. <<run>> \in Seq(Calls) /\ \A i \in DOMAIN <<run>> : <<run>>[i] = run BY <2>1, Places
  <2>3. \A g \in Futures : state'[g] = IF g = f THEN "Invoking" ELSE state[g]
    BY <1>1, <1>7 DEF TypeOK
  <2>4. state[f] \notin Done /\ state'[f] \notin Done \cup {"Pending"} /\ state[f] # "SettingResult"
    BY <1>7, <2>3 DEF Done
  <2>5. Steady BY <1>7, <2>3, <2>4, SteadyMove
  <2>6. MayStart(f) /\ Inherits(f) BY <1>4, <1>7 DEF ResultOK
  <2>7. ResultOK(f)' /\ ListOK(f)' BY <1>4, <1>7, <2>4, <2>5, <2>6, MovedWord
  <2>8. run.call = "RunTask" /\ run.fut = f BY <1>6 DEF Call
  <2>9. Fits(run)' BY <2>3, <2>8 DEF Fits
  <2>10. Passes(op, run) BY <1>2, <1>3, <2>8 DEF Passes, Unrun, Sets
  <2> QED BY <1>2, <1>4, <1>7, <2>2, <2>3, <2>5, <2>7, <2>9, <2>10, OneFuture
<1> QED BY <1>2, <1>3, <1>5, <1>6, <1>7, Zenon DEF Invoke, userVars

(* A future that is not done is reserved for its result, and the call that *)
(* sets it follows.                                                        *)
LEMMA ReserveGraph ==
  ASSUME IInv, GraphInv, NEW th \in Threads, NEW op \in Calls, op = Head(todo[th]),
         NEW f \in Futures, f = op.fut, NEW next \in Calls, next.fut = f, Sets(op, f),
         Sets(next, f), MayStart(f), Return(th, <<next>>), Steady => Fits(next)',
         state[f] \notin Done \cup {"SettingResult"},
         state' = [state EXCEPT ![f] = "SettingResult"],
         \A g \in Futures : g # f => m_error'[g] = m_error[g],
         UNCHANGED <<links, queued, runs, m_link, continuation>>
  PROVE  GraphCall(th)
<1>1. TypeOK /\ AllWords /\ LinksOK /\ ResultOK(f) /\ ListOK(f) BY DEF IInv, GraphInv, AllWords
<1>2. <<next>> \in Seq(Calls) /\ \A i \in DOMAIN <<next>> : <<next>>[i] = next BY Places
<1>3. \A g \in Futures : state'[g] = IF g = f THEN "SettingResult" ELSE state[g]
  BY <1>1 DEF TypeOK
<1>4. state'[f] \notin Done \cup {"Pending"} /\ state'[f] \notin {"Posting", "Posted", "Invoking"}
  BY <1>3 DEF Done
<1>5. Steady BY <1>3, SteadyMove
<1>6. ResultOK(f)' /\ ListOK(f)' BY <1>1, <1>4, <1>5, MovedWord
<1>7. Passes(op, next) BY DEF Passes, Unrun, Sets
<1> QED BY <1>1, <1>2, <1>3, <1>5, <1>6, <1>7, OneFuture

(* TryStartSetValue reserves a future that may succeed. *)
LEMMA TryStartSetValueGraph ==
  ASSUME IInv, GraphInv, NEW th \in Threads, TryStartSetValue(th)
  PROVE  GraphCall(th)
<1>1. NextCall(th, "TryStartSetValue") /\ TypeOK BY DEF TryStartSetValue, IInv
<1>2. PICK op \in Calls : op = Head(todo[th]) /\ op.call = "TryStartSetValue" /\ Fits(op)
  BY <1>1, HeadFits DEF GraphInv
<1>3. PICK f \in Futures : f = op.fut BY CallFields
<1>4. AllWords /\ LinksOK BY DEF GraphInv
<1>5. CASE UnexpectedState(th, op.strict) BY <1>4, <1>5, UnexpectedGraph
<1>6. PICK next : next = Call("TrySetSuccess", f, NoFuture, op.cur, TRUE) OBVIOUS
<1>7. CASE /\ CanStartSetValue(op) /\ state' = [state EXCEPT ![f] = "SettingResult"]
           /\ Return(th, <<next>>) /\ UNCHANGED <<links, queued, runs, m_error, m_link, continuation>>
  <2>1. next \in Calls
    <3>1. "TrySetSuccess" \in CallNames /\ NoFuture \in Args("TrySetSuccess") BY DEF CallNames, Args
    <3>2. op.cur \in Futures \cup {NoFuture} BY CallFields
    <3> QED BY <1>6, <3>1, <3>2, CallTyped
  <2>2. next.call = "TrySetSuccess" /\ next.fut = f BY <1>6 DEF Call
  <2>3. Sets(op, f) /\ Sets(next, f) BY <1>2, <1>3, <2>2 DEF Sets
  <2>4. Ends(f, "Succeeded", NoError) BY <1>2, <1>3 DEF Fits
  <2>5. ASSUME Steady PROVE Fits(next)'
    <3>1. "Succeeded" \in Done /\ ~NewTarget(f) BY <1>7, SameLinks DEF Done
    <3>2. Ends(f, "Succeeded", NoError)' BY <2>4, <2>5, <3>1, EndsStable
    <3> QED BY <2>2, <3>2 DEF Fits
  <2>6. state[f] \notin Done \cup {"SettingResult"} BY <1>3, <1>7 DEF CanStartSetValue, Done
  <2>7. MayStart(f) BY <2>4 DEF Ends
  <2>8. \A g \in Futures : m_error'[g] = m_error[g] BY <1>7
  <2> QED BY <1>2, <1>3, <1>7, <2>1, <2>2, <2>3, <2>5, <2>6, <2>7, <2>8, ReserveGraph
<1> QED BY <1>2, <1>3, <1>5, <1>6, <1>7, Zenon DEF TryStartSetValue, userVars

(* TrySetError reserves a future that may fail with this error. *)
LEMMA TrySetErrorGraph ==
  ASSUME IInv, GraphInv, NEW th \in Threads, TrySetError(th)
  PROVE  GraphCall(th)
<1>1. TypeOK BY DEF IInv
<1>2. PICK name \in {"TrySetError", "MoveError"} : NextCall(th, name) BY DEF TrySetError
<1>3. PICK op \in Calls : op = Head(todo[th]) /\ op.call = "TrySetError" /\ Fits(op)
  BY <1>1, <1>2, HeadFits DEF GraphInv, Fits
<1>4. PICK f \in Futures : f = op.fut BY CallFields
<1>5. AllWords /\ LinksOK BY DEF GraphInv
<1>6. CASE UnexpectedState(th, op.strict) BY <1>5, <1>6, UnexpectedGraph
<1>7. PICK next : next = Call("SetFailed", f, NoFuture, op.cur, TRUE) OBVIOUS
<1>8. CASE /\ CanStartSetError(op) /\ state' = [state EXCEPT ![f] = "SettingResult"]
           /\ m_error' = [g \in Futures |->
                            IF g = f THEN IF op.call = "MoveError" THEN m_error[op.arg] ELSE op.arg
                            ELSE IF op.call = "MoveError" /\ g = op.arg THEN NoError
                            ELSE m_error[g]]
           /\ Return(th, <<next>>) /\ UNCHANGED <<links, queued, runs, m_link, continuation>>
  <2>1. next \in Calls
    <3>1. "SetFailed" \in CallNames /\ NoFuture \in Args("SetFailed") BY DEF CallNames, Args
    <3>2. op.cur \in Futures \cup {NoFuture} BY CallFields
    <3> QED BY <1>7, <3>1, <3>2, CallTyped
  <2>2. next.call = "SetFailed" /\ next.fut = f BY <1>7 DEF Call
  <2>3. Sets(op, f) /\ Sets(next, f) BY <1>3, <1>4, <2>2 DEF Sets
  <2>4. PICK e : e = op.arg OBVIOUS
  <2>5. Ends(f, "Failed", e) BY <1>3, <1>4, <2>4 DEF Fits
  <2>6. m_error'[f] = e /\ \A g \in Futures : g # f => m_error'[g] = m_error[g]
    BY <1>3, <1>8, <2>4
  <2>7. state'[f] = "SettingResult" BY <1>1, <1>8 DEF TypeOK
  <2>8. ASSUME Steady PROVE Fits(next)'
    <3>1. "Failed" \in Done /\ ~NewTarget(f) BY <1>8, SameLinks DEF Done
    <3>2. Ends(f, "Failed", e)' BY <2>5, <2>8, <3>1, EndsStable
    <3>3. Ends(f, "Failed", m_error[f])' BY <2>6, <3>2 DEF Ends
    <3> QED BY <2>2, <2>7, <3>3 DEF Fits
  <2>9. state[f] \notin Done \cup {"SettingResult"} BY <1>4, <1>8 DEF CanStartSetError, Done
  <2>10. MayStart(f) BY <2>5 DEF Ends
  <2> QED BY <1>3, <1>4, <1>8, <2>1, <2>2, <2>3, <2>6, <2>8, <2>9, <2>10, ReserveGraph
<1> QED BY <1>3, <1>4, <1>6, <1>7, <1>8, Zenon DEF TrySetError, userVars

(* PostContinuation posts the head of a list, if there is one. *)
LEMMA PostFits ==
  ASSUME NEW op, NEW p \in Futures \cup {NoFuture}, NEW c, NEW cur,
         c \in Futures => /\ <<p, c>> \in links' /\ (p = NoFuture \/ state'[p] \in Done)
  PROVE  \A i \in DOMAIN PostContinuation(p, c, cur) :
           /\ Fits(PostContinuation(p, c, cur)[i])' /\ Passes(op, PostContinuation(p, c, cur)[i])
<1> SUFFICES ASSUME c \in Futures
             PROVE  \A i \in DOMAIN PostContinuation(p, c, cur) :
                      /\ Fits(PostContinuation(p, c, cur)[i])'
                      /\ Passes(op, PostContinuation(p, c, cur)[i])
  BY Places DEF PostContinuation
<1>1. PICK x : x = Call("TryPost", c, p, cur, FALSE) OBVIOUS
<1>2. PostContinuation(p, c, cur) = <<x>> BY <1>1 DEF PostContinuation
<1>3. x.call = "TryPost" /\ x.fut = c /\ x.arg = p BY <1>1 DEF Call
<1>4. Fits(x)' BY <1>3 DEF Fits
<1>5. Passes(op, x) BY <1>3 DEF Passes, Unrun, Sets
<1> QED BY <1>2, <1>4, <1>5, Places

(* A future is completed with a result it may have. *)
LEMMA CompleteGraph ==
  ASSUME IInv, GraphInv, NEW th \in Threads, NEW op \in Calls, op = Head(todo[th]),
         NEW f \in Futures, f = op.fut, NEW r \in Done, NEW e, Ends(f, r, e),
         r = "Succeeded" => e = NoError, state[f] \notin Done, Complete(th, op, r),
         m_error'[f] = e, \A g \in Futures : g # f => m_error'[g] = m_error[g],
         m_link'[f] \in {m_link[f], NoFuture}, \A g \in Futures : g # f => m_link'[g] = m_link[g],
         UNCHANGED <<links, queued, runs>>
  PROVE  GraphCall(th)
<1>1. TypeOK /\ AllWords /\ LinksOK /\ ResultOK(f) /\ ListOK(f) BY DEF IInv, GraphInv, AllWords
<1>2. PICK c : c = continuation[f] OBVIOUS
<1>3. PICK calls : calls = PostContinuation(f, c, op.cur) OBVIOUS
<1>4. /\ Return(th, calls) /\ state' = [state EXCEPT ![f] = r]
      /\ continuation' = [continuation EXCEPT ![f] =
                            IF @ = NoFuture THEN NoFuture ELSE ContinuationInvoked]
  BY <1>2, <1>3, Zenon DEF Complete
<1>5. /\ \A g \in Futures : state'[g] = IF g = f THEN r ELSE state[g]
      /\ \A g \in Futures : g # f => continuation'[g] = continuation[g]
      /\ continuation'[f] \in {NoFuture, ContinuationInvoked}
  BY <1>1, <1>4 DEF TypeOK
<1>6. "SettingResult" \notin Done BY DEF Done
<1>7. Steady BY <1>5, <1>6, SteadyMove
<1>8. ~NewTarget(f) BY SameLinks
<1>9. Ends(f, r, e)' BY <1>7, <1>8, EndsStable
<1>10. continuation'[f] \notin Futures /\ (m_link'[f] \in Futures => m_link[f] \in Futures)
  BY <1>5, FutureAssumption
<1>11. ResultOK(f)' /\ ListOK(f)' BY <1>1, <1>5, <1>7, <1>9, <1>10, DoneWord
<1>12. calls \in Seq(Calls)
  <2>1. op.cur \in Futures \cup {NoFuture} BY CallFields
  <2> QED BY <1>3, <2>1, PostContinuationTyped
<1>13. c \in Futures => <<f, c>> \in links' /\ state'[f] \in Done
  BY <1>1, <1>2, <1>5 DEF ListOK
<1>14. \A i \in DOMAIN calls : Fits(calls[i])' /\ Passes(op, calls[i])
  BY <1>3, <1>13, PostFits
<1> QED BY <1>1, <1>4, <1>5, <1>7, <1>11, <1>12, <1>14, OneFuture

(* TrySetSuccess completes a future that may succeed. *)
LEMMA TrySetSuccessGraph ==
  ASSUME IInv, GraphInv, NEW th \in Threads, TrySetSuccess(th)
  PROVE  GraphCall(th)
<1>1. NextCall(th, "TrySetSuccess") /\ TypeOK BY DEF TrySetSuccess, IInv
<1>2. PICK op \in Calls : op = Head(todo[th]) /\ op.call = "TrySetSuccess" /\ Fits(op)
  BY <1>1, HeadFits DEF GraphInv
<1>3. PICK f \in Futures : f = op.fut BY CallFields
<1>4. AllWords /\ LinksOK BY DEF GraphInv
<1>5. CASE UnexpectedState(th, op.strict) BY <1>4, <1>5, UnexpectedGraph
<1>6. CASE /\ CanSetSuccess(op) /\ Complete(th, op, "Succeeded")
           /\ m_link' = [m_link EXCEPT ![f] = IF UseParentValue(f) THEN @ ELSE NoFuture]
           /\ m_error' = [m_error EXCEPT ![f] = NoError]
           /\ UNCHANGED <<links, queued, runs>>
  <2>1. state[f] \notin Done /\ "Succeeded" \in Done BY <1>3, <1>6 DEF CanSetSuccess, Done
  <2>2. Ends(f, "Succeeded", NoError) BY <1>2, <1>3 DEF Fits
  <2>3. m_error'[f] = NoError /\ \A g \in Futures : g # f => m_error'[g] = m_error[g]
    BY <1>1, <1>6 DEF TypeOK
  <2>4. m_link'[f] \in {m_link[f], NoFuture} /\ \A g \in Futures : g # f => m_link'[g] = m_link[g]
    BY <1>1, <1>6 DEF TypeOK
  <2> QED BY <1>2, <1>3, <1>6, <2>1, <2>2, <2>3, <2>4, CompleteGraph
<1> QED BY <1>2, <1>3, <1>5, <1>6, Zenon DEF TrySetSuccess, userVars

(* SetFailed completes a future that may fail with the error it has. *)
LEMMA SetFailedGraph ==
  ASSUME IInv, GraphInv, NEW th \in Threads, SetFailed(th)
  PROVE  GraphCall(th)
<1>1. NextCall(th, "SetFailed") /\ TypeOK BY DEF SetFailed, IInv
<1>2. PICK op \in Calls : op = Head(todo[th]) /\ op.call = "SetFailed" /\ Fits(op)
  BY <1>1, HeadFits DEF GraphInv
<1>3. PICK f \in Futures : f = op.fut BY CallFields
<1>4. AllWords /\ LinksOK BY DEF GraphInv
<1>5. CASE UnexpectedState(th, TRUE) BY <1>4, <1>5, UnexpectedGraph
<1>6. CASE /\ state[f] = "SettingResult" /\ Complete(th, op, "Failed")
           /\ m_link' = [m_link EXCEPT ![f] = NoFuture]
           /\ UNCHANGED <<links, queued, runs, m_error>>
  <2>1. state[f] \notin Done /\ "Failed" \in Done /\ "Failed" # "Succeeded" BY <1>6 DEF Done
  <2>2. PICK e : e = m_error[f] OBVIOUS
  <2>3. Ends(f, "Failed", e) BY <1>2, <1>3, <1>6, <2>2 DEF Fits
  <2>4. m_error'[f] = e /\ \A g \in Futures : g # f => m_error'[g] = m_error[g]
    BY <1>6, <2>2
  <2>5. m_link'[f] \in {m_link[f], NoFuture} /\ \A g \in Futures : g # f => m_link'[g] = m_link[g]
    BY <1>1, <1>6 DEF TypeOK
  <2> QED BY <1>2, <1>3, <1>6, <2>1, <2>3, <2>4, <2>5, CompleteGraph
<1> QED BY <1>2, <1>3, <1>5, <1>6, Zenon DEF SetFailed, userVars

(* The event of FutureWait is no part of the graph. *)
LEMMA FinishedGraph ==
  ASSUME IInv, GraphInv, NEW th \in Threads, SetFinished(th) \/ AwaitFinished(th)
  PROVE  GraphCall(th)
<1>1. Return(th, <<>>) /\ UNCHANGED <<links, queued, runs, state, m_error, m_link, continuation>>
  BY DEF SetFinished, AwaitFinished, futureVars, userVars
<1>2. <<>> \in Seq(Calls) /\ DOMAIN <<>> = {} OBVIOUS
<1> QED BY <1>1, <1>2, QuietCall DEF GraphInv

(* A continuation enters the list of its parent, or is posted. *)
LEMMA AddContinuationGraph ==
  ASSUME IInv, GraphInv, NEW th \in Threads, AddContinuation(th)
  PROVE  GraphCall(th)
<1>1. NextCall(th, "AddContinuation") /\ TypeOK /\ PlaceholderWhenDone
  BY DEF AddContinuation, IInv
<1>2. PICK op \in Calls : op = Head(todo[th]) /\ op.call = "AddContinuation" /\ Fits(op)
  BY <1>1, HeadFits DEF GraphInv
<1>3. PICK f \in Futures, c \in Futures : f = op.fut /\ c = op.arg
  BY <1>2, CallFields DEF Args
<1>4. AllWords /\ LinksOK BY DEF GraphInv
<1>5. CASE UnexpectedState(th, TRUE) BY <1>4, <1>5, UnexpectedGraph
<1>6. CASE Attach(th, op)
  <2>1. <<f, c>> \in links BY <1>2, <1>3 DEF Fits
  <2>2. PICK isDone : isDone = (state[f] \in Done) OBVIOUS
  <2>3. PICK next : next = IF isDone THEN NoFuture ELSE continuation[f] OBVIOUS
  <2>4. /\ isDone = (state[f] \in Done) /\ isDone \in BOOLEAN
        /\ next = IF isDone THEN NoFuture ELSE continuation[f]
    BY <2>2, <2>3
  <2>5. PICK calls : calls = IF isDone THEN PostContinuation(f, c, op.cur) ELSE <<>> OBVIOUS
  <2>6. /\ continuation' = [continuation EXCEPT ![f] = IF isDone THEN ContinuationInvoked ELSE c]
        /\ m_link' = [m_link EXCEPT ![c] = next] /\ Return(th, calls)
        /\ UNCHANGED <<state, m_error, links, queued, runs>>
    BY <1>3, <1>6, <2>4, <2>5, Zenon DEF Attach, Store, userVars
  <2>7. /\ \A g \in Futures : continuation'[g] = IF g = f
                                                 THEN IF isDone THEN ContinuationInvoked ELSE c
                                                 ELSE continuation[g]
        /\ \A g \in Futures : m_link'[g] = IF g = c THEN next ELSE m_link[g]
    BY <1>1, <2>6 DEF TypeOK
  <2>8. Steady BY <2>6, SameLinks DEF Steady
  <2>9. \A g \in Futures : ~NewTarget(g) BY <2>6, SameLinks
  <2>10. LinksOK' BY <1>4, <2>6, <2>8, LinksStable
  <2>11. \A g \in Futures : ResultOK(g)' BY <1>4, <2>6, <2>8, <2>9, ResultStable DEF AllWords
  <2>12. ASSUME NEW g \in Futures PROVE ListOK(g)'
    <3>1. ListOK(g) /\ ListOK(f) BY <1>4 DEF AllWords
    <3>2. continuation'[g] \in Futures => <<g, continuation'[g]>> \in links
      BY <2>1, <2>7, <3>1, FutureAssumption DEF ListOK
    <3>3. CASE g # c
      <4>1. m_link'[g] = m_link[g] /\ state'[g] = state[g] /\ links' = links BY <2>6, <2>7, <3>3
      <4>2. (Linked(g) => Linked(g)') BY <4>1 DEF Linked
      <4>3. (m_link[g] \in Futures => Linked(g)) BY <3>1 DEF ListOK
      <4>4. state[g] = "Pending" /\ m_link[g] \in Futures =>
              \A p \in Futures \cup {NoFuture} : <<p, g>> \in links => <<p, m_link[g]>> \in links
        BY <3>1 DEF ListOK
      <4> QED BY <3>2, <4>1, <4>2, <4>3, <4>4 DEF ListOK
    <3>4. CASE g = c
      <4>1. Linked(c) BY <2>1 DEF Linked
      <4>2. next \in Futures => <<f, next>> \in links
        BY <2>4, <3>1, FutureAssumption DEF ListOK
      <4>3. \A p \in Futures \cup {NoFuture} : <<p, c>> \in links => p = f
        BY <1>4, <2>1 DEF LinksOK, LinkedOnce
      <4> QED BY <2>6, <2>7, <3>2, <3>4, <4>1, <4>2, <4>3 DEF ListOK, Linked
    <3> QED BY <3>3, <3>4
  <2>13. AllWords' BY <2>11, <2>12 DEF AllWords
  <2>14. GraphEffect(op) BY <2>6, <2>8, <2>9, <2>10, <2>13 DEF GraphEffect
  <2>15. calls \in Seq(Calls)
    <3>1. op.cur \in Futures \cup {NoFuture} BY CallFields
    <3>2. PostContinuation(f, c, op.cur) \in Seq(Calls) BY <3>1, PostContinuationTyped
    <3>3. <<>> \in Seq(Calls) OBVIOUS
    <3> QED BY <2>5, <3>2, <3>3, Zenon
  <2>16. \A i \in DOMAIN calls : Fits(calls[i])' /\ Passes(op, calls[i])
    <3>1. CASE isDone
      <4>1. <<f, c>> \in links' /\ state'[f] \in Done BY <2>1, <2>4, <2>6, <3>1
      <4>2. calls = PostContinuation(f, c, op.cur) BY <2>5, <3>1, Zenon
      <4> QED BY <4>1, <4>2, PostFits
    <3>2. CASE ~isDone
      <4>1. calls = <<>> BY <2>5, <3>2, Zenon
      <4> QED BY <4>1, Places
    <3> QED BY <3>1, <3>2
  <2> QED BY <1>2, <2>6, <2>14, <2>15, <2>16 DEF GraphCall
<1> QED BY <1>2, <1>3, <1>5, <1>6, Zenon DEF AddContinuation

(* A future is posted with the error of its parent, and the list it was in *)
(* goes on.                                                                *)
LEMMA TryPostGraph ==
  ASSUME IInv, GraphInv, SinglePosts, NEW th \in Threads, TryPostInternal(th)
  PROVE  GraphCall(th)
<1>1. NextCall(th, "TryPost") /\ TypeOK BY DEF TryPostInternal, IInv
<1>2. PICK op \in Calls : op = Head(todo[th]) /\ op.call = "TryPost" /\ Fits(op)
  BY <1>1, HeadFits DEF GraphInv
<1>3. PICK c \in Futures, p \in Futures \cup {NoFuture} : c = op.fut /\ p = op.arg
  BY <1>2, CallFields DEF Args
<1>4. AllWords /\ LinksOK /\ ResultOK(c) /\ ListOK(c) BY DEF GraphInv, AllWords
<1>5. CASE \E strict : UnexpectedState(th, strict) BY <1>4, <1>5, UnexpectedGraph
<1>6. PICK first :
        first = Call(IF HasTaskPost(c) THEN "TaskPost" ELSE "Invoke", c, NoFuture, c, FALSE)
  OBVIOUS
<1>7. PICK next : next = m_link[c] OBVIOUS
<1>8. PICK rest : rest = PostContinuation(p, next, op.cur) OBVIOUS
<1> DEFINE parentFailed == p # NoFuture /\ state[p] = "Failed"
<1>9. CASE /\ state[c] = "Pending" /\ state' = [state EXCEPT ![c] = "Posting"]
           /\ m_link' = [m_link EXCEPT ![c] = IF parentFailed THEN NoFuture ELSE p]
           /\ m_error' = [m_error EXCEPT ![c] = IF parentFailed THEN m_error[p] ELSE @]
           /\ Return(th, <<first>> \o rest)
           /\ UNCHANGED <<continuation, links, queued, runs>>
  <2>1. <<p, c>> \in links /\ (p = NoFuture \/ state[p] \in Done) BY <1>2, <1>3 DEF Fits
  <2>2. /\ \A g \in Futures : state'[g] = IF g = c THEN "Posting" ELSE state[g]
        /\ \A g \in Futures : g # c => m_link'[g] = m_link[g] /\ m_error'[g] = m_error[g]
        /\ m_error'[c] = IF parentFailed THEN m_error[p] ELSE m_error[c]
        /\ m_link'[c] \in {p, NoFuture}
    BY <1>1, <1>9 DEF TypeOK
  <2>3. state[c] \notin Done \cup {"SettingResult"} BY <1>9 DEF Done
  <2>4. Steady BY <1>9, <2>2, <2>3, SteadyMove
  <2>5. p # c BY <2>1, <2>3, FutureAssumption
  <2>6. MayStart(c)' BY <1>9, <2>1, <2>2, <2>5 DEF MayStart
  <2>7. m_error[c] = NoError BY <1>4, <1>9 DEF ResultOK
  <2>8. Inherits(c)'
    <3>1. CASE p = NoFuture
      <4>1. <<NoFuture, c>> \in links' /\ m_error'[c] = NoError BY <1>9, <2>1, <2>2, <2>7, <3>1
      <4> QED BY <4>1 DEF Inherits
    <3>2. CASE p \in Futures
      <4>1. state'[p] = state[p] /\ state[p] \in Done /\ m_error'[p] = m_error[p] /\ p # NoFuture
        BY <2>1, <2>2, <2>5, <3>2, FutureAssumption
      <4>2. m_error'[c] = IF state'[p] = "Failed" THEN m_error'[p] ELSE NoError
        BY <2>2, <2>7, <4>1
      <4>3. <<p, c>> \in links' BY <1>9, <2>1
      <4> QED BY <3>2, <4>1, <4>2, <4>3 DEF Inherits
    <3> QED BY <3>1, <3>2
  <2>9. ResultOK(c)' BY <1>4, <1>9, <2>2, <2>6, <2>8 DEF ResultOK, HasTaskPost, Done
  <2>10. ListOK(c)'
    <3>1. Linked(c)' BY <1>9, <2>1 DEF Linked
    <3> QED BY <1>4, <1>9, <2>2, <3>1 DEF ListOK
  <2>11. first \in Calls
    <3>1. "TaskPost" \in CallNames /\ NoFuture \in Args("TaskPost") BY DEF CallNames, Args
    <3>2. "Invoke" \in CallNames /\ NoFuture \in Args("Invoke") BY DEF CallNames, Args
    <3> QED BY <1>6, <3>1, <3>2, CallTyped
  <2>12. rest \in Seq(Calls)
    <3>1. op.cur \in Futures \cup {NoFuture} BY CallFields
    <3> QED BY <1>8, <3>1, PostContinuationTyped
  <2>13. PICK calls : calls = <<first>> \o rest OBVIOUS
  <2>14. /\ calls \in Seq(Calls)
         /\ \A i \in DOMAIN calls : \/ i = 1 /\ calls[i] = first
                                    \/ i - 1 \in DOMAIN rest /\ calls[i] = rest[i - 1]
    BY <2>11, <2>12, <2>13
  <2>15. Fits(first)' /\ Passes(op, first)
    <3>1. first.fut = c /\ first.call = IF HasTaskPost(c) THEN "TaskPost" ELSE "Invoke"
      BY <1>6 DEF Call
    <3>2. Fits(first)' BY <2>2, <3>1 DEF Fits, HasTaskPost
    <3>3. Passes(op, first) BY <1>9, <2>2, <3>1 DEF Passes, Sets
    <3> QED BY <3>2, <3>3
  <2>16. \A i \in DOMAIN rest : Fits(rest[i])' /\ Passes(op, rest[i])
    <3>1. next \in Futures => <<p, next>> \in links' /\ (p = NoFuture \/ state'[p] \in Done)
      BY <1>4, <1>7, <1>9, <2>1, <2>2, <2>5 DEF ListOK
    <3> QED BY <1>8, <3>1, PostFits
  <2>17. \A i \in DOMAIN calls : Fits(calls[i])' /\ Passes(Head(todo[th]), calls[i])
    BY <1>2, <2>14, <2>15, <2>16
  <2>18. Return(th, calls) BY <1>9, <2>13
  <2>19. \A g \in Futures : g # c => /\ state'[g] = state[g] /\ m_error'[g] = m_error[g]
                                     /\ m_link'[g] = m_link[g]
                                     /\ continuation'[g] = continuation[g]
    BY <1>9, <2>2
  <2> QED BY <1>4, <1>9, <2>4, <2>9, <2>10, <2>14, <2>17, <2>18, <2>19, OneFuture
<1>10. ~IsMultiPost(c) BY DEF SinglePosts
<1> QED BY <1>2, <1>3, <1>5, <1>6, <1>7, <1>8, <1>9, <1>10, Zenon DEF TryPostInternal, userVars

(* Nothing completes a future whose callback has not run. *)
LEMMA NoCompletion ==
  ASSUME LinksOK, NEW f \in Futures, runs[f] = 0
  PROVE  \A k \in Futures : Target[k] = f => ~Linked(k)
<1>1. \A k \in Futures : Target[k] = f => Kind[k] = "completion" BY FutureAssumption
<1> QED BY <1>1 DEF LinksOK, CompletionsOK, CompletionOK

(* Such a future with a callback may be cancelled once it is posted. *)
LEMMA CancelEnds ==
  ASSUME GraphInv, NEW f \in Futures, HasTaskPost(f), ToRun(f), state[f] # "Pending"
  PROVE  Ends(f, "Failed", Canceled)
<1>1. LinksOK /\ ResultOK(f) /\ RestOK(f) BY DEF GraphInv, AllWords, AllRest
<1>2. MayStart(f) BY <1>1 DEF ResultOK
<1>3. runs[f] = 0 BY <1>1 DEF RestOK
<1>4. \A p \in Futures : ~Forwards(p, f)
  BY <1>1, <1>3, NoCompletion DEF Forwards, HasTaskPost, Linked
<1>5. Canceled # NoError BY FutureAssumption
<1> QED BY <1>2, <1>4, <1>5 DEF Ends, HasTaskPost

(* TaskPost gives the callback to an executor, which runs it at once,      *)
(* keeps it, or cancels it.                                                *)
LEMMA TaskPostGraph ==
  ASSUME IInv, GraphInv, NEW th \in Threads, TaskPost(th)
  PROVE  GraphCall(th)
<1>1. NextCall(th, "TaskPost") /\ TypeOK BY DEF TaskPost, IInv
<1>2. PICK op \in Calls : op = Head(todo[th]) /\ op.call = "TaskPost" /\ Fits(op)
  BY <1>1, HeadFits DEF GraphInv
<1>3. PICK f \in Futures : f = op.fut BY CallFields
<1>4. AllWords /\ LinksOK BY DEF GraphInv
<1>5. PICK invoke : invoke = Call("Invoke", f, NoFuture, f, FALSE) OBVIOUS
<1>6. PICK cancel : cancel = Call("TrySetError", f, Canceled, f, FALSE) OBVIOUS
<1>7. PICK posted : posted = Call("TrySetPosted", f, NoFuture, f, FALSE) OBVIOUS
<1>8. /\ UNCHANGED <<links, runs, state, m_error, m_link, continuation>>
      /\ \/ Return(th, <<invoke>> \o <<posted>>) /\ UNCHANGED queued
         \/ Return(th, <<posted>>) /\ queued' = queued \cup {f}
         \/ Return(th, <<cancel>> \o <<posted>>) /\ UNCHANGED queued
  BY <1>2, <1>3, <1>5, <1>6, <1>7, Zenon DEF TaskPost, futureVars
<1>9. /\ invoke \in Calls /\ invoke.call = "Invoke" /\ invoke.fut = f
      /\ cancel \in Calls /\ cancel.call = "TrySetError" /\ cancel.fut = f
      /\ cancel.arg = Canceled /\ cancel.cur = f
      /\ posted \in Calls /\ posted.call = "TrySetPosted" /\ posted.fut = f
  <2>1. /\ "Invoke" \in CallNames /\ NoFuture \in Args("Invoke")
        /\ "TrySetError" \in CallNames /\ Canceled \in Args("TrySetError")
        /\ "TrySetPosted" \in CallNames /\ NoFuture \in Args("TrySetPosted")
    BY DEF CallNames, Args, Errors
  <2>2. invoke \in Calls /\ cancel \in Calls /\ posted \in Calls
    BY <1>5, <1>6, <1>7, <2>1, CallTyped
  <2> QED BY <1>5, <1>6, <1>7, <2>2 DEF Call
<1>10. PICK calls \in Seq(Calls) : /\ Return(th, calls)
                                   /\ \A i \in DOMAIN calls : calls[i] \in {invoke, cancel, posted}
                                   /\ queued' \subseteq queued \cup {f}
  <2>1. PICK x : x = <<invoke>> \o <<posted>> OBVIOUS
  <2>2. PICK y : y = <<cancel>> \o <<posted>> OBVIOUS
  <2>3. x \in Seq(Calls) /\ \A i \in DOMAIN x : x[i] \in {invoke, posted} BY <1>9, <2>1
  <2>4. y \in Seq(Calls) /\ \A i \in DOMAIN y : y[i] \in {cancel, posted} BY <1>9, <2>2
  <2>5. <<posted>> \in Seq(Calls) /\ \A i \in DOMAIN <<posted>> : <<posted>>[i] = posted
    BY <1>9, Places
  <2> QED BY <1>8, <2>1, <2>2, <2>3, <2>4, <2>5
<1>11. Steady BY <1>8, SameLinks DEF Steady
<1>12. \A g \in Futures : ~NewTarget(g) BY <1>8, SameLinks
<1>13. LinksOK' BY <1>4, <1>8, <1>11, LinksStable
<1>14. HasTaskPost(f) /\ state[f] # "Pending" BY <1>2, <1>3 DEF Fits
<1>15. ASSUME NEW g \in Futures PROVE ResultOK(g)' /\ ListOK(g)'
  <2>1. ResultOK(g) /\ ListOK(g) BY <1>4 DEF AllWords
  <2>2. ListOK(g)' BY <1>8, <1>11, <2>1, ListStable
  <2>3. CASE g \in queued' => g \in queued BY <1>8, <1>11, <1>12, <2>1, <2>2, <2>3, ResultStable
  <2>4. CASE g = f
    <3>1. MayStart(g) => MayStart(g)' BY <1>11, MayStartStable
    <3>2. Ends(g, state[g], m_error[g]) => Ends(g, state[g], m_error[g])'
      BY <1>8, <3>1 DEF Ends, Forwards
    <3>3. Inherits(g) => Inherits(g)' BY <1>8 DEF Inherits
    <3>4. ResultOK(g)' BY <1>8, <1>14, <2>1, <2>4, <3>1, <3>2, <3>3 DEF ResultOK, HasTaskPost
    <3> QED BY <2>2, <3>4
  <2> QED BY <1>10, <2>3, <2>4
<1>16. AllWords' BY <1>15 DEF AllWords
<1>17. GraphEffect(op) BY <1>2, <1>3, <1>10, <1>11, <1>12, <1>13, <1>16 DEF GraphEffect
<1>18. Unrun(op, f) BY <1>2, <1>3 DEF Unrun
<1>19. ToRun(f)
  <2>1. 1 \in DOMAIN todo[th] /\ todo[th][1] = op BY <1>1, <1>2, HeadFits DEF GraphInv
  <2> QED BY <1>18, <2>1 DEF ToRun
<1>20. Fits(cancel)'
  <2>1. Ends(f, "Failed", Canceled) /\ "Failed" \in Done BY <1>14, <1>19, CancelEnds DEF Done
  <2>2. Ends(f, "Failed", Canceled)' BY <1>11, <1>12, <2>1, EndsStable
  <2> QED BY <1>9, <2>2 DEF Fits
<1>21. Fits(invoke)' /\ Fits(posted)' BY <1>8, <1>9, <1>14 DEF Fits
<1>22. Passes(op, invoke) /\ Passes(op, cancel) /\ Passes(op, posted)
  BY <1>2, <1>3, <1>9, <1>18 DEF Passes, Unrun, Sets, Drives
<1> QED BY <1>2, <1>10, <1>17, <1>20, <1>21, <1>22 DEF GraphCall

(* What the links to a future that runs allow it, and the future it        *)
(* completes, to end with.                                                 *)
LEMMA TaskEnds ==
  ASSUME GraphInv, NEW f \in Futures, state[f] = "Invoking", runs[f] = 0
  PROVE  /\ (m_error[f] = NoError \/ Kind[f] \in {"maybe", "catch", "token"}
               => Ends(f, "Succeeded", NoError))
         /\ (m_error[f] # NoError /\ Kind[f] # "token" => Ends(f, "Failed", m_error[f]))
         /\ (HasTaskPost(f) => Ends(f, "Failed", f))
         /\ (Kind[f] = "completion" /\ m_error[f] = NoError
               => Ends(Target[f], "Succeeded", NoError))
         /\ (Kind[f] = "completion" /\ m_error[f] # NoError
               => Ends(Target[f], "Failed", m_error[f]))
         /\ Linked(f) /\ MayStart(f)
         /\ (m_error[f] = NoError
               => \A p \in Futures : <<p, f>> \in links => state[p] = "Succeeded")
<1>1. LinksOK /\ ResultOK(f) BY DEF GraphInv, AllWords
<1>2. MayStart(f) /\ Inherits(f) BY <1>1 DEF ResultOK
<1>3. Linked(f) BY <1>2 DEF Inherits, Linked
<1>4. ASSUME NEW p \in Futures, <<p, f>> \in links
      PROVE  /\ state[p] \in Done
             /\ m_error[f] = NoError => state[p] = "Succeeded"
             /\ m_error[f] # NoError => state[p] = "Failed" /\ m_error[f] = m_error[p]
  <2>1. \A q \in Futures \cup {NoFuture} : <<q, f>> \in links => q = p
    BY <1>1, <1>4 DEF LinksOK, LinkedOnce
  <2>2. <<NoFuture, f>> \notin links BY <2>1, FutureAssumption
  <2>3. state[p] \in Done /\ m_error[f] = IF state[p] = "Failed" THEN m_error[p] ELSE NoError
    BY <1>2, <2>1, <2>2 DEF Inherits
  <2>4. ResultOK(p) BY DEF GraphInv, AllWords
  <2>5. state[p] = "Failed" => m_error[p] # NoError BY <2>3, <2>4 DEF ResultOK, Ends
  <2> QED BY <2>3, <2>5 DEF Done
<1>5. \A p \in Futures : Forwards(p, f) =>
        <<p, f>> \in links /\ Kind[f] \in {"shared", "copy", "wait", "completion"}
  BY <1>1, NoCompletion DEF Forwards, Linked
<1>6. f # NoError BY FutureAssumption
<1>7. m_error[f] = NoError \/ Kind[f] \in {"maybe", "catch", "token"} => Ends(f, "Succeeded", NoError)
  BY <1>2, <1>4, <1>5 DEF Ends
<1>8. m_error[f] # NoError /\ Kind[f] # "token" => Ends(f, "Failed", m_error[f])
  BY <1>2, <1>4, <1>5 DEF Ends
<1>9. HasTaskPost(f) => Ends(f, "Failed", f) BY <1>2, <1>5, <1>6 DEF Ends, HasTaskPost
<1>10. ASSUME Kind[f] = "completion"
       PROVE  /\ m_error[f] = NoError => Ends(Target[f], "Succeeded", NoError)
              /\ m_error[f] # NoError => Ends(Target[f], "Failed", m_error[f])
  <2>1. PICK t \in Futures : t = Target[f] BY <1>10, FutureAssumption
  <2>2. /\ HasTaskPost(t) /\ MayStart(t)
        /\ Kind[t] = "then" => \A p \in Futures : <<p, t>> \in links => state[p] = "Succeeded"
        /\ \A l \in Futures : Linked(l) /\ Target[l] = t => l = f
    BY <1>1, <1>3, <1>10, <2>1 DEF LinksOK, CompletionsOK, CompletionOK
  <2>3. \A p \in Futures : Forwards(p, t) => <<p, f>> \in links
    BY <2>2 DEF Forwards, HasTaskPost, Linked
  <2>4. m_error[f] = NoError => Ends(t, "Succeeded", NoError)
    BY <1>4, <2>2, <2>3 DEF Ends, HasTaskPost
  <2>5. m_error[f] # NoError => Ends(t, "Failed", m_error[f])
    BY <1>4, <2>2, <2>3 DEF Ends, HasTaskPost
  <2> QED BY <2>1, <2>4, <2>5
<1> QED BY <1>2, <1>3, <1>4, <1>7, <1>8, <1>9, <1>10

(* A call that runs a task and leaves these calls to do. *)
TaskFits(op, calls) ==
  calls \in Seq(Calls) /\ \A i \in DOMAIN calls : Fits(calls[i])' /\ Passes(op, calls[i])

(* One call. *)
LEMMA TaskFitsOne ==
  ASSUME NEW op, NEW x \in Calls, Fits(x)', Passes(op, x)
  PROVE  TaskFits(op, <<x>>)
<1>1. <<x>> \in Seq(Calls) /\ \A i \in DOMAIN <<x>> : <<x>>[i] = x BY Places
<1> QED BY <1>1 DEF TaskFits

(* Two calls. *)
LEMMA TaskFitsTwo ==
  ASSUME NEW op, NEW x \in Calls, NEW y \in Calls, Fits(x)', Fits(y)', Passes(op, x), Passes(op, y)
  PROVE  TaskFits(op, <<x, y>>)
<1>1. <<x, y>> \in Seq(Calls) /\ \A i \in DOMAIN <<x, y>> : <<x, y>>[i] \in {x, y} BY Places
<1> QED BY <1>1 DEF TaskFits

(* A task sets the result of its own future, or of the future it           *)
(* completes.                                                              *)
LEMMA TaskSets ==
  ASSUME NEW op, NEW f \in Futures, Runs(op, f), NEW g \in Futures, g = f \/ g = Target[f],
         NEW strict \in BOOLEAN
  PROVE  /\ Ends(g, "Succeeded", NoError)' =>
              \E x \in Calls : /\ SetValue(g, f, strict) = <<x>> /\ Fits(x)' /\ Passes(op, x)
         /\ Ends(g, "Succeeded", NoError)' =>
              LET x == Call("TrySetSuccess", g, NoFuture, f, strict)
              IN x \in Calls /\ Fits(x)' /\ Passes(op, x)
         /\ \A e \in Errors \cup {NoError} : Ends(g, "Failed", e)' =>
              LET x == Call("TrySetError", g, e, f, strict)
              IN x \in Calls /\ Fits(x)' /\ Passes(op, x)
<1>1. /\ "TrySetSuccess" \in CallNames /\ NoFuture \in Args("TrySetSuccess")
      /\ "TryStartSetValue" \in CallNames /\ NoFuture \in Args("TryStartSetValue")
      /\ "TrySetError" \in CallNames /\ \A e \in Errors \cup {NoError} : e \in Args("TrySetError")
  BY DEF CallNames, Args
<1>2. PICK set : set = Call("TrySetSuccess", g, NoFuture, f, strict) OBVIOUS
<1>3. PICK start : start = Call("TryStartSetValue", g, NoFuture, f, strict) OBVIOUS
<1>4. /\ set \in Calls /\ set.call = "TrySetSuccess" /\ set.fut = g /\ set.cur = f
      /\ start \in Calls /\ start.call = "TryStartSetValue" /\ start.fut = g /\ start.cur = f
  <2>1. set \in Calls /\ start \in Calls BY <1>1, <1>2, <1>3, CallTyped
  <2> QED BY <1>2, <1>3, <2>1 DEF Call
<1>5. Passes(op, set) /\ Passes(op, start)
  BY <1>4 DEF Passes, Unrun, Sets, Drives, Runs
<1>6. Ends(g, "Succeeded", NoError)' => Fits(set)' /\ Fits(start)' BY <1>4 DEF Fits
<1>7. SetValue(g, f, strict) = <<set>> \/ SetValue(g, f, strict) = <<start>>
  BY <1>2, <1>3, Zenon DEF SetValue
<1>8. ASSUME NEW e \in Errors \cup {NoError}, Ends(g, "Failed", e)',
             NEW x, x = Call("TrySetError", g, e, f, strict)
      PROVE  x \in Calls /\ Fits(x)' /\ Passes(op, x)
  <2>1. x \in Calls BY <1>1, <1>8, CallTyped
  <2>2. x.call = "TrySetError" /\ x.fut = g /\ x.cur = f /\ x.arg = e BY <1>8 DEF Call
  <2>3. Passes(op, x) BY <2>2 DEF Passes, Unrun, Sets, Drives, Runs
  <2>4. Fits(x)' BY <1>8, <2>2 DEF Fits
  <2> QED BY <2>1, <2>3, <2>4
<1>9. Ends(g, "Succeeded", NoError)' =>
        \E x \in Calls : SetValue(g, f, strict) = <<x>> /\ Fits(x)' /\ Passes(op, x)
  BY <1>4, <1>5, <1>6, <1>7
<1>10. Ends(g, "Succeeded", NoError)' => set \in Calls /\ Fits(set)' /\ Passes(op, set)
  BY <1>4, <1>5, <1>6
<1> QED BY <1>2, <1>8, <1>9, <1>10

(* A step that links c to p and changes no future. *)
LEMMA LinkGraph ==
  ASSUME AllWords, LinksOK, NEW p \in Futures \cup {NoFuture}, NEW c \in Futures, ~IsMade(c),
         links' = links \cup {<<p, c>>}, UNCHANGED <<state, m_error, m_link, continuation>>,
         \A g \in Futures : runs[g] # 0 => runs'[g] # 0,
         \A g \in Futures : g \in queued' => g \in queued,
         p = NoFuture => CallbackOnValue(c),
         \A k \in Futures : Kind[k] = "completion" /\ Linked(k) => Target[c] # Target[k],
         Steady /\ Kind[c] = "completion" => CompletionOK(c)',
         Target[c] \in Futures => state[Target[c]] \notin Done
  PROVE  /\ Steady /\ AllWords' /\ LinksOK'
         /\ \A g \in Futures : NewTarget(g) => g = Target[c]
<1>1. \A q \in Futures \cup {NoFuture}, d \in Futures :
        <<q, d>> \in links' => <<q, d>> \in links \/ (q = p /\ d = c)
  OBVIOUS
<1>2. LinksGrow BY <1>1 DEF LinksGrow
<1>3. Steady BY <1>2 DEF Steady
<1>4. \A g \in Futures : NewTarget(g) => g = Target[c] BY <1>1 DEF NewTarget
<1>5. ASSUME NEW g \in Futures PROVE ResultOK(g)' /\ ListOK(g)'
  <2>1. ResultOK(g) /\ ListOK(g) BY DEF AllWords
  <2>2. ~(state[g] \in Done /\ NewTarget(g)) BY <1>4
  <2>3. ResultOK(g)' BY <1>3, <2>1, <2>2, ResultStable
  <2>4. ListOK(g)' BY <1>3, <2>1, ListStable
  <2> QED BY <2>3, <2>4
<1>6. AllWords' BY <1>5 DEF AllWords
<1>7. ~Linked(c) /\ ~IsPromise(c) BY DEF Linked, IsMade
<1>8. \A d \in Futures : Linked(d)' => Linked(d) \/ d = c BY <1>1 DEF Linked
<1>9. LinkedOnce'
  <2>1. \A q \in Futures \cup {NoFuture} : <<q, c>> \in links' => q = p
    BY <1>1, <1>7 DEF Linked
  <2> QED BY <1>1, <2>1 DEF LinkedOnce, LinksOK
<1>10. LinkKinds'
  <2>1. \A d \in Futures : Linked(d)' => ~IsPromise(d)
    BY <1>7, <1>8 DEF LinksOK, LinkKinds
  <2>2. \A d \in Futures : <<NoFuture, d>> \in links' => CallbackOnValue(d)
    BY <1>1 DEF LinksOK, LinkKinds
  <2> QED BY <2>1, <2>2 DEF LinkKinds, IsPromise, CallbackOnValue
<1>11. ASSUME NEW k \in Futures, Kind[k] = "completion", Linked(k)' PROVE CompletionOK(k)'
  <2>1. CASE k = c BY <1>3, <1>11, <2>1
  <2>2. CASE Linked(k)
    <3>1. CompletionOK(k) BY <1>11, <2>2 DEF LinksOK, CompletionsOK
    <3>2. \A l \in Futures : Linked(l)' /\ ~Linked(l) => Target[l] # Target[k]
      BY <1>8, <1>11, <2>2
    <3> QED BY <1>3, <1>11, <3>1, <3>2, CompletionStable
  <2> QED BY <1>8, <1>11, <2>1, <2>2
<1>12. CompletionsOK' BY <1>11 DEF CompletionsOK
<1>13. LinksOK' BY <1>9, <1>10, <1>12 DEF LinksOK
<1> QED BY <1>3, <1>4, <1>6, <1>13

(* A task that makes no link. *)
LEMMA TaskGraph ==
  ASSUME AllWords, LinksOK, NEW th \in Threads, NEW calls, Return(th, calls),
         UNCHANGED <<links, queued, state, m_error, m_link, continuation>>,
         \A f \in Futures : runs[f] # 0 => runs'[f] # 0,
         TaskFits(Head(todo[th]), calls)
  PROVE  GraphCall(th)
<1>1. Steady BY SameLinks DEF Steady
<1>2. LinksOK' BY <1>1, LinksStable
<1>3. \A g \in Futures : ~NewTarget(g) BY SameLinks
<1>4. AllWords' BY <1>1, <1>3, ResultStable, ListStable DEF AllWords
<1>5. GraphEffect(Head(todo[th])) BY <1>1, <1>2, <1>3, <1>4 DEF GraphEffect
<1> QED BY <1>5 DEF GraphCall, TaskFits

(* The callback of a future returns a value, an error, or a future that is *)
(* awaited.                                                                *)
LEMMA UserCallbackGraph ==
  ASSUME IInv, GraphInv, NEW th \in Threads, NEW op \in Calls, op = Head(todo[th]),
         NEW f \in Futures, Runs(op, f), state[f] = "Invoking", runs[f] = 0, runs'[f] # 0,
         HasTaskPost(f), Kind[f] = "then" => m_error[f] = NoError,
         UserCallback(th, f), UNCHANGED <<queued, state, m_error, m_link, continuation>>,
         \A g \in Futures : runs[g] # 0 => runs'[g] # 0
  PROVE  GraphCall(th)
<1>1. AllWords /\ LinksOK BY DEF GraphInv
<1>2. Ends(f, "Succeeded", NoError) /\ Ends(f, "Failed", f) /\ MayStart(f)
  BY TaskEnds DEF HasTaskPost
<1>3. links' = links => Ends(f, "Succeeded", NoError)' /\ Ends(f, "Failed", f)'
  BY <1>2, SameLinks, EndsStable DEF Done, Steady
<1>4. CASE Return(th, SetValue(f, f, TRUE)) /\ UNCHANGED links
  <2>1. PICK x \in Calls : SetValue(f, f, TRUE) = <<x>> /\ Fits(x)' /\ Passes(op, x)
    BY <1>3, <1>4, TaskSets
  <2>2. TaskFits(op, <<x>>) BY <2>1, TaskFitsOne
  <2> QED BY <1>1, <1>4, <2>1, <2>2, TaskGraph
<1>5. PICK error : error = Call("TrySetError", f, f, f, TRUE) OBVIOUS
<1>6. CASE Return(th, <<error>>) /\ UNCHANGED links
  <2>1. f \in Errors \cup {NoError} BY DEF Errors
  <2>2. error \in Calls /\ Fits(error)' /\ Passes(op, error) BY <1>3, <1>5, <1>6, <2>1, TaskSets
  <2>3. TaskFits(op, <<error>>) BY <2>2, TaskFitsOne
  <2> QED BY <1>1, <1>6, <2>3, TaskGraph
<1>7. ASSUME NEW k \in Futures, NEW p \in Futures, Kind[k] = "completion", Target[k] = f, ~IsMade(k),
             links' = links \cup {<<p, k>>},
             Return(th, <<Call("StartAwaiting", f, NoFuture, f, TRUE),
                          Call("AddContinuation", p, k, f, FALSE)>>)
      PROVE  GraphCall(th)
  <2>1. \A l \in Futures : Target[l] = f => ~Linked(l) BY <1>1, NoCompletion
  <2>2. \A l \in Futures : Linked(l)' => Linked(l) \/ l = k BY <1>7 DEF Linked
  <2>3. ASSUME Steady PROVE CompletionOK(k)'
    <3>1. IsMade(f) /\ MayStart(f)' BY <1>2, <2>3, MayStartStable
    <3>2. \A q \in Futures : <<q, f>> \in links' => <<q, f>> \in links
      BY <2>3, <3>1, OldLink DEF Steady
    <3>3. Kind[f] = "then" => \A q \in Futures : <<q, f>> \in links' => state'[q] = "Succeeded"
      BY <3>2, TaskEnds
    <3>4. \A l \in Futures : Linked(l)' /\ Target[l] = f => l = k BY <2>1, <2>2
    <3> QED BY <1>7, <3>1, <3>3, <3>4 DEF CompletionOK, HasTaskPost
  <2>4. p # NoFuture BY FutureAssumption
  <2>5. \A l \in Futures : Kind[l] = "completion" /\ Linked(l) => Target[k] # Target[l]
    BY <1>7, <2>1
  <2>6. state[Target[k]] \notin Done BY <1>7 DEF Done
  <2>7. /\ Steady /\ AllWords' /\ LinksOK'
        /\ \A g \in Futures : NewTarget(g) => g = f
    BY <1>1, <1>7, <2>3, <2>4, <2>5, <2>6, LinkGraph
  <2>8. GraphEffect(op) BY <2>7 DEF GraphEffect
  <2>9. PICK await : await = Call("StartAwaiting", f, NoFuture, f, TRUE) OBVIOUS
  <2>10. PICK add : add = Call("AddContinuation", p, k, f, FALSE) OBVIOUS
  <2>11. /\ await \in Calls /\ await.call = "StartAwaiting" /\ await.fut = f
         /\ add \in Calls /\ add.call = "AddContinuation" /\ add.fut = p /\ add.arg = k
    <3>1. /\ "StartAwaiting" \in CallNames /\ NoFuture \in Args("StartAwaiting")
          /\ "AddContinuation" \in CallNames /\ k \in Args("AddContinuation")
      BY DEF CallNames, Args
    <3>2. await \in Calls /\ add \in Calls BY <2>9, <2>10, <3>1, CallTyped
    <3> QED BY <2>9, <2>10, <3>2 DEF Call
  <2>12. Fits(await)' /\ Fits(add)' BY <1>7, <2>11 DEF Fits
  <2>13. Passes(op, await) /\ Passes(op, add) BY <2>11 DEF Passes, Unrun, Sets
  <2>14. TaskFits(op, <<await, add>>) BY <2>11, <2>12, <2>13, TaskFitsTwo
  <2> QED BY <1>7, <2>8, <2>9, <2>10, <2>14 DEF GraphCall, TaskFits
<1> QED BY <1>4, <1>5, <1>6, <1>7, Zenon DEF UserCallback

(* The library's own callbacks pass the result of the parent on. *)
LEMMA LibraryTaskFits ==
  ASSUME NEW op, NEW f \in Futures, Runs(op, f), NEW e \in Errors \cup {NoError}
  PROVE  /\ Ends(f, "Succeeded", NoError)' /\
            (Kind[f] = "completion" => Ends(Target[f], "Succeeded", NoError)')
              => TaskFits(op, TaskInvoke(f))
         /\ (Kind[f] = "token" => Ends(f, "Succeeded", NoError)') /\
            (Kind[f] # "token" => Ends(f, "Failed", e)') /\
            (Kind[f] = "completion" => Ends(Target[f], "Failed", e)')
              => TaskFits(op, CatchWith(f, e))
<1>1. PICK success : success = Call("TrySetSuccess", f, NoFuture, f, TRUE) OBVIOUS
<1>2. PICK finish : finish = Call("SetFinished", f, NoFuture, f, FALSE) OBVIOUS
<1>3. PICK error : error = Call("TrySetError", f, e, f, TRUE) OBVIOUS
<1>4. PICK weak : weak = Call("TrySetError", f, e, f, FALSE) OBVIOUS
<1>5. finish \in Calls /\ Fits(finish)' /\ Passes(op, finish)
  <2>1. "SetFinished" \in CallNames /\ NoFuture \in Args("SetFinished") BY DEF CallNames, Args
  <2>2. finish \in Calls BY <1>2, <2>1, CallTyped
  <2>3. finish.call = "SetFinished" BY <1>2 DEF Call
  <2> QED BY <2>2, <2>3 DEF Fits, Passes, Unrun, Sets
<1>6. ASSUME Ends(f, "Succeeded", NoError)'
      PROVE  /\ success \in Calls /\ Fits(success)' /\ Passes(op, success)
             /\ TaskFits(op, SetValue(f, f, TRUE))
  <2>1. success \in Calls /\ Fits(success)' /\ Passes(op, success) BY <1>1, <1>6, TaskSets
  <2>2. PICK x \in Calls : SetValue(f, f, TRUE) = <<x>> /\ Fits(x)' /\ Passes(op, x)
    BY <1>6, TaskSets
  <2>3. TaskFits(op, <<x>>) BY <2>2, TaskFitsOne
  <2> QED BY <2>1, <2>2, <2>3
<1>7. ASSUME Ends(f, "Failed", e)'
      PROVE  /\ error \in Calls /\ Fits(error)' /\ Passes(op, error)
             /\ weak \in Calls /\ Fits(weak)' /\ Passes(op, weak)
  BY <1>3, <1>4, <1>7, TaskSets
<1>8. CASE Kind[f] = "completion"
  <2>1. PICK t \in Futures : t = Target[f] BY <1>8, FutureAssumption
  <2>2. TaskInvoke(f) = <<success>> \o SetValue(t, f, FALSE)
    BY <1>1, <1>8, <2>1, Zenon DEF TaskInvoke, FutureCompletionTaskInvoke
  <2>3. PICK forward : forward = Call("TrySetError", t, e, f, FALSE) OBVIOUS
  <2>4. CatchWith(f, e) = <<forward, error>> BY <1>3, <1>8, <2>1, <2>3, Zenon DEF CatchWith
  <2>5. ASSUME Ends(f, "Succeeded", NoError)', Ends(t, "Succeeded", NoError)'
        PROVE  TaskFits(op, TaskInvoke(f))
    <3>1. PICK x \in Calls : SetValue(t, f, FALSE) = <<x>> /\ Fits(x)' /\ Passes(op, x)
      BY <2>1, <2>5, TaskSets
    <3>2. success \in Calls /\ Fits(success)' /\ Passes(op, success) BY <1>6, <2>5
    <3>3. PICK s : s = <<success>> \o <<x>> OBVIOUS
    <3>4. s \in Seq(Calls) /\ \A i \in DOMAIN s : s[i] \in {success, x} BY <3>1, <3>2, <3>3
    <3>5. TaskFits(op, s) BY <3>1, <3>2, <3>4 DEF TaskFits
    <3> QED BY <2>2, <3>1, <3>3, <3>5
  <2>6. ASSUME Ends(f, "Failed", e)', Ends(t, "Failed", e)'
        PROVE  TaskFits(op, CatchWith(f, e))
    <3>1. forward \in Calls /\ Fits(forward)' /\ Passes(op, forward)
      BY <2>1, <2>3, <2>6, TaskSets
    <3>2. TaskFits(op, <<forward, error>>) BY <1>7, <2>6, <3>1, TaskFitsTwo
    <3> QED BY <2>4, <3>2
  <2>7. ASSUME NEW r, NEW z, Ends(Target[f], r, z)' PROVE Ends(t, r, z)'
    BY <2>1, <2>7
  <2> QED BY <1>8, <2>5, <2>6, <2>7
<1>9. CASE Kind[f] = "wait"
  <2>1. Kind[f] # "completion" /\ Kind[f] # "token" BY <1>9
  <2>2. TaskInvoke(f) = <<success, finish>>
    BY <1>1, <1>2, <1>9, <2>1, Zenon DEF TaskInvoke, FutureWaitTaskInvoke
  <2>3. CatchWith(f, e) = <<error, finish>> BY <1>2, <1>3, <1>9, <2>1, Zenon DEF CatchWith
  <2>4. Ends(f, "Succeeded", NoError)' => TaskFits(op, <<success, finish>>)
    BY <1>5, <1>6, TaskFitsTwo
  <2>5. Ends(f, "Failed", e)' => TaskFits(op, <<error, finish>>) BY <1>5, <1>7, TaskFitsTwo
  <2> QED BY <2>1, <2>2, <2>3, <2>4, <2>5
<1>10. CASE Kind[f] = "token"
  <2>1. Kind[f] # "completion" /\ Kind[f] # "wait" BY <1>10
  <2>2. TaskInvoke(f) = SetValue(f, f, TRUE) BY <2>1, Zenon DEF TaskInvoke, CopyTaskInvoke
  <2>3. CatchWith(f, e) = SetValue(f, f, TRUE) BY <1>10, <2>1, Zenon DEF CatchWith
  <2> QED BY <1>6, <1>10, <2>2, <2>3, Zenon
<1>11. CASE Kind[f] # "completion" /\ Kind[f] # "wait" /\ Kind[f] # "token"
  <2>1. TaskInvoke(f) = SetValue(f, f, TRUE) BY <1>11, Zenon DEF TaskInvoke, CopyTaskInvoke
  <2>2. CatchWith(f, e) = <<weak>> BY <1>4, <1>11, Zenon DEF CatchWith
  <2>3. Ends(f, "Failed", e)' => TaskFits(op, <<weak>>) BY <1>7, TaskFitsOne
  <2> QED BY <1>6, <1>11, <2>1, <2>2, <2>3, Zenon
<1> QED BY <1>8, <1>9, <1>10, <1>11

(* RunTask leaves a task to set a result its future may have. *)
LEMMA RunTaskGraph ==
  ASSUME IInv, RunInv, GraphInv, SinglePosts, NEW th \in Threads, RunTask(th)
  PROVE  GraphCall(th)
<1>1. NextCall(th, "RunTask") /\ TypeOK BY DEF RunTask, IInv
<1>2. PICK op \in Calls : op = Head(todo[th]) /\ op.call = "RunTask"
  BY <1>1, HeadFits DEF GraphInv
<1>3. PICK f \in Futures : f = op.fut BY CallFields
<1>4. Runs(op, f) BY <1>2, <1>3 DEF Runs
<1>5. state[f] = "Invoking" /\ runs[f] = 0
  <2>1. 1 \in DOMAIN todo[th] /\ todo[th][1] = op BY <1>1, <1>2, HeadFits DEF GraphInv
  <2>2. RanOnce(f) BY DEF RunInv, SinglePosts
  <2> QED BY <1>4, <2>1, <2>2 DEF RanOnce
<1>6. AllWords /\ LinksOK BY DEF GraphInv
<1>7. UNCHANGED <<queued, state, m_error, m_link, continuation>> BY DEF RunTask, futureVars
<1>8. runs'[f] # 0 /\ \A g \in Futures : runs[g] # 0 => runs'[g] # 0
  <2>1. runs' = [runs EXCEPT ![f] = runs[f] + 1] BY <1>2, <1>3, Zenon DEF RunTask
  <2> QED BY <1>1, <2>1 DEF TypeOK
<1>9. PICK e \in Errors \cup {NoError} : e = m_error[f] BY <1>1 DEF TypeOK
<1>10. CASE /\ UserCallback(th, f)
            /\ \/ e = NoError /\ CallbackOnValue(f)
               \/ e # NoError /\ CallbackOnError(f)
  <2>1. HasTaskPost(f) /\ (Kind[f] = "then" => m_error[f] = NoError)
    BY <1>9, <1>10 DEF HasTaskPost, CallbackOnValue, CallbackOnError
  <2> QED BY <1>2, <1>4, <1>5, <1>7, <1>8, <1>10, <2>1, UserCallbackGraph
<1>11. ASSUME UNCHANGED links PROVE Steady /\ \A g \in Futures : ~NewTarget(g)
  BY <1>7, <1>11, SameLinks DEF Steady
<1>12. /\ (e = NoError \/ Kind[f] \in {"maybe", "catch", "token"} => Ends(f, "Succeeded", NoError))
       /\ (e # NoError /\ Kind[f] # "token" => Ends(f, "Failed", e))
       /\ (Kind[f] = "completion" /\ e = NoError => Ends(Target[f], "Succeeded", NoError))
       /\ (Kind[f] = "completion" /\ e # NoError => Ends(Target[f], "Failed", e))
  BY <1>5, <1>9, TaskEnds
<1>13. ASSUME UNCHANGED links, NEW g \in Futures, NEW r \in Done, NEW z, Ends(g, r, z)
       PROVE  Ends(g, r, z)'
  BY <1>11, <1>13, EndsStable
<1>14. "Succeeded" \in Done /\ "Failed" \in Done BY DEF Done
<1>15. Kind[f] = "completion" => Target[f] \in Futures BY FutureAssumption
<1>16. PICK t : t = Target[f] OBVIOUS
<1>17. CASE e = NoError /\ UNCHANGED links /\ Return(th, TaskInvoke(f))
  <2>1. Ends(f, "Succeeded", NoError)' BY <1>12, <1>13, <1>14, <1>17
  <2>2. Kind[f] = "completion" => Ends(Target[f], "Succeeded", NoError)'
    <3>1. ASSUME Kind[f] = "completion" PROVE Ends(t, "Succeeded", NoError)'
      BY <1>12, <1>13, <1>14, <1>15, <1>16, <1>17, <3>1
    <3> QED BY <1>16, <3>1
  <2>3. TaskFits(op, TaskInvoke(f)) BY <1>4, <2>1, <2>2, LibraryTaskFits
  <2>4. PICK calls : calls = TaskInvoke(f) OBVIOUS
  <2> QED BY <1>2, <1>6, <1>7, <1>8, <1>17, <2>3, <2>4, TaskGraph
<1>18. PICK success : success = Call("TrySetSuccess", f, NoFuture, f, TRUE) OBVIOUS
<1>19. CASE e = NoError /\ UNCHANGED links /\ Return(th, <<success>>)
  <2>1. Ends(f, "Succeeded", NoError)' BY <1>12, <1>13, <1>14, <1>19
  <2>2. success \in Calls /\ Fits(success)' /\ Passes(op, success) BY <1>4, <1>18, <2>1, TaskSets
  <2>3. TaskFits(op, <<success>>) BY <2>2, TaskFitsOne
  <2> QED BY <1>2, <1>6, <1>7, <1>8, <1>19, <2>3, TaskGraph
<1>20. CASE e # NoError /\ UNCHANGED links /\ Return(th, CatchWith(f, e))
  <2>1. Kind[f] = "token" => Ends(f, "Succeeded", NoError)' BY <1>12, <1>13, <1>14, <1>20
  <2>2. Kind[f] # "token" => Ends(f, "Failed", e)' BY <1>12, <1>13, <1>14, <1>20
  <2>3. Kind[f] = "completion" => Ends(Target[f], "Failed", e)'
    <3>1. ASSUME Kind[f] = "completion" PROVE Ends(t, "Failed", e)'
      BY <1>12, <1>13, <1>14, <1>15, <1>16, <1>20, <3>1
    <3> QED BY <1>16, <3>1
  <2>4. TaskFits(op, CatchWith(f, e)) BY <1>4, <2>1, <2>2, <2>3, LibraryTaskFits
  <2>5. PICK calls : calls = CatchWith(f, e) OBVIOUS
  <2> QED BY <1>2, <1>6, <1>7, <1>8, <1>20, <2>4, <2>5, TaskGraph
<1>21. PICK error : error = Call("TrySetError", f, e, f, TRUE) OBVIOUS
<1>22. CASE e # NoError /\ ~HasTaskCatch(f) /\ UNCHANGED links /\ Return(th, <<error>>)
  <2>1. Kind[f] # "token" BY <1>22 DEF HasTaskCatch, HasTaskInvoke, IsPromise
  <2>2. Ends(f, "Failed", e)' BY <1>12, <1>13, <1>14, <1>22, <2>1
  <2>3. error \in Calls /\ Fits(error)' /\ Passes(op, error) BY <1>4, <1>21, <2>2, TaskSets
  <2>4. TaskFits(op, <<error>>) BY <2>3, TaskFitsOne
  <2> QED BY <1>2, <1>6, <1>7, <1>8, <1>22, <2>4, TaskGraph
<1> QED
  BY <1>2, <1>3, <1>9, <1>10, <1>17, <1>18, <1>19, <1>20, <1>21, <1>22, Zenon DEF RunTask, TaskCatch

(* Every call of FutureImpl keeps the graph right. *)
LEMMA CallStepGraph ==
  ASSUME IInv, RunInv, GraphInv, SinglePosts, NEW th \in Threads, CallStep(th)
  PROVE  GraphCall(th)
BY AddContinuationGraph, TryPostGraph, TaskPostGraph, TrySetPostedGraph, InvokeGraph,
   RunTaskGraph, StartAwaitingGraph, TryStartSetValueGraph, TrySetSuccessGraph,
   TrySetErrorGraph, SetFailedGraph, FinishedGraph, Zenon
   DEF CallStep

(* The pending calls after a call has returned. *)
LEMMA CallStepRest ==
  ASSUME IInv, RunInv, RunInv', GraphInv, SinglePosts, FollowsArrows, NEW th \in Threads, CallStep(th)
  PROVE  AllFit' /\ AllRest'
<1>1. PICK name : NextCall(th, name) BY CallStepRight
<1>2. PICK calls \in Seq(Calls) :
        /\ Return(th, calls)
        /\ \A i \in DOMAIN calls : Fits(calls[i])' /\ Passes(Head(todo[th]), calls[i])
        /\ GraphEffect(Head(todo[th]))
  BY CallStepGraph DEF GraphCall
<1>3. PICK op : op = Head(todo[th]) OBVIOUS
<1>4. TypeOK /\ AllFit /\ AllRest /\ LinksOK /\ AllWords BY DEF IInv, GraphInv
<1>5. /\ 1 \in DOMAIN todo[th] /\ todo[th][1] = op
      /\ \A u \in Threads : u # th => todo'[u] = todo[u]
      /\ \A i \in DOMAIN todo'[th] :
           \/ i \in DOMAIN calls /\ todo'[th][i] = calls[i]
           \/ /\ i \in Nat /\ i > Len(calls)
              /\ i - Len(calls) + 1 \in DOMAIN todo[th] /\ i - Len(calls) + 1 > 1
              /\ todo'[th][i] = todo[th][i - Len(calls) + 1]
  BY <1>1, <1>2, <1>3, <1>4, ReturnPlaces
<1>6. op \in Calls /\ op.fut \in Futures
  <2>1. op \in Calls BY <1>1, <1>3, <1>4, HeadFits
  <2> QED BY <2>1, CallFields
(* A call after the step is new, or was there before, behind the head. *)
<1>7. ASSUME NEW u \in Threads, NEW i \in DOMAIN todo'[u]
      PROVE  \/ \E j \in DOMAIN calls : todo'[u][i] = calls[j]
             \/ \E v \in Threads : \E j \in DOMAIN todo[v] :
                  ~(v = th /\ j = 1) /\ todo'[u][i] = todo[v][j]
  <2>1. CASE u # th BY <1>5, <2>1
  <2>2. CASE u = th BY <1>5, <2>2
  <2> QED BY <2>1, <2>2
<1>8. ASSUME NEW f \in Futures, Runs(op, f)
      PROVE  /\ ToRun(f) /\ f \notin queued /\ state[f] # "Pending"
             /\ \A v \in Threads : \A j \in DOMAIN todo[v] :
                  ~(v = th /\ j = 1) => ~Unrun(todo[v][j], f)
  <2>1. DrivenOnce(f) BY DEF RunInv, OneDriver, SinglePosts
  <2>2. Drives(op, f) /\ Unrun(op, f) BY <1>8 DEF Drives, Runs, Unrun
  <2>3. \A x : Unrun(x, f) => Drives(x, f) BY DEF Unrun, Drives
  <2>4. ToRun(f) BY <1>5, <2>2 DEF ToRun
  <2>5. f \notin queued /\ state[f] # "Pending" BY <1>5, <2>1, <2>2 DEF DrivenOnce, NoDriver
  <2>6. \A v \in Threads : \A j \in DOMAIN todo[v] : Drives(todo[v][j], f) => v = th /\ j = 1
    BY <1>5, <2>1, <2>2 DEF DrivenOnce, UniqueDriver
  <2> QED BY <2>3, <2>4, <2>5, <2>6
<1>9. ASSUME NEW u \in Threads, NEW i \in DOMAIN todo'[u] PROVE Fits(todo[u][i])'
  <2>1. CASE \E j \in DOMAIN calls : todo'[u][i] = calls[j]
    <3>1. PICK j \in DOMAIN calls : todo'[u][i] = calls[j] BY <2>1
    <3>2. PICK x : x = calls[j] OBVIOUS
    <3>3. Fits(calls[j])' BY <1>2
    <3>4. Fits(x)' BY <3>2, <3>3
    <3>5. x = todo'[u][i] BY <3>1, <3>2
    <3> QED BY <3>4, <3>5 DEF Fits
  <2>2. CASE \E v \in Threads : \E j \in DOMAIN todo[v] :
               ~(v = th /\ j = 1) /\ todo'[u][i] = todo[v][j]
    <3>1. PICK v \in Threads : \E j \in DOMAIN todo[v] : todo'[u][i] = todo[v][j] BY <2>2
    <3>2. PICK j \in DOMAIN todo[v] : todo'[u][i] = todo[v][j] BY <3>1
    <3>3. PICK x : x = todo[v][j] OBVIOUS
    <3>4. x \in Calls /\ Fits(x)
      <4>1. todo[v] \in Seq(Calls) BY <1>4 DEF TypeOK
      <4> QED BY <1>4, <3>3, <4>1, ElementOfSeq DEF AllFit
    <3>5. x.fut \in Futures BY <3>4, CallFields
    <3>6. ~(Sets(x, x.fut) /\ NewTarget(x.fut))
      <4>1. SUFFICES ASSUME NewTarget(x.fut) PROVE ~Sets(x, x.fut) OBVIOUS
      <4>2. Runs(op, x.fut) /\ HasTaskPost(x.fut) BY <1>2, <1>3, <3>5, <4>1 DEF GraphEffect
      <4>3. ToRun(x.fut) BY <1>8, <3>5, <4>2
      <4>4. NoSetter(x.fut) BY <1>4, <3>5, <4>2, <4>3 DEF AllRest, RestOK
      <4> QED BY <3>3, <4>4 DEF NoSetter
    <3>7. Fits(x)' BY <1>2, <3>4, <3>6, FitsStable DEF GraphEffect
    <3>8. x = todo'[u][i] BY <3>2, <3>3
    <3> QED BY <3>7, <3>8 DEF Fits
  <2> QED BY <1>7, <2>1, <2>2
<1>10. AllFit' BY <1>9 DEF AllFit
(* What is left to run was left to run before, or has just been posted. *)
<1>11. ASSUME NEW f \in Futures, ToRun(f)'
       PROVE  ~Runs(op, f) /\ (ToRun(f) \/ state[f] = "Pending")
  <2>1. CASE f \in queued'
    <3>1. f \in queued \/ (op.call = "TaskPost" /\ op.fut = f) BY <1>2, <1>3, <2>1 DEF GraphEffect
    <3>2. CASE f \in queued BY <1>8, <3>2 DEF ToRun
    <3>3. CASE op.call = "TaskPost" /\ op.fut = f BY <1>5, <3>3 DEF ToRun, Unrun, Runs
    <3> QED BY <3>1, <3>2, <3>3
  <2>2. ASSUME NEW u \in Threads, NEW i \in DOMAIN todo'[u], Unrun(todo'[u][i], f)
        PROVE  ~Runs(op, f) /\ (ToRun(f) \/ state[f] = "Pending")
    <3>1. CASE \E j \in DOMAIN calls : todo'[u][i] = calls[j]
      <4>1. PICK j \in DOMAIN calls : todo'[u][i] = calls[j] BY <3>1
      <4>2. Unrun(calls[j], f) /\ calls[j].fut = f /\ Passes(op, calls[j])
        BY <1>2, <1>3, <2>2, <4>1 DEF Unrun
      <4>3. \/ Unrun(op, f) /\ op.call # "RunTask"
            \/ state[f] = "Pending" /\ state'[f] # "Pending"
        BY <4>2 DEF Passes
      <4>4. CASE Unrun(op, f) /\ op.call # "RunTask" BY <1>5, <4>4 DEF ToRun, Runs
      <4>5. CASE state[f] = "Pending" BY <1>8, <4>5
      <4> QED BY <4>3, <4>4, <4>5
    <3>2. ASSUME NEW v \in Threads, NEW j \in DOMAIN todo[v], ~(v = th /\ j = 1),
                 todo'[u][i] = todo[v][j]
          PROVE  ~Runs(op, f) /\ ToRun(f)
      <4>1. Unrun(todo[v][j], f) BY <2>2, <3>2
      <4>2. ToRun(f) BY <4>1 DEF ToRun
      <4> QED BY <1>8, <3>2, <4>1, <4>2
    <3> QED BY <1>7, <3>1, <3>2
  <2> QED BY <1>11, <2>1, <2>2 DEF ToRun
<1>12. ASSUME NEW f \in Futures PROVE RestOK(f)'
  <2>1. RestOK(f) /\ RanOnce(f) /\ DrivenOnce(f)'
    BY <1>4 DEF AllRest, RunInv, OneDriver, SinglePosts, IsMultiPost
  <2>2. state[f] = "Pending" => runs[f] = 0 BY <2>1 DEF RanOnce, Early
  <2>3. ASSUME ToRun(f)' PROVE runs'[f] = 0
    <3>1. ~Runs(op, f) /\ runs[f] = 0 BY <1>11, <2>1, <2>2, <2>3 DEF RestOK
    <3>2. \E c \in Seq(Calls) : RightStep(th, c, f)
      BY CallStepRight DEF RightCall, SinglePosts
    <3>3. runs'[f] = runs[f] BY <1>3, <3>1, <3>2 DEF RightStep, RunsByRight
    <3> QED BY <3>1, <3>3
  <2>4. ASSUME HasTaskPost(f), state'[f] = "Pending" \/ ToRun(f)',
               NEW u \in Threads, NEW i \in DOMAIN todo'[u], Sets(todo'[u][i], f)
        PROVE  FALSE
    <3>1. state'[f] = "Pending" => state[f] = "Pending"
      BY DEF FollowsArrows, Arrows, SinglePosts
    <3>2. ToRun(f) \/ state[f] = "Pending" BY <1>11, <2>4, <3>1
    <3>3. NoSetter(f) /\ runs[f] = 0 BY <2>1, <2>2, <2>4, <3>2 DEF RestOK
    <3>4. PICK j \in DOMAIN calls : todo'[u][i] = calls[j]
      BY <1>7, <2>4, <3>3 DEF NoSetter
    <3>5. Sets(calls[j], f) /\ calls[j].fut = f /\ Passes(op, calls[j])
      BY <1>2, <1>3, <2>4, <3>4 DEF Sets
    <3>6. \/ Sets(op, f) \/ Drives(calls[j], f)
          \/ op.call = "RunTask" /\ Target[op.fut] = f
      BY <2>4, <3>5 DEF Passes
    <3>7. ~Sets(op, f) BY <1>5, <3>3 DEF NoSetter
    <3>8. ~Drives(calls[j], f)
      <4>1. SUFFICES ASSUME Drives(calls[j], f) PROVE FALSE OBVIOUS
      <4>2. Drives(todo'[u][i], f) BY <3>4, <4>1
      <4>3. state'[f] # "Pending" /\ f \notin queued'
        BY <2>1, <4>2 DEF DrivenOnce, NoDriver
      <4>4. PICK v \in Threads : \E l \in DOMAIN todo'[v] : Unrun(todo'[v][l], f)
        BY <2>4, <4>3 DEF ToRun
      <4>5. PICK l \in DOMAIN todo'[v] : Unrun(todo'[v][l], f) BY <4>4
      <4>6. Drives(todo'[v][l], f) BY <4>5 DEF Unrun, Drives
      <4>7. v = u /\ l = i BY <2>1, <4>2, <4>6 DEF DrivenOnce, UniqueDriver
      <4> QED BY <2>4, <4>5, <4>7 DEF Unrun, Sets
    <3>9. ~(op.call = "RunTask" /\ Target[op.fut] = f)
      <4>1. SUFFICES ASSUME op.call = "RunTask", Target[op.fut] = f PROVE FALSE OBVIOUS
      <4>2. PICK k \in Futures : k = op.fut BY <1>6
      <4>3. RanOnce(k) /\ ResultOK(k) BY <1>4 DEF RunInv, SinglePosts, AllWords
      <4>4. Runs(op, k) BY <4>1, <4>2 DEF Runs
      <4>5. state[k] = "Invoking" BY <1>5, <4>3, <4>4 DEF RanOnce
      <4>6. Linked(k) BY <4>3, <4>5 DEF ResultOK, Inherits, Linked
      <4> QED BY <1>4, <3>3, <4>1, <4>2, <4>6, NoCompletion
    <3> QED BY <3>6, <3>7, <3>8, <3>9
  <2>5. HasTaskPost(f) /\ (state'[f] = "Pending" \/ ToRun(f)') => NoSetter(f)'
    BY <2>4 DEF NoSetter
  <2> QED BY <2>3, <2>5 DEF RestOK, HasTaskPost
<1>13. AllRest' BY <1>12 DEF AllRest
<1> QED BY <1>10, <1>13

(* What a thread outside of the library does to the graph: the calls it    *)
(* makes fit, and leave the futures with callbacks to their callbacks.     *)
UserEffect(th) ==
  \E calls \in Seq(Calls) :
    /\ Begin(th, calls) /\ UNCHANGED <<state, queued, runs>>
    /\ Steady /\ AllWords' /\ LinksOK' /\ \A g \in Futures : ~NewTarget(g)
    /\ \A i \in DOMAIN calls :
         /\ Fits(calls[i])'
         /\ \A g \in Futures : ~Unrun(calls[i], g) /\ (HasTaskPost(g) => ~Sets(calls[i], g))

(* A continuation is made and added to its parent. *)
LEMMA ContinueGraph ==
  ASSUME GraphInv, NEW th \in Threads, NEW p \in Futures, NEW c \in Futures, Continue(th, p, c)
  PROVE  UserEffect(th)
<1>1. PICK add : add = Call("AddContinuation", p, c, NoFuture, FALSE) OBVIOUS
<1>2. PICK wait : wait = Call("AwaitFinished", c, NoFuture, NoFuture, FALSE) OBVIOUS
<1>3. /\ add \in Calls /\ add.call = "AddContinuation" /\ add.fut = p /\ add.arg = c
      /\ wait \in Calls /\ wait.call = "AwaitFinished"
  <2>1. /\ "AddContinuation" \in CallNames /\ c \in Args("AddContinuation")
        /\ "AwaitFinished" \in CallNames /\ NoFuture \in Args("AwaitFinished")
    BY DEF CallNames, Args
  <2>2. add \in Calls /\ wait \in Calls BY <1>1, <1>2, <2>1, CallTyped
  <2> QED BY <1>1, <1>2, <2>2 DEF Call
<1>4. PICK rest \in {<<>>, <<wait>>} : ContinueWith(th, p, c, rest)
  BY <1>2, Zenon DEF Continue, Then, Catch, Share, SharedThen, AddFuture, WhenChanged, FutureWait,
     UserCall
<1>5. Kind[c] # "completion"
  BY DEF Continue, Then, Catch, Share, SharedThen, AddFuture, WhenChanged, FutureWait
<1>6. PICK calls : calls = <<add>> \o rest OBVIOUS
<1>7. calls \in Seq(Calls) /\ \A i \in DOMAIN calls : calls[i] \in {add, wait}
  <2>1. CASE rest = <<>> BY <1>3, <1>6, <2>1
  <2>2. CASE rest = <<wait>> BY <1>3, <1>6, <2>2
  <2> QED BY <2>1, <2>2
<1>8. /\ ~IsMade(c) /\ links' = links \cup {<<p, c>>} /\ Begin(th, calls)
      /\ UNCHANGED <<state, continuation, m_link, m_error, queued, runs>>
  BY <1>1, <1>4, <1>6, Zenon DEF ContinueWith, UserCall, futureVars
<1>9. Target[c] = NoFuture /\ NoFuture \notin Futures BY <1>5, FutureAssumption
<1>10. \A k \in Futures : Kind[k] = "completion" /\ Linked(k) => Target[c] # Target[k]
  BY <1>9, FutureAssumption
<1>11. Steady /\ AllWords' /\ LinksOK' /\ \A g \in Futures : ~NewTarget(g)
  <2>1. AllWords /\ LinksOK BY DEF GraphInv
  <2>2. p # NoFuture BY <1>9
  <2>3. /\ Steady /\ AllWords' /\ LinksOK'
        /\ \A g \in Futures : NewTarget(g) => g = Target[c]
    BY <1>5, <1>8, <1>9, <1>10, <2>1, <2>2, LinkGraph
  <2> QED BY <1>9, <2>3
<1>12. Fits(add)' /\ Fits(wait)' BY <1>3, <1>8 DEF Fits
<1>13. \A g \in Futures : ~Unrun(add, g) /\ ~Sets(add, g) /\ ~Unrun(wait, g) /\ ~Sets(wait, g)
  BY <1>3 DEF Unrun, Sets
<1> QED BY <1>7, <1>8, <1>11, <1>12, <1>13 DEF UserEffect

(* PostFuture makes a future without a parent. *)
LEMMA PostFutureGraph ==
  ASSUME GraphInv, NEW th \in Threads, NEW c \in Futures, PostFuture(th, c)
  PROVE  UserEffect(th)
<1>1. PICK post : post = Call("TryPost", c, NoFuture, NoFuture, TRUE) OBVIOUS
<1>2. post \in Calls /\ post.call = "TryPost" /\ post.fut = c /\ post.arg = NoFuture
  <2>1. "TryPost" \in CallNames /\ NoFuture \in Args("TryPost") BY DEF CallNames, Args
  <2>2. post \in Calls BY <1>1, <2>1, CallTyped
  <2> QED BY <1>1, <2>2 DEF Call
<1>3. <<post>> \in Seq(Calls) /\ \A i \in DOMAIN <<post>> : <<post>>[i] = post BY <1>2, Places
<1>4. /\ ~IsMade(c) /\ CallbackOnValue(c) /\ links' = links \cup {<<NoFuture, c>>}
      /\ Begin(th, <<post>>) /\ UNCHANGED <<state, continuation, m_link, m_error, queued, runs>>
  BY <1>1, Zenon DEF PostFuture, futureVars
<1>5. Target[c] = NoFuture /\ NoFuture \notin Futures /\ Kind[c] # "completion"
  BY <1>4, FutureAssumption DEF CallbackOnValue
<1>6. \A k \in Futures : Kind[k] = "completion" /\ Linked(k) => Target[c] # Target[k]
  BY <1>5, FutureAssumption
<1>7. Steady /\ AllWords' /\ LinksOK' /\ \A g \in Futures : ~NewTarget(g)
  <2>1. AllWords /\ LinksOK BY DEF GraphInv
  <2>2. /\ Steady /\ AllWords' /\ LinksOK'
        /\ \A g \in Futures : NewTarget(g) => g = Target[c]
    BY <1>4, <1>5, <1>6, <2>1, LinkGraph
  <2> QED BY <1>5, <2>2
<1>8. Fits(post)' BY <1>2, <1>4 DEF Fits
<1>9. \A g \in Futures : ~Unrun(post, g) /\ ~Sets(post, g) BY <1>2 DEF Unrun, Sets
<1> QED BY <1>3, <1>4, <1>7, <1>8, <1>9 DEF UserEffect

(* A promise may end in any way. *)
LEMMA PromiseEnds ==
  ASSUME LinksOK, NEW f \in Futures, IsPromise(f)
  PROVE  /\ Ends(f, "Succeeded", NoError)
         /\ \A e : e # NoError => Ends(f, "Failed", e)
<1>1. \A p \in Futures : ~Forwards(p, f)
  <2>1. ASSUME NEW k \in Futures, Target[k] = f, Linked(k) PROVE FALSE
    <3>1. Kind[k] = "completion" BY <2>1, FutureAssumption
    <3>2. HasTaskPost(Target[k]) BY <2>1, <3>1 DEF LinksOK, CompletionsOK, CompletionOK
    <3>3. HasTaskPost(f) BY <2>1, <3>2
    <3> QED BY <3>3 DEF HasTaskPost, IsPromise
  <2>2. ~Linked(f) BY DEF LinksOK, LinkKinds
  <2> QED BY <2>1, <2>2 DEF Forwards, Linked
<1> QED BY <1>1 DEF Ends, MayStart, IsPromise

(* A promise is set, or not at all, by a call that leaves the rest alone. *)
LEMMA PromiseGraph ==
  ASSUME GraphInv, NEW th \in Threads, NEW f \in Futures, IsPromise(f),
         NEW calls \in Seq(Calls), Begin(th, calls),
         UNCHANGED <<links, queued, runs, state, m_error, m_link, continuation>>,
         \A i \in DOMAIN calls :
           /\ calls[i].fut = f
           /\ \/ calls[i].call \in {"TryStartSetValue", "TrySetSuccess"}
              \/ calls[i].call = "TrySetError" /\ calls[i].arg # NoError
  PROVE  UserEffect(th)
<1>1. AllWords /\ LinksOK BY DEF GraphInv
<1>2. Steady BY SameLinks DEF Steady
<1>3. LinksOK' BY <1>1, <1>2, LinksStable
<1>4. \A g \in Futures : ~NewTarget(g) BY SameLinks
<1>5. AllWords' BY <1>1, <1>2, <1>4, ResultStable, ListStable DEF AllWords
<1>6. ~HasTaskPost(f) BY DEF HasTaskPost, IsPromise
<1>7. ASSUME NEW i \in DOMAIN calls
      PROVE  /\ Fits(calls[i])'
             /\ \A g \in Futures : ~Unrun(calls[i], g) /\ (HasTaskPost(g) => ~Sets(calls[i], g))
  <2>1. PICK x : x = calls[i] OBVIOUS
  <2>2. /\ x.fut = f
        /\ \/ x.call \in {"TryStartSetValue", "TrySetSuccess"}
           \/ x.call = "TrySetError" /\ x.arg # NoError
    BY <2>1
  <2>3. Ends(f, "Succeeded", NoError)' BY <1>1, <1>2, <1>4, PromiseEnds, EndsStable DEF Done
  <2>4. ASSUME NEW e, e # NoError PROVE Ends(f, "Failed", e)'
    BY <1>1, <1>2, <1>4, <2>4, PromiseEnds, EndsStable DEF Done
  <2>5. x.arg # NoError => Ends(f, "Failed", x.arg)' BY <2>4
  <2>6. Fits(x)' BY <2>2, <2>3, <2>5 DEF Fits
  <2>7. \A g \in Futures : ~Unrun(x, g) /\ (HasTaskPost(g) => ~Sets(x, g))
    BY <1>6, <2>2 DEF Unrun, Sets
  <2> QED BY <2>1, <2>6, <2>7
<1> QED BY <1>2, <1>3, <1>4, <1>5, <1>7 DEF UserEffect

(* A promise is set or dropped. *)
LEMMA SetGraph ==
  ASSUME GraphInv, NEW th \in Threads, NEW f \in Futures, Set(th, f) \/ DropPromise(th, f)
  PROVE  UserEffect(th)
<1>1. IsPromise(f)
  BY DEF Set, PromiseTrySetValue, PromiseTrySetError, PromiseTryCancel, GroupTrySetValue,
     GroupTrySetError, Cancel, Abandon, DropPromise, IsPromise
<1>2. PICK set : set = Call("TrySetSuccess", f, NoFuture, NoFuture, FALSE) OBVIOUS
<1>3. PICK start : start = Call("TryStartSetValue", f, NoFuture, NoFuture, FALSE) OBVIOUS
<1>4. PICK error : error = Call("TrySetError", f, f, NoFuture, FALSE) OBVIOUS
<1>5. PICK cancel : cancel = Call("TrySetError", f, Canceled, NoFuture, FALSE) OBVIOUS
<1>6. PICK drop : drop = Call("TrySetError", f, Canceled, NoFuture, TRUE) OBVIOUS
<1>7. \A x \in {set, start, error, cancel, drop} :
        /\ x \in Calls /\ x.fut = f
        /\ \/ x.call \in {"TryStartSetValue", "TrySetSuccess"}
           \/ x.call = "TrySetError" /\ x.arg # NoError
  <2>1. /\ "TrySetSuccess" \in CallNames /\ NoFuture \in Args("TrySetSuccess")
        /\ "TryStartSetValue" \in CallNames /\ NoFuture \in Args("TryStartSetValue")
        /\ "TrySetError" \in CallNames /\ f \in Args("TrySetError") /\ Canceled \in Args("TrySetError")
    BY DEF CallNames, Args, Errors
  <2>2. set \in Calls /\ start \in Calls /\ error \in Calls /\ cancel \in Calls /\ drop \in Calls
    BY <1>2, <1>3, <1>4, <1>5, <1>6, <2>1, CallTyped
  <2>3. f # NoError /\ Canceled # NoError BY FutureAssumption
  <2>4. \A x \in {set, start, error, cancel, drop} :
          /\ x.fut = f
          /\ \/ x.call \in {"TryStartSetValue", "TrySetSuccess"}
             \/ x.call = "TrySetError" /\ x.arg # NoError
    BY <1>2, <1>3, <1>4, <1>5, <1>6, <2>3 DEF Call
  <2> QED BY <2>2, <2>4
<1>8. SetValue(f, NoFuture, FALSE) \in {<<set>>, <<start>>}
  BY <1>2, <1>3, Zenon DEF SetValue
<1>9. PICK calls \in {<<>>, <<set>>, <<start>>, <<error>>, <<cancel>>, <<drop>>} :
        /\ Begin(th, calls)
        /\ UNCHANGED <<links, queued, runs, state, m_error, m_link, continuation>>
  <2>1. CASE Set(th, f)
    <3>1. \E calls \in {SetValue(f, NoFuture, FALSE), <<error>>, <<cancel>>} : SetPromise(th, f, calls)
      BY <1>4, <1>5, <2>1, Zenon DEF Set, PromiseTrySetValue, PromiseTrySetError, PromiseTryCancel,
         GroupTrySetValue, GroupTrySetError, Cancel, Abandon, UserCall
    <3> QED BY <1>8, <3>1, Zenon DEF SetPromise, futureVars, userVars
  <2>2. CASE DropPromise(th, f)
    BY <1>6, <2>2, Zenon DEF DropPromise, futureVars
  <2> QED BY <2>1, <2>2
<1>10. /\ calls \in Seq(Calls)
       /\ \A i \in DOMAIN calls : calls[i] \in {set, start, error, cancel, drop}
  <2>1. \A x \in {set, start, error, cancel, drop} :
          <<x>> \in Seq(Calls) /\ \A i \in DOMAIN <<x>> : <<x>>[i] = x
    BY <1>7, Places
  <2>2. <<>> \in Seq(Calls) /\ DOMAIN <<>> = {} OBVIOUS
  <2>3. CASE calls = <<>> BY <2>2, <2>3
  <2>4. CASE \E x \in {set, start, error, cancel, drop} : calls = <<x>> BY <2>1, <2>4
  <2> QED BY <1>9, <2>3, <2>4
<1> QED BY <1>1, <1>7, <1>9, <1>10, PromiseGraph

(* The pending calls after a thread outside of the library has made some. *)
LEMMA BeginRest ==
  ASSUME TypeOK, FollowsArrows, SinglePosts, AllFit, AllRest, Steady, NEW th \in Threads,
         NEW calls \in Seq(Calls), Begin(th, calls), \A g \in Futures : ~NewTarget(g),
         UNCHANGED <<state, runs>>, queued' \subseteq queued,
         \A i \in DOMAIN calls : /\ Fits(calls[i])'
                                 /\ \A g \in Futures : Unrun(calls[i], g) => g \in queued
                                 /\ \A g \in Futures : HasTaskPost(g) /\ Sets(calls[i], g) =>
                                      state[g] # "Pending" /\ ~ToRun(g)'
  PROVE  AllFit' /\ AllRest'
<1>1. todo'[th] = calls /\ \A u \in Threads : u # th => todo'[u] = todo[u]
  BY DEF Begin, TypeOK
<1>2. ASSUME NEW u \in Threads, NEW i \in DOMAIN todo'[u] PROVE Fits(todo[u][i])'
  <2>1. CASE u = th
    <3>1. PICK x : x = todo'[u][i] OBVIOUS
    <3>2. i \in DOMAIN calls /\ x = calls[i] BY <1>1, <1>2, <2>1, <3>1
    <3>3. Fits(x)' BY <3>2
    <3> QED BY <3>1, <3>3 DEF Fits
  <2>2. CASE u # th
    <3>1. todo'[u] = todo[u] BY <1>1, <2>2
    <3>2. PICK x : x = todo[u][i] OBVIOUS
    <3>3. x \in Calls /\ Fits(x)
      <4>1. todo[u] \in Seq(Calls) /\ i \in DOMAIN todo[u] BY <1>2, <3>1 DEF TypeOK
      <4> QED BY <3>2, <4>1, ElementOfSeq DEF AllFit
    <3>4. ~NewTarget(x.fut) BY <3>3, CallFields
    <3>5. Fits(x)' BY <3>3, <3>4, FitsStable
    <3> QED BY <3>1, <3>2, <3>5 DEF Fits
  <2> QED BY <2>1, <2>2
<1>3. AllFit' BY <1>2 DEF AllFit
<1>4. ASSUME NEW f \in Futures PROVE RestOK(f)'
  <2>1. RestOK(f) BY DEF AllRest
  <2>2. ToRun(f)' => ToRun(f)
    <3>1. ASSUME NEW u \in Threads, NEW i \in DOMAIN todo'[u], Unrun(todo'[u][i], f) PROVE ToRun(f)
      <4>1. CASE u = th BY <1>1, <3>1, <4>1 DEF ToRun
      <4>2. CASE u # th BY <1>1, <3>1, <4>2 DEF ToRun
      <4> QED BY <4>1, <4>2
    <3>2. f \in queued' => ToRun(f) BY DEF ToRun
    <3> QED BY <3>1, <3>2 DEF ToRun
  <2>3. ToRun(f)' => runs'[f] = 0 BY <2>1, <2>2 DEF RestOK
  <2>4. ASSUME HasTaskPost(f), state'[f] = "Pending" \/ ToRun(f)',
               NEW u \in Threads, NEW i \in DOMAIN todo'[u], Sets(todo'[u][i], f)
        PROVE  FALSE
    <3>1. NoSetter(f) BY <2>1, <2>2, <2>4 DEF RestOK
    <3>2. CASE u = th BY <1>1, <2>4, <3>2
    <3>3. CASE u # th BY <1>1, <2>4, <3>1, <3>3 DEF NoSetter
    <3> QED BY <3>2, <3>3
  <2>5. HasTaskPost(f) /\ (state'[f] = "Pending" \/ ToRun(f)') => NoSetter(f)'
    BY <2>4 DEF NoSetter
  <2> QED BY <2>3, <2>5 DEF RestOK, HasTaskPost
<1>5. AllRest' BY <1>4 DEF AllRest
<1> QED BY <1>3, <1>5

(* What a thread outside of the library does keeps the graph right. *)
LEMMA UserStepGraph ==
  ASSUME IInv, GraphInv, SinglePosts, FollowsArrows, NEW th \in Threads, UserStep(th)
  PROVE  GraphInv' /\ Steady /\ UNCHANGED state
<1>1. PICK f \in Futures : \/ \E c \in Futures : Continue(th, f, c)
                           \/ WhenAll(th, f) \/ WhenAny(th, f)
                           \/ PostFuture(th, f) \/ Set(th, f) \/ DropPromise(th, f)
  BY Zenon DEF UserStep
<1>2. ~WhenAll(th, f) /\ ~WhenAny(th, f) BY DEF SinglePosts, IsMultiPost, WhenAll, WhenAny
<1>3. UserEffect(th) BY <1>1, <1>2, ContinueGraph, PostFutureGraph, SetGraph
<1>4. PICK calls \in Seq(Calls) :
        /\ Begin(th, calls) /\ UNCHANGED <<state, queued, runs>>
        /\ Steady /\ AllWords' /\ LinksOK' /\ \A g \in Futures : ~NewTarget(g)
        /\ \A i \in DOMAIN calls :
             /\ Fits(calls[i])'
             /\ \A g \in Futures : ~Unrun(calls[i], g) /\ (HasTaskPost(g) => ~Sets(calls[i], g))
  BY <1>3 DEF UserEffect
<1>5. TypeOK /\ AllFit /\ AllRest /\ queued' \subseteq queued BY <1>4 DEF IInv, GraphInv
<1>6. AllFit' /\ AllRest' BY <1>4, <1>5, BeginRest
<1> QED BY <1>4, <1>6 DEF GraphInv

(* An executor runs or cancels a callback that it kept, and that nobody    *)
(* else can run.                                                           *)
LEMMA RunQueuedGraph ==
  ASSUME IInv, RunInv, GraphInv, SinglePosts, FollowsArrows, NEW th \in Threads,
         NEW f \in Futures, RunQueued(th, f)
  PROVE  GraphInv' /\ Steady /\ UNCHANGED state
<1>1. PICK invoke : invoke = Call("Invoke", f, NoFuture, NoFuture, FALSE) OBVIOUS
<1>2. PICK cancel : cancel = Call("TrySetError", f, Canceled, NoFuture, FALSE) OBVIOUS
<1>3. /\ invoke \in Calls /\ invoke.call = "Invoke" /\ invoke.fut = f
      /\ cancel \in Calls /\ cancel.call = "TrySetError" /\ cancel.fut = f /\ cancel.arg = Canceled
  <2>1. /\ "Invoke" \in CallNames /\ NoFuture \in Args("Invoke")
        /\ "TrySetError" \in CallNames /\ Canceled \in Args("TrySetError")
    BY DEF CallNames, Args, Errors
  <2>2. invoke \in Calls /\ cancel \in Calls BY <1>1, <1>2, <2>1, CallTyped
  <2> QED BY <1>1, <1>2, <2>2 DEF Call
<1>4. /\ f \in queued /\ queued' = queued \ {f} /\ (Begin(th, <<invoke>>) \/ Begin(th, <<cancel>>))
      /\ UNCHANGED <<state, continuation, m_link, m_error, links, runs>>
  BY <1>1, <1>2, Zenon DEF RunQueued, UserCall, futureVars
<1>5. TypeOK /\ AllFit /\ AllRest /\ AllWords /\ LinksOK BY DEF IInv, GraphInv
<1>6. Steady BY <1>4, SameLinks DEF Steady
<1>7. \A g \in Futures : ~NewTarget(g) BY <1>4, SameLinks
<1>8. LinksOK' BY <1>4, <1>5, <1>6, LinksStable
<1>9. AllWords'
  <2>1. \A g \in Futures : g \in queued' => g \in queued BY <1>4
  <2> QED BY <1>4, <1>5, <1>6, <1>7, <2>1, ResultStable, ListStable DEF AllWords
<1>10. HasTaskPost(f) /\ state[f] # "Pending" BY <1>4, <1>5 DEF AllWords, ResultOK
<1>11. ToRun(f) BY <1>4 DEF ToRun
<1>12. Fits(invoke)' BY <1>3, <1>4, <1>10 DEF Fits
<1>13. Fits(cancel)'
  <2>1. Ends(f, "Failed", Canceled) /\ "Failed" \in Done BY <1>10, <1>11, CancelEnds DEF Done
  <2>2. Ends(f, "Failed", Canceled)' BY <1>6, <1>7, <2>1, EndsStable
  <2> QED BY <1>3, <2>2 DEF Fits
<1>14. queued' \subseteq queued BY <1>4
<1>15. CASE Begin(th, <<invoke>>)
  <2>1. <<invoke>> \in Seq(Calls) /\ \A i \in DOMAIN <<invoke>> : <<invoke>>[i] = invoke
    BY <1>3, Places
  <2>2. /\ \A g \in Futures : Unrun(invoke, g) => g \in queued
        /\ \A g \in Futures : ~Sets(invoke, g)
    BY <1>3, <1>4 DEF Unrun, Sets
  <2>3. AllFit' /\ AllRest'
    BY <1>4, <1>5, <1>6, <1>7, <1>12, <1>14, <1>15, <2>1, <2>2, BeginRest
  <2> QED BY <1>4, <1>6, <1>8, <1>9, <2>3 DEF GraphInv
<1>16. CASE Begin(th, <<cancel>>)
  <2>1. <<cancel>> \in Seq(Calls) /\ \A i \in DOMAIN <<cancel>> : <<cancel>>[i] = cancel
    BY <1>3, Places
  <2>2. \A g \in Futures : ~Unrun(cancel, g) /\ (Sets(cancel, g) => g = f)
    BY <1>3 DEF Unrun, Sets
  <2>3. ~ToRun(f)'
    <3>1. NoDriver(f) BY <1>4 DEF RunInv, OneDriver, SinglePosts, DrivenOnce
    <3>2. todo'[th] = <<cancel>> /\ \A u \in Threads : u # th => todo'[u] = todo[u]
      BY <1>5, <1>16 DEF Begin, TypeOK
    <3>3. \A x : Unrun(x, f) => Drives(x, f) BY DEF Unrun, Drives
    <3>4. ASSUME NEW u \in Threads, NEW i \in DOMAIN todo'[u] PROVE ~Unrun(todo'[u][i], f)
      <4>1. CASE u = th BY <2>1, <2>2, <3>2, <3>4, <4>1
      <4>2. CASE u # th BY <3>1, <3>2, <3>3, <3>4, <4>2 DEF NoDriver
      <4> QED BY <4>1, <4>2
    <3>5. f \notin queued' BY <1>4
    <3> QED BY <3>4, <3>5 DEF ToRun
  <2>4. \A g \in Futures : /\ (Unrun(cancel, g) => g \in queued)
                           /\ (HasTaskPost(g) /\ Sets(cancel, g) => state[g] # "Pending" /\ ~ToRun(g)')
    BY <1>10, <2>2, <2>3
  <2>5. AllFit' /\ AllRest'
    BY <1>4, <1>5, <1>6, <1>7, <1>13, <1>14, <1>16, <2>1, <2>4, BeginRest
  <2> QED BY <1>4, <1>6, <1>8, <1>9, <2>5 DEF GraphInv
<1> QED BY <1>4, <1>15, <1>16

(* A step keeps the graph right. *)
LEMMA StepGraphInv ==
  ASSUME IInv, RunInv, GraphInv, SinglePosts, Next
  PROVE  GraphInv' /\ Steady
<1>1. FollowsArrows BY NextSafe DEF SafeStep
<1>2. RunInv' BY StepRunInv
<1>3. CASE \E th \in Threads : CallStep(th)
  <2>1. PICK th \in Threads : CallStep(th) BY <1>3
  <2>2. AllFit' /\ AllRest' BY <1>1, <1>2, <2>1, CallStepRest
  <2>3. PICK op : GraphEffect(op) BY <2>1, CallStepGraph DEF GraphCall
  <2> QED BY <2>2, <2>3 DEF GraphInv, GraphEffect
<1>4. CASE \E th \in Users : UserStep(th)
  <2>1. PICK th \in Threads : UserStep(th) BY <1>4 DEF Threads
  <2> QED BY <1>1, <2>1, UserStepGraph
<1>5. CASE \E th \in Executors, f \in Futures : RunQueued(th, f)
  <2>1. PICK th \in Threads, f \in Futures : RunQueued(th, f) BY <1>5 DEF Threads
  <2> QED BY <1>1, <2>1, RunQueuedGraph
<1> QED BY <1>3, <1>4, <1>5, Zenon DEF Next

(* At first the tokens are linked to their sources. *)
LEMMA InitGraphInv == Init => GraphInv
<1> SUFFICES ASSUME Init PROVE GraphInv OBVIOUS
<1>1. /\ \A f \in Futures : state[f] = "Pending" /\ m_link[f] = NoFuture /\ m_error[f] = NoError
                            /\ f \notin queued
      /\ \A th \in Threads : DOMAIN todo[th] = {}
      /\ links = TokenLinks
  BY DEF Init
<1>2. \A q, d : <<q, d>> \in TokenLinks =>
        d \in Futures /\ Kind[d] = "token" /\ q = Inputs[d][1] /\ q \in Futures
  <2>1. \A d \in Futures : Kind[d] = "token" => Inputs[d][1] \in Futures
    <3>1. ASSUME NEW d \in Futures, Kind[d] = "token" PROVE Inputs[d][1] \in Futures
      <4>1. Inputs[d] \in Seq(Futures) /\ Inputs[d] # <<>> BY <3>1, FutureAssumption
      <4> QED BY <4>1
    <3> QED BY <3>1
  <2> QED BY <2>1 DEF TokenLinks
<1>3. AllFit BY <1>1 DEF AllFit
<1>4. AllRest BY <1>1 DEF AllRest, RestOK, ToRun, NoSetter
<1>5. LinksOK
  <2>1. LinkedOnce BY <1>1, <1>2 DEF LinkedOnce
  <2>2. LinkKinds BY <1>1, <1>2, FutureAssumption DEF LinkKinds, Linked, IsPromise
  <2>3. CompletionsOK BY <1>1, <1>2 DEF CompletionsOK, Linked
  <2> QED BY <2>1, <2>2, <2>3 DEF LinksOK
<1>6. ASSUME NEW f \in Futures PROVE ResultOK(f) /\ ListOK(f)
  <2>1. ResultOK(f) BY <1>1 DEF ResultOK, Done
  <2>2. m_link[f] \notin Futures BY <1>1, FutureAssumption
  <2>3. continuation[f] \in Futures => <<f, continuation[f]>> \in links
    <3>1. CASE \E c \in Futures : <<f, c>> \in TokenLinks
      <4>1. continuation[f] = CHOOSE c \in Futures : <<f, c>> \in TokenLinks BY <3>1 DEF Init
      <4>2. <<f, continuation[f]>> \in TokenLinks BY <3>1, <4>1
      <4> QED BY <1>1, <4>2
    <3>2. CASE ~\E c \in Futures : <<f, c>> \in TokenLinks
      <4>1. continuation[f] = NoFuture BY <3>2 DEF Init
      <4> QED BY <4>1, FutureAssumption
    <3> QED BY <3>1, <3>2
  <2> QED BY <2>1, <2>2, <2>3 DEF ListOK
<1>7. AllWords BY <1>6 DEF AllWords
<1> QED BY <1>3, <1>4, <1>5, <1>7 DEF GraphInv

(* The three inductive invariants together, over a step. *)
LEMMA StepAll ==
  ASSUME SinglePosts
  PROVE  IInv /\ RunInv /\ GraphInv /\ [Next]_vars => IInv' /\ RunInv' /\ GraphInv'
<1> SUFFICES ASSUME IInv, RunInv, GraphInv, [Next]_vars PROVE IInv' /\ RunInv' /\ GraphInv' OBVIOUS
<1>1. CASE Next BY <1>1, StepIInv, StepRunInv, StepGraphInv
<1>2. CASE UNCHANGED vars
  <2>1. IInv' BY StepIInv
  <2>2. UNCHANGED <<state, continuation, m_link, m_error, queued, links, runs, todo>>
    BY <1>2 DEF vars, futureVars, userVars
  <2>3. RunInv'
    BY <2>2 DEF RunInv, OneDriver, DrivenOnce, UniqueDriver, NoDriver, RanOnce, Drives, Runs,
                IsMultiPost
  <2>4. Steady /\ \A f \in Futures : ~NewTarget(f) BY <2>2, SameLinks DEF Steady
  <2>5. AllWords' BY <2>2, <2>4, ResultStable, ListStable DEF GraphInv, AllWords
  <2>6. LinksOK' BY <2>2, <2>4, LinksStable DEF GraphInv
  <2>7. AllRest'
    <3>1. \A f \in Futures : (ToRun(f)' <=> ToRun(f)) /\ (NoSetter(f)' <=> NoSetter(f))
      BY <2>2 DEF ToRun, NoSetter, Unrun, Sets
    <3> QED BY <2>2, <3>1 DEF GraphInv, AllRest, RestOK, HasTaskPost
  <2>8. AllFit'
    <3>1. ASSUME NEW th \in Threads, NEW i \in DOMAIN todo'[th] PROVE Fits(todo[th][i])'
      <4>1. PICK x : x = todo[th][i] OBVIOUS
      <4>2. todo[th] \in Seq(Calls) /\ i \in DOMAIN todo[th] BY <2>2, <3>1 DEF IInv, TypeOK
      <4>3. x \in Calls /\ Fits(x) BY <4>1, <4>2, ElementOfSeq DEF GraphInv, AllFit
      <4>4. ~NewTarget(x.fut) BY <2>4, <4>3, CallFields
      <4>5. FollowsArrows BY <2>2 DEF FollowsArrows
      <4>6. Fits(x)' BY <2>4, <4>3, <4>4, <4>5, FitsStable
      <4> QED BY <2>2, <4>1, <4>6 DEF Fits
    <3> QED BY <3>1 DEF AllFit
  <2> QED BY <2>1, <2>3, <2>5, <2>6, <2>7, <2>8 DEF GraphInv
<1> QED BY <1>1, <1>2

(* What the invariant says of results. *)
LEMMA GraphResults == GraphInv => FailedHasError /\ ErrorForwarded
<1> SUFFICES ASSUME GraphInv PROVE FailedHasError /\ ErrorForwarded OBVIOUS
<1>1. \A f \in Futures : ResultOK(f) BY DEF GraphInv, AllWords
<1>2. FailedHasError BY <1>1 DEF FailedHasError, ResultOK, Ends, Done
<1>3. ErrorForwarded
  <2> SUFFICES ASSUME NEW p \in Futures, NEW c \in Futures, Forwards(p, c),
                      {state[p], state[c]} \subseteq Done
               PROVE  state[c] = state[p] /\ m_error[c] = m_error[p]
    BY DEF ErrorForwarded
  <2>1. state[p] \in Done /\ state[c] \in Done OBVIOUS
  <2>2. Ends(c, state[c], m_error[c]) BY <1>1, <2>1 DEF ResultOK
  <2>3. state[p] = state[c] /\ (state[c] = "Failed" => m_error[c] = m_error[p])
    BY <2>2 DEF Ends
  <2>4. state[c] = "Succeeded" => m_error[c] = NoError /\ m_error[p] = NoError
    BY <1>1, <2>3 DEF ResultOK
  <2> QED BY <2>1, <2>3, <2>4 DEF Done
<1> QED BY <1>2, <1>3

(* Where no WhenAll or WhenAny takes errors away, a failed future has an   *)
(* error: SetFailed is reached only with m_error set, whoever fails the    *)
(* future and whatever calls of other threads come in between.             *)
THEOREM FailuresHaveErrors ==
  ASSUME SinglePosts
  PROVE  Spec => []FailedHasError
BY InitIInv, InitRunInv, InitGraphInv, StepAll, GraphResults, PTL DEF Spec

(* Nor does a future that forwards its parent, or that awaits one its      *)
(* callback returned, ever end otherwise than it, or with another error:   *)
(* no cancellation, drop or second setter gets in between.                 *)
THEOREM ErrorsForwarded ==
  ASSUME SinglePosts
  PROVE  Spec => []ErrorForwarded
BY InitIInv, InitRunInv, InitGraphInv, StepAll, GraphResults, PTL DEF Spec

(* A step moves one future, or makes one link. *)
Moves == /\ links' = links
         /\ \/ UNCHANGED state
            \/ \E f \in Futures : \A g \in Futures : g # f => state'[g] = state[g]
Links == /\ UNCHANGED state
         /\ \E c \in Futures, p \in Futures \cup {NoFuture} :
              /\ p \in ParentsOf(c) \cup {NoFuture} /\ ~IsMade(c)
              /\ links' = links \cup {<<p, c>>}

(* The calls of FutureImpl. *)
LEMMA CallMoves ==
  ASSUME TypeOK, NEW th \in Threads, CallStep(th)
  PROVE  Moves \/ Links
<1>1. PICK f \in Futures : f = Head(todo[th]).fut
  <2>1. PICK name : NextCall(th, name)
    BY Zenon DEF CallStep, AddContinuation, TryPostInternal, TaskPost, TrySetPosted, Invoke,
       RunTask, StartAwaiting, TryStartSetValue, TrySetSuccess, TrySetError, SetFailed,
       SetFinished, AwaitFinished
  <2> QED BY <2>1, HeadTyped, CallFields
<1>2. ASSUME links' = links, UNCHANGED state \/ \E x : state' = [state EXCEPT ![f] = x]
      PROVE  Moves
  BY <1>2 DEF Moves, TypeOK
<1>3. CASE RunTask(th)
  <2>1. UNCHANGED state BY <1>3 DEF RunTask, futureVars
  <2>2. UNCHANGED links \/ UserCallback(th, f) BY <1>1, <1>3, Zenon DEF RunTask
  <2>3. ASSUME UserCallback(th, f) PROVE UNCHANGED links \/ Links
    <3>1. \/ UNCHANGED links
          \/ \E k, p \in Futures : /\ ~IsMade(k) /\ CanAdd(p, k) /\ links' = links \cup {<<p, k>>}
      BY <2>3, Zenon DEF UserCallback
    <3> QED BY <2>1, <3>1 DEF Links, CanAdd
  <2> QED BY <1>2, <2>1, <2>2, <2>3
<1>4. CASE AddContinuation(th) \/ TryPostInternal(th) \/ TaskPost(th) \/ TrySetPosted(th)
           \/ Invoke(th) \/ StartAwaiting(th) \/ TryStartSetValue(th)
  <2>1. UNCHANGED links
    BY <1>4, Zenon DEF AddContinuation, Attach, Store, TryPostInternal, MultiPost, TaskPost,
       TrySetPosted, Invoke, StartAwaiting, TryStartSetValue, UnexpectedState, userVars
  <2>2. UNCHANGED state \/ \E x : state' = [state EXCEPT ![f] = x]
    BY <1>1, <1>4, Zenon DEF AddContinuation, Attach, Store, TryPostInternal, MultiPost, TaskPost,
       TrySetPosted, Invoke, StartAwaiting, TryStartSetValue, UnexpectedState, futureVars
  <2> QED BY <1>2, <2>1, <2>2
<1>5. CASE TrySetSuccess(th) \/ TrySetError(th) \/ SetFailed(th)
           \/ SetFinished(th) \/ AwaitFinished(th)
  <2>1. UNCHANGED links
    BY <1>5, Zenon DEF TrySetSuccess, TrySetError, SetFailed, SetFinished, AwaitFinished,
       UnexpectedState, userVars
  <2>2. UNCHANGED state \/ \E x : state' = [state EXCEPT ![f] = x]
    BY <1>1, <1>5, Zenon DEF TrySetSuccess, TrySetError, SetFailed, SetFinished, AwaitFinished,
       Complete, UnexpectedState, futureVars
  <2> QED BY <1>2, <2>1, <2>2
<1> QED BY <1>3, <1>4, <1>5, Zenon DEF CallStep

(* Every step. *)
LEMMA StepMoves ==
  ASSUME TypeOK, SinglePosts, Next
  PROVE  Moves \/ Links
<1>1. CASE \E th \in Threads : CallStep(th) BY <1>1, CallMoves
<1>2. CASE \E th \in Users : UserStep(th)
  <2>1. PICK th \in Users, f \in Futures :
          \/ \E c \in Futures : Continue(th, f, c)
          \/ WhenAll(th, f) \/ WhenAny(th, f)
          \/ PostFuture(th, f) \/ Set(th, f) \/ DropPromise(th, f)
    BY <1>2, Zenon DEF UserStep
  <2>2. ~WhenAll(th, f) /\ ~WhenAny(th, f) BY DEF SinglePosts, IsMultiPost, WhenAll, WhenAny
  <2>3. ASSUME NEW c \in Futures, Continue(th, f, c) PROVE Links
    <3>1. \E calls : ContinueWith(th, f, c, calls)
      BY <2>3, Zenon DEF Continue, Then, Catch, Share, SharedThen, AddFuture, WhenChanged, FutureWait
    <3>2. ~IsMade(c) /\ CanAdd(f, c) /\ links' = links \cup {<<f, c>>} /\ UNCHANGED state
      BY <3>1 DEF ContinueWith, futureVars
    <3> QED BY <3>2 DEF Links, CanAdd
  <2>4. CASE PostFuture(th, f) BY <2>4 DEF PostFuture, Links, futureVars
  <2>5. CASE Set(th, f)
    <3>1. \E calls : SetPromise(th, f, calls)
      BY <2>5, Zenon DEF Set, PromiseTrySetValue, PromiseTrySetError, PromiseTryCancel,
         GroupTrySetValue, GroupTrySetError, Cancel, Abandon
    <3> QED BY <3>1 DEF SetPromise, Moves, futureVars, userVars
  <2>6. CASE DropPromise(th, f) BY <2>6 DEF DropPromise, Moves, futureVars
  <2> QED BY <2>1, <2>2, <2>3, <2>4, <2>5, <2>6
<1>3. CASE \E th \in Executors, f \in Futures : RunQueued(th, f)
  BY <1>3 DEF RunQueued, Moves, futureVars
<1> QED BY <1>1, <1>2, <1>3, Zenon DEF Next

(* What the graph sees of a future. *)
Status(f) == IF state[f] = "Pending" THEN "waiting"
             ELSE IF state[f] \in Done THEN state[f] ELSE "active"

(* The status of one future changes. *)
LEMMA StatusChange ==
  ASSUME NEW f \in Futures, NEW v, Status(f)' = v,
         \A g \in Futures : g # f => state'[g] = state[g]
  PROVE  [g \in Futures |-> Status(g)'] = [[g \in Futures |-> Status(g)] EXCEPT ![f] = v]
<1>1. \A g \in Futures : Status(g)' = IF g = f THEN v ELSE Status(g) BY DEF Status
<1> QED BY <1>1

(* A future that may start is ready in the graph. *)
LEMMA MayStartReady ==
  ASSUME SinglePosts, NEW f \in Futures, links' = links, MayStart(f)',
         \A g \in Futures : g # f => state'[g] = state[g]
  PROVE  Graph!Ready(f)
<1>1. Kind[f] # "whenAll" BY DEF SinglePosts, IsMultiPost
<1>2. CASE IsPromise(f) BY <1>2 DEF Graph!Ready, Graph!Sources, IsPromise
<1>3. CASE <<NoFuture, f>> \in links BY <1>3 DEF Graph!Ready, Graph!Posted
<1>4. ASSUME NEW p \in Futures, p # f, <<p, f>> \in links, state'[p] \in Done
      PROVE  Graph!Ready(f)
  <2>1. state[p] \in Done /\ state[p] # "Pending" BY <1>4 DEF Done
  <2> QED BY <1>1, <1>4, <2>1 DEF Graph!Ready, Graph!Parents, Graph!Final, Done
<1> QED BY <1>2, <1>3, <1>4 DEF MayStart, IsPromise

(* A result that the futures it depends on allow is one in the graph. *)
LEMMA EndsResult ==
  ASSUME SinglePosts, LinksOK, NEW f \in Futures, links' = links, NEW r \in Done, NEW e,
         Ends(f, r, e)', \A g \in Futures : g # f => state'[g] = state[g]
  PROVE  Graph!Result(f, r)
<1>1. Kind[f] \notin {"whenAll", "whenAny"} BY DEF SinglePosts, IsMultiPost
<1>2. MayStart(f)' BY DEF Ends
<1>3. ASSUME NEW p \in Futures, <<p, f>> \in links PROVE p # f
  <2>1. ~IsPromise(f) /\ \A q \in Futures \cup {NoFuture} : <<q, f>> \in links => q = p
    BY <1>3 DEF LinksOK, LinkedOnce, LinkKinds, Linked
  <2>2. <<NoFuture, f>> \notin links BY <2>1, FutureAssumption
  <2> QED BY <1>2, <2>1, <2>2 DEF MayStart, IsPromise
<1>4. CASE Kind[f] \in {"shared", "copy", "wait", "completion"}
  <2>1. ~IsPromise(f) /\ <<NoFuture, f>> \notin links
    BY <1>4 DEF IsPromise, LinksOK, LinkKinds, CallbackOnValue
  <2>2. PICK p \in Futures : <<p, f>> \in links BY <1>2, <2>1 DEF MayStart, IsPromise
  <2>3. state'[p] = r BY <1>4, <2>2 DEF Ends, Forwards
  <2>4. state[p] = r /\ r # "Pending" BY <1>3, <2>2, <2>3 DEF Done
  <2>5. p \in Graph!Parents(f) BY <2>2 DEF Graph!Parents
  <2> QED BY <1>4, <2>4, <2>5 DEF Graph!Result
<1>5. CASE Kind[f] = "then"
  <2>1. ASSUME NEW p \in Futures, <<p, f>> \in links, r = "Succeeded" PROVE state[p] = r
    BY <1>3, <1>5, <2>1 DEF Ends
  <2>2. r = "Succeeded" => \A p \in Graph!Parents(f) : state[p] = r BY <2>1 DEF Graph!Parents
  <2>3. Graph!Parents(f) \subseteq Futures BY DEF Graph!Parents
  <2> QED BY <1>5, <2>2, <2>3 DEF Graph!Result, Done
<1>6. CASE Kind[f] = "token"
  <2>1. r = "Succeeded" BY <1>6 DEF Ends
  <2> QED BY <1>6, <2>1 DEF Graph!Result
<1>7. CASE Kind[f] \notin {"shared", "copy", "wait", "completion", "whenAny", "whenAll", "then", "token"}
  BY <1>7 DEF Graph!Result
<1> QED BY <1>1, <1>4, <1>5, <1>6, <1>7

(* A step that moves one future activates or finishes it. *)
LEMMA MovesImplement ==
  ASSUME IInv, GraphInv, GraphInv', SinglePosts, Steady, FollowsArrows, links' = links,
         NEW f \in Futures, \A g \in Futures : g # f => state'[g] = state[g]
  PROVE  Graph!Next \/ UNCHANGED Graph!vars
<1>1. LinksOK /\ ResultOK(f)' BY DEF GraphInv, AllWords
<1>2. CASE Status(f)' = Status(f)
  <2>1. \A g \in Futures : Status(g)' = Status(g) BY <1>2 DEF Status
  <2>2. [g \in Futures |-> Status(g)'] = [g \in Futures |-> Status(g)] BY <2>1
  <2> QED BY <2>2 DEF Status, Graph!vars
<1>3. CASE Status(f)' # Status(f)
  <2>1. state'[f] # state[f] /\ state[f] \notin Done BY <1>3 DEF Status, Steady
  <2>2. state'[f] # "Pending" BY <2>1 DEF FollowsArrows, SinglePosts, Arrows
  <2>3. MayStart(f)' BY <1>1, <2>2 DEF ResultOK
  <2>4. Graph!Ready(f) BY <2>3, MayStartReady
  <2>5. CASE state'[f] \in Done
    <3>1. PICK r \in Done : r = state'[f] BY <2>5
    <3>2. PICK e : e = m_error'[f] OBVIOUS
    <3>3. Ends(f, r, e)' BY <1>1, <2>5, <3>1, <3>2 DEF ResultOK, Ends
    <3>4. Graph!Result(f, r) BY <1>1, <3>3, EndsResult
    <3>5. Status(f)' = r /\ Status(f) \in {"waiting", "active"}
      BY <2>1, <2>2, <3>1 DEF Status
    <3>6. [g \in Futures |-> Status(g)'] = [[g \in Futures |-> Status(g)] EXCEPT ![f] = r]
      BY <3>5, StatusChange
    <3>7. Graph!Finish(f, r) BY <2>4, <3>4, <3>5, <3>6 DEF Graph!Finish, Status
    <3>8. r \in Graph!Final BY DEF Graph!Final, Done
    <3> QED BY <3>7, <3>8 DEF Graph!Next
  <2>6. CASE state'[f] \notin Done
    <3>1. Status(f)' = "active" /\ Status(f) = "waiting" BY <1>3, <2>1, <2>2, <2>6 DEF Status
    <3>2. [g \in Futures |-> Status(g)'] = [[g \in Futures |-> Status(g)] EXCEPT ![f] = "active"]
      BY <3>1, StatusChange
    <3>3. Graph!Activate(f) BY <2>4, <3>1, <3>2 DEF Graph!Activate, Status
    <3> QED BY <3>3 DEF Graph!Next
  <2> QED BY <2>5, <2>6
<1> QED BY <1>2, <1>3

(* A step that makes a link links a future that waits. *)
LEMMA LinksImplement ==
  ASSUME GraphInv, SinglePosts, Links
  PROVE  Graph!Next
<1>1. PICK c \in Futures, p \in Futures \cup {NoFuture} :
        /\ p \in ParentsOf(c) \cup {NoFuture} /\ ~IsMade(c)
        /\ links' = links \cup {<<p, c>>}
  BY DEF Links
<1>2. state[c] = "Pending"
  <2>1. ResultOK(c) BY DEF GraphInv, AllWords
  <2> QED BY <1>1, <2>1 DEF ResultOK, MayStart, IsMade
<1>3. c \notin Graph!Sources \cup Graph!Posted /\ Graph!Parents(c) = {}
  BY <1>1 DEF IsMade, IsPromise, Graph!Sources, Graph!Posted, Graph!Parents
<1>4. links' = links \cup ({p} \X {c}) BY <1>1
<1>5. {p} \in Graph!ParentSets(c)
  BY <1>1 DEF Graph!ParentSets, Graph!InputsOf, ParentsOf, SinglePosts, IsMultiPost
<1>6. Graph!Link(c, {p}) BY <1>2, <1>3, <1>4 DEF Graph!Link, Links
<1> QED BY <1>5, <1>6 DEF Graph!Next

(* Graphs without WhenAll and WhenAny implement FutureGraph: a future      *)
(* starts only after the future it continues, ends with a result that its  *)
(* parent allows, and never changes it, however the word of the future,    *)
(* its list of continuations and the executors are interleaved.            *)
THEOREM FuturesImplementGraph ==
  ASSUME SinglePosts
  PROVE  Spec => ImplementsFutureGraph
<1>1. Init => Graph!Init BY DEF Init, Graph!Init, TokenLinks
<1>2. IInv /\ RunInv /\ GraphInv /\ [Next]_vars => [Graph!Next]_(Graph!vars)
  <2> SUFFICES ASSUME IInv, RunInv, GraphInv, [Next]_vars PROVE Graph!Next \/ UNCHANGED Graph!vars
    OBVIOUS
  <2>1. CASE UNCHANGED vars BY <2>1 DEF vars, futureVars, userVars, Graph!vars
  <2>2. CASE Next
    <3>1. GraphInv' /\ Steady BY <2>2, StepGraphInv
    <3>2. FollowsArrows /\ TypeOK BY <2>2, NextSafe DEF SafeStep, IInv
    <3>3. Moves \/ Links BY <2>2, <3>2, StepMoves
    <3>4. CASE Links BY <3>4, LinksImplement
    <3>5. CASE Moves
      <4>1. CASE UNCHANGED state BY <3>5, <4>1 DEF Moves, Graph!vars
      <4>2. CASE \E f \in Futures : \A g \in Futures : g # f => state'[g] = state[g]
        BY <3>1, <3>2, <3>5, <4>2, MovesImplement DEF Moves
      <4> QED BY <3>5, <4>1, <4>2 DEF Moves
    <3> QED BY <3>3, <3>4, <3>5
  <2> QED BY <2>1, <2>2
<1> QED BY <1>1, <1>2, InitIInv, InitRunInv, InitGraphInv, StepAll, PTL
        DEF Spec, ImplementsFutureGraph, Graph!Spec
-----------------------------------------------------------------------------
(* Chain, for any links. *)
ChainOf(link, head) ==
  LET reach[n \in 0..Cardinality(Futures)] ==
        IF n = 0 THEN {head}
        ELSE reach[n - 1] \cup {link[f] : f \in reach[n - 1] \cap Futures}
  IN reach[Cardinality(Futures)]

(* A set of numbers has a least one. *)
LEMMA LeastNumber ==
  ASSUME NEW T \in SUBSET Nat, T # {}
  PROVE  \E x \in T : \A y \in T : x <= y
<1> DEFINE R == {ss \in Nat \X Nat : ss[1] < ss[2]}
<1>1. IsWellFoundedOn(R, Nat) BY NatLessThanWellFounded DEF OpToRel
<1>2. \A x, y \in Nat : x < y => <<x, y>> \in R
  <2> SUFFICES ASSUME NEW x \in Nat, NEW y \in Nat, x < y PROVE <<x, y>> \in R OBVIOUS
  <2>1. <<x, y>>[1] < <<x, y>>[2] OBVIOUS
  <2>2. <<x, y>> \in Nat \X Nat OBVIOUS
  <2> QED BY <2>1, <2>2
<1> HIDE DEF R
<1>3. PICK x \in T : \A y \in T : ~(<<y, x>> \in R) BY <1>1, WFMin
<1>4. \A y \in T : ~(y < x)
  <2> TAKE y \in T
  <2>1. y \in Nat /\ x \in Nat OBVIOUS
  <2> QED BY <1>2, <1>3, <2>1
<1>5. \A y \in T : y \in Nat /\ x \in Nat OBVIOUS
<1> QED BY <1>4, <1>5

(* A set of numbers that holds 0, and each number whose predecessor it     *)
(* holds, up to N, holds them all.                                         *)
LEMMA CountUp ==
  ASSUME NEW N \in Nat, NEW T, 0 \in T, \A n \in 1..N : n - 1 \in T => n \in T
  PROVE  \A n \in 0..N : n \in T
<1> SUFFICES ASSUME NEW m \in 0..N, m \notin T PROVE FALSE OBVIOUS
<1> DEFINE U == {n \in 0..N : n \notin T}
<1>1. U \in SUBSET Nat /\ U # {} OBVIOUS
<1>2. PICK n \in U : \A k \in U : n <= k BY <1>1, LeastNumber
<1>3. n \in 0..N /\ n \notin T /\ n # 0 BY <1>2
<1>4. n \in 1..N /\ n - 1 \in 0..N /\ ~(n <= n - 1) BY <1>3
<1>5. n - 1 \in T BY <1>2, <1>4
<1> QED BY <1>3, <1>4, <1>5

(* How Chain counts the links behind head, up to N of them. *)
CountsTo(r, N, link, head) ==
  r = [n \in 0..N |-> IF n = 0 THEN {head}
                      ELSE r[n - 1] \cup {link[f] : f \in r[n - 1] \cap Futures}]

(* It can count. *)
LEMMA ReachExists ==
  ASSUME NEW N \in Nat, NEW link, NEW head
  PROVE  \E r : CountsTo(r, N, link, head)
<1> DEFINE Follow(S) == S \cup {link[f] : f \in S \cap Futures}
           Upto(r, n) == r = [k \in 0..n |-> IF k = 0 THEN {head} ELSE Follow(r[k - 1])]
           T == {n \in 0..N : \E r : Upto(r, n)}
<1> HIDE DEF Follow
<1>1. 0 \in T
  <2>1. PICK r : r = [k \in 0..0 |-> {head}] OBVIOUS
  <2>2. \A k \in 0..0 : k = 0 OBVIOUS
  <2>3. Upto(r, 0) BY <2>1, <2>2
  <2> QED BY <2>3
<1>2. ASSUME NEW n \in 1..N, n - 1 \in T PROVE n \in T
  <2>1. PICK r : Upto(r, n - 1) BY <1>2
  <2>2. PICK s : s = [k \in 0..n |-> IF k = n THEN Follow(r[n - 1]) ELSE r[k]] OBVIOUS
  <2>3. \A k \in 0..n : k # 0 => k - 1 \in 0..n /\ k - 1 # n OBVIOUS
  <2>4. \A k \in 0..n : k # n => k \in 0..(n - 1) OBVIOUS
  <2>5. \A k \in 0..n : k # 0 => s[k - 1] = r[k - 1] BY <2>2, <2>3
  <2>6. \A k \in 0..n : k # n => r[k] = IF k = 0 THEN {head} ELSE Follow(r[k - 1])
    BY <2>1, <2>4
  <2>7. \A k \in 0..n : s[k] = IF k = 0 THEN {head} ELSE Follow(s[k - 1])
    <3> SUFFICES ASSUME NEW k \in 0..n
                 PROVE  s[k] = IF k = 0 THEN {head} ELSE Follow(s[k - 1])
      OBVIOUS
    <3>1. CASE k = n
      <4>1. s[k] = Follow(r[n - 1]) /\ k # 0 BY <2>2, <3>1
      <4>2. s[k - 1] = r[k - 1] BY <2>5, <4>1
      <4>3. s[k] = Follow(s[k - 1]) BY <3>1, <4>1, <4>2, Zenon
      <4> QED BY <4>1, <4>3
    <3>2. CASE k # n
      <4>1. s[k] = r[k] BY <2>2, <3>2
      <4>2. CASE k = 0 BY <2>6, <3>2, <4>1, <4>2
      <4>3. CASE k # 0
        <5>1. s[k] = Follow(r[k - 1]) BY <2>6, <3>2, <4>1, <4>3
        <5>2. s[k - 1] = r[k - 1] BY <2>5, <4>3
        <5>3. s[k] = Follow(s[k - 1]) BY <5>1, <5>2, Zenon
        <5> QED BY <4>3, <5>3
      <4> QED BY <4>2, <4>3
    <3> QED BY <3>1, <3>2
  <2>8. Upto(s, n) BY <2>2, <2>7
  <2> QED BY <2>8
<1>3. N \in T
  <2> HIDE DEF T
  <2>1. \A n \in 0..N : n \in T BY <1>1, <1>2, CountUp
  <2> QED BY <2>1
<1>4. PICK r : Upto(r, N) BY <1>3
<1>5. CountsTo(r, N, link, head) BY <1>4, Zenon DEF Follow, CountsTo
<1> QED BY <1>5

(* The futures of a set, and those behind them. *)
Behind(link, S) == S \cup {link[f] : f \in S \cap Futures}

(* What a list reaches after each link, up to the chain. *)
Reaches(reach, N, link, head) ==
  /\ reach[0] = {head}
  /\ \A n \in 1..N : reach[n] = Behind(link, reach[n - 1])
  /\ ChainOf(link, head) = reach[N]

(* A chain is what is reached after as many links as there are futures. *)
LEMMA ChainReach ==
  ASSUME NEW N \in Nat, N = Cardinality(Futures), NEW link, NEW head
  PROVE  \E reach : Reaches(reach, N, link, head)
<1>1. PICK reach : reach = CHOOSE r : CountsTo(r, N, link, head) OBVIOUS
<1>2. CountsTo(reach, N, link, head) BY <1>1, ReachExists, Zenon
<1>3. ChainOf(link, head) = reach[N] BY <1>1, Zenon DEF ChainOf, CountsTo
<1>4. reach = [n \in 0..N |->
                 IF n = 0 THEN {head}
                 ELSE reach[n - 1] \cup {link[f] : f \in reach[n - 1] \cap Futures}]
  BY <1>2, Zenon DEF CountsTo
<1>5. \A n \in 1..N : n \in 0..N /\ n # 0 OBVIOUS
<1>6. \A n \in 1..N : reach[n] = Behind(link, reach[n - 1]) BY <1>4, <1>5 DEF Behind
<1>7. reach[0] = {head} BY <1>4
<1> QED BY <1>3, <1>6, <1>7 DEF Reaches

(* No link leads out of the set. *)
Closed(link, S) == \A f \in S \cap Futures : link[f] \in S

(* One more link: a set that is not closed has one future more, and only   *)
(* the last one may lead out of it.                                        *)
Counted(link, S, n) ==
  \/ Closed(link, S)
  \/ /\ S \in SUBSET Futures /\ IsFiniteSet(S) /\ Cardinality(S) = n + 1
     /\ \E e \in S : \A f \in S : link[f] \notin S => f = e

(* So it is with the next link.                                            *)
LEMMA CountedNext ==
  ASSUME NEW n \in Nat, NEW link, NEW S, Counted(link, S, n)
  PROVE  Counted(link, Behind(link, S), n + 1)
<1> DEFINE R == Behind(link, S)
<1>1. CASE Closed(link, S)
  <2>1. R = S BY <1>1 DEF Closed, Behind
  <2> QED BY <1>1, <2>1 DEF Counted
<1>2. CASE ~Closed(link, S)
  <2>1. /\ S \in SUBSET Futures /\ IsFiniteSet(S) /\ Cardinality(S) = n + 1
        /\ \E e \in S : \A f \in S : link[f] \notin S => f = e
    BY <1>2 DEF Counted
  <2>2. PICK e \in S : \A f \in S : link[f] \notin S => f = e BY <2>1
  <2>3. link[e] \notin S BY <1>2, <2>2 DEF Closed
  <2>4. PICK x : x = link[e] OBVIOUS
  <2>5. R = S \cup {x} BY <2>1, <2>2, <2>3, <2>4 DEF Behind
  <2>6. \A f \in S : link[f] \in R BY <2>1 DEF Behind
  <2> HIDE DEF R
  <2>7. CASE x \notin Futures
    <3>1. Closed(link, R) BY <2>5, <2>6, <2>7 DEF Closed
    <3> QED BY <3>1 DEF Counted, R
  <2>8. CASE x \in Futures
    <3>1. R \in SUBSET Futures BY <2>1, <2>5, <2>8
    <3>2. IsFiniteSet(R) /\ Cardinality(R) = n + 1 + 1
      BY <2>1, <2>3, <2>4, <2>5, FS_AddElement
    <3>3. x \in R /\ \A f \in R : link[f] \notin R => f = x BY <2>5, <2>6
    <3>4. Counted(link, R, n + 1) BY <3>1, <3>2, <3>3 DEF Counted
    <3> QED BY <3>4 DEF R
  <2> QED BY <2>7, <2>8
<1> QED BY <1>1, <1>2

(* A chain holds its head, is closed, and is part of every such set.       *)
LEMMA ChainLeast ==
  ASSUME IsFiniteSet(Futures), NEW link, NEW head
  PROVE  /\ head \in ChainOf(link, head)
         /\ Closed(link, ChainOf(link, head))
         /\ \A S : head \in S /\ Closed(link, S) => ChainOf(link, head) \subseteq S
<1>1. PICK N \in Nat : N = Cardinality(Futures) BY FS_CardinalityType
<1>7. PICK reach : Reaches(reach, N, link, head) BY <1>1, ChainReach
<1>2. /\ reach[0] = {head}
      /\ \A n \in 1..N : reach[n] = Behind(link, reach[n - 1])
      /\ ChainOf(link, head) = reach[N]
  BY <1>7 DEF Reaches
<1>3. N \in 0..N BY <1>1
<1>4. head \in reach[N]
  <2> DEFINE T == {n \in 0..N : head \in reach[n]}
  <2>1. 0 \in T BY <1>1, <1>2
  <2>2. \A n \in 1..N : n - 1 \in T => n \in T BY <1>2 DEF Behind
  <2>3. \A n \in 0..N : n \in T
    <3> HIDE DEF T
    <3> QED BY <1>1, <2>1, <2>2, CountUp
  <2> QED BY <1>3, <2>3
<1>5. ASSUME NEW S, head \in S, Closed(link, S) PROVE reach[N] \subseteq S
  <2> DEFINE T == {n \in 0..N : reach[n] \subseteq S}
  <2>1. 0 \in T BY <1>1, <1>2, <1>5
  <2>2. ASSUME NEW n \in 1..N, n - 1 \in T PROVE n \in T
    <3>1. reach[n] = Behind(link, reach[n - 1]) BY <1>2
    <3>2. reach[n - 1] \subseteq S BY <2>2
    <3>3. reach[n] \subseteq S BY <1>5, <3>1, <3>2 DEF Closed, Behind
    <3> QED BY <3>3
  <2>3. \A n \in 0..N : n \in T
    <3> HIDE DEF T
    <3> QED BY <1>1, <2>1, <2>2, CountUp
  <2> QED BY <1>3, <2>3
<1>6. Closed(link, reach[N])
  <2> DEFINE T == {n \in 0..N : Counted(link, reach[n], n)}
  <2>1. 0 \in T
    <3>0. IsFiniteSet({head}) /\ Cardinality({head}) = 1 BY FS_Singleton, Zenon
    <3>1. IsFiniteSet({head}) /\ Cardinality({head}) = 0 + 1 BY <3>0
    <3>2. CASE head \in Futures
      <4>1. {head} \in SUBSET Futures BY <3>2
      <4>2. head \in {head} /\ \A f \in {head} : link[f] \notin {head} => f = head OBVIOUS
      <4> QED BY <1>1, <1>2, <3>1, <4>1, <4>2 DEF Counted
    <3>3. CASE head \notin Futures
      <4>1. Closed(link, {head}) BY <3>3 DEF Closed
      <4> QED BY <1>1, <1>2, <4>1 DEF Counted
    <3> QED BY <3>2, <3>3
  <2>2. ASSUME NEW n \in 1..N, n - 1 \in T PROVE n \in T
    <3>1. reach[n] = Behind(link, reach[n - 1]) BY <1>2
    <3>2. n - 1 \in Nat /\ (n - 1) + 1 = n OBVIOUS
    <3>3. Counted(link, reach[n - 1], n - 1) BY <2>2
    <3>4. PICK R, k : R = reach[n - 1] /\ k = n - 1 OBVIOUS
    <3>5. k \in Nat /\ k + 1 = n /\ Counted(link, R, k) BY <3>2, <3>3, <3>4
    <3>6. Counted(link, Behind(link, R), k + 1) BY <3>5, CountedNext
    <3>7. reach[n] = Behind(link, R) BY <3>1, <3>4, Zenon
    <3>8. Counted(link, reach[n], n) BY <3>5, <3>6, <3>7, Zenon
    <3> QED BY <3>8
  <2>3. \A n \in 0..N : n \in T
    <3> HIDE DEF T
    <3> QED BY <1>1, <2>1, <2>2, CountUp
  <2>4. Counted(link, reach[N], N) BY <1>3, <2>3
  <2>5. ~(reach[N] \in SUBSET Futures /\ Cardinality(reach[N]) = N + 1)
    <3> SUFFICES ASSUME reach[N] \in SUBSET Futures, Cardinality(reach[N]) = N + 1 PROVE FALSE
      OBVIOUS
    <3>1. Cardinality(reach[N]) <= Cardinality(Futures) BY FS_Subset
    <3> QED BY <1>1, <3>1
  <2> QED BY <2>4, <2>5 DEF Counted
<1> QED BY <1>2, <1>4, <1>5, <1>6

(* The chain of a head: itself and the chain of its link. *)
LEMMA ChainStep ==
  ASSUME IsFiniteSet(Futures), NEW link, NEW head
  PROVE  /\ head \notin Futures => ChainOf(link, head) = {head}
         /\ head \in Futures => ChainOf(link, head) = {head} \cup ChainOf(link, link[head])
<1>1. CASE head \notin Futures
  <2>1. head \in {head} /\ Closed(link, {head}) BY <1>1 DEF Closed
  <2>2. ChainOf(link, head) \subseteq {head} /\ head \in ChainOf(link, head) BY <2>1, ChainLeast
  <2> QED BY <1>1, <2>2
<1>2. CASE head \in Futures
  <2>1. PICK next : next = link[head] OBVIOUS
  <2>2. PICK A, B : A = ChainOf(link, head) /\ B = ChainOf(link, next) OBVIOUS
  <2>3. /\ head \in A /\ Closed(link, A) /\ \A S : head \in S /\ Closed(link, S) => A \subseteq S
    BY <2>2, ChainLeast
  <2>4. /\ next \in B /\ Closed(link, B) /\ \A S : next \in S /\ Closed(link, S) => B \subseteq S
    BY <2>2, ChainLeast
  <2>5. B \subseteq A
    <3>1. next \in A BY <1>2, <2>1, <2>3 DEF Closed
    <3> QED BY <2>3, <2>4, <3>1
  <2>6. A \subseteq {head} \cup B
    <3>1. Closed(link, {head} \cup B) BY <2>1, <2>4 DEF Closed
    <3> QED BY <2>3, <3>1
  <2> QED BY <1>2, <2>1, <2>2, <2>3, <2>5, <2>6
<1> QED BY <1>1, <1>2

(* A chain stays what it is while its own links do. *)
LEMMA ChainSame ==
  ASSUME IsFiniteSet(Futures), NEW link, NEW new, NEW head,
         \A f \in ChainOf(link, head) \cap Futures : new[f] = link[f]
  PROVE  ChainOf(new, head) = ChainOf(link, head)
<1>1. PICK A, B : A = ChainOf(link, head) /\ B = ChainOf(new, head) OBVIOUS
<1>2. /\ head \in A /\ Closed(link, A) /\ \A S : head \in S /\ Closed(link, S) => A \subseteq S
  BY <1>1, ChainLeast
<1>3. /\ head \in B /\ Closed(new, B) /\ \A S : head \in S /\ Closed(new, S) => B \subseteq S
  BY <1>1, ChainLeast
<1>4. \A f \in A \cap Futures : new[f] = link[f] BY <1>1
<1>5. B \subseteq A
  <2>1. Closed(new, A) BY <1>2, <1>4 DEF Closed
  <2> QED BY <1>2, <1>3, <2>1
<1>6. A \subseteq B
  <2>1. Closed(link, B) BY <1>3, <1>4, <1>5 DEF Closed
  <2> QED BY <1>2, <1>3, <2>1
<1> QED BY <1>1, <1>5, <1>6

-----------------------------------------------------------------------------
(* What a pending call does for the continuation c of p: it adds c, or     *)
(* posts a list that c is in.                                              *)
Holds(link, op, p, c) ==
  \/ op.call = "AddContinuation" /\ op.fut = p /\ op.arg = c
  \/ op.call = "TryPost" /\ op.arg = p /\ c \in ChainOf(link, op.fut)

Parents == Futures \cup {NoFuture}
HeldBy(p, c) == \E th \in Threads : \E i \in DOMAIN todo[th] : Holds(m_link, todo[th][i], p, c)
InList(p, c) == p \in Futures /\ c \in ChainOf(m_link, continuation[p])
Waits(p, c) == <<p, c>> \in links /\ state[c] = "Pending"

(* A continuation waits in one place, and in no place when it does not     *)
(* wait.  No list runs into itself, and one that is yet to be added has    *)
(* nothing behind it.                                                      *)
HeldOnce(c) ==
  \A th, u \in Threads : \A i \in DOMAIN todo[th], j \in DOMAIN todo[u] : \A p, q \in Parents :
    Holds(m_link, todo[th][i], p, c) /\ Holds(m_link, todo[u][j], q, c) => th = u /\ i = j
ListedOnce(c) ==
  \A p, q \in Parents : InList(p, c) => ~HeldBy(q, c) /\ (InList(q, c) => p = q)
LinkEnds(c) ==
  /\ \A p \in Parents : Waits(p, c) => c \notin ChainOf(m_link, m_link[c])
  /\ \A th \in Threads : \A i \in DOMAIN todo[th] :
       todo[th][i].call = "AddContinuation" /\ todo[th][i].arg = c => m_link[c] \notin Futures
KeptOnce(c) ==
  /\ \A p \in Parents : Waits(p, c) <=> HeldBy(p, c) \/ InList(p, c)
  /\ HeldOnce(c) /\ ListedOnce(c) /\ LinkEnds(c)

(* The calls of th are these, and then those behind the first it had.      *)
Shifted(th, calls) ==
  /\ \A u \in Threads : \A i \in DOMAIN todo'[u] :
       \/ u = th /\ i \in DOMAIN calls /\ todo'[u][i] = calls[i]
       \/ \E k \in DOMAIN todo[u] :
            /\ todo'[u][i] = todo[u][k]
            /\ u = th => k # 1 /\ i = k + Len(calls) - 1 /\ k \in Nat
            /\ u # th => k = i
  /\ \A i \in DOMAIN calls : i \in DOMAIN todo'[th] /\ todo'[th][i] = calls[i]
  /\ \A u \in Threads : \A k \in DOMAIN todo[u] :
       (u = th => k # 1) => \E i \in DOMAIN todo'[u] : todo'[u][i] = todo[u][k]

(* So it is when a call returns.                                           *)
LEMMA ReturnShifts ==
  ASSUME TypeOK, NEW th \in Threads, NEW name, NextCall(th, name),
         NEW calls \in Seq(Calls), Return(th, calls)
  PROVE  Shifted(th, calls)
<1>1. todo[th] \in Seq(Calls) /\ todo[th] # <<>> /\ todo \in [Threads -> Seq(Calls)]
  BY DEF TypeOK, NextCall
<1>2. PICK s \in Seq(Calls) : s = todo[th] BY <1>1
<1>3. s # <<>> /\ Len(s) \in Nat /\ Len(s) # 0 /\ DOMAIN s = 1..Len(s)
  BY <1>1, <1>2
<1>4. todo'[th] = calls \o Tail(s) /\ \A u \in Threads : u # th => todo'[u] = todo[u]
  BY <1>1, <1>2 DEF Return
<1>5. /\ Tail(s) \in Seq(Calls) /\ Len(Tail(s)) = Len(s) - 1
      /\ \A i \in 1..(Len(s) - 1) : Tail(s)[i] = s[i + 1]
  BY <1>3
<1>6. PICK t \in Seq(Calls) : t = Tail(s) BY <1>5
<1>7. PICK r : r = calls \o t OBVIOUS
<1>8. /\ Len(calls) \in Nat /\ Len(t) \in Nat /\ DOMAIN calls = 1..Len(calls)
      /\ DOMAIN r = 1..(Len(calls) + Len(t))
      /\ \A i \in DOMAIN r : r[i] = IF i <= Len(calls) THEN calls[i] ELSE t[i - Len(calls)]
  BY <1>7
<1>9. ASSUME NEW i \in DOMAIN r
      PROVE  \/ i \in DOMAIN calls /\ r[i] = calls[i]
             \/ \E k \in DOMAIN s : r[i] = s[k] /\ k # 1 /\ i = k + Len(calls) - 1 /\ k \in Nat
  <2>1. CASE i <= Len(calls) BY <1>8, <2>1
  <2>2. CASE ~(i <= Len(calls))
    <3>1. PICK k \in Nat : k = i - Len(calls) + 1 BY <1>8, <2>2
    <3>2. k \in DOMAIN s /\ k # 1 /\ i = k + Len(calls) - 1
      BY <1>3, <1>5, <1>6, <1>8, <2>2, <3>1
    <3>3. i - Len(calls) \in 1..(Len(s) - 1) /\ (i - Len(calls)) + 1 = k
      BY <1>3, <1>5, <1>6, <1>8, <2>2, <3>1
    <3>4. r[i] = s[k] BY <1>5, <1>6, <1>8, <2>2, <3>3
    <3> QED BY <3>2, <3>4
  <2> QED BY <2>1, <2>2
<1>10. \A i \in DOMAIN calls : i \in DOMAIN r /\ r[i] = calls[i] BY <1>8
<1>11. ASSUME NEW k \in DOMAIN s, k # 1 PROVE \E i \in DOMAIN r : r[i] = s[k]
  <2>1. PICK i : i = k + Len(calls) - 1 OBVIOUS
  <2>2. k \in Nat /\ k > 1 /\ k <= Len(s) BY <1>3, <1>11
  <2>3. /\ i \in DOMAIN r /\ ~(i <= Len(calls)) /\ i - Len(calls) \in 1..(Len(s) - 1)
        /\ (i - Len(calls)) + 1 = k
    BY <1>3, <1>5, <1>6, <1>8, <2>1, <2>2
  <2>4. r[i] = s[k] BY <1>5, <1>6, <1>8, <2>3
  <2> QED BY <2>3, <2>4
<1>12. todo'[th] = r BY <1>4, <1>6, <1>7
<1>13. ASSUME NEW u \in Threads, NEW i \in DOMAIN todo'[u]
       PROVE  \/ u = th /\ i \in DOMAIN calls /\ todo'[u][i] = calls[i]
              \/ \E k \in DOMAIN todo[u] :
                   /\ todo'[u][i] = todo[u][k]
                   /\ u = th => k # 1 /\ i = k + Len(calls) - 1 /\ k \in Nat
                   /\ u # th => k = i
  <2>1. CASE u = th BY <1>2, <1>9, <1>12, <1>13, <2>1
  <2>2. CASE u # th BY <1>4, <1>13, <2>2
  <2> QED BY <2>1, <2>2
<1>14. ASSUME NEW u \in Threads, NEW k \in DOMAIN todo[u], u = th => k # 1
       PROVE  \E i \in DOMAIN todo'[u] : todo'[u][i] = todo[u][k]
  <2>1. CASE u = th BY <1>2, <1>11, <1>12, <1>14, <2>1
  <2>2. CASE u # th BY <1>4, <1>14, <2>2
  <2> QED BY <2>1, <2>2
<1> QED BY <1>10, <1>12, <1>13, <1>14 DEF Shifted

(* And when a thread calls the library.                                    *)
LEMMA BeginShifts ==
  ASSUME TypeOK, NEW th \in Threads, NEW calls \in Seq(Calls), Begin(th, calls)
  PROVE  Shifted(th, calls) /\ DOMAIN todo[th] = {}
<1>1. /\ todo[th] = <<>> /\ todo'[th] = calls
      /\ \A u \in Threads : u # th => todo'[u] = todo[u]
  BY DEF Begin, TypeOK
<1>2. DOMAIN todo[th] = {} BY <1>1
<1>3. \A u \in Threads : u = th \/ u # th OBVIOUS
<1>4. ASSUME NEW u \in Threads, NEW i \in DOMAIN todo'[u]
      PROVE  \/ u = th /\ i \in DOMAIN calls /\ todo'[u][i] = calls[i]
             \/ u # th /\ i \in DOMAIN todo[u] /\ todo'[u][i] = todo[u][i]
  BY <1>1, <1>4
<1>5. ASSUME NEW u \in Threads, NEW k \in DOMAIN todo[u]
      PROVE  k \in DOMAIN todo'[u] /\ todo'[u][k] = todo[u][k]
  BY <1>1, <1>2, <1>5
<1> QED BY <1>1, <1>2, <1>4, <1>5 DEF Shifted

(* A call that was there before, and is still there.                       *)
Stays(th, u, k) == u = th => k # 1

(* The places of a continuation after a step: the new calls, the calls     *)
(* that stay, and the lists.                                               *)
LEMMA KeptAfter ==
  ASSUME NEW th \in Threads, NEW calls \in Seq(Calls), Shifted(th, calls), NEW c \in Futures,
         \A i, j \in DOMAIN calls : \A p, q \in Parents :
           Holds(m_link', calls[i], p, c) /\ Holds(m_link', calls[j], q, c) => i = j,
         \A p, q \in Parents : InList(p, c)' =>
           /\ InList(q, c)' => p = q
           /\ \A i \in DOMAIN calls : ~Holds(m_link', calls[i], q, c)
           /\ \A u \in Threads : \A k \in DOMAIN todo[u] :
                Stays(th, u, k) => ~Holds(m_link', todo[u][k], q, c),
         \A p, q \in Parents : \A i \in DOMAIN calls : Holds(m_link', calls[i], p, c) =>
           \A u \in Threads : \A k \in DOMAIN todo[u] :
             Stays(th, u, k) => ~Holds(m_link', todo[u][k], q, c),
         \A u, v \in Threads : \A k \in DOMAIN todo[u], l \in DOMAIN todo[v] : \A p, q \in Parents :
           /\ Stays(th, u, k) /\ Stays(th, v, l)
           /\ Holds(m_link', todo[u][k], p, c) /\ Holds(m_link', todo[v][l], q, c)
           => u = v /\ k = l,
         \A p \in Parents : Waits(p, c)' <=>
           \/ InList(p, c)'
           \/ \E i \in DOMAIN calls : Holds(m_link', calls[i], p, c)
           \/ \E u \in Threads : \E k \in DOMAIN todo[u] :
                Stays(th, u, k) /\ Holds(m_link', todo[u][k], p, c),
         \A p \in Parents : Waits(p, c)' => c \notin ChainOf(m_link', m_link'[c]),
         \A i \in DOMAIN calls :
           calls[i].call = "AddContinuation" /\ calls[i].arg = c => m_link'[c] \notin Futures,
         \A u \in Threads : \A k \in DOMAIN todo[u] :
           Stays(th, u, k) /\ todo[u][k].call = "AddContinuation" /\ todo[u][k].arg = c
             => m_link'[c] \notin Futures
  PROVE  KeptOnce(c)'
<1>1. ASSUME NEW u \in Threads, NEW i \in DOMAIN todo'[u]
      PROVE  \/ u = th /\ i \in DOMAIN calls /\ todo'[u][i] = calls[i]
             \/ \E k \in DOMAIN todo[u] :
                  /\ todo'[u][i] = todo[u][k] /\ Stays(th, u, k)
                  /\ u = th => i = k + Len(calls) - 1 /\ k \in Nat
                  /\ u # th => k = i
  BY DEF Shifted, Stays
<1>2. Len(calls) \in Nat BY LenProperties
<1>3. \A p \in Parents : HeldBy(p, c)' <=>
        \/ \E i \in DOMAIN calls : Holds(m_link', calls[i], p, c)
        \/ \E u \in Threads : \E k \in DOMAIN todo[u] :
             Stays(th, u, k) /\ Holds(m_link', todo[u][k], p, c)
  <2> SUFFICES ASSUME NEW p \in Parents
               PROVE  HeldBy(p, c)' <=>
                        \/ \E i \in DOMAIN calls : Holds(m_link', calls[i], p, c)
                        \/ \E u \in Threads : \E k \in DOMAIN todo[u] :
                             Stays(th, u, k) /\ Holds(m_link', todo[u][k], p, c)
    OBVIOUS
  <2>1. ASSUME HeldBy(p, c)'
        PROVE  \/ \E i \in DOMAIN calls : Holds(m_link', calls[i], p, c)
               \/ \E u \in Threads : \E k \in DOMAIN todo[u] :
                    Stays(th, u, k) /\ Holds(m_link', todo[u][k], p, c)
    <3>1. PICK u \in Threads : \E i \in DOMAIN todo'[u] : Holds(m_link', todo'[u][i], p, c)
      BY <2>1 DEF HeldBy, Holds
    <3>2. PICK i \in DOMAIN todo'[u] : Holds(m_link', todo'[u][i], p, c) BY <3>1
    <3> QED BY <1>1, <3>2
  <2>2. ASSUME NEW i \in DOMAIN calls, Holds(m_link', calls[i], p, c) PROVE HeldBy(p, c)'
    <3>1. i \in DOMAIN todo'[th] /\ todo'[th][i] = calls[i] BY DEF Shifted
    <3>2. Holds(m_link', todo'[th][i], p, c) BY <2>2, <3>1
    <3> QED BY <3>1, <3>2 DEF HeldBy, Holds
  <2>3. ASSUME NEW u \in Threads, NEW k \in DOMAIN todo[u], Stays(th, u, k),
               Holds(m_link', todo[u][k], p, c)
        PROVE  HeldBy(p, c)'
    <3>1. PICK i \in DOMAIN todo'[u] : todo'[u][i] = todo[u][k] BY <2>3 DEF Shifted, Stays
    <3>2. Holds(m_link', todo'[u][i], p, c) BY <2>3, <3>1
    <3> QED BY <3>1, <3>2 DEF HeldBy, Holds
  <2> QED BY <2>1, <2>2, <2>3
<1>4. \A p \in Parents : Waits(p, c)' <=> HeldBy(p, c)' \/ InList(p, c)' BY <1>3
<1>5. HeldOnce(c)'
  <2> SUFFICES ASSUME NEW u \in Threads, NEW v \in Threads,
                      NEW i \in DOMAIN todo'[u], NEW j \in DOMAIN todo'[v],
                      NEW p \in Parents, NEW q \in Parents,
                      Holds(m_link', todo'[u][i], p, c), Holds(m_link', todo'[v][j], q, c)
               PROVE  u = v /\ i = j
    BY DEF HeldOnce, Holds, Parents
  <2>1. CASE u = th /\ i \in DOMAIN calls /\ todo'[u][i] = calls[i]
    <3>1. v = th /\ j \in DOMAIN calls /\ todo'[v][j] = calls[j] BY <1>1, <2>1
    <3> QED BY <2>1, <3>1
  <2>2. CASE v = th /\ j \in DOMAIN calls /\ todo'[v][j] = calls[j]
    <3>1. u = th /\ i \in DOMAIN calls /\ todo'[u][i] = calls[i] BY <1>1, <2>2
    <3> QED BY <2>2, <3>1
  <2>3. CASE /\ ~(u = th /\ i \in DOMAIN calls /\ todo'[u][i] = calls[i])
             /\ ~(v = th /\ j \in DOMAIN calls /\ todo'[v][j] = calls[j])
    <3>1. PICK k \in DOMAIN todo[u] :
            /\ todo'[u][i] = todo[u][k] /\ Stays(th, u, k)
            /\ u = th => i = k + Len(calls) - 1 /\ k \in Nat
            /\ u # th => k = i
      BY <1>1, <2>3
    <3>2. PICK l \in DOMAIN todo[v] :
            /\ todo'[v][j] = todo[v][l] /\ Stays(th, v, l)
            /\ v = th => j = l + Len(calls) - 1 /\ l \in Nat
            /\ v # th => l = j
      BY <1>1, <2>3
    <3>3. Holds(m_link', todo[u][k], p, c) /\ Holds(m_link', todo[v][l], q, c) BY <3>1, <3>2
    <3>4. u = v /\ k = l BY <3>1, <3>2, <3>3
    <3> QED BY <1>2, <3>1, <3>2, <3>4
  <2> QED BY <2>1, <2>2, <2>3
<1>6. ListedOnce(c)'
  <2>1. \A p, q \in Parents : InList(p, c)' => ~HeldBy(q, c)' /\ (InList(q, c)' => p = q)
    BY <1>3
  <2> QED BY <2>1 DEF ListedOnce, Parents
<1>7. LinkEnds(c)'
  <2>1. ASSUME NEW u \in Threads, NEW i \in DOMAIN todo'[u],
               todo'[u][i].call = "AddContinuation", todo'[u][i].arg = c
        PROVE  m_link'[c] \notin Futures
    <3>1. CASE u = th /\ i \in DOMAIN calls /\ todo'[u][i] = calls[i] BY <2>1, <3>1
    <3>2. CASE \E k \in DOMAIN todo[u] : todo'[u][i] = todo[u][k] /\ Stays(th, u, k)
      BY <2>1, <3>2
    <3> QED BY <1>1, <3>1, <3>2
  <2>2. \A p \in Parents : Waits(p, c)' => c \notin ChainOf(m_link', m_link'[c]) OBVIOUS
  <2> QED BY <2>1, <2>2 DEF LinkEnds, Parents
<1> QED BY <1>4, <1>5, <1>6, <1>7 DEF KeptOnce, Parents

(* A continuation that does not wait is in no place.                       *)
LEMMA NoPlace ==
  ASSUME NEW c \in Futures, KeptOnce(c), \A p \in Parents : ~Waits(p, c)
  PROVE  /\ \A p \in Parents : ~InList(p, c)
         /\ \A u \in Threads : \A k \in DOMAIN todo[u] : \A p \in Parents :
              ~Holds(m_link, todo[u][k], p, c)
BY DEF KeptOnce, HeldBy

(* One that stays in its place, or moves from the lists and the call that  *)
(* returns to the lists and the new calls.                                 *)
LEMMA KeptMoves ==
  ASSUME NEW th \in Threads, NEW calls \in Seq(Calls), Shifted(th, calls),
         NEW c \in Futures, KeptOnce(c),
         \A u \in Threads : \A k \in DOMAIN todo[u] : \A p \in Parents :
           Stays(th, u, k) =>
             (Holds(m_link', todo[u][k], p, c) <=> Holds(m_link, todo[u][k], p, c)),
         \A p \in Parents :
           InList(p, c)' \/ (\E i \in DOMAIN calls : Holds(m_link', calls[i], p, c)) <=>
             InList(p, c) \/ (1 \in DOMAIN todo[th] /\ Holds(m_link, todo[th][1], p, c)),
         \A i, j \in DOMAIN calls : \A p, q \in Parents :
           Holds(m_link', calls[i], p, c) /\ Holds(m_link', calls[j], q, c) => i = j,
         \A p, q \in Parents : InList(p, c)' =>
           \A i \in DOMAIN calls : ~Holds(m_link', calls[i], q, c),
         \A p, q \in Parents : InList(p, c)' /\ InList(q, c)' => p = q,
         \A p \in Parents : Waits(p, c)' <=> Waits(p, c),
         \A p \in Parents : Waits(p, c) => c \notin ChainOf(m_link', m_link'[c]),
         \A i \in DOMAIN calls :
           calls[i].call = "AddContinuation" /\ calls[i].arg = c => m_link'[c] \notin Futures,
         \A u \in Threads : \A k \in DOMAIN todo[u] :
           Stays(th, u, k) /\ todo[u][k].call = "AddContinuation" /\ todo[u][k].arg = c
             => m_link'[c] \notin Futures
  PROVE  KeptOnce(c)'
<1> DEFINE Source(p) == InList(p, c) \/ (1 \in DOMAIN todo[th] /\ Holds(m_link, todo[th][1], p, c))
           New(p) == \E i \in DOMAIN calls : Holds(m_link', calls[i], p, c)
           Old(p) == \E u \in Threads : \E k \in DOMAIN todo[u] :
                       Stays(th, u, k) /\ Holds(m_link', todo[u][k], p, c)
<1>1. ASSUME NEW p \in Parents, Source(p), NEW u \in Threads, NEW k \in DOMAIN todo[u],
             Stays(th, u, k), NEW q \in Parents
      PROVE  ~Holds(m_link', todo[u][k], q, c)
  <2> SUFFICES ASSUME Holds(m_link, todo[u][k], q, c) PROVE FALSE BY <1>1
  <2>1. HeldBy(q, c) BY DEF HeldBy
  <2>2. ~InList(p, c) BY <2>1 DEF KeptOnce, ListedOnce
  <2>3. 1 \in DOMAIN todo[th] /\ Holds(m_link, todo[th][1], p, c) BY <1>1, <2>2
  <2>4. u = th /\ k = 1 BY <2>3 DEF KeptOnce, HeldOnce
  <2> QED BY <1>1, <2>4 DEF Stays
<1>2. ASSUME NEW p \in Parents PROVE HeldBy(p, c) \/ InList(p, c) <=> Source(p) \/ Old(p)
  <2>1. HeldBy(p, c) => Source(p) \/ Old(p)
    <3> SUFFICES ASSUME NEW u \in Threads, NEW k \in DOMAIN todo[u], Holds(m_link, todo[u][k], p, c)
                 PROVE  Source(p) \/ Old(p)
      BY DEF HeldBy
    <3>1. CASE Stays(th, u, k) BY <3>1
    <3>2. CASE ~Stays(th, u, k) BY <3>2 DEF Stays
    <3> QED BY <3>1, <3>2
  <2>2. Source(p) => HeldBy(p, c) \/ InList(p, c) BY DEF HeldBy
  <2>3. Old(p) => HeldBy(p, c) BY DEF HeldBy
  <2> QED BY <2>1, <2>2, <2>3
<1>3. \A p \in Parents : Waits(p, c)' <=> InList(p, c)' \/ New(p) \/ Old(p)
  BY <1>2 DEF KeptOnce
<1>4. \A p, q \in Parents : \A i \in DOMAIN calls : Holds(m_link', calls[i], p, c) =>
        \A u \in Threads : \A k \in DOMAIN todo[u] :
          Stays(th, u, k) => ~Holds(m_link', todo[u][k], q, c)
  BY <1>1
<1>5. \A p, q \in Parents : InList(p, c)' =>
        /\ InList(q, c)' => p = q
        /\ \A i \in DOMAIN calls : ~Holds(m_link', calls[i], q, c)
        /\ \A u \in Threads : \A k \in DOMAIN todo[u] :
             Stays(th, u, k) => ~Holds(m_link', todo[u][k], q, c)
  BY <1>1
<1>6. \A u, v \in Threads : \A k \in DOMAIN todo[u], l \in DOMAIN todo[v] : \A p, q \in Parents :
        /\ Stays(th, u, k) /\ Stays(th, v, l)
        /\ Holds(m_link', todo[u][k], p, c) /\ Holds(m_link', todo[v][l], q, c)
        => u = v /\ k = l
  BY DEF KeptOnce, HeldOnce
<1>7. \A p \in Parents : Waits(p, c)' => c \notin ChainOf(m_link', m_link'[c]) OBVIOUS
<1> QED BY <1>3, <1>4, <1>5, <1>6, <1>7, KeptAfter

(* A step that touches no list, and neither returns nor makes a call that  *)
(* holds a continuation.                                                   *)
LEMMA KeptQuiet ==
  ASSUME NEW th \in Threads, NEW calls \in Seq(Calls), Shifted(th, calls),
         UNCHANGED <<m_link, continuation, links>>,
         \A p \in Parents, c \in Futures : Waits(p, c)' <=> Waits(p, c),
         1 \in DOMAIN todo[th] => todo[th][1].call \notin {"AddContinuation", "TryPost"},
         \A i \in DOMAIN calls : calls[i].call \notin {"AddContinuation", "TryPost"},
         NEW c \in Futures, KeptOnce(c)
  PROVE  KeptOnce(c)'
<1>1. \A i \in DOMAIN calls : \A p \in Parents : ~Holds(m_link', calls[i], p, c) BY DEF Holds
<1>2. 1 \in DOMAIN todo[th] => \A p \in Parents : ~Holds(m_link, todo[th][1], p, c) BY DEF Holds
<1>3. \A p \in Parents : InList(p, c)' <=> InList(p, c) BY DEF InList
<1>4. \A p, q \in Parents : InList(p, c)' /\ InList(q, c)' => p = q
  BY <1>3 DEF KeptOnce, ListedOnce
<1>5. \A p \in Parents : Waits(p, c) => c \notin ChainOf(m_link', m_link'[c])
  BY DEF KeptOnce, LinkEnds
<1>6. \A u \in Threads : \A k \in DOMAIN todo[u] :
        todo[u][k].call = "AddContinuation" /\ todo[u][k].arg = c => m_link'[c] \notin Futures
  BY DEF KeptOnce, LinkEnds
<1> HIDE DEF KeptOnce
<1> QED BY <1>1, <1>2, <1>3, <1>4, <1>5, <1>6, KeptMoves

(* A continuation is linked: one new call holds it.                        *)
LEMMA KeptEnters ==
  ASSUME IsFiniteSet(Futures), TypeOK, NEW th \in Threads, NEW calls \in Seq(Calls), Shifted(th, calls),
         NEW p \in Parents, NEW d \in Futures, ~Linked(d), state[d] = "Pending", m_link[d] \notin Futures,
         links' = links \cup {<<p, d>>}, UNCHANGED <<m_link, continuation, state>>,
         1 \in DOMAIN todo[th] => todo[th][1].call \notin {"AddContinuation", "TryPost"},
         NEW n \in DOMAIN calls,
         \/ calls[n].call = "AddContinuation" /\ calls[n].fut = p /\ calls[n].arg = d
         \/ calls[n].call = "TryPost" /\ calls[n].arg = p /\ calls[n].fut = d,
         \A i \in DOMAIN calls : i # n => calls[i].call \notin {"AddContinuation", "TryPost"},
         NEW c \in Futures, KeptOnce(c)
  PROVE  KeptOnce(c)'
<1>1. ChainOf(m_link, d) = {d, m_link[d]}
  <2>1. PICK x : x = m_link[d] OBVIOUS
  <2>2. ChainOf(m_link, d) = {d} \cup ChainOf(m_link, x) BY <2>1, ChainStep
  <2>3. ChainOf(m_link, x) = {x} BY <2>1, ChainStep
  <2> QED BY <2>1, <2>2, <2>3
<1>2. ASSUME NEW q \in Parents, NEW i \in DOMAIN calls
      PROVE  Holds(m_link', calls[i], q, c) <=> i = n /\ q = p /\ c = d
  <2>1. CASE i # n BY <2>1 DEF Holds
  <2>2. CASE i = n
    <3>1. calls[n].call = "TryPost" => (c \in ChainOf(m_link', calls[n].fut) <=> c = d)
      BY <1>1
    <3> QED BY <2>2, <3>1 DEF Holds
  <2> QED BY <2>1, <2>2
<1>3. 1 \in DOMAIN todo[th] => \A q \in Parents : ~Holds(m_link, todo[th][1], q, c) BY DEF Holds
<1>4. \A q \in Parents : InList(q, c)' <=> InList(q, c) BY DEF InList
<1>5. \A u \in Threads : \A k \in DOMAIN todo[u] :
        todo[u][k].call = "AddContinuation" /\ todo[u][k].arg = c => m_link'[c] \notin Futures
  BY DEF KeptOnce, LinkEnds
<1>6. \A u, v \in Threads : \A k \in DOMAIN todo[u], l \in DOMAIN todo[v] : \A q, r \in Parents :
        /\ Holds(m_link', todo[u][k], q, c) /\ Holds(m_link', todo[v][l], r, c)
        => u = v /\ k = l
  BY DEF KeptOnce, HeldOnce
<1>7. CASE c # d
  <2>1. \A q \in Parents : Waits(q, c)' <=> Waits(q, c) BY <1>7 DEF Waits
  <2>2. \A q, r \in Parents : InList(q, c)' /\ InList(r, c)' => q = r
    BY <1>4 DEF KeptOnce, ListedOnce
  <2>3. \A q \in Parents : Waits(q, c) => c \notin ChainOf(m_link', m_link'[c])
    BY DEF KeptOnce, LinkEnds
  <2>4. \A i \in DOMAIN calls : \A q \in Parents : ~Holds(m_link', calls[i], q, c)
    BY <1>2, <1>7
  <2>5. \A i \in DOMAIN calls : calls[i].call = "AddContinuation" => calls[i].arg # c
    BY <1>7
  <2> HIDE DEF KeptOnce
  <2> QED BY <1>3, <1>4, <1>5, <2>1, <2>2, <2>3, <2>4, <2>5, KeptMoves
<1>8. CASE c = d
  <2>1. \A q \in Parents : ~Waits(q, c) BY <1>8 DEF Waits, Linked, Parents
  <2>2. /\ \A q \in Parents : ~InList(q, c)
        /\ \A u \in Threads : \A k \in DOMAIN todo[u] : \A q \in Parents :
             ~Holds(m_link, todo[u][k], q, c)
    BY <2>1, NoPlace
  <2>3. \A q \in Parents : Waits(q, c)' <=> q = p BY <1>8, <2>1 DEF Waits
  <2>4. c \notin ChainOf(m_link', m_link'[c])
    <3>1. PICK x : x = m_link[c] OBVIOUS
    <3>2. ChainOf(m_link, x) = {x} BY <1>8, <3>1, ChainStep
    <3> QED BY <1>8, <3>1, <3>2
  <2>5. \A q \in Parents : ~InList(q, c)' BY <1>4, <2>2
  <2>6. \A u \in Threads : \A k \in DOMAIN todo[u] : \A q \in Parents :
          ~Holds(m_link', todo[u][k], q, c)
    BY <2>2
  <2>7. \A q \in Parents : (\E i \in DOMAIN calls : Holds(m_link', calls[i], q, c)) <=> q = p
    BY <1>2, <1>8
  <2>8. \A i, j \in DOMAIN calls : \A q, r \in Parents :
          Holds(m_link', calls[i], q, c) /\ Holds(m_link', calls[j], r, c) => i = j
    BY <1>2
  <2>9. m_link'[c] \notin Futures BY <1>8
  <2> HIDE DEF KeptOnce
  <2> QED BY <2>3, <2>4, <2>5, <2>6, <2>7, <2>8, <2>9, KeptAfter
<1> QED BY <1>7, <1>8

AllKept == \A c \in Futures : KeptOnce(c)

(* The chain behind a future of a chain is part of it.                     *)
LEMMA ChainTail ==
  ASSUME IsFiniteSet(Futures), NEW link, NEW head, NEW c \in Futures, c \in ChainOf(link, head)
  PROVE  ChainOf(link, link[c]) \subseteq ChainOf(link, head)
<1>1. PICK A, x : A = ChainOf(link, head) /\ x = link[c] OBVIOUS
<1>2. Closed(link, A) /\ x \in A
  <2>1. Closed(link, A) BY <1>1, ChainLeast
  <2> QED BY <1>1, <2>1 DEF Closed
<1>3. ChainOf(link, x) \subseteq A BY <1>2, ChainLeast
<1> QED BY <1>1, <1>3

(* What is behind a waiting continuation waits in the same list.           *)
LEMMA SamePlace ==
  ASSUME IsFiniteSet(Futures), TypeOK, NEW c \in Futures, KeptOnce(c), NEW p \in Parents, Waits(p, c),
         NEW x \in Futures, x \in ChainOf(m_link, m_link[c])
  PROVE  \/ p \in Futures /\ c \in ChainOf(m_link, continuation[p])
                          /\ x \in ChainOf(m_link, continuation[p])
         \/ \E u \in Threads : \E k \in DOMAIN todo[u] :
              /\ todo[u][k].call = "TryPost" /\ todo[u][k].arg = p
              /\ c \in ChainOf(m_link, todo[u][k].fut) /\ x \in ChainOf(m_link, todo[u][k].fut)
<1>1. HeldBy(p, c) \/ InList(p, c) BY DEF KeptOnce
<1>2. CASE InList(p, c) BY <1>2, ChainTail DEF InList
<1>3. CASE HeldBy(p, c)
  <2>1. PICK u \in Threads : \E k \in DOMAIN todo[u] : Holds(m_link, todo[u][k], p, c)
    BY <1>3 DEF HeldBy
  <2>2. PICK k \in DOMAIN todo[u] : Holds(m_link, todo[u][k], p, c) BY <2>1
  <2>3. CASE todo[u][k].call = "AddContinuation" /\ todo[u][k].arg = c
    <3>1. m_link[c] \notin Futures BY <2>3 DEF KeptOnce, LinkEnds
    <3>2. ChainOf(m_link, m_link[c]) = {m_link[c]} BY <3>1, ChainStep
    <3> QED BY <3>1, <3>2
  <2>4. CASE todo[u][k].call = "TryPost" /\ todo[u][k].arg = p /\ c \in ChainOf(m_link, todo[u][k].fut)
    <3>1. ChainOf(m_link, m_link[c]) \subseteq ChainOf(m_link, todo[u][k].fut) BY <2>4, ChainTail
    <3> QED BY <2>4, <3>1
  <2> QED BY <2>2, <2>3, <2>4 DEF Holds
<1> QED BY <1>1, <1>2, <1>3

(* The places of x, where x does not wait or waits in the call on top.     *)
LEMMA OnlyOnTop ==
  ASSUME NEW th \in Threads, NEW x \in Futures, KeptOnce(x),
         \/ \A p \in Parents : ~Waits(p, x)
         \/ \E p \in Parents : 1 \in DOMAIN todo[th] /\ Holds(m_link, todo[th][1], p, x)
  PROVE  /\ \A p \in Parents : ~InList(p, x)
         /\ \A u \in Threads : \A k \in DOMAIN todo[u] : \A p \in Parents :
              Stays(th, u, k) => ~Holds(m_link, todo[u][k], p, x)
<1>1. CASE \A p \in Parents : ~Waits(p, x) BY <1>1, NoPlace
<1>2. CASE \E p \in Parents : 1 \in DOMAIN todo[th] /\ Holds(m_link, todo[th][1], p, x)
  <2>1. PICK p \in Parents : 1 \in DOMAIN todo[th] /\ Holds(m_link, todo[th][1], p, x) BY <1>2
  <2>2. HeldBy(p, x) BY <2>1 DEF HeldBy
  <2>3. \A q \in Parents : ~InList(q, x) BY <2>2 DEF KeptOnce, ListedOnce
  <2>4. ASSUME NEW u \in Threads, NEW k \in DOMAIN todo[u], NEW q \in Parents, Stays(th, u, k)
        PROVE  ~Holds(m_link, todo[u][k], q, x)
    BY <2>1, <2>4 DEF KeptOnce, HeldOnce, Stays
  <2> QED BY <2>3, <2>4
<1> QED BY <1>1, <1>2

(* A step that links x to something else, where x does not wait or waits   *)
(* in the call on top, leaves the other lists and calls what they hold.    *)
LEMMA RelinkFrame ==
  ASSUME IsFiniteSet(Futures), TypeOK, AllKept, NEW th \in Threads, NEW x \in Futures,
         \A f \in Futures : f # x => m_link'[f] = m_link[f],
         \/ \A p \in Parents : ~Waits(p, x)
         \/ \E p \in Parents : 1 \in DOMAIN todo[th] /\ Holds(m_link, todo[th][1], p, x)
  PROVE  /\ \A p \in Futures : ChainOf(m_link', continuation[p]) = ChainOf(m_link, continuation[p])
         /\ \A u \in Threads : \A k \in DOMAIN todo[u] : \A p \in Parents, c \in Futures :
              Stays(th, u, k) =>
                (Holds(m_link', todo[u][k], p, c) <=> Holds(m_link, todo[u][k], p, c))
<1>1. /\ \A p \in Parents : ~InList(p, x)
      /\ \A u \in Threads : \A k \in DOMAIN todo[u] : \A p \in Parents :
           Stays(th, u, k) => ~Holds(m_link, todo[u][k], p, x)
  BY OnlyOnTop DEF AllKept
<1>2. ASSUME NEW h, x \notin ChainOf(m_link, h)
      PROVE  ChainOf(m_link', h) = ChainOf(m_link, h)
  <2>1. \A f \in ChainOf(m_link, h) \cap Futures : m_link'[f] = m_link[f] BY <1>2
  <2> QED BY <2>1, ChainSame
<1>3. ASSUME NEW p \in Futures
      PROVE  ChainOf(m_link', continuation[p]) = ChainOf(m_link, continuation[p])
  <2>1. x \notin ChainOf(m_link, continuation[p]) BY <1>1 DEF InList, Parents
  <2> QED BY <1>2, <2>1
<1>4. ASSUME NEW u \in Threads, NEW k \in DOMAIN todo[u], NEW p \in Parents, NEW c \in Futures,
             Stays(th, u, k)
      PROVE  Holds(m_link', todo[u][k], p, c) <=> Holds(m_link, todo[u][k], p, c)
  <2>1. CASE todo[u][k].call = "TryPost" /\ todo[u][k].arg = p
    <3>1. x \notin ChainOf(m_link, todo[u][k].fut) BY <1>1, <1>4, <2>1 DEF Holds
    <3>2. ChainOf(m_link', todo[u][k].fut) = ChainOf(m_link, todo[u][k].fut) BY <1>2, <3>1
    <3> QED BY <2>1, <3>2 DEF Holds
  <2>2. CASE ~(todo[u][k].call = "TryPost" /\ todo[u][k].arg = p) BY <2>2 DEF Holds
  <2> QED BY <2>1, <2>2
<1> QED BY <1>3, <1>4

(* Nor does it make a list run into itself.                                *)
LEMMA RelinkEnds ==
  ASSUME IsFiniteSet(Futures), TypeOK, AllKept, NEW th \in Threads, NEW x \in Futures,
         \A f \in Futures : f # x => m_link'[f] = m_link[f],
         \/ \A p \in Parents : ~Waits(p, x)
         \/ /\ \E p \in Parents : 1 \in DOMAIN todo[th] /\ Holds(m_link, todo[th][1], p, x)
            /\ todo[th][1].call = "TryPost" =>
                 todo[th][1].fut = x /\ x \notin ChainOf(m_link, m_link[x]),
         NEW c \in Futures, c # x, NEW p \in Parents, Waits(p, c)
  PROVE  c \notin ChainOf(m_link', m_link'[c])
<1>1. /\ \A q \in Parents : ~InList(q, x)
      /\ \A u \in Threads : \A k \in DOMAIN todo[u] : \A q \in Parents :
           Stays(th, u, k) => ~Holds(m_link, todo[u][k], q, x)
  BY OnlyOnTop DEF AllKept
<1>2. KeptOnce(c) /\ KeptOnce(x) BY DEF AllKept
<1>3. PICK y : y = m_link[c] OBVIOUS
<1>4. c \notin ChainOf(m_link, y) BY <1>2, <1>3 DEF KeptOnce, LinkEnds
<1>5. x \notin ChainOf(m_link, y)
  <2> SUFFICES ASSUME x \in ChainOf(m_link, y) PROVE FALSE OBVIOUS
  <2>1. ~(p \in Futures /\ c \in ChainOf(m_link, continuation[p])
                        /\ x \in ChainOf(m_link, continuation[p]))
    BY <1>1 DEF InList
  <2>2. PICK u \in Threads : \E k \in DOMAIN todo[u] :
          /\ todo[u][k].call = "TryPost" /\ todo[u][k].arg = p
          /\ c \in ChainOf(m_link, todo[u][k].fut) /\ x \in ChainOf(m_link, todo[u][k].fut)
    BY <1>2, <1>3, <2>1, SamePlace
  <2>3. PICK k \in DOMAIN todo[u] :
          /\ todo[u][k].call = "TryPost" /\ todo[u][k].arg = p
          /\ c \in ChainOf(m_link, todo[u][k].fut) /\ x \in ChainOf(m_link, todo[u][k].fut)
    BY <2>2
  <2>4. Holds(m_link, todo[u][k], p, x) BY <2>3 DEF Holds
  <2>5. ~Stays(th, u, k) BY <1>1, <2>4
  <2>6. u = th /\ k = 1 BY <2>5 DEF Stays
  <2>7. Waits(p, x) BY <1>2, <2>4 DEF KeptOnce, HeldBy
  <2>8. todo[th][1].fut = x /\ x \notin ChainOf(m_link, m_link[x]) BY <2>3, <2>6, <2>7
  <2>9. PICK z : z = m_link[x] OBVIOUS
  <2>10. ChainOf(m_link, x) = {x} \cup ChainOf(m_link, z) BY <2>9, ChainStep
  <2>11. c \in ChainOf(m_link, z) BY <2>3, <2>6, <2>8, <2>10
  <2>12. ChainOf(m_link, y) \subseteq ChainOf(m_link, z) BY <1>3, <2>11, ChainTail
  <2> QED BY <2>8, <2>9, <2>12
<1>6. \A f \in ChainOf(m_link, y) \cap Futures : m_link'[f] = m_link[f] BY <1>5
<1>7. ChainOf(m_link', y) = ChainOf(m_link, y) BY <1>6, ChainSame
<1> QED BY <1>3, <1>4, <1>7

(* A future that is done has no list: its continuations were posted.       *)
DoneWords == \A f \in Futures : state[f] \in Done => continuation[f] \notin Futures

(* A call that sets an error is made for a promise, for a future with a    *)
(* callback of the user, or by the future's own task.                      *)
OwnError(op) ==
  op.call = "TrySetError" => IsPromise(op.fut) \/ HasTaskPost(op.fut) \/ op.cur = op.fut
OwnErrors == \A th \in Threads : \A i \in DOMAIN todo[th] : OwnError(todo[th][i])

(* Every continuation has its place, until a crash ends the process.       *)
KeptInv == OwnErrors /\ (crashed \/ (AllKept /\ DoneWords))

(* A step of th makes these calls and keeps the places.                    *)
KeepsPlaces(th, calls) ==
  /\ Shifted(th, calls)
  /\ \A i \in DOMAIN calls : OwnError(calls[i])
  /\ crashed' \/ (AllKept' /\ DoneWords')
KeptStep(th) == \E calls \in Seq(Calls) : KeepsPlaces(th, calls)

(* Such a step keeps the invariant.                                        *)
LEMMA KeptStepInv ==
  ASSUME KeptInv, NEW th \in Threads, KeptStep(th)
  PROVE  KeptInv'
<1>1. PICK calls \in Seq(Calls) : KeepsPlaces(th, calls) BY DEF KeptStep
<1>2. ASSUME NEW u \in Threads, NEW i \in DOMAIN todo'[u] PROVE OwnError(todo'[u][i])
  BY <1>1 DEF KeepsPlaces, Shifted, KeptInv, OwnErrors
<1>3. OwnErrors' BY <1>2 DEF OwnErrors, OwnError
<1> QED BY <1>1, <1>3 DEF KeepsPlaces, KeptInv

(* What the steps start from.                                              *)
Kept == /\ IInv /\ RunInv /\ GraphInv /\ OwnErrors /\ AllKept /\ DoneWords
        /\ SinglePosts /\ IsFiniteSet(Futures)

(* Only TryPost takes a continuation that waits.                           *)
Untaken(f) == state[f] = "Pending" => ~Linked(f)

(* A step that changes the state of one future, which is not a waiting     *)
(* continuation and does not become done, and no list.                     *)
LEMMA QuietKept ==
  ASSUME Kept, NEW th \in Threads, NEW calls \in Seq(Calls), Shifted(th, calls),
         1 \in DOMAIN todo[th] => todo[th][1].call \notin {"AddContinuation", "TryPost"},
         UNCHANGED <<m_link, continuation, links>>,
         NEW f \in Futures, \A g \in Futures : g # f => state'[g] = state[g],
         \/ state'[f] = state[f]
         \/ Untaken(f) /\ state'[f] \notin Done \cup {"Pending"},
         \A i \in DOMAIN calls : /\ calls[i].call \notin {"AddContinuation", "TryPost"}
                                 /\ OwnError(calls[i])
  PROVE  KeptStep(th)
<1>1. ASSUME NEW p \in Parents, NEW c \in Futures PROVE Waits(p, c)' <=> Waits(p, c)
  BY DEF Waits, Untaken, Linked, Parents
<1>2. \A c \in Futures : KeptOnce(c)' BY <1>1, KeptQuiet DEF Kept, AllKept
<1>3. AllKept' BY <1>2 DEF AllKept
<1>4. DoneWords' BY DEF Kept, DoneWords
<1> QED BY <1>3, <1>4 DEF KeptStep, KeepsPlaces

(* A promise, or a future its own task completes, is not a waiting         *)
(* continuation, nor is one with a callback of the user that is completed. *)
LEMMA SetsUntaken ==
  ASSUME Kept, NEW th \in Threads, NEW name, NextCall(th, name), NEW f \in Futures,
         NEW op \in Calls, op = Head(todo[th]), op.fut = f, op.call = name,
         \/ name = "TrySetError"
         \/ name \in {"TryStartSetValue", "TrySetSuccess"} /\ IsPromise(f)
         \/ name = "SetFailed" /\ state[f] = "SettingResult"
         \/ state[f] # "Pending"
  PROVE  Untaken(f)
<1> SUFFICES ASSUME state[f] = "Pending", Linked(f) PROVE FALSE BY DEF Untaken
<1>1. 1 \in DOMAIN todo[th] /\ todo[th][1] = op
  BY HeadFits DEF Kept, IInv, GraphInv
<1>2. ~IsPromise(f) BY DEF Kept, GraphInv, LinksOK, LinkKinds
<1>3. name = "TrySetError" BY <1>2
<1>4. OwnError(op) BY <1>1 DEF Kept, OwnErrors
<1>5. CASE HasTaskPost(f)
  <2>1. NoSetter(f) BY <1>5 DEF Kept, GraphInv, AllRest, RestOK
  <2> QED BY <1>1, <1>3, <2>1 DEF NoSetter, Sets
<1>6. CASE op.cur = f
  <2>1. NoDriver(f) BY DEF Kept, RunInv, OneDriver, DrivenOnce, SinglePosts
  <2> QED BY <1>1, <1>3, <1>6, <2>1 DEF NoDriver, Drives
<1> QED BY <1>2, <1>3, <1>4, <1>5, <1>6 DEF OwnError

(* The call on top, which names its step.                                  *)
LEMMA TopCall ==
  ASSUME Kept, NEW th \in Threads, NEW name, NextCall(th, name)
  PROVE  \E op \in Calls : /\ op = Head(todo[th]) /\ op.call = name /\ Fits(op)
                           /\ op.fut \in Futures /\ OwnError(op)
                           /\ 1 \in DOMAIN todo[th] /\ todo[th][1] = op
<1>1. TypeOK /\ AllFit BY DEF Kept, IInv, GraphInv
<1>2. PICK op \in Calls : /\ op = Head(todo[th]) /\ op.call = name /\ Fits(op)
                          /\ 1 \in DOMAIN todo[th] /\ todo[th][1] = op
  BY <1>1, HeadFits
<1>3. op.fut \in Futures BY CallFields
<1>4. OwnError(op) BY <1>2 DEF Kept, OwnErrors
<1> QED BY <1>2, <1>3, <1>4

(* A call that is turned down.                                             *)
LEMMA UnexpectedKept ==
  ASSUME Kept, NEW th \in Threads, NEW name, NextCall(th, name),
         name \notin {"AddContinuation", "TryPost"}, NEW strict, UnexpectedState(th, strict)
  PROVE  KeptStep(th)
<1>1. PICK op \in Calls : /\ op.call = name /\ op.fut \in Futures
                          /\ 1 \in DOMAIN todo[th] /\ todo[th][1] = op
  BY TopCall
<1>2. Return(th, <<>>) /\ UNCHANGED <<state, m_link, continuation, links>>
  BY DEF UnexpectedState, futureVars, userVars
<1>3. <<>> \in Seq(Calls) /\ DOMAIN <<>> = {} OBVIOUS
<1>4. Shifted(th, <<>>) BY <1>2, <1>3, ReturnShifts DEF Kept, IInv
<1> QED BY <1>1, <1>2, <1>3, <1>4, QuietKept

(* A call that returns with one call, on a future that does not wait.      *)
LEMMA OneCallKept ==
  ASSUME Kept, NEW th \in Threads, NEW name, NextCall(th, name),
         name \notin {"AddContinuation", "TryPost"}, NEW calls \in Seq(Calls), Return(th, calls),
         UNCHANGED <<m_link, continuation, links>>,
         NEW f \in Futures, \A g \in Futures : g # f => state'[g] = state[g],
         \/ state'[f] = state[f]
         \/ Untaken(f) /\ state'[f] \notin Done \cup {"Pending"},
         \A i \in DOMAIN calls : calls[i].call \notin {"AddContinuation", "TryPost", "TrySetError"}
  PROVE  KeptStep(th)
<1>1. PICK op \in Calls : op.call = name /\ 1 \in DOMAIN todo[th] /\ todo[th][1] = op BY TopCall
<1>2. Shifted(th, calls) BY ReturnShifts DEF Kept, IInv
<1>3. \A i \in DOMAIN calls : OwnError(calls[i]) BY DEF OwnError
<1> QED BY <1>1, <1>2, <1>3, QuietKept

(* TrySetPosted, Invoke and StartAwaiting move a future that was posted.   *)
LEMMA TrySetPostedKept ==
  ASSUME Kept, NEW th \in Threads, TrySetPosted(th)
  PROVE  KeptStep(th)
<1>1. NextCall(th, "TrySetPosted") BY DEF TrySetPosted
<1>2. PICK op \in Calls : op = Head(todo[th]) /\ op.fut \in Futures BY <1>1, TopCall
<1>3. PICK f \in Futures : f = op.fut BY <1>2
<1>4. /\ state' = [state EXCEPT ![f] = IF @ = "Posting" THEN "Posted" ELSE @]
      /\ Return(th, <<>>) /\ UNCHANGED <<m_link, continuation, links>>
  BY <1>2, <1>3, Zenon DEF TrySetPosted, userVars
<1>5. state \in [Futures -> FutureState] BY DEF Kept, IInv, TypeOK
<1>6. /\ \A g \in Futures : g # f => state'[g] = state[g]
      /\ state'[f] = state[f] \/ (state[f] = "Posting" /\ state'[f] = "Posted")
  BY <1>4, <1>5
<1>7. <<>> \in Seq(Calls) /\ DOMAIN <<>> = {} OBVIOUS
<1>8. state'[f] = state[f] \/ (Untaken(f) /\ state'[f] \notin Done \cup {"Pending"})
  BY <1>6 DEF Untaken, Done
<1> QED BY <1>1, <1>4, <1>6, <1>7, <1>8, OneCallKept

(* StartAwaiting moves a future that is being invoked.                     *)
LEMMA StartAwaitingKept ==
  ASSUME Kept, NEW th \in Threads, StartAwaiting(th)
  PROVE  KeptStep(th)
<1>1. NextCall(th, "StartAwaiting") BY DEF StartAwaiting
<1>2. PICK op \in Calls : op = Head(todo[th]) /\ op.fut \in Futures BY <1>1, TopCall
<1>3. PICK f \in Futures : f = op.fut BY <1>2
<1>4. CASE UnexpectedState(th, TRUE) BY <1>1, <1>4, UnexpectedKept
<1>5. CASE /\ state[f] = "Invoking" /\ state' = [state EXCEPT ![f] = "Awaiting"]
           /\ Return(th, <<>>) /\ UNCHANGED <<m_link, continuation, links>>
  <2>1. state \in [Futures -> FutureState] BY DEF Kept, IInv, TypeOK
  <2>2. state'[f] = "Awaiting" /\ \A g \in Futures : g # f => state'[g] = state[g]
    BY <1>5, <2>1
  <2>3. <<>> \in Seq(Calls) /\ DOMAIN <<>> = {} OBVIOUS
  <2>4. Untaken(f) /\ state'[f] \notin Done \cup {"Pending"} BY <1>5, <2>2 DEF Untaken, Done
  <2> QED BY <1>1, <1>5, <2>2, <2>3, <2>4, OneCallKept
<1> QED BY <1>2, <1>3, <1>4, <1>5, Zenon DEF StartAwaiting, userVars

(* Invoke moves a future that was posted.                                  *)
LEMMA InvokeKept ==
  ASSUME Kept, NEW th \in Threads, Invoke(th)
  PROVE  KeptStep(th)
<1>1. NextCall(th, "Invoke") BY DEF Invoke
<1>2. PICK op \in Calls : op = Head(todo[th]) /\ op.fut \in Futures BY <1>1, TopCall
<1>3. PICK f \in Futures : f = op.fut BY <1>2
<1>4. CASE UnexpectedState(th, IsSynchronousCall(op)) \/ UnexpectedState(th, FALSE)
  BY <1>1, <1>4, UnexpectedKept
<1>5. PICK next : next = Call("RunTask", f, NoFuture, f, FALSE) OBVIOUS
<1>6. CASE /\ state[f] \in {"Posted", "Posting"} /\ state' = [state EXCEPT ![f] = "Invoking"]
           /\ Return(th, <<next>>) /\ UNCHANGED <<m_link, continuation, links>>
  <2>1. state \in [Futures -> FutureState] BY DEF Kept, IInv, TypeOK
  <2>2. state'[f] = "Invoking" /\ \A g \in Futures : g # f => state'[g] = state[g]
    BY <1>6, <2>1
  <2>3. next \in Calls /\ next.call = "RunTask"
    <3>1. "RunTask" \in CallNames /\ NoFuture \in Args("RunTask") BY DEF CallNames, Args
    <3>2. next \in Calls BY <1>5, <3>1, CallTyped
    <3> QED BY <1>5, <3>2 DEF Call
  <2>4. <<next>> \in Seq(Calls) /\ \A i \in DOMAIN <<next>> : <<next>>[i] = next BY <2>3, Places
  <2>5. Untaken(f) /\ state'[f] \notin Done \cup {"Pending"} BY <1>6, <2>2 DEF Untaken, Done
  <2> QED BY <1>1, <1>6, <2>2, <2>3, <2>4, <2>5, OneCallKept
<1> QED BY <1>2, <1>3, <1>4, <1>5, <1>6, Zenon DEF Invoke, userVars

(* A setter takes a future that does not wait.                             *)
LEMMA TryStartSetValueKept ==
  ASSUME Kept, NEW th \in Threads, TryStartSetValue(th)
  PROVE  KeptStep(th)
<1>1. NextCall(th, "TryStartSetValue") BY DEF TryStartSetValue
<1>2. PICK op \in Calls : op = Head(todo[th]) /\ op.fut \in Futures /\ op.call = "TryStartSetValue"
  BY <1>1, TopCall
<1>3. PICK f \in Futures : f = op.fut BY <1>2
<1>4. CASE UnexpectedState(th, op.strict) BY <1>1, <1>4, UnexpectedKept
<1>5. PICK next : next = Call("TrySetSuccess", f, NoFuture, op.cur, TRUE) OBVIOUS
<1>6. CASE /\ CanStartSetValue(op) /\ state' = [state EXCEPT ![f] = "SettingResult"]
           /\ Return(th, <<next>>) /\ UNCHANGED <<m_link, continuation, links>>
  <2>1. state \in [Futures -> FutureState] BY DEF Kept, IInv, TypeOK
  <2>2. state'[f] = "SettingResult" /\ \A g \in Futures : g # f => state'[g] = state[g]
    BY <1>6, <2>1
  <2>3. next \in Calls /\ next.call = "TrySetSuccess"
    <3>1. "TrySetSuccess" \in CallNames /\ NoFuture \in Args("TrySetSuccess")
          /\ op.cur \in Futures \cup {NoFuture}
      BY CallFields DEF CallNames, Args
    <3>2. next \in Calls BY <1>5, <3>1, CallTyped
    <3> QED BY <1>5, <3>2 DEF Call
  <2>4. <<next>> \in Seq(Calls) /\ \A i \in DOMAIN <<next>> : <<next>>[i] = next BY <2>3, Places
  <2>5. state[f] # "Pending" \/ IsPromise(f)
    <3>1. ~IsMultiPost(f) BY DEF Kept, SinglePosts
    <3> QED BY <1>3, <1>6, <3>1 DEF CanStartSetValue, HasTaskInvoke, IsVoidValue, UseParentValue
  <2>6. Untaken(f) BY <1>1, <1>2, <1>3, <2>5, SetsUntaken
  <2>7. state'[f] \notin Done \cup {"Pending"} BY <2>2 DEF Done
  <2> QED BY <1>1, <1>6, <2>2, <2>3, <2>4, <2>6, <2>7, OneCallKept
<1> QED BY <1>2, <1>3, <1>4, <1>5, <1>6, Zenon DEF TryStartSetValue, userVars

(* TrySetError starts to set the result of a future that does not wait.    *)
LEMMA TrySetErrorKept ==
  ASSUME Kept, NEW th \in Threads, TrySetError(th)
  PROVE  KeptStep(th)
<1>1. PICK name \in {"TrySetError", "MoveError"} : NextCall(th, name) BY DEF TrySetError
<1>2. PICK op \in Calls : op = Head(todo[th]) /\ op.fut \in Futures /\ op.call = name /\ Fits(op)
  BY <1>1, TopCall
<1>3. PICK f \in Futures : f = op.fut BY <1>2
<1>4. name = "TrySetError" BY <1>1, <1>2 DEF Fits
<1>5. CASE UnexpectedState(th, op.strict) BY <1>1, <1>4, <1>5, UnexpectedKept
<1>6. PICK next : next = Call("SetFailed", f, NoFuture, op.cur, TRUE) OBVIOUS
<1>7. CASE /\ state' = [state EXCEPT ![f] = "SettingResult"]
           /\ Return(th, <<next>>) /\ UNCHANGED <<m_link, continuation, links>>
  <2>1. state \in [Futures -> FutureState] BY DEF Kept, IInv, TypeOK
  <2>2. state'[f] = "SettingResult" /\ \A g \in Futures : g # f => state'[g] = state[g]
    BY <1>7, <2>1
  <2>3. next \in Calls /\ next.call = "SetFailed"
    <3>1. "SetFailed" \in CallNames /\ NoFuture \in Args("SetFailed")
          /\ op.cur \in Futures \cup {NoFuture}
      BY CallFields DEF CallNames, Args
    <3>2. next \in Calls BY <1>6, <3>1, CallTyped
    <3> QED BY <1>6, <3>2 DEF Call
  <2>4. <<next>> \in Seq(Calls) /\ \A i \in DOMAIN <<next>> : <<next>>[i] = next BY <2>3, Places
  <2>5. Untaken(f) BY <1>1, <1>2, <1>3, <1>4, SetsUntaken
  <2>6. state'[f] \notin Done \cup {"Pending"} BY <2>2 DEF Done
  <2> QED BY <1>1, <1>4, <1>7, <2>2, <2>3, <2>4, <2>5, <2>6, OneCallKept
<1> QED BY <1>2, <1>3, <1>5, <1>6, <1>7, Zenon DEF TrySetError, userVars

(* The event of FutureWait, and what the executor does with a callback.    *)
LEMMA FinishedKept ==
  ASSUME Kept, NEW th \in Threads, SetFinished(th) \/ AwaitFinished(th)
  PROVE  KeptStep(th)
<1>1. PICK name \in {"SetFinished", "AwaitFinished"} : NextCall(th, name)
  BY DEF SetFinished, AwaitFinished
<1>2. Return(th, <<>>) /\ UNCHANGED <<links, state, m_link, continuation>>
  BY DEF SetFinished, AwaitFinished, futureVars, userVars
<1>3. <<>> \in Seq(Calls) /\ DOMAIN <<>> = {} OBVIOUS
<1>4. PICK op \in Calls : op.fut \in Futures BY <1>1, TopCall
<1> QED BY <1>1, <1>2, <1>3, <1>4, OneCallKept

(* TaskPost hands the callback to an executor.                             *)
LEMMA TaskPostKept ==
  ASSUME Kept, NEW th \in Threads, TaskPost(th)
  PROVE  KeptStep(th)
<1>1. NextCall(th, "TaskPost") BY DEF TaskPost
<1>2. PICK op \in Calls : /\ op = Head(todo[th]) /\ op.fut \in Futures /\ op.call = "TaskPost"
                          /\ 1 \in DOMAIN todo[th] /\ todo[th][1] = op
  BY <1>1, TopCall
<1>3. PICK f \in Futures : f = op.fut BY <1>2
<1>4. PICK invoke, posted, cancel : /\ invoke = Call("Invoke", f, NoFuture, f, FALSE)
                                    /\ posted = Call("TrySetPosted", f, NoFuture, f, FALSE)
                                    /\ cancel = Call("TrySetError", f, Canceled, f, FALSE)
  OBVIOUS
<1>5. /\ invoke \in Calls /\ posted \in Calls /\ cancel \in Calls
      /\ invoke.call = "Invoke" /\ posted.call = "TrySetPosted" /\ cancel.call = "TrySetError"
      /\ cancel.cur = cancel.fut
  <2>1. /\ "Invoke" \in CallNames /\ NoFuture \in Args("Invoke")
        /\ "TrySetPosted" \in CallNames /\ NoFuture \in Args("TrySetPosted")
        /\ "TrySetError" \in CallNames /\ Canceled \in Args("TrySetError")
    BY DEF CallNames, Args, Errors
  <2>2. invoke \in Calls /\ posted \in Calls /\ cancel \in Calls BY <1>4, <2>1, CallTyped
  <2> QED BY <1>4, <2>2 DEF Call
<1>6. /\ OwnError(invoke) /\ OwnError(posted) /\ OwnError(cancel)
  BY <1>5 DEF OwnError
<1>7. PICK calls : /\ Return(th, calls)
                   /\ calls = <<invoke>> \o <<posted>> \/ calls = <<posted>>
                      \/ calls = <<cancel>> \o <<posted>>
  BY <1>2, <1>3, <1>4, Zenon DEF TaskPost
<1>8. calls \in Seq(Calls) /\ \A i \in DOMAIN calls : calls[i] \in {invoke, posted, cancel}
  <2>1. ASSUME NEW x \in {invoke, cancel}, calls = <<x>> \o <<posted>>
        PROVE  calls \in Seq(Calls) /\ \A i \in DOMAIN calls : calls[i] \in {x, posted}
    <3>1. x \in Calls /\ posted \in Calls BY <1>5
    <3> QED BY <2>1, <3>1
  <2>2. CASE calls = <<posted>>
    <3>1. posted \in Calls BY <1>5
    <3> QED BY <2>2, <3>1, Places
  <2> QED BY <1>7, <2>1, <2>2
<1>9. UNCHANGED <<state, m_link, continuation, links>> BY DEF TaskPost, futureVars
<1>10. Shifted(th, calls) BY <1>1, <1>7, <1>8, ReturnShifts DEF Kept, IInv
<1>11. \A i \in DOMAIN calls : /\ calls[i].call \notin {"AddContinuation", "TryPost"}
                               /\ OwnError(calls[i])
  BY <1>5, <1>6, <1>8
<1>12. todo[th][1].call \notin {"AddContinuation", "TryPost"} BY <1>2
<1> QED BY <1>8, <1>9, <1>10, <1>11, <1>12, QuietKept

(* The call PostContinuation makes, and the continuations it holds.        *)
LEMMA PostHolds ==
  ASSUME NEW p \in Parents, NEW head, NEW cur \in Futures \cup {NoFuture}
  PROVE  /\ PostContinuation(p, head, cur) \in Seq(Calls)
         /\ \A i \in DOMAIN PostContinuation(p, head, cur) :
              /\ i = 1 /\ PostContinuation(p, head, cur)[i].call = "TryPost"
              /\ PostContinuation(p, head, cur)[i].arg = p
              /\ PostContinuation(p, head, cur)[i].fut = head
         /\ head \in Futures => 1 \in DOMAIN PostContinuation(p, head, cur)
<1>1. PostContinuation(p, head, cur) \in Seq(Calls) BY PostContinuationTyped DEF Parents
<1>2. PICK x : x = Call("TryPost", head, p, cur, FALSE) OBVIOUS
<1>3. x.call = "TryPost" /\ x.arg = p /\ x.fut = head BY <1>2 DEF Call
<1>4. CASE head \in Futures
  <2>1. PostContinuation(p, head, cur) = <<x>> BY <1>2, <1>4, Zenon DEF PostContinuation
  <2> QED BY <1>1, <1>3, <2>1, Places
<1>5. CASE head \notin Futures
  <2>1. PostContinuation(p, head, cur) = <<>> BY <1>5, Zenon DEF PostContinuation
  <2> QED BY <1>1, <1>5, <2>1
<1> QED BY <1>4, <1>5

(* The list of a completed future goes to the call that posts it.          *)
LEMMA CompleteKept ==
  ASSUME Kept, NEW th \in Threads, NEW name \in {"TrySetSuccess", "SetFailed"}, NextCall(th, name),
         NEW op \in Calls, op = Head(todo[th]), NEW f \in Futures, f = op.fut, Untaken(f),
         NEW final \in Done, Complete(th, op, final),
         m_link'[f] \in {m_link[f], NoFuture}, \A g \in Futures : g # f => m_link'[g] = m_link[g],
         UNCHANGED links
  PROVE  KeptStep(th)
<1>1. TypeOK /\ AllKept /\ DoneWords /\ IsFiniteSet(Futures) BY DEF Kept, IInv
<1>2. 1 \in DOMAIN todo[th] /\ todo[th][1] = op /\ op.call = name BY TopCall
<1>3. PICK head : head = continuation[f] OBVIOUS
<1>4. PICK calls : calls = PostContinuation(f, head, op.cur) OBVIOUS
<1>5. /\ Return(th, calls) /\ state' = [state EXCEPT ![f] = final]
      /\ continuation' = [continuation EXCEPT ![f] =
                            IF @ = NoFuture THEN NoFuture ELSE ContinuationInvoked]
  BY <1>3, <1>4, Zenon DEF Complete
<1>6. /\ \A g \in Futures : state'[g] = IF g = f THEN final ELSE state[g]
      /\ \A g \in Futures : g # f => continuation'[g] = continuation[g]
      /\ continuation'[f] \notin Futures
  BY <1>1, <1>5, FutureAssumption DEF TypeOK
<1>7. /\ calls \in Seq(Calls)
      /\ \A i \in DOMAIN calls : i = 1 /\ calls[i].call = "TryPost" /\ calls[i].arg = f
                                 /\ calls[i].fut = head
      /\ head \in Futures => 1 \in DOMAIN calls
  <2>1. f \in Parents /\ op.cur \in Futures \cup {NoFuture} BY CallFields DEF Parents
  <2> QED BY <1>4, <2>1, PostHolds
<1>8. Shifted(th, calls) BY <1>1, <1>5, <1>7, ReturnShifts
<1>9. \A p \in Parents : ~Waits(p, f) BY DEF Waits, Untaken, Linked, Parents
<1>10. /\ \A p \in Futures : ChainOf(m_link', continuation[p]) = ChainOf(m_link, continuation[p])
       /\ \A u \in Threads : \A k \in DOMAIN todo[u] : \A p \in Parents, c \in Futures :
            Stays(th, u, k) =>
              (Holds(m_link', todo[u][k], p, c) <=> Holds(m_link, todo[u][k], p, c))
  BY <1>1, <1>9, RelinkFrame
<1>11. ASSUME NEW c \in Futures PROVE KeptOnce(c)'
  <2>1. KeptOnce(c) BY <1>1 DEF AllKept
  <2>2. ASSUME NEW p \in Parents PROVE InList(p, c)' <=> p # f /\ InList(p, c)
    <3>1. CASE p = f
      <4>1. PICK w : w = continuation'[f] OBVIOUS
      <4>2. ChainOf(m_link', w) = {w} BY <1>1, <1>6, <4>1, ChainStep
      <4> QED BY <1>6, <3>1, <4>1, <4>2 DEF InList
    <3>2. CASE p # f BY <1>6, <1>10, <3>2 DEF InList
    <3> QED BY <3>1, <3>2
  <2>3. ASSUME NEW p \in Parents
        PROVE  (\E i \in DOMAIN calls : Holds(m_link', calls[i], p, c)) <=> p = f /\ InList(f, c)
    <3>1. ChainOf(m_link', head) = ChainOf(m_link, head) BY <1>3, <1>10
    <3>2. head \notin Futures => c \notin ChainOf(m_link, head) BY <1>1, ChainStep
    <3>3. InList(f, c) <=> c \in ChainOf(m_link, head) BY <1>3 DEF InList
    <3> QED BY <1>7, <3>1, <3>2, <3>3 DEF Holds
  <2>4. 1 \in DOMAIN todo[th] => \A p \in Parents : ~Holds(m_link, todo[th][1], p, c)
    BY <1>2 DEF Holds
  <2>5. f \in Parents BY DEF Parents
  <2>6. \A p \in Parents :
          InList(p, c)' \/ (\E i \in DOMAIN calls : Holds(m_link', calls[i], p, c)) <=>
            InList(p, c) \/ (1 \in DOMAIN todo[th] /\ Holds(m_link, todo[th][1], p, c))
    BY <2>2, <2>3, <2>4
  <2>7. \A p, q \in Parents : InList(p, c) /\ InList(q, c) => p = q
    BY <2>1 DEF KeptOnce, ListedOnce
  <2>8. \A p, q \in Parents : InList(p, c)' /\ InList(q, c)' => p = q BY <2>2, <2>7
  <2>9. \A p, q \in Parents : InList(p, c)' => \A i \in DOMAIN calls : ~Holds(m_link', calls[i], q, c)
    BY <2>2, <2>3, <2>5, <2>7
  <2>10. \A i, j \in DOMAIN calls : i = j BY <1>7
  <2>11. \A p \in Parents : Waits(p, c)' <=> Waits(p, c)
    <3>1. "Pending" \notin Done BY DEF Done
    <3>2. CASE c = f BY <1>6, <1>9, <3>1, <3>2 DEF Waits
    <3>3. CASE c # f BY <1>6, <3>3 DEF Waits
    <3> QED BY <3>2, <3>3
  <2>12. \A p \in Parents : Waits(p, c) => c \notin ChainOf(m_link', m_link'[c])
    BY <1>1, <1>2, <1>9, RelinkEnds
  <2>13. \A i \in DOMAIN calls : calls[i].call # "AddContinuation" BY <1>7
  <2>14. \A u \in Threads : \A k \in DOMAIN todo[u] :
           todo[u][k].call = "AddContinuation" /\ todo[u][k].arg = c => m_link'[c] \notin Futures
    <3>1. m_link[c] \notin Futures => m_link'[c] \notin Futures BY FutureAssumption
    <3> QED BY <2>1, <3>1 DEF KeptOnce, LinkEnds
  <2> HIDE DEF KeptOnce
  <2> QED BY <1>7, <1>8, <1>10, <2>1, <2>6, <2>8, <2>9, <2>10, <2>11, <2>12, <2>13, <2>14, KeptMoves
<1>12. AllKept' BY <1>11 DEF AllKept
<1>13. DoneWords' BY <1>1, <1>6 DEF DoneWords
<1>14. \A i \in DOMAIN calls : OwnError(calls[i]) BY <1>7 DEF OwnError
<1> QED BY <1>7, <1>8, <1>12, <1>13, <1>14 DEF KeptStep, KeepsPlaces

(* TrySetSuccess completes a future and posts its list.                    *)
LEMMA TrySetSuccessKept ==
  ASSUME Kept, NEW th \in Threads, TrySetSuccess(th)
  PROVE  KeptStep(th)
<1>1. NextCall(th, "TrySetSuccess") BY DEF TrySetSuccess
<1>2. PICK op \in Calls : op = Head(todo[th]) /\ op.fut \in Futures /\ op.call = "TrySetSuccess"
  BY <1>1, TopCall
<1>3. PICK f \in Futures : f = op.fut BY <1>2
<1>4. CASE UnexpectedState(th, op.strict) BY <1>1, <1>4, UnexpectedKept
<1>5. CASE /\ CanSetSuccess(op) /\ Complete(th, op, "Succeeded")
           /\ m_link' = [m_link EXCEPT ![f] = IF UseParentValue(f) THEN @ ELSE NoFuture]
           /\ UNCHANGED links
  <2>1. "Succeeded" \in Done BY DEF Done
  <2>2. m_link'[f] \in {m_link[f], NoFuture} /\ \A g \in Futures : g # f => m_link'[g] = m_link[g]
    BY <1>5 DEF Kept, IInv, TypeOK
  <2>3. state[f] # "Pending" \/ IsPromise(f)
    <3>1. ~IsMultiPost(f) BY DEF Kept, SinglePosts
    <3> QED BY <1>3, <1>5, <3>1 DEF CanSetSuccess, HasTaskInvoke, UseParentValue
  <2>4. Untaken(f) BY <1>1, <1>2, <1>3, <2>3, SetsUntaken
  <2> QED BY <1>1, <1>2, <1>3, <1>5, <2>1, <2>2, <2>4, CompleteKept
<1> QED BY <1>2, <1>3, <1>4, <1>5, Zenon DEF TrySetSuccess, userVars

(* SetFailed does the same.                                                *)
LEMMA SetFailedKept ==
  ASSUME Kept, NEW th \in Threads, SetFailed(th)
  PROVE  KeptStep(th)
<1>1. NextCall(th, "SetFailed") BY DEF SetFailed
<1>2. PICK op \in Calls : op = Head(todo[th]) /\ op.fut \in Futures /\ op.call = "SetFailed"
  BY <1>1, TopCall
<1>3. PICK f \in Futures : f = op.fut BY <1>2
<1>4. CASE UnexpectedState(th, TRUE) BY <1>1, <1>4, UnexpectedKept
<1>5. CASE /\ state[f] = "SettingResult" /\ Complete(th, op, "Failed")
           /\ m_link' = [m_link EXCEPT ![f] = NoFuture] /\ UNCHANGED links
  <2>1. "Failed" \in Done BY DEF Done
  <2>2. m_link'[f] \in {m_link[f], NoFuture} /\ \A g \in Futures : g # f => m_link'[g] = m_link[g]
    BY <1>5 DEF Kept, IInv, TypeOK
  <2>3. Untaken(f) BY <1>1, <1>2, <1>3, <1>5, SetsUntaken
  <2> QED BY <1>1, <1>2, <1>3, <1>5, <2>1, <2>2, <2>3, CompleteKept
<1> QED BY <1>2, <1>3, <1>4, <1>5, Zenon DEF SetFailed, userVars

(* A continuation enters the list of its parent.                           *)
LEMMA StoreKept ==
  ASSUME Kept, NEW th \in Threads, NextCall(th, "AddContinuation"),
         NEW op \in Calls, op = Head(todo[th]), op.call = "AddContinuation",
         NEW f \in Futures, f = op.fut, NEW x \in Futures, x = op.arg, state[f] \notin Done,
         \A g \in Futures : continuation'[g] = IF g = f THEN x ELSE continuation[g],
         \A g \in Futures : m_link'[g] = IF g = x THEN continuation[f] ELSE m_link[g],
         Return(th, <<>>), UNCHANGED <<state, links>>
  PROVE  KeptStep(th)
<1>1. TypeOK /\ AllKept /\ DoneWords /\ IsFiniteSet(Futures) BY DEF Kept, IInv
<1>2. 1 \in DOMAIN todo[th] /\ todo[th][1] = op BY TopCall
<1>3. /\ \A g \in Futures : continuation'[g] = IF g = f THEN x ELSE continuation[g]
      /\ \A g \in Futures : m_link'[g] = IF g = x THEN continuation[f] ELSE m_link[g]
      /\ \A g \in Futures : g # x => m_link'[g] = m_link[g]
  OBVIOUS
<1>4. <<>> \in Seq(Calls) /\ DOMAIN <<>> = {} OBVIOUS
<1>5. Shifted(th, <<>>) BY <1>1, <1>4, ReturnShifts
<1>6. f \in Parents /\ \A p \in Parents, c \in Futures :
        Holds(m_link, todo[th][1], p, c) <=> p = f /\ c = x
  BY <1>2 DEF Holds, Parents
<1>7. \E p \in Parents : 1 \in DOMAIN todo[th] /\ Holds(m_link, todo[th][1], p, x) BY <1>2, <1>6
<1>8. KeptOnce(x) BY <1>1 DEF AllKept
<1>9. /\ \A p \in Parents : ~InList(p, x)
      /\ \A u \in Threads : \A k \in DOMAIN todo[u] : \A p \in Parents :
           Stays(th, u, k) => ~Holds(m_link, todo[u][k], p, x)
  BY <1>7, <1>8, OnlyOnTop
<1>10. /\ \A p \in Futures : ChainOf(m_link', continuation[p]) = ChainOf(m_link, continuation[p])
       /\ \A u \in Threads : \A k \in DOMAIN todo[u] : \A p \in Parents, c \in Futures :
            Stays(th, u, k) =>
              (Holds(m_link', todo[u][k], p, c) <=> Holds(m_link, todo[u][k], p, c))
  BY <1>1, <1>3, <1>7, RelinkFrame
<1>11. PICK head : head = continuation[f] OBVIOUS
<1>12. ChainOf(m_link', x) = {x} \cup ChainOf(m_link, head)
  <2>1. PICK y : y = m_link'[x] OBVIOUS
  <2>2. y = head BY <1>3, <1>11, <2>1
  <2>3. ChainOf(m_link', x) = {x} \cup ChainOf(m_link', y) BY <1>1, <2>1, ChainStep
  <2>4. ChainOf(m_link', head) = ChainOf(m_link, head) BY <1>10, <1>11
  <2> QED BY <2>2, <2>3, <2>4
<1>13. ASSUME NEW c \in Futures PROVE KeptOnce(c)'
  <2>1. KeptOnce(c) BY <1>1 DEF AllKept
  <2>2. ASSUME NEW p \in Parents PROVE InList(p, c)' <=> InList(p, c) \/ (p = f /\ c = x)
    <3>1. CASE p = f BY <1>3, <1>11, <1>12, <3>1 DEF InList
    <3>2. CASE p # f BY <1>3, <1>10, <3>2 DEF InList
    <3> QED BY <3>1, <3>2
  <2>3. \A p \in Parents :
          InList(p, c)' \/ (\E i \in DOMAIN <<>> : Holds(m_link', <<>>[i], p, c)) <=>
            InList(p, c) \/ (1 \in DOMAIN todo[th] /\ Holds(m_link, todo[th][1], p, c))
    BY <1>2, <1>4, <1>6, <2>2
  <2>4. \A p, q \in Parents : InList(p, c)' /\ InList(q, c)' => p = q
    BY <1>9, <2>1, <2>2 DEF KeptOnce, ListedOnce
  <2>5. \A p \in Parents : Waits(p, c)' <=> Waits(p, c) BY DEF Waits
  <2>6. \A p \in Parents : Waits(p, c) => c \notin ChainOf(m_link', m_link'[c])
    <3>1. CASE c # x
      <4>1. \A g \in Futures : g # x => m_link'[g] = m_link[g] BY <1>3
      <4>2. todo[th][1].call # "TryPost" BY <1>2
      <4> QED BY <1>1, <1>7, <3>1, <4>1, <4>2, RelinkEnds
    <3>2. CASE c = x
      <4>1. x \notin ChainOf(m_link, head) BY <1>6, <1>9, <1>11 DEF InList
      <4>2. ChainOf(m_link', head) = ChainOf(m_link, head) BY <1>10, <1>11
      <4>3. m_link'[x] = head BY <1>3, <1>11
      <4> QED BY <3>2, <4>1, <4>2, <4>3
    <3> QED BY <3>1, <3>2
  <2>7. ASSUME NEW u \in Threads, NEW k \in DOMAIN todo[u], Stays(th, u, k),
               todo[u][k].call = "AddContinuation", todo[u][k].arg = c
        PROVE  m_link'[c] \notin Futures
    <3>1. CASE c # x
      <4>1. m_link[c] \notin Futures BY <2>1, <2>7 DEF KeptOnce, LinkEnds
      <4> QED BY <1>3, <3>1, <4>1
    <3>2. CASE c = x
      <4>1. todo[u] \in Seq(Calls) BY <1>1 DEF TypeOK
      <4>2. todo[u][k].fut \in Parents BY <4>1, ElementOfSeq, CallFields DEF Parents
      <4>3. Holds(m_link, todo[u][k], todo[u][k].fut, x) BY <2>7, <3>2 DEF Holds
      <4> QED BY <1>9, <2>7, <4>2, <4>3
    <3> QED BY <3>1, <3>2
  <2> HIDE DEF KeptOnce
  <2> QED BY <1>4, <1>5, <1>10, <2>1, <2>3, <2>4, <2>5, <2>6, <2>7, KeptMoves
<1>14. AllKept' BY <1>13 DEF AllKept
<1>15. DoneWords' BY <1>1, <1>3 DEF DoneWords
<1> QED BY <1>4, <1>5, <1>14, <1>15 DEF KeptStep, KeepsPlaces

(* Or is posted at once, because its parent is done.                       *)
LEMMA StoreDoneKept ==
  ASSUME Kept, NEW th \in Threads, NextCall(th, "AddContinuation"),
         NEW op \in Calls, op = Head(todo[th]), op.call = "AddContinuation",
         NEW f \in Futures, f = op.fut, NEW x \in Futures, x = op.arg, state[f] \in Done,
         \A g \in Futures : continuation'[g] = IF g = f THEN ContinuationInvoked ELSE continuation[g],
         \A g \in Futures : m_link'[g] = IF g = x THEN NoFuture ELSE m_link[g],
         NEW calls, calls = PostContinuation(f, x, op.cur), Return(th, calls),
         UNCHANGED <<state, links>>
  PROVE  KeptStep(th)
<1>1. TypeOK /\ AllKept /\ DoneWords /\ IsFiniteSet(Futures) BY DEF Kept, IInv
<1>2. 1 \in DOMAIN todo[th] /\ todo[th][1] = op BY TopCall
<1>3. /\ \A g \in Futures : continuation'[g] = IF g = f THEN ContinuationInvoked ELSE continuation[g]
      /\ \A g \in Futures : m_link'[g] = IF g = x THEN NoFuture ELSE m_link[g]
      /\ \A g \in Futures : g # x => m_link'[g] = m_link[g]
  OBVIOUS
<1>4. /\ calls \in Seq(Calls)
      /\ \A i \in DOMAIN calls : i = 1 /\ calls[i].call = "TryPost" /\ calls[i].arg = f
                                 /\ calls[i].fut = x
      /\ 1 \in DOMAIN calls
  <2>1. f \in Parents /\ op.cur \in Futures \cup {NoFuture} BY CallFields DEF Parents
  <2> QED BY <2>1, PostHolds
<1>5. Shifted(th, calls) BY <1>1, <1>4, ReturnShifts
<1>6. f \in Parents /\ \A p \in Parents, c \in Futures :
        Holds(m_link, todo[th][1], p, c) <=> p = f /\ c = x
  BY <1>2 DEF Holds, Parents
<1>7. \E p \in Parents : 1 \in DOMAIN todo[th] /\ Holds(m_link, todo[th][1], p, x) BY <1>2, <1>6
<1>8. KeptOnce(x) BY <1>1 DEF AllKept
<1>9. /\ \A p \in Parents : ~InList(p, x)
      /\ \A u \in Threads : \A k \in DOMAIN todo[u] : \A p \in Parents :
           Stays(th, u, k) => ~Holds(m_link, todo[u][k], p, x)
  BY <1>7, <1>8, OnlyOnTop
<1>10. /\ \A p \in Futures : ChainOf(m_link', continuation[p]) = ChainOf(m_link, continuation[p])
       /\ \A u \in Threads : \A k \in DOMAIN todo[u] : \A p \in Parents, c \in Futures :
            Stays(th, u, k) =>
              (Holds(m_link', todo[u][k], p, c) <=> Holds(m_link, todo[u][k], p, c))
  BY <1>1, <1>3, <1>7, RelinkFrame
<1>11. NoFuture \notin Futures /\ ContinuationInvoked \notin Futures BY FutureAssumption
<1>12. ChainOf(m_link', x) = {x, NoFuture} /\ ChainOf(m_link', NoFuture) = {NoFuture}
  <2>1. PICK y : y = m_link'[x] OBVIOUS
  <2>2. ChainOf(m_link', y) = {y} BY <1>1, <1>3, <1>11, <2>1, ChainStep
  <2>3. ChainOf(m_link', x) = {x} \cup ChainOf(m_link', y) BY <1>1, <2>1, ChainStep
  <2>4. ChainOf(m_link', NoFuture) = {NoFuture} BY <1>1, <1>11, ChainStep
  <2> QED BY <1>3, <2>1, <2>2, <2>3, <2>4
<1>13. ASSUME NEW c \in Futures PROVE KeptOnce(c)'
  <2>1. KeptOnce(c) BY <1>1 DEF AllKept
  <2>2. ASSUME NEW p \in Parents PROVE InList(p, c)' <=> InList(p, c)
    <3>1. CASE p = f
      <4>1. PICK v, w : v = continuation[f] /\ w = continuation'[f] OBVIOUS
      <4>2. v \notin Futures /\ w \notin Futures BY <1>1, <1>3, <1>11, <4>1 DEF DoneWords
      <4>3. ChainOf(m_link', w) = {w} /\ ChainOf(m_link, v) = {v} BY <1>1, <4>2, ChainStep
      <4> QED BY <3>1, <4>1, <4>2, <4>3 DEF InList
    <3>2. CASE p # f BY <1>3, <1>10, <3>2 DEF InList
    <3> QED BY <3>1, <3>2
  <2>3. ASSUME NEW p \in Parents
        PROVE  (\E i \in DOMAIN calls : Holds(m_link', calls[i], p, c)) <=> p = f /\ c = x
    <3>1. ASSUME NEW i \in DOMAIN calls
          PROVE  Holds(m_link', calls[i], p, c) <=> p = f /\ c = x
      BY <1>4, <1>11, <1>12 DEF Holds
    <3> QED BY <1>4, <3>1
  <2>4. \A p \in Parents :
          InList(p, c)' \/ (\E i \in DOMAIN calls : Holds(m_link', calls[i], p, c)) <=>
            InList(p, c) \/ (1 \in DOMAIN todo[th] /\ Holds(m_link, todo[th][1], p, c))
    BY <1>2, <1>6, <2>2, <2>3
  <2>5. \A p, q \in Parents : InList(p, c)' /\ InList(q, c)' => p = q
    BY <2>1, <2>2 DEF KeptOnce, ListedOnce
  <2>6. \A p, q \in Parents : InList(p, c)' => \A i \in DOMAIN calls : ~Holds(m_link', calls[i], q, c)
    BY <1>9, <2>2, <2>3
  <2>7. \A i, j \in DOMAIN calls : i = j BY <1>4
  <2>8. \A p \in Parents : Waits(p, c)' <=> Waits(p, c) BY DEF Waits
  <2>9. \A p \in Parents : Waits(p, c) => c \notin ChainOf(m_link', m_link'[c])
    <3>1. CASE c # x
      <4>1. \A g \in Futures : g # x => m_link'[g] = m_link[g] BY <1>3
      <4>2. todo[th][1].call # "TryPost" BY <1>2
      <4> QED BY <1>1, <1>7, <3>1, <4>1, <4>2, RelinkEnds
    <3>2. CASE c = x
      <4>1. m_link'[x] = NoFuture BY <1>3
      <4> QED BY <1>11, <1>12, <3>2, <4>1
    <3> QED BY <3>1, <3>2
  <2>10. \A i \in DOMAIN calls : calls[i].call # "AddContinuation" BY <1>4
  <2>11. \A u \in Threads : \A k \in DOMAIN todo[u] :
           todo[u][k].call = "AddContinuation" /\ todo[u][k].arg = c => m_link'[c] \notin Futures
    <3>1. m_link[c] \notin Futures => m_link'[c] \notin Futures BY <1>3, <1>11
    <3> QED BY <2>1, <3>1 DEF KeptOnce, LinkEnds
  <2> HIDE DEF KeptOnce
  <2> QED BY <1>4, <1>5, <1>10, <2>1, <2>4, <2>5, <2>6, <2>7, <2>8, <2>9, <2>10, <2>11, KeptMoves
<1>14. AllKept' BY <1>13 DEF AllKept
<1>15. DoneWords' BY <1>1, <1>3, <1>11 DEF DoneWords
<1>16. \A i \in DOMAIN calls : OwnError(calls[i]) BY <1>4 DEF OwnError
<1> QED BY <1>4, <1>5, <1>14, <1>15, <1>16 DEF KeptStep, KeepsPlaces

(* AddContinuation puts a continuation into the list, or posts it when the *)
(* parent is done.                                                         *)
LEMMA AddContinuationKept ==
  ASSUME Kept, NEW th \in Threads, AddContinuation(th)
  PROVE  KeptStep(th)
<1>1. NextCall(th, "AddContinuation") BY DEF AddContinuation
<1>2. PICK op \in Calls : op = Head(todo[th]) /\ op.fut \in Futures /\ op.call = "AddContinuation"
  BY <1>1, TopCall
<1>3. PICK f \in Futures, x \in Futures : f = op.fut /\ x = op.arg BY <1>2, CallFields DEF Args
<1>4. CASE UnexpectedState(th, TRUE)
  <2>1. crashed' /\ Return(th, <<>>) BY <1>4 DEF UnexpectedState
  <2>2. <<>> \in Seq(Calls) /\ DOMAIN <<>> = {} OBVIOUS
  <2>3. Shifted(th, <<>>) BY <1>1, <2>1, <2>2, ReturnShifts DEF Kept, IInv
  <2> QED BY <2>1, <2>2, <2>3 DEF KeptStep, KeepsPlaces
<1>5. CASE Attach(th, op) /\ state[f] \in Done
  <2>1. PICK calls : calls = PostContinuation(f, x, op.cur) OBVIOUS
  <2>2. /\ continuation' = [continuation EXCEPT ![f] = ContinuationInvoked]
        /\ m_link' = [m_link EXCEPT ![x] = NoFuture]
        /\ Return(th, calls) /\ UNCHANGED <<state, links>>
    BY <1>3, <1>5, <2>1, Zenon DEF Attach, Store, userVars
  <2>3. /\ \A g \in Futures : continuation'[g] = IF g = f THEN ContinuationInvoked ELSE continuation[g]
        /\ \A g \in Futures : m_link'[g] = IF g = x THEN NoFuture ELSE m_link[g]
    BY <2>2 DEF Kept, IInv, TypeOK
  <2> QED BY <1>1, <1>2, <1>3, <1>5, <2>1, <2>2, <2>3, StoreDoneKept
<1>6. CASE Attach(th, op) /\ state[f] \notin Done
  <2>1. /\ continuation' = [continuation EXCEPT ![f] = x]
        /\ m_link' = [m_link EXCEPT ![x] = continuation[f]]
        /\ Return(th, <<>>) /\ UNCHANGED <<state, links>>
    BY <1>3, <1>6, Zenon DEF Attach, Store, userVars
  <2>2. /\ \A g \in Futures : continuation'[g] = IF g = f THEN x ELSE continuation[g]
        /\ \A g \in Futures : m_link'[g] = IF g = x THEN continuation[f] ELSE m_link[g]
    BY <2>1 DEF Kept, IInv, TypeOK
  <2> QED BY <1>1, <1>2, <1>3, <1>6, <2>1, <2>2, StoreKept
<1> QED BY <1>2, <1>3, <1>4, <1>5, <1>6, Zenon DEF AddContinuation

(* A call and those behind it.                                             *)
LEMMA PrefixedCalls ==
  ASSUME NEW x \in Calls, NEW s \in Seq(Calls)
  PROVE  /\ <<x>> \o s \in Seq(Calls) /\ Len(s) \in Nat /\ DOMAIN s = 1..Len(s)
         /\ DOMAIN (<<x>> \o s) = 1..(Len(s) + 1) /\ (<<x>> \o s)[1] = x
         /\ \A i \in 1..Len(s) : (<<x>> \o s)[i + 1] = s[i]
OBVIOUS

(* The first of a list is posted, and the rest of it goes on to be posted. *)
LEMMA PostKept ==
  ASSUME Kept, NEW th \in Threads, NextCall(th, "TryPost"),
         NEW op \in Calls, op = Head(todo[th]), op.call = "TryPost",
         NEW x \in Futures, x = op.fut, NEW r \in Parents, r = op.arg,
         \A g \in Futures : state'[g] = IF g = x THEN "Posting" ELSE state[g],
         \A g \in Futures : g # x => m_link'[g] = m_link[g],
         UNCHANGED <<continuation, links>>,
         NEW first \in Calls, first.call \in {"TaskPost", "Invoke"},
         NEW rest, rest = PostContinuation(r, m_link[x], op.cur), Return(th, <<first>> \o rest)
  PROVE  KeptStep(th)
<1>1. TypeOK /\ AllKept /\ DoneWords /\ IsFiniteSet(Futures) BY DEF Kept, IInv
<1>2. 1 \in DOMAIN todo[th] /\ todo[th][1] = op BY TopCall
<1>3. PICK next : next = m_link[x] OBVIOUS
<1>4. PICK calls : calls = <<first>> \o rest OBVIOUS
<1>5. /\ calls \in Seq(Calls)
      /\ \A i \in DOMAIN calls :
           \/ calls[i].call \in {"TaskPost", "Invoke"}
           \/ i = 2 /\ calls[i].call = "TryPost" /\ calls[i].arg = r /\ calls[i].fut = next
      /\ next \in Futures => /\ 2 \in DOMAIN calls /\ calls[2].call = "TryPost"
                             /\ calls[2].arg = r /\ calls[2].fut = next
  <2>1. /\ rest \in Seq(Calls)
        /\ \A i \in DOMAIN rest : /\ i = 1 /\ rest[i].call = "TryPost"
                                  /\ rest[i].arg = r /\ rest[i].fut = next
        /\ next \in Futures => 1 \in DOMAIN rest
    <3>1. op.cur \in Futures \cup {NoFuture} BY CallFields
    <3> QED BY <1>3, <3>1, PostHolds
  <2>2. /\ calls \in Seq(Calls) /\ Len(rest) \in Nat /\ DOMAIN rest = 1..Len(rest)
        /\ DOMAIN calls = 1..(Len(rest) + 1) /\ calls[1] = first
        /\ \A i \in 1..Len(rest) : calls[i + 1] = rest[i]
    <3>1. rest \in Seq(Calls) BY <2>1
    <3>2. /\ <<first>> \o rest \in Seq(Calls) /\ Len(rest) \in Nat /\ DOMAIN rest = 1..Len(rest)
          /\ DOMAIN (<<first>> \o rest) = 1..(Len(rest) + 1) /\ (<<first>> \o rest)[1] = first
          /\ \A i \in 1..Len(rest) : (<<first>> \o rest)[i + 1] = rest[i]
      BY <3>1, PrefixedCalls, Zenon
    <3> QED BY <1>4, <3>2, Zenon
  <2>3. ASSUME NEW i \in DOMAIN calls, i # 1
        PROVE  i = 2 /\ i - 1 \in DOMAIN rest /\ calls[i] = rest[i - 1]
    <3>1. i - 1 \in 1..Len(rest) /\ (i - 1) + 1 = i BY <2>2, <2>3
    <3>2. calls[i] = rest[i - 1] BY <2>2, <3>1
    <3>3. i - 1 = 1 BY <2>1, <2>2, <3>1
    <3> QED BY <2>2, <3>1, <3>2, <3>3
  <2>4. ASSUME next \in Futures PROVE 2 \in DOMAIN calls
    <3>1. PICK n \in Nat : n = Len(rest) BY <2>2
    <3>2. 1 \in 1..n BY <2>1, <2>2, <2>4, <3>1
    <3>3. 2 \in 1..(n + 1) BY <3>1, <3>2
    <3> QED BY <2>2, <3>1, <3>3
  <2>5. ASSUME NEW i \in DOMAIN calls
        PROVE  \/ calls[i].call \in {"TaskPost", "Invoke"}
               \/ i = 2 /\ calls[i].call = "TryPost" /\ calls[i].arg = r /\ calls[i].fut = next
    <3>1. CASE i = 1 BY <2>2, <3>1
    <3>2. CASE i # 1 BY <2>1, <2>3, <3>2
    <3> QED BY <3>1, <3>2
  <2>6. ASSUME next \in Futures
        PROVE  /\ 2 \in DOMAIN calls /\ calls[2].call = "TryPost"
               /\ calls[2].arg = r /\ calls[2].fut = next
    <3>1. 2 \in DOMAIN calls /\ 1 \in DOMAIN rest BY <2>1, <2>4, <2>6
    <3>2. 1 \in 1..Len(rest) /\ 1 + 1 = 2 BY <2>2, <3>1
    <3>3. calls[2] = rest[1] BY <2>2, <3>2
    <3> QED BY <2>1, <3>1, <3>3
  <2> QED BY <2>2, <2>5, <2>6
<1>6. Shifted(th, calls) BY <1>1, <1>4, <1>5, ReturnShifts
<1>7. KeptOnce(x) BY <1>1, Zenon DEF AllKept
<1>8. ChainOf(m_link, x) = {x} \cup ChainOf(m_link, next) BY <1>1, <1>3, ChainStep
<1>9. \A p \in Parents, c \in Futures :
        Holds(m_link, todo[th][1], p, c) <=> p = r /\ c \in {x} \cup ChainOf(m_link, next)
  BY <1>2, <1>8 DEF Holds
<1>10. \E p \in Parents : 1 \in DOMAIN todo[th] /\ Holds(m_link, todo[th][1], p, x) BY <1>2, <1>9
<1>11. /\ \A p \in Parents : ~InList(p, x)
       /\ \A u \in Threads : \A k \in DOMAIN todo[u] : \A p \in Parents :
            Stays(th, u, k) => ~Holds(m_link, todo[u][k], p, x)
  BY <1>7, <1>10, OnlyOnTop
<1>12. x \notin ChainOf(m_link, next)
  <2>1. HeldBy(r, x) BY <1>2, <1>9 DEF HeldBy
  <2>2. Waits(r, x) BY <1>7, <2>1 DEF KeptOnce
  <2> QED BY <1>3, <1>7, <2>2 DEF KeptOnce, LinkEnds
<1>13. /\ \A p \in Futures : ChainOf(m_link', continuation[p]) = ChainOf(m_link, continuation[p])
       /\ \A u \in Threads : \A k \in DOMAIN todo[u] : \A p \in Parents, c \in Futures :
            Stays(th, u, k) =>
              (Holds(m_link', todo[u][k], p, c) <=> Holds(m_link, todo[u][k], p, c))
  BY <1>1, <1>10, RelinkFrame
<1>14. ChainOf(m_link', next) = ChainOf(m_link, next)
  <2>1. \A g \in ChainOf(m_link, next) \cap Futures : m_link'[g] = m_link[g] BY <1>12
  <2> QED BY <1>1, <2>1, ChainSame
<1>15. \A p \in Parents, c \in Futures : InList(p, c)' <=> InList(p, c) BY <1>13 DEF InList
<1>16. ASSUME NEW c \in Futures, NEW p \in Parents
       PROVE  (\E i \in DOMAIN calls : Holds(m_link', calls[i], p, c))
                <=> p = r /\ c \in ChainOf(m_link, next)
  <2>1. next \notin Futures => c \notin ChainOf(m_link, next) BY <1>1, ChainStep
  <2>2. ASSUME NEW i \in DOMAIN calls, Holds(m_link', calls[i], p, c)
        PROVE  p = r /\ c \in ChainOf(m_link, next)
    BY <1>5, <1>14, <2>2 DEF Holds
  <2>3. ASSUME p = r, c \in ChainOf(m_link, next)
        PROVE  2 \in DOMAIN calls /\ Holds(m_link', calls[2], p, c)
    BY <1>5, <1>14, <2>1, <2>3 DEF Holds
  <2> QED BY <2>2, <2>3
<1>17. \A c \in Futures : \A p, q \in Parents : \A i, j \in DOMAIN calls :
         Holds(m_link', calls[i], p, c) /\ Holds(m_link', calls[j], q, c) => i = j
  BY <1>5 DEF Holds
<1>18. \A i \in DOMAIN calls : calls[i].call # "AddContinuation" BY <1>5
<1>19. ASSUME NEW c \in Futures, c # x PROVE KeptOnce(c)'
  <2>1. KeptOnce(c) BY <1>1 DEF AllKept
  <2>2. \A p \in Parents :
          InList(p, c)' \/ (\E i \in DOMAIN calls : Holds(m_link', calls[i], p, c)) <=>
            InList(p, c) \/ (1 \in DOMAIN todo[th] /\ Holds(m_link, todo[th][1], p, c))
    BY <1>2, <1>9, <1>15, <1>16, <1>19
  <2>3. \A p, q \in Parents : InList(p, c)' /\ InList(q, c)' => p = q
    BY <1>15, <2>1 DEF KeptOnce, ListedOnce
  <2>4. \A p, q \in Parents : InList(p, c)' => \A i \in DOMAIN calls : ~Holds(m_link', calls[i], q, c)
    <3>1. SUFFICES ASSUME NEW p \in Parents, NEW q \in Parents, InList(p, c),
                          q = r, c \in ChainOf(m_link, next)
                   PROVE  FALSE
      BY <1>15, <1>16
    <3>2. HeldBy(q, c) BY <1>2, <1>9, <3>1 DEF HeldBy
    <3> QED BY <2>1, <3>1, <3>2 DEF KeptOnce, ListedOnce
  <2>5. \A p \in Parents : Waits(p, c)' <=> Waits(p, c) BY <1>19 DEF Waits
  <2>6. \A p \in Parents : Waits(p, c) => c \notin ChainOf(m_link', m_link'[c])
    <3>1. todo[th][1].fut = x /\ x \notin ChainOf(m_link, m_link[x]) BY <1>2, <1>3, <1>12
    <3> QED BY <1>1, <1>10, <1>19, <3>1, RelinkEnds
  <2>7. \A u \in Threads : \A k \in DOMAIN todo[u] :
          todo[u][k].call = "AddContinuation" /\ todo[u][k].arg = c => m_link'[c] \notin Futures
    BY <1>19, <2>1 DEF KeptOnce, LinkEnds
  <2> HIDE DEF KeptOnce
  <2> QED BY <1>5, <1>6, <1>13, <1>17, <1>18, <2>1, <2>2, <2>3, <2>4, <2>5, <2>6, <2>7, KeptMoves
<1>20. KeptOnce(x)'
  <2>1. \A p \in Parents : ~Waits(p, x)' BY DEF Waits
  <2>2. \A p \in Parents : ~InList(p, x)' BY <1>11, <1>15
  <2>3. \A p \in Parents : \A i \in DOMAIN calls : ~Holds(m_link', calls[i], p, x)
    BY <1>12, <1>16
  <2>4. \A u \in Threads : \A k \in DOMAIN todo[u] : \A p \in Parents :
          Stays(th, u, k) => ~Holds(m_link', todo[u][k], p, x)
    BY <1>11, <1>13
  <2>5. ASSUME NEW u \in Threads, NEW k \in DOMAIN todo[u], Stays(th, u, k)
        PROVE  ~(todo[u][k].call = "AddContinuation" /\ todo[u][k].arg = x)
    <3>1. todo[u] \in Seq(Calls) BY <1>1 DEF TypeOK
    <3>2. todo[u][k].fut \in Parents BY <3>1, ElementOfSeq, CallFields DEF Parents
    <3> QED BY <2>4, <2>5, <3>2 DEF Holds
  <2> HIDE DEF KeptOnce
  <2> QED BY <1>5, <1>6, <1>18, <2>1, <2>2, <2>3, <2>4, <2>5, KeptAfter
<1>21. AllKept' BY <1>19, <1>20 DEF AllKept
<1>22. DoneWords' BY <1>1 DEF DoneWords, Done
<1>23. \A i \in DOMAIN calls : OwnError(calls[i]) BY <1>5 DEF OwnError
<1> QED BY <1>5, <1>6, <1>21, <1>22, <1>23 DEF KeptStep, KeepsPlaces

(* TryPost takes the continuation at the head of a list and hands on the   *)
(* rest.                                                                   *)
LEMMA TryPostKept ==
  ASSUME Kept, NEW th \in Threads, TryPostInternal(th)
  PROVE  KeptStep(th)
<1>1. NextCall(th, "TryPost") BY DEF TryPostInternal
<1>2. PICK op \in Calls : /\ op = Head(todo[th]) /\ op.fut \in Futures /\ op.call = "TryPost"
                          /\ 1 \in DOMAIN todo[th] /\ todo[th][1] = op
  BY <1>1, TopCall
<1>3. PICK x \in Futures, r \in Parents : x = op.fut /\ r = op.arg
  BY <1>2, CallFields DEF Args, Parents
<1>4. ~IsMultiPost(x) BY DEF Kept, SinglePosts
<1>5. state[x] = "Pending"
  <2>1. x \in ChainOf(m_link, x) BY ChainLeast DEF Kept
  <2>2. Holds(m_link, op, r, x) BY <1>2, <1>3, <2>1 DEF Holds
  <2>3. HeldBy(r, x) BY <1>2, <2>2 DEF HeldBy
  <2>4. Waits(r, x) BY <2>3 DEF Kept, AllKept, KeptOnce
  <2> QED BY <2>4 DEF Waits
<1>6. PICK parentFailed : parentFailed = (r # NoFuture /\ state[r] = "Failed") OBVIOUS
<1>7. PICK first, rest :
        /\ first = Call(IF HasTaskPost(x) THEN "TaskPost" ELSE "Invoke", x, NoFuture, x, FALSE)
        /\ rest = PostContinuation(r, m_link[x], op.cur)
  OBVIOUS
<1>8. /\ state' = [state EXCEPT ![x] = "Posting"]
      /\ m_link' = [m_link EXCEPT ![x] = IF parentFailed THEN NoFuture ELSE r]
      /\ Return(th, <<first>> \o rest)
      /\ UNCHANGED <<continuation, links>>
  BY <1>2, <1>3, <1>4, <1>5, <1>6, <1>7, Zenon DEF TryPostInternal, userVars
<1>9. /\ \A g \in Futures : state'[g] = IF g = x THEN "Posting" ELSE state[g]
      /\ \A g \in Futures : g # x => m_link'[g] = m_link[g]
  BY <1>8 DEF Kept, IInv, TypeOK
<1>10. first \in Calls /\ first.call \in {"TaskPost", "Invoke"}
  <2>1. PICK name \in {"TaskPost", "Invoke"} : name = IF HasTaskPost(x) THEN "TaskPost" ELSE "Invoke"
    OBVIOUS
  <2>2. name \in CallNames /\ NoFuture \in Args(name) BY DEF CallNames, Args
  <2>3. first = Call(name, x, NoFuture, x, FALSE) BY <1>7, <2>1
  <2>4. first \in Calls BY <2>2, <2>3, CallTyped
  <2> QED BY <2>3, <2>4 DEF Call
<1> QED BY <1>1, <1>2, <1>3, <1>7, <1>8, <1>9, <1>10, PostKept

(* Calls that hold no continuation, and set no error that is not their own.*)
PlainCalls(calls) ==
  /\ calls \in Seq(Calls)
  /\ \A i \in DOMAIN calls : /\ calls[i].call \notin {"AddContinuation", "TryPost"}
                             /\ OwnError(calls[i])

(* Setting a value is such a call.                                         *)
LEMMA SetValuePlain ==
  ASSUME NEW f \in Futures, NEW cur \in Futures \cup {NoFuture}, NEW strict \in BOOLEAN
  PROVE  \E x \in Calls : /\ SetValue(f, cur, strict) = <<x>>
                          /\ x.call \in {"TrySetSuccess", "TryStartSetValue"} /\ OwnError(x)
<1> DEFINE Op(name) == Call(name, f, NoFuture, cur, strict)
<1>1. ASSUME NEW name \in {"TrySetSuccess", "TryStartSetValue"}
      PROVE  Op(name) \in Calls /\ Op(name).call = name
  <2>1. name \in CallNames /\ NoFuture \in Args(name) BY DEF CallNames, Args
  <2>2. Op(name) \in Calls BY <2>1, CallTyped
  <2> QED BY <2>2 DEF Call
<1>2. \A name \in {"TrySetSuccess", "TryStartSetValue"} : OwnError(Op(name))
  BY <1>1 DEF OwnError
<1>3. SetValue(f, cur, strict) = <<Op("TrySetSuccess")>>
        \/ SetValue(f, cur, strict) = <<Op("TryStartSetValue")>>
  BY Zenon DEF SetValue
<1> HIDE DEF Op
<1> QED BY <1>1, <1>2, <1>3

(* One such call.                                                          *)
LEMMA OnePlain ==
  ASSUME NEW x \in Calls, x.call \notin {"AddContinuation", "TryPost"}, OwnError(x)
  PROVE  PlainCalls(<<x>>)
<1>1. <<x>> \in Seq(Calls) OBVIOUS
<1> QED BY <1>1, Places DEF PlainCalls

(* And two of them.                                                        *)
LEMMA TwoPlain ==
  ASSUME NEW x \in Calls, x.call \notin {"AddContinuation", "TryPost"}, OwnError(x),
         NEW y \in Calls, y.call \notin {"AddContinuation", "TryPost"}, OwnError(y)
  PROVE  PlainCalls(<<x, y>>) /\ PlainCalls(<<x>> \o <<y>>)
<1>1. <<x, y>> \in Seq(Calls) OBVIOUS
<1>2. PlainCalls(<<x, y>>) BY <1>1, Places DEF PlainCalls
<1>3. PICK s : s = <<x>> \o <<y>> OBVIOUS
<1>4. s \in Seq(Calls) /\ \A i \in DOMAIN s : s[i] \in {x, y} BY <1>3
<1>5. PlainCalls(s) BY <1>4 DEF PlainCalls
<1> QED BY <1>2, <1>3, <1>5

(* A callback of the library leaves plain calls, if the future a           *)
(* completion completes has a callback of the user.                        *)
LEMMA TaskPlain ==
  ASSUME NEW f \in Futures, NEW e \in Errors \cup {NoError},
         Kind[f] = "completion" => HasTaskPost(Target[f])
  PROVE  PlainCalls(TaskInvoke(f)) /\ PlainCalls(CatchWith(f, e))
<1>1. PICK success, finish, error, weak :
        /\ success = Call("TrySetSuccess", f, NoFuture, f, TRUE)
        /\ finish = Call("SetFinished", f, NoFuture, f, FALSE)
        /\ error = Call("TrySetError", f, e, f, TRUE)
        /\ weak = Call("TrySetError", f, e, f, FALSE)
  OBVIOUS
<1>2. /\ success \in Calls /\ finish \in Calls /\ error \in Calls /\ weak \in Calls
      /\ success.call = "TrySetSuccess" /\ finish.call = "SetFinished"
      /\ error.call = "TrySetError" /\ error.cur = error.fut
      /\ weak.call = "TrySetError" /\ weak.cur = weak.fut
  <2>1. /\ "TrySetSuccess" \in CallNames /\ NoFuture \in Args("TrySetSuccess")
        /\ "SetFinished" \in CallNames /\ NoFuture \in Args("SetFinished")
        /\ "TrySetError" \in CallNames /\ e \in Args("TrySetError")
    BY DEF CallNames, Args
  <2>2. success \in Calls /\ finish \in Calls /\ error \in Calls /\ weak \in Calls
    BY <1>1, <2>1, CallTyped
  <2> QED BY <1>1, <2>2 DEF Call
<1>3. OwnError(success) /\ OwnError(finish) /\ OwnError(error) /\ OwnError(weak)
  BY <1>2 DEF OwnError
<1>4. PlainCalls(SetValue(f, f, TRUE))
  <2>1. PICK x \in Calls : /\ SetValue(f, f, TRUE) = <<x>>
                           /\ x.call \in {"TrySetSuccess", "TryStartSetValue"} /\ OwnError(x)
    BY SetValuePlain
  <2>2. PlainCalls(<<x>>) BY <2>1, OnePlain
  <2> QED BY <2>1, <2>2
<1>5. CASE Kind[f] = "completion"
  <2>1. PICK t \in Futures : t = Target[f] BY <1>5, FutureAssumption
  <2>2. PICK x \in Calls : /\ SetValue(t, f, FALSE) = <<x>>
                           /\ x.call \in {"TrySetSuccess", "TryStartSetValue"} /\ OwnError(x)
    BY SetValuePlain
  <2>3. TaskInvoke(f) = <<success>> \o <<x>>
    BY <1>1, <1>5, <2>1, <2>2, Zenon DEF TaskInvoke, FutureCompletionTaskInvoke
  <2>4. PlainCalls(<<success>> \o <<x>>) BY <1>2, <1>3, <2>2, TwoPlain
  <2>5. PICK forward : forward = Call("TrySetError", t, e, f, FALSE) OBVIOUS
  <2>6. CatchWith(f, e) = <<forward, error>> BY <1>1, <1>5, <2>1, <2>5, Zenon DEF CatchWith
  <2>7. forward \in Calls /\ forward.call = "TrySetError" /\ forward.fut = t
    <3>1. "TrySetError" \in CallNames /\ e \in Args("TrySetError") BY DEF CallNames, Args
    <3>2. forward \in Calls BY <2>5, <3>1, CallTyped
    <3> QED BY <2>5, <3>2 DEF Call
  <2>8. OwnError(forward) BY <1>5, <2>1, <2>7 DEF OwnError
  <2>9. PlainCalls(<<forward, error>>) BY <1>2, <1>3, <2>7, <2>8, TwoPlain
  <2> QED BY <2>3, <2>4, <2>6, <2>9
<1>6. CASE Kind[f] = "wait"
  <2>1. Kind[f] # "completion" BY <1>6
  <2>2. TaskInvoke(f) = <<success, finish>>
    BY <1>1, <1>6, <2>1, Zenon DEF TaskInvoke, FutureWaitTaskInvoke
  <2>3. CatchWith(f, e) = <<error, finish>> BY <1>1, <1>6, <2>1, Zenon DEF CatchWith
  <2> QED BY <1>2, <1>3, <2>2, <2>3, TwoPlain
<1>7. CASE Kind[f] \notin {"completion", "wait"}
  <2>1. TaskInvoke(f) = SetValue(f, f, TRUE) BY <1>7, Zenon DEF TaskInvoke, CopyTaskInvoke
  <2>2. CatchWith(f, e) = SetValue(f, f, TRUE) \/ CatchWith(f, e) = <<weak>>
    BY <1>1, <1>7, Zenon DEF CatchWith
  <2>3. PlainCalls(<<weak>>) BY <1>2, <1>3, OnePlain
  <2> QED BY <1>4, <2>1, <2>2, <2>3
<1> QED BY <1>5, <1>6, <1>7

(* A step that links a continuation to its parent and makes one call that  *)
(* holds it.                                                               *)
LEMMA LinkKept ==
  ASSUME Kept, NEW th \in Threads, NEW calls \in Seq(Calls), Shifted(th, calls),
         1 \in DOMAIN todo[th] => todo[th][1].call \notin {"AddContinuation", "TryPost"},
         NEW p \in Parents, NEW d \in Futures, ~IsMade(d), links' = links \cup {<<p, d>>},
         UNCHANGED <<m_link, continuation, state>>,
         NEW n \in DOMAIN calls,
         \/ calls[n].call = "AddContinuation" /\ calls[n].fut = p /\ calls[n].arg = d
         \/ calls[n].call = "TryPost" /\ calls[n].arg = p /\ calls[n].fut = d,
         \A i \in DOMAIN calls : i # n => calls[i].call \notin {"AddContinuation", "TryPost"},
         \A i \in DOMAIN calls : calls[i].call # "TrySetError"
  PROVE  KeptStep(th)
<1>1. TypeOK /\ AllKept /\ DoneWords /\ IsFiniteSet(Futures) BY DEF Kept, IInv
<1>2. ResultOK(d) /\ ListOK(d) BY DEF Kept, GraphInv, AllWords
<1>3. ~Linked(d) BY DEF Linked, IsMade
<1>4. state[d] = "Pending" BY <1>2 DEF ResultOK, MayStart, IsMade
<1>5. m_link[d] \notin Futures BY <1>2, <1>3 DEF ListOK
<1>6. \A c \in Futures : KeptOnce(c)' BY <1>1, <1>3, <1>4, <1>5, KeptEnters DEF AllKept
<1>7. AllKept' BY <1>6 DEF AllKept
<1>8. DoneWords' BY <1>1 DEF DoneWords
<1>9. \A i \in DOMAIN calls : OwnError(calls[i]) BY DEF OwnError
<1> QED BY <1>7, <1>8, <1>9 DEF KeptStep, KeepsPlaces

(* A call returns after it has made such calls.                            *)
LEMMA PlainKept ==
  ASSUME Kept, NEW th \in Threads, NEW name, NextCall(th, name),
         name \notin {"AddContinuation", "TryPost"}, NEW calls, PlainCalls(calls), Return(th, calls),
         UNCHANGED <<m_link, continuation, links, state>>
  PROVE  KeptStep(th)
<1>1. PICK op \in Calls : /\ op.call = name /\ op.fut \in Futures
                          /\ 1 \in DOMAIN todo[th] /\ todo[th][1] = op
  BY TopCall
<1>2. calls \in Seq(Calls) BY DEF PlainCalls
<1>3. Shifted(th, calls) BY <1>2, ReturnShifts DEF Kept, IInv
<1>4. todo[th][1].call \notin {"AddContinuation", "TryPost"} BY <1>1
<1>5. op.fut \in Futures BY <1>1
<1>6. \A i \in DOMAIN calls : /\ calls[i].call \notin {"AddContinuation", "TryPost"}
                              /\ OwnError(calls[i])
  BY DEF PlainCalls
<1> QED BY <1>2, <1>3, <1>4, <1>5, <1>6, QuietKept

(* A callback of the user sets its future, or has it await another one.    *)
LEMMA UserCallbackKept ==
  ASSUME Kept, NEW th \in Threads, NextCall(th, "RunTask"), NEW f \in Futures, UserCallback(th, f),
         UNCHANGED <<m_link, continuation, state>>
  PROVE  KeptStep(th)
<1>1. PICK op \in Calls : op.call = "RunTask" /\ 1 \in DOMAIN todo[th] /\ todo[th][1] = op
  BY TopCall
<1>2. CASE Return(th, SetValue(f, f, TRUE)) /\ UNCHANGED links
  <2>1. PICK x \in Calls : /\ SetValue(f, f, TRUE) = <<x>>
                           /\ x.call \in {"TrySetSuccess", "TryStartSetValue"} /\ OwnError(x)
    BY SetValuePlain
  <2>2. PlainCalls(<<x>>) BY <2>1, OnePlain
  <2> QED BY <1>2, <2>1, <2>2, PlainKept
<1>3. PICK error : error = Call("TrySetError", f, f, f, TRUE) OBVIOUS
<1>4. CASE Return(th, <<error>>) /\ UNCHANGED links
  <2>1. error \in Calls /\ error.call = "TrySetError" /\ error.cur = error.fut
    <3>1. "TrySetError" \in CallNames /\ f \in Args("TrySetError") BY DEF CallNames, Args, Errors
    <3>2. error \in Calls BY <1>3, <3>1, CallTyped
    <3> QED BY <1>3, <3>2 DEF Call
  <2>2. PlainCalls(<<error>>) BY <2>1, OnePlain DEF OwnError
  <2> QED BY <1>4, <2>2, PlainKept
<1>5. ASSUME NEW k \in Futures, NEW p \in Futures, ~IsMade(k), links' = links \cup {<<p, k>>},
             Return(th, <<Call("StartAwaiting", f, NoFuture, f, TRUE),
                          Call("AddContinuation", p, k, f, FALSE)>>)
      PROVE  KeptStep(th)
  <2>1. PICK await, add : /\ await = Call("StartAwaiting", f, NoFuture, f, TRUE)
                          /\ add = Call("AddContinuation", p, k, f, FALSE)
    OBVIOUS
  <2>2. /\ await \in Calls /\ await.call = "StartAwaiting"
        /\ add \in Calls /\ add.call = "AddContinuation" /\ add.fut = p /\ add.arg = k
    <3>1. /\ "StartAwaiting" \in CallNames /\ NoFuture \in Args("StartAwaiting")
          /\ "AddContinuation" \in CallNames /\ k \in Args("AddContinuation")
      BY DEF CallNames, Args
    <3>2. await \in Calls /\ add \in Calls BY <2>1, <3>1, CallTyped
    <3> QED BY <2>1, <3>2 DEF Call
  <2>3. PICK calls : calls = <<await, add>> OBVIOUS
  <2>4. Return(th, calls) BY <1>5, <2>1, <2>3, Zenon
  <2>5. calls \in Seq(Calls) /\ DOMAIN calls = {1, 2} /\ calls[1] = await /\ calls[2] = add
    BY <2>2, <2>3, Places, Sequences
  <2>6. Shifted(th, calls) BY <2>4, <2>5, ReturnShifts DEF Kept, IInv
  <2>7. p \in Parents BY DEF Parents
  <2>8. 2 \in DOMAIN calls /\ calls[2].call = "AddContinuation" /\ calls[2].fut = p /\ calls[2].arg = k
    BY <2>2, <2>5
  <2>9. \A i \in DOMAIN calls : /\ i # 2 => calls[i].call \notin {"AddContinuation", "TryPost"}
                                /\ calls[i].call # "TrySetError"
    BY <2>2, <2>5
  <2>10. todo[th][1].call \notin {"AddContinuation", "TryPost"} BY <1>1
  <2> QED BY <1>5, <2>5, <2>6, <2>7, <2>8, <2>9, <2>10, LinkKept
<1> QED BY <1>2, <1>3, <1>4, <1>5, Zenon DEF UserCallback

(* RunTask runs the callback of the user or of the library.                *)
LEMMA RunTaskKept ==
  ASSUME Kept, NEW th \in Threads, RunTask(th)
  PROVE  KeptStep(th)
<1>1. NextCall(th, "RunTask") BY DEF RunTask
<1>2. PICK op \in Calls : /\ op = Head(todo[th]) /\ op.fut \in Futures /\ op.call = "RunTask"
                          /\ 1 \in DOMAIN todo[th] /\ todo[th][1] = op
  BY <1>1, TopCall
<1>3. PICK f \in Futures : f = op.fut BY <1>2
<1>4. PICK e \in Errors \cup {NoError} : e = m_error[f] BY DEF Kept, IInv, TypeOK
<1>5. UNCHANGED <<m_link, continuation, state>> BY DEF RunTask, futureVars
<1>6. Kind[f] = "completion" => HasTaskPost(Target[f])
  <2>1. state[f] = "Invoking"
    <3>1. Runs(op, f) BY <1>2, <1>3 DEF Runs
    <3>2. RanOnce(f) BY DEF Kept, RunInv, SinglePosts
    <3> QED BY <1>2, <3>1, <3>2 DEF RanOnce
  <2>2. Linked(f) BY <2>1 DEF Kept, GraphInv, AllWords, ResultOK, Inherits, Linked
  <2> QED BY <2>2 DEF Kept, GraphInv, LinksOK, CompletionsOK, CompletionOK
<1>7. PlainCalls(TaskInvoke(f)) /\ PlainCalls(CatchWith(f, e)) BY <1>6, TaskPlain
<1>8. PICK success, error : /\ success = Call("TrySetSuccess", f, NoFuture, f, TRUE)
                            /\ error = Call("TrySetError", f, e, f, TRUE)
  OBVIOUS
<1>9. PlainCalls(<<success>>) /\ PlainCalls(<<error>>)
  <2>1. /\ success \in Calls /\ success.call = "TrySetSuccess"
        /\ error \in Calls /\ error.call = "TrySetError" /\ error.cur = error.fut
    <3>1. /\ "TrySetSuccess" \in CallNames /\ NoFuture \in Args("TrySetSuccess")
          /\ "TrySetError" \in CallNames /\ e \in Args("TrySetError")
      BY DEF CallNames, Args
    <3>2. success \in Calls /\ error \in Calls BY <1>8, <3>1, CallTyped
    <3> QED BY <1>8, <3>2 DEF Call
  <2> QED BY <2>1, OnePlain DEF OwnError
<1>10. CASE UserCallback(th, f) BY <1>1, <1>5, <1>10, UserCallbackKept
<1>11. CASE /\ UNCHANGED links
            /\ \/ Return(th, TaskInvoke(f)) \/ Return(th, CatchWith(f, e))
               \/ Return(th, <<success>>) \/ Return(th, <<error>>)
  BY <1>1, <1>5, <1>7, <1>9, <1>11, PlainKept
<1> QED BY <1>2, <1>3, <1>4, <1>8, <1>10, <1>11, Zenon DEF RunTask, TaskCatch

(* Every call of FutureImpl.                                               *)
LEMMA CallStepKept ==
  ASSUME Kept, NEW th \in Threads, CallStep(th)
  PROVE  KeptStep(th)
BY AddContinuationKept, TryPostKept, TaskPostKept, TrySetPostedKept, InvokeKept,
   RunTaskKept, StartAwaitingKept, TryStartSetValueKept, TrySetSuccessKept,
   TrySetErrorKept, SetFailedKept, FinishedKept, Zenon
   DEF CallStep

(* A continuation is made and added to its parent.                         *)
LEMMA ContinueKept ==
  ASSUME Kept, NEW th \in Threads, NEW p \in Futures, NEW c \in Futures, Continue(th, p, c)
  PROVE  KeptStep(th)
<1>1. PICK add : add = Call("AddContinuation", p, c, NoFuture, FALSE) OBVIOUS
<1>2. PICK wait : wait = Call("AwaitFinished", c, NoFuture, NoFuture, FALSE) OBVIOUS
<1>3. /\ add \in Calls /\ add.call = "AddContinuation" /\ add.fut = p /\ add.arg = c
      /\ wait \in Calls /\ wait.call = "AwaitFinished"
  <2>1. /\ "AddContinuation" \in CallNames /\ c \in Args("AddContinuation")
        /\ "AwaitFinished" \in CallNames /\ NoFuture \in Args("AwaitFinished")
    BY DEF CallNames, Args
  <2>2. add \in Calls /\ wait \in Calls BY <1>1, <1>2, <2>1, CallTyped
  <2> QED BY <1>1, <1>2, <2>2 DEF Call
<1>4. PICK rest \in {<<>>, <<wait>>} : ContinueWith(th, p, c, rest)
  BY <1>2, Zenon DEF Continue, Then, Catch, Share, SharedThen, AddFuture, WhenChanged, FutureWait,
     UserCall
<1>5. PICK calls : calls = <<add>> \o rest OBVIOUS
<1>6. /\ calls \in Seq(Calls) /\ 1 \in DOMAIN calls /\ calls[1] = add
      /\ \A i \in DOMAIN calls : i # 1 => calls[i] = wait
  <2>1. CASE rest = <<>> BY <1>3, <1>5, <2>1
  <2>2. CASE rest = <<wait>> BY <1>3, <1>5, <2>2
  <2> QED BY <2>1, <2>2
<1>7. /\ ~IsMade(c) /\ links' = links \cup {<<p, c>>} /\ Begin(th, calls)
      /\ UNCHANGED <<m_link, continuation, state>>
  BY <1>1, <1>4, <1>5, Zenon DEF ContinueWith, UserCall, futureVars
<1>8. Shifted(th, calls) /\ DOMAIN todo[th] = {} BY <1>6, <1>7, BeginShifts DEF Kept, IInv
<1>9. p \in Parents BY DEF Parents
<1>10. /\ \A i \in DOMAIN calls : i # 1 => calls[i].call \notin {"AddContinuation", "TryPost"}
       /\ \A i \in DOMAIN calls : calls[i].call # "TrySetError"
       /\ calls[1].call = "AddContinuation" /\ calls[1].fut = p /\ calls[1].arg = c
  BY <1>3, <1>6
<1> QED BY <1>6, <1>7, <1>8, <1>9, <1>10, LinkKept

(* PostFuture makes a future without a parent, and posts it.               *)
LEMMA PostFutureKept ==
  ASSUME Kept, NEW th \in Threads, NEW c \in Futures, PostFuture(th, c)
  PROVE  KeptStep(th)
<1>1. PICK post : post = Call("TryPost", c, NoFuture, NoFuture, TRUE) OBVIOUS
<1>2. post \in Calls /\ post.call = "TryPost" /\ post.fut = c /\ post.arg = NoFuture
  <2>1. "TryPost" \in CallNames /\ NoFuture \in Args("TryPost") BY DEF CallNames, Args
  <2>2. post \in Calls BY <1>1, <2>1, CallTyped
  <2> QED BY <1>1, <2>2 DEF Call
<1>3. PICK calls : calls = <<post>> OBVIOUS
<1>4. calls \in Seq(Calls) /\ DOMAIN calls = {1} /\ calls[1] = post BY <1>2, <1>3, Places
<1>5. /\ ~IsMade(c) /\ links' = links \cup {<<NoFuture, c>>} /\ Begin(th, calls)
      /\ UNCHANGED <<m_link, continuation, state>>
  BY <1>1, <1>3, Zenon DEF PostFuture, futureVars
<1>6. Shifted(th, calls) /\ DOMAIN todo[th] = {} BY <1>4, <1>5, BeginShifts DEF Kept, IInv
<1>7. NoFuture \in Parents BY DEF Parents
<1>8. /\ 1 \in DOMAIN calls /\ \A i \in DOMAIN calls : i = 1
      /\ \A i \in DOMAIN calls : calls[i].call # "TrySetError"
      /\ calls[1].call = "TryPost" /\ calls[1].arg = NoFuture /\ calls[1].fut = c
  BY <1>2, <1>4
<1> QED BY <1>4, <1>5, <1>6, <1>7, <1>8, LinkKept

(* Calls from outside of the library that link nothing.                    *)
LEMMA OutsideKept ==
  ASSUME Kept, NEW th \in Threads, NEW calls, PlainCalls(calls), Begin(th, calls),
         NEW f \in Futures, UNCHANGED <<m_link, continuation, links, state>>
  PROVE  KeptStep(th)
<1>1. calls \in Seq(Calls) BY DEF PlainCalls
<1>2. Shifted(th, calls) /\ DOMAIN todo[th] = {} BY <1>1, BeginShifts DEF Kept, IInv
<1>3. \A i \in DOMAIN calls : /\ calls[i].call \notin {"AddContinuation", "TryPost"}
                              /\ OwnError(calls[i])
  BY DEF PlainCalls
<1> QED BY <1>1, <1>2, <1>3, QuietKept

(* A promise is set or dropped.                                            *)
LEMMA SetKept ==
  ASSUME Kept, NEW th \in Threads, NEW f \in Futures, Set(th, f) \/ DropPromise(th, f)
  PROVE  KeptStep(th)
<1>1. IsPromise(f)
  BY DEF Set, PromiseTrySetValue, PromiseTrySetError, PromiseTryCancel, GroupTrySetValue,
     GroupTrySetError, Cancel, Abandon, DropPromise, IsPromise
<1>2. PICK set : set = Call("TrySetSuccess", f, NoFuture, NoFuture, FALSE) OBVIOUS
<1>3. PICK start : start = Call("TryStartSetValue", f, NoFuture, NoFuture, FALSE) OBVIOUS
<1>4. PICK error : error = Call("TrySetError", f, f, NoFuture, FALSE) OBVIOUS
<1>5. PICK cancel : cancel = Call("TrySetError", f, Canceled, NoFuture, FALSE) OBVIOUS
<1>6. PICK drop : drop = Call("TrySetError", f, Canceled, NoFuture, TRUE) OBVIOUS
<1>7. \A x \in {set, start, error, cancel, drop} :
        x \in Calls /\ x.fut = f /\ x.call \in {"TryStartSetValue", "TrySetSuccess", "TrySetError"}
  <2>1. /\ "TrySetSuccess" \in CallNames /\ NoFuture \in Args("TrySetSuccess")
        /\ "TryStartSetValue" \in CallNames /\ NoFuture \in Args("TryStartSetValue")
        /\ "TrySetError" \in CallNames /\ f \in Args("TrySetError") /\ Canceled \in Args("TrySetError")
    BY DEF CallNames, Args, Errors
  <2>2. set \in Calls /\ start \in Calls /\ error \in Calls /\ cancel \in Calls /\ drop \in Calls
    BY <1>2, <1>3, <1>4, <1>5, <1>6, <2>1, CallTyped
  <2>3. \A x \in {set, start, error, cancel, drop} :
          x.fut = f /\ x.call \in {"TryStartSetValue", "TrySetSuccess", "TrySetError"}
    BY <1>2, <1>3, <1>4, <1>5, <1>6 DEF Call
  <2> QED BY <2>2, <2>3
<1>8. SetValue(f, NoFuture, FALSE) \in {<<set>>, <<start>>}
  BY <1>2, <1>3, Zenon DEF SetValue
<1>9. PICK calls \in {<<>>, <<set>>, <<start>>, <<error>>, <<cancel>>, <<drop>>} :
        /\ Begin(th, calls)
        /\ UNCHANGED <<m_link, continuation, links, state>>
  <2>1. CASE Set(th, f)
    <3>1. \E calls \in {SetValue(f, NoFuture, FALSE), <<error>>, <<cancel>>} : SetPromise(th, f, calls)
      BY <1>4, <1>5, <2>1, Zenon DEF Set, PromiseTrySetValue, PromiseTrySetError, PromiseTryCancel,
         GroupTrySetValue, GroupTrySetError, Cancel, Abandon, UserCall
    <3> QED BY <1>8, <3>1, Zenon DEF SetPromise, futureVars, userVars
  <2>2. CASE DropPromise(th, f)
    BY <1>6, <2>2, Zenon DEF DropPromise, futureVars
  <2> QED BY <2>1, <2>2
<1>10. \A x \in {set, start, error, cancel, drop} : PlainCalls(<<x>>)
  <2> TAKE x \in {set, start, error, cancel, drop}
  <2>1. x \in Calls /\ x.call \notin {"AddContinuation", "TryPost"} BY <1>7
  <2>2. OwnError(x) BY <1>1, <1>7 DEF OwnError
  <2> QED BY <2>1, <2>2, OnePlain
<1>11. PlainCalls(<<>>) BY DEF PlainCalls
<1> QED BY <1>9, <1>10, <1>11, OutsideKept

(* An executor runs or cancels a callback that it kept.                    *)
LEMMA RunQueuedKept ==
  ASSUME Kept, NEW th \in Threads, NEW f \in Futures, RunQueued(th, f)
  PROVE  KeptStep(th)
<1>1. PICK invoke : invoke = Call("Invoke", f, NoFuture, NoFuture, FALSE) OBVIOUS
<1>2. PICK cancel : cancel = Call("TrySetError", f, Canceled, NoFuture, FALSE) OBVIOUS
<1>3. /\ invoke \in Calls /\ invoke.call = "Invoke"
      /\ cancel \in Calls /\ cancel.call = "TrySetError" /\ cancel.fut = f
  <2>1. /\ "Invoke" \in CallNames /\ NoFuture \in Args("Invoke")
        /\ "TrySetError" \in CallNames /\ Canceled \in Args("TrySetError")
    BY DEF CallNames, Args, Errors
  <2>2. invoke \in Calls /\ cancel \in Calls BY <1>1, <1>2, <2>1, CallTyped
  <2> QED BY <1>1, <1>2, <2>2 DEF Call
<1>4. /\ f \in queued /\ (Begin(th, <<invoke>>) \/ Begin(th, <<cancel>>))
      /\ UNCHANGED <<m_link, continuation, links, state>>
  BY <1>1, <1>2, Zenon DEF RunQueued, UserCall, futureVars
<1>5. HasTaskPost(f) BY <1>4 DEF Kept, GraphInv, AllWords, ResultOK
<1>6. PlainCalls(<<invoke>>) BY <1>3, OnePlain DEF OwnError
<1>7. PlainCalls(<<cancel>>) BY <1>3, <1>5, OnePlain DEF OwnError
<1> QED BY <1>4, <1>6, <1>7, OutsideKept

(* Every step keeps the places of the continuations.                       *)
LEMMA StepKept ==
  ASSUME SinglePosts, IsFiniteSet(Futures), IInv, RunInv, GraphInv, KeptInv, [Next]_vars
  PROVE  KeptInv'
<1>1. CASE UNCHANGED vars
  <2>1. UNCHANGED <<todo, links, m_link, continuation, state, crashed>>
    BY <1>1 DEF vars, futureVars, userVars
  <2>2. OwnErrors' <=> OwnErrors BY <2>1 DEF OwnErrors, OwnError
  <2>3. DoneWords' <=> DoneWords BY <2>1 DEF DoneWords
  <2>4. ASSUME NEW c \in Futures PROVE KeptOnce(c)' <=> KeptOnce(c)
    <3>1. \A p : Waits(p, c)' <=> Waits(p, c) BY <2>1 DEF Waits
    <3>2. \A p : InList(p, c)' <=> InList(p, c) BY <2>1 DEF InList
    <3>3. \A p : HeldBy(p, c)' <=> HeldBy(p, c) BY <2>1 DEF HeldBy, Holds
    <3>4. HeldOnce(c)' <=> HeldOnce(c) BY <2>1 DEF HeldOnce, Holds, Parents
    <3>5. LinkEnds(c)' <=> LinkEnds(c) BY <2>1, <3>1 DEF LinkEnds, Parents
    <3>6. ListedOnce(c)' <=> ListedOnce(c) BY <3>2, <3>3 DEF ListedOnce, Parents
    <3> QED BY <3>1, <3>2, <3>3, <3>4, <3>5, <3>6 DEF KeptOnce, Parents
  <2>5. AllKept' <=> AllKept BY <2>4 DEF AllKept
  <2> QED BY <2>1, <2>2, <2>3, <2>5 DEF KeptInv
<1>2. CASE Next
  <2>1. Kept BY <1>2 DEF Next, KeptInv, Kept
  <2>2. PICK th \in Threads : KeptStep(th)
    <3>1. CASE \E th \in Threads : CallStep(th) BY <2>1, <3>1, CallStepKept
    <3>2. CASE \E th \in Users : UserStep(th)
      <4>1. PICK th \in Users, f \in Futures :
              \/ \E c \in Futures : Continue(th, f, c)
              \/ WhenAll(th, f) \/ WhenAny(th, f)
              \/ PostFuture(th, f) \/ Set(th, f) \/ DropPromise(th, f)
        BY <3>2, Zenon DEF UserStep
      <4>2. ~WhenAll(th, f) /\ ~WhenAny(th, f) BY DEF SinglePosts, IsMultiPost, WhenAll, WhenAny
      <4>3. th \in Threads BY DEF Threads
      <4> QED BY <2>1, <4>1, <4>2, <4>3, ContinueKept, PostFutureKept, SetKept
    <3>3. CASE \E th \in Executors, f \in Futures : RunQueued(th, f)
      <4>1. PICK th \in Executors, f \in Futures : RunQueued(th, f) BY <3>3
      <4>2. th \in Threads BY DEF Threads
      <4> QED BY <2>1, <4>1, <4>2, RunQueuedKept
    <3> QED BY <1>2, <3>1, <3>2, <3>3 DEF Next
  <2> QED BY <2>2, KeptStepInv
<1> QED BY <1>1, <1>2

(* At first the tokens are in the lists of their sources.                  *)
LEMMA InitKept ==
  ASSUME SinglePosts, IsFiniteSet(Futures), Init
  PROVE  KeptInv
<1>1. /\ \A f \in Futures : state[f] = "Pending" /\ m_link[f] = NoFuture
      /\ \A th \in Threads : DOMAIN todo[th] = {}
      /\ links = TokenLinks
  BY DEF Init
<1>2. NoFuture \notin Futures BY FutureAssumption
<1>3. ASSUME NEW p, NEW c, NEW d, <<p, c>> \in TokenLinks, <<p, d>> \in TokenLinks PROVE c = d
  <2>1. PICK x \in Futures : Kind[x] = "token" /\ <<p, c>> = <<Inputs[x][1], x>>
    BY <1>3 DEF TokenLinks
  <2>2. PICK y \in Futures : Kind[y] = "token" /\ <<p, d>> = <<Inputs[y][1], y>>
    BY <1>3 DEF TokenLinks
  <2> QED BY <2>1, <2>2, TokenAssumption
<1>4. TokenLinks \subseteq Futures \X Futures
  <2> SUFFICES ASSUME NEW x \in Futures, Kind[x] = "token" PROVE Inputs[x][1] \in Futures
    BY DEF TokenLinks
  <2>1. Inputs[x] \in Seq(Futures) /\ Inputs[x] # <<>> BY FutureAssumption
  <2> QED BY <2>1
<1>5. ASSUME NEW p \in Futures, NEW c \in Futures
      PROVE  continuation[p] = c <=> <<p, c>> \in TokenLinks
  <2>1. continuation[p] = IF \E d \in Futures : <<p, d>> \in TokenLinks
                          THEN CHOOSE d \in Futures : <<p, d>> \in TokenLinks
                          ELSE NoFuture
    BY DEF Init
  <2>2. CASE \E d \in Futures : <<p, d>> \in TokenLinks
    <3>1. <<p, continuation[p]>> \in TokenLinks BY <2>1, <2>2
    <3> QED BY <1>3, <3>1
  <2>3. CASE ~\E d \in Futures : <<p, d>> \in TokenLinks BY <1>2, <2>1, <2>3
  <2> QED BY <2>2, <2>3
<1>6. \A x \in Futures : ChainOf(m_link, x) = {x, NoFuture}
  <2> TAKE x \in Futures
  <2>1. PICK n : n = NoFuture OBVIOUS
  <2>2. ChainOf(m_link, n) = {n} BY <1>2, <2>1, ChainStep
  <2>3. m_link[x] = n BY <1>1, <2>1
  <2>4. ChainOf(m_link, x) = {x} \cup ChainOf(m_link, m_link[x]) BY ChainStep
  <2> QED BY <2>1, <2>2, <2>3, <2>4
<1>7. \A x : x \notin Futures => ChainOf(m_link, x) = {x} BY ChainStep
<1>8. \A p \in Parents, c \in Futures : InList(p, c) <=> <<p, c>> \in TokenLinks
  <2> TAKE p \in Parents, c \in Futures
  <2>1. CASE p \notin Futures BY <1>4, <2>1 DEF InList
  <2>2. CASE p \in Futures
    <3>1. PICK x : x = continuation[p] OBVIOUS
    <3>2. c \in ChainOf(m_link, x) <=> c = x BY <1>2, <1>6, <1>7
    <3> QED BY <1>5, <2>2, <3>1, <3>2 DEF InList
  <2> QED BY <2>1, <2>2
<1>9. ASSUME NEW c \in Futures PROVE KeptOnce(c)
  <2>1. \A p \in Parents : ~HeldBy(p, c) BY <1>1 DEF HeldBy
  <2>2. \A p \in Parents : Waits(p, c) <=> InList(p, c) BY <1>1, <1>8 DEF Waits
  <2>3. HeldOnce(c) BY <1>1 DEF HeldOnce
  <2>4. \A p, q \in Parents : InList(p, c) /\ InList(q, c) => p = q
    <3> SUFFICES ASSUME NEW p, NEW q, <<p, c>> \in TokenLinks, <<q, c>> \in TokenLinks PROVE p = q
      BY <1>8
    <3> QED BY DEF TokenLinks
  <2>5. LinkEnds(c)
    <3>1. m_link[c] = NoFuture BY <1>1
    <3>2. ChainOf(m_link, NoFuture) = {NoFuture} BY <1>2, <1>7
    <3> QED BY <1>1, <1>2, <3>1, <3>2 DEF LinkEnds
  <2> QED BY <2>1, <2>2, <2>3, <2>4, <2>5 DEF KeptOnce, ListedOnce
<1>10. AllKept BY <1>9 DEF AllKept
<1>11. DoneWords BY <1>1 DEF DoneWords, Done
<1>12. OwnErrors BY <1>1 DEF OwnErrors
<1> QED BY <1>10, <1>11, <1>12 DEF KeptInv

(* The invariant says that a continuation is in hand exactly until it is   *)
(* posted.                                                                 *)
LEMMA KeptInHand ==
  ASSUME SinglePosts, KeptInv
  PROVE  ContinuationsKept
<1> SUFFICES ASSUME NEW p \in Futures, NEW c \in Futures, <<p, c>> \in links, ~crashed
             PROVE  state[c] = "Pending" <=> InHand(p, c)
  BY DEF ContinuationsKept
<1>1. p \in Parents /\ KeptOnce(c) BY DEF KeptInv, AllKept, Parents
<1>2. state[c] = "Pending" <=> HeldBy(p, c) \/ InList(p, c) BY <1>1 DEF KeptOnce, Waits
<1>3. \A x : Chain(x) = ChainOf(m_link, x) BY DEF Chain, ChainOf
<1>4. ASSUME NEW name, NEW op
      PROVE  op \in CallsOf(name) <=>
               op.call = name /\ \E th \in Threads : \E i \in DOMAIN todo[th] : op = todo[th][i]
  BY DEF CallsOf
<1>5. HeldBy(p, c) <=> \/ \E op \in CallsOf("AddContinuation") : op.fut = p /\ op.arg = c
                       \/ \E op \in CallsOf("TryPost") : op.arg = p /\ c \in ChainOf(m_link, op.fut)
  BY <1>4 DEF HeldBy, Holds
<1>6. InHand(p, c) <=>
        \/ \E op \in CallsOf("AddContinuation") : op.fut = p /\ op.arg = c
        \/ c \in ChainOf(m_link, continuation[p])
        \/ \E op \in CallsOf("TryPost") : op.arg = p /\ c \in ChainOf(m_link, op.fut)
  BY <1>3, Zenon DEF InHand
<1> QED BY <1>2, <1>5, <1>6 DEF InList

(* No continuation is lost in the race between AddContinuation and the     *)
(* completion of its parent, nor posted before or without it.              *)
THEOREM ContinuationsNeverLost ==
  ASSUME SinglePosts, IsFiniteSet(Futures)
  PROVE  Spec => []ContinuationsKept
<1>1. Init => KeptInv BY InitKept
<1>2. IInv /\ RunInv /\ GraphInv /\ KeptInv /\ [Next]_vars => KeptInv' BY StepKept
<1>3. KeptInv => ContinuationsKept BY KeptInHand
<1> QED BY <1>1, <1>2, <1>3, InitIInv, InitRunInv, InitGraphInv, StepAll, PTL DEF Spec
=============================================================================
