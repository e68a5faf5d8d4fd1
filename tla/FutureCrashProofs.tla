--------------------------- MODULE FutureCrashProofs ---------------------------
(***************************************************************************)
(* No VerifyElseCrash of futureImpl.cpp fails, for any finite graph of     *)
(* futures without WhenAll and WhenAny and any threads.  The calls that    *)
(* move a future have an owner, and the proof follows who that is.         *)
(***************************************************************************)
EXTENDS FutureProofs

(* Every promise and group has a value, and a source is set by one thread: *)
(* two threads that set one without a value race in TrySetSuccess, and the *)
(* later one finds the placeholder.                                        *)
NoVoidRace ==
  /\ \A f \in Void : Kind[f] \notin {"promise", "group"}
  /\ \A u, v \in SourceUsers : u = v

(* The calls that may move f, which nobody else may move then: all of them *)
(* but the competing ones of a promise that still has a handle.            *)
Moving == {"TaskPost", "Invoke", "RunTask", "StartAwaiting", "TryStartSetValue",
           "TrySetSuccess", "TrySetError", "SetFailed"}
Exclusive(d, f) == Kind[f] \notin {"promise", "group"} \/ f \in d
Owns(d, op, f) ==
  /\ op.fut = f
  /\ op.call \in Moving
  /\ op.call \notin {"TryStartSetValue", "TrySetError"} \/ op.strict \/ Exclusive(d, f)
NoOwner(f) == \A th \in Threads : \A i \in DOMAIN todo[th] : ~Owns(dropped, todo[th][i], f)
OneOwner(f) ==
  \A th, u \in Threads : \A i \in DOMAIN todo[th], j \in DOMAIN todo[u] :
    Owns(dropped, todo[th][i], f) /\ Owns(dropped, todo[u][j], f) => th = u /\ i = j
Owned(f) ==
  /\ OneOwner(f)
  /\ f \in queued \/ (state[f] = "Pending" /\ ~IsPromise(f)) => NoOwner(f)
  /\ Kind[f] = "source" => \A th \in Threads : \A i \in DOMAIN todo[th] :
                             Owns(dropped, todo[th][i], f) => th \in SourceUsers

(* A call that may not be turned down finds the state it needs.            *)
Strict(s, d, op) ==
  LET f == op.fut
      own == op.cur = op.fut
  IN /\ op.call = "TaskPost" \/ (op.call = "Invoke" /\ own) => s[f] \in {"Posting", "Posted"}
     /\ op.call = "StartAwaiting" => s[f] = "Invoking"
     /\ op.call = "TryStartSetValue" /\ op.strict => own /\ s[f] = "Invoking" /\ ~IsVoidValue(f)
     /\ op.call = "TrySetSuccess" =>
          IF IsVoidValue(f) THEN op.strict => own /\ s[f] = "Invoking" ELSE s[f] = "SettingResult"
     /\ op.call = "TrySetError" /\ op.strict =>
          \/ own /\ s[f] = "Invoking"
          \/ s[f] = "Pending" /\ IsPromise(f) /\ f \in d
     /\ op.call = "SetFailed" => s[f] = "SettingResult"

(* While f awaits another future, only StartAwaiting may be pending of it, *)
(* before the call that adds the completion k.                             *)
Awaits(s, k) == /\ s[1].call = "StartAwaiting"
                /\ 2 \in DOMAIN s /\ s[2].call = "AddContinuation" /\ s[2].arg = k
Awaited(k) ==
  Kind[k] = "completion" /\ Linked(k) /\ runs[k] = 0 =>
    \A th \in Threads : \A i \in DOMAIN todo[th] :
      Owns(dropped, todo[th][i], Target[k]) => i = 1 /\ Awaits(todo[th], k)

(* The first continuation of a unique future is added to an empty list.    *)
Adds(op, p) == op.call = "AddContinuation" /\ op.fut = p
Alone(p) ==
  ~IsShared(p) =>
    \A th, u \in Threads : \A i \in DOMAIN todo[th], j \in DOMAIN todo[u] :
      /\ Adds(todo[th][i], p) /\ Kind[todo[th][i].arg] # "shared"
      => /\ continuation[p] = NoFuture
         /\ Adds(todo[u][j], p) => th = u /\ i = j

(* The result of a future is set by a call that ends it.                   *)
EndsIt(op, f) == op.fut = f /\ op.call \in {"TrySetSuccess", "SetFailed"}
Ending(f) ==
  state[f] = "SettingResult" => \E th \in Threads : \E i \in DOMAIN todo[th] : EndsIt(todo[th][i], f)

(* What the words of the futures say of crashes.                           *)
Sound(f) ==
  /\ continuation[f] # NoFuture => \E c \in Futures : <<f, c>> \in links
  /\ <<NoFuture, f>> \in links => m_link[f] = NoFuture
  /\ Kind[f] = "shared" /\ state[f] \in {"Posting", "Posted", "Invoking"} /\ m_error[f] = NoError
       => m_link[f] # NoFuture
  /\ IsPromise(f) => state[f] \in {"Pending", "SettingResult"} \cup Done

AllStrict == \A th \in Threads : \A i \in DOMAIN todo[th] : Strict(state, dropped, todo[th][i])
CrashInv ==
  /\ ~crashed /\ AllStrict
  /\ \A f \in Futures : Owned(f) /\ Awaited(f) /\ Alone(f) /\ Ending(f) /\ Sound(f)
-----------------------------------------------------------------------------
(* What the steps start from.                                              *)
Live == Kept /\ CrashInv /\ NoVoidRace

TopOwns(th, f) == 1 \in DOMAIN todo[th] /\ Owns(dropped, todo[th][1], f)
TopEnds(th, f) == 1 \in DOMAIN todo[th] /\ EndsIt(todo[th][1], f)
TopIs(th, name) == 1 \in DOMAIN todo[th] /\ todo[th][1].call = name

(* A call may come to own f when nobody does: a promise is set, f starts,  *)
(* or a completion of f has run.                                           *)
Fresh(th, f) ==
  /\ Kind[f] = "source" => th \in SourceUsers
  /\ \/ IsPromise(f)
     \/ runs[f] = 0
     \/ \E k \in Futures : Kind[k] = "completion" /\ Linked(k) /\ Target[k] = f /\ runs'[k] # 0

(* What a step of th that makes these calls may do to f.                   *)
OwnerStep(th, calls, f) ==
  /\ \A i, j \in DOMAIN calls : Owns(dropped', calls[i], f) /\ Owns(dropped', calls[j], f) => i = j
  /\ \A i \in DOMAIN calls : Owns(dropped', calls[i], f) =>
       /\ f \notin queued' /\ (IsPromise(f) \/ state'[f] # "Pending")
       /\ TopOwns(th, f) \/ (NoOwner(f) /\ Fresh(th, f))
  /\ f \in queued' => f \in queued \/ TopOwns(th, f)
  /\ f \in dropped' => f \in dropped \/ \A u \in Threads : \A i \in DOMAIN todo[u] : todo[u][i].fut # f
MoveStep(th, calls, f) ==
  /\ \/ state'[f] = state[f] \/ TopOwns(th, f)
     \/ state[f] = "Pending" /\ NoOwner(f)
     \/ state[f] = "Posting" /\ state'[f] = "Posted"
  /\ state'[f] = "SettingResult" =>
       \/ state[f] = "SettingResult" /\ ~TopEnds(th, f)
       \/ \E i \in DOMAIN calls : EndsIt(calls[i], f)
FutureStep(th, calls, f) == OwnerStep(th, calls, f) /\ MoveStep(th, calls, f) /\ Sound(f)'

(* What it may add, and when f comes to await another future.              *)
AddStep(th, calls) ==
  /\ \A i, j \in DOMAIN calls :
       calls[i].call = "AddContinuation" /\ calls[j].call = "AddContinuation" => i = j
  /\ \A i \in DOMAIN calls : calls[i].call = "AddContinuation" =>
       CanContinue(calls[i].fut, calls[i].arg) /\ ~TopIs(th, "AddContinuation")
  /\ \A p \in Futures : \/ continuation'[p] = continuation[p] \/ continuation[p] # NoFuture
                        \/ 1 \in DOMAIN todo[th] /\ Adds(todo[th][1], p)
AwaitStep(th, calls) ==
  /\ \A k \in Futures : runs'[k] = 0 => runs[k] = 0
  /\ TopIs(th, "StartAwaiting") => calls = <<>>
  /\ \A k \in Futures : Kind[k] = "completion" /\ Linked(k)' /\ ~Linked(k) =>
       /\ TopOwns(th, Target[k])
       /\ \A i \in DOMAIN calls : Owns(dropped', calls[i], Target[k]) => i = 1 /\ Awaits(todo'[th], k)

SoundStep(th, calls) ==
  /\ ~crashed' /\ Shifted(th, calls) /\ dropped \subseteq dropped'
  /\ \A u \in Threads : u # th => todo'[u] = todo[u]
  /\ \A i \in DOMAIN calls : Strict(state', dropped', calls[i])
  /\ \A f \in Futures : FutureStep(th, calls, f)
  /\ AddStep(th, calls) /\ AwaitStep(th, calls)
CrashStep(th) == \E calls \in Seq(Calls) : SoundStep(th, calls)

(* Only a future that was just dropped gets owners, among the calls made.  *)
LEMMA OwnsBefore ==
  ASSUME NEW th \in Threads, NEW calls, NEW f \in Futures, OwnerStep(th, calls, f),
         NEW u \in Threads, NEW k \in DOMAIN todo[u], Owns(dropped', todo[u][k], f)
  PROVE  Owns(dropped, todo[u][k], f)
BY DEF OwnerStep, Owns, Exclusive

(* One call at most owns f.                                                *)
LEMMA OwnedAfter ==
  ASSUME NEW th \in Threads, NEW calls, Shifted(th, calls), NEW f \in Futures,
         Owned(f), OwnerStep(th, calls, f), state[f] # "Pending" => state'[f] # "Pending"
  PROVE  Owned(f)'
<1>1. ASSUME NEW u \in Threads, NEW i \in DOMAIN todo'[u], Owns(dropped', todo'[u][i], f)
      PROVE  \/ u = th /\ i \in DOMAIN calls /\ Owns(dropped', calls[i], f)
             \/ \E k \in DOMAIN todo[u] : /\ Owns(dropped, todo[u][k], f)
                                          /\ u = th => k # 1 /\ i = k + Len(calls) - 1 /\ k \in Nat
                                          /\ u # th => k = i
  <2>1. CASE u = th /\ i \in DOMAIN calls /\ todo'[u][i] = calls[i] BY <1>1, <2>1
  <2>2. ASSUME NEW k \in DOMAIN todo[u], todo'[u][i] = todo[u][k],
               u = th => k # 1 /\ i = k + Len(calls) - 1 /\ k \in Nat, u # th => k = i
        PROVE  \E l \in DOMAIN todo[u] : /\ Owns(dropped, todo[u][l], f)
                                         /\ u = th => l # 1 /\ i = l + Len(calls) - 1 /\ l \in Nat
                                         /\ u # th => l = i
    <3>1. Owns(dropped', todo[u][k], f) BY <1>1, <2>2
    <3>2. Owns(dropped, todo[u][k], f) BY <3>1, OwnsBefore
    <3> QED BY <2>2, <3>2
  <2> QED BY <1>1, <2>1, <2>2 DEF Shifted
<1>2. /\ OneOwner(f)
      /\ f \in queued \/ (state[f] = "Pending" /\ ~IsPromise(f)) => NoOwner(f)
      /\ Kind[f] = "source" => \A u \in Threads : \A i \in DOMAIN todo[u] :
                                 Owns(dropped, todo[u][i], f) => u \in SourceUsers
  BY DEF Owned
<1>3. ASSUME NEW i \in DOMAIN calls, Owns(dropped', calls[i], f),
             NEW u \in Threads, NEW k \in DOMAIN todo[u], u = th => k # 1
      PROVE  ~Owns(dropped, todo[u][k], f)
  BY <1>2, <1>3 DEF OwnerStep, TopOwns, OneOwner, NoOwner
<1>4. OneOwner(f)'
  <2>1. ASSUME NEW u \in Threads, NEW v \in Threads, NEW i \in DOMAIN todo'[u], NEW j \in DOMAIN todo'[v],
               Owns(dropped', todo'[u][i], f), Owns(dropped', todo'[v][j], f)
        PROVE  u = v /\ i = j
    <3>1. CASE /\ u = th /\ i \in DOMAIN calls /\ Owns(dropped', calls[i], f)
               /\ v = th /\ j \in DOMAIN calls /\ Owns(dropped', calls[j], f)
      BY <3>1 DEF OwnerStep
    <3>2. ASSUME NEW k \in DOMAIN todo[u], NEW l \in DOMAIN todo[v],
                 Owns(dropped, todo[u][k], f), Owns(dropped, todo[v][l], f),
                 u = th => k # 1 /\ i = k + Len(calls) - 1 /\ k \in Nat, u # th => k = i,
                 v = th => l # 1 /\ j = l + Len(calls) - 1 /\ l \in Nat, v # th => l = j
          PROVE  u = v /\ i = j
      BY <1>2, <3>2 DEF OneOwner
    <3> QED BY <1>1, <1>3, <2>1, <3>1, <3>2
  <2> QED BY <2>1 DEF OneOwner
<1>5. (f \in queued \/ (state[f] = "Pending" /\ ~IsPromise(f)))' => NoOwner(f)'
  <2> SUFFICES ASSUME f \in queued' \/ (state'[f] = "Pending" /\ ~IsPromise(f)),
                      NEW u \in Threads, NEW i \in DOMAIN todo'[u], Owns(dropped', todo'[u][i], f)
               PROVE  FALSE
    BY DEF NoOwner
  <2>1. CASE u = th /\ i \in DOMAIN calls /\ Owns(dropped', calls[i], f) BY <2>1 DEF OwnerStep
  <2>2. ASSUME NEW k \in DOMAIN todo[u], Owns(dropped, todo[u][k], f), u = th => k # 1
        PROVE  FALSE
    BY <1>2, <2>2 DEF OwnerStep, TopOwns, OneOwner, NoOwner
  <2> QED BY <1>1, <2>1, <2>2
<1>6. ASSUME Kind[f] = "source", NEW u \in Threads, NEW i \in DOMAIN todo'[u],
             Owns(dropped', todo'[u][i], f)
      PROVE  u \in SourceUsers
  <2>1. CASE u = th /\ i \in DOMAIN calls /\ Owns(dropped', calls[i], f)
    BY <1>2, <1>6, <2>1 DEF OwnerStep, TopOwns, Fresh
  <2> QED BY <1>1, <1>2, <1>6, <2>1
<1> QED BY <1>4, <1>5, <1>6 DEF Owned

(* A call that may not be turned down keeps the state it needs.            *)
LEMMA StrictAfter ==
  ASSUME NEW f \in Futures, NEW th \in Threads, NEW calls, MoveStep(th, calls, f),
         dropped \subseteq dropped', OneOwner(f),
         NEW u \in Threads, NEW k \in DOMAIN todo[u], u = th => k # 1,
         NEW op \in Calls, op = todo[u][k], op.fut = f, Strict(state, dropped, op)
  PROVE  Strict(state', dropped', op)
<1>1. CASE Owns(dropped, op, f)
  <2>1. ~TopOwns(th, f) /\ ~NoOwner(f) BY <1>1 DEF TopOwns, OneOwner, NoOwner
  <2>2. state'[f] = state[f] \/ (state[f] = "Posting" /\ state'[f] = "Posted")
    BY <2>1 DEF MoveStep
  <2> QED BY <2>2 DEF Strict
<1>2. CASE ~Owns(dropped, op, f)
  <2>1. /\ op.call \notin {"TaskPost", "Invoke", "StartAwaiting", "TrySetSuccess", "SetFailed"}
        /\ op.call \in {"TryStartSetValue", "TrySetError"} => ~op.strict
    BY <1>2 DEF Owns, Moving
  <2> QED BY <2>1 DEF Strict
<1> QED BY <1>1, <1>2

(* A completion that waits finds no owner of its target but StartAwaiting. *)
LEMMA AwaitedAfter ==
  ASSUME Live, NEW th \in Threads, NEW calls, SoundStep(th, calls), NEW k \in Futures
  PROVE  Awaited(k)'
<1> SUFFICES ASSUME Kind[k] = "completion", Linked(k)', runs'[k] = 0,
                    NEW u \in Threads, NEW i \in DOMAIN todo'[u], Owns(dropped', todo'[u][i], Target[k])
             PROVE  i = 1 /\ Awaits(todo'[u], k)
  BY DEF Awaited
<1>1. PICK f \in Futures : f = Target[k] BY FutureAssumption
<1>2. Awaited(k) /\ OneOwner(f) BY <1>1 DEF Live, CrashInv, Owned
<1>3. OwnerStep(th, calls, f) BY DEF SoundStep, FutureStep
<1>4. \/ u = th /\ i \in DOMAIN calls /\ Owns(dropped', calls[i], f)
      \/ \E l \in DOMAIN todo[u] : /\ Owns(dropped', todo[u][l], f) /\ todo'[u][i] = todo[u][l]
                                   /\ u = th => l # 1
                                   /\ u # th => l = i
  BY <1>1 DEF SoundStep, Shifted
<1>5. CASE ~Linked(k)
  <2>1. TopOwns(th, f) /\ \A j \in DOMAIN calls : Owns(dropped', calls[j], f) => j = 1 /\ Awaits(todo'[th], k)
    BY <1>1, <1>5 DEF SoundStep, AwaitStep
  <2>2. ASSUME NEW l \in DOMAIN todo[u], Owns(dropped', todo[u][l], f), u = th => l # 1 PROVE FALSE
    <3>1. Owns(dropped, todo[u][l], f) BY <1>3, <2>2, OwnsBefore
    <3> QED BY <1>2, <2>1, <2>2, <3>1 DEF OneOwner, TopOwns
  <2> QED BY <1>4, <2>1, <2>2
<1>6. CASE Linked(k)
  <2>1. runs[k] = 0 BY DEF SoundStep, AwaitStep
  <2>2. \A v \in Threads : \A j \in DOMAIN todo[v] :
          Owns(dropped, todo[v][j], f) => j = 1 /\ Awaits(todo[v], k)
    BY <1>1, <1>2, <1>6, <2>1 DEF Awaited
  <2>3. ASSUME NEW l \in DOMAIN todo[u], Owns(dropped', todo[u][l], f), todo'[u][i] = todo[u][l],
               u = th => l # 1, u # th => l = i
        PROVE  i = 1 /\ Awaits(todo'[u], k)
    <3>1. Owns(dropped, todo[u][l], f) BY <1>3, <2>3, OwnsBefore
    <3>2. l = 1 /\ Awaits(todo[u], k) BY <2>2, <3>1
    <3>3. u # th /\ todo'[u] = todo[u] BY <2>3, <3>2 DEF SoundStep
    <3> QED BY <2>3, <3>2, <3>3
  <2>4. CASE u = th /\ i \in DOMAIN calls /\ Owns(dropped', calls[i], f)
    <3>1. ~TopOwns(th, f)
      <4> SUFFICES ASSUME TopOwns(th, f) PROVE FALSE OBVIOUS
      <4>1. Awaits(todo[th], k) /\ 1 \in DOMAIN todo[th] BY <2>2 DEF TopOwns
      <4>2. TopIs(th, "StartAwaiting") BY <4>1 DEF Awaits, TopIs
      <4>3. calls = <<>> BY <4>2 DEF SoundStep, AwaitStep
      <4> QED BY <2>4, <4>3
    <3>2. Fresh(th, f) BY <1>3, <2>4, <3>1 DEF OwnerStep
    <3>3. CompletionsOK BY DEF Live, Kept, GraphInv, LinksOK
    <3>4. /\ HasTaskPost(f) /\ runs[f] # 0
          /\ \A l \in Futures : Linked(l) /\ Target[l] = f => l = k
      BY <1>1, <1>6, <3>3 DEF CompletionsOK, CompletionOK
    <3>5. ~IsPromise(f) BY <3>4 DEF HasTaskPost, IsPromise
    <3> QED BY <3>2, <3>4, <3>5 DEF Fresh
  <2> QED BY <1>4, <2>3, <2>4
<1> QED BY <1>5, <1>6

(* A call that adds c to p could: no other call adds to p, or c is shared. *)
LEMMA AloneAfter ==
  ASSUME Live, NEW th \in Threads, NEW calls \in Seq(Calls), SoundStep(th, calls), NEW p \in Futures
  PROVE  Alone(p)'
<1> SUFFICES ASSUME ~IsShared(p), NEW u \in Threads, NEW v \in Threads,
                    NEW i \in DOMAIN todo'[u], NEW j \in DOMAIN todo'[v],
                    Adds(todo'[u][i], p), Kind[todo'[u][i].arg] # "shared"
             PROVE  /\ continuation'[p] = NoFuture
                    /\ Adds(todo'[v][j], p) => u = v /\ i = j
  BY DEF Alone
<1>1. Alone(p) /\ Sound(p) BY DEF Live, CrashInv
<1>2. ASSUME NEW w \in Threads, NEW n \in DOMAIN todo'[w], Adds(todo'[w][n], p)
      PROVE  \/ w = th /\ n \in DOMAIN calls /\ Adds(calls[n], p) /\ todo'[w][n] = calls[n]
             \/ \E k \in DOMAIN todo[w] : /\ Adds(todo[w][k], p) /\ todo'[w][n] = todo[w][k]
                                          /\ w = th => k # 1 /\ n = k + Len(calls) - 1 /\ k \in Nat
                                          /\ w # th => k = n
  BY <1>2 DEF SoundStep, Shifted
<1>3. \/ continuation'[p] = continuation[p] \/ continuation[p] # NoFuture
      \/ 1 \in DOMAIN todo[th] /\ Adds(todo[th][1], p)
  BY DEF SoundStep, AddStep
<1>4. ASSUME NEW n \in DOMAIN calls, Adds(calls[n], p)
      PROVE  /\ CanContinue(p, calls[n].arg) /\ ~(1 \in DOMAIN todo[th] /\ Adds(todo[th][1], p))
             /\ \A m \in DOMAIN calls : Adds(calls[m], p) => m = n
  BY <1>4 DEF SoundStep, AddStep, Adds, TopIs
<1>5. ASSUME NEW n \in DOMAIN calls, Adds(calls[n], p),
             NEW w \in Threads, NEW k \in DOMAIN todo[w], Adds(todo[w][k], p)
      PROVE  FALSE
  <2>1. PICK op \in Calls : op = todo[w][k] /\ Fits(op)
    <3>1. todo[w] \in Seq(Calls) BY DEF Live, Kept, IInv, TypeOK
    <3>2. todo[w][k] \in Calls BY <3>1
    <3>3. Fits(todo[w][k]) BY DEF Live, Kept, GraphInv, AllFit
    <3> QED BY <3>2, <3>3
  <2>2. op.call = "AddContinuation" /\ op.fut = p /\ op.arg \in Futures
    BY <1>5, <2>1, CallFields DEF Adds, Args
  <2>3. <<p, op.arg>> \in links BY <2>1, <2>2 DEF Fits
  <2>4. ~InProgress(p) BY <1>4, <1>5, <2>2, <2>3 DEF CanContinue
  <2> QED BY <1>5, <2>4 DEF InProgress, Adds
<1>6. CASE u = th /\ i \in DOMAIN calls /\ Adds(calls[i], p) /\ todo'[u][i] = calls[i]
  <2>1. CanContinue(p, calls[i].arg) /\ Kind[calls[i].arg] # "shared" BY <1>4, <1>6
  <2>2. \A d \in Futures : <<p, d>> \notin links BY <2>1 DEF CanContinue
  <2>3. continuation[p] = NoFuture BY <1>1, <2>2 DEF Sound
  <2>4. continuation'[p] = NoFuture BY <1>3, <1>4, <1>6, <2>3
  <2>5. Adds(todo'[v][j], p) => v = th /\ j = i BY <1>2, <1>4, <1>5, <1>6
  <2> QED BY <1>6, <2>4, <2>5
<1>7. ASSUME NEW k \in DOMAIN todo[u], Adds(todo[u][k], p), todo'[u][i] = todo[u][k],
             u = th => k # 1 /\ i = k + Len(calls) - 1 /\ k \in Nat, u # th => k = i
      PROVE  /\ continuation'[p] = NoFuture
             /\ Adds(todo'[v][j], p) => u = v /\ i = j
  <2>1. /\ continuation[p] = NoFuture
        /\ \A w \in Threads : \A l \in DOMAIN todo[w] : Adds(todo[w][l], p) => w = u /\ l = k
    BY <1>1, <1>7 DEF Alone
  <2>2. continuation'[p] = NoFuture BY <1>3, <1>7, <2>1
  <2>3. ASSUME Adds(todo'[v][j], p) PROVE u = v /\ i = j
    <3>1. PICK l \in DOMAIN todo[v] : /\ Adds(todo[v][l], p)
                                      /\ v = th => j = l + Len(calls) - 1
                                      /\ v # th => l = j
      BY <1>2, <1>5, <1>7, <2>3
    <3> QED BY <1>7, <2>1, <3>1
  <2> QED BY <2>2, <2>3
<1> QED BY <1>2, <1>6, <1>7
-----------------------------------------------------------------------------
(* The result of f is still set by a call that ends it.                    *)
LEMMA EndingAfter ==
  ASSUME NEW th \in Threads, NEW calls, Shifted(th, calls), NEW f \in Futures,
         Ending(f), MoveStep(th, calls, f)
  PROVE  Ending(f)'
<1> SUFFICES ASSUME state'[f] = "SettingResult"
             PROVE  \E u \in Threads : \E i \in DOMAIN todo'[u] : EndsIt(todo'[u][i], f)
  BY DEF Ending
<1>1. CASE \E i \in DOMAIN calls : EndsIt(calls[i], f) BY <1>1 DEF Shifted
<1>2. CASE state[f] = "SettingResult" /\ ~TopEnds(th, f)
  <2>1. PICK u \in Threads : \E k \in DOMAIN todo[u] : EndsIt(todo[u][k], f) BY <1>2 DEF Ending
  <2>0. PICK k \in DOMAIN todo[u] : EndsIt(todo[u][k], f) BY <2>1
  <2>2. u = th => k # 1 BY <1>2, <2>0 DEF TopEnds
  <2>3. PICK i \in DOMAIN todo'[u] : todo'[u][i] = todo[u][k] BY <2>2 DEF Shifted
  <2> QED BY <2>0, <2>3
<1> QED BY <1>1, <1>2 DEF MoveStep

(* So such a step keeps the invariant.                                     *)
LEMMA CrashStepInv ==
  ASSUME Live, FollowsArrows, NEW th \in Threads, CrashStep(th)
  PROVE  CrashInv'
<1>1. PICK calls \in Seq(Calls) : SoundStep(th, calls) BY DEF CrashStep
<1>2. TypeOK /\ CrashInv BY DEF Live, Kept, IInv
<1>3. ASSUME NEW f \in Futures PROVE Owned(f)' /\ Awaited(f)' /\ Alone(f)' /\ Ending(f)' /\ Sound(f)'
  <2>1. /\ Shifted(th, calls) /\ OwnerStep(th, calls, f) /\ MoveStep(th, calls, f)
        /\ Sound(f)' /\ Owned(f) /\ Ending(f)
    BY <1>1, <1>2 DEF SoundStep, FutureStep, CrashInv
  <2>2. state[f] # "Pending" => state'[f] # "Pending"
    BY DEF FollowsArrows, Arrows, MultiPostArrows
  <2>3. Owned(f)' BY <2>1, <2>2, OwnedAfter
  <2>4. Ending(f)' BY <2>1, EndingAfter
  <2> QED BY <1>1, <2>1, <2>3, <2>4, AwaitedAfter, AloneAfter
<1>4. ASSUME NEW u \in Threads, NEW i \in DOMAIN todo'[u]
      PROVE  Strict(state', dropped', todo'[u][i])
  <2>1. CASE u = th /\ i \in DOMAIN calls /\ todo'[u][i] = calls[i] BY <1>1, <2>1 DEF SoundStep
  <2>2. ASSUME NEW k \in DOMAIN todo[u], todo'[u][i] = todo[u][k], u = th => k # 1
        PROVE  Strict(state', dropped', todo'[u][i])
    <3>1. todo[u] \in Seq(Calls) BY <1>2 DEF TypeOK
    <3>2. PICK op \in Calls : op = todo[u][k] BY <3>1
    <3>3. PICK f \in Futures : f = op.fut BY CallFields
    <3>4. Strict(state, dropped, op) /\ OneOwner(f) BY <1>2, <3>2 DEF CrashInv, AllStrict, Owned
    <3>5. MoveStep(th, calls, f) /\ dropped \subseteq dropped' BY <1>1 DEF SoundStep, FutureStep
    <3>6. Strict(state', dropped', op) BY <2>2, <3>2, <3>3, <3>4, <3>5, StrictAfter
    <3> QED BY <2>2, <3>2, <3>6
  <2> QED BY <1>1, <1>4, <2>1, <2>2 DEF SoundStep, Shifted
<1>5. AllStrict' BY <1>4 DEF AllStrict
<1>6. ~crashed' BY <1>1 DEF SoundStep
<1> QED BY <1>3, <1>5, <1>6 DEF CrashInv

(* The words of a future that a step leaves alone stay sound.              *)
LEMMA SoundSame ==
  ASSUME NEW f \in Futures, Sound(f), state'[f] = state[f], continuation'[f] = continuation[f],
         m_link'[f] = m_link[f], m_error'[f] = m_error[f], links \subseteq links',
         <<NoFuture, f>> \in links' => <<NoFuture, f>> \in links
  PROVE  Sound(f)'
BY DEF Sound

(* The call on top, with what it relies on.                                *)
LEMMA TopSound ==
  ASSUME Live, NEW th \in Threads, NEW name, NextCall(th, name)
  PROVE  \E op \in Calls : /\ op = Head(todo[th]) /\ op.call = name /\ Fits(op)
                           /\ op.fut \in Futures /\ op.cur \in Futures \cup {NoFuture}
                           /\ op.strict \in BOOLEAN
                           /\ 1 \in DOMAIN todo[th] /\ todo[th][1] = op
                           /\ Strict(state, dropped, op)
<1>1. PICK op \in Calls : /\ op = Head(todo[th]) /\ op.call = name /\ Fits(op)
                          /\ op.fut \in Futures
                          /\ 1 \in DOMAIN todo[th] /\ todo[th][1] = op
  BY TopCall DEF Live
<1>2. op.cur \in Futures \cup {NoFuture} /\ op.strict \in BOOLEAN BY CallFields
<1>3. Strict(state, dropped, op) BY <1>1 DEF Live, CrashInv, AllStrict
<1> QED BY <1>1, <1>2, <1>3

(* Calls that own nothing.                                                 *)
LEMMA OwnsNothing ==
  ASSUME NEW th, NEW calls, NEW f \in Futures, dropped' = dropped,
         \A i \in DOMAIN calls : ~Owns(dropped, calls[i], f),
         f \in queued' => f \in queued
  PROVE  OwnerStep(th, calls, f)
BY DEF OwnerStep

(* The owner of f hands it on to one of the calls it makes.                *)
LEMMA OwnerHandsOn ==
  ASSUME Live, NEW th \in Threads, NEW f \in Futures, TopOwns(th, f), NEW calls, dropped' = dropped,
         NEW n, \A i \in DOMAIN calls : Owns(dropped, calls[i], f) => i = n,
         f \in queued' => f \in queued, IsPromise(f) \/ state'[f] # "Pending"
  PROVE  OwnerStep(th, calls, f)
<1>1. Owned(f) BY DEF Live, CrashInv
<1>2. f \notin queued BY <1>1 DEF Owned, NoOwner, TopOwns
<1> QED BY <1>2 DEF OwnerStep

(* A call returns that changes the word of one future, and adds nothing.   *)
LEMMA OneFutureCrash ==
  ASSUME Live, NEW th \in Threads, NEW name, NextCall(th, name), NEW calls \in Seq(Calls),
         Return(th, calls), ~crashed', UNCHANGED <<links, dropped>>,
         \A k \in Futures : runs'[k] = 0 => runs[k] = 0,
         NEW f \in Futures, NEW op \in Calls, op = Head(todo[th]), op.fut = f,
         \A g \in Futures : g # f =>
           /\ state'[g] = state[g] /\ continuation'[g] = continuation[g]
           /\ m_link'[g] = m_link[g] /\ m_error'[g] = m_error[g]
           /\ OwnerStep(th, calls, g),
         continuation'[f] = continuation[f] \/ continuation[f] # NoFuture,
         \A i \in DOMAIN calls : /\ calls[i].call # "AddContinuation"
                                 /\ Strict(state', dropped', calls[i]),
         name # "StartAwaiting" \/ calls = <<>>,
         OwnerStep(th, calls, f), MoveStep(th, calls, f), Sound(f)'
  PROVE  CrashStep(th)
<1>1. TypeOK BY DEF Live, Kept, IInv
<1>2. 1 \in DOMAIN todo[th] /\ todo[th][1] = op /\ op.call = name
  <2>1. PICK o \in Calls : o = Head(todo[th]) /\ o.call = name /\ 1 \in DOMAIN todo[th] /\ todo[th][1] = o
    BY TopSound
  <2> QED BY <2>1
<1>3. Shifted(th, calls) BY <1>1, ReturnShifts
<1>4. \A u \in Threads : u # th => todo'[u] = todo[u] BY <1>1 DEF TypeOK, Return
<1>5. ASSUME NEW g \in Futures, g # f PROVE FutureStep(th, calls, g)
  <2>1. state'[g] = state[g] /\ OwnerStep(th, calls, g) BY <1>5
  <2>2. ~TopEnds(th, g) BY <1>2, <1>5 DEF TopEnds, EndsIt
  <2>3. MoveStep(th, calls, g) BY <2>1, <2>2 DEF MoveStep
  <2>4. Sound(g) BY DEF Live, CrashInv
  <2>5. Sound(g)' BY <1>5, <2>4, SoundSame
  <2> QED BY <2>1, <2>3, <2>5 DEF FutureStep
<1>6. \A g \in Futures : FutureStep(th, calls, g) BY <1>5 DEF FutureStep
<1>7. AddStep(th, calls) BY DEF AddStep
<1>8. AwaitStep(th, calls) BY <1>2 DEF AwaitStep, TopIs, Linked
<1> QED BY <1>3, <1>4, <1>6, <1>7, <1>8 DEF CrashStep, SoundStep

(* A call that is turned down without a crash.                             *)
LEMMA UnexpectedCrash ==
  ASSUME Live, NEW th \in Threads, NEW name, NextCall(th, name), UnexpectedState(th, FALSE),
         \/ name \notin {"TrySetSuccess", "SetFailed"}
         \/ state[Head(todo[th]).fut] # "SettingResult"
  PROVE  CrashStep(th)
<1>1. PICK op \in Calls : /\ op = Head(todo[th]) /\ op.call = name /\ op.fut \in Futures
                          /\ 1 \in DOMAIN todo[th] /\ todo[th][1] = op
  BY TopSound
<1>2. PICK f \in Futures : f = op.fut BY <1>1
<1>3. /\ Return(th, <<>>) /\ ~crashed'
      /\ UNCHANGED <<links, dropped, runs, state, continuation, m_link, m_error, queued>>
  BY DEF UnexpectedState, futureVars, userVars
<1>4. <<>> \in Seq(Calls) /\ DOMAIN <<>> = {} OBVIOUS
<1>5. \A g \in Futures : OwnerStep(th, <<>>, g) BY <1>3, <1>4, OwnsNothing
<1>6. MoveStep(th, <<>>, f) BY <1>1, <1>2, <1>3 DEF MoveStep, TopEnds, EndsIt
<1>7. Sound(f)' BY <1>3, SoundSame DEF Live, CrashInv
<1> QED BY <1>1, <1>2, <1>3, <1>4, <1>5, <1>6, <1>7, OneFutureCrash

(* TrySetPosted changes nothing but Posting.                               *)
LEMMA TrySetPostedCrash ==
  ASSUME Live, NEW th \in Threads, TrySetPosted(th)
  PROVE  CrashStep(th)
<1>1. NextCall(th, "TrySetPosted") BY DEF TrySetPosted
<1>2. PICK op \in Calls : /\ op = Head(todo[th]) /\ op.call = "TrySetPosted" /\ op.fut \in Futures
                          /\ 1 \in DOMAIN todo[th] /\ todo[th][1] = op
  BY <1>1, TopSound
<1>3. PICK f \in Futures : f = op.fut BY <1>2
<1>4. /\ state' = [state EXCEPT ![f] = IF @ = "Posting" THEN "Posted" ELSE @] /\ Return(th, <<>>)
      /\ UNCHANGED <<links, dropped, runs, continuation, m_link, m_error, queued, crashed>>
  BY <1>2, <1>3, Zenon DEF TrySetPosted, userVars
<1>5. state \in [Futures -> FutureState] /\ ~crashed BY DEF Live, Kept, IInv, TypeOK, CrashInv
<1>6. /\ \A g \in Futures : g # f => state'[g] = state[g]
      /\ state'[f] = state[f] \/ (state[f] = "Posting" /\ state'[f] = "Posted")
  BY <1>4, <1>5
<1>7. <<>> \in Seq(Calls) /\ DOMAIN <<>> = {} OBVIOUS
<1>8. \A g \in Futures : OwnerStep(th, <<>>, g) BY <1>4, <1>7, OwnsNothing
<1>9. MoveStep(th, <<>>, f) BY <1>2, <1>3, <1>4, <1>6 DEF MoveStep, TopEnds, EndsIt
<1>10. Sound(f) BY DEF Live, CrashInv
<1>11. Sound(f)' BY <1>4, <1>6, <1>10 DEF Sound, Done
<1> QED BY <1>1, <1>2, <1>3, <1>4, <1>5, <1>6, <1>7, <1>8, <1>9, <1>11, OneFutureCrash

(* The event of FutureWait changes no future.                              *)
LEMMA FinishedCrash ==
  ASSUME Live, NEW th \in Threads, SetFinished(th) \/ AwaitFinished(th)
  PROVE  CrashStep(th)
<1>1. PICK name \in {"SetFinished", "AwaitFinished"} : NextCall(th, name)
  BY DEF SetFinished, AwaitFinished
<1>2. PICK op \in Calls : /\ op = Head(todo[th]) /\ op.call = name /\ op.fut \in Futures
                          /\ 1 \in DOMAIN todo[th] /\ todo[th][1] = op
  BY <1>1, TopSound
<1>3. PICK f \in Futures : f = op.fut BY <1>2
<1>4. /\ Return(th, <<>>)
      /\ UNCHANGED <<links, dropped, runs, state, continuation, m_link, m_error, queued, crashed>>
  BY DEF SetFinished, AwaitFinished, futureVars, userVars
<1>5. ~crashed BY DEF Live, CrashInv
<1>6. <<>> \in Seq(Calls) /\ DOMAIN <<>> = {} OBVIOUS
<1>7. \A g \in Futures : OwnerStep(th, <<>>, g) BY <1>4, <1>6, OwnsNothing
<1>8. MoveStep(th, <<>>, f) BY <1>2, <1>3, <1>4 DEF MoveStep, TopEnds, EndsIt
<1>9. Sound(f)' BY <1>4, SoundSame DEF Live, CrashInv
<1> QED BY <1>1, <1>2, <1>3, <1>4, <1>5, <1>6, <1>7, <1>8, <1>9, OneFutureCrash

(* StartAwaiting is called of a future whose callback runs.                *)
LEMMA StartAwaitingCrash ==
  ASSUME Live, NEW th \in Threads, StartAwaiting(th)
  PROVE  CrashStep(th)
<1>1. NextCall(th, "StartAwaiting") BY DEF StartAwaiting
<1>2. PICK op \in Calls : /\ op = Head(todo[th]) /\ op.call = "StartAwaiting" /\ op.fut \in Futures
                          /\ 1 \in DOMAIN todo[th] /\ todo[th][1] = op
                          /\ Strict(state, dropped, op)
  BY <1>1, TopSound
<1>3. PICK f \in Futures : f = op.fut BY <1>2
<1>4. state[f] = "Invoking" BY <1>2, <1>3 DEF Strict
<1>5. /\ state' = [state EXCEPT ![f] = "Awaiting"] /\ Return(th, <<>>)
      /\ UNCHANGED <<links, dropped, runs, continuation, m_link, m_error, queued, crashed>>
  BY <1>2, <1>3, <1>4, Zenon DEF StartAwaiting, userVars
<1>6. state \in [Futures -> FutureState] /\ ~crashed BY DEF Live, Kept, IInv, TypeOK, CrashInv
<1>7. state'[f] = "Awaiting" /\ \A g \in Futures : g # f => state'[g] = state[g] BY <1>5, <1>6
<1>8. <<>> \in Seq(Calls) /\ DOMAIN <<>> = {} OBVIOUS
<1>9. \A g \in Futures : OwnerStep(th, <<>>, g) BY <1>5, <1>8, OwnsNothing
<1>10. TopOwns(th, f) BY <1>2, <1>3 DEF TopOwns, Owns, Moving
<1>11. MoveStep(th, <<>>, f) BY <1>7, <1>10 DEF MoveStep
<1>12. Sound(f) BY DEF Live, CrashInv
<1>13. Sound(f)' BY <1>4, <1>5, <1>7, <1>12 DEF Sound, Done
<1> QED BY <1>1, <1>2, <1>3, <1>5, <1>6, <1>7, <1>8, <1>9, <1>11, <1>13, OneFutureCrash

(* The owner of f hands it on to at most one of the calls it makes, and    *)
(* they move no other future.                                              *)
LEMMA PassedOn ==
  ASSUME Live, NEW th \in Threads, NEW f \in Futures, TopOwns(th, f), NEW calls,
         dropped' = dropped, queued' = queued, IsPromise(f) \/ state'[f] # "Pending", NEW n,
         \A i \in DOMAIN calls : calls[i].call \in Moving => calls[i].fut = f /\ i = n
  PROVE  \A g \in Futures : OwnerStep(th, calls, g)
<1> TAKE g \in Futures
<1>1. CASE g = f BY <1>1, OwnerHandsOn DEF Owns
<1>2. CASE g # f
  <2>1. \A i \in DOMAIN calls : ~Owns(dropped, calls[i], g) BY <1>2 DEF Owns
  <2> QED BY <2>1, OwnsNothing
<1> QED BY <1>1, <1>2

(* Invoke finds the state its caller left, unless it comes from an executor.*)
LEMMA InvokeCrash ==
  ASSUME Live, NEW th \in Threads, Invoke(th)
  PROVE  CrashStep(th)
<1>1. NextCall(th, "Invoke") BY DEF Invoke
<1>2. PICK op \in Calls : /\ op = Head(todo[th]) /\ op.call = "Invoke" /\ op.fut \in Futures
                          /\ 1 \in DOMAIN todo[th] /\ todo[th][1] = op
                          /\ Strict(state, dropped, op)
  BY <1>1, TopSound
<1>3. PICK f \in Futures : f = op.fut BY <1>2
<1>4. CASE UnexpectedState(th, FALSE) BY <1>1, <1>4, UnexpectedCrash
<1>5. CASE state[f] \notin {"Posting", "Posted"} /\ UnexpectedState(th, IsSynchronousCall(op))
  <2>1. IsSynchronousCall(op) = FALSE BY <1>2, <1>3, <1>5 DEF Strict, IsSynchronousCall
  <2> QED BY <1>4, <1>5, <2>1
<1>6. PICK next : next = Call("RunTask", f, NoFuture, f, FALSE) OBVIOUS
<1>7. CASE /\ state[f] \in {"Posted", "Posting"} /\ state' = [state EXCEPT ![f] = "Invoking"]
           /\ Return(th, <<next>>)
           /\ UNCHANGED <<links, dropped, runs, continuation, m_link, m_error, queued, crashed>>
  <2>1. state \in [Futures -> FutureState] /\ ~crashed BY DEF Live, Kept, IInv, TypeOK, CrashInv
  <2>2. state'[f] = "Invoking" /\ \A g \in Futures : g # f => state'[g] = state[g]
    BY <1>7, <2>1
  <2>3. next \in Calls /\ next.call = "RunTask" /\ next.fut = f
    <3>1. "RunTask" \in CallNames /\ NoFuture \in Args("RunTask") BY DEF CallNames, Args
    <3>2. next \in Calls BY <1>6, <3>1, CallTyped
    <3> QED BY <1>6, <3>2 DEF Call
  <2>4. PICK calls : calls = <<next>> OBVIOUS
  <2>5. /\ calls \in Seq(Calls) /\ DOMAIN calls = {1} /\ calls[1] = next /\ Return(th, calls)
    BY <1>7, <2>3, <2>4, Places
  <2>6. TopOwns(th, f) BY <1>2, <1>3 DEF TopOwns, Owns, Moving
  <2>7. \A g \in Futures : OwnerStep(th, calls, g) BY <1>7, <2>2, <2>3, <2>5, <2>6, PassedOn
  <2>8. MoveStep(th, calls, f) BY <2>2, <2>6 DEF MoveStep
  <2>9. Sound(f) BY DEF Live, CrashInv
  <2>10. Sound(f)' BY <1>7, <2>2, <2>9 DEF Sound, Done
  <2>11. \A i \in DOMAIN calls : /\ calls[i].call # "AddContinuation"
                                 /\ Strict(state', dropped', calls[i])
    BY <2>3, <2>5 DEF Strict
  <2> QED BY <1>1, <1>2, <1>3, <1>7, <2>1, <2>2, <2>5, <2>7, <2>8, <2>10, <2>11, OneFutureCrash
<1> QED BY <1>2, <1>3, <1>4, <1>5, <1>6, <1>7, Zenon DEF Invoke, userVars

(* Nobody owns a promise that has a handle and no result yet.              *)
LEMMA RaceNoOwner ==
  ASSUME Live, NEW f \in Futures, Kind[f] \in {"promise", "group"}, f \notin dropped,
         state[f] = "Pending"
  PROVE  NoOwner(f)
<1> SUFFICES ASSUME NEW u \in Threads, NEW k \in DOMAIN todo[u], Owns(dropped, todo[u][k], f)
             PROVE  FALSE
  BY DEF NoOwner
<1>1. todo[u] \in Seq(Calls) BY DEF Live, Kept, IInv, TypeOK
<1>2. PICK op \in Calls : op = todo[u][k] BY <1>1
<1>3. Fits(op) /\ Strict(state, dropped, op)
  BY <1>2 DEF Live, Kept, GraphInv, AllFit, CrashInv, AllStrict
<1>4. op.fut = f /\ op.call \in Moving /\ (op.call \in {"TryStartSetValue", "TrySetError"} => op.strict)
  BY <1>2 DEF Owns, Exclusive
<1>5. ~IsVoidValue(f) BY DEF Live, NoVoidRace, IsVoidValue, UseParentValue
<1>6. op.call \notin {"TaskPost", "Invoke", "RunTask", "StartAwaiting"} BY <1>3, <1>4 DEF Fits
<1>7. op.call \notin {"TryStartSetValue", "TrySetSuccess", "TrySetError", "SetFailed"}
  BY <1>3, <1>4, <1>5 DEF Strict
<1> QED BY <1>4, <1>6, <1>7 DEF Moving

(* A setter takes f, and a call that ends it follows.                      *)
LEMMA StartCrash ==
  ASSUME Live, NEW th \in Threads, NEW name \in {"TryStartSetValue", "TrySetError"}, NextCall(th, name),
         NEW f \in Futures, NEW op \in Calls, op = Head(todo[th]), op.fut = f,
         NEW next \in Calls, EndsIt(next, f), next.call = "TrySetSuccess" => ~IsVoidValue(f),
         Return(th, <<next>>), state' = [state EXCEPT ![f] = "SettingResult"],
         UNCHANGED <<links, dropped, runs, continuation, m_link, queued, crashed>>,
         \A g \in Futures : g # f => m_error'[g] = m_error[g],
         state[f] \notin {"SettingResult"} \cup Done
  PROVE  CrashStep(th)
<1>1. op.call = name /\ 1 \in DOMAIN todo[th] /\ todo[th][1] = op
  <2>1. PICK o \in Calls : o = Head(todo[th]) /\ o.call = name /\ 1 \in DOMAIN todo[th] /\ todo[th][1] = o
    BY TopSound
  <2> QED BY <2>1
<1>2. /\ state \in [Futures -> FutureState] /\ ~crashed /\ Sound(f)
  BY DEF Live, Kept, IInv, TypeOK, CrashInv
<1>3. state'[f] = "SettingResult" /\ \A g \in Futures : g # f => state'[g] = state[g] BY <1>2
<1>4. PICK calls : calls = <<next>> OBVIOUS
<1>5. calls \in Seq(Calls) /\ DOMAIN calls = {1} /\ calls[1] = next /\ Return(th, calls)
  BY <1>4, Places
<1>6. \A i \in DOMAIN calls : calls[i].call # "AddContinuation" /\ Strict(state', dropped', calls[i])
  BY <1>3, <1>5 DEF EndsIt, Strict
<1>7. Sound(f)' BY <1>2, <1>3 DEF Sound, Done
<1>8. CASE TopOwns(th, f)
  <2>1. \A g \in Futures : OwnerStep(th, calls, g) BY <1>3, <1>5, <1>8, PassedOn DEF EndsIt
  <2>2. MoveStep(th, calls, f) BY <1>5, <1>8 DEF MoveStep
  <2> QED BY <1>2, <1>3, <1>5, <1>6, <1>7, <2>1, <2>2, OneFutureCrash
<1>9. CASE ~TopOwns(th, f)
  <2>1. Kind[f] \in {"promise", "group"} /\ f \notin dropped
    BY <1>1, <1>9 DEF TopOwns, Owns, Moving, Exclusive
  <2>2. IsPromise(f) /\ Kind[f] # "source" BY <2>1 DEF IsPromise
  <2>3. state[f] = "Pending" BY <1>2, <2>2 DEF Sound
  <2>4. NoOwner(f) BY <2>1, <2>3, RaceNoOwner
  <2>5. f \notin queued BY <2>3 DEF Live, Kept, RunInv, OneDriver, SinglePosts, DrivenOnce
  <2>6. OwnerStep(th, calls, f) BY <1>5, <2>2, <2>4, <2>5 DEF OwnerStep, Fresh
  <2>7. MoveStep(th, calls, f) BY <1>5, <2>3, <2>4 DEF MoveStep
  <2>8. ASSUME NEW g \in Futures, g # f PROVE OwnerStep(th, calls, g)
    <3>1. \A i \in DOMAIN calls : ~Owns(dropped, calls[i], g) BY <1>5, <2>8 DEF Owns, EndsIt
    <3> QED BY <3>1, OwnsNothing
  <2> QED BY <1>2, <1>3, <1>5, <1>6, <1>7, <2>6, <2>7, <2>8, OneFutureCrash
<1> QED BY <1>8, <1>9

(* TryStartSetValue is only turned down where that is expected.            *)
LEMMA TryStartSetValueCrash ==
  ASSUME Live, NEW th \in Threads, TryStartSetValue(th)
  PROVE  CrashStep(th)
<1>1. NextCall(th, "TryStartSetValue") BY DEF TryStartSetValue
<1>2. PICK op \in Calls : /\ op = Head(todo[th]) /\ op.call = "TryStartSetValue" /\ op.fut \in Futures
                          /\ op.cur \in Futures \cup {NoFuture} /\ op.strict \in BOOLEAN
                          /\ Strict(state, dropped, op)
  BY <1>1, TopSound
<1>3. PICK f \in Futures : f = op.fut BY <1>2
<1>4. CASE ~CanStartSetValue(op) /\ UnexpectedState(th, op.strict)
  <2>1. op.strict = FALSE
    BY <1>2, <1>3, <1>4 DEF Strict, CanStartSetValue, IsSynchronousCall
  <2> QED BY <1>1, <1>4, <2>1, UnexpectedCrash
<1>5. PICK next : next = Call("TrySetSuccess", f, NoFuture, op.cur, TRUE) OBVIOUS
<1>6. CASE /\ CanStartSetValue(op) /\ state' = [state EXCEPT ![f] = "SettingResult"]
           /\ Return(th, <<next>>)
           /\ UNCHANGED <<links, dropped, runs, continuation, m_link, m_error, queued, crashed>>
  <2>1. next \in Calls /\ EndsIt(next, f)
    <3>1. "TrySetSuccess" \in CallNames /\ NoFuture \in Args("TrySetSuccess") BY DEF CallNames, Args
    <3>2. next \in Calls BY <1>2, <1>5, <3>1, CallTyped
    <3> QED BY <1>5, <3>2 DEF Call, EndsIt
  <2>2. ~IsVoidValue(f) /\ state[f] \notin {"SettingResult"} \cup Done
    BY <1>3, <1>6 DEF CanStartSetValue, Done
  <2> QED BY <1>1, <1>2, <1>3, <1>6, <2>1, <2>2, StartCrash
<1> QED BY <1>2, <1>3, <1>4, <1>5, <1>6, Zenon DEF TryStartSetValue, userVars

(* So is TrySetError.                                                      *)
LEMMA TrySetErrorCrash ==
  ASSUME Live, NEW th \in Threads, TrySetError(th)
  PROVE  CrashStep(th)
<1>1. PICK name \in {"TrySetError", "MoveError"} : NextCall(th, name) BY DEF TrySetError
<1>2. PICK op \in Calls : /\ op = Head(todo[th]) /\ op.call = name /\ op.fut \in Futures /\ Fits(op)
                          /\ op.cur \in Futures \cup {NoFuture} /\ op.strict \in BOOLEAN
                          /\ Strict(state, dropped, op)
  BY <1>1, TopSound
<1>3. PICK f \in Futures : f = op.fut BY <1>2
<1>4. name = "TrySetError" /\ NextCall(th, "TrySetError") BY <1>1, <1>2 DEF Fits
<1>5. CASE ~CanStartSetError(op) /\ UnexpectedState(th, op.strict)
  <2>1. state[f] = "Pending" /\ IsPromise(f) => m_link[f] = NoFuture
    <3>1. m_link[f] \in Futures \cup {NoFuture} BY DEF Live, Kept, IInv, TypeOK
    <3>2. ListOK(f) /\ (Linked(f) => ~IsPromise(f))
      BY DEF Live, Kept, GraphInv, AllWords, LinksOK, LinkKinds
    <3> QED BY <3>1, <3>2 DEF ListOK
  <2>2. op.strict = FALSE
    BY <1>2, <1>3, <1>4, <1>5, <2>1 DEF Strict, CanStartSetError, IsSynchronousCall
  <2> QED BY <1>4, <1>5, <2>2, UnexpectedCrash
<1>6. PICK next : next = Call("SetFailed", f, NoFuture, op.cur, TRUE) OBVIOUS
<1>7. CASE /\ CanStartSetError(op) /\ state' = [state EXCEPT ![f] = "SettingResult"]
           /\ m_error' = [g \in Futures |-> IF g = f THEN op.arg ELSE m_error[g]]
           /\ Return(th, <<next>>)
           /\ UNCHANGED <<links, dropped, runs, continuation, m_link, queued, crashed>>
  <2>1. next \in Calls /\ EndsIt(next, f) /\ next.call # "TrySetSuccess"
    <3>1. "SetFailed" \in CallNames /\ NoFuture \in Args("SetFailed") BY DEF CallNames, Args
    <3>2. next \in Calls BY <1>2, <1>6, <3>1, CallTyped
    <3> QED BY <1>6, <3>2 DEF Call, EndsIt
  <2>2. state[f] \notin {"SettingResult"} \cup Done
    BY <1>3, <1>7 DEF CanStartSetError, Done
  <2>3. \A g \in Futures : g # f => m_error'[g] = m_error[g] BY <1>7
  <2> QED BY <1>2, <1>3, <1>4, <1>7, <2>1, <2>2, <2>3, StartCrash
<1>8. CASE /\ CanStartSetError(op) /\ state' = [state EXCEPT ![f] = "SettingResult"]
           /\ m_error' = [g \in Futures |->
                            IF g = f THEN op.arg
                            ELSE IF op.call = "MoveError" /\ g = op.arg THEN NoError
                            ELSE m_error[g]]
           /\ Return(th, <<next>>)
           /\ UNCHANGED <<links, dropped, runs, continuation, m_link, queued, crashed>>
  <2>1. op.call # "MoveError" BY <1>2, <1>4
  <2>2. m_error' = [g \in Futures |-> IF g = f THEN op.arg ELSE m_error[g]] BY <1>8, <2>1
  <2> QED BY <1>7, <1>8, <2>2
<1>9. op.call # "MoveError" BY <1>2, <1>4
<1> QED BY <1>2, <1>3, <1>5, <1>6, <1>8, <1>9, Zenon DEF TrySetError, userVars

(* The owner of f completes it and posts its continuations.                *)
LEMMA CompleteCrash ==
  ASSUME Live, NEW th \in Threads, NEW name \in {"TrySetSuccess", "SetFailed"}, NextCall(th, name),
         NEW op \in Calls, op = Head(todo[th]), NEW f \in Futures, f = op.fut, state[f] \notin Done,
         NEW final \in Done, Complete(th, op, final),
         m_link'[f] \in {m_link[f], NoFuture}, \A g \in Futures : g # f => m_link'[g] = m_link[g],
         \A g \in Futures : g # f => m_error'[g] = m_error[g],
         UNCHANGED <<links, dropped, runs, queued>>
  PROVE  CrashStep(th)
<1>1. /\ TypeOK /\ continuation[f] # ContinuationInvoked /\ Sound(f)
  BY DEF Live, Kept, IInv, PlaceholderWhenDone, CrashInv
<1>2. op.call = name /\ 1 \in DOMAIN todo[th] /\ todo[th][1] = op
  <2>1. PICK o \in Calls : o = Head(todo[th]) /\ o.call = name /\ 1 \in DOMAIN todo[th] /\ todo[th][1] = o
    BY TopSound
  <2> QED BY <2>1
<1>3. PICK head : head = continuation[f] OBVIOUS
<1>4. PICK calls : calls = PostContinuation(f, head, op.cur) OBVIOUS
<1>5. /\ Return(th, calls) /\ state' = [state EXCEPT ![f] = final] /\ ~crashed'
      /\ continuation' = [continuation EXCEPT ![f] =
                            IF @ = NoFuture THEN NoFuture ELSE ContinuationInvoked]
  BY <1>1, <1>3, <1>4, Zenon DEF Complete
<1>6. /\ state'[f] = final /\ \A g \in Futures : g # f => state'[g] = state[g]
      /\ \A g \in Futures : g # f => continuation'[g] = continuation[g]
      /\ continuation[f] = NoFuture => continuation'[f] = NoFuture
  BY <1>1, <1>5 DEF TypeOK
<1>7. calls \in Seq(Calls) /\ \A i \in DOMAIN calls : calls[i].call = "TryPost"
  <2>1. f \in Parents /\ op.cur \in Futures \cup {NoFuture} BY CallFields DEF Parents
  <2> QED BY <1>4, <2>1, PostHolds
<1>8. TopOwns(th, f) BY <1>2 DEF TopOwns, Owns, Moving
<1>9. final \notin {"Pending", "SettingResult", "Posting", "Posted", "Invoking"} BY DEF Done
<1>10. \A g \in Futures : OwnerStep(th, calls, g)
  <2>1. \A i \in DOMAIN calls : calls[i].call \notin Moving BY <1>7 DEF Moving
  <2>2. state'[f] # "Pending" BY <1>6, <1>9
  <2> QED BY <1>8, <2>1, <2>2, PassedOn
<1>11. MoveStep(th, calls, f) BY <1>6, <1>8, <1>9 DEF MoveStep
<1>12. Sound(f)' BY <1>1, <1>6, <1>9 DEF Sound
<1>13. \A i \in DOMAIN calls : calls[i].call # "AddContinuation" /\ Strict(state', dropped', calls[i])
  BY <1>7 DEF Strict
<1>14. continuation'[f] = continuation[f] \/ continuation[f] # NoFuture BY <1>6
<1>15. \A k \in Futures : runs'[k] = 0 => runs[k] = 0 OBVIOUS
<1>16. name # "StartAwaiting" OBVIOUS
<1> HIDE DEF Live
<1> QED BY <1>5, <1>6, <1>7, <1>10, <1>11, <1>12, <1>13, <1>14, <1>15, <1>16, OneFutureCrash

(* TrySetSuccess is only turned down where that is expected.               *)
LEMMA TrySetSuccessCrash ==
  ASSUME Live, NEW th \in Threads, TrySetSuccess(th)
  PROVE  CrashStep(th)
<1>1. NextCall(th, "TrySetSuccess") BY DEF TrySetSuccess
<1>2. PICK op \in Calls : /\ op = Head(todo[th]) /\ op.call = "TrySetSuccess" /\ op.fut \in Futures
                          /\ op.cur \in Futures \cup {NoFuture} /\ op.strict \in BOOLEAN
                          /\ Strict(state, dropped, op)
  BY <1>1, TopSound
<1>3. PICK f \in Futures : f = op.fut BY <1>2
<1>4. CASE ~CanSetSuccess(op) /\ UnexpectedState(th, op.strict)
  <2>1. state[f] # "SettingResult" BY <1>3, <1>4 DEF CanSetSuccess
  <2>2. op.strict = FALSE
    BY <1>2, <1>3, <1>4, <2>1 DEF Strict, CanSetSuccess, IsSynchronousCall
  <2> QED BY <1>1, <1>2, <1>3, <1>4, <2>1, <2>2, UnexpectedCrash
<1>5. CASE /\ CanSetSuccess(op) /\ Complete(th, op, "Succeeded")
           /\ m_link' = [m_link EXCEPT ![f] = IF UseParentValue(f) THEN @ ELSE NoFuture]
           /\ m_error' = [m_error EXCEPT ![f] = NoError]
           /\ UNCHANGED <<links, dropped, runs, queued>>
  <2>1. "Succeeded" \in Done BY DEF Done
  <2>2. /\ m_link'[f] \in {m_link[f], NoFuture} /\ \A g \in Futures : g # f => m_link'[g] = m_link[g]
        /\ \A g \in Futures : g # f => m_error'[g] = m_error[g]
    BY <1>5 DEF Live, Kept, IInv, TypeOK
  <2>3. state[f] \notin Done BY <1>3, <1>5 DEF CanSetSuccess, Done
  <2> QED BY <1>1, <1>2, <1>3, <1>5, <2>1, <2>2, <2>3, CompleteCrash
<1> QED BY <1>2, <1>3, <1>4, <1>5, Zenon DEF TrySetSuccess, userVars

(* SetFailed never is.                                                     *)
LEMMA SetFailedCrash ==
  ASSUME Live, NEW th \in Threads, SetFailed(th)
  PROVE  CrashStep(th)
<1>1. NextCall(th, "SetFailed") BY DEF SetFailed
<1>2. PICK op \in Calls : /\ op = Head(todo[th]) /\ op.call = "SetFailed" /\ op.fut \in Futures
                          /\ Strict(state, dropped, op)
  BY <1>1, TopSound
<1>3. PICK f \in Futures : f = op.fut BY <1>2
<1>4. state[f] = "SettingResult" BY <1>2, <1>3 DEF Strict
<1>5. /\ Complete(th, op, "Failed") /\ m_link' = [m_link EXCEPT ![f] = NoFuture]
      /\ UNCHANGED <<m_error, links, dropped, runs, queued>>
  BY <1>2, <1>3, <1>4, Zenon DEF SetFailed, userVars
<1>6. "Failed" \in Done /\ state[f] \notin Done BY <1>4 DEF Done
<1>7. m_link'[f] \in {m_link[f], NoFuture} /\ \A g \in Futures : g # f => m_link'[g] = m_link[g]
  BY <1>5 DEF Live, Kept, IInv, TypeOK
<1> QED BY <1>1, <1>2, <1>3, <1>5, <1>6, <1>7, CompleteCrash

(* The executor that takes f is its owner, or calls the one that is.       *)
LEMMA TaskPostCrash ==
  ASSUME Live, NEW th \in Threads, TaskPost(th)
  PROVE  CrashStep(th)
<1>1. NextCall(th, "TaskPost") BY DEF TaskPost
<1>2. PICK op \in Calls : /\ op = Head(todo[th]) /\ op.fut \in Futures /\ op.call = "TaskPost"
                          /\ 1 \in DOMAIN todo[th] /\ todo[th][1] = op
                          /\ Strict(state, dropped, op)
  BY <1>1, TopSound
<1>3. PICK f \in Futures : f = op.fut BY <1>2
<1>4. state[f] \in {"Posting", "Posted"} BY <1>2, <1>3 DEF Strict
<1>5. PICK invoke, posted, cancel : /\ invoke = Call("Invoke", f, NoFuture, f, FALSE)
                                    /\ posted = Call("TrySetPosted", f, NoFuture, f, FALSE)
                                    /\ cancel = Call("TrySetError", f, Canceled, f, FALSE)
  OBVIOUS
<1>6. /\ invoke \in Calls /\ posted \in Calls /\ cancel \in Calls
      /\ invoke.call = "Invoke" /\ posted.call = "TrySetPosted" /\ cancel.call = "TrySetError"
      /\ invoke.fut = f /\ cancel.fut = f /\ cancel.strict = FALSE
  <2>1. /\ "Invoke" \in CallNames /\ NoFuture \in Args("Invoke")
        /\ "TrySetPosted" \in CallNames /\ NoFuture \in Args("TrySetPosted")
        /\ "TrySetError" \in CallNames /\ Canceled \in Args("TrySetError")
    BY DEF CallNames, Args, Errors
  <2>2. invoke \in Calls /\ posted \in Calls /\ cancel \in Calls BY <1>5, <2>1, CallTyped
  <2> QED BY <1>5, <2>2 DEF Call
<1>7. PICK calls : /\ Return(th, calls)
                   /\ \/ calls \in {<<invoke>> \o <<posted>>, <<cancel>> \o <<posted>>}
                         /\ queued' = queued
                      \/ calls = <<posted>> /\ queued' = queued \cup {f}
  <2>1. \/ Return(th, <<invoke>> \o <<posted>>) /\ queued' = queued
        \/ Return(th, <<posted>>) /\ queued' = queued \cup {f}
        \/ Return(th, <<cancel>> \o <<posted>>) /\ queued' = queued
    BY <1>2, <1>3, <1>5, Zenon DEF TaskPost
  <2> QED BY <2>1
<1>8. UNCHANGED <<state, continuation, m_link, m_error, links, dropped, runs, crashed>>
  BY DEF TaskPost, futureVars
<1>9. TopOwns(th, f) BY <1>2, <1>3 DEF TopOwns, Owns, Moving
<1>10. ~crashed /\ Sound(f) BY DEF Live, CrashInv
<1>11. MoveStep(th, calls, f) BY <1>4, <1>8, <1>9 DEF MoveStep
<1>12. Sound(f)' BY <1>8, <1>10, SoundSame
<1>13. /\ Strict(state', dropped', invoke) /\ Strict(state', dropped', posted)
       /\ Strict(state', dropped', cancel)
  BY <1>4, <1>6, <1>8 DEF Strict
<1>14. CASE calls = <<posted>> /\ queued' = queued \cup {f}
  <2>1. calls \in Seq(Calls) /\ DOMAIN calls = {1} /\ calls[1] = posted BY <1>6, <1>14, Places
  <2>2. \A g \in Futures : \A i \in DOMAIN calls : ~Owns(dropped, calls[i], g)
    BY <1>6, <2>1 DEF Owns, Moving
  <2>3. OwnerStep(th, calls, f) BY <1>8, <1>9, <2>2 DEF OwnerStep
  <2>4. \A g \in Futures : g # f => OwnerStep(th, calls, g) BY <1>8, <1>14, <2>2, OwnsNothing
  <2>5. \A i \in DOMAIN calls : calls[i].call # "AddContinuation" /\ Strict(state', dropped', calls[i])
    BY <1>6, <1>13, <2>1
  <2> QED BY <1>1, <1>2, <1>3, <1>7, <1>8, <1>10, <1>11, <1>12, <2>1, <2>3, <2>4, <2>5, OneFutureCrash
<1>15. CASE calls \in {<<invoke>> \o <<posted>>, <<cancel>> \o <<posted>>} /\ queued' = queued
  <2>1. PICK x \in {invoke, cancel} : calls = <<x>> \o <<posted>> BY <1>15
  <2>2. calls \in Seq(Calls) /\ DOMAIN calls = {1, 2} /\ calls[1] = x /\ calls[2] = posted
    <3>1. x \in Calls /\ posted \in Calls BY <1>6
    <3> QED BY <2>1, <3>1
  <2>3. \A i \in DOMAIN calls : calls[i].call \in Moving => calls[i].fut = f /\ i = 1
    BY <1>6, <2>2 DEF Moving
  <2>4. \A g \in Futures : OwnerStep(th, calls, g) BY <1>4, <1>8, <1>9, <1>15, <2>3, PassedOn
  <2>5. \A i \in DOMAIN calls : calls[i].call # "AddContinuation" /\ Strict(state', dropped', calls[i])
    BY <1>6, <1>13, <2>2
  <2> QED BY <1>1, <1>2, <1>3, <1>7, <1>8, <1>10, <1>11, <1>12, <2>2, <2>4, <2>5, OneFutureCrash
<1> QED BY <1>7, <1>14, <1>15

(* TryPost finds a continuation that waits, and whose parent is done; the  *)
(* call it makes becomes the owner.                                        *)
LEMMA TryPostCrash ==
  ASSUME Live, NEW th \in Threads, TryPostInternal(th)
  PROVE  CrashStep(th)
<1>1. NextCall(th, "TryPost") BY DEF TryPostInternal
<1>2. PICK op \in Calls : /\ op = Head(todo[th]) /\ op.fut \in Futures /\ op.call = "TryPost"
                          /\ 1 \in DOMAIN todo[th] /\ todo[th][1] = op /\ Fits(op)
                          /\ op.cur \in Futures \cup {NoFuture}
  BY <1>1, TopSound
<1>3. PICK x \in Futures, r \in Parents : x = op.fut /\ r = op.arg
  BY <1>2, CallFields DEF Args, Parents
<1>4. /\ ~IsMultiPost(x) /\ IsFiniteSet(Futures) /\ AllKept /\ LinkedOnce /\ LinkKinds
      /\ DrivenOnce(x) /\ RanOnce(x) /\ Sound(x) /\ Owned(x) /\ ~crashed
  BY DEF Live, Kept, SinglePosts, CrashInv, RunInv, OneDriver, GraphInv, LinksOK
<1>5. state[x] = "Pending"
  <2>1. x \in ChainOf(m_link, x) BY <1>4, ChainLeast
  <2>2. Holds(m_link, op, r, x) BY <1>2, <1>3, <2>1 DEF Holds
  <2>3. HeldBy(r, x) BY <1>2, <2>2 DEF HeldBy
  <2>4. Waits(r, x) BY <1>4, <2>3 DEF AllKept, KeptOnce
  <2> QED BY <2>4 DEF Waits
<1>6. PICK parentFailed : parentFailed = (r # NoFuture /\ state[r] = "Failed") OBVIOUS
<1>7. PICK first, rest :
        /\ first = Call(IF HasTaskPost(x) THEN "TaskPost" ELSE "Invoke", x, NoFuture, x, FALSE)
        /\ rest = PostContinuation(r, m_link[x], op.cur)
  OBVIOUS
<1>8. /\ state' = [state EXCEPT ![x] = "Posting"]
      /\ m_link' = [m_link EXCEPT ![x] = IF parentFailed THEN NoFuture ELSE r]
      /\ m_error' = [m_error EXCEPT ![x] = IF parentFailed THEN m_error[r] ELSE @]
      /\ crashed' = IF r = NoFuture THEN m_link[x] # NoFuture ELSE state[r] \notin Done
      /\ Return(th, <<first>> \o rest)
      /\ UNCHANGED <<continuation, links, dropped, queued, runs>>
  BY <1>2, <1>3, <1>4, <1>5, <1>6, <1>7, Zenon DEF TryPostInternal, userVars
<1>9. <<r, x>> \in links /\ (r = NoFuture \/ state[r] \in Done) BY <1>2, <1>3 DEF Fits
<1>10. Linked(x) /\ ~IsPromise(x) /\ (r = NoFuture => CallbackOnValue(x))
  BY <1>4, <1>9 DEF LinkKinds, Linked, Parents
<1>11. ~crashed' BY <1>4, <1>8, <1>9 DEF Sound
<1>12. /\ state'[x] = "Posting" /\ m_link'[x] = (IF parentFailed THEN NoFuture ELSE r)
       /\ m_error'[x] = IF parentFailed THEN m_error[r] ELSE m_error[x]
       /\ \A g \in Futures : g # x => /\ state'[g] = state[g] /\ m_link'[g] = m_link[g]
                                      /\ m_error'[g] = m_error[g]
  BY <1>8 DEF Live, Kept, IInv, TypeOK
<1>13. Sound(x)'
  <2>1. <<NoFuture, x>> \in links => r = NoFuture BY <1>4, <1>9 DEF LinkedOnce, Parents
  <2>2. Kind[x] = "shared" /\ m_error'[x] = NoError => m_link'[x] # NoFuture
    <3>1. r \in Futures => ResultOK(r) BY DEF Live, Kept, GraphInv, AllWords
    <3>2. parentFailed => m_error[r] # NoError
      BY <1>6, <3>1 DEF ResultOK, Ends, Parents, Done
    <3>3. Kind[x] = "shared" => r # NoFuture BY <1>10 DEF CallbackOnValue
    <3> QED BY <1>12, <3>2, <3>3
  <2>3. <<NoFuture, x>> \in links => m_link'[x] = NoFuture BY <1>12, <2>1
  <2> QED BY <1>4, <1>8, <1>10, <2>2, <2>3 DEF Sound
<1>14. /\ first \in Calls /\ first.call \in {"TaskPost", "Invoke"} /\ first.fut = x
  <2>1. PICK name \in {"TaskPost", "Invoke"} : name = IF HasTaskPost(x) THEN "TaskPost" ELSE "Invoke"
    OBVIOUS
  <2>2. name \in CallNames /\ NoFuture \in Args(name) BY DEF CallNames, Args
  <2>3. first = Call(name, x, NoFuture, x, FALSE) BY <1>7, <2>1
  <2>4. first \in Calls BY <2>2, <2>3, CallTyped
  <2> QED BY <2>3, <2>4 DEF Call
<1>15. rest \in Seq(Calls) /\ \A i \in DOMAIN rest : rest[i].call = "TryPost" BY <1>2, <1>7, PostHolds
<1>16. PICK calls : calls = <<first>> \o rest OBVIOUS
<1>17. /\ calls \in Seq(Calls) /\ 1 \in DOMAIN calls /\ Return(th, calls)
       /\ \A i \in DOMAIN calls : IF i = 1 THEN calls[i] = first ELSE calls[i].call = "TryPost"
  <2>1. /\ calls \in Seq(Calls) /\ 1 \in DOMAIN calls
        /\ \A i \in DOMAIN calls : \/ i = 1 /\ calls[i] = first
                                   \/ i # 1 /\ i - 1 \in DOMAIN rest /\ calls[i] = rest[i - 1]
    BY <1>14, <1>15, <1>16
  <2> QED BY <1>8, <1>15, <1>16, <2>1
<1>18. NoOwner(x) /\ x \notin queued /\ runs[x] = 0 /\ Kind[x] # "source"
  BY <1>4, <1>5, <1>10 DEF Owned, DrivenOnce, RanOnce, Early, IsPromise
<1>19. \A i \in DOMAIN calls : calls[i].call \in Moving => i = 1 /\ calls[i].fut = x
  BY <1>14, <1>17 DEF Moving
<1>20. OwnerStep(th, calls, x) BY <1>8, <1>12, <1>18, <1>19 DEF OwnerStep, Fresh, Owns
<1>21. ASSUME NEW g \in Futures, g # x PROVE OwnerStep(th, calls, g)
  <2>1. \A i \in DOMAIN calls : ~Owns(dropped, calls[i], g) BY <1>19, <1>21 DEF Owns
  <2> QED BY <1>8, <2>1, OwnsNothing
<1>22. MoveStep(th, calls, x) BY <1>5, <1>12, <1>18 DEF MoveStep
<1>23. ASSUME NEW i \in DOMAIN calls
       PROVE  calls[i].call # "AddContinuation" /\ Strict(state', dropped', calls[i])
  BY <1>12, <1>14, <1>17 DEF Strict
<1>24. \A g \in Futures : g # x => /\ state'[g] = state[g] /\ continuation'[g] = continuation[g]
                                   /\ m_link'[g] = m_link[g] /\ m_error'[g] = m_error[g]
                                   /\ OwnerStep(th, calls, g)
  BY <1>8, <1>12, <1>21
<1>25. /\ \A k \in Futures : runs'[k] = 0 => runs[k] = 0
       /\ continuation'[x] = continuation[x] \/ continuation[x] # NoFuture
       /\ "TryPost" # "StartAwaiting" \/ calls = <<>>
  BY <1>8
<1> HIDE DEF Live, Sound, MoveStep, OwnerStep, Strict
<1> QED BY <1>1, <1>2, <1>3, <1>8, <1>11, <1>13, <1>17, <1>20, <1>22, <1>23, <1>24, <1>25,
           OneFutureCrash

(* AddContinuation finds an empty list where it needs one.                 *)
LEMMA AddContinuationCrash ==
  ASSUME Live, NEW th \in Threads, AddContinuation(th)
  PROVE  CrashStep(th)
<1>1. NextCall(th, "AddContinuation") BY DEF AddContinuation
<1>2. PICK op \in Calls : /\ op = Head(todo[th]) /\ op.fut \in Futures /\ op.call = "AddContinuation"
                          /\ 1 \in DOMAIN todo[th] /\ todo[th][1] = op /\ Fits(op)
                          /\ op.cur \in Futures \cup {NoFuture}
  BY <1>1, TopSound
<1>3. PICK f \in Futures, c \in Futures : f = op.fut /\ c = op.arg BY <1>2, CallFields DEF Args
<1>4. /\ TypeOK /\ AllKept /\ LinkedOnce /\ ~crashed /\ Alone(f) /\ \A g \in Futures : Sound(g)
  BY DEF Live, Kept, IInv, CrashInv, GraphInv, LinksOK
<1>5. <<f, c>> \in links BY <1>2, <1>3 DEF Fits
<1>6. state[c] = "Pending"
  <2>1. f \in Parents BY DEF Parents
  <2>2. HeldBy(f, c) BY <1>2, <1>3 DEF HeldBy, Holds
  <2>3. Waits(f, c) BY <1>4, <2>1, <2>2 DEF AllKept, KeptOnce
  <2> QED BY <2>3 DEF Waits
<1>7. <<NoFuture, c>> \notin links BY <1>4, <1>5, FutureAssumption DEF LinkedOnce
<1>8. continuation[f] = NoFuture \/ IsShared(f) \/ (IsShared(c) /\ UseParentValue(c))
  <2>1. CASE Kind[c] = "shared" BY <2>1 DEF IsShared, UseParentValue
  <2>2. CASE Kind[c] # "shared" BY <1>2, <1>3, <1>4, <2>2 DEF Alone, Adds
  <2> QED BY <2>1, <2>2
<1>9. Attach(th, op) BY <1>2, <1>3, <1>8, Zenon DEF AddContinuation
<1>10. PICK isDone, next, calls : /\ isDone = (state[f] \in Done)
                                  /\ next = IF isDone THEN NoFuture ELSE continuation[f]
                                  /\ calls = IF isDone THEN PostContinuation(f, c, op.cur) ELSE <<>>
  OBVIOUS
<1>11. /\ continuation' = [continuation EXCEPT ![f] = IF isDone THEN ContinuationInvoked ELSE c]
       /\ m_link' = [m_link EXCEPT ![c] = next] /\ Return(th, calls)
       /\ UNCHANGED <<state, m_error, links, queued, dropped, runs, crashed>>
  BY <1>3, <1>9, <1>10, Zenon DEF Attach, Store, userVars
<1>12. /\ \A g \in Futures : g # f => continuation'[g] = continuation[g]
       /\ \A g \in Futures : g # c => m_link'[g] = m_link[g]
  BY <1>4, <1>11 DEF TypeOK
<1>13. calls \in Seq(Calls) /\ \A i \in DOMAIN calls : calls[i].call = "TryPost"
  <2>1. f \in Parents BY DEF Parents
  <2>2. CASE isDone
    <3>1. calls = PostContinuation(f, c, op.cur) BY <1>10, <2>2, Zenon
    <3> QED BY <1>2, <2>1, <3>1, PostHolds
  <2>3. CASE ~isDone
    <3>1. calls = <<>> BY <1>10, <2>3, Zenon
    <3> QED BY <3>1
  <2> QED BY <2>2, <2>3
<1>14. ASSUME NEW g \in Futures PROVE FutureStep(th, calls, g)
  <2>1. \A i \in DOMAIN calls : ~Owns(dropped, calls[i], g) BY <1>13 DEF Owns, Moving
  <2>2. OwnerStep(th, calls, g) BY <1>11, <2>1, OwnsNothing
  <2>3. MoveStep(th, calls, g) BY <1>2, <1>11 DEF MoveStep, TopEnds, EndsIt
  <2>4. Sound(g) BY <1>4
  <2>5. continuation'[g] # NoFuture => \E d \in Futures : <<g, d>> \in links'
    BY <1>5, <1>11, <1>12, <2>4 DEF Sound
  <2>6. Sound(g)' BY <1>6, <1>7, <1>11, <1>12, <2>4, <2>5 DEF Sound
  <2> QED BY <2>2, <2>3, <2>6 DEF FutureStep
<1>15. Shifted(th, calls) BY <1>1, <1>4, <1>11, <1>13, ReturnShifts
<1>16. \A u \in Threads : u # th => todo'[u] = todo[u] BY <1>4, <1>11 DEF TypeOK, Return
<1>17. \A i \in DOMAIN calls : Strict(state', dropped', calls[i]) BY <1>13 DEF Strict
<1>18. AddStep(th, calls) BY <1>2, <1>3, <1>12, <1>13 DEF AddStep, Adds
<1>19. AwaitStep(th, calls) BY <1>2, <1>11 DEF AwaitStep, TopIs, Linked
<1> QED BY <1>4, <1>11, <1>13, <1>14, <1>15, <1>16, <1>17, <1>18, <1>19 DEF CrashStep, SoundStep

(* The calls a task of f leaves to do: one of f, and one of the future     *)
(* that f completes.                                                       *)
OwnsTask(calls, f) ==
  /\ calls \in Seq(Calls)
  /\ \A i \in DOMAIN calls :
       /\ calls[i].call # "AddContinuation" /\ Strict(state, dropped, calls[i])
       /\ calls[i].call \in Moving =>
            calls[i].fut = f \/ (Kind[f] = "completion" /\ calls[i].fut = Target[f])
  /\ \A i, j \in DOMAIN calls :
       calls[i].call \in Moving /\ calls[j].call \in Moving /\ calls[i].fut = calls[j].fut => i = j

(* One call, or two.                                                       *)
LEMMA OwnsTwo ==
  ASSUME NEW f \in Futures, NEW x \in Calls, NEW y \in Calls,
         x.call # "AddContinuation", Strict(state, dropped, x),
         x.call \in Moving => x.fut = f \/ (Kind[f] = "completion" /\ x.fut = Target[f]),
         y.call # "AddContinuation", Strict(state, dropped, y),
         y.call \in Moving => y.fut = f \/ (Kind[f] = "completion" /\ y.fut = Target[f])
  PROVE  /\ OwnsTask(<<x>>, f)
         /\ x.call \notin Moving \/ y.call \notin Moving \/ x.fut # y.fut
              => OwnsTask(<<x, y>>, f) /\ OwnsTask(<<x>> \o <<y>>, f)
<1>1. <<x>> \in Seq(Calls) OBVIOUS
<1>2. OwnsTask(<<x>>, f) BY <1>1, Places DEF OwnsTask
<1>3. ASSUME x.call \notin Moving \/ y.call \notin Moving \/ x.fut # y.fut,
             NEW s \in {<<x, y>>, <<x>> \o <<y>>}
      PROVE  OwnsTask(s, f)
  <2>1. s \in Seq(Calls) /\ \A i \in DOMAIN s : (i = 1 /\ s[i] = x) \/ (i = 2 /\ s[i] = y)
    <3>1. CASE s = <<x, y>> BY <3>1, Places, Sequences
    <3>2. CASE s = <<x>> \o <<y>>
      <4>1. s \in Seq(Calls) /\ Len(s) = 2 /\ s[1] = x /\ s[2] = y BY <3>2
      <4> QED BY <4>1
    <3> QED BY <1>3, <3>1, <3>2
  <2> QED BY <1>3, <2>1 DEF OwnsTask
<1> QED BY <1>2, <1>3

(* The task of f sets its value.                                           *)
LEMMA SetValueOwns ==
  ASSUME NEW f \in Futures, state[f] = "Invoking", NEW g \in Futures, NEW strict \in BOOLEAN,
         g = f \/ strict = FALSE
  PROVE  \E x \in Calls : /\ SetValue(g, f, strict) = <<x>> /\ x.fut = g
                          /\ x.call # "AddContinuation" /\ Strict(state, dropped, x)
<1>1. PICK succeed, start : /\ succeed = Call("TrySetSuccess", g, NoFuture, f, strict)
                            /\ start = Call("TryStartSetValue", g, NoFuture, f, strict)
  OBVIOUS
<1>2. /\ succeed \in Calls /\ succeed.call = "TrySetSuccess" /\ succeed.fut = g
      /\ succeed.cur = f /\ succeed.strict = strict
      /\ start \in Calls /\ start.call = "TryStartSetValue" /\ start.fut = g
      /\ start.cur = f /\ start.strict = strict
  <2>1. /\ "TrySetSuccess" \in CallNames /\ NoFuture \in Args("TrySetSuccess")
        /\ "TryStartSetValue" \in CallNames /\ NoFuture \in Args("TryStartSetValue")
    BY DEF CallNames, Args
  <2>2. succeed \in Calls /\ start \in Calls BY <1>1, <2>1, CallTyped
  <2> QED BY <1>1, <2>2 DEF Call
<1>3. CASE IsVoidValue(g)
  <2>1. SetValue(g, f, strict) = <<succeed>> BY <1>1, <1>3, Zenon DEF SetValue
  <2>2. Strict(state, dropped, succeed) BY <1>2, <1>3 DEF Strict
  <2> QED BY <1>2, <2>1, <2>2
<1>4. CASE ~IsVoidValue(g)
  <2>1. SetValue(g, f, strict) = <<start>> BY <1>1, <1>4, Zenon DEF SetValue
  <2>2. Strict(state, dropped, start) BY <1>2, <1>4 DEF Strict
  <2> QED BY <1>2, <2>1, <2>2
<1> QED BY <1>3, <1>4

(* The task of f sets an error.                                            *)
LEMMA ErrorOwns ==
  ASSUME NEW f \in Futures, state[f] = "Invoking", NEW g \in Futures, NEW strict \in BOOLEAN,
         g = f \/ strict = FALSE, NEW e \in Errors \cup {NoError}, NEW x, x = Call("TrySetError", g, e, f, strict)
  PROVE  x \in Calls /\ Strict(state, dropped, x)
<1>1. "TrySetError" \in CallNames /\ e \in Args("TrySetError") BY DEF CallNames, Args
<1>2. x \in Calls BY <1>1, CallTyped
<1>3. x.call = "TrySetError" /\ x.fut = g /\ x.cur = f /\ x.strict = strict BY <1>2 DEF Call
<1> QED BY <1>2, <1>3 DEF Strict

(* The library's callbacks leave such calls.                               *)
LEMMA LibraryOwns ==
  ASSUME NEW f \in Futures, NEW e \in Errors \cup {NoError}, state[f] = "Invoking"
  PROVE  /\ OwnsTask(TaskInvoke(f), f) /\ OwnsTask(CatchWith(f, e), f)
         /\ OwnsTask(SetValue(f, f, TRUE), f)
<1>1. PICK success, finish, error, weak :
        /\ success = Call("TrySetSuccess", f, NoFuture, f, TRUE)
        /\ finish = Call("SetFinished", f, NoFuture, f, FALSE)
        /\ error = Call("TrySetError", f, e, f, TRUE)
        /\ weak = Call("TrySetError", f, e, f, FALSE)
  OBVIOUS
<1>2. /\ success \in Calls /\ success.call = "TrySetSuccess" /\ success.fut = f /\ success.cur = f
      /\ finish \in Calls /\ finish.call = "SetFinished"
  <2>1. /\ "TrySetSuccess" \in CallNames /\ NoFuture \in Args("TrySetSuccess")
        /\ "SetFinished" \in CallNames /\ NoFuture \in Args("SetFinished")
    BY DEF CallNames, Args
  <2>2. success \in Calls /\ finish \in Calls BY <1>1, <2>1, CallTyped
  <2> QED BY <1>1, <2>2 DEF Call
<1>3. finish.call \notin Moving /\ Strict(state, dropped, finish) BY <1>2 DEF Moving, Strict
<1>4. /\ error \in Calls /\ error.call = "TrySetError" /\ error.fut = f /\ Strict(state, dropped, error)
      /\ weak \in Calls /\ weak.call = "TrySetError" /\ weak.fut = f /\ Strict(state, dropped, weak)
  <2>1. error \in Calls /\ Strict(state, dropped, error) BY <1>1, ErrorOwns
  <2>2. weak \in Calls /\ Strict(state, dropped, weak) BY <1>1, ErrorOwns
  <2> QED BY <1>1, <2>1, <2>2 DEF Call
<1>5. IsVoidValue(f) => Strict(state, dropped, success) BY <1>2 DEF Strict
<1>6. OwnsTask(SetValue(f, f, TRUE), f)
  <2>1. PICK x \in Calls : /\ SetValue(f, f, TRUE) = <<x>> /\ x.fut = f
                           /\ x.call # "AddContinuation" /\ Strict(state, dropped, x)
    BY SetValueOwns
  <2>2. OwnsTask(<<x>>, f) BY <2>1, OwnsTwo
  <2> QED BY <2>1, <2>2
<1>7. CASE Kind[f] = "completion"
  <2>1. PICK t \in Futures : t = Target[f] /\ t # f BY <1>7, FutureAssumption
  <2>2. PICK x \in Calls : /\ SetValue(t, f, FALSE) = <<x>> /\ x.fut = t
                           /\ x.call # "AddContinuation" /\ Strict(state, dropped, x)
    BY SetValueOwns
  <2>3. TaskInvoke(f) = <<success>> \o <<x>>
    BY <1>1, <1>7, <2>1, <2>2, Zenon DEF TaskInvoke, FutureCompletionTaskInvoke
  <2>4. PICK forward : forward = Call("TrySetError", t, e, f, FALSE) OBVIOUS
  <2>5. CatchWith(f, e) = <<forward, error>> BY <1>1, <1>7, <2>1, <2>4, Zenon DEF CatchWith
  <2>6. forward \in Calls /\ Strict(state, dropped, forward) BY <2>4, ErrorOwns
  <2>10. forward.call = "TrySetError" /\ forward.fut = t BY <2>4, <2>6 DEF Call
  <2>7. Strict(state, dropped, success) BY <1>5, <1>7 DEF IsVoidValue, UseParentValue
  <2>8. OwnsTask(<<success>> \o <<x>>, f) BY <1>2, <1>7, <2>1, <2>2, <2>7, OwnsTwo
  <2>9. OwnsTask(<<forward, error>>, f) BY <1>4, <1>7, <2>1, <2>6, <2>10, OwnsTwo
  <2> QED BY <1>6, <2>3, <2>5, <2>8, <2>9
<1>8. CASE Kind[f] = "wait"
  <2>1. Kind[f] # "completion" BY <1>8
  <2>2. TaskInvoke(f) = <<success, finish>>
    BY <1>1, <1>8, <2>1, Zenon DEF TaskInvoke, FutureWaitTaskInvoke
  <2>3. CatchWith(f, e) = <<error, finish>> BY <1>1, <1>8, <2>1, Zenon DEF CatchWith
  <2>4. Strict(state, dropped, success) BY <1>5, <1>8 DEF IsVoidValue, UseParentValue
  <2>5. OwnsTask(<<success, finish>>, f) BY <1>2, <1>3, <2>4, OwnsTwo
  <2>6. OwnsTask(<<error, finish>>, f) BY <1>2, <1>3, <1>4, OwnsTwo
  <2> QED BY <1>6, <2>2, <2>3, <2>5, <2>6
<1>9. CASE Kind[f] \notin {"completion", "wait"}
  <2>1. TaskInvoke(f) = SetValue(f, f, TRUE) BY <1>9, Zenon DEF TaskInvoke, CopyTaskInvoke
  <2>2. CatchWith(f, e) = SetValue(f, f, TRUE) \/ CatchWith(f, e) = <<weak>>
    BY <1>1, <1>9, Zenon DEF CatchWith
  <2>3. OwnsTask(<<weak>>, f) BY <1>4, OwnsTwo
  <2> QED BY <1>6, <2>1, <2>2, <2>3
<1> QED BY <1>7, <1>8, <1>9

(* RunTask hands f on to its task, and a completion takes the future that  *)
(* has waited for it.                                                      *)
LEMMA TaskStepCrash ==
  ASSUME Live, NEW th \in Threads, NextCall(th, "RunTask"), NEW op \in Calls, op = Head(todo[th]),
         NEW f \in Futures, op.fut = f, state[f] = "Invoking", runs[f] = 0,
         NEW calls, OwnsTask(calls, f), Return(th, calls), ~crashed',
         UNCHANGED <<state, continuation, m_link, m_error, queued, links, dropped>>,
         runs'[f] # 0, \A k \in Futures : runs'[k] = 0 => runs[k] = 0
  PROVE  CrashStep(th)
<1>1. PICK o \in Calls : /\ o = Head(todo[th]) /\ o.call = "RunTask"
                         /\ 1 \in DOMAIN todo[th] /\ todo[th][1] = o
  BY TopSound
<1>2. TopOwns(th, f) BY <1>1 DEF TopOwns, Owns, Moving
<1>3. /\ calls \in Seq(Calls)
      /\ \A i \in DOMAIN calls : /\ calls[i].call # "AddContinuation"
                                 /\ Strict(state, dropped, calls[i])
      /\ \A g \in Futures : \A i, j \in DOMAIN calls :
           Owns(dropped, calls[i], g) /\ Owns(dropped, calls[j], g) => i = j
      /\ \A g \in Futures : \A i \in DOMAIN calls :
           Owns(dropped, calls[i], g) => g = f \/ (Kind[f] = "completion" /\ g = Target[f])
  BY DEF OwnsTask, Owns
<1>4. OwnerStep(th, calls, f)
  <2>1. Owned(f) BY DEF Live, CrashInv
  <2>2. f \notin queued BY <1>2, <2>1 DEF Owned, NoOwner, TopOwns
  <2> QED BY <1>2, <1>3, <2>2 DEF OwnerStep
<1>5. ASSUME NEW g \in Futures, g # f PROVE OwnerStep(th, calls, g)
  <2>1. CASE Kind[f] = "completion" /\ g = Target[f]
    <3>1. Linked(f) BY DEF Live, Kept, GraphInv, AllWords, ResultOK, Inherits, Linked
    <3>2. HasTaskPost(g) /\ runs[g] # 0
      BY <2>1, <3>1 DEF Live, Kept, GraphInv, LinksOK, CompletionsOK, CompletionOK
    <3>3. state[g] \notin Early BY <3>2 DEF Live, Kept, RunInv, SinglePosts, RanOnce
    <3>4. g \notin queued BY <3>2 DEF Live, Kept, GraphInv, AllRest, RestOK, ToRun
    <3>5. NoOwner(g)
      <4> SUFFICES ASSUME NEW u \in Threads, NEW i \in DOMAIN todo[u], Owns(dropped, todo[u][i], g)
                   PROVE  FALSE
        BY DEF NoOwner
      <4>1. Awaits(todo[u], f) BY <2>1, <3>1 DEF Live, CrashInv, Awaited
      <4>2. todo[u] \in Seq(Calls) BY DEF Live, Kept, IInv, TypeOK
      <4>3. PICK add \in Calls : /\ add = todo[u][2] /\ 2 \in DOMAIN todo[u]
                                 /\ add.call = "AddContinuation" /\ add.arg = f
        BY <4>1, <4>2 DEF Awaits
      <4>4. add.fut \in Parents BY CallFields DEF Parents
      <4>5. HeldBy(add.fut, f) BY <4>3 DEF HeldBy, Holds
      <4>6. Waits(add.fut, f) BY <4>4, <4>5 DEF Live, Kept, AllKept, KeptOnce
      <4> QED BY <4>6 DEF Waits
    <3>6. Kind[g] # "source" BY <3>2 DEF HasTaskPost
    <3>7. Fresh(th, g)
      <4>1. Linked(f)' BY <3>1 DEF Linked
      <4> QED BY <2>1, <3>1, <3>6 DEF Fresh
    <3>8. state[g] # "Pending" BY <3>3 DEF Early
    <3> QED BY <1>3, <3>4, <3>5, <3>7, <3>8 DEF OwnerStep
  <2>2. CASE ~(Kind[f] = "completion" /\ g = Target[f])
    <3>1. \A i \in DOMAIN calls : ~Owns(dropped, calls[i], g) BY <1>3, <1>5, <2>2
    <3> QED BY <3>1, OwnsNothing
  <2> QED BY <2>1, <2>2
<1>6. MoveStep(th, calls, f) BY <1>2 DEF MoveStep
<1>7. Sound(f)' BY SoundSame DEF Live, CrashInv
<1>8. \A i \in DOMAIN calls : calls[i].call # "AddContinuation" /\ Strict(state', dropped', calls[i])
  BY <1>3
<1> QED BY <1>3, <1>4, <1>5, <1>6, <1>7, <1>8, OneFutureCrash

(* A callback of the user sets f, or has it await a future.                *)
LEMMA UserCallbackCrash ==
  ASSUME Live, NEW th \in Threads, NextCall(th, "RunTask"), NEW op \in Calls, op = Head(todo[th]),
         NEW f \in Futures, op.fut = f, state[f] = "Invoking", runs[f] = 0, UserCallback(th, f),
         ~crashed', UNCHANGED <<state, continuation, m_link, m_error, queued, dropped>>,
         runs'[f] # 0, \A k \in Futures : runs'[k] = 0 => runs[k] = 0
  PROVE  CrashStep(th)
<1>1. CASE Return(th, SetValue(f, f, TRUE)) /\ UNCHANGED links
  <2>1. NoError \in Errors \cup {NoError} OBVIOUS
  <2>2. PICK calls : calls = SetValue(f, f, TRUE) OBVIOUS
  <2>3. OwnsTask(calls, f) BY <2>1, <2>2, LibraryOwns
  <2> QED BY <1>1, <2>2, <2>3, TaskStepCrash
<1>2. PICK error : error = Call("TrySetError", f, f, f, TRUE) OBVIOUS
<1>3. CASE Return(th, <<error>>) /\ UNCHANGED links
  <2>1. PICK e \in Errors \cup {NoError} : e = f BY DEF Errors
  <2>2. error \in Calls /\ Strict(state, dropped, error) BY <1>2, <2>1, ErrorOwns
  <2>3. error.call = "TrySetError" /\ error.fut = f BY <1>2, <2>2 DEF Call
  <2>4. OwnsTask(<<error>>, f) BY <2>2, <2>3, OwnsTwo
  <2>5. PICK calls : calls = <<error>> OBVIOUS
  <2> QED BY <1>3, <2>4, <2>5, TaskStepCrash
<1>4. ASSUME NEW k \in Futures, NEW p \in Futures, Kind[k] = "completion", Target[k] = f,
             CanAdd(p, k), links' = links \cup {<<p, k>>},
             Return(th, <<Call("StartAwaiting", f, NoFuture, f, TRUE),
                          Call("AddContinuation", p, k, f, FALSE)>>)
      PROVE  CrashStep(th)
  <2>1. PICK await, add : /\ await = Call("StartAwaiting", f, NoFuture, f, TRUE)
                          /\ add = Call("AddContinuation", p, k, f, FALSE)
    OBVIOUS
  <2>2. /\ await \in Calls /\ await.call = "StartAwaiting" /\ await.fut = f
        /\ add \in Calls /\ add.call = "AddContinuation" /\ add.fut = p /\ add.arg = k
    <3>1. /\ "StartAwaiting" \in CallNames /\ NoFuture \in Args("StartAwaiting")
          /\ "AddContinuation" \in CallNames /\ k \in Args("AddContinuation")
      BY DEF CallNames, Args
    <3>2. await \in Calls /\ add \in Calls BY <2>1, <3>1, CallTyped
    <3> QED BY <2>1, <3>2 DEF Call
  <2>3. PICK calls : calls = <<await, add>> OBVIOUS
  <2>4. Return(th, calls) BY <1>4, <2>1, <2>3, Zenon
  <2>5. calls \in Seq(Calls) /\ DOMAIN calls = {1, 2} /\ calls[1] = await /\ calls[2] = add
    BY <2>2, <2>3, Places, Sequences
  <2>6. PICK o \in Calls : /\ o = Head(todo[th]) /\ o.call = "RunTask"
                           /\ 1 \in DOMAIN todo[th] /\ todo[th][1] = o
    BY TopSound
  <2>7. TypeOK BY DEF Live, Kept, IInv
  <2>8. Shifted(th, calls) BY <2>4, <2>5, <2>7, ReturnShifts
  <2>9. TopOwns(th, f) BY <2>6 DEF TopOwns, Owns, Moving
  <2>10. \A i \in DOMAIN calls : calls[i].call \in Moving => calls[i].fut = f /\ i = 1
    BY <2>2, <2>5 DEF Moving
  <2>11. state'[f] # "Pending" /\ dropped' = dropped /\ queued' = queued OBVIOUS
  <2>12. ASSUME NEW g \in Futures PROVE OwnerStep(th, calls, g)
    <3>1. CASE g = f
      <4>1. Owned(f) BY DEF Live, CrashInv
      <4>2. f \notin queued BY <2>9, <4>1 DEF Owned, NoOwner, TopOwns
      <4> QED BY <2>9, <2>10, <2>11, <3>1, <4>2 DEF OwnerStep, Owns
    <3>2. CASE g # f
      <4>1. \A i \in DOMAIN calls : ~Owns(dropped, calls[i], g) BY <2>10, <3>2 DEF Owns
      <4> QED BY <2>11, <4>1, OwnsNothing
    <3> QED BY <3>1, <3>2
  <2>13. ASSUME NEW g \in Futures PROVE FutureStep(th, calls, g)
    <3>1. MoveStep(th, calls, g) BY <2>6 DEF MoveStep, TopEnds, EndsIt
    <3>2. <<NoFuture, g>> \in links' => <<NoFuture, g>> \in links BY <1>4, FutureAssumption
    <3>3. Sound(g) BY DEF Live, CrashInv
    <3>4. Sound(g)' BY <1>4, <3>2, <3>3, SoundSame
    <3> QED BY <2>12, <3>1, <3>4 DEF FutureStep
  <2>14. \A i \in DOMAIN calls : Strict(state', dropped', calls[i]) BY <2>2, <2>5 DEF Strict
  <2>15. AddStep(th, calls)
    <3>1. CanContinue(p, k) BY <1>4 DEF CanAdd
    <3> QED BY <2>2, <2>5, <2>6, <3>1 DEF AddStep, TopIs
  <2>16. AwaitStep(th, calls)
    <3>1. \A l \in Futures : Linked(l)' /\ ~Linked(l) => l = k BY <1>4 DEF Linked
    <3>2. Awaits(todo'[th], k) BY <2>2, <2>5, <2>8 DEF Shifted, Awaits
    <3>3. \A i \in DOMAIN calls : Owns(dropped', calls[i], f) => i = 1 BY <2>10 DEF Owns
    <3>4. ~TopIs(th, "StartAwaiting") BY <2>6 DEF TopIs
    <3> QED BY <1>4, <2>9, <3>1, <3>2, <3>3, <3>4 DEF AwaitStep
  <2>17. \A u \in Threads : u # th => todo'[u] = todo[u] BY <2>4, <2>7 DEF TypeOK, Return
  <2> QED BY <2>5, <2>8, <2>13, <2>14, <2>15, <2>16, <2>17 DEF CrashStep, SoundStep
<1> QED BY <1>1, <1>2, <1>3, <1>4, Zenon DEF UserCallback

(* RunTask finds the value or the error of the parent.                     *)
LEMMA RunTaskCrash ==
  ASSUME Live, NEW th \in Threads, RunTask(th)
  PROVE  CrashStep(th)
<1>1. NextCall(th, "RunTask") BY DEF RunTask
<1>2. PICK op \in Calls : /\ op = Head(todo[th]) /\ op.fut \in Futures /\ op.call = "RunTask"
                          /\ 1 \in DOMAIN todo[th] /\ todo[th][1] = op
  BY <1>1, TopSound
<1>3. PICK f \in Futures : f = op.fut BY <1>2
<1>4. PICK e \in Errors \cup {NoError} : e = m_error[f] BY DEF Live, Kept, IInv, TypeOK
<1>5. /\ UNCHANGED <<state, continuation, m_link, m_error, queued, dropped>>
      /\ runs' = [runs EXCEPT ![f] = runs[f] + 1]
  BY <1>2, <1>3, Zenon DEF RunTask, futureVars
<1>6. runs'[f] # 0 /\ \A k \in Futures : runs'[k] = 0 => runs[k] = 0
  BY <1>5 DEF Live, Kept, IInv, TypeOK
<1>7. state[f] = "Invoking" /\ runs[f] = 0
  <2>1. Runs(op, f) BY <1>2, <1>3 DEF Runs
  <2>2. RanOnce(f) BY DEF Live, Kept, RunInv, SinglePosts
  <2> QED BY <1>2, <2>1, <2>2 DEF RanOnce
<1>8. ~crashed /\ Sound(f) BY DEF Live, CrashInv
<1>9. PICK success, error : /\ success = Call("TrySetSuccess", f, NoFuture, f, TRUE)
                            /\ error = Call("TrySetError", f, e, f, TRUE)
  OBVIOUS
<1>10. CASE UserCallback(th, f) /\ UNCHANGED crashed
  BY <1>1, <1>2, <1>3, <1>5, <1>6, <1>7, <1>8, <1>10, UserCallbackCrash
<1>11. ASSUME NEW calls, OwnsTask(calls, f), Return(th, calls), UNCHANGED links, ~crashed'
       PROVE  CrashStep(th)
  BY <1>1, <1>2, <1>3, <1>5, <1>6, <1>7, <1>11, TaskStepCrash
<1>12. CASE Return(th, TaskInvoke(f)) /\ UNCHANGED <<links, crashed>>
  <2>1. PICK calls : calls = TaskInvoke(f) OBVIOUS
  <2>2. OwnsTask(calls, f) BY <1>7, <2>1, LibraryOwns
  <2> QED BY <1>8, <1>11, <1>12, <2>1, <2>2
<1>13. CASE Return(th, CatchWith(f, e)) /\ UNCHANGED <<links, crashed>>
  <2>1. PICK calls : calls = CatchWith(f, e) OBVIOUS
  <2>2. OwnsTask(calls, f) BY <1>7, <2>1, LibraryOwns
  <2> QED BY <1>8, <1>11, <1>13, <2>1, <2>2
<1>14. CASE /\ e = NoError /\ ~HasTaskInvoke(f) /\ crashed' = (m_link[f] = NoFuture)
            /\ Return(th, <<success>>) /\ UNCHANGED links
  <2>1. ~IsPromise(f) BY <1>7, <1>8 DEF Sound, Done
  <2>2. Kind[f] = "shared" BY <1>14, <2>1 DEF HasTaskInvoke
  <2>3. ~crashed' BY <1>4, <1>7, <1>8, <1>14, <2>2 DEF Sound
  <2>4. success \in Calls /\ success.call = "TrySetSuccess" /\ success.fut = f /\ success.cur = f
    <3>1. "TrySetSuccess" \in CallNames /\ NoFuture \in Args("TrySetSuccess") BY DEF CallNames, Args
    <3>2. success \in Calls BY <1>9, <3>1, CallTyped
    <3> QED BY <1>9, <3>2 DEF Call
  <2>5. Strict(state, dropped, success)
    BY <1>7, <2>2, <2>4 DEF Strict, IsVoidValue, UseParentValue
  <2>6. OwnsTask(<<success>>, f) BY <2>4, <2>5, OwnsTwo
  <2>7. PICK calls : calls = <<success>> OBVIOUS
  <2> QED BY <1>11, <1>14, <2>3, <2>6, <2>7
<1>15. CASE Return(th, <<error>>) /\ UNCHANGED <<links, crashed>>
  <2>1. error \in Calls /\ Strict(state, dropped, error) BY <1>7, <1>9, ErrorOwns
  <2>2. error.call = "TrySetError" /\ error.fut = f BY <1>9, <2>1 DEF Call
  <2>3. OwnsTask(<<error>>, f) BY <2>1, <2>2, OwnsTwo
  <2>4. PICK calls : calls = <<error>> OBVIOUS
  <2> QED BY <1>8, <1>11, <1>15, <2>3, <2>4
<1> QED BY <1>2, <1>3, <1>4, <1>9, <1>10, <1>12, <1>13, <1>14, <1>15, Zenon DEF RunTask, TaskCatch

(* Every call of FutureImpl.                                               *)
LEMMA CallStepCrash ==
  ASSUME Live, NEW th \in Threads, CallStep(th)
  PROVE  CrashStep(th)
BY AddContinuationCrash, TryPostCrash, TaskPostCrash, TrySetPostedCrash, InvokeCrash,
   RunTaskCrash, StartAwaitingCrash, TryStartSetValueCrash, TrySetSuccessCrash,
   TrySetErrorCrash, SetFailedCrash, FinishedCrash, Zenon
   DEF CallStep
-----------------------------------------------------------------------------
(* A thread outside of the library makes calls, and no future changes.     *)
LEMMA OutsideCrash ==
  ASSUME Live, NEW th \in Threads, NEW calls \in Seq(Calls), Begin(th, calls),
         UNCHANGED <<state, continuation, m_link, m_error, runs, crashed>>,
         dropped \subseteq dropped', links \subseteq links',
         \A g \in Futures : <<NoFuture, g>> \in links' => <<NoFuture, g>> \in links \/ m_link[g] = NoFuture,
         \A k \in Futures : Kind[k] = "completion" /\ Linked(k)' => Linked(k),
         \A i \in DOMAIN calls : Strict(state', dropped', calls[i]),
         \A g \in Futures : OwnerStep(th, calls, g),
         \A i \in DOMAIN calls : calls[i].call = "AddContinuation" =>
           i = 1 /\ CanContinue(calls[i].fut, calls[i].arg)
  PROVE  CrashStep(th)
<1>1. TypeOK BY DEF Live, Kept, IInv
<1>2. Shifted(th, calls) /\ DOMAIN todo[th] = {} BY <1>1, BeginShifts
<1>3. \A u \in Threads : u # th => todo'[u] = todo[u] BY <1>1 DEF TypeOK, Begin
<1>4. ASSUME NEW g \in Futures PROVE FutureStep(th, calls, g)
  <2>1. MoveStep(th, calls, g) BY <1>2 DEF MoveStep, TopEnds
  <2>2. Sound(g) BY DEF Live, CrashInv
  <2>3. Sound(g)' BY <2>2 DEF Sound
  <2> QED BY <2>1, <2>3 DEF FutureStep
<1>5. AddStep(th, calls) BY <1>2 DEF AddStep, TopIs
<1>6. AwaitStep(th, calls) BY <1>2 DEF AwaitStep, TopIs
<1>7. ~crashed' BY DEF Live, CrashInv
<1> QED BY <1>2, <1>3, <1>4, <1>5, <1>6, <1>7 DEF CrashStep, SoundStep

(* A continuation is made and added.                                       *)
LEMMA ContinueCrash ==
  ASSUME Live, NEW th \in Threads, NEW p \in Futures, NEW c \in Futures, Continue(th, p, c)
  PROVE  CrashStep(th)
<1>1. PICK add : add = Call("AddContinuation", p, c, NoFuture, FALSE) OBVIOUS
<1>2. PICK wait : wait = Call("AwaitFinished", c, NoFuture, NoFuture, FALSE) OBVIOUS
<1>3. /\ add \in Calls /\ add.call = "AddContinuation" /\ add.fut = p /\ add.arg = c
      /\ wait \in Calls /\ wait.call = "AwaitFinished"
  <2>1. /\ "AddContinuation" \in CallNames /\ c \in Args("AddContinuation")
        /\ "AwaitFinished" \in CallNames /\ NoFuture \in Args("AwaitFinished")
    BY DEF CallNames, Args
  <2>2. add \in Calls /\ wait \in Calls BY <1>1, <1>2, <2>1, CallTyped
  <2> QED BY <1>1, <1>2, <2>2 DEF Call
<1>4. PICK rest \in {<<>>, <<wait>>} : ContinueWith(th, p, c, rest)
  BY <1>2, Zenon DEF Continue, Then, Catch, Share, SharedThen, AddFuture, WhenChanged, FutureWait,
     UserCall
<1>5. PICK calls : calls = <<add>> \o rest OBVIOUS
<1>6. /\ calls \in Seq(Calls) /\ 1 \in DOMAIN calls /\ calls[1] = add
      /\ \A i \in DOMAIN calls : i # 1 => calls[i] = wait
  <2>1. CASE rest = <<>> BY <1>3, <1>5, <2>1
  <2>2. CASE rest = <<wait>> BY <1>3, <1>5, <2>2
  <2> QED BY <2>1, <2>2
<1>7. /\ CanAdd(p, c) /\ links' = links \cup {<<p, c>>} /\ Begin(th, calls)
      /\ UNCHANGED <<state, continuation, m_link, m_error, runs, crashed, queued, dropped>>
  BY <1>1, <1>4, <1>5, Zenon DEF ContinueWith, UserCall, futureVars
<1>8. Kind[c] # "completion"
  BY DEF Continue, Then, Catch, Share, SharedThen, AddFuture, WhenChanged, FutureWait
<1>9. CanContinue(p, c) BY <1>7 DEF CanAdd
<1>10. \A i \in DOMAIN calls : /\ calls[i].call \notin Moving /\ Strict(state', dropped', calls[i])
                               /\ calls[i].call = "AddContinuation" =>
                                    i = 1 /\ CanContinue(calls[i].fut, calls[i].arg)
  BY <1>3, <1>6, <1>9 DEF Moving, Strict
<1>11. \A g \in Futures : OwnerStep(th, calls, g)
  <2> TAKE g \in Futures
  <2>1. \A i \in DOMAIN calls : ~Owns(dropped, calls[i], g) BY <1>10 DEF Owns
  <2> QED BY <1>7, <2>1, OwnsNothing
<1>12. \A g \in Futures : <<NoFuture, g>> \in links' => <<NoFuture, g>> \in links
  BY <1>7, FutureAssumption
<1>13. \A k \in Futures : Kind[k] = "completion" /\ Linked(k)' => Linked(k)
  BY <1>7, <1>8 DEF Linked
<1> QED BY <1>6, <1>7, <1>10, <1>11, <1>12, <1>13, OutsideCrash

(* PostFuture makes a future without a parent.                             *)
LEMMA PostFutureCrash ==
  ASSUME Live, NEW th \in Threads, NEW c \in Futures, PostFuture(th, c)
  PROVE  CrashStep(th)
<1>1. PICK post : post = Call("TryPost", c, NoFuture, NoFuture, TRUE) OBVIOUS
<1>2. post \in Calls /\ post.call = "TryPost"
  <2>1. "TryPost" \in CallNames /\ NoFuture \in Args("TryPost") BY DEF CallNames, Args
  <2>2. post \in Calls BY <1>1, <2>1, CallTyped
  <2> QED BY <1>1, <2>2 DEF Call
<1>3. PICK calls : calls = <<post>> OBVIOUS
<1>4. calls \in Seq(Calls) /\ DOMAIN calls = {1} /\ calls[1] = post BY <1>2, <1>3, Places
<1>5. /\ ~IsMade(c) /\ CallbackOnValue(c) /\ links' = links \cup {<<NoFuture, c>>} /\ Begin(th, calls)
      /\ UNCHANGED <<state, continuation, m_link, m_error, runs, crashed, queued, dropped>>
  BY <1>1, <1>3, Zenon DEF PostFuture, futureVars
<1>6. m_link[c] = NoFuture
  <2>1. m_link[c] \in Futures \cup {NoFuture} BY DEF Live, Kept, IInv, TypeOK
  <2>2. ~Linked(c) BY <1>5 DEF IsMade, Linked
  <2>3. m_link[c] \notin Futures BY <2>2 DEF Live, Kept, GraphInv, AllWords, ListOK
  <2> QED BY <2>1, <2>3
<1>7. \A i \in DOMAIN calls : /\ calls[i].call \notin Moving /\ Strict(state', dropped', calls[i])
                              /\ calls[i].call # "AddContinuation"
  BY <1>2, <1>4 DEF Moving, Strict
<1>8. \A g \in Futures : OwnerStep(th, calls, g)
  <2> TAKE g \in Futures
  <2>1. \A i \in DOMAIN calls : ~Owns(dropped, calls[i], g) BY <1>7 DEF Owns
  <2> QED BY <1>5, <2>1, OwnsNothing
<1>9. \A g \in Futures : <<NoFuture, g>> \in links' => <<NoFuture, g>> \in links \/ m_link[g] = NoFuture
  BY <1>5, <1>6
<1>10. \A k \in Futures : Kind[k] = "completion" /\ Linked(k)' => Linked(k)
  BY <1>5 DEF Linked, CallbackOnValue
<1> QED BY <1>4, <1>5, <1>7, <1>8, <1>9, <1>10, OutsideCrash

(* Of a promise only its continuations are pending.                        *)
LEMMA PromiseAtRest ==
  ASSUME Live, NEW f \in Futures, IsPromise(f)
  PROVE  f \notin queued
<1>1. ~HasTaskPost(f) BY DEF HasTaskPost, IsPromise
<1> QED BY <1>1 DEF Live, Kept, GraphInv, AllWords, ResultOK

(* A promise is set, by two threads maybe, or a source by the one it has.  *)
LEMMA SetCrash ==
  ASSUME Live, NEW th \in Threads, NEW f \in Futures, Set(th, f)
  PROVE  CrashStep(th)
<1>1. PICK set, start, error, cancel :
        /\ set = Call("TrySetSuccess", f, NoFuture, NoFuture, FALSE)
        /\ start = Call("TryStartSetValue", f, NoFuture, NoFuture, FALSE)
        /\ error = Call("TrySetError", f, f, NoFuture, FALSE)
        /\ cancel = Call("TrySetError", f, Canceled, NoFuture, FALSE)
  OBVIOUS
<1>2. \A x \in {set, start, error, cancel} : x \in Calls /\ x.fut = f /\ x.strict = FALSE
  <2>1. /\ "TrySetSuccess" \in CallNames /\ NoFuture \in Args("TrySetSuccess")
        /\ "TryStartSetValue" \in CallNames /\ NoFuture \in Args("TryStartSetValue")
        /\ "TrySetError" \in CallNames /\ f \in Args("TrySetError") /\ Canceled \in Args("TrySetError")
    BY DEF CallNames, Args, Errors
  <2>2. set \in Calls /\ start \in Calls /\ error \in Calls /\ cancel \in Calls
    BY <1>1, <2>1, CallTyped
  <2>3. /\ set.fut = f /\ start.fut = f /\ error.fut = f /\ cancel.fut = f
        /\ set.strict = FALSE /\ start.strict = FALSE /\ error.strict = FALSE /\ cancel.strict = FALSE
    BY <1>1, <2>2 DEF Call
  <2> QED BY <2>2, <2>3
<1>3. /\ set.call = "TrySetSuccess" /\ start.call = "TryStartSetValue"
      /\ error.call = "TrySetError" /\ cancel.call = "TrySetError"
  BY <1>1, <1>2 DEF Call
<1>4. /\ IsPromise(f)
      /\ Kind[f] \in {"promise", "group"} \/ (Kind[f] = "source" /\ th \in SourceUsers)
      /\ \E s \in {SetValue(f, NoFuture, FALSE), <<error>>, <<cancel>>} : SetPromise(th, f, s)
  BY <1>1, Zenon DEF Set, PromiseTrySetValue, PromiseTrySetError, PromiseTryCancel,
     GroupTrySetValue, GroupTrySetError, Cancel, Abandon, UserCall, IsPromise
<1>5. PICK x \in (IF IsVoidValue(f) THEN {set, error, cancel} ELSE {start, error, cancel}) :
        SetPromise(th, f, <<x>>)
  <2>1. SetValue(f, NoFuture, FALSE) = IF IsVoidValue(f) THEN <<set>> ELSE <<start>>
    BY <1>1, Zenon DEF SetValue
  <2> QED BY <1>4, <2>1
<1>6. PICK calls : calls = <<x>> OBVIOUS
<1>7. x \in Calls /\ x.fut = f /\ x.strict = FALSE BY <1>2, <1>5
<1>8. calls \in Seq(Calls) /\ DOMAIN calls = {1} /\ calls[1] = x BY <1>6, <1>7, Places
<1>9. /\ f \notin dropped /\ Begin(th, calls)
      /\ UNCHANGED <<state, continuation, m_link, m_error, runs, crashed, queued, dropped, links>>
  BY <1>5, <1>6, Zenon DEF SetPromise, futureVars, userVars
<1>10. x.call # "AddContinuation" /\ Strict(state', dropped', x)
  BY <1>3, <1>5, <1>7 DEF Strict
<1>11. OwnerStep(th, calls, f)
  <2>1. CASE Kind[f] \in {"promise", "group"}
    <3>1. ~IsVoidValue(f) BY <2>1 DEF Live, NoVoidRace, IsVoidValue, UseParentValue
    <3>2. x.call \in {"TryStartSetValue", "TrySetError"} BY <1>3, <1>5, <3>1
    <3>3. ~Owns(dropped, x, f) BY <1>7, <1>9, <2>1, <3>2 DEF Owns, Exclusive
    <3> QED BY <1>8, <1>9, <3>3, OwnsNothing
  <2>2. CASE Kind[f] = "source" /\ th \in SourceUsers
    <3>1. NoOwner(f)
      <4> SUFFICES ASSUME NEW u \in Threads, NEW i \in DOMAIN todo[u], Owns(dropped, todo[u][i], f)
                   PROVE  FALSE
        BY DEF NoOwner
      <4>1. u \in SourceUsers BY <2>2 DEF Live, CrashInv, Owned
      <4>2. u = th BY <2>2, <4>1 DEF Live, NoVoidRace
      <4> QED BY <1>9, <4>2 DEF Begin
    <3>2. f \notin queued BY <1>4, PromiseAtRest DEF IsPromise
    <3> QED BY <1>4, <1>8, <1>9, <2>2, <3>1, <3>2 DEF OwnerStep, Fresh, IsPromise
  <2> QED BY <1>4, <2>1, <2>2
<1>12. \A g \in Futures : OwnerStep(th, calls, g)
  <2> TAKE g \in Futures
  <2>1. CASE g # f
    <3>1. \A i \in DOMAIN calls : ~Owns(dropped, calls[i], g) BY <1>7, <1>8, <2>1 DEF Owns
    <3> QED BY <1>9, <3>1, OwnsNothing
  <2> QED BY <1>11, <2>1
<1> QED BY <1>8, <1>9, <1>10, <1>12, OutsideCrash DEF Linked

(* The last handle of a promise goes away, and nobody is left to set it.   *)
LEMMA DropPromiseCrash ==
  ASSUME Live, NEW th \in Threads, NEW f \in Futures, DropPromise(th, f)
  PROVE  CrashStep(th)
<1>1. PICK drop : drop = Call("TrySetError", f, Canceled, NoFuture, TRUE) OBVIOUS
<1>2. drop \in Calls /\ drop.call = "TrySetError" /\ drop.fut = f
  <2>1. "TrySetError" \in CallNames /\ Canceled \in Args("TrySetError") BY DEF CallNames, Args, Errors
  <2>2. drop \in Calls BY <1>1, <2>1, CallTyped
  <2> QED BY <1>1, <2>2 DEF Call
<1>3. /\ IsPromise(f)
      /\ Kind[f] = "source" => th \in SourceUsers
      /\ \A u \in Threads : \A i \in DOMAIN todo[u] : todo[u][i].fut # f
      /\ dropped' = dropped \cup {f}
      /\ UNCHANGED <<state, continuation, m_link, m_error, runs, crashed, queued, links>>
  BY DEF DropPromise, futureVars
<1>4. PICK calls \in {<<>>, <<drop>>} : Begin(th, calls) /\ (calls = <<drop>> => state[f] \notin Done)
  BY <1>1, Zenon DEF DropPromise
<1>5. calls \in Seq(Calls) /\ \A i \in DOMAIN calls : i = 1 /\ calls[i] = drop
  <2>1. CASE calls = <<>> BY <2>1
  <2>2. CASE calls = <<drop>>
    <3>1. calls \in Seq(Calls) BY <1>2, <2>2
    <3> QED BY <2>2, <3>1, Places
  <2> QED BY <1>4, <2>1, <2>2
<1>6. \A i \in DOMAIN calls : calls[i].call # "AddContinuation" /\ Strict(state', dropped', calls[i])
  <2> SUFFICES ASSUME NEW i \in DOMAIN calls
               PROVE  calls[i].call # "AddContinuation" /\ Strict(state', dropped', calls[i])
    OBVIOUS
  <2>1. calls = <<drop>> BY <1>4
  <2>2. state[f] \in {"Pending", "SettingResult"}
    BY <1>3, <1>4, <2>1 DEF Live, CrashInv, Sound
  <2>3. state[f] # "SettingResult" BY <1>3 DEF Live, CrashInv, Ending, EndsIt
  <2> QED BY <1>2, <1>3, <1>5, <2>2, <2>3 DEF Strict
<1>7. ASSUME NEW g \in Futures PROVE OwnerStep(th, calls, g)
  <2>1. CASE g = f
    <3>1. NoOwner(f) BY <1>3 DEF NoOwner, Owns
    <3>2. f \notin queued BY <1>3, PromiseAtRest
    <3>3. Fresh(th, f) BY <1>3 DEF Fresh
    <3> QED BY <1>3, <1>5, <2>1, <3>1, <3>2, <3>3 DEF OwnerStep
  <2>2. CASE g # f
    <3>1. \A i \in DOMAIN calls : ~Owns(dropped', calls[i], g) BY <1>2, <1>5, <2>2 DEF Owns
    <3> QED BY <1>3, <2>2, <3>1 DEF OwnerStep
  <2> QED BY <2>1, <2>2
<1> QED BY <1>3, <1>4, <1>5, <1>6, <1>7, OutsideCrash DEF Linked

(* An executor runs or cancels the callback it kept, which nobody else     *)
(* has.                                                                    *)
LEMMA RunQueuedCrash ==
  ASSUME Live, NEW th \in Threads, NEW f \in Futures, RunQueued(th, f)
  PROVE  CrashStep(th)
<1>1. PICK invoke : invoke = Call("Invoke", f, NoFuture, NoFuture, FALSE) OBVIOUS
<1>2. PICK cancel : cancel = Call("TrySetError", f, Canceled, NoFuture, FALSE) OBVIOUS
<1>3. /\ "Invoke" \in CallNames /\ NoFuture \in Args("Invoke")
      /\ "TrySetError" \in CallNames /\ Canceled \in Args("TrySetError")
  BY DEF CallNames, Args, Errors
<1>4. invoke \in Calls /\ cancel \in Calls BY <1>1, <1>2, <1>3, CallTyped
<1>5. /\ invoke.call = "Invoke" /\ invoke.fut = f /\ invoke.cur = NoFuture
      /\ cancel.call = "TrySetError" /\ cancel.fut = f /\ cancel.strict = FALSE
  BY <1>1, <1>2, <1>4 DEF Call
<1>6. /\ f \in queued /\ queued' = queued \ {f}
      /\ Begin(th, <<invoke>>) \/ Begin(th, <<cancel>>)
      /\ UNCHANGED <<state, continuation, m_link, m_error, runs, crashed, dropped, links>>
  BY <1>1, <1>2, Zenon DEF RunQueued, UserCall, futureVars
<1>7. PICK x \in {invoke, cancel} : Begin(th, <<x>>) BY <1>6
<1>8. PICK calls : calls = <<x>> OBVIOUS
<1>9. x \in Calls /\ x.fut = f BY <1>4, <1>5, <1>7
<1>10. calls \in Seq(Calls) /\ DOMAIN calls = {1} /\ calls[1] = x BY <1>8, <1>9, Places
<1>11. x.call # "AddContinuation" /\ Strict(state', dropped', x)
  BY <1>5, <1>7, FutureAssumption DEF Strict
<1>12. ASSUME NEW g \in Futures PROVE OwnerStep(th, calls, g)
  <2>1. CASE g = f
    <3>1. NoOwner(f) BY <1>6 DEF Live, CrashInv, Owned
    <3>2. HasTaskPost(f) /\ state[f] # "Pending" BY <1>6 DEF Live, Kept, GraphInv, AllWords, ResultOK
    <3>3. runs[f] = 0 BY <1>6 DEF Live, Kept, GraphInv, AllRest, RestOK, ToRun
    <3>4. Fresh(th, f) BY <3>2, <3>3 DEF Fresh, HasTaskPost
    <3> QED BY <1>6, <1>10, <2>1, <3>1, <3>2, <3>4 DEF OwnerStep
  <2>2. CASE g # f
    <3>1. \A i \in DOMAIN calls : ~Owns(dropped, calls[i], g) BY <1>9, <1>10, <2>2 DEF Owns
    <3> QED BY <1>6, <3>1, OwnsNothing
  <2> QED BY <2>1, <2>2
<1> QED BY <1>6, <1>7, <1>8, <1>10, <1>11, <1>12, OutsideCrash DEF Linked
-----------------------------------------------------------------------------
(* Every step of the program keeps the invariant.                          *)
LEMMA StepCrash ==
  ASSUME SinglePosts, IsFiniteSet(Futures), NoVoidRace,
         IInv, RunInv, GraphInv, KeptInv, CrashInv, [Next]_vars
  PROVE  CrashInv'
<1>1. CASE UNCHANGED vars
  <2>1. UNCHANGED <<todo, links, m_link, continuation, state, m_error, queued, dropped, runs, crashed>>
    BY <1>1 DEF vars, futureVars, userVars
  <2>2. AllStrict' BY <2>1 DEF CrashInv, AllStrict
  <2>3. ASSUME NEW f \in Futures PROVE Owned(f)' /\ Awaited(f)' /\ Alone(f)' /\ Ending(f)' /\ Sound(f)'
    <3>1. Owned(f)' BY <2>1 DEF CrashInv, Owned, OneOwner, NoOwner
    <3>2. Awaited(f)' BY <2>1 DEF CrashInv, Awaited, Awaits, Linked
    <3>3. Alone(f)' BY <2>1 DEF CrashInv, Alone
    <3>4. Ending(f)' BY <2>1 DEF CrashInv, Ending
    <3>5. Sound(f)' BY <2>1 DEF CrashInv, Sound
    <3> QED BY <3>1, <3>2, <3>3, <3>4, <3>5
  <2> QED BY <2>1, <2>2, <2>3 DEF CrashInv
<1>2. CASE Next
  <2>1. Live BY DEF Live, Kept, KeptInv, CrashInv
  <2>2. FollowsArrows BY <1>2, NextSafe DEF SafeStep
  <2>3. PICK th \in Threads : CrashStep(th)
    <3>1. CASE \E th \in Threads : CallStep(th) BY <2>1, <3>1, CallStepCrash
    <3>2. CASE \E th \in Users : UserStep(th)
      <4>1. PICK th \in Users, f \in Futures :
              \/ \E c \in Futures : Continue(th, f, c)
              \/ WhenAll(th, f) \/ WhenAny(th, f)
              \/ PostFuture(th, f) \/ Set(th, f) \/ DropPromise(th, f)
        BY <3>2, Zenon DEF UserStep
      <4>2. ~WhenAll(th, f) /\ ~WhenAny(th, f) BY DEF SinglePosts, IsMultiPost, WhenAll, WhenAny
      <4>3. th \in Threads BY DEF Threads
      <4> QED BY <2>1, <4>1, <4>2, <4>3, ContinueCrash, PostFutureCrash, SetCrash, DropPromiseCrash
    <3>3. CASE \E th \in Executors, f \in Futures : RunQueued(th, f)
      <4>1. PICK th \in Executors, f \in Futures : RunQueued(th, f) BY <3>3
      <4>2. th \in Threads BY DEF Threads
      <4> QED BY <2>1, <4>1, <4>2, RunQueuedCrash
    <3> QED BY <1>2, <3>1, <3>2, <3>3 DEF Next
  <2> QED BY <2>1, <2>2, <2>3, CrashStepInv
<1> QED BY <1>1, <1>2

(* At first nothing is pending, and only the tokens are linked.            *)
LEMMA InitCrash == Init => CrashInv
<1> SUFFICES ASSUME Init PROVE CrashInv OBVIOUS
<1>1. /\ \A f \in Futures : state[f] = "Pending" /\ m_link[f] = NoFuture /\ runs[f] = 0
      /\ \A th \in Threads : DOMAIN todo[th] = {}
      /\ links = TokenLinks /\ ~crashed
  BY DEF Init
<1>2. ASSUME NEW f \in Futures PROVE Owned(f) /\ Awaited(f) /\ Alone(f) /\ Ending(f) /\ Sound(f)
  <2>1. Owned(f) BY <1>1 DEF Owned, OneOwner, NoOwner
  <2>2. Awaited(f) BY <1>1 DEF Awaited
  <2>3. Alone(f) BY <1>1 DEF Alone
  <2>4. Ending(f) BY <1>1 DEF Ending
  <2>5. continuation[f] # NoFuture => \E c \in Futures : <<f, c>> \in links
    <3>1. continuation[f] = IF \E c \in Futures : <<f, c>> \in TokenLinks
                            THEN CHOOSE c \in Futures : <<f, c>> \in TokenLinks
                            ELSE NoFuture
      BY DEF Init
    <3> QED BY <1>1, <3>1
  <2>6. Sound(f) BY <1>1, <2>5 DEF Sound
  <2> QED BY <2>1, <2>2, <2>3, <2>4, <2>6
<1>3. AllStrict BY <1>1 DEF AllStrict
<1> QED BY <1>1, <1>2, <1>3 DEF CrashInv

(* No VerifyElseCrash of futureImpl.cpp fails: every call that may not be  *)
(* turned down is made by the one owner of its future, which alone moves   *)
(* its word.                                                               *)
THEOREM NoCrashes ==
  ASSUME SinglePosts, IsFiniteSet(Futures), NoVoidRace
  PROVE  Spec => []NoCrash
<1>1. Init => KeptInv BY InitKept
<1>2. IInv /\ RunInv /\ GraphInv /\ KeptInv /\ [Next]_vars => KeptInv' BY StepKept
<1>3. IInv /\ RunInv /\ GraphInv /\ KeptInv /\ CrashInv /\ [Next]_vars => CrashInv' BY StepCrash
<1>4. CrashInv => NoCrash BY DEF CrashInv, NoCrash
<1> QED BY <1>1, <1>2, <1>3, <1>4, InitIInv, InitRunInv, InitGraphInv, InitCrash, StepAll, PTL DEF Spec
=============================================================================
