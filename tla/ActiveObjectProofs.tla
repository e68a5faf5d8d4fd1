-------------------------- MODULE ActiveObjectProofs --------------------------
(***************************************************************************)
(* Proofs about ActiveObject, for any clients, objects and calls.          *)
(***************************************************************************)
EXTENDS ActiveObject, SequenceTheorems, FiniteSetTheorems, TLAPS

(* A frame of the set C is on a stack, and is on the stacks once. *)
OccursIn(f, C) == \E th \in Threads : \E i \in DOMAIN f[th] : f[th][i] \in C
AtMostOnceIn(f, C) ==
  \A th, u \in Threads : \A i \in DOMAIN f[th], j \in DOMAIN f[u] :
    f[th][i] \in C /\ f[u][j] \in C => th = u /\ i = j
Occurs(C) == OccursIn(stack, C)

FramesOn(places, x) == {Frame(at, x) : at \in places}
RunFrames(t) == FramesOn({"run", "user", "end"}, t)
ObjectFrames(o) ==
  FramesOn({"construct", "make", "release", "delete", "destruct", "notify", "wait"}, o)
HoldFrames(o) == {f \in Frames : FrameHolds(f, o)}
EndFrames(o) ==
  FramesOn({"delete", "destruct"}, o) \cup FramesOn({"run", "user", "cancel"}, FinalizeTask(o))

(* The queue starts what the queue's thread runs, and canceled what other  *)
(* frames cancel.                                                          *)
TasksPlaced ==
  \A t \in Tasks : /\ Occurs(RunFrames(t)) => t \in running \cup finished
                   /\ Occurs({Frame("cancel", t)}) => t \in doomed \cup canceled

(* Only the queue's thread runs tasks, a task that was just invoked is     *)
(* what it runs, and what another thread constructs is made outside.       *)
RunsInQueue ==
  \A th \in Threads : \A i \in DOMAIN stack[th] :
    /\ stack[th][i].at \in {"run", "user", "end"} => th = QueueThread
    /\ stack[th][i].at = "run" => i = 1
    /\ stack[th][i].at = "construct" => th = QueueThread \/ stack[th][i].on \in outside

(* Nobody has heard of an object that was not made. *)
Unmade ==
  \A o \in ActiveObjects : ~object[o].made =>
    /\ ~object[o].m_isInitialized
    /\ \A t \in Tasks : t.obj = o => t \in fresh
    /\ \A th \in Threads : o \notin held[th]
    /\ ~Occurs(ObjectFrames(o))
    /\ o \notin destroyed \cup finalized

(* Somebody is in charge of the end of o. *)
Ending(o) == Occurs(EndFrames(o)) \/ FinalizeTask(o) \in Queue!Pending

(* DestroyedOnce, told apart by stacks and queue. *)
EndsOnce(o) ==
  /\ AtMostOnceIn(stack, EndFrames(o))
  /\ ~(Occurs(EndFrames(o)) /\ FinalizeTask(o) \in Queue!Pending)
  /\ Ending(o) \/ o \in destroyed => ~IsHeld(o)
  /\ o \in destroyed => ~Ending(o)

(* Finalize is handed to the queue once the object is initialized, and     *)
(* before an initialized object is destructed its Finalize returned or was *)
(* canceled.                                                               *)
FinalizedFirst(o) ==
  /\ FinalizeTask(o) \notin fresh => object[o].m_isInitialized
  /\ o \in finalized => /\ FinalizeTask(o) \in running \cup finished
                        /\ ~Occurs(FramesOn({"run", "user"}, FinalizeTask(o)))
  /\ o \in destroyed \/ Occurs({Frame("destruct", o)}) =>
       (object[o].m_hasFinalize /\ object[o].m_isInitialized =>
          o \in finalized \/ FinalizeTask(o) \in canceled)

(* The callbacks of o, and the frames of those that are not in e.          *)
Callbacks(o) == {t \in Tasks : t.obj = o /\ t.kind \in {"Weak", "Strong"}}
LateFrames(o, e) == UNION {FramesOn({"run", "user"}, t) : t \in Callbacks(o) \ e}

(* While o is constructed nothing but early callbacks was handed over.     *)
BeingMade(o) ==
  /\ AtMostOnceIn(stack, {Frame("construct", o)})
  /\ Occurs({Frame("construct", o)}) =>
       /\ ~object[o].m_isInitialized
       /\ InitializeTask(o) \in fresh
       /\ Callbacks(o) \subseteq fresh \cup early

(* Why no other callback of o runs before Initialize: o is still under     *)
(* construction; a client made it, who put Initialize ahead of them in the *)
(* queue; Initialize is about to run; or the queue canceled it and accepts *)
(* none of them.  A client's object keeps the queue's thread from invoking *)
(* such a callback, and one that Initialize is about to run on keeps it    *)
(* busy.                                                                   *)
InitializeAhead(o) ==
  /\ o \in outside
  /\ \E k \in DOMAIN pending :
       /\ pending[k] = InitializeTask(o)
       /\ \A i \in DOMAIN pending : pending[i] \in Callbacks(o) \ early => i > k
InitializeCanceled(o) ==
  /\ o \in outside
  /\ InitializeTask(o) \in doomed \cup canceled
  /\ ~accepting
  /\ Queue!Pending \cap Callbacks(o) \subseteq early
NotCalledYet(o) ==
  /\ ~Occurs(LateFrames(o, early))
  /\ \/ Occurs({Frame("construct", o)})
     \/ InitializeAhead(o)
     \/ Occurs({Frame("run", InitializeTask(o))})
     \/ InitializeCanceled(o)

(* Callbacks that are not early run after Initialize, inside it, or never. *)
InitializedFirst(o) ==
  object[o].made /\ ~object[o].m_isInitialized =>
    Occurs({Frame("user", InitializeTask(o))}) \/ ~IsHeld(o) \/ NotCalledYet(o)

(* The inductive invariant. *)
ObjectInv(o) == EndsOnce(o) /\ FinalizedFirst(o) /\ BeingMade(o) /\ InitializedFirst(o)
IndInv ==
  /\ TypeOK
  /\ Queue!OnePlace
  /\ TasksPlaced
  /\ RunsInQueue
  /\ Unmade
  /\ \A o \in ActiveObjects : ObjectInv(o)
-----------------------------------------------------------------------------
(* The tasks: what their fields are and which are the same. *)
LEMMA TaskFields ==
  /\ \A t \in Tasks : /\ t.kind \in {"Initialize", "Finalize", "Weak", "Strong", "Other"}
                      /\ t.kind # "Other" => t.obj \in ActiveObjects
                      /\ t.kind = "Other" => t.obj = NoObject
                      /\ t.kind = "Finalize" => t = FinalizeTask(t.obj)
                      /\ t.kind = "Initialize" => t = InitializeTask(t.obj)
  /\ \A o \in ActiveObjects : /\ FinalizeTask(o) \in Tasks /\ InitializeTask(o) \in Tasks
                              /\ FinalizeTask(o).kind = "Finalize" /\ FinalizeTask(o).obj = o
                              /\ InitializeTask(o).kind = "Initialize"
                              /\ InitializeTask(o).obj = o
                              /\ FinalizeTask(o) # InitializeTask(o)
  BY DEF Tasks, FinalizeTask, InitializeTask

(* The frames: a place goes with a task or with an object. *)
LEMMA FrameFields ==
  /\ \A at, on : Frame(at, on).at = at /\ Frame(at, on).on = on
  /\ \A a, b, x, y : Frame(a, x) = Frame(b, y) => a = b /\ x = y
  /\ \A f \in Frames : /\ f = Frame(f.at, f.on)
                       /\ f.at \in {"run", "user", "end", "cancel"} => f.on \in Tasks
                       /\ f.at \notin {"run", "user", "end", "cancel"} => f.on \in ActiveObjects
                       /\ f.at \in {"run", "user", "end", "cancel", "construct", "make", "release",
                                    "delete", "destruct", "notify", "wait"}
  /\ \A t \in Tasks : \A at \in {"run", "user", "end", "cancel"} : Frame(at, t) \in Frames
  /\ \A o \in ActiveObjects :
       \A at \in {"construct", "make", "release", "delete", "destruct", "notify", "wait"} :
         Frame(at, o) \in Frames
  BY DEF Frame, Frames

(* A sequence of frames in front of another. *)
LEMMA ConcatFrames ==
  ASSUME NEW p \in Seq(Frames), NEW r \in Seq(Frames)
  PROVE  /\ p \o r \in Seq(Frames)
         /\ \A i \in DOMAIN (p \o r) :
              \/ i \in DOMAIN p /\ (p \o r)[i] = p[i]
              \/ i - Len(p) \in DOMAIN r /\ (p \o r)[i] = r[i - Len(p)] /\ i \notin DOMAIN p
         /\ \A i \in DOMAIN p : i \in DOMAIN (p \o r) /\ (p \o r)[i] = p[i]
         /\ \A i \in DOMAIN r : i + Len(p) \in DOMAIN (p \o r) /\ (p \o r)[i + Len(p)] = r[i]
  <1> DEFINE s == p \o r
  <1>1. /\ s \in Seq(Frames) /\ Len(s) = Len(p) + Len(r)
        /\ \A i \in 1..Len(s) : s[i] = IF i <= Len(p) THEN p[i] ELSE r[i - Len(p)]
    BY ConcatProperties
  <1>2. /\ DOMAIN s = 1..(Len(p) + Len(r)) /\ DOMAIN p = 1..Len(p) /\ DOMAIN r = 1..Len(r)
        /\ Len(p) \in Nat /\ Len(r) \in Nat
    BY <1>1
  <1> HIDE DEF s
  <1>3. \A i \in DOMAIN s : \/ i \in DOMAIN p /\ s[i] = p[i]
                            \/ i - Len(p) \in DOMAIN r /\ s[i] = r[i - Len(p)] /\ i \notin DOMAIN p
    BY <1>1, <1>2
  <1>4. \A i \in DOMAIN p : i \in DOMAIN s /\ s[i] = p[i]
    BY <1>1, <1>2
  <1>5. \A i \in DOMAIN r : i + Len(p) \in DOMAIN s /\ s[i + Len(p)] = r[i]
    BY <1>1, <1>2
  <1> QED BY <1>1, <1>3, <1>4, <1>5 DEF s

In(p, C) == \E i \in DOMAIN p : p[i] \in C
OnceIn(p, C) == \A i, j \in DOMAIN p : p[i] \in C /\ p[j] \in C => i = j

(* The frames of a short sequence. *)
LEMMA ShortSequences ==
  ASSUME NEW x \in Frames, NEW y \in Frames, NEW C
  PROVE  /\ <<>> \in Seq(Frames) /\ <<x>> \in Seq(Frames) /\ <<x, y>> \in Seq(Frames)
         /\ ~In(<<>>, C) /\ (In(<<x>>, C) <=> x \in C) /\ (In(<<x, y>>, C) <=> x \in C \/ y \in C)
         /\ OnceIn(<<>>, C) /\ OnceIn(<<x>>, C)
         /\ (x \notin C \/ y \notin C => OnceIn(<<x, y>>, C))
  <1>1. <<>> \in Seq(Frames) /\ <<x>> \in Seq(Frames) /\ <<x, y>> \in Seq(Frames)
    OBVIOUS
  <1>2. ~In(<<>>, C) /\ OnceIn(<<>>, C)
    BY DEF In, OnceIn
  <1>3. (In(<<x>>, C) <=> x \in C) /\ OnceIn(<<x>>, C)
    BY DEF In, OnceIn
  <1>4. (In(<<x, y>>, C) <=> x \in C \/ y \in C) /\ (x \notin C \/ y \notin C => OnceIn(<<x, y>>, C))
    <2> DEFINE s == <<x, y>>
    <2>1. s[1] = x /\ s[2] = y /\ DOMAIN s = {1, 2}
      OBVIOUS
    <2> HIDE DEF s
    <2>2. (In(s, C) <=> x \in C \/ y \in C) /\ (x \notin C \/ y \notin C => OnceIn(s, C))
      BY <2>1 DEF In, OnceIn
    <2> QED BY <2>2 DEF s
  <1> QED BY <1>1, <1>2, <1>3, <1>4

(* Three sequences of frames, one after the other. *)
LEMMA ThreeSequences ==
  ASSUME NEW p \in Seq(Frames), NEW q \in Seq(Frames), NEW r \in Seq(Frames)
  PROVE  p \o (q \o r) = (p \o q) \o r
  BY ConcatAssociative

(* Two frames, one after the other. *)
LEMMA TwoFrames ==
  ASSUME NEW x \in Frames, NEW y \in Frames
  PROVE  <<x>> \o <<y>> = <<x, y>>
  <1> DEFINE s == <<x>> \o <<y>>
             r == <<x, y>>
  <1>1. s \in Seq(Frames) /\ r \in Seq(Frames) /\ Len(s) = 2 /\ Len(r) = 2
    BY ConcatProperties
  <1>2. \A i \in 1..2 : s[i] = r[i]
    <2>1. s[1] = x /\ s[2] = y /\ r[1] = x /\ r[2] = y
      BY ConcatProperties
    <2> HIDE DEF s, r
    <2> QED BY <2>1
  <1> HIDE DEF s, r
  <1>3. s = r
    BY <1>1, <1>2, SeqEqual
  <1> QED BY <1>3 DEF s, r

(* Frames pushed on the stack of a thread. *)
LEMMA Pushed ==
  ASSUME NEW f \in [Threads -> Seq(Frames)], NEW th \in Threads, NEW p \in Seq(Frames),
         NEW g, g[th] = p \o f[th], \A o \in Threads : o # th => g[o] = f[o], NEW C
  PROVE  /\ OccursIn(g, C) <=> OccursIn(f, C) \/ In(p, C)
         /\ AtMostOnceIn(f, C) /\ OnceIn(p, C) /\ (OccursIn(f, C) => ~In(p, C))
            => AtMostOnceIn(g, C)
  <1> DEFINE s == p \o f[th]
  <1>1. /\ s \in Seq(Frames)
        /\ \A i \in DOMAIN s :
              \/ i \in DOMAIN p /\ s[i] = p[i]
              \/ i - Len(p) \in DOMAIN f[th] /\ s[i] = f[th][i - Len(p)] /\ i \notin DOMAIN p
        /\ \A i \in DOMAIN p : i \in DOMAIN s /\ s[i] = p[i]
        /\ \A i \in DOMAIN f[th] : i + Len(p) \in DOMAIN s /\ s[i + Len(p)] = f[th][i]
    BY ConcatFrames
  <1>2. g[th] = s /\ \A o \in Threads : o # th => g[o] = f[o]
    OBVIOUS
  <1>3. DOMAIN s \subseteq Int /\ Len(p) \in Int
    BY <1>1
  <1> HIDE DEF s
  <1>4. OccursIn(g, C) => OccursIn(f, C) \/ In(p, C)
    <2> SUFFICES ASSUME NEW o \in Threads, NEW i \in DOMAIN g[o], g[o][i] \in C,
                        \A k \in DOMAIN p : p[k] \notin C
                 PROVE  OccursIn(f, C)
      BY DEF OccursIn, In
    <2>1. CASE o = th
      BY <1>1, <1>2, <2>1 DEF OccursIn
    <2>2. CASE o # th
      BY <1>2, <2>2 DEF OccursIn
    <2> QED BY <2>1, <2>2
  <1>5. OccursIn(f, C) \/ In(p, C) => OccursIn(g, C)
    <2>1. ASSUME NEW i \in DOMAIN p, p[i] \in C PROVE OccursIn(g, C)
      BY <1>1, <1>2, <2>1 DEF OccursIn
    <2>2. ASSUME NEW o \in Threads, NEW i \in DOMAIN f[o], f[o][i] \in C PROVE OccursIn(g, C)
      <3>1. CASE o = th
        BY <1>1, <1>2, <2>2, <3>1 DEF OccursIn
      <3>2. CASE o # th
        BY <1>2, <2>2, <3>2 DEF OccursIn
      <3> QED BY <3>1, <3>2
    <2> QED BY <2>1, <2>2 DEF OccursIn, In
  <1>6. ASSUME AtMostOnceIn(f, C), OnceIn(p, C), OccursIn(f, C) => ~In(p, C)
        PROVE  AtMostOnceIn(g, C)
    <2> SUFFICES ASSUME NEW a \in Threads, NEW b \in Threads, NEW i \in DOMAIN g[a],
                        NEW j \in DOMAIN g[b], g[a][i] \in C, g[b][j] \in C
                 PROVE  a = b /\ i = j
      BY DEF AtMostOnceIn
    <2>1. CASE a # th /\ b # th
      BY <1>2, <1>6, <2>1 DEF AtMostOnceIn
    <2>2. CASE a = th /\ b # th
      BY <1>1, <1>2, <1>6, <2>2 DEF AtMostOnceIn, OccursIn, In
    <2>3. CASE a # th /\ b = th
      BY <1>1, <1>2, <1>6, <2>3 DEF AtMostOnceIn, OccursIn, In
    <2>4. CASE a = th /\ b = th
      <3>1. i \in DOMAIN s /\ j \in DOMAIN s /\ s[i] \in C /\ s[j] \in C
        BY <1>2, <2>4
      <3>2. CASE i \in DOMAIN p /\ j \in DOMAIN p
        BY <1>1, <1>6, <2>4, <3>1, <3>2 DEF OnceIn
      <3>3. CASE i \in DOMAIN p /\ j \notin DOMAIN p
        BY <1>1, <1>6, <3>1, <3>3 DEF OccursIn, In
      <3>4. CASE i \notin DOMAIN p /\ j \in DOMAIN p
        BY <1>1, <1>6, <3>1, <3>4 DEF OccursIn, In
      <3>5. CASE i \notin DOMAIN p /\ j \notin DOMAIN p
        <4>1. i - Len(p) = j - Len(p)
          BY <1>1, <1>6, <3>1, <3>5 DEF AtMostOnceIn
        <4> QED BY <1>3, <2>4, <3>1, <4>1
      <3> QED BY <3>2, <3>3, <3>4, <3>5
    <2> QED BY <2>1, <2>2, <2>3, <2>4
  <1> QED BY <1>1, <1>4, <1>5, <1>6 DEF s

(* The topmost frame of a thread is done. *)
LEMMA Popped ==
  ASSUME NEW f \in [Threads -> Seq(Frames)], NEW th \in Threads, f[th] # <<>>,
         NEW g, g[th] = Tail(f[th]), \A o \in Threads : o # th => g[o] = f[o], NEW C
  PROVE  /\ Head(f[th]) \in Frames
         /\ OccursIn(f, C) <=> OccursIn(g, C) \/ Head(f[th]) \in C
         /\ AtMostOnceIn(f, C) => /\ AtMostOnceIn(g, C)
                                  /\ Head(f[th]) \in C => ~OccursIn(g, C)
  <1> DEFINE s == Tail(f[th])
  <1>1. /\ s \in Seq(Frames) /\ Len(f[th]) \in Nat /\ Len(s) = Len(f[th]) - 1
        /\ \A i \in 1..Len(s) : s[i] = f[th][i + 1]
        /\ Head(f[th]) = f[th][1] /\ f[th] \in Seq(Frames) /\ Len(f[th]) >= 1
    BY HeadTailProperties
  <1>2. DOMAIN s = 1..Len(s) /\ DOMAIN f[th] = 1..Len(f[th])
    BY <1>1
  <1>3. g[th] = s /\ \A o \in Threads : o # th => g[o] = f[o]
    OBVIOUS
  <1> HIDE DEF s
  <1>4. \A i \in DOMAIN s : i + 1 \in DOMAIN f[th] /\ s[i] = f[th][i + 1] /\ i + 1 # 1 /\ i \in Int
    BY <1>1, <1>2
  <1>5. /\ \A i \in DOMAIN f[th] : i = 1 \/ (i - 1 \in DOMAIN s /\ f[th][i] = s[i - 1])
        /\ 1 \in DOMAIN f[th]
    BY <1>1, <1>2
  <1>6. OccursIn(f, C) <=> OccursIn(g, C) \/ Head(f[th]) \in C
    <2>1. ASSUME NEW o \in Threads, NEW i \in DOMAIN f[o], f[o][i] \in C, Head(f[th]) \notin C
          PROVE  OccursIn(g, C)
      <3>1. CASE o = th
        BY <1>1, <1>3, <1>5, <2>1, <3>1 DEF OccursIn
      <3>2. CASE o # th
        BY <1>3, <2>1, <3>2 DEF OccursIn
      <3> QED BY <3>1, <3>2
    <2>2. ASSUME NEW o \in Threads, NEW i \in DOMAIN g[o], g[o][i] \in C
          PROVE  OccursIn(f, C)
      <3>1. CASE o = th
        BY <1>3, <1>4, <2>2, <3>1 DEF OccursIn
      <3>2. CASE o # th
        BY <1>3, <2>2, <3>2 DEF OccursIn
      <3> QED BY <3>1, <3>2
    <2>3. Head(f[th]) \in C => OccursIn(f, C)
      BY <1>1, <1>5 DEF OccursIn
    <2> QED BY <2>1, <2>2, <2>3 DEF OccursIn
  <1>7. AtMostOnceIn(f, C) => AtMostOnceIn(g, C)
    BY <1>3, <1>4 DEF AtMostOnceIn
  <1>8. AtMostOnceIn(f, C) /\ Head(f[th]) \in C => ~OccursIn(g, C)
    BY <1>1, <1>3, <1>4, <1>5 DEF AtMostOnceIn, OccursIn
  <1>9. Head(f[th]) \in Frames
    BY <1>1, <1>5, HeadTailProperties DEF s
  <1> QED BY <1>6, <1>7, <1>8, <1>9

(* What a step of th does to its stack: it puts the frames p on it, or in  *)
(* place of the topmost one.                                               *)
Pushes(th, p) == stack' = [stack EXCEPT ![th] = p \o stack[th]]
Swaps(th, p) == stack[th] # <<>> /\ stack' = [stack EXCEPT ![th] = p \o Tail(stack[th])]

(* A step does one or the other. *)
LEMMA PushOrSwap ==
  ASSUME TypeOK, NEW th \in Threads, NEW p \in Seq(Frames)
  PROVE  ~(Pushes(th, p) /\ Swaps(th, p))
  <1> SUFFICES ASSUME Pushes(th, p), Swaps(th, p) PROVE FALSE
    OBVIOUS
  <1>1. stack[th] \in Seq(Frames) /\ stack[th] # <<>> /\ p \o stack[th] = p \o Tail(stack[th])
    BY DEF Pushes, Swaps, TypeOK
  <1>2. /\ Len(p \o stack[th]) = Len(p) + Len(stack[th])
        /\ Len(p \o Tail(stack[th])) = Len(p) + Len(stack[th]) - 1
    BY <1>1
  <1> QED BY <1>1, <1>2

(* Which frames are on the stacks after a step. *)
LEMMA StackStep ==
  ASSUME TypeOK, NEW th \in Threads, NEW p \in Seq(Frames), Pushes(th, p) \/ Swaps(th, p), NEW C
  PROVE  /\ stack' \in [Threads -> Seq(Frames)]
         /\ OccursIn(stack', C) => OccursIn(stack, C) \/ In(p, C)
         /\ In(p, C) => OccursIn(stack', C)
         /\ OccursIn(stack, C) => OccursIn(stack', C) \/ (Swaps(th, p) /\ Head(stack[th]) \in C)
         /\ AtMostOnceIn(stack, C) /\ OnceIn(p, C)
            /\ (In(p, C) => ~OccursIn(stack, C) \/ (Swaps(th, p) /\ Head(stack[th]) \in C))
            => AtMostOnceIn(stack', C)
         /\ AtMostOnceIn(stack, C) /\ Swaps(th, p) /\ Head(stack[th]) \in C /\ ~In(p, C)
            => ~OccursIn(stack', C)
         /\ stack[th] # <<>> => Head(stack[th]) \in Frames
  <1>1. stack \in [Threads -> Seq(Frames)]
    BY DEF TypeOK
  <1>2. stack[th] # <<>> => Head(stack[th]) \in Frames
    BY <1>1, HeadTailProperties
  <1>3. CASE Swaps(th, p)
    <2>1. stack[th] # <<>> /\ [stack EXCEPT ![th] = Tail(stack[th])] \in [Threads -> Seq(Frames)]
      BY <1>1, <1>3, HeadTailProperties DEF Swaps
    <2>2. PICK h \in [Threads -> Seq(Frames)] :
            h[th] = Tail(stack[th]) /\ \A o \in Threads : o # th => h[o] = stack[o]
      BY <1>1, <2>1
    <2>3. /\ stack'[th] = p \o h[th] /\ \A o \in Threads : o # th => stack'[o] = h[o]
      BY <1>1, <1>3, <2>2 DEF Swaps
    <2>4. /\ OccursIn(stack, C) <=> OccursIn(h, C) \/ Head(stack[th]) \in C
          /\ AtMostOnceIn(stack, C) => /\ AtMostOnceIn(h, C)
                                       /\ Head(stack[th]) \in C => ~OccursIn(h, C)
      BY <1>1, <2>1, <2>2, Popped
    <2>5. /\ OccursIn(stack', C) <=> OccursIn(h, C) \/ In(p, C)
          /\ AtMostOnceIn(h, C) /\ OnceIn(p, C) /\ (OccursIn(h, C) => ~In(p, C))
             => AtMostOnceIn(stack', C)
      BY <2>2, <2>3, Pushed
    <2>6. stack' \in [Threads -> Seq(Frames)]
      BY <1>1, <1>3, <2>2, ConcatFrames DEF Swaps
    <2> QED BY <1>2, <1>3, <2>4, <2>5, <2>6
  <1>4. CASE Pushes(th, p) /\ ~Swaps(th, p)
    <2>1. /\ stack'[th] = p \o stack[th] /\ \A o \in Threads : o # th => stack'[o] = stack[o]
      BY <1>1, <1>4 DEF Pushes
    <2>2. /\ OccursIn(stack', C) <=> OccursIn(stack, C) \/ In(p, C)
          /\ AtMostOnceIn(stack, C) /\ OnceIn(p, C) /\ (OccursIn(stack, C) => ~In(p, C))
             => AtMostOnceIn(stack', C)
      BY <1>1, <2>1, Pushed
    <2>3. stack' \in [Threads -> Seq(Frames)]
      BY <1>1, <1>4, ConcatFrames DEF Pushes
    <2> QED BY <1>2, <1>4, <2>2, <2>3
  <1> QED BY <1>3, <1>4
-----------------------------------------------------------------------------
(* A sequence without repetition has none without its head,              *)
LEMMA DistinctTail ==
  ASSUME NEW S, NEW s \in Seq(S), s # <<>>, \A i, j \in DOMAIN s : s[i] = s[j] => i = j
  PROVE  /\ Tail(s) \in Seq(S) /\ Head(s) \in {s[i] : i \in DOMAIN s}
         /\ \A i, j \in DOMAIN Tail(s) : Tail(s)[i] = Tail(s)[j] => i = j
         /\ {Tail(s)[i] : i \in DOMAIN Tail(s)} = {s[i] : i \in DOMAIN s} \ {Head(s)}
  <1> DEFINE t == Tail(s)
  <1>1. /\ t \in Seq(S) /\ Head(s) = s[1] /\ 1 \in DOMAIN s
        /\ \A i \in DOMAIN t : i \in Nat /\ i + 1 \in DOMAIN s /\ i + 1 # 1 /\ t[i] = s[i + 1]
        /\ \A k \in DOMAIN s : k # 1 => k - 1 \in DOMAIN t /\ t[k - 1] = s[k]
    OBVIOUS
  <1> HIDE DEF t
  <1>2. ASSUME NEW i \in DOMAIN t, NEW j \in DOMAIN t, t[i] = t[j] PROVE i = j
    <2>1. i + 1 = j + 1
      BY <1>1, <1>2
    <2> QED BY <1>1, <2>1
  <1>3. ASSUME NEW i \in DOMAIN t PROVE t[i] \in {s[k] : k \in DOMAIN s} \ {Head(s)}
    BY <1>1
  <1>4. ASSUME NEW x \in {s[k] : k \in DOMAIN s} \ {Head(s)} PROVE \E i \in DOMAIN t : t[i] = x
    <2>1. PICK k \in DOMAIN s : s[k] = x
      OBVIOUS
    <2>2. k - 1 \in DOMAIN t /\ t[k - 1] = x
      BY <1>1, <2>1
    <2> QED BY <2>2
  <1> QED BY <1>1, <1>2, <1>3, <1>4 DEF t

(* and none with a new element at its end.                                *)
LEMMA DistinctAppend ==
  ASSUME NEW S, NEW s \in Seq(S), NEW x \in S, x \notin {s[i] : i \in DOMAIN s},
         \A i, j \in DOMAIN s : s[i] = s[j] => i = j
  PROVE  /\ Append(s, x) \in Seq(S)
         /\ \A i, j \in DOMAIN Append(s, x) : Append(s, x)[i] = Append(s, x)[j] => i = j
         /\ {Append(s, x)[i] : i \in DOMAIN Append(s, x)} = {s[i] : i \in DOMAIN s} \cup {x}
  <1> DEFINE t == Append(s, x)
  <1>1. /\ t \in Seq(S) /\ DOMAIN t = 1..(Len(s) + 1) /\ DOMAIN s = 1..Len(s) /\ Len(s) \in Nat
        /\ \A i \in 1..Len(s) : t[i] = s[i]
        /\ t[Len(s) + 1] = x
    OBVIOUS
  <1> HIDE DEF t
  <1>2. \A i, j \in DOMAIN t : t[i] = t[j] => i = j
    BY <1>1
  <1>3. {t[i] : i \in DOMAIN t} = {s[i] : i \in DOMAIN s} \cup {x}
    BY <1>1
  <1> QED BY <1>1, <1>2, <1>3 DEF t

(* A new queue has been handed nothing. *)
LEMMA OnePlaceInit == ASSUME Queue!Init PROVE Queue!OnePlace
  BY DEF Queue!Init, Queue!OnePlace, Queue!Pending

(* Every step of the abstract queue moves tasks from one place to another. *)
LEMMA OnePlaceStep ==
  ASSUME Queue!OnePlace, [Queue!Next]_(Queue!vars)
  PROVE  Queue!OnePlace'
  <1> USE DEF Queue!OnePlace
  <1>1. ASSUME NEW t \in Tasks, Queue!Accept(t) PROVE Queue!OnePlace'
    <2>1. t \in fresh /\ pending' = Append(pending, t)
      BY <1>1 DEF Queue!Accept
    <2>2. t \notin Queue!Pending
      BY <2>1
    <2>3. /\ Queue!Pending' = Queue!Pending \cup {t} /\ pending' \in Seq(Tasks)
          /\ (\A i, j \in DOMAIN pending : pending[i] = pending[j] => i = j)'
      BY <1>1, <2>1, <2>2, DistinctAppend DEF Queue!Pending
    <2> QED BY <1>1, <2>1, <2>2, <2>3 DEF Queue!Accept
  <1>2. ASSUME NEW t \in Tasks,
               Queue!Reject(t) \/ Queue!InvokeInside(t) \/ Queue!Defer(t) \/ Queue!Cancel(t)
        PROVE  Queue!OnePlace'
    BY <1>2 DEF Queue!Reject, Queue!InvokeInside, Queue!Defer, Queue!Cancel, Queue!Pending
  <1>3. ASSUME NEW t \in Tasks, Queue!Finish(t) PROVE Queue!OnePlace'
    <2>1. PICK next \in {{}} \cup {{u} : u \in deferred} :
            running' = (running \ {t}) \cup next /\ deferred' = deferred \ next
      BY <1>3 DEF Queue!Finish
    <2>2. next \subseteq deferred
      BY <2>1
    <2> QED BY <1>3, <2>1, <2>2 DEF Queue!Finish, Queue!Pending
  <1>4. CASE Queue!Start
    <2>1. pending # <<>> /\ pending' = Tail(pending)
      BY <1>4 DEF Queue!Start
    <2>2. PICK s \in Seq(Tasks) : s = pending
      OBVIOUS
    <2>3. PICK t, h : t = Tail(s) /\ h = Head(s)
      OBVIOUS
    <2>4. \A i, j \in DOMAIN s : s[i] = s[j] => i = j
      BY <2>2
    <2>5. /\ t \in Seq(Tasks) /\ h \in {s[i] : i \in DOMAIN s}
          /\ \A i, j \in DOMAIN t : t[i] = t[j] => i = j
          /\ {t[i] : i \in DOMAIN t} = {s[i] : i \in DOMAIN s} \ {h}
      BY <2>1, <2>2, <2>3, <2>4, DistinctTail
    <2>6. pending' = t /\ Queue!Pending' = Queue!Pending \ {h} /\ h \in Queue!Pending
      BY <2>1, <2>2, <2>3, <2>5 DEF Queue!Pending
    <2>7. running' = running \cup {h}
      BY <1>4, <2>2, <2>3 DEF Queue!Start
    <2> QED BY <1>4, <2>5, <2>6, <2>7 DEF Queue!Start
  <1>5. ASSUME NEW action \in {"Complete", "Cancel"}, Queue!Shutdown(action)
        PROVE  Queue!OnePlace'
    BY <1>5 DEF Queue!Shutdown, Queue!Pending
  <1>6. CASE UNCHANGED Queue!vars
    BY <1>6 DEF Queue!vars, Queue!Pending
  <1> QED BY <1>1, <1>2, <1>3, <1>4, <1>5, <1>6 DEF Queue!Next

(* A dispatch queue loses no task, runs none twice, and cancels none that  *)
(* runs or has run.                                                        *)
THEOREM TaskFate == Queue!Spec => []Queue!OnePlace
  BY OnePlaceInit, OnePlaceStep, PTL DEF Queue!Spec

(* Tasks leave fresh for good, and those that run or were turned away stay *)
(* so.                                                                     *)
LEMMA QueueGrows ==
  ASSUME TypeOK, Queue!OnePlace, [Queue!Next]_queueVars
  PROVE  /\ Queue!OnePlace'
         /\ fresh' \subseteq fresh
         /\ running \cup finished \subseteq (running \cup finished)'
         /\ doomed \cup canceled \subseteq (doomed \cup canceled)'
         /\ canceled \subseteq canceled'
         /\ accepting' => accepting
  <1>1. [Queue!Next]_(Queue!vars)
    BY DEF Queue!vars, queueVars
  <1>2. Queue!OnePlace'
    BY <1>1, OnePlaceStep
  <1>3. ASSUME NEW t \in Tasks, Queue!Finish(t)
        PROVE  /\ fresh' = fresh /\ running \cup finished \subseteq (running \cup finished)'
               /\ doomed' = doomed /\ canceled' = canceled /\ accepting' = accepting
    BY <1>3 DEF Queue!Finish
  <1>4. ASSUME NEW action, Queue!Shutdown(action)
        PROVE  /\ fresh' = fresh /\ running' = running /\ finished' = finished
               /\ doomed \subseteq doomed' /\ canceled' = canceled /\ ~accepting'
    BY <1>4 DEF Queue!Shutdown
  <1>5. ASSUME NEW t \in Tasks, \/ Queue!Accept(t) \/ Queue!Reject(t) \/ Queue!InvokeInside(t)
                                \/ Queue!Defer(t) \/ Queue!Cancel(t)
        PROVE  /\ fresh' \subseteq fresh
               /\ running \cup finished \subseteq (running \cup finished)'
               /\ doomed \cup canceled \subseteq (doomed \cup canceled)'
               /\ canceled \subseteq canceled' /\ accepting' = accepting
    BY <1>5 DEF Queue!Accept, Queue!Reject, Queue!InvokeInside, Queue!Defer, Queue!Cancel
  <1>6. CASE Queue!Start
    BY <1>2, <1>6 DEF Queue!Start
  <1>7. CASE UNCHANGED queueVars
    BY <1>2, <1>7 DEF queueVars
  <1> QED BY <1>2, <1>3, <1>4, <1>5, <1>6, <1>7 DEF Queue!Next

(* Frames of running tasks are put on the stack of a step's thread only    *)
(* when the queue has started them, others when it has given them up.      *)
LEMMA TasksPlacedStep ==
  ASSUME TypeOK, TasksPlaced, NEW th \in Threads, NEW p \in Seq(Frames),
         Pushes(th, p) \/ Swaps(th, p),
         running \cup finished \subseteq (running \cup finished)',
         doomed \cup canceled \subseteq (doomed \cup canceled)',
         \A i \in DOMAIN p :
           /\ p[i].at \in {"run", "user", "end"} => p[i].on \in (running \cup finished)'
           /\ p[i].at = "cancel" => p[i].on \in (doomed \cup canceled)'
  PROVE  TasksPlaced'
  <1> SUFFICES ASSUME NEW t \in Tasks
               PROVE  /\ OccursIn(stack', RunFrames(t)) => t \in (running \cup finished)'
                      /\ OccursIn(stack', {Frame("cancel", t)}) => t \in (doomed \cup canceled)'
    BY DEF TasksPlaced, Occurs
  <1>1. In(p, RunFrames(t)) => t \in (running \cup finished)'
    BY FrameFields DEF In, RunFrames, FramesOn
  <1>2. In(p, {Frame("cancel", t)}) => t \in (doomed \cup canceled)'
    BY FrameFields DEF In
  <1>3. OccursIn(stack', RunFrames(t)) => OccursIn(stack, RunFrames(t)) \/ In(p, RunFrames(t))
    BY StackStep
  <1>4. OccursIn(stack', {Frame("cancel", t)}) =>
          OccursIn(stack, {Frame("cancel", t)}) \/ In(p, {Frame("cancel", t)})
    BY StackStep
  <1> QED BY <1>1, <1>2, <1>3, <1>4 DEF TasksPlaced, Occurs

(* The queue's thread alone pushes frames of running tasks, and nothing on *)
(* top of a task it has yet to run; what others construct is outside.      *)
LEMMA RunsInQueueStep ==
  ASSUME TypeOK, RunsInQueue, NEW th \in Threads, NEW p \in Seq(Frames),
         \/ Pushes(th, p) /\ (p = <<>> \/ stack[th] = <<>> \/ Head(stack[th]).at # "run")
         \/ Swaps(th, p),
         outside \subseteq outside',
         \A i \in DOMAIN p :
           /\ p[i].at \in {"run", "user", "end"} => th = QueueThread
           /\ p[i].at = "run" => i = 1
           /\ p[i].at = "construct" => th = QueueThread \/ p[i].on \in outside'
  PROVE  RunsInQueue'
  <1>1. stack \in [Threads -> Seq(Frames)]
    BY DEF TypeOK
  <1>2. PICK r \in Seq(Frames) :
          /\ stack'[th] = p \o r /\ \A o \in Threads : o # th => stack'[o] = stack[o]
          /\ \A i \in DOMAIN r : r[i].at \in {"run", "user", "end"} => th = QueueThread
          /\ \A i \in DOMAIN r : p # <<>> \/ i # 1 => r[i].at # "run"
          /\ \A i \in DOMAIN r :
               r[i].at = "construct" => th = QueueThread \/ r[i].on \in outside'
    <2>1. CASE Swaps(th, p)
      <3> DEFINE s == Tail(stack[th])
      <3>1. /\ s \in Seq(Frames) /\ Len(s) = Len(stack[th]) - 1 /\ Len(stack[th]) \in Nat
            /\ \A i \in 1..Len(s) : s[i] = stack[th][i + 1]
            /\ DOMAIN s = 1..Len(s) /\ DOMAIN stack[th] = 1..Len(stack[th])
        BY <1>1, <2>1, HeadTailProperties DEF Swaps
      <3>2. stack'[th] = p \o s /\ \A o \in Threads : o # th => stack'[o] = stack[o]
        BY <1>1, <2>1 DEF Swaps
      <3> HIDE DEF s
      <3>3. \A i \in DOMAIN s : i + 1 \in DOMAIN stack[th] /\ s[i] = stack[th][i + 1] /\ i + 1 # 1
        BY <3>1
      <3>4. \A i \in DOMAIN s :
              /\ s[i].at \in {"run", "user", "end"} => th = QueueThread
              /\ s[i].at # "run"
              /\ s[i].at = "construct" => th = QueueThread \/ s[i].on \in outside'
        BY <3>3 DEF RunsInQueue
      <3> QED BY <3>1, <3>2, <3>4
    <2>2. CASE /\ Pushes(th, p)
               /\ p = <<>> \/ stack[th] = <<>> \/ Head(stack[th]).at # "run"
      <3>1. stack'[th] = p \o stack[th] /\ \A o \in Threads : o # th => stack'[o] = stack[o]
        BY <1>1, <2>2 DEF Pushes
      <3>2. \A i \in DOMAIN stack[th] :
              /\ stack[th][i].at \in {"run", "user", "end"} => th = QueueThread
              /\ stack[th][i].at = "run" => i = 1
              /\ stack[th][i].at = "construct" => th = QueueThread \/ stack[th][i].on \in outside'
        BY DEF RunsInQueue
      <3>3. \A i \in DOMAIN stack[th] : p # <<>> \/ i # 1 => stack[th][i].at # "run"
        <4>1. stack[th] # <<>> => Head(stack[th]) = stack[th][1]
          BY <1>1
        <4>2. \A i \in DOMAIN stack[th] : stack[th] # <<>>
          BY <1>1
        <4> QED BY <2>2, <3>2, <4>1, <4>2
      <3> QED BY <1>1, <3>1, <3>2, <3>3
    <2> QED BY <2>1, <2>2
  <1> SUFFICES ASSUME NEW o \in Threads, NEW i \in DOMAIN stack'[o]
               PROVE  /\ stack'[o][i].at \in {"run", "user", "end"} => o = QueueThread
                      /\ stack'[o][i].at = "run" => i = 1
                      /\ stack'[o][i].at = "construct" =>
                           o = QueueThread \/ stack'[o][i].on \in outside'
    BY DEF RunsInQueue
  <1>3. CASE o # th
    BY <1>2, <1>3 DEF RunsInQueue
  <1>4. CASE o = th
    <2>1. \/ i \in DOMAIN p /\ stack'[th][i] = p[i]
          \/ i - Len(p) \in DOMAIN r /\ stack'[th][i] = r[i - Len(p)] /\ i \notin DOMAIN p
      BY <1>2, <1>4, ConcatFrames
    <2>2. CASE i \in DOMAIN p /\ stack'[th][i] = p[i]
      BY <1>4, <2>2
    <2>3. CASE i - Len(p) \in DOMAIN r /\ stack'[th][i] = r[i - Len(p)]
      <3>1. p = <<>> => Len(p) = 0
        OBVIOUS
      <3>2. DOMAIN stack'[th] \subseteq Int
        BY <1>2, ConcatFrames
      <3> QED BY <1>2, <1>4, <2>3, <3>1, <3>2
    <2> QED BY <2>1, <2>2, <2>3
  <1> QED BY <1>3, <1>4

(* A step tells nobody of an object that is not made. *)
LEMMA UnmadeStep ==
  ASSUME TypeOK, Unmade, NEW th \in Threads, NEW p \in Seq(Frames), Pushes(th, p) \/ Swaps(th, p),
         \A o \in ActiveObjects :
           /\ object[o].made => object'[o].made
           /\ object'[o].m_isInitialized => object[o].m_isInitialized \/ object'[o].made
           /\ \A x \in Threads : o \in held'[x] => o \in held[x] \/ object'[o].made
           /\ In(p, ObjectFrames(o)) => object'[o].made
           /\ o \in (destroyed \cup finalized)' => o \in destroyed \cup finalized \/ object'[o].made
           /\ \A t \in Tasks : t.obj = o => t \notin fresh \/ t \in fresh' \/ object'[o].made
  PROVE  Unmade'
  <1> SUFFICES ASSUME NEW o \in ActiveObjects, ~object'[o].made
               PROVE  /\ ~object'[o].m_isInitialized
                      /\ \A t \in Tasks : t.obj = o => t \in fresh'
                      /\ \A x \in Threads : o \notin held'[x]
                      /\ ~OccursIn(stack', ObjectFrames(o))
                      /\ o \notin (destroyed \cup finalized)'
    BY DEF Unmade, Occurs
  <1>1. OccursIn(stack', ObjectFrames(o)) => OccursIn(stack, ObjectFrames(o)) \/ In(p, ObjectFrames(o))
    BY StackStep
  <1>2. /\ ~object[o].m_isInitialized
        /\ \A t \in Tasks : t.obj = o => t \in fresh
        /\ \A x \in Threads : o \notin held[x]
        /\ ~OccursIn(stack, ObjectFrames(o))
        /\ o \notin destroyed \cup finalized
    BY DEF Unmade, Occurs
  <1> QED BY <1>1, <1>2

(* Who holds an object: pointers of user code, frames, and tasks that wait. *)
LEMMA HeldParts ==
  ASSUME TypeOK, NEW o \in ActiveObjects
  PROVE  IsHeld(o) <=> \/ \E x \in Threads : o \in held[x]
                       \/ Occurs(HoldFrames(o))
                       \/ \E i \in DOMAIN pending : TaskHolds(pending[i], o)
  <1>1. \A x \in Threads : \A i \in DOMAIN stack[x] : stack[x][i] \in Frames
    BY DEF TypeOK
  <1>2. (\E x \in Threads : \E i \in DOMAIN stack[x] : FrameHolds(stack[x][i], o))
          <=> Occurs(HoldFrames(o))
    BY <1>1 DEF Occurs, OccursIn, HoldFrames
  <1> QED BY <1>2 DEF IsHeld, HeldIn

(* The same after a step. *)
LEMMA HeldPartsNext ==
  ASSUME TypeOK', NEW o \in ActiveObjects
  PROVE  IsHeld(o)' <=> \/ \E x \in Threads : o \in held'[x]
                        \/ OccursIn(stack', HoldFrames(o))
                        \/ \E i \in DOMAIN pending' : TaskHolds(pending'[i], o)
  <1>1. (TypeOK => (IsHeld(o) <=> \/ \E x \in Threads : o \in held[x]
                                  \/ Occurs(HoldFrames(o))
                                  \/ \E i \in DOMAIN pending : TaskHolds(pending[i], o)))'
    BY HeldParts, PTL
  <1> QED BY <1>1 DEF Occurs

(* A step makes an object that was not held a held one only through a new  *)
(* pointer, frame or task.                                                 *)
LEMMA HeldStep ==
  ASSUME TypeOK, TypeOK', NEW o \in ActiveObjects, NEW th \in Threads, NEW p \in Seq(Frames),
         Pushes(th, p) \/ Swaps(th, p),
         \A x \in Threads : o \in held'[x] => IsHeld(o),
         In(p, HoldFrames(o)) => IsHeld(o),
         \A i \in DOMAIN pending' : TaskHolds(pending'[i], o) => IsHeld(o)
  PROVE  IsHeld(o)' => IsHeld(o)
  <1>1. IsHeld(o)' <=> \/ \E x \in Threads : o \in held'[x]
                       \/ OccursIn(stack', HoldFrames(o))
                       \/ \E i \in DOMAIN pending' : TaskHolds(pending'[i], o)
    BY HeldPartsNext
  <1>2. OccursIn(stack', HoldFrames(o)) => OccursIn(stack, HoldFrames(o)) \/ In(p, HoldFrames(o))
    BY StackStep
  <1>3. OccursIn(stack, HoldFrames(o)) => IsHeld(o)
    BY HeldParts DEF Occurs
  <1> QED BY <1>1, <1>2, <1>3

(* A step that has nothing to do with the end of o. *)
LEMMA EndsSame ==
  ASSUME TypeOK, NEW o \in ActiveObjects, EndsOnce(o), NEW th \in Threads, NEW p \in Seq(Frames),
         Pushes(th, p) \/ Swaps(th, p), ~In(p, EndFrames(o)),
         FinalizeTask(o) \in Queue!Pending' => FinalizeTask(o) \in Queue!Pending,
         o \in destroyed' => o \in destroyed,
         IsHeld(o)' => IsHeld(o)
  PROVE  EndsOnce(o)'
  <1>1. /\ OccursIn(stack', EndFrames(o)) => OccursIn(stack, EndFrames(o))
        /\ OnceIn(p, EndFrames(o)) /\ AtMostOnceIn(stack, EndFrames(o))
           => AtMostOnceIn(stack', EndFrames(o))
    BY StackStep
  <1>2. OnceIn(p, EndFrames(o))
    BY DEF OnceIn, In
  <1> QED BY <1>1, <1>2 DEF EndsOnce, Ending, Occurs

(* The frame in charge of the end of o gives way to another, to a task in  *)
(* the queue, or to none once o is destroyed.                              *)
LEMMA EndsMoved ==
  ASSUME TypeOK, NEW o \in ActiveObjects, EndsOnce(o), NEW th \in Threads, NEW p \in Seq(Frames),
         Swaps(th, p), Head(stack[th]) \in EndFrames(o), OnceIn(p, EndFrames(o)),
         FinalizeTask(o) \in Queue!Pending' => ~In(p, EndFrames(o)),
         o \in destroyed' => o \in destroyed
                             \/ (~In(p, EndFrames(o)) /\ FinalizeTask(o) \notin Queue!Pending'),
         IsHeld(o)' => IsHeld(o)
  PROVE  EndsOnce(o)'
  <1>1. OccursIn(stack, EndFrames(o))
    <2>1. stack[th] # <<>> /\ stack[th] \in Seq(Frames)
      BY DEF Swaps, TypeOK
    <2>2. Head(stack[th]) = stack[th][1] /\ 1 \in DOMAIN stack[th]
      BY <2>1
    <2> QED BY <2>2 DEF OccursIn
  <1>2. /\ AtMostOnceIn(stack', EndFrames(o))
        /\ ~In(p, EndFrames(o)) => ~OccursIn(stack', EndFrames(o))
    BY StackStep DEF EndsOnce
  <1>3. ~IsHeld(o) /\ o \notin destroyed
    BY <1>1 DEF EndsOnce, Ending, Occurs
  <1> QED BY <1>2, <1>3 DEF EndsOnce, Ending, Occurs

(* A step that puts somebody in charge of the end of o, when no frame was. *)
LEMMA EndsBegun ==
  ASSUME TypeOK, NEW o \in ActiveObjects, EndsOnce(o), NEW th \in Threads, NEW p \in Seq(Frames),
         Pushes(th, p) \/ Swaps(th, p), OnceIn(p, EndFrames(o)),
         ~Occurs(EndFrames(o)), o \notin destroyed',
         FinalizeTask(o) \in Queue!Pending' => ~In(p, EndFrames(o)) /\ ~IsHeld(o)',
         In(p, EndFrames(o)) => ~IsHeld(o)'
  PROVE  EndsOnce(o)'
  <1>1. /\ OccursIn(stack', EndFrames(o)) => In(p, EndFrames(o))
        /\ AtMostOnceIn(stack', EndFrames(o))
    BY StackStep DEF EndsOnce, Occurs
  <1> QED BY <1>1 DEF EndsOnce, Ending, Occurs

(* A step that neither finalizes nor destructs o. *)
LEMMA FinalSame ==
  ASSUME TypeOK, NEW o \in ActiveObjects, FinalizedFirst(o), NEW th \in Threads,
         NEW p \in Seq(Frames), Pushes(th, p) \/ Swaps(th, p),
         object[o].m_isInitialized => object'[o].m_isInitialized,
         FinalizeTask(o) \in fresh' \/ FinalizeTask(o) \notin fresh \/ object'[o].m_isInitialized,
         running \cup finished \subseteq (running \cup finished)', canceled \subseteq canceled',
         o \in finalized' <=> o \in finalized, o \in destroyed' => o \in destroyed,
         In(p, FramesOn({"run", "user"}, FinalizeTask(o))) => o \notin finalized,
         o \in destroyed \/ Occurs({Frame("destruct", o)}) =>
           /\ object'[o].m_hasFinalize = object[o].m_hasFinalize
           /\ object'[o].m_isInitialized = object[o].m_isInitialized,
         In(p, {Frame("destruct", o)}) =>
           (object'[o].m_hasFinalize /\ object'[o].m_isInitialized =>
              o \in finalized' \/ FinalizeTask(o) \in canceled')
  PROVE  FinalizedFirst(o)'
  <1> DEFINE R == FramesOn({"run", "user"}, FinalizeTask(o))
             D == {Frame("destruct", o)}
  <1> HIDE DEF R, D
  <1>1. /\ OccursIn(stack', R) => OccursIn(stack, R) \/ In(p, R)
        /\ OccursIn(stack', D) => OccursIn(stack, D) \/ In(p, D)
    BY StackStep
  <1>2. OccursIn(stack', R) => o \notin finalized
    BY <1>1 DEF FinalizedFirst, R, Occurs
  <1>3. o \in destroyed' \/ OccursIn(stack', D) =>
          (object'[o].m_hasFinalize /\ object'[o].m_isInitialized =>
             o \in finalized' \/ FinalizeTask(o) \in canceled')
    BY <1>1 DEF FinalizedFirst, D, Occurs
  <1> QED BY <1>2, <1>3 DEF FinalizedFirst, R, D, Occurs

(* Initialize of o has not returned. *)
LEMMA InitSame ==
  ASSUME TypeOK, NEW o \in ActiveObjects, InitializedFirst(o), NEW th \in Threads,
         NEW p \in Seq(Frames), Pushes(th, p) \/ Swaps(th, p),
         object'[o].made /\ ~object'[o].m_isInitialized =>
           object[o].made /\ ~object[o].m_isInitialized,
         Swaps(th, p) /\ Head(stack[th]) = Frame("user", InitializeTask(o)) =>
           object'[o].m_isInitialized \/ In(p, {Frame("user", InitializeTask(o))}),
         IsHeld(o)' => IsHeld(o),
         NotCalledYet(o) /\ ~Occurs({Frame("user", InitializeTask(o))}) => InitializedFirst(o)'
  PROVE  InitializedFirst(o)'
  <1> DEFINE U == {Frame("user", InitializeTask(o))}
  <1>1. Swaps(th, p) /\ Head(stack[th]) \in U => object'[o].m_isInitialized \/ In(p, U)
    OBVIOUS
  <1> HIDE DEF U
  <1>2. /\ OccursIn(stack, U) => OccursIn(stack', U) \/ (Swaps(th, p) /\ Head(stack[th]) \in U)
        /\ In(p, U) => OccursIn(stack', U)
    BY StackStep
  <1>3. OccursIn(stack, U) => OccursIn(stack', U) \/ object'[o].m_isInitialized
    BY <1>1, <1>2
  <1> QED BY <1>3 DEF InitializedFirst, Occurs, U

(* A step that keeps the history puts no late callback on a stack unless   *)
(* it says so.                                                             *)
LEMMA LateStep ==
  ASSUME TypeOK, NEW o, NEW th \in Threads, NEW p \in Seq(Frames), Pushes(th, p) \/ Swaps(th, p),
         early \subseteq early', ~Occurs(LateFrames(o, early)), ~In(p, LateFrames(o, early'))
  PROVE  ~OccursIn(stack', LateFrames(o, early'))
  <1>1. LateFrames(o, early') \subseteq LateFrames(o, early)
    BY DEF LateFrames
  <1>2. ~OccursIn(stack, LateFrames(o, early'))
    BY <1>1 DEF Occurs, OccursIn
  <1> QED BY <1>2, StackStep

(* The construction of o goes on.                                          *)
LEMMA BeingMadeStep ==
  ASSUME TypeOK, NEW o, BeingMade(o), NEW th \in Threads, NEW p \in Seq(Frames),
         Pushes(th, p) \/ Swaps(th, p), ~In(p, {Frame("construct", o)}),
         early \subseteq early',
         Occurs({Frame("construct", o)}) =>
           /\ object'[o].m_isInitialized = object[o].m_isInitialized
           /\ InitializeTask(o) \in fresh => InitializeTask(o) \in fresh'
           /\ Callbacks(o) \cap fresh \subseteq fresh' \cup early'
  PROVE  BeingMade(o)'
  <1> DEFINE C == {Frame("construct", o)}
  <1>1. OnceIn(p, C)
    BY DEF OnceIn, In
  <1>2. /\ OccursIn(stack', C) => OccursIn(stack, C)
        /\ AtMostOnceIn(stack', C)
    <2>1. AtMostOnceIn(stack, C) /\ ~In(p, C)
      BY DEF BeingMade
    <2> HIDE DEF C
    <2> QED BY <1>1, <2>1, StackStep
  <1> QED BY <1>2 DEF BeingMade, Occurs

(* A step that does not call o back, and at most hands a task to the       *)
(* queue.                                                                  *)
LEMMA NotCalledStep ==
  ASSUME TypeOK, NEW o \in ActiveObjects, NotCalledYet(o), NEW th \in Threads,
         NEW p \in Seq(Frames), Pushes(th, p) \/ Swaps(th, p),
         ~In(p, LateFrames(o, early')),
         Swaps(th, p) => Head(stack[th]) # Frame("run", InitializeTask(o))
                         /\ Head(stack[th]) # Frame("construct", o),
         outside \subseteq outside', early \subseteq early',
         doomed \cup canceled \subseteq (doomed \cup canceled)', accepting' => accepting,
         \/ pending' = pending
         \/ accepting /\ \E t \in Tasks : pending' = Append(pending, t)
  PROVE  NotCalledYet(o)'
  <1>1. ~OccursIn(stack', LateFrames(o, early'))
    BY LateStep DEF NotCalledYet
  <1>2. ASSUME NEW R, OccursIn(stack, R), Swaps(th, p) => Head(stack[th]) \notin R
        PROVE  OccursIn(stack', R)
    BY <1>2, StackStep
  <1>3. CASE Occurs({Frame("run", InitializeTask(o))})
    <2>1. OccursIn(stack', {Frame("run", InitializeTask(o))})
      BY <1>2, <1>3 DEF Occurs
    <2> QED BY <1>1, <2>1 DEF NotCalledYet, Occurs
  <1>4. CASE Occurs({Frame("construct", o)})
    <2>1. OccursIn(stack', {Frame("construct", o)})
      BY <1>2, <1>4 DEF Occurs
    <2> QED BY <1>1, <2>1 DEF NotCalledYet, Occurs
  <1>5. CASE InitializeAhead(o)
    <2>1. PICK k \in DOMAIN pending :
            /\ pending[k] = InitializeTask(o)
            /\ \A i \in DOMAIN pending : pending[i] \in Callbacks(o) \ early => i > k
      BY <1>5 DEF InitializeAhead
    <2>2. CASE pending' = pending
      BY <1>1, <1>5, <2>1, <2>2 DEF InitializeAhead, NotCalledYet, Occurs
    <2>3. ASSUME NEW t \in Tasks, pending' = Append(pending, t) PROVE InitializeAhead(o)'
      <3>1. pending \in Seq(Tasks) /\ Len(pending) \in Nat /\ DOMAIN pending = 1..Len(pending)
        BY DEF TypeOK
      <3>2. /\ DOMAIN pending' = 1..(Len(pending) + 1)
            /\ \A i \in DOMAIN pending : pending'[i] = pending[i]
        <4> DEFINE s == Append(pending, t)
        <4>1. DOMAIN s = 1..(Len(pending) + 1) /\ \A i \in 1..Len(pending) : s[i] = pending[i]
          BY <3>1
        <4>2. pending' = s
          BY <2>3
        <4> HIDE DEF s
        <4> QED BY <3>1, <4>1, <4>2
      <3>3. k \in DOMAIN pending' /\ pending'[k] = InitializeTask(o)
        BY <2>1, <3>1, <3>2
      <3>4. \A i \in DOMAIN pending' : pending'[i] \in Callbacks(o) \ early' => i > k
        <4>1. \A i \in DOMAIN pending' : i \in DOMAIN pending \/ i = Len(pending) + 1
          BY <3>1, <3>2
        <4>2. Len(pending) + 1 > k
          BY <3>1
        <4>3. \A i \in DOMAIN pending : pending'[i] \in Callbacks(o) \ early' => i > k
          BY <2>1, <3>2
        <4> QED BY <4>1, <4>2, <4>3
      <3> QED BY <1>5, <3>3, <3>4 DEF InitializeAhead
    <2> QED BY <1>1, <2>2, <2>3 DEF NotCalledYet, Occurs
  <1>6. CASE InitializeCanceled(o)
    <2>1. pending' = pending /\ Queue!Pending' = Queue!Pending
      BY <1>6 DEF InitializeCanceled, Queue!Pending
    <2>2. InitializeCanceled(o)'
      BY <1>6, <2>1 DEF InitializeCanceled
    <2> QED BY <1>1, <2>2 DEF NotCalledYet, Occurs
  <1> QED BY <1>3, <1>4, <1>5, <1>6 DEF NotCalledYet
-----------------------------------------------------------------------------
(* The topmost frame of a thread. *)
LEMMA TopFrame ==
  ASSUME TypeOK, NEW th \in Threads, stack[th] # <<>>
  PROVE  /\ Head(stack[th]) \in Frames
         /\ Head(stack[th]) = stack[th][1] /\ 1 \in DOMAIN stack[th]
         /\ \A C : Head(stack[th]) \in C => Occurs(C)
         /\ \A at : AtTop(th, at) => Head(stack[th]) = Frame(at, Top(th))
  <1>1. stack[th] \in Seq(Frames)
    BY DEF TypeOK
  <1>2. Head(stack[th]) \in Frames /\ Head(stack[th]) = stack[th][1] /\ 1 \in DOMAIN stack[th]
    BY <1>1
  <1>3. \A C : Head(stack[th]) \in C => Occurs(C)
    BY <1>2 DEF Occurs, OccursIn
  <1>4. Head(stack[th]) = Frame(Head(stack[th]).at, Head(stack[th]).on)
    BY <1>2, FrameFields
  <1> QED BY <1>2, <1>3, <1>4 DEF AtTop, Top

(* User code runs on an empty stack, in a callback or in a constructor.    *)
LEMMA UserCode ==
  ASSUME TypeOK, NEW th \in Threads, InUserCode(th)
  PROVE  /\ stack[th] = <<>> \/ Head(stack[th]).at # "run"
         /\ th = QueueThread => stack[th] # <<>>
  BY ActiveAssumption DEF InUserCode, AtTop

(* The callback at the top of a thread.                                    *)
LEMMA TopCallback ==
  ASSUME TypeOK, NEW th \in Threads, AtTop(th, "user")
  PROVE  /\ stack[th] # <<>> /\ Top(th) \in Tasks /\ Head(stack[th]) = Frame("user", Top(th))
         /\ \A C : Frame("user", Top(th)) \in C => Occurs(C)
  <1>1. stack[th] # <<>>
    BY DEF AtTop
  <1>2. Head(stack[th]) = Frame("user", Top(th)) /\ Head(stack[th]) \in Frames
    BY <1>1, TopFrame
  <1>3. Top(th) \in Tasks
    BY <1>2, FrameFields DEF Top
  <1>4. \A C : Frame("user", Top(th)) \in C => Occurs(C)
    BY <1>1, <1>2, TopFrame
  <1> QED BY <1>1, <1>2, <1>3, <1>4

(* What somebody refers to was made. *)
LEMMA KnownMade ==
  ASSUME IndInv, NEW o \in ActiveObjects
  PROVE  /\ \A x \in Threads : o \in held[x] => object[o].made
         /\ Occurs(ObjectFrames(o)) => object[o].made
         /\ \A t \in Tasks : t.obj = o /\ t \notin fresh => object[o].made
         /\ \A t \in Tasks : t.obj = o /\ Occurs(RunFrames(t)) => object[o].made
         /\ \A t \in Tasks : t.obj = o /\ Occurs({Frame("cancel", t)}) => object[o].made
         /\ IsHeld(o) => object[o].made
  <1>1. \A t \in Tasks : t \in running \cup finished \cup doomed \cup canceled \cup Queue!Pending
                           => t \notin fresh
    BY DEF IndInv, Queue!OnePlace
  <1>2. /\ \A x \in Threads : o \in held[x] => object[o].made
        /\ Occurs(ObjectFrames(o)) => object[o].made
        /\ \A t \in Tasks : t.obj = o /\ t \notin fresh => object[o].made
    BY DEF IndInv, Unmade
  <1>3. \A t \in Tasks : t.obj = o /\ Occurs(RunFrames(t)) => object[o].made
    BY <1>1, <1>2 DEF IndInv, TasksPlaced
  <1>4. \A t \in Tasks : t.obj = o /\ Occurs({Frame("cancel", t)}) => object[o].made
    BY <1>1, <1>2 DEF IndInv, TasksPlaced
  <1>5. ASSUME NEW x \in Threads, NEW i \in DOMAIN stack[x], FrameHolds(stack[x][i], o)
        PROVE  object[o].made
    <2> DEFINE f == stack[x][i]
    <2>1. f \in Frames
      BY DEF IndInv, TypeOK
    <2>2. \A C : f \in C => Occurs(C)
      BY DEF Occurs, OccursIn
    <2>3. f = Frame(f.at, f.on)
      BY <2>1, FrameFields
    <2> HIDE DEF f
    <2>4. CASE f.at = "user" /\ f.on.obj = o
      <3>1. f \in RunFrames(f.on) /\ f.on \in Tasks
        BY <2>1, <2>3, <2>4, FrameFields DEF RunFrames, FramesOn
      <3> QED BY <1>3, <2>2, <2>4, <3>1
    <2>5. CASE f.at = "run" /\ f.on.obj = o
      <3>1. f \in RunFrames(f.on) /\ f.on \in Tasks
        BY <2>1, <2>3, <2>5, FrameFields DEF RunFrames, FramesOn
      <3> QED BY <1>3, <2>2, <2>5, <3>1
    <2>6. CASE f.at = "cancel" /\ f.on.obj = o
      <3>1. f \in {Frame("cancel", f.on)} /\ f.on \in Tasks
        BY <2>1, <2>3, <2>6, FrameFields
      <3> QED BY <1>4, <2>2, <2>6, <3>1
    <2>7. CASE f.at \in {"release", "construct", "make"} /\ f.on = o
      <3>1. f \in ObjectFrames(o)
        BY <2>3, <2>7 DEF ObjectFrames, FramesOn
      <3> QED BY <1>2, <2>2, <3>1
    <2> QED BY <1>5, <2>4, <2>5, <2>6, <2>7 DEF FrameHolds, TaskHolds, f
  <1>6. \A i \in DOMAIN pending : TaskHolds(pending[i], o) => object[o].made
    <2>1. \A i \in DOMAIN pending : pending[i] \in Queue!Pending /\ pending[i] \in Tasks
      BY DEF IndInv, TypeOK, Queue!Pending
    <2> QED BY <1>1, <1>2, <2>1 DEF TaskHolds
  <1>7. IsHeld(o) => object[o].made
    BY <1>2, <1>5, <1>6 DEF IsHeld, HeldIn
  <1> QED BY <1>2, <1>3, <1>4, <1>7

(* What the queue's thread invokes on an object whose Initialize has not   *)
(* started is an early call: had it started, the thread would be in it.    *)
LEMMA QueueCallsEarly ==
  ASSUME IndInv, NEW o \in ActiveObjects, InUserCode(QueueThread), NotCalledYet(o)
  PROVE  CallsEarly(QueueThread, o)
  <1>1. QueueThread \in Threads /\ TypeOK
    BY DEF Threads, IndInv
  <1>2. stack[QueueThread] # <<>> /\ Head(stack[QueueThread]).at # "run"
    BY <1>1, UserCode
  <1>3. ~Occurs({Frame("run", InitializeTask(o))})
    <2> SUFFICES ASSUME NEW x \in Threads, NEW i \in DOMAIN stack[x],
                        stack[x][i] = Frame("run", InitializeTask(o))
                 PROVE  FALSE
      BY DEF Occurs, OccursIn
    <2>1. x = QueueThread /\ i = 1
      BY FrameFields DEF IndInv, RunsInQueue
    <2>2. Head(stack[QueueThread]) = stack[QueueThread][1]
      BY <1>1, <1>2, TopFrame
    <2> QED BY <1>2, <2>1, <2>2, FrameFields
  <1>4. Occurs({Frame("construct", o)}) => OnStack("construct", o)
    BY DEF Occurs, OccursIn, OnStack
  <1> QED BY <1>3, <1>4 DEF NotCalledYet, InitializeAhead, InitializeCanceled, CallsEarly

(* Which frames the sets above consist of. *)
LEMMA FrameSets ==
  ASSUME NEW at, NEW x, NEW o \in ActiveObjects
  PROVE  /\ \A P, y : Frame(at, x) \in FramesOn(P, y) <=> at \in P /\ x = y
         /\ Frame(at, x) \in EndFrames(o) <=>
              \/ at \in {"delete", "destruct"} /\ x = o
              \/ at \in {"run", "user", "cancel"} /\ x = FinalizeTask(o)
         /\ \A e : Frame(at, x) \in LateFrames(o, e) <=>
                    at \in {"run", "user"} /\ x \in Callbacks(o) /\ x \notin e
         /\ Frame(at, x) \in ObjectFrames(o) <=>
              /\ at \in {"construct", "make", "release", "delete", "destruct", "notify", "wait"}
              /\ x = o
         /\ Frame(at, x) \in HoldFrames(o) =>
              \/ at = "user" /\ x.obj = o /\ x.kind # "Finalize"
              \/ at \in {"run", "cancel"} /\ x.kind = "Strong" /\ x.obj = o
              \/ at \in {"release", "construct", "make"} /\ x = o
         /\ Frame(at, x) \in Frames =>
              /\ at = "user" /\ x.obj = o /\ x.kind # "Finalize" => Frame(at, x) \in HoldFrames(o)
              /\ at \in {"run", "cancel"} /\ x.kind = "Strong" /\ x.obj = o =>
                   Frame(at, x) \in HoldFrames(o)
              /\ at \in {"release", "construct", "make"} /\ x = o => Frame(at, x) \in HoldFrames(o)
  <1>1. \A P, y : Frame(at, x) \in FramesOn(P, y) <=> at \in P /\ x = y
    BY FrameFields DEF FramesOn
  <1>2. \A e : Frame(at, x) \in LateFrames(o, e) <=>
                at \in {"run", "user"} /\ x \in Callbacks(o) /\ x \notin e
    BY <1>1 DEF LateFrames
  <1>3. Frame(at, x).at = at /\ Frame(at, x).on = x
    BY FrameFields
  <1> QED BY <1>1, <1>2, <1>3 DEF EndFrames, ObjectFrames, HoldFrames, FrameHolds, TaskHolds

(* The frames a step puts on the stack of th are of tasks that the queue   *)
(* runs or gave up, nothing goes on top of a task about to be run, and     *)
(* history is kept.                                                        *)
FramesFit(th, p) ==
  /\ p \in Seq(Frames)
  /\ outside \subseteq outside' /\ early \subseteq early'
  /\ \/ Pushes(th, p) /\ (p = <<>> \/ stack[th] = <<>> \/ Head(stack[th]).at # "run")
     \/ Swaps(th, p)
  /\ \A i \in DOMAIN p :
       /\ p[i].at \in {"run", "user", "end"} => /\ th = QueueThread
                                                /\ p[i].on \in (running \cup finished)'
       /\ p[i].at = "run" => i = 1
       /\ p[i].at = "construct" => th = QueueThread \/ p[i].on \in outside'
       /\ p[i].at = "cancel" => p[i].on \in (doomed \cup canceled)'

(* The step tells of o only if it was made. *)
Discreet(p, o) ==
  /\ object[o].made => object'[o].made
  /\ object'[o].m_isInitialized => object[o].m_isInitialized \/ object'[o].made
  /\ \A x \in Threads : o \in held'[x] => o \in held[x] \/ object'[o].made
  /\ In(p, ObjectFrames(o)) => object'[o].made
  /\ o \in (destroyed \cup finalized)' => o \in destroyed \cup finalized \/ object'[o].made
  /\ \A t \in Tasks : t.obj = o => t \notin fresh \/ t \in fresh' \/ object'[o].made

(* The step is not about the start or the end of o. *)
Untouched(th, p, o) ==
  /\ object'[o].made = object[o].made
  /\ object'[o].m_isInitialized = object[o].m_isInitialized
  /\ object'[o].m_hasFinalize = object[o].m_hasFinalize
  /\ o \in finalized' <=> o \in finalized
  /\ o \in destroyed' => o \in destroyed
  /\ FinalizeTask(o) \in fresh => FinalizeTask(o) \in fresh'
  /\ InitializeTask(o) \in fresh => InitializeTask(o) \in fresh'
  /\ FinalizeTask(o) \in Queue!Pending' => FinalizeTask(o) \in Queue!Pending
  /\ ~In(p, EndFrames(o)) /\ ~In(p, {Frame("construct", o)})
  /\ IsHeld(o)' => IsHeld(o)
  /\ Swaps(th, p) => /\ Head(stack[th]) \notin FramesOn({"run", "user"}, InitializeTask(o))
                     /\ Head(stack[th]) # Frame("construct", o)
  /\ ~object[o].m_isInitialized /\ NotCalledYet(o) => ~In(p, LateFrames(o, early'))
  /\ Occurs({Frame("construct", o)}) => Callbacks(o) \cap fresh \subseteq fresh' \cup early'
  /\ \/ pending' = pending
     \/ accepting /\ \E t \in Tasks : pending' = Append(pending, t)

(* What all steps have in common. *)
LEMMA CommonStep ==
  ASSUME IndInv, TypeOK', [Queue!Next]_queueVars, NEW th \in Threads, NEW p, FramesFit(th, p),
         \A o \in ActiveObjects : Discreet(p, o)
  PROVE  Queue!OnePlace' /\ TasksPlaced' /\ RunsInQueue' /\ Unmade'
  <1>1. TypeOK /\ Queue!OnePlace /\ TasksPlaced /\ RunsInQueue /\ Unmade
    BY DEF IndInv
  <1>2. /\ Queue!OnePlace'
        /\ running \cup finished \subseteq (running \cup finished)'
        /\ doomed \cup canceled \subseteq (doomed \cup canceled)'
    BY <1>1, QueueGrows
  <1>3. p \in Seq(Frames) /\ (Pushes(th, p) \/ Swaps(th, p))
    BY DEF FramesFit
  <1>4. TasksPlaced'
    BY <1>1, <1>2, <1>3, TasksPlacedStep DEF FramesFit
  <1>5. RunsInQueue'
    BY <1>1, <1>3, RunsInQueueStep DEF FramesFit
  <1>6. Unmade'
    BY <1>1, <1>3, UnmadeStep DEF Discreet
  <1> QED BY <1>2, <1>4, <1>5, <1>6

(* What a step leaves of an object it does not touch. *)
LEMMA UntouchedStep ==
  ASSUME IndInv, TypeOK', [Queue!Next]_queueVars, NEW th \in Threads, NEW p, FramesFit(th, p),
         NEW o \in ActiveObjects, Untouched(th, p, o)
  PROVE  ObjectInv(o)'
  <1>1. TypeOK /\ Queue!OnePlace /\ ObjectInv(o)
    BY DEF IndInv
  <1>2. /\ running \cup finished \subseteq (running \cup finished)'
        /\ doomed \cup canceled \subseteq (doomed \cup canceled)'
        /\ canceled \subseteq canceled'
        /\ accepting' => accepting
    BY <1>1, QueueGrows
  <1>3. p \in Seq(Frames) /\ (Pushes(th, p) \/ Swaps(th, p))
    BY DEF FramesFit
  <1>4. EndsOnce(o)'
    BY <1>1, <1>3, EndsSame DEF Untouched, ObjectInv
  <1>5. FinalizedFirst(o)'
    <2>1. ~In(p, FramesOn({"run", "user"}, FinalizeTask(o))) /\ ~In(p, {Frame("destruct", o)})
      BY DEF In, EndFrames, FramesOn, Untouched
    <2> QED BY <1>1, <1>2, <1>3, <2>1, FinalSame DEF Untouched, ObjectInv
  <1>6. InitializedFirst(o)'
    <2>1. /\ Swaps(th, p) => Head(stack[th]) # Frame("run", InitializeTask(o))
          /\ Swaps(th, p) => Head(stack[th]) # Frame("user", InitializeTask(o))
          /\ outside \subseteq outside' /\ early \subseteq early'
      BY DEF FramesOn, Untouched, FramesFit
    <2>2. ~object[o].m_isInitialized /\ NotCalledYet(o)
          /\ ~Occurs({Frame("user", InitializeTask(o))}) => NotCalledYet(o)'
      BY <1>1, <1>2, <1>3, <2>1, NotCalledStep DEF Untouched
    <2>3. NotCalledYet(o)' \/ object[o].m_isInitialized => InitializedFirst(o)'
      BY DEF InitializedFirst, Untouched
    <2> QED BY <1>1, <1>3, <2>1, <2>2, <2>3, InitSame DEF Untouched, ObjectInv
  <1>7. BeingMade(o)'
    BY <1>1, <1>3, BeingMadeStep DEF Untouched, ObjectInv, FramesFit
  <1> QED BY <1>4, <1>5, <1>6, <1>7 DEF ObjectInv

(* A step that is not about the start or the end of any object. *)
LEMMA QuietStep ==
  ASSUME IndInv, TypeOK', [Queue!Next]_queueVars, NEW th \in Threads, NEW p, FramesFit(th, p),
         \A o \in ActiveObjects : Discreet(p, o) /\ Untouched(th, p, o)
  PROVE  IndInv'
  BY CommonStep, UntouchedStep DEF IndInv
-----------------------------------------------------------------------------
(* The queue keeps its type. *)
LEMMA TypeStep ==
  ASSUME TypeOK, Queue!OnePlace, [Queue!Next]_queueVars, NEW th \in Threads, NEW p \in Seq(Frames),
         Pushes(th, p) \/ Swaps(th, p),
         object' \in [ActiveObjects -> [made : BOOLEAN, m_hasInitialize : BOOLEAN,
                                        m_hasFinalize : BOOLEAN, m_isInitialized : BOOLEAN,
                                        m_onDestructed : BOOLEAN]],
         held' \in [Threads -> SUBSET ActiveObjects],
         (finalized \cup destroyed \cup notified \cup outside)' \subseteq ActiveObjects,
         early' \subseteq Tasks
  PROVE  TypeOK'
  <1>1. Queue!OnePlace'
    BY QueueGrows
  <1>2. stack' \in [Threads -> Seq(Frames)]
    BY StackStep
  <1>3. accepting' \in BOOLEAN
    BY DEF TypeOK, Queue!Next, queueVars, Queue!Accept, Queue!Reject, Queue!InvokeInside,
           Queue!Defer, Queue!Finish, Queue!Cancel, Queue!Start, Queue!Shutdown
  <1>4. /\ (fresh \cup deferred \cup running \cup finished \cup doomed \cup canceled)' \subseteq Tasks
        /\ pending' \in Seq(Tasks)
    BY <1>1 DEF Queue!OnePlace
  <1> QED BY <1>2, <1>3, <1>4 DEF TypeOK

(* A step that hands nothing to the queue, takes nothing from it and ends  *)
(* no callback.                                                            *)
LEMMA SteadyStep ==
  ASSUME IndInv, [Queue!Next]_queueVars, pending' = pending, fresh' = fresh,
         NEW th \in Threads, NEW p \in Seq(Frames),
         \/ Pushes(th, p) /\ (p = <<>> \/ stack[th] = <<>> \/ Head(stack[th]).at # "run")
         \/ Swaps(th, p) /\ Head(stack[th]).at \notin {"run", "user", "construct"},
         object' \in [ActiveObjects -> [made : BOOLEAN, m_hasInitialize : BOOLEAN,
                                        m_hasFinalize : BOOLEAN, m_isInitialized : BOOLEAN,
                                        m_onDestructed : BOOLEAN]],
         \A o \in ActiveObjects : /\ object'[o].made = object[o].made
                                  /\ object'[o].m_isInitialized = object[o].m_isInitialized
                                  /\ object'[o].m_hasFinalize = object[o].m_hasFinalize,
         held' \in [Threads -> SUBSET ActiveObjects],
         finalized' = finalized, destroyed' = destroyed, notified' \subseteq ActiveObjects,
         outside' = outside, early' = early,
         \A i \in DOMAIN p : /\ p[i].at \in {"release", "wait"}
                             /\ IsHeld(p[i].on),
         \A o \in ActiveObjects : \A x \in Threads : o \in held'[x] => IsHeld(o)
  PROVE  IndInv'
  <1>1. TypeOK /\ Queue!OnePlace /\ (Pushes(th, p) \/ Swaps(th, p))
    BY DEF IndInv
  <1>2. TypeOK'
    BY <1>1, TypeStep DEF IndInv, TypeOK
  <1>3. FramesFit(th, p)
    BY DEF FramesFit
  <1>4. ASSUME NEW o \in ActiveObjects, NEW i \in DOMAIN p
        PROVE  /\ p[i] \notin EndFrames(o) /\ p[i] \notin LateFrames(o, early') /\ p[i] # Frame("construct", o)
               /\ p[i] \in ObjectFrames(o) \cup HoldFrames(o) => IsHeld(o)
    <2>1. p[i] \in Frames
      OBVIOUS
    <2>2. PICK at, x : p[i] = Frame(at, x) /\ at \in {"release", "wait"} /\ IsHeld(x)
      BY <2>1, FrameFields
    <2>3. Frame(at, x) \notin EndFrames(o) /\ Frame(at, x) \notin LateFrames(o, early')
      BY <2>2, FrameSets
    <2>4. Frame(at, x) \in ObjectFrames(o) => x = o
      BY FrameSets
    <2>5. Frame(at, x) \in HoldFrames(o) => x = o
      BY <2>2, FrameSets
    <2>6. Frame(at, x) # Frame("construct", o)
      BY <2>2, FrameFields
    <2> QED BY <2>2, <2>3, <2>4, <2>5, <2>6
  <1>5. ASSUME NEW o \in ActiveObjects
        PROVE  /\ ~In(p, EndFrames(o)) /\ ~In(p, LateFrames(o, early')) /\ ~In(p, {Frame("construct", o)})
               /\ In(p, ObjectFrames(o)) => IsHeld(o)
               /\ In(p, HoldFrames(o)) => IsHeld(o)
    BY <1>4 DEF In
  <1>6. \A o \in ActiveObjects : IsHeld(o) => object[o].made
    BY KnownMade
  <1>7. ASSUME NEW o \in ActiveObjects PROVE Discreet(p, o)
    BY <1>5, <1>6 DEF Discreet
  <1>8. ASSUME NEW o \in ActiveObjects PROVE Untouched(th, p, o)
    <2>1. \A i \in DOMAIN pending' : TaskHolds(pending'[i], o) => IsHeld(o)
      BY DEF IsHeld, HeldIn
    <2>2. IsHeld(o)' => IsHeld(o)
      BY <1>1, <1>2, <1>5, <2>1, HeldStep
    <2>3. Swaps(th, p) => /\ Head(stack[th]) \notin FramesOn({"run", "user"}, InitializeTask(o))
                          /\ Head(stack[th]) # Frame("construct", o)
      <3>1. ASSUME Swaps(th, p) PROVE Head(stack[th]).at \notin {"run", "user", "construct"}
        BY <1>1, <3>1, PushOrSwap
      <3> QED BY <3>1, FrameFields DEF FramesOn
    <2>4. Queue!Pending' = Queue!Pending
      BY DEF Queue!Pending
    <2> QED BY <1>5, <2>2, <2>3, <2>4 DEF Untouched
  <1> QED BY <1>2, <1>3, <1>7, <1>8, QuietStep

(* What a thread reaches is held. *)
LEMMA ReachesHeld ==
  ASSUME TypeOK, NEW th \in Threads, NEW o
  PROVE  /\ Reaches(th, o) => IsHeld(o)
         /\ o \in held[th] => IsHeld(o)
  <1>1. o \in held[th] => IsHeld(o)
    BY DEF IsHeld, HeldIn
  <1>2. ASSUME stack[th] # <<>>, FrameHolds(Head(stack[th]), o) PROVE IsHeld(o)
    <2>1. Head(stack[th]) = stack[th][1] /\ 1 \in DOMAIN stack[th]
      BY <1>2, TopFrame
    <2> QED BY <1>2, <2>1 DEF IsHeld, HeldIn
  <1> QED BY <1>1, <1>2 DEF Reaches

(* No frames are put on the stack. *)
LEMMA NoFrames ==
  ASSUME TypeOK, NEW th \in Threads
  PROVE  /\ <<>> \in Seq(Frames) /\ DOMAIN <<>> = {}
         /\ UNCHANGED stack => Pushes(th, <<>>)
         /\ stack[th] # <<>> /\ Replace(th, <<>>) => Swaps(th, <<>>)
  <1>1. stack[th] \in Seq(Frames) /\ stack \in [Threads -> Seq(Frames)]
    BY DEF TypeOK
  <1>2. <<>> \o stack[th] = stack[th]
    BY <1>1
  <1>3. [stack EXCEPT ![th] = stack[th]] = stack
    BY <1>1
  <1> QED BY <1>2, <1>3 DEF Pushes, Swaps, Replace

(* One or two frames are put on the stack. *)
LEMMA FewFrames ==
  ASSUME NEW th, NEW x \in Frames, NEW y \in Frames
  PROVE  /\ Push(th, <<x>>) => \E p \in Seq(Frames) : Pushes(th, p) /\ \A i \in DOMAIN p : p[i] = x
         /\ Push(th, <<x, y>>) =>
              \E p \in Seq(Frames) : Pushes(th, p) /\ \A i \in DOMAIN p : p[i] = x \/ p[i] = y
  <1>1. <<x>> \in Seq(Frames) /\ \A i \in DOMAIN <<x>> : <<x>>[i] = x
    OBVIOUS
  <1>2. <<x, y>> \in Seq(Frames) /\ \A i \in DOMAIN <<x, y>> : <<x, y>>[i] = x \/ <<x, y>>[i] = y
    OBVIOUS
  <1>3. \A p : Push(th, p) => Pushes(th, p)
    BY DEF Push, Pushes
  <1>4. Push(th, <<x>>) => \E p \in Seq(Frames) : Pushes(th, p) /\ \A i \in DOMAIN p : p[i] = x
    BY <1>1, <1>3
  <1>5. Push(th, <<x, y>>) =>
          \E p \in Seq(Frames) : Pushes(th, p) /\ \A i \in DOMAIN p : p[i] = x \/ p[i] = y
    BY <1>2, <1>3
  <1> QED BY <1>4, <1>5

(* Threads give each other pointers to what they reach. *)
LEMMA ShareStep ==
  ASSUME IndInv, NEW th \in Threads, NEW other \in Threads, NEW o \in ActiveObjects,
         Share(th, other, o)
  PROVE  IndInv'
  <1>1. /\ TypeOK /\ InUserCode(th) /\ Reaches(th, o)
        /\ held' = [held EXCEPT ![other] = @ \cup {o}]
        /\ UNCHANGED <<queueVars, historyVars, object, stack, finalized, destroyed, notified>>
    BY DEF Share, IndInv
  <1>2. /\ held' \in [Threads -> SUBSET ActiveObjects]
        /\ \A x \in Threads : \A y : y \in held'[x] => y \in held[x] \/ (y = o /\ x = other)
    BY <1>1 DEF TypeOK
  <1>3. IsHeld(o)
    BY <1>1, ReachesHeld
  <1>4. \A y \in ActiveObjects : \A x \in Threads : y \in held'[x] => IsHeld(y)
    BY <1>1, <1>2, <1>3, ReachesHeld
  <1>5. pending' = pending /\ fresh' = fresh /\ [Queue!Next]_queueVars
        /\ outside' = outside /\ early' = early
    BY <1>1 DEF queueVars, historyVars
  <1>6. <<>> \in Seq(Frames) /\ DOMAIN <<>> = {} /\ Pushes(th, <<>>)
    BY <1>1, NoFrames
  <1> HIDE DEF Share
  <1> QED BY <1>1, <1>2, <1>4, <1>5, <1>6, SteadyStep DEF TypeOK

(* A thread gives up a pointer. *)
LEMMA ReleasePtrStep ==
  ASSUME IndInv, NEW th \in Threads, NEW o \in ActiveObjects, ReleasePtr(th, o)
  PROVE  IndInv'
  <1>1. /\ TypeOK /\ InUserCode(th) /\ o \in held[th]
        /\ held' = [held EXCEPT ![th] = @ \ {o}]
        /\ Push(th, <<Frame("release", o)>>)
        /\ UNCHANGED <<queueVars, historyVars, object, finalized, destroyed, notified>>
    BY DEF ReleasePtr, IndInv
  <1>2. /\ held' \in [Threads -> SUBSET ActiveObjects]
        /\ \A x \in Threads : \A y : y \in held'[x] => y \in held[x]
    BY <1>1 DEF TypeOK
  <1>3. \A y \in ActiveObjects : \A x \in Threads : y \in held'[x] => IsHeld(y)
    BY <1>1, <1>2, ReachesHeld
  <1>4. pending' = pending /\ fresh' = fresh /\ [Queue!Next]_queueVars
        /\ outside' = outside /\ early' = early
    BY <1>1 DEF queueVars, historyVars
  <1>5. PICK p \in Seq(Frames) : /\ Pushes(th, p)
                                 /\ \A i \in DOMAIN p : p[i] = Frame("release", o)
    <2>1. Frame("release", o) \in Frames /\ Frame("wait", o) \in Frames
      BY FrameFields
    <2> QED BY <1>1, <2>1, FewFrames
  <1>6. \A i \in DOMAIN p : p[i].at \in {"release", "wait"} /\ IsHeld(p[i].on)
    BY <1>1, <1>5, FrameFields, ReachesHeld
  <1>7. stack[th] = <<>> \/ Head(stack[th]).at # "run"
    BY <1>1, UserCode
  <1> QED BY <1>1, <1>2, <1>3, <1>4, <1>5, <1>6, <1>7, SteadyStep DEF TypeOK

(* The fields of an object that a callback for its destruction is set on. *)
LEMMA OnDestructedSet ==
  ASSUME TypeOK, NEW o \in ActiveObjects, object' = [object EXCEPT ![o].m_onDestructed = TRUE]
  PROVE  /\ object' \in [ActiveObjects -> [made : BOOLEAN, m_hasInitialize : BOOLEAN,
                                          m_hasFinalize : BOOLEAN, m_isInitialized : BOOLEAN,
                                          m_onDestructed : BOOLEAN]]
         /\ \A y \in ActiveObjects : /\ object'[y].made = object[y].made
                                     /\ object'[y].m_isInitialized = object[y].m_isInitialized
                                     /\ object'[y].m_hasFinalize = object[y].m_hasFinalize
  BY DEF TypeOK

(* A thread sets the callback for the destruction of an object. *)
LEMMA SetOnDestructedOnceStep ==
  ASSUME IndInv, NEW th \in Threads, NEW o \in ActiveObjects, SetOnDestructedOnce(th, o)
  PROVE  IndInv'
  <1>1. /\ TypeOK /\ InUserCode(th) /\ object' = [object EXCEPT ![o].m_onDestructed = TRUE]
        /\ UNCHANGED <<queueVars, historyVars, held, stack, finalized, destroyed, notified>>
    BY DEF SetOnDestructedOnce, IndInv
  <1>2. \A y \in ActiveObjects : \A x \in Threads : y \in held'[x] => IsHeld(y)
    BY <1>1, ReachesHeld
  <1>3. pending' = pending /\ fresh' = fresh /\ [Queue!Next]_queueVars
        /\ outside' = outside /\ early' = early
    BY <1>1 DEF queueVars, historyVars
  <1>4. <<>> \in Seq(Frames) /\ DOMAIN <<>> = {} /\ Pushes(th, <<>>)
    BY <1>1, NoFrames
  <1>5. /\ object' \in [ActiveObjects -> [made : BOOLEAN, m_hasInitialize : BOOLEAN,
                                          m_hasFinalize : BOOLEAN, m_isInitialized : BOOLEAN,
                                          m_onDestructed : BOOLEAN]]
        /\ \A y \in ActiveObjects : /\ object'[y].made = object[y].made
                                    /\ object'[y].m_isInitialized = object[y].m_isInitialized
                                    /\ object'[y].m_hasFinalize = object[y].m_hasFinalize
    BY <1>1, OnDestructedSet
  <1>6. held' \in [Threads -> SUBSET ActiveObjects] /\ notified' \subseteq ActiveObjects
        /\ finalized' = finalized /\ destroyed' = destroyed
    BY <1>1 DEF TypeOK
  <1> QED BY <1>2, <1>3, <1>4, <1>5, <1>6, SteadyStep

(* ReleaseAndWait does both and waits. *)
LEMMA ReleaseAndWaitStep ==
  ASSUME IndInv, NEW th \in Threads, NEW o \in ActiveObjects, ReleaseAndWait(th, o)
  PROVE  IndInv'
  <1>1. /\ TypeOK /\ InUserCode(th) /\ o \in held[th]
        /\ object' = [object EXCEPT ![o].m_onDestructed = TRUE]
        /\ held' = [held EXCEPT ![th] = @ \ {o}]
        /\ Push(th, <<Frame("release", o), Frame("wait", o)>>)
        /\ UNCHANGED <<queueVars, historyVars, finalized, destroyed, notified>>
    BY DEF ReleaseAndWait, IndInv
  <1>2. /\ held' \in [Threads -> SUBSET ActiveObjects]
        /\ \A x \in Threads : \A y : y \in held'[x] => y \in held[x]
    BY <1>1 DEF TypeOK
  <1>3. \A y \in ActiveObjects : \A x \in Threads : y \in held'[x] => IsHeld(y)
    BY <1>1, <1>2, ReachesHeld
  <1>4. pending' = pending /\ fresh' = fresh /\ [Queue!Next]_queueVars
        /\ outside' = outside /\ early' = early
    BY <1>1 DEF queueVars, historyVars
  <1>5. PICK p \in Seq(Frames) :
          /\ Pushes(th, p)
          /\ \A i \in DOMAIN p : p[i] = Frame("release", o) \/ p[i] = Frame("wait", o)
    <2>1. Frame("release", o) \in Frames /\ Frame("wait", o) \in Frames
      BY FrameFields
    <2> QED BY <1>1, <2>1, FewFrames
  <1>6. \A i \in DOMAIN p : p[i].at \in {"release", "wait"} /\ IsHeld(p[i].on)
    BY <1>1, <1>5, FrameFields, ReachesHeld
  <1>7. stack[th] = <<>> \/ Head(stack[th]).at # "run"
    BY <1>1, UserCode
  <1>8. /\ object' \in [ActiveObjects -> [made : BOOLEAN, m_hasInitialize : BOOLEAN,
                                          m_hasFinalize : BOOLEAN, m_isInitialized : BOOLEAN,
                                          m_onDestructed : BOOLEAN]]
        /\ \A y \in ActiveObjects : /\ object'[y].made = object[y].made
                                    /\ object'[y].m_isInitialized = object[y].m_isInitialized
                                    /\ object'[y].m_hasFinalize = object[y].m_hasFinalize
    BY <1>1, OnDestructedSet
  <1>9. notified' \subseteq ActiveObjects /\ finalized' = finalized /\ destroyed' = destroyed
    BY <1>1 DEF TypeOK
  <1> QED BY <1>2, <1>3, <1>4, <1>5, <1>6, <1>7, <1>8, <1>9, SteadyStep

(* Make returns the object to its caller. *)
LEMMA MakeReturnsStep ==
  ASSUME IndInv, NEW th \in Threads, MakeReturns(th)
  PROVE  IndInv'
  <1> DEFINE o == Top(th)
  <1>1. /\ TypeOK /\ AtTop(th, "make") /\ stack[th] # <<>>
        /\ held' = [held EXCEPT ![th] = @ \cup {o}]
        /\ Replace(th, <<>>)
        /\ UNCHANGED <<queueVars, historyVars, object, finalized, destroyed, notified>>
    BY DEF MakeReturns, IndInv, AtTop
  <1>2. Head(stack[th]) = Frame("make", o) /\ Head(stack[th]) \in Frames
        /\ Head(stack[th]) = stack[th][1] /\ 1 \in DOMAIN stack[th]
    BY <1>1, TopFrame
  <1> HIDE DEF o
  <1>3. o \in ActiveObjects /\ Head(stack[th]).at = "make" /\ FrameHolds(Head(stack[th]), o)
    BY <1>2, FrameFields DEF FrameHolds
  <1>4. /\ held' \in [Threads -> SUBSET ActiveObjects]
        /\ \A x \in Threads : \A y : y \in held'[x] => y \in held[x] \/ (y = o /\ x = th)
    BY <1>1, <1>3 DEF TypeOK
  <1>5. IsHeld(o)
    BY <1>2, <1>3 DEF IsHeld, HeldIn
  <1>6. \A y \in ActiveObjects : \A x \in Threads : y \in held'[x] => IsHeld(y)
    BY <1>1, <1>4, <1>5, ReachesHeld
  <1>7. pending' = pending /\ fresh' = fresh /\ [Queue!Next]_queueVars
        /\ outside' = outside /\ early' = early
    BY <1>1 DEF queueVars, historyVars
  <1>8. <<>> \in Seq(Frames) /\ DOMAIN <<>> = {} /\ Swaps(th, <<>>)
    BY <1>1, NoFrames
  <1>9. /\ Head(stack[th]).at \notin {"run", "user", "construct"}
        /\ object' = object /\ object \in [ActiveObjects ->
                [made : BOOLEAN, m_hasInitialize : BOOLEAN, m_hasFinalize : BOOLEAN,
                 m_isInitialized : BOOLEAN, m_onDestructed : BOOLEAN]]
        /\ notified' \subseteq ActiveObjects /\ finalized' = finalized /\ destroyed' = destroyed
    BY <1>1, <1>3 DEF TypeOK
  <1> QED BY <1>4, <1>6, <1>7, <1>8, <1>9, SteadyStep

(* The last frames of a call or of a task. *)
LEMMA ReturnsStep ==
  ASSUME IndInv, NEW th \in Threads, InvokeOnDestructed(th) \/ WaitReturns(th) \/ TaskReturns(th)
  PROVE  IndInv'
  <1>1. /\ TypeOK /\ stack[th] # <<>> /\ Replace(th, <<>>)
        /\ Head(stack[th]).at \in {"notify", "wait", "end"}
        /\ UNCHANGED <<object, held, finalized, destroyed, outside, early>>
    BY DEF InvokeOnDestructed, WaitReturns, TaskReturns, IndInv, AtTop, objectVars, historyVars
  <1>2. Head(stack[th]) \in Frames
    BY <1>1, TopFrame
  <1>3. notified' \subseteq ActiveObjects
    <2>1. CASE InvokeOnDestructed(th)
      <3>1. Head(stack[th]).at = "notify"
        BY <2>1 DEF InvokeOnDestructed, AtTop
      <3>2. Top(th) \in ActiveObjects
        BY <1>2, <3>1, FrameFields DEF Top
      <3> QED BY <1>1, <2>1, <3>2 DEF InvokeOnDestructed, TypeOK
    <2>2. CASE WaitReturns(th) \/ TaskReturns(th)
      BY <1>1, <2>2 DEF WaitReturns, TaskReturns, objectVars, TypeOK
    <2> QED BY <2>1, <2>2
  <1>4. pending' = pending /\ fresh' = fresh /\ [Queue!Next]_queueVars
    <2>1. CASE InvokeOnDestructed(th) \/ WaitReturns(th)
      BY <2>1 DEF InvokeOnDestructed, WaitReturns, queueVars
    <2>2. CASE TaskReturns(th)
      <3>1. Head(stack[th]).at = "end" /\ Queue!Finish(Top(th))
        BY <2>2 DEF TaskReturns, AtTop
      <3>2. Top(th) \in Tasks
        BY <1>2, <3>1, FrameFields DEF Top
      <3>3. Queue!Next
        BY <3>1, <3>2 DEF Queue!Next
      <3> QED BY <3>1, <3>3 DEF Queue!Finish
    <2> QED BY <2>1, <2>2
  <1>5. \A y \in ActiveObjects : \A x \in Threads : y \in held'[x] => IsHeld(y)
    BY <1>1, ReachesHeld
  <1>6. <<>> \in Seq(Frames) /\ DOMAIN <<>> = {} /\ Swaps(th, <<>>)
    BY <1>1, NoFrames
  <1>7. /\ Head(stack[th]).at \notin {"run", "user", "construct"} /\ held' \in [Threads -> SUBSET ActiveObjects]
        /\ object' = object /\ object \in [ActiveObjects ->
                [made : BOOLEAN, m_hasInitialize : BOOLEAN, m_hasFinalize : BOOLEAN,
                 m_isInitialized : BOOLEAN, m_onDestructed : BOOLEAN]]
        /\ finalized' = finalized /\ destroyed' = destroyed /\ outside' = outside /\ early' = early
    BY <1>1 DEF TypeOK
  <1> QED BY <1>3, <1>4, <1>5, <1>6, <1>7, SteadyStep
-----------------------------------------------------------------------------
(* InvokeElsePost of t from th puts the frames p on its stack. *)
Invoked(th, t, p) ==
  \/ th = QueueThread /\ Queue!InvokeInside(t) /\ p = <<Frame("run", t)>>
  \/ th # QueueThread /\ Queue!Accept(t) /\ p = <<>>
  \/ th # QueueThread /\ Queue!Reject(t) /\ p = <<Frame("cancel", t)>>

(* What InvokeElsePost does to the queue and to the stack. *)
LEMMA InvokedFacts ==
  ASSUME IndInv, NEW th \in Threads, NEW t \in Tasks, NEW p, Invoked(th, t, p)
  PROVE  /\ p \in Seq(Frames)
         /\ [Queue!Next]_queueVars
         /\ t \in fresh /\ fresh' = fresh \ {t}
         /\ pending' = pending \/ (accepting /\ pending' = Append(pending, t))
         /\ \A i \in DOMAIN p :
              \/ i = 1 /\ p[i] = Frame("run", t) /\ th = QueueThread /\ t \in running'
              \/ i = 1 /\ p[i] = Frame("cancel", t) /\ t \in doomed' /\ th # QueueThread
         /\ \A C : OnceIn(p, C)
         /\ \A i \in DOMAIN pending' : pending'[i] \in Queue!Pending \cup {t}
         /\ Queue!Pending' \subseteq Queue!Pending \cup {t}
         /\ t \in Queue!Pending' => p = <<>>
  <1>1. TypeOK /\ Queue!OnePlace
    BY DEF IndInv
  <1>2. Frame("run", t) \in Frames /\ Frame("cancel", t) \in Frames
    BY FrameFields
  <1>3. /\ t \in fresh /\ fresh' = fresh \ {t} /\ t \notin Queue!Pending
        /\ pending' = pending \/ (accepting /\ pending' = Append(pending, t))
    BY <1>1 DEF Invoked, Queue!InvokeInside, Queue!Accept, Queue!Reject, Queue!OnePlace
  <1>4. Queue!Next
    BY DEF Invoked, Queue!Next
  <1>5. /\ p \in Seq(Frames) /\ \A C : OnceIn(p, C)
        /\ \A i \in DOMAIN p : i = 1
    <2>1. CASE p = <<>>
      BY <2>1 DEF OnceIn
    <2>2. ASSUME NEW x \in Frames, p = <<x>>
          PROVE  p \in Seq(Frames) /\ (\A C : OnceIn(p, C)) /\ \A i \in DOMAIN p : i = 1
      BY <2>2 DEF OnceIn
    <2> QED BY <1>2, <2>1, <2>2 DEF Invoked
  <1>6. \A i \in DOMAIN p :
          \/ p[i] = Frame("run", t) /\ th = QueueThread /\ t \in running'
          \/ p[i] = Frame("cancel", t) /\ t \in doomed' /\ th # QueueThread
    BY DEF Invoked, Queue!InvokeInside, Queue!Reject
  <1>7. \A i \in DOMAIN pending' : pending'[i] \in Queue!Pending \cup {t}
    <2>1. CASE pending' = pending
      BY <2>1 DEF Queue!Pending
    <2>2. CASE pending' = Append(pending, t)
      <3> DEFINE s == Append(pending, t)
      <3>1. pending \in Seq(Tasks)
        BY <1>1 DEF TypeOK
      <3>2. \A i \in DOMAIN s : s[i] = t \/ (i \in DOMAIN pending /\ s[i] = pending[i])
        BY <3>1
      <3>3. pending' = s
        BY <2>2
      <3> HIDE DEF s
      <3> QED BY <3>2, <3>3 DEF Queue!Pending
    <2> QED BY <1>3, <2>1, <2>2
  <1>8. Queue!Pending' \subseteq Queue!Pending \cup {t}
    BY <1>7 DEF Queue!Pending
  <1>9. t \in Queue!Pending' => p = <<>>
    <2>1. Queue!InvokeInside(t) \/ Queue!Reject(t) => Queue!Pending' = Queue!Pending
      BY DEF Queue!InvokeInside, Queue!Reject, Queue!Pending
    <2> QED BY <1>3, <2>1 DEF Invoked
  <1> QED BY <1>3, <1>4, <1>5, <1>6, <1>7, <1>8, <1>9

(* Where InvokeElsePost finds the frames that th goes on with. *)
LEMMA InvokedFrames ==
  ASSUME TypeOK, NEW th \in Threads, NEW t \in Tasks, NEW frames \in Seq(Frames),
         InvokeElsePost(th, t, frames)
  PROVE  \E p : Invoked(th, t, p) /\ stack' = [stack EXCEPT ![th] = p \o frames]
  <1>1. CASE Queue!InvokeInside(t) /\ th = QueueThread
             /\ stack' = [stack EXCEPT ![th] = <<Frame("run", t)>> \o frames]
    BY <1>1 DEF Invoked
  <1>2. CASE Queue!Accept(t) /\ th # QueueThread /\ stack' = [stack EXCEPT ![th] = frames]
    <2>1. <<>> \o frames = frames
      OBVIOUS
    <2> QED BY <1>2, <2>1 DEF Invoked
  <1>3. CASE Queue!Reject(t) /\ th # QueueThread
             /\ stack' = [stack EXCEPT ![th] = <<Frame("cancel", t)>> \o frames]
    BY <1>3 DEF Invoked
  <1> QED BY <1>1, <1>2, <1>3 DEF InvokeElsePost

(* InvokeInQueue, InvokeInQueueStrong and tasks without an object. *)
LEMMA CallStep ==
  ASSUME IndInv, NEW th \in Threads, NEW t \in fresh,
         InvokeInQueue(th, t) \/ InvokeInQueueStrong(th, t) \/ PostOther(th, t)
  PROVE  IndInv'
  <1>1. /\ TypeOK /\ Queue!OnePlace /\ t \in Tasks /\ InUserCode(th)
        /\ InvokeElsePost(th, t, stack[th])
        /\ UNCHANGED <<object, held, finalized, destroyed, notified, outside>>
        /\ early \subseteq early' /\ early' \subseteq early \cup {t}
        /\ t.kind # "Other" /\ CallsEarly(th, t.obj) => t \in early'
        /\ t.kind \in {"Weak", "Strong", "Other"}
        /\ t.kind = "Strong" => Reaches(th, t.obj)
        /\ t.kind = "Weak" => \/ Reaches(th, t.obj)
                              \/ AtTop(th, "user") /\ Top(th) = FinalizeTask(t.obj)
    BY DEF IndInv, TypeOK, InvokeInQueue, InvokeInQueueStrong, PostOther, CallInQueue,
           objectVars, historyVars
  <1>2. PICK p : Invoked(th, t, p) /\ stack' = [stack EXCEPT ![th] = p \o stack[th]]
    <2>1. stack[th] \in Seq(Frames)
      BY <1>1 DEF TypeOK
    <2> QED BY <1>1, <2>1, InvokedFrames
  <1>3. /\ p \in Seq(Frames)
        /\ [Queue!Next]_queueVars
        /\ t \in fresh /\ fresh' = fresh \ {t}
        /\ pending' = pending \/ (accepting /\ pending' = Append(pending, t))
        /\ \A i \in DOMAIN p :
             \/ i = 1 /\ p[i] = Frame("run", t) /\ th = QueueThread /\ t \in running'
             \/ i = 1 /\ p[i] = Frame("cancel", t) /\ t \in doomed' /\ th # QueueThread
        /\ \A i \in DOMAIN pending' : pending'[i] \in Queue!Pending \cup {t}
        /\ Queue!Pending' \subseteq Queue!Pending \cup {t}
    BY <1>1, <1>2, InvokedFacts
  <1>4. Pushes(th, p) /\ ~Swaps(th, p)
    BY <1>1, <1>2, <1>3, PushOrSwap DEF Pushes
  <1>5. TypeOK'
    <2>1. /\ object' = object /\ held' = held /\ early' \subseteq Tasks
          /\ (finalized \cup destroyed \cup notified \cup outside)' =
               finalized \cup destroyed \cup notified \cup outside
      BY <1>1 DEF TypeOK
    <2> QED BY <1>1, <1>3, <1>4, <2>1, TypeStep DEF TypeOK
  <1>6. FramesFit(th, p)
    <2>1. stack[th] = <<>> \/ Head(stack[th]).at # "run"
      BY <1>1, UserCode
    <2> QED BY <1>1, <1>3, <1>4, <2>1, FrameFields DEF FramesFit
  <1>7. ASSUME NEW o \in ActiveObjects
        PROVE  /\ ~In(p, EndFrames(o)) /\ ~In(p, ObjectFrames(o)) /\ ~In(p, {Frame("construct", o)})
               /\ In(p, HoldFrames(o)) => t.kind = "Strong" /\ t.obj = o
               /\ In(p, LateFrames(o, early')) =>
                    th = QueueThread /\ t.obj = o /\ t.kind # "Other" /\ t \notin early'
               /\ t # FinalizeTask(o)
    <2>1. t # FinalizeTask(o)
      BY <1>1, TaskFields
    <2>2. ASSUME NEW at \in {"run", "cancel"}
          PROVE  /\ Frame(at, t) \notin EndFrames(o) /\ Frame(at, t) \notin ObjectFrames(o)
                 /\ Frame(at, t) # Frame("construct", o)
                 /\ Frame(at, t) \in HoldFrames(o) => t.kind = "Strong" /\ t.obj = o
                 /\ Frame(at, t) \in LateFrames(o, early') =>
                      at = "run" /\ t.obj = o /\ t.kind # "Other" /\ t \notin early'
      <3>1. Frame(at, t) \notin EndFrames(o) /\ Frame(at, t) \notin ObjectFrames(o)
        BY <2>1, FrameSets
      <3>2. Frame(at, t) # Frame("construct", o)
        BY FrameFields
      <3>3. Frame(at, t) \in HoldFrames(o) => t.kind = "Strong" /\ t.obj = o
        BY FrameSets
      <3>4. Frame(at, t) \in LateFrames(o, early') =>
                      at = "run" /\ t.obj = o /\ t.kind # "Other" /\ t \notin early'
        BY FrameSets DEF Callbacks
      <3> QED BY <3>1, <3>2, <3>3, <3>4
    <2> QED BY <1>3, <2>1, <2>2 DEF In
  <1>8. ASSUME NEW o \in ActiveObjects PROVE Discreet(p, o)
    <2>1. t.obj = o => object[o].made
      <3>1. t.obj = o => t.kind # "Other"
        BY <1>1, TaskFields, ActiveAssumption
      <3>2. Reaches(th, o) => object[o].made
        BY <1>1, ReachesHeld, KnownMade
      <3>3. ASSUME AtTop(th, "user"), Top(th) = FinalizeTask(o) PROVE object[o].made
        <4>1. Frame("user", FinalizeTask(o)) \in RunFrames(FinalizeTask(o))
          BY DEF RunFrames, FramesOn
        <4>2. Occurs(RunFrames(FinalizeTask(o)))
          BY <1>1, <3>3, <4>1, TopCallback
        <4> QED BY <4>2, TaskFields, KnownMade
      <3> QED BY <1>1, <3>1, <3>2, <3>3
    <2> QED BY <1>1, <1>3, <1>7, <2>1 DEF Discreet
  <1>9. ASSUME NEW o \in ActiveObjects PROVE Untouched(th, p, o)
    <2>1. t.kind = "Strong" /\ t.obj = o => IsHeld(o)
      BY <1>1, ReachesHeld
    <2>2. \A i \in DOMAIN pending' : TaskHolds(pending'[i], o) => IsHeld(o)
      <3>1. \A x \in Queue!Pending : TaskHolds(x, o) => IsHeld(o)
        BY DEF Queue!Pending, IsHeld, HeldIn
      <3> QED BY <1>3, <2>1, <3>1 DEF TaskHolds
    <2>3. \A x \in Threads : o \in held'[x] => IsHeld(o)
      BY <1>1, ReachesHeld
    <2>4. IsHeld(o)' => IsHeld(o)
      BY <1>1, <1>3, <1>4, <1>5, <1>7, <2>1, <2>2, <2>3, HeldStep
    <2>5. ASSUME NotCalledYet(o), In(p, LateFrames(o, early')) PROVE FALSE
      <3>1. th = QueueThread /\ t.obj = o /\ t.kind # "Other" /\ t \notin early'
        BY <1>7, <2>5
      <3> QED BY <1>1, <2>5, <3>1, QueueCallsEarly
    <2>6. ASSUME Occurs({Frame("construct", o)}), t \in Callbacks(o) PROVE t \in early'
      <3>1. t.obj = o /\ t.kind # "Other"
        BY <2>6 DEF Callbacks
      <3>2. OnStack("construct", o)
        BY <2>6 DEF Occurs, OccursIn, OnStack
      <3> QED BY <1>1, <3>1, <3>2 DEF CallsEarly
    <2>7. t # InitializeTask(o)
      BY <1>1, TaskFields
    <2> QED BY <1>1, <1>3, <1>4, <1>7, <2>4, <2>5, <2>6, <2>7 DEF Untouched
  <1> QED BY <1>3, <1>5, <1>6, <1>8, <1>9, QuietStep

-----------------------------------------------------------------------------
(* A step that is about the start or the end of at most one object. *)
LEMMA OneObjectStep ==
  ASSUME IndInv, TypeOK', [Queue!Next]_queueVars, NEW th \in Threads, NEW p, FramesFit(th, p),
         \A o \in ActiveObjects : Discreet(p, o),
         NEW z, \A o \in ActiveObjects : o # z => Untouched(th, p, o),
         z \in ActiveObjects => \/ Untouched(th, p, z)
                                \/ ObjectInv(z)'
  PROVE  IndInv'
  BY CommonStep, UntouchedStep DEF IndInv

(* The Finalize task is of an initialized object, and Finalize on the      *)
(* stack has not returned.                                                 *)
LEMMA FinalizeOnStack ==
  ASSUME IndInv, NEW o \in ActiveObjects
  PROVE  /\ Occurs(RunFrames(FinalizeTask(o))) \/ Occurs({Frame("cancel", FinalizeTask(o))})
            => object[o].m_isInitialized /\ object[o].made
         /\ Occurs(FramesOn({"run", "user"}, FinalizeTask(o))) => o \notin finalized
         /\ FinalizeTask(o) \in fresh \cup Queue!Pending => o \notin finalized
  <1>1. FinalizeTask(o) \in Tasks /\ FinalizeTask(o).obj = o
    BY TaskFields
  <1>2. Occurs(RunFrames(FinalizeTask(o))) \/ Occurs({Frame("cancel", FinalizeTask(o))})
          => FinalizeTask(o) \notin fresh
    BY <1>1 DEF IndInv, TasksPlaced, Queue!OnePlace
  <1>3. FinalizeTask(o) \notin fresh => object[o].m_isInitialized /\ object[o].made
    BY <1>1, KnownMade DEF IndInv, ObjectInv, FinalizedFirst
  <1>4. Occurs(FramesOn({"run", "user"}, FinalizeTask(o))) => o \notin finalized
    BY DEF IndInv, ObjectInv, FinalizedFirst
  <1>5. FinalizeTask(o) \in fresh \cup Queue!Pending => o \notin finalized
    BY DEF IndInv, ObjectInv, FinalizedFirst, Queue!OnePlace
  <1> QED BY <1>2, <1>3, <1>4, <1>5

(* The queue's thread runs a task, unless its object is gone. *)
LEMMA RunTaskStep ==
  ASSUME IndInv, NEW th \in Threads, RunTask(th)
  PROVE  IndInv'
  <1> DEFINE t == Top(th)
             z == t.obj
             next == Frame(IF t.kind \in {"Strong", "Finalize", "Other"} \/ IsHeld(z)
                           THEN "user" ELSE "end", t)
             p == <<next>>
  <1>1. /\ TypeOK /\ AtTop(th, "run") /\ stack[th] # <<>>
        /\ Replace(th, p)
        /\ UNCHANGED <<queueVars, historyVars, objectVars, historyVars>>
    BY DEF RunTask, IndInv, AtTop
  <1>2. /\ Head(stack[th]) = Frame("run", t) /\ Head(stack[th]) \in Frames
        /\ Head(stack[th]) = stack[th][1] /\ 1 \in DOMAIN stack[th]
        /\ \A C : Head(stack[th]) \in C => Occurs(C)
    BY <1>1, TopFrame
  <1>3. t \in Tasks /\ th = QueueThread
    BY <1>2, FrameFields DEF IndInv, RunsInQueue
  <1>4. next \in Frames /\ next.on = t /\ next.at \in {"user", "end"}
    BY <1>3, FrameFields
  <1>5. \A C : (In(p, C) <=> next \in C) /\ OnceIn(p, C)
    BY <1>4, ShortSequences
  <1>6. p \in Seq(Frames) /\ \A i \in DOMAIN p : p[i] = next
    BY <1>4
  <1>7. Swaps(th, p)
    BY <1>1 DEF Replace, Swaps
  <1>8. [Queue!Next]_queueVars /\ pending' = pending /\ fresh' = fresh /\ object' = object
        /\ held' = held /\ finalized' = finalized /\ destroyed' = destroyed /\ notified' = notified
        /\ running' = running /\ finished' = finished /\ canceled' = canceled
        /\ outside' = outside /\ early' = early
    BY <1>1 DEF queueVars, objectVars, historyVars
  <1>9. \A o \in ActiveObjects : \A at \in {"user", "end"} :
          next = Frame(at, t) =>
            /\ next \in EndFrames(o) => at = "user" /\ t = FinalizeTask(o)
            /\ next \in LateFrames(o, early') => t \in Callbacks(o) \ early'
            /\ next \notin ObjectFrames(o)
            /\ next \in HoldFrames(o) => at = "user" /\ z = o /\ t.kind # "Finalize"
    <2> SUFFICES ASSUME NEW o \in ActiveObjects, NEW at \in {"user", "end"}
                 PROVE  /\ Frame(at, t) \in EndFrames(o) => at = "user" /\ t = FinalizeTask(o)
                        /\ Frame(at, t) \in LateFrames(o, early') => t \in Callbacks(o) \ early'
                        /\ Frame(at, t) \notin ObjectFrames(o)
                        /\ Frame(at, t) \in HoldFrames(o) =>
                             at = "user" /\ z = o /\ t.kind # "Finalize"
      OBVIOUS
    <2> HIDE DEF t
    <2>1. Frame(at, t) \in EndFrames(o) => at = "user" /\ t = FinalizeTask(o)
      BY FrameSets
    <2>2. (Frame(at, t) \in LateFrames(o, early') => t \in Callbacks(o) \ early') /\ Frame(at, t) \notin ObjectFrames(o)
      BY FrameSets
    <2>3. Frame(at, t) \in HoldFrames(o) => at = "user" /\ z = o /\ t.kind # "Finalize"
      BY FrameSets
    <2> QED BY <2>1, <2>2, <2>3
  <1>10. \E at \in {"user", "end"} : next = Frame(at, t)
    BY <1>3
  <1>11. next.at = "user" => t.kind \in {"Strong", "Finalize", "Other"} \/ IsHeld(z)
    BY FrameFields
  <1>12. next.at = "user" <=> next = Frame("user", t)
    BY FrameFields
  <1>13. t.kind \in {"Strong", "Finalize", "Other"} \/ IsHeld(z) => next = Frame("user", t)
    OBVIOUS
  <1> HIDE DEF t, next, p
  <1>14. TypeOK'
    BY <1>1, <1>6, <1>7, <1>8, TypeStep DEF TypeOK, IndInv
  <1>15. t \in running \cup finished
    <2>1. Frame("run", t) \in RunFrames(t)
      BY DEF RunFrames, FramesOn
    <2>2. Occurs(RunFrames(t))
      BY <1>2, <2>1
    <2> QED BY <1>3, <2>2 DEF IndInv, TasksPlaced
  <1>16. FramesFit(th, p)
    BY <1>3, <1>4, <1>6, <1>7, <1>8, <1>15 DEF FramesFit
  <1>17. ASSUME NEW o \in ActiveObjects PROVE Discreet(p, o)
    BY <1>5, <1>8, <1>9, <1>10 DEF Discreet
  <1>18. ASSUME NEW o \in ActiveObjects PROVE IsHeld(o)' => IsHeld(o)
    <2>1. In(p, HoldFrames(o)) => IsHeld(o)
      <3> SUFFICES ASSUME next \in HoldFrames(o) PROVE IsHeld(o)
        BY <1>5
      <3>1. next = Frame("user", t) /\ z = o /\ t.kind # "Finalize"
        BY <1>9, <1>10
      <3>2. t.kind # "Other"
        BY <1>3, <3>1, TaskFields, ActiveAssumption
      <3>3. CASE t.kind = "Strong"
        <4>1. FrameHolds(stack[th][1], o)
          BY <1>2, <3>1, <3>3, FrameFields DEF FrameHolds, TaskHolds
        <4> QED BY <1>2, <4>1 DEF IsHeld, HeldIn
      <3> QED BY <1>11, <1>12, <3>1, <3>2, <3>3
    <2>2. /\ \A x \in Threads : o \in held'[x] => IsHeld(o)
          /\ \A i \in DOMAIN pending' : TaskHolds(pending'[i], o) => IsHeld(o)
      BY <1>8 DEF IsHeld, HeldIn
    <2> QED BY <1>1, <1>6, <1>7, <1>14, <2>1, <2>2, HeldStep
  <1>19. ASSUME NEW o \in ActiveObjects, t # FinalizeTask(o), t # InitializeTask(o)
         PROVE  Untouched(th, p, o)
    <2>1. ~In(p, EndFrames(o)) /\ ~In(p, {Frame("construct", o)})
      <3>1. next # Frame("construct", o)
        BY <1>4, FrameFields
      <3> QED BY <1>5, <1>9, <1>10, <1>19, <3>1
    <2>2. NotCalledYet(o) => ~In(p, LateFrames(o, early'))
      <3>1. t \in Callbacks(o) \ early' => Frame("run", t) \in LateFrames(o, early)
        BY <1>8, FrameSets
      <3> QED BY <1>2, <1>5, <1>9, <1>10, <3>1 DEF NotCalledYet
    <2>3. /\ Head(stack[th]) \notin FramesOn({"run", "user"}, InitializeTask(o))
          /\ Head(stack[th]) # Frame("construct", o)
      BY <1>2, <1>19, FrameSets, FrameFields
    <2>4. Queue!Pending' = Queue!Pending
      BY <1>8 DEF Queue!Pending
    <2> QED BY <1>8, <1>18, <2>1, <2>2, <2>3, <2>4 DEF Untouched
  <1>20. ASSUME NEW o \in ActiveObjects, t = FinalizeTask(o)
         PROVE  ObjectInv(o)'
    <2>1. Head(stack[th]) \in EndFrames(o) /\ Occurs(EndFrames(o))
      BY <1>2, <1>20, FrameSets
    <2>2. Queue!Pending' = Queue!Pending /\ FinalizeTask(o) \notin Queue!Pending /\ EndsOnce(o) /\ o \notin destroyed
      BY <1>8, <2>1 DEF Queue!Pending, IndInv, ObjectInv, EndsOnce, Ending
    <2>3. EndsOnce(o)'
      BY <1>1, <1>5, <1>6, <1>7, <1>8, <1>18, <2>1, <2>2, EndsMoved
    <2>4. Head(stack[th]) \in FramesOn({"run", "user"}, FinalizeTask(o))
          /\ Head(stack[th]) \in RunFrames(FinalizeTask(o))
      BY <1>2, <1>20, FrameSets DEF RunFrames
    <2>5. object[o].m_isInitialized /\ o \notin finalized
      BY <1>2, <2>4, FinalizeOnStack
    <2>6. ~In(p, {Frame("destruct", o)})
      <3>1. next # Frame("destruct", o)
        BY <1>4, FrameFields
      <3> QED BY <1>5, <3>1
    <2>7. FinalizedFirst(o)'
      BY <1>1, <1>6, <1>7, <1>8, <2>2, <2>5, <2>6, FinalSame DEF IndInv, ObjectInv
    <2>8. InitializedFirst(o)'
      BY <1>8, <2>5 DEF InitializedFirst
    <2>9. BeingMade(o)'
      <3>1. ~In(p, {Frame("construct", o)})
        <4>1. next # Frame("construct", o)
          BY <1>4, FrameFields
        <4> QED BY <1>5, <4>1
      <3> QED BY <1>1, <1>6, <1>7, <1>8, <3>1, BeingMadeStep DEF IndInv, ObjectInv
    <2> QED BY <2>3, <2>7, <2>8, <2>9 DEF ObjectInv
  <1>21. ASSUME NEW o \in ActiveObjects, t = InitializeTask(o)
         PROVE  ObjectInv(o)'
    <2>1. z = o /\ t # FinalizeTask(o)
      BY <1>21, TaskFields
    <2>2. ~In(p, EndFrames(o))
      BY <1>5, <1>9, <1>10, <2>1
    <2>3. Queue!Pending' = Queue!Pending
      BY <1>8 DEF Queue!Pending
    <2>4. EndsOnce(o)'
      BY <1>1, <1>6, <1>7, <1>8, <1>18, <2>2, <2>3, EndsSame DEF IndInv, ObjectInv
    <2>5. ~In(p, FramesOn({"run", "user"}, FinalizeTask(o))) /\ ~In(p, {Frame("destruct", o)})
      BY <2>2 DEF In, EndFrames, FramesOn
    <2>6. FinalizedFirst(o)'
      BY <1>1, <1>6, <1>7, <1>8, <2>5, FinalSame DEF IndInv, ObjectInv
    <2>7. BeingMade(o)'
      <3>1. ~In(p, {Frame("construct", o)})
        <4>1. next # Frame("construct", o)
          BY <1>4, FrameFields
        <4> QED BY <1>5, <4>1
      <3> QED BY <1>1, <1>6, <1>7, <1>8, <3>1, BeingMadeStep DEF IndInv, ObjectInv
    <2>8. CASE ~IsHeld(o)
      BY <1>18, <2>4, <2>6, <2>7, <2>8 DEF InitializedFirst, ObjectInv
    <2>9. CASE IsHeld(o)
      <3>1. In(p, {Frame("user", InitializeTask(o))})
        BY <1>5, <1>13, <1>21, <2>1, <2>9
      <3>2. OccursIn(stack', {Frame("user", InitializeTask(o))})
        BY <1>1, <1>6, <1>7, <3>1, StackStep
      <3> QED BY <2>4, <2>6, <2>7, <3>2 DEF InitializedFirst, ObjectInv, Occurs
    <2> QED BY <2>8, <2>9
  <1>22. PICK y : y = t.obj
    OBVIOUS
  <1>23. ASSUME NEW o \in ActiveObjects, o # y PROVE Untouched(th, p, o)
    BY <1>19, <1>22, <1>23, TaskFields
  <1>24. y \in ActiveObjects => \/ Untouched(th, p, y)
                                \/ ObjectInv(y)'
    BY <1>19, <1>20, <1>21
  <1> QED BY <1>8, <1>14, <1>16, <1>17, <1>23, <1>24, OneObjectStep

(* The frames of the kinds that concern no task. *)
LEMMA ObjectFrame ==
  ASSUME NEW at \in {"release", "delete", "destruct", "notify"}, NEW z \in ActiveObjects,
         NEW o \in ActiveObjects
  PROVE  /\ Frame(at, z) \in Frames /\ Frame(at, z) # Frame("construct", o)
         /\ (\A e : Frame(at, z) \notin LateFrames(o, e))
         /\ Frame(at, z) \in EndFrames(o) => z = o /\ at \in {"delete", "destruct"}
         /\ Frame(at, z) \in ObjectFrames(o) => z = o
         /\ Frame(at, z) \in HoldFrames(o) => z = o /\ at = "release"
         /\ Frame(at, z).at = at /\ Frame(at, z).on = z
         /\ \A t, P : t # z => Frame(at, z) \notin FramesOn(P, t)
  <1>1. Frame(at, z) \in Frames /\ Frame(at, z) # Frame("construct", o)
        /\ Frame(at, z).at = at /\ Frame(at, z).on = z
    BY FrameFields
  <1>2. (\A e : Frame(at, z) \notin LateFrames(o, e)) /\ (Frame(at, z) \in ObjectFrames(o) => z = o)
    BY FrameSets
  <1>3. Frame(at, z) \in EndFrames(o) => z = o /\ at \in {"delete", "destruct"}
    BY FrameSets
  <1>4. Frame(at, z) \in HoldFrames(o) => z = o /\ at = "release"
    BY FrameSets
  <1>5. \A t, P : t # z => Frame(at, z) \notin FramesOn(P, t)
    BY FrameSets
  <1> QED BY <1>1, <1>2, <1>3, <1>4, <1>5

(* The frame of a task that has returned concerns no object. *)
LEMMA EndFrame ==
  ASSUME NEW t \in Tasks, NEW o \in ActiveObjects
  PROVE  /\ Frame("end", t) \in Frames /\ Frame("end", t) # Frame("construct", o)
         /\ (\A e : Frame("end", t) \notin LateFrames(o, e))
         /\ Frame("end", t) \notin EndFrames(o)
         /\ Frame("end", t) \notin ObjectFrames(o)
         /\ Frame("end", t) \notin HoldFrames(o)
         /\ Frame("end", t).at = "end" /\ Frame("end", t).on = t
  <1>1. Frame("end", t) \in Frames /\ Frame("end", t) # Frame("construct", o)
        /\ Frame("end", t).at = "end" /\ Frame("end", t).on = t
    BY FrameFields
  <1>2. (\A e : Frame("end", t) \notin LateFrames(o, e)) /\ Frame("end", t) \notin ObjectFrames(o)
    BY FrameSets
  <1>3. Frame("end", t) \notin EndFrames(o) /\ Frame("end", t) \notin HoldFrames(o)
    BY FrameSets
  <1> QED BY <1>1, <1>2, <1>3

(* The callback of a task returns: strongThis is released, or the object   *)
(* destructed.                                                             *)
LEMMA CallbackReturnsStep ==
  ASSUME IndInv, NEW th \in Threads, CallbackReturns(th)
  PROVE  IndInv'
  <1>1. PICK t : t = Top(th)
    OBVIOUS
  <1>2. /\ TypeOK /\ AtTop(th, "user") /\ stack[th] # <<>>
        /\ object' = IF t.kind = "Initialize"
                     THEN [object EXCEPT ![t.obj].m_isInitialized = TRUE] ELSE object
        /\ finalized' = IF t.kind = "Finalize" THEN finalized \cup {t.obj} ELSE finalized
        /\ Replace(th, (IF t.kind = "Finalize" THEN <<Frame("destruct", t.obj)>>
                        ELSE IF t.kind = "Other" THEN <<>> ELSE <<Frame("release", t.obj)>>)
                       \o <<Frame("end", t)>>)
        /\ UNCHANGED <<queueVars, historyVars, held, destroyed, notified>>
    BY <1>1 DEF CallbackReturns, IndInv, AtTop
  <1>3. /\ Head(stack[th]) = Frame("user", t) /\ Head(stack[th]) \in Frames
        /\ Head(stack[th]) = stack[th][1] /\ 1 \in DOMAIN stack[th]
        /\ \A C : Frame("user", t) \in C => Occurs(C)
    BY <1>1, <1>2, TopFrame
  <1>4. t \in Tasks /\ th = QueueThread
    BY <1>3, FrameFields DEF IndInv, RunsInQueue
  <1>5. [Queue!Next]_queueVars /\ pending' = pending /\ fresh' = fresh /\ Queue!Pending' = Queue!Pending
        /\ held' = held /\ destroyed' = destroyed /\ notified' = notified
        /\ running' = running /\ finished' = finished /\ canceled' = canceled
        /\ outside' = outside /\ early' = early
    BY <1>2 DEF queueVars, historyVars, Queue!Pending
  <1>6. PICK z : z = t.obj
    OBVIOUS
  <1>7. /\ t.kind # "Other" => z \in ActiveObjects
        /\ t.kind = "Other" => z \notin ActiveObjects
        /\ t.kind = "Finalize" => t = FinalizeTask(z)
        /\ t.kind = "Initialize" => t = InitializeTask(z)
        /\ \A o \in ActiveObjects : t = FinalizeTask(o) => o = z /\ t.kind = "Finalize"
        /\ \A o \in ActiveObjects : t = InitializeTask(o) => o = z /\ t.kind = "Initialize"
    BY <1>4, <1>6, TaskFields, ActiveAssumption
  <1>8. PICK at : at = IF t.kind = "Finalize" THEN "destruct" ELSE "release"
    OBVIOUS
  <1>9. PICK p : p = IF t.kind = "Other" THEN <<Frame("end", t)>> ELSE <<Frame(at, z), Frame("end", t)>>
    OBVIOUS
  <1>10. Swaps(th, p)
    <2>1. (<<>> \o <<Frame("end", t)>>) = <<Frame("end", t)>>
      BY <1>4, EndFrame
    <2>2. t.kind # "Other" => Frame(at, z) \in Frames
      BY <1>7, <1>8, FrameFields
    <2>3. t.kind # "Other" => <<Frame(at, z)>> \o <<Frame("end", t)>> = <<Frame(at, z), Frame("end", t)>>
      <3>1. Frame("end", t) \in Frames
        BY <1>4, FrameFields
      <3> QED BY <2>2, <3>1, TwoFrames
    <2> QED BY <1>2, <1>6, <1>8, <1>9, <2>1, <2>3 DEF Replace, Swaps
  <1>11. /\ p \in Seq(Frames)
         /\ \A C : In(p, C) <=> Frame("end", t) \in C \/ (t.kind # "Other" /\ Frame(at, z) \in C)
         /\ \A C : Frame("end", t) \notin C => OnceIn(p, C)
         /\ \A i \in DOMAIN p : p[i] = Frame("end", t) \/ (t.kind # "Other" /\ p[i] = Frame(at, z))
    <2>1. Frame("end", t) \in Frames
      BY <1>4, FrameFields
    <2>2. CASE t.kind = "Other"
      <3>1. p = <<Frame("end", t)>>
        BY <1>9, <2>2
      <3>2. p \in Seq(Frames) /\ \A C : (In(p, C) <=> Frame("end", t) \in C) /\ OnceIn(p, C)
        BY <2>1, <3>1, ShortSequences
      <3>3. \A i \in DOMAIN p : p[i] = Frame("end", t)
        BY <3>1
      <3> QED BY <2>2, <3>2, <3>3
    <2>3. CASE t.kind # "Other"
      <3>1. Frame(at, z) \in Frames
        BY <1>7, <1>8, <2>3, FrameFields
      <3>2. p = <<Frame(at, z), Frame("end", t)>>
        BY <1>9, <2>3
      <3>3. p[1] = Frame(at, z) /\ p[2] = Frame("end", t) /\ DOMAIN p = {1, 2}
        BY <3>2
      <3> QED BY <2>1, <2>3, <3>1, <3>2, <3>3, ShortSequences
    <2> QED BY <2>2, <2>3
  <1>12. ASSUME NEW o \in ActiveObjects
         PROVE  /\ object'[o].made = object[o].made
                /\ object'[o].m_hasFinalize = object[o].m_hasFinalize
                /\ object'[o].m_isInitialized = IF t = InitializeTask(o) THEN TRUE
                                                ELSE object[o].m_isInitialized
    BY <1>2, <1>6, <1>7 DEF TypeOK
  <1>13. /\ object' \in [ActiveObjects -> [made : BOOLEAN, m_hasInitialize : BOOLEAN,
                                        m_hasFinalize : BOOLEAN, m_isInitialized : BOOLEAN,
                                        m_onDestructed : BOOLEAN]]
         /\ finalized' \subseteq ActiveObjects
    BY <1>2, <1>6, <1>7 DEF TypeOK
  <1>14. \A o : o \in finalized' <=> o \in finalized \/ (o = z /\ t.kind = "Finalize")
    BY <1>2, <1>6
  <1>15. TypeOK'
    BY <1>2, <1>5, <1>10, <1>11, <1>13, TypeStep DEF TypeOK, IndInv
  <1>16. t \in running \cup finished
    <2>1. Frame("user", t) \in RunFrames(t)
      BY DEF RunFrames, FramesOn
    <2>2. Occurs(RunFrames(t))
      BY <1>3, <2>1
    <2> QED BY <1>4, <2>2 DEF IndInv, TasksPlaced
  <1>17. FramesFit(th, p)
    <2>1. Frame("end", t).at = "end" /\ Frame("end", t).on = t /\ Frame(at, z).at \in {"destruct", "release"}
      BY <1>8, FrameFields
    <2> QED BY <1>4, <1>5, <1>10, <1>11, <1>16, <2>1 DEF FramesFit
  <1>18. z \in ActiveObjects => object[z].made
    <2>1. Frame("user", t) \in RunFrames(t)
      BY DEF RunFrames, FramesOn
    <2> QED BY <1>3, <1>4, <1>6, <2>1, KnownMade
  <1>19. ASSUME NEW o \in ActiveObjects
         PROVE  /\ ~In(p, LateFrames(o, early')) /\ ~In(p, {Frame("construct", o)})
                /\ In(p, EndFrames(o)) => o = z /\ t.kind = "Finalize"
                /\ In(p, ObjectFrames(o)) => o = z
                /\ In(p, HoldFrames(o)) => o = z /\ t.kind \notin {"Finalize", "Other"}
                /\ OnceIn(p, EndFrames(o))
    BY <1>4, <1>7, <1>8, <1>11, ObjectFrame, EndFrame
  <1>20. ASSUME NEW o \in ActiveObjects PROVE Discreet(p, o)
    BY <1>5, <1>7, <1>12, <1>14, <1>18, <1>19 DEF Discreet
  <1>21. t.kind \notin {"Finalize", "Other"} => IsHeld(z)
    <2>1. t.kind # "Finalize" => FrameHolds(stack[th][1], z)
      BY <1>3, <1>6, FrameFields DEF FrameHolds
    <2> QED BY <1>3, <2>1 DEF IsHeld, HeldIn
  <1>22. ASSUME NEW o \in ActiveObjects PROVE IsHeld(o)' => IsHeld(o)
    <2>1. /\ \A x \in Threads : o \in held'[x] => IsHeld(o)
          /\ \A i \in DOMAIN pending' : TaskHolds(pending'[i], o) => IsHeld(o)
      BY <1>5 DEF IsHeld, HeldIn
    <2> QED BY <1>2, <1>10, <1>11, <1>15, <1>19, <1>21, <2>1, HeldStep
  <1>23. ASSUME NEW o \in ActiveObjects, t # FinalizeTask(o), t # InitializeTask(o)
         PROVE  Untouched(th, p, o)
    <2>1. /\ Head(stack[th]) \notin FramesOn({"run", "user"}, InitializeTask(o))
          /\ Head(stack[th]) # Frame("construct", o)
      BY <1>3, <1>23, FrameSets, FrameFields
    <2>2. ~In(p, EndFrames(o)) /\ (o \in finalized' <=> o \in finalized)
      BY <1>7, <1>14, <1>19, <1>23
    <2> QED BY <1>5, <1>12, <1>19, <1>22, <1>23, <2>1, <2>2 DEF Untouched
  <1>24. ASSUME NEW o \in ActiveObjects, t = FinalizeTask(o)
         PROVE  ObjectInv(o)'
    <2> DEFINE R == FramesOn({"run", "user"}, FinalizeTask(o))
    <2>1. o = z /\ t.kind = "Finalize" /\ at = "destruct" /\ t # InitializeTask(o)
      BY <1>7, <1>8, <1>24, TaskFields
    <2>2. Head(stack[th]) \in EndFrames(o) /\ Occurs(EndFrames(o)) /\ Head(stack[th]) \in R
      BY <1>3, <1>24, FrameSets
    <2>3. FinalizeTask(o) \notin Queue!Pending /\ EndsOnce(o) /\ o \notin destroyed
      BY <2>2 DEF IndInv, ObjectInv, EndsOnce, Ending
    <2>4. EndsOnce(o)'
      BY <1>2, <1>5, <1>10, <1>11, <1>19, <1>22, <2>2, <2>3, EndsMoved
    <2>5. AtMostOnceIn(stack, R) /\ ~In(p, R)
      <3>1. R \subseteq EndFrames(o)
        BY DEF EndFrames, FramesOn
      <3>2. AtMostOnceIn(stack, R)
        BY <2>3, <3>1 DEF EndsOnce, AtMostOnceIn
      <3>3. Frame("end", t) \notin R /\ Frame("destruct", o) \notin R
        BY FrameSets
      <3> QED BY <1>11, <2>1, <3>2, <3>3
    <2>6. ~OccursIn(stack', R)
      <3> HIDE DEF R
      <3> QED BY <1>2, <1>10, <1>11, <2>2, <2>5, StackStep
    <2>7. object[o].m_isInitialized
      <3>1. Frame("user", t) \in RunFrames(FinalizeTask(o))
        BY <1>24 DEF RunFrames, FramesOn
      <3> QED BY <1>3, <3>1, FinalizeOnStack
    <2>8. FinalizedFirst(o)'
      BY <1>5, <1>12, <1>14, <1>16, <1>24, <2>1, <2>6, <2>7 DEF FinalizedFirst, Occurs
    <2>9. InitializedFirst(o)'
      BY <1>12, <2>1, <2>7 DEF InitializedFirst
    <2>10. BeingMade(o)'
      BY <1>2, <1>5, <1>10, <1>11, <1>12, <1>19, <2>1, BeingMadeStep DEF IndInv, ObjectInv
    <2> QED BY <2>4, <2>8, <2>9, <2>10 DEF ObjectInv
  <1>25. ASSUME NEW o \in ActiveObjects, t = InitializeTask(o)
         PROVE  ObjectInv(o)'
    <2>1. o = z /\ t.kind = "Initialize"
      BY <1>7, <1>25
    <2>2. ~In(p, EndFrames(o)) /\ IsHeld(o)
      BY <1>19, <1>21, <2>1
    <2>3. EndsOnce(o)'
      BY <1>2, <1>5, <1>10, <1>11, <1>22, <2>2, EndsSame DEF IndInv, ObjectInv
    <2>4. ~In(p, FramesOn({"run", "user"}, FinalizeTask(o))) /\ ~In(p, {Frame("destruct", o)})
      BY <2>2 DEF In, EndFrames, FramesOn
    <2>5. o \notin destroyed /\ ~Occurs({Frame("destruct", o)})
      <3>1. Frame("destruct", o) \in EndFrames(o)
        BY FrameSets
      <3>2. Occurs({Frame("destruct", o)}) => Occurs(EndFrames(o))
        BY <3>1 DEF Occurs, OccursIn
      <3> QED BY <2>2, <3>2 DEF IndInv, ObjectInv, EndsOnce, Ending
    <2>6. o \in finalized' <=> o \in finalized
      BY <1>14, <2>1
    <2>7. FinalizedFirst(o)'
      BY <1>2, <1>5, <1>10, <1>11, <1>12, <1>25, <2>4, <2>5, <2>6, FinalSame DEF IndInv, ObjectInv
    <2>8. InitializedFirst(o)'
      BY <1>12, <1>25 DEF InitializedFirst
    <2>9. BeingMade(o)'
      <3>1. t \notin fresh
        BY <1>16 DEF IndInv, Queue!OnePlace
      <3>2. ~Occurs({Frame("construct", o)})
        BY <1>25, <3>1 DEF IndInv, ObjectInv, BeingMade
      <3> QED BY <1>2, <1>5, <1>10, <1>11, <1>19, <3>2, BeingMadeStep DEF IndInv, ObjectInv
    <2> QED BY <2>3, <2>7, <2>8, <2>9 DEF ObjectInv
  <1>26. ASSUME NEW o \in ActiveObjects, o # z PROVE Untouched(th, p, o)
    BY <1>7, <1>23, <1>26
  <1>27. z \in ActiveObjects => \/ Untouched(th, p, z)
                                \/ ObjectInv(z)'
    BY <1>23, <1>24, <1>25
  <1> QED BY <1>5, <1>15, <1>17, <1>20, <1>26, <1>27, OneObjectStep

(* A step puts at most one frame in place of the topmost one. *)
LEMMA SwapFrame ==
  ASSUME TypeOK, NEW th \in Threads, stack[th] # <<>>, NEW p, Replace(th, p),
         p = <<>> \/ \E x \in Frames : p = <<x>>
  PROVE  /\ Swaps(th, p) /\ p \in Seq(Frames) /\ \A C : OnceIn(p, C)
         /\ \A x : p = <<x>> => \A C : In(p, C) <=> x \in C
         /\ \A x : p = <<x>> => \A i \in DOMAIN p : p[i] = x
         /\ p = <<>> => (\A C : ~In(p, C)) /\ DOMAIN p = {}
  <1>1. Swaps(th, p)
    BY DEF Replace, Swaps
  <1>2. CASE p = <<>>
    BY <1>1, <1>2 DEF In, OnceIn
  <1>3. ASSUME NEW x \in Frames, p = <<x>>
        PROVE  /\ p \in Seq(Frames) /\ \A C : OnceIn(p, C) /\ (In(p, C) <=> x \in C)
               /\ \A i \in DOMAIN p : p[i] = x
               /\ \A y : p = <<y>> => y = x
               /\ p # <<>>
    BY <1>3 DEF In, OnceIn
  <1> QED BY <1>1, <1>2, <1>3

(* CancelTask of a task that the queue gave up. *)
LEMMA CancelTaskStep ==
  ASSUME IndInv, NEW th \in Threads, CancelTask(th)
  PROVE  IndInv'
  <1>1. PICK t : t = Top(th)
    OBVIOUS
  <1>2. PICK p : p = IF t.kind = "Finalize" THEN <<Frame("destruct", t.obj)>>
                     ELSE IF t.kind = "Strong" THEN <<Frame("release", t.obj)>> ELSE <<>>
    OBVIOUS
  <1>3. /\ TypeOK /\ AtTop(th, "cancel") /\ stack[th] # <<>> /\ Queue!Cancel(t) /\ Replace(th, p)
        /\ object' = object /\ held' = held /\ finalized' = finalized /\ destroyed' = destroyed
        /\ notified' = notified /\ outside' = outside /\ early' = early
    BY <1>1, <1>2 DEF CancelTask, IndInv, AtTop, objectVars, historyVars
  <1>4. /\ Head(stack[th]) = Frame("cancel", t) /\ Head(stack[th]) \in Frames
        /\ Head(stack[th]) = stack[th][1] /\ 1 \in DOMAIN stack[th]
        /\ \A C : Frame("cancel", t) \in C => Occurs(C)
    BY <1>1, <1>3, TopFrame
  <1>5. t \in Tasks
    BY <1>4, FrameFields
  <1>6. /\ [Queue!Next]_queueVars /\ pending' = pending /\ fresh' = fresh /\ Queue!Pending' = Queue!Pending
        /\ running' = running /\ finished' = finished /\ t \in canceled' /\ canceled \subseteq canceled'
    BY <1>3, <1>5 DEF Queue!Next, Queue!Cancel, Queue!Pending
  <1>7. PICK z : z = t.obj
    OBVIOUS
  <1>8. /\ t.kind # "Other" => z \in ActiveObjects
        /\ t.kind = "Finalize" => t = FinalizeTask(z)
        /\ \A o \in ActiveObjects : t = FinalizeTask(o) => o = z /\ t.kind = "Finalize"
    BY <1>5, <1>7, TaskFields
  <1>9. /\ Swaps(th, p) /\ p \in Seq(Frames) /\ (\A C : OnceIn(p, C))
        /\ \A x : p = <<x>> => \A C : In(p, C) <=> x \in C
        /\ \A x : p = <<x>> => \A i \in DOMAIN p : p[i] = x
        /\ p = <<>> => (\A C : ~In(p, C)) /\ DOMAIN p = {}
    <2>1. p = <<>> \/ \E x \in Frames : p = <<x>>
      BY <1>2, <1>7, <1>8, FrameFields
    <2> QED BY <1>3, <2>1, SwapFrame
  <1>10. \/ t.kind = "Finalize" /\ \A C : In(p, C) <=> Frame("destruct", z) \in C
         \/ t.kind = "Strong" /\ \A C : In(p, C) <=> Frame("release", z) \in C
         \/ t.kind \notin {"Finalize", "Strong"} /\ \A C : ~In(p, C)
    BY <1>2, <1>7, <1>9
  <1>11. ASSUME NEW o \in ActiveObjects
         PROVE  /\ ~In(p, LateFrames(o, early')) /\ ~In(p, {Frame("construct", o)})
                /\ In(p, EndFrames(o)) => o = z /\ t.kind = "Finalize"
                /\ In(p, ObjectFrames(o)) => o = z
                /\ In(p, HoldFrames(o)) => o = z /\ t.kind = "Strong"
    BY <1>8, <1>10, ObjectFrame
  <1>12. TypeOK'
    BY <1>3, <1>6, <1>9, TypeStep DEF TypeOK, IndInv
  <1>13. FramesFit(th, p)
    <2>1. \A i \in DOMAIN p : p[i].at \in {"destruct", "release"}
      <3>1. Frame("destruct", z).at = "destruct" /\ Frame("release", z).at = "release"
        BY FrameFields
      <3> QED BY <1>2, <1>7, <1>9, <3>1
    <2> QED BY <1>3, <1>9, <2>1 DEF FramesFit
  <1>14. z \in ActiveObjects => object[z].made
    <2>1. Occurs({Frame("cancel", t)})
      BY <1>4
    <2> QED BY <1>5, <1>7, <2>1, KnownMade
  <1>15. ASSUME NEW o \in ActiveObjects PROVE Discreet(p, o)
    BY <1>3, <1>6, <1>11, <1>14 DEF Discreet
  <1>16. t.kind = "Strong" => IsHeld(z)
    <2>1. t.kind = "Strong" => FrameHolds(stack[th][1], z)
      BY <1>4, <1>7, FrameFields DEF FrameHolds, TaskHolds
    <2> QED BY <1>4, <2>1 DEF IsHeld, HeldIn
  <1>17. ASSUME NEW o \in ActiveObjects PROVE IsHeld(o)' => IsHeld(o)
    <2>1. /\ \A x \in Threads : o \in held'[x] => IsHeld(o)
          /\ \A i \in DOMAIN pending' : TaskHolds(pending'[i], o) => IsHeld(o)
      BY <1>3, <1>6 DEF IsHeld, HeldIn
    <2> QED BY <1>3, <1>9, <1>11, <1>12, <1>16, <2>1, HeldStep
  <1>18. ASSUME NEW o \in ActiveObjects, t # FinalizeTask(o) PROVE Untouched(th, p, o)
    <2>1. /\ Head(stack[th]) \notin FramesOn({"run", "user"}, InitializeTask(o))
          /\ Head(stack[th]) # Frame("construct", o)
      BY <1>4, FrameSets, FrameFields
    <2>2. ~In(p, EndFrames(o))
      BY <1>8, <1>11, <1>18
    <2> QED BY <1>3, <1>6, <1>11, <1>17, <2>1, <2>2 DEF Untouched
  <1>19. ASSUME NEW o \in ActiveObjects, t = FinalizeTask(o)
         PROVE  ObjectInv(o)'
    <2>1. Head(stack[th]) \in EndFrames(o) /\ Occurs(EndFrames(o))
      BY <1>4, <1>19, FrameSets
    <2>2. FinalizeTask(o) \notin Queue!Pending /\ EndsOnce(o) /\ o \notin destroyed
      BY <2>1 DEF IndInv, ObjectInv, EndsOnce, Ending
    <2>3. EndsOnce(o)'
      BY <1>3, <1>6, <1>9, <1>17, <2>1, <2>2, EndsMoved
    <2>4. object[o].m_isInitialized
      <3>1. Occurs({Frame("cancel", FinalizeTask(o))})
        BY <1>4, <1>19
      <3> QED BY <3>1, FinalizeOnStack
    <2>5. ~In(p, FramesOn({"run", "user"}, FinalizeTask(o)))
      <3>1. o = z /\ t.kind = "Finalize"
        BY <1>8, <1>19
      <3>2. Frame("destruct", z) \notin FramesOn({"run", "user"}, FinalizeTask(o))
        BY FrameSets
      <3> QED BY <1>10, <3>1, <3>2
    <2>6. FinalizedFirst(o)'
      BY <1>3, <1>6, <1>9, <1>19, <2>5, FinalSame DEF IndInv, ObjectInv
    <2>7. InitializedFirst(o)'
      BY <1>3, <2>4 DEF InitializedFirst
    <2>8. BeingMade(o)'
      BY <1>3, <1>6, <1>9, <1>11, BeingMadeStep DEF IndInv, ObjectInv
    <2> QED BY <2>3, <2>6, <2>7, <2>8 DEF ObjectInv
  <1>20. ASSUME NEW o \in ActiveObjects, o # z PROVE Untouched(th, p, o)
    BY <1>8, <1>18, <1>20
  <1>21. z \in ActiveObjects => \/ Untouched(th, p, z)
                                \/ ObjectInv(z)'
    BY <1>18, <1>19
  <1> QED BY <1>6, <1>12, <1>13, <1>15, <1>20, <1>21, OneObjectStep

(* The object of the topmost frame is dealt with by th; for others it is a *)
(* step like any.                                                          *)
LEMMA OtherObject ==
  ASSUME IndInv, NEW th \in Threads, NEW p \in Seq(Frames), Swaps(th, p), NEW z, NEW o \in ActiveObjects,
         o # z, Head(stack[th]).at \in {"release", "delete", "destruct"},
         \A i \in DOMAIN p : \/ p[i].at \in {"delete", "destruct", "notify"} /\ p[i].on = z
                             \/ p[i].at \in {"run", "cancel"} /\ p[i].on = FinalizeTask(z),
         object' = object, held' = held, finalized' = finalized,
         o \in destroyed' => o \in destroyed,
         \A t \in Tasks : t \in fresh => t \in fresh' \/ t = FinalizeTask(z),
         outside' = outside, early' = early,
         Queue!Pending' \subseteq Queue!Pending \cup {FinalizeTask(z)},
         \/ pending' = pending
         \/ accepting /\ \E t \in Tasks : pending' = Append(pending, t),
         TypeOK'
  PROVE  Untouched(th, p, o) /\ ~In(p, ObjectFrames(o))
  <1>1. TypeOK
    BY DEF IndInv
  <1>2. FinalizeTask(z) # FinalizeTask(o) /\ FinalizeTask(z).kind = "Finalize"
    BY DEF FinalizeTask
  <1>3. ASSUME NEW i \in DOMAIN p
        PROVE  /\ p[i] \notin EndFrames(o) /\ p[i] \notin LateFrames(o, early') /\ p[i] # Frame("construct", o)
               /\ p[i] \notin HoldFrames(o) /\ p[i] \notin ObjectFrames(o)
    <2>1. p[i] \in Frames
      OBVIOUS
    <2>2. PICK at, x : /\ p[i] = Frame(at, x)
                       /\ \/ at \in {"delete", "destruct", "notify"} /\ x = z
                          \/ at \in {"run", "cancel"} /\ x = FinalizeTask(z)
      BY <2>1, FrameFields
    <2>3. Frame(at, x) \notin EndFrames(o) /\ Frame(at, x) \notin ObjectFrames(o)
      BY <1>2, <2>2, FrameSets
    <2>4. Frame(at, x) \notin LateFrames(o, early')
      BY <1>2, <2>2, FrameSets DEF Callbacks
    <2>5. Frame(at, x) \notin HoldFrames(o)
      BY <1>2, <2>2, FrameSets
    <2>6. Frame(at, x) # Frame("construct", o)
      BY <2>2, FrameFields
    <2> QED BY <2>2, <2>3, <2>4, <2>5, <2>6
  <1>4. /\ ~In(p, EndFrames(o)) /\ ~In(p, LateFrames(o, early')) /\ ~In(p, {Frame("construct", o)})
        /\ ~In(p, HoldFrames(o)) /\ ~In(p, ObjectFrames(o))
    BY <1>3 DEF In
  <1>5. \A x \in Threads : o \in held'[x] => IsHeld(o)
    BY DEF IsHeld, HeldIn
  <1>6. \A i \in DOMAIN pending' : TaskHolds(pending'[i], o) => IsHeld(o)
    <2>1. \A i \in DOMAIN pending' : pending'[i] \in Queue!Pending'
      BY DEF Queue!Pending
    <2>2. \A t \in Queue!Pending : TaskHolds(t, o) => IsHeld(o)
      BY DEF Queue!Pending, IsHeld, HeldIn
    <2> QED BY <1>2, <2>1, <2>2 DEF TaskHolds
  <1>7. IsHeld(o)' => IsHeld(o)
    BY <1>1, <1>4, <1>5, <1>6, HeldStep
  <1>8. /\ Head(stack[th]) \notin FramesOn({"run", "user"}, InitializeTask(o))
        /\ Head(stack[th]) # Frame("construct", o)
    BY FrameFields DEF FramesOn
  <1>9. /\ FinalizeTask(o) \in fresh => FinalizeTask(o) \in fresh'
        /\ InitializeTask(o) \in fresh => InitializeTask(o) \in fresh'
        /\ Callbacks(o) \cap fresh \subseteq fresh'
    BY <1>2, TaskFields DEF Callbacks
  <1> QED BY <1>2, <1>4, <1>7, <1>8, <1>9 DEF Untouched

(* An object whose end has begun was made and is not held, and stays so. *)
LEMMA EndBegun ==
  ASSUME IndInv, NEW th \in Threads, NEW o \in ActiveObjects, stack[th] # <<>>,
         NEW at \in {"delete", "destruct"}, Head(stack[th]) = Frame(at, o)
  PROVE  /\ Head(stack[th]) \in EndFrames(o) /\ Occurs(EndFrames(o)) /\ object[o].made
         /\ ~IsHeld(o) /\ FinalizeTask(o) \notin Queue!Pending /\ EndsOnce(o) /\ o \notin destroyed
  <1>1. TypeOK
    BY DEF IndInv
  <1>2. Head(stack[th]) \in EndFrames(o) /\ Head(stack[th]) \in ObjectFrames(o)
    BY FrameSets
  <1>3. Occurs(EndFrames(o)) /\ Occurs(ObjectFrames(o))
    BY <1>1, <1>2, TopFrame
  <1>4. object[o].made
    BY <1>3, KnownMade
  <1> QED BY <1>2, <1>3, <1>4 DEF IndInv, ObjectInv, EndsOnce, Ending

(* The destructor runs, and the callback is due if there is one. *)
LEMMA DestructObjectStep ==
  ASSUME IndInv, NEW th \in Threads, DestructObject(th)
  PROVE  IndInv'
  <1>1. PICK z : z = Top(th)
    OBVIOUS
  <1>2. PICK p : p = IF object[z].m_onDestructed THEN <<Frame("notify", z)>> ELSE <<>>
    OBVIOUS
  <1>3. /\ TypeOK /\ AtTop(th, "destruct") /\ stack[th] # <<>> /\ Replace(th, p)
        /\ destroyed' = destroyed \cup {z}
        /\ UNCHANGED <<queueVars, historyVars, object, held, finalized, notified>>
    BY <1>1, <1>2 DEF DestructObject, IndInv, AtTop
  <1>4. /\ Head(stack[th]) = Frame("destruct", z) /\ Head(stack[th]) \in Frames
        /\ \A C : Head(stack[th]) \in C => Occurs(C)
    BY <1>1, <1>3, TopFrame
  <1>5. z \in ActiveObjects /\ Head(stack[th]).at = "destruct"
    BY <1>4, FrameFields
  <1>6. /\ [Queue!Next]_queueVars /\ pending' = pending /\ fresh' = fresh /\ Queue!Pending' = Queue!Pending
        /\ running' = running /\ finished' = finished /\ canceled' = canceled
        /\ outside' = outside /\ early' = early
    BY <1>3 DEF queueVars, historyVars, Queue!Pending
  <1>7. Frame("notify", z) \in Frames /\ Frame("notify", z).at = "notify" /\ Frame("notify", z).on = z
    BY <1>5, FrameFields
  <1>8. /\ Swaps(th, p) /\ p \in Seq(Frames) /\ (\A C : OnceIn(p, C))
        /\ \A C : In(p, C) => Frame("notify", z) \in C
        /\ \A i \in DOMAIN p : p[i] = Frame("notify", z)
    <2>1. p = <<>> \/ p = <<Frame("notify", z)>>
      BY <1>2
    <2> QED BY <1>3, <1>7, <2>1, SwapFrame
  <1>9. TypeOK'
    BY <1>3, <1>5, <1>6, <1>8, TypeStep DEF TypeOK, IndInv
  <1>10. FramesFit(th, p)
    BY <1>6, <1>7, <1>8 DEF FramesFit
  <1>11. /\ Head(stack[th]) \in EndFrames(z) /\ Occurs(EndFrames(z)) /\ object[z].made
         /\ ~IsHeld(z) /\ FinalizeTask(z) \notin Queue!Pending /\ EndsOnce(z) /\ z \notin destroyed
    BY <1>3, <1>4, <1>5, EndBegun
  <1>12. ASSUME NEW o \in ActiveObjects, o # z PROVE Untouched(th, p, o) /\ ~In(p, ObjectFrames(o))
    BY <1>3, <1>5, <1>6, <1>7, <1>8, <1>9, <1>12, OtherObject
  <1>13. ASSUME NEW o \in ActiveObjects PROVE Discreet(p, o)
    BY <1>3, <1>6, <1>11, <1>12 DEF Discreet
  <1>14. ~In(p, EndFrames(z)) /\ ~In(p, HoldFrames(z))
    BY <1>5, <1>8, ObjectFrame
  <1>15. ~IsHeld(z)'
    <2>1. /\ \A x \in Threads : z \in held'[x] => IsHeld(z)
          /\ \A i \in DOMAIN pending' : TaskHolds(pending'[i], z) => IsHeld(z)
      BY <1>3, <1>6 DEF IsHeld, HeldIn
    <2> QED BY <1>3, <1>5, <1>8, <1>9, <1>11, <1>14, <2>1, HeldStep
  <1>16. EndsOnce(z)'
    BY <1>3, <1>5, <1>6, <1>8, <1>11, <1>14, <1>15, EndsMoved
  <1>17. FinalizedFirst(z)'
    <2> DEFINE R == FramesOn({"run", "user"}, FinalizeTask(z))
    <2>1. ~In(p, R)
      <3>1. Frame("notify", z) \notin R
        BY <1>5, FrameSets
      <3> QED BY <1>8, <3>1
    <2>2. OccursIn(stack', R) => OccursIn(stack, R) \/ In(p, R)
      <3> HIDE DEF R
      <3> QED BY <1>3, <1>8, StackStep
    <2>3. OccursIn(stack', R) => z \notin finalized
      BY <1>5, <2>1, <2>2 DEF IndInv, ObjectInv, FinalizedFirst, Occurs
    <2>4. Occurs({Frame("destruct", z)})
      BY <1>4
    <2>5. object[z].m_hasFinalize /\ object[z].m_isInitialized =>
            z \in finalized \/ FinalizeTask(z) \in canceled
      BY <1>5, <2>4 DEF IndInv, ObjectInv, FinalizedFirst
    <2>6. FinalizedFirst(z)
      BY <1>5 DEF IndInv, ObjectInv
    <2> QED BY <1>3, <1>6, <2>3, <2>5, <2>6 DEF FinalizedFirst, Occurs
  <1>18. InitializedFirst(z)'
    BY <1>15 DEF InitializedFirst
  <1>19. BeingMade(z)'
    <2>1. ~In(p, {Frame("construct", z)})
      BY <1>5, <1>8, ObjectFrame
    <2> QED BY <1>3, <1>5, <1>6, <1>8, <2>1, BeingMadeStep DEF IndInv, ObjectInv
  <1>20. ObjectInv(z)'
    BY <1>16, <1>17, <1>18, <1>19 DEF ObjectInv
  <1> QED BY <1>6, <1>9, <1>10, <1>12, <1>13, <1>20, OneObjectStep

(* The thread that drops the last reference deletes the object. *)
LEMMA ReleaseStep ==
  ASSUME IndInv, NEW th \in Threads, Release(th)
  PROVE  IndInv'
  <1>1. PICK z : z = Top(th)
    OBVIOUS
  <1>2. /\ TypeOK /\ AtTop(th, "release") /\ stack[th] # <<>>
        /\ UNCHANGED <<queueVars, historyVars, objectVars, historyVars>>
    BY DEF Release, IndInv, AtTop
  <1>3. /\ Head(stack[th]) = Frame("release", z) /\ Head(stack[th]) \in Frames
        /\ Head(stack[th]) = stack[th][1] /\ 1 \in DOMAIN stack[th]
        /\ \A C : Head(stack[th]) \in C => Occurs(C)
    BY <1>1, <1>2, TopFrame
  <1>4. z \in ActiveObjects /\ Head(stack[th]).at = "release"
    BY <1>3, FrameFields
  <1>5. /\ [Queue!Next]_queueVars /\ pending' = pending /\ fresh' = fresh /\ Queue!Pending' = Queue!Pending
        /\ running' = running /\ finished' = finished /\ canceled' = canceled
        /\ object' = object /\ held' = held /\ finalized' = finalized /\ destroyed' = destroyed
        /\ notified' = notified /\ outside' = outside /\ early' = early
    BY <1>2 DEF queueVars, objectVars, historyVars, Queue!Pending
  <1>6. IsHeld(z)
    <2>1. FrameHolds(stack[th][1], z)
      BY <1>3, FrameFields DEF FrameHolds
    <2> QED BY <1>3, <2>1 DEF IsHeld, HeldIn
  <1>7. PICK popped : popped = [stack EXCEPT ![th] = Tail(stack[th])]
    OBVIOUS
  <1>8. CASE stack' = popped
    <2>1. Replace(th, <<>>)
      <3>1. stack[th] \in Seq(Frames)
        BY <1>2 DEF TypeOK
      <3>2. <<>> \o Tail(stack[th]) = Tail(stack[th])
        BY <1>2, <3>1
      <3> QED BY <1>7, <1>8, <3>2 DEF Replace
    <2>2. <<>> \in Seq(Frames) /\ DOMAIN <<>> = {} /\ Swaps(th, <<>>)
      BY <1>2, <2>1, NoFrames
    <2>3. \A y \in ActiveObjects : \A x \in Threads : y \in held'[x] => IsHeld(y)
      BY <1>2, <1>5, ReachesHeld
    <2>4. /\ Head(stack[th]).at \notin {"run", "user", "construct"} /\ held' \in [Threads -> SUBSET ActiveObjects]
          /\ object \in [ActiveObjects ->
                  [made : BOOLEAN, m_hasInitialize : BOOLEAN, m_hasFinalize : BOOLEAN,
                   m_isInitialized : BOOLEAN, m_onDestructed : BOOLEAN]]
          /\ notified' \subseteq ActiveObjects
      BY <1>2, <1>4, <1>5 DEF TypeOK
    <2> QED BY <1>5, <2>2, <2>3, <2>4, SteadyStep
  <1>9. CASE ~HeldIn(popped, z) /\ stack' = [stack EXCEPT ![th] = <<Frame("delete", z)>> \o Tail(@)]
    <2>1. PICK p : p = <<Frame("delete", z)>>
      OBVIOUS
    <2>2. Frame("delete", z) \in Frames /\ Frame("delete", z).at = "delete" /\ Frame("delete", z).on = z
      BY <1>4, FrameFields
    <2>3. /\ Swaps(th, p) /\ p \in Seq(Frames) /\ (\A C : OnceIn(p, C))
          /\ \A C : In(p, C) <=> Frame("delete", z) \in C
          /\ \A i \in DOMAIN p : p[i] = Frame("delete", z)
      <3>1. Replace(th, p)
        BY <1>9, <2>1 DEF Replace
      <3> QED BY <1>2, <2>1, <2>2, <3>1, SwapFrame
    <2>4. TypeOK'
      BY <1>2, <1>5, <2>3, TypeStep DEF TypeOK, IndInv
    <2>5. FramesFit(th, p)
      BY <1>5, <2>2, <2>3 DEF FramesFit
    <2>6. ASSUME NEW o \in ActiveObjects, o # z PROVE Untouched(th, p, o) /\ ~In(p, ObjectFrames(o))
      BY <1>4, <1>5, <2>2, <2>3, <2>4, <2>6, OtherObject
    <2>7. object[z].made
      BY <1>4, <1>6, KnownMade
    <2>8. ASSUME NEW o \in ActiveObjects PROVE Discreet(p, o)
      BY <1>5, <2>6, <2>7 DEF Discreet
    <2>9. ~IsHeld(z)'
      <3>1. popped \in [Threads -> Seq(Frames)] /\ popped[th] = Tail(stack[th])
            /\ \A x \in Threads : x # th => popped[x] = stack[x]
        BY <1>2, <1>7 DEF TypeOK
      <3>2. /\ stack'[th] = p \o popped[th] /\ \A x \in Threads : x # th => stack'[x] = popped[x]
        BY <1>2, <1>9, <2>1, <3>1 DEF TypeOK
      <3>3. OccursIn(stack', HoldFrames(z)) => OccursIn(popped, HoldFrames(z)) \/ In(p, HoldFrames(z))
        BY <2>3, <3>1, <3>2, Pushed
      <3>4. ~In(p, HoldFrames(z))
        BY <1>4, <2>3, ObjectFrame
      <3>5. OccursIn(popped, HoldFrames(z)) => HeldIn(popped, z)
        BY DEF OccursIn, HoldFrames, HeldIn
      <3>6. ~OccursIn(stack', HoldFrames(z))
        BY <1>9, <3>3, <3>4, <3>5
      <3>7. /\ \A x \in Threads : z \notin held'[x]
            /\ \A i \in DOMAIN pending' : ~TaskHolds(pending'[i], z)
        BY <1>5, <1>9 DEF HeldIn
      <3> QED BY <1>4, <2>4, <3>6, <3>7, HeldPartsNext
    <2>10. EndsOnce(z) /\ ~Occurs(EndFrames(z)) /\ z \notin destroyed /\ FinalizeTask(z) \notin Queue!Pending
      BY <1>4, <1>6 DEF IndInv, ObjectInv, EndsOnce, Ending
    <2>11. EndsOnce(z)'
      BY <1>2, <1>4, <1>5, <2>3, <2>9, <2>10, EndsBegun
    <2>12. FinalizedFirst(z)'
      <3>1. Frame("delete", z) \notin FramesOn({"run", "user"}, FinalizeTask(z))
            /\ Frame("delete", z) # Frame("destruct", z)
        BY FrameFields DEF FramesOn
      <3>2. ~In(p, FramesOn({"run", "user"}, FinalizeTask(z))) /\ ~In(p, {Frame("destruct", z)})
        BY <2>3, <3>1
      <3> QED BY <1>2, <1>4, <1>5, <2>3, <3>2, FinalSame DEF IndInv, ObjectInv
    <2>13. InitializedFirst(z)'
      BY <2>9 DEF InitializedFirst
    <2>14. BeingMade(z)'
      <3>1. ~In(p, {Frame("construct", z)})
        BY <1>4, <2>3, ObjectFrame
      <3> QED BY <1>2, <1>4, <1>5, <2>3, <3>1, BeingMadeStep DEF IndInv, ObjectInv
    <2>15. ObjectInv(z)'
      BY <2>11, <2>12, <2>13, <2>14 DEF ObjectInv
    <2> QED BY <1>5, <2>4, <2>5, <2>6, <2>8, <2>15, OneObjectStep
  <1> QED BY <1>1, <1>7, <1>8, <1>9 DEF Release

(* ActiveObjectDeleter hands Finalize to the queue, or destructs. *)
LEMMA DeleteStep ==
  ASSUME IndInv, NEW th \in Threads, Delete(th)
  PROVE  IndInv'
  <1>1. PICK z : z = Top(th)
    OBVIOUS
  <1>2. /\ TypeOK /\ AtTop(th, "delete") /\ stack[th] # <<>>
        /\ object' = object /\ held' = held /\ finalized' = finalized /\ destroyed' = destroyed
        /\ notified' = notified /\ outside' = outside /\ early' = early
    BY DEF Delete, IndInv, AtTop, objectVars, historyVars
  <1>3. Head(stack[th]) = Frame("delete", z) /\ Head(stack[th]) \in Frames
    BY <1>1, <1>2, TopFrame
  <1>4. z \in ActiveObjects /\ Head(stack[th]).at = "delete"
    BY <1>3, FrameFields
  <1>5. /\ Head(stack[th]) \in EndFrames(z) /\ Occurs(EndFrames(z)) /\ object[z].made
        /\ ~IsHeld(z) /\ FinalizeTask(z) \notin Queue!Pending /\ EndsOnce(z) /\ z \notin destroyed
    BY <1>2, <1>3, <1>4, EndBegun
  <1>6. FinalizeTask(z) \in Tasks /\ FinalizeTask(z).kind = "Finalize" /\ FinalizeTask(z).obj = z
    BY <1>4, TaskFields
  <1>7. ASSUME NEW p \in Seq(Frames), Swaps(th, p), [Queue!Next]_queueVars,
               \A C : OnceIn(p, C),
               \A i \in DOMAIN p :
                 \/ p[i] = Frame("destruct", z) /\ ~(object[z].m_hasFinalize /\ object[z].m_isInitialized)
                 \/ i = 1 /\ p[i] = Frame("run", FinalizeTask(z)) /\ th = QueueThread
                    /\ FinalizeTask(z) \in running'
                 \/ p[i] = Frame("cancel", FinalizeTask(z)) /\ FinalizeTask(z) \in doomed',
               FinalizeTask(z) \in fresh' \/ FinalizeTask(z) \notin fresh \/ object[z].m_isInitialized,
               \A t \in Tasks : t \in fresh => t \in fresh' \/ t = FinalizeTask(z),
               Queue!Pending' \subseteq Queue!Pending \cup {FinalizeTask(z)},
               FinalizeTask(z) \in Queue!Pending' => p = <<>>,
               In(p, {Frame("run", FinalizeTask(z))}) => FinalizeTask(z) \in fresh,
               \/ pending' = pending
               \/ accepting /\ \E t \in Tasks : pending' = Append(pending, t)
        PROVE  IndInv'
    <2>1. TypeOK'
      BY <1>2, <1>7, TypeStep DEF TypeOK, IndInv
    <2>2. \A i \in DOMAIN p : \/ p[i].at = "destruct" /\ p[i].on = z
                              \/ /\ p[i].at = "run" /\ p[i].on = FinalizeTask(z) /\ th = QueueThread
                                 /\ i = 1 /\ FinalizeTask(z) \in running'
                              \/ /\ p[i].at = "cancel" /\ p[i].on = FinalizeTask(z)
                                 /\ FinalizeTask(z) \in doomed'
      BY <1>7, FrameFields
    <2>3. FramesFit(th, p)
      BY <1>2, <1>7, <2>2 DEF FramesFit
    <2>4. ASSUME NEW o \in ActiveObjects, o # z PROVE Untouched(th, p, o) /\ ~In(p, ObjectFrames(o))
      BY <1>2, <1>4, <1>7, <2>1, <2>2, <2>4, OtherObject
    <2>5. ASSUME NEW o \in ActiveObjects PROVE Discreet(p, o)
      BY <1>2, <1>5, <1>6, <1>7, <2>4 DEF Discreet
    <2>6. ~IsHeld(z)'
      <3>1. ~In(p, HoldFrames(z))
        <4>1. /\ Frame("destruct", z) \notin HoldFrames(z)
              /\ Frame("run", FinalizeTask(z)) \notin HoldFrames(z)
              /\ Frame("cancel", FinalizeTask(z)) \notin HoldFrames(z)
          BY <1>4, <1>6, FrameSets
        <4> QED BY <1>7, <4>1 DEF In
      <3>2. \A x \in Threads : z \in held'[x] => IsHeld(z)
        BY <1>2 DEF IsHeld, HeldIn
      <3>3. \A i \in DOMAIN pending' : TaskHolds(pending'[i], z) => IsHeld(z)
        <4>1. \A i \in DOMAIN pending' : pending'[i] \in Queue!Pending'
          BY DEF Queue!Pending
        <4>2. \A t \in Queue!Pending : TaskHolds(t, z) => IsHeld(z)
          BY DEF Queue!Pending, IsHeld, HeldIn
        <4> QED BY <1>6, <1>7, <4>1, <4>2 DEF TaskHolds
      <3> QED BY <1>2, <1>4, <1>5, <1>7, <2>1, <3>1, <3>2, <3>3, HeldStep
    <2>7. EndsOnce(z)'
      <3>1. FinalizeTask(z) \in Queue!Pending' => ~In(p, EndFrames(z))
        BY <1>7 DEF In
      <3> QED BY <1>2, <1>4, <1>5, <1>7, <2>6, <3>1, EndsMoved
    <2>8. FinalizedFirst(z)'
      <3>1. In(p, FramesOn({"run", "user"}, FinalizeTask(z))) => z \notin finalized
        <4>1. In(p, FramesOn({"run", "user"}, FinalizeTask(z))) => In(p, {Frame("run", FinalizeTask(z))})
          <5>1. /\ Frame("destruct", z) \notin FramesOn({"run", "user"}, FinalizeTask(z))
                /\ Frame("cancel", FinalizeTask(z)) \notin FramesOn({"run", "user"}, FinalizeTask(z))
            BY FrameFields DEF FramesOn
          <5> QED BY <1>7, <5>1 DEF In
        <4> QED BY <1>4, <1>7, <4>1, FinalizeOnStack
      <3>2. In(p, {Frame("destruct", z)}) => ~(object[z].m_hasFinalize /\ object[z].m_isInitialized)
        <4>1. /\ Frame("run", FinalizeTask(z)) # Frame("destruct", z)
              /\ Frame("cancel", FinalizeTask(z)) # Frame("destruct", z)
          BY FrameFields
        <4> QED BY <1>7, <4>1 DEF In
      <3>3. running \cup finished \subseteq (running \cup finished)' /\ canceled \subseteq canceled'
        BY <1>2, <1>7, QueueGrows DEF IndInv
      <3> QED BY <1>2, <1>4, <1>7, <3>1, <3>2, <3>3, FinalSame DEF IndInv, ObjectInv
    <2>9. InitializedFirst(z)'
      BY <2>6 DEF InitializedFirst
    <2>10. BeingMade(z)'
      <3>1. ~In(p, {Frame("construct", z)})
        <4>1. /\ Frame("destruct", z) # Frame("construct", z)
              /\ Frame("run", FinalizeTask(z)) # Frame("construct", z)
              /\ Frame("cancel", FinalizeTask(z)) # Frame("construct", z)
          BY FrameFields
        <4> QED BY <1>7, <4>1 DEF In
      <3>2. InitializeTask(z) # FinalizeTask(z) /\ FinalizeTask(z) \notin Callbacks(z)
            /\ InitializeTask(z) \in Tasks
        BY <1>4, <1>6, TaskFields DEF Callbacks
      <3>3. /\ InitializeTask(z) \in fresh => InitializeTask(z) \in fresh'
            /\ Callbacks(z) \cap fresh \subseteq fresh'
        BY <1>7, <3>2 DEF Callbacks
      <3> QED BY <1>2, <1>4, <1>7, <3>1, <3>3, BeingMadeStep DEF IndInv, ObjectInv
    <2>11. ObjectInv(z)'
      BY <2>7, <2>8, <2>9, <2>10 DEF ObjectInv
    <2> QED BY <1>7, <2>1, <2>3, <2>4, <2>5, <2>11, OneObjectStep
  <1>8. CASE ~(object[z].m_isInitialized /\ object[z].m_hasFinalize)
    <2>1. Replace(th, <<Frame("destruct", z)>>) /\ UNCHANGED queueVars
      BY <1>1, <1>8 DEF Delete
    <2>2. Frame("destruct", z) \in Frames /\ Frame("run", FinalizeTask(z)) # Frame("destruct", z)
      BY <1>4, FrameFields
    <2>3. PICK p : p = <<Frame("destruct", z)>>
      OBVIOUS
    <2>4. /\ Swaps(th, p) /\ p \in Seq(Frames) /\ (\A C : OnceIn(p, C))
          /\ \A C : In(p, C) <=> Frame("destruct", z) \in C
          /\ \A i \in DOMAIN p : p[i] = Frame("destruct", z)
      BY <1>2, <2>1, <2>2, <2>3, SwapFrame
    <2>5. [Queue!Next]_queueVars /\ pending' = pending /\ fresh' = fresh /\ Queue!Pending' = Queue!Pending
      BY <2>1 DEF queueVars, Queue!Pending
    <2> QED BY <1>5, <1>7, <1>8, <2>2, <2>4, <2>5
  <1>9. CASE object[z].m_isInitialized /\ object[z].m_hasFinalize
    <2>1. InvokeElsePost(th, FinalizeTask(z), Tail(stack[th]))
      BY <1>1, <1>9 DEF Delete
    <2>2. Tail(stack[th]) \in Seq(Frames)
      BY <1>2 DEF TypeOK
    <2>3. PICK p : /\ Invoked(th, FinalizeTask(z), p)
                   /\ stack' = [stack EXCEPT ![th] = p \o Tail(stack[th])]
      BY <1>2, <1>6, <2>1, <2>2, InvokedFrames
    <2>4. /\ p \in Seq(Frames)
          /\ [Queue!Next]_queueVars
          /\ FinalizeTask(z) \in fresh /\ fresh' = fresh \ {FinalizeTask(z)}
          /\ pending' = pending \/ (accepting /\ pending' = Append(pending, FinalizeTask(z)))
          /\ \A i \in DOMAIN p :
               \/ i = 1 /\ p[i] = Frame("run", FinalizeTask(z)) /\ th = QueueThread
                  /\ FinalizeTask(z) \in running'
               \/ i = 1 /\ p[i] = Frame("cancel", FinalizeTask(z)) /\ FinalizeTask(z) \in doomed'
                  /\ th # QueueThread
          /\ \A C : OnceIn(p, C)
          /\ Queue!Pending' \subseteq Queue!Pending \cup {FinalizeTask(z)}
          /\ FinalizeTask(z) \in Queue!Pending' => p = <<>>
      BY <1>6, <2>3, InvokedFacts
    <2>5. Swaps(th, p)
      BY <1>2, <2>3 DEF Swaps
    <2> QED BY <1>6, <1>7, <1>9, <2>4, <2>5
  <1> QED BY <1>8, <1>9

-----------------------------------------------------------------------------
(* Nobody has anything to do with an object that is about to be made. *)
LEMMA NobodyKnows ==
  ASSUME IndInv, NEW z \in ActiveObjects, ~object[z].made
  PROVE  /\ ~Occurs(EndFrames(z)) /\ ~Occurs(LateFrames(z, early))
         /\ ~Occurs({Frame("destruct", z)}) /\ ~Occurs({Frame("construct", z)})
         /\ z \notin destroyed \cup finalized /\ ~IsHeld(z) /\ EndsOnce(z)
         /\ ~object[z].m_isInitialized
         /\ \A t \in Tasks : t.obj = z => t \in fresh /\ t \notin Queue!Pending
  <1>1. /\ \A t \in Tasks : t.obj = z => t \in fresh
        /\ ~Occurs(ObjectFrames(z)) /\ ~object[z].m_isInitialized
        /\ z \notin destroyed \cup finalized
    BY DEF IndInv, Unmade
  <1>2. /\ ~IsHeld(z)
        /\ \A t \in Tasks : t.obj = z => ~Occurs(RunFrames(t)) /\ ~Occurs({Frame("cancel", t)})
    BY KnownMade
  <1>3. FinalizeTask(z) \in Tasks /\ FinalizeTask(z).obj = z
    BY TaskFields
  <1>4. ASSUME NEW x \in Threads, NEW i \in DOMAIN stack[x]
        PROVE  /\ stack[x][i] \notin ObjectFrames(z)
               /\ \A t \in Tasks : t.obj = z => stack[x][i] \notin RunFrames(t)
                                                /\ stack[x][i] # Frame("cancel", t)
    BY <1>1, <1>2 DEF Occurs, OccursIn
  <1>5. ~Occurs(EndFrames(z))
    <2> SUFFICES ASSUME NEW x \in Threads, NEW i \in DOMAIN stack[x], stack[x][i] \in EndFrames(z)
                 PROVE  FALSE
      BY DEF Occurs, OccursIn
    <2>1. \/ stack[x][i] \in ObjectFrames(z) \/ stack[x][i] \in RunFrames(FinalizeTask(z))
          \/ stack[x][i] = Frame("cancel", FinalizeTask(z))
      BY DEF EndFrames, ObjectFrames, RunFrames, FramesOn
    <2> QED BY <1>3, <1>4, <2>1
  <1>6. ~Occurs(LateFrames(z, early))
    <2> SUFFICES ASSUME NEW x \in Threads, NEW i \in DOMAIN stack[x],
                        stack[x][i] \in LateFrames(z, early)
                 PROVE  FALSE
      BY DEF Occurs, OccursIn
    <2>1. PICK t \in Callbacks(z) : stack[x][i] \in FramesOn({"run", "user"}, t)
      BY DEF LateFrames
    <2>2. t \in Tasks /\ t.obj = z /\ stack[x][i] \in RunFrames(t)
      BY <2>1 DEF Callbacks, RunFrames, FramesOn
    <2> QED BY <1>4, <2>2
  <1>7. ~Occurs({Frame("destruct", z)}) /\ ~Occurs({Frame("construct", z)})
    <2>1. Frame("destruct", z) \in ObjectFrames(z) /\ Frame("construct", z) \in ObjectFrames(z)
      BY FrameSets
    <2> QED BY <1>4, <2>1 DEF Occurs, OccursIn
  <1>8. \A t \in Tasks : t.obj = z => t \in fresh /\ t \notin Queue!Pending
    BY <1>1 DEF IndInv, Queue!OnePlace
  <1> QED BY <1>1, <1>2, <1>5, <1>6, <1>7, <1>8 DEF IndInv, ObjectInv

(* Make calls the constructor of an object nobody knows.                   *)
LEMMA MakeStep ==
  ASSUME IndInv, NEW th \in Threads, NEW z \in ActiveObjects, Make(th, z)
  PROVE  IndInv'
  <1>1. PICK p : p = <<Frame("construct", z)>>
    OBVIOUS
  <1>2. /\ TypeOK /\ InUserCode(th) /\ ~object[z].made
        /\ object' = [object EXCEPT ![z].made = TRUE]
        /\ outside' = IF th = QueueThread THEN outside ELSE outside \cup {z}
        /\ Push(th, p)
        /\ UNCHANGED <<queueVars, held, finalized, destroyed, notified, early>>
    BY <1>1 DEF Make, IndInv
  <1>3. /\ object' \in [ActiveObjects -> [made : BOOLEAN, m_hasInitialize : BOOLEAN,
                                        m_hasFinalize : BOOLEAN, m_isInitialized : BOOLEAN,
                                        m_onDestructed : BOOLEAN]]
        /\ object'[z].made /\ object'[z].m_isInitialized = object[z].m_isInitialized
        /\ \A o \in ActiveObjects : o # z => object'[o] = object[o]
    BY <1>2 DEF TypeOK
  <1>4. /\ ~Occurs(EndFrames(z)) /\ ~Occurs(LateFrames(z, early))
        /\ ~Occurs({Frame("destruct", z)}) /\ ~Occurs({Frame("construct", z)})
        /\ z \notin destroyed \cup finalized /\ ~IsHeld(z) /\ EndsOnce(z)
        /\ ~object[z].m_isInitialized
        /\ \A t \in Tasks : t.obj = z => t \in fresh /\ t \notin Queue!Pending
    BY <1>2, NobodyKnows
  <1>5. /\ [Queue!Next]_queueVars /\ pending' = pending /\ fresh' = fresh
        /\ Queue!Pending' = Queue!Pending /\ running' = running /\ finished' = finished
        /\ held' = held /\ finalized' = finalized /\ destroyed' = destroyed /\ notified' = notified
        /\ early' = early
    BY <1>2 DEF queueVars, Queue!Pending
  <1>6. Frame("construct", z) \in Frames /\ Frame("construct", z).at = "construct"
        /\ Frame("construct", z).on = z
    BY FrameFields
  <1>7. /\ p \in Seq(Frames)
        /\ \A C : OnceIn(p, C) /\ (In(p, C) <=> Frame("construct", z) \in C)
        /\ \A i \in DOMAIN p : p[i] = Frame("construct", z)
    <2>1. \A C : p \in Seq(Frames) /\ OnceIn(p, C) /\ (In(p, C) <=> Frame("construct", z) \in C)
      BY <1>1, <1>6, ShortSequences
    <2>2. \A i \in DOMAIN p : p[i] = Frame("construct", z)
      BY <1>1
    <2> QED BY <2>1, <2>2
  <1>8. Pushes(th, p) /\ ~Swaps(th, p)
    <2>1. Pushes(th, p)
      BY <1>2 DEF Push, Pushes
    <2> QED BY <1>2, <1>7, <2>1, PushOrSwap
  <1>9. TypeOK'
    <2>1. (finalized \cup destroyed \cup notified \cup outside)' \subseteq ActiveObjects
          /\ held' \in [Threads -> SUBSET ActiveObjects] /\ early' \subseteq Tasks
      BY <1>2, <1>5 DEF TypeOK
    <2> QED BY <1>2, <1>3, <1>5, <1>7, <1>8, <2>1, TypeStep DEF IndInv
  <1>10. FramesFit(th, p)
    <2>1. stack[th] = <<>> \/ Head(stack[th]).at # "run"
      BY <1>2, UserCode
    <2>2. outside \subseteq outside' /\ (th = QueueThread \/ z \in outside')
      BY <1>2
    <2> QED BY <1>5, <1>6, <1>7, <1>8, <2>1, <2>2 DEF FramesFit
  <1>11. ASSUME NEW o \in ActiveObjects
         PROVE  /\ ~In(p, EndFrames(o)) /\ ~In(p, LateFrames(o, early'))
                /\ ~In(p, {Frame("destruct", o)})
                /\ o # z => /\ ~In(p, {Frame("construct", o)}) /\ ~In(p, ObjectFrames(o))
                            /\ ~In(p, HoldFrames(o))
    <2>1. Frame("construct", z) \notin EndFrames(o) /\ Frame("construct", z) \notin LateFrames(o, early')
      BY FrameSets
    <2>2. /\ Frame("construct", z) # Frame("destruct", o)
          /\ o # z => Frame("construct", z) # Frame("construct", o)
      BY FrameFields
    <2>3. o # z => Frame("construct", z) \notin ObjectFrames(o)
                   /\ Frame("construct", z) \notin HoldFrames(o)
      BY FrameSets
    <2> QED BY <1>7, <2>1, <2>2, <2>3
  <1>12. ASSUME NEW o \in ActiveObjects PROVE Discreet(p, o)
    BY <1>3, <1>5, <1>11 DEF Discreet
  <1>13. ASSUME NEW o \in ActiveObjects, o # z PROVE Untouched(th, p, o)
    <2>1. /\ \A x \in Threads : o \in held'[x] => IsHeld(o)
          /\ \A i \in DOMAIN pending' : TaskHolds(pending'[i], o) => IsHeld(o)
      BY <1>5 DEF IsHeld, HeldIn
    <2>2. IsHeld(o)' => IsHeld(o)
      BY <1>2, <1>7, <1>8, <1>9, <1>11, <1>13, <2>1, HeldStep
    <2> QED BY <1>3, <1>5, <1>8, <1>11, <1>13, <2>2 DEF Untouched
  <1>14. FinalizeTask(z) \in fresh' /\ FinalizeTask(z) \notin Queue!Pending'
         /\ InitializeTask(z) \in fresh' /\ Callbacks(z) \subseteq fresh'
    BY <1>4, <1>5, TaskFields DEF Callbacks
  <1>15. EndsOnce(z)'
    BY <1>2, <1>4, <1>5, <1>7, <1>8, <1>11, <1>14, EndsBegun
  <1>16. FinalizedFirst(z)'
    <2>1. OccursIn(stack', {Frame("destruct", z)}) =>
            OccursIn(stack, {Frame("destruct", z)}) \/ In(p, {Frame("destruct", z)})
      BY <1>2, <1>7, <1>8, StackStep
    <2>2. ~OccursIn(stack', {Frame("destruct", z)})
      BY <1>4, <1>11, <2>1 DEF Occurs
    <2> QED BY <1>4, <1>5, <1>14, <2>2 DEF FinalizedFirst, Occurs
  <1>17. /\ AtMostOnceIn(stack', {Frame("construct", z)})
         /\ OccursIn(stack', {Frame("construct", z)})
    <2> DEFINE C == {Frame("construct", z)}
    <2>1. ~OccursIn(stack, C) /\ AtMostOnceIn(stack, C)
      BY <1>4 DEF Occurs, OccursIn, AtMostOnceIn
    <2>2. In(p, C) /\ OnceIn(p, C)
      BY <1>7
    <2> HIDE DEF C
    <2>3. AtMostOnceIn(stack', C) /\ OccursIn(stack', C)
      BY <1>2, <1>7, <1>8, <2>1, <2>2, StackStep
    <2> QED BY <2>3 DEF C
  <1>18. BeingMade(z)'
    BY <1>3, <1>4, <1>14, <1>17 DEF BeingMade, Occurs
  <1>19. InitializedFirst(z)'
    <2>1. ~OccursIn(stack', LateFrames(z, early'))
      BY <1>2, <1>4, <1>5, <1>7, <1>8, <1>11, LateStep
    <2> QED BY <1>17, <2>1 DEF InitializedFirst, NotCalledYet, Occurs
  <1>20. ObjectInv(z)'
    BY <1>15, <1>16, <1>18, <1>19 DEF ObjectInv
  <1> QED BY <1>5, <1>9, <1>10, <1>12, <1>13, <1>20, OneObjectStep

(* An object under construction: nothing of its end has begun, and none of *)
(* its tasks has gone to the queue but early callbacks.                    *)
LEMMA UnderConstruction ==
  ASSUME IndInv, NEW th \in Threads, NEW z \in ActiveObjects, stack[th] # <<>>,
         Head(stack[th]) = Frame("construct", z)
  PROVE  /\ IsHeld(z) /\ object[z].made /\ ObjectInv(z)
         /\ ~Occurs(EndFrames(z)) /\ ~Occurs({Frame("destruct", z)})
         /\ z \notin destroyed \cup finalized
         /\ FinalizeTask(z) \in fresh /\ FinalizeTask(z) \notin Queue!Pending
         /\ InitializeTask(z) \in fresh /\ ~object[z].m_isInitialized
         /\ ~Occurs(LateFrames(z, early)) /\ Queue!Pending \cap Callbacks(z) \subseteq early
         /\ th = QueueThread \/ z \in outside
  <1>1. TypeOK /\ Queue!OnePlace /\ ObjectInv(z)
    BY DEF IndInv
  <1>2. /\ Head(stack[th]) = stack[th][1] /\ 1 \in DOMAIN stack[th]
        /\ \A C : Frame("construct", z) \in C => Occurs(C)
    BY <1>1, TopFrame
  <1>3. IsHeld(z)
    <2>1. FrameHolds(stack[th][1], z)
      BY <1>2, FrameFields DEF FrameHolds
    <2> QED BY <1>2, <2>1 DEF IsHeld, HeldIn
  <1>4. object[z].made
    BY <1>3, KnownMade
  <1>5. ~Occurs(EndFrames(z)) /\ z \notin destroyed /\ FinalizeTask(z) \notin Queue!Pending
    BY <1>1, <1>3 DEF ObjectInv, EndsOnce, Ending
  <1>6. ~Occurs({Frame("destruct", z)})
    <2>1. Frame("destruct", z) \in EndFrames(z)
      BY FrameSets
    <2> QED BY <1>5, <2>1 DEF Occurs, OccursIn
  <1>7. /\ ~object[z].m_isInitialized /\ InitializeTask(z) \in fresh
        /\ Callbacks(z) \subseteq fresh \cup early
    BY <1>1, <1>2 DEF ObjectInv, BeingMade
  <1>8. FinalizeTask(z) \in fresh /\ z \notin finalized
    BY <1>1, <1>7 DEF ObjectInv, FinalizedFirst, Queue!OnePlace
  <1>9. ~Occurs(LateFrames(z, early))
    <2> SUFFICES ASSUME NEW x \in Threads, NEW i \in DOMAIN stack[x],
                        stack[x][i] \in LateFrames(z, early)
                 PROVE  FALSE
      BY DEF Occurs, OccursIn
    <2>1. PICK t \in Callbacks(z) \ early : stack[x][i] \in FramesOn({"run", "user"}, t)
      BY DEF LateFrames
    <2>2. t \in Tasks /\ t \in fresh /\ stack[x][i] \in RunFrames(t)
      BY <1>7, <2>1 DEF Callbacks, RunFrames, FramesOn
    <2>3. t \in running \cup finished
      BY <2>2 DEF IndInv, TasksPlaced, Occurs, OccursIn
    <2> QED BY <1>1, <2>2, <2>3 DEF Queue!OnePlace
  <1>10. Queue!Pending \cap Callbacks(z) \subseteq early
    BY <1>1, <1>7 DEF Queue!OnePlace
  <1>11. th = QueueThread \/ z \in outside
    BY <1>2, FrameFields DEF IndInv, RunsInQueue
  <1> QED BY <1>1, <1>3, <1>4, <1>5, <1>6, <1>7, <1>8, <1>9, <1>10, <1>11

(* The rest of the make policy hands Initialize to the queue, ahead of any *)
(* call but the early ones, or the object has none.                        *)
LEMMA ConstructorReturnsStep ==
  ASSUME IndInv, NEW th \in Threads, ConstructorReturns(th)
  PROVE  IndInv'
  <1>1. PICK z : z = Top(th)
    OBVIOUS
  <1>2. PICK hasInitialize \in BOOLEAN, hasFinalize \in BOOLEAN :
          /\ object' = [object EXCEPT ![z].m_hasInitialize = hasInitialize,
                                      ![z].m_hasFinalize = hasFinalize,
                                      ![z].m_isInitialized = ~hasInitialize]
          /\ IF hasInitialize
             THEN InvokeElsePost(th, InitializeTask(z), <<Frame("make", z)>> \o Tail(stack[th]))
             ELSE /\ stack' = [stack EXCEPT ![th] = <<Frame("make", z)>> \o Tail(stack[th])]
                  /\ UNCHANGED queueVars
    BY <1>1 DEF ConstructorReturns
  <1>3. /\ TypeOK /\ AtTop(th, "construct") /\ stack[th] # <<>>
        /\ held' = held /\ finalized' = finalized /\ destroyed' = destroyed /\ notified' = notified
        /\ outside' = outside /\ early' = early
    BY DEF ConstructorReturns, IndInv, AtTop, historyVars
  <1>4. /\ Head(stack[th]) = Frame("construct", z) /\ z \in ActiveObjects
        /\ Frame("make", z) \in Frames /\ Tail(stack[th]) \in Seq(Frames)
    <2>1. Head(stack[th]) = Frame("construct", z) /\ Head(stack[th]) \in Frames
      BY <1>1, <1>3, TopFrame
    <2>2. z \in ActiveObjects
      BY <2>1, FrameFields
    <2> QED BY <1>3, <2>1, <2>2, FrameFields DEF TypeOK
  <1>5. /\ object' \in [ActiveObjects -> [made : BOOLEAN, m_hasInitialize : BOOLEAN,
                                        m_hasFinalize : BOOLEAN, m_isInitialized : BOOLEAN,
                                        m_onDestructed : BOOLEAN]]
        /\ object'[z].made = object[z].made
        /\ object'[z].m_isInitialized = ~hasInitialize
        /\ \A o \in ActiveObjects : o # z => object'[o] = object[o]
    <2>1. object \in [ActiveObjects -> [made : BOOLEAN, m_hasInitialize : BOOLEAN,
                                       m_hasFinalize : BOOLEAN, m_isInitialized : BOOLEAN,
                                       m_onDestructed : BOOLEAN]]
      BY <1>3 DEF TypeOK
    <2>2. PICK uninitialized \in BOOLEAN : uninitialized = ~hasInitialize
      OBVIOUS
    <2>3. object' = [object EXCEPT ![z] = [object[z] EXCEPT
            !.m_hasInitialize = hasInitialize, !.m_hasFinalize = hasFinalize,
            !.m_isInitialized = uninitialized]]
      BY <1>2, <1>4, <2>1, <2>2
    <2> QED BY <1>4, <2>1, <2>2, <2>3
  <1>6. /\ IsHeld(z) /\ object[z].made /\ ObjectInv(z)
        /\ ~Occurs(EndFrames(z)) /\ ~Occurs({Frame("destruct", z)})
        /\ z \notin destroyed \cup finalized
        /\ FinalizeTask(z) \in fresh /\ FinalizeTask(z) \notin Queue!Pending
        /\ InitializeTask(z) \in fresh /\ ~object[z].m_isInitialized
        /\ ~Occurs(LateFrames(z, early)) /\ Queue!Pending \cap Callbacks(z) \subseteq early
        /\ th = QueueThread \/ z \in outside
    BY <1>3, <1>4, UnderConstruction
  <1>7. /\ InitializeTask(z) \in Tasks /\ InitializeTask(z).kind = "Initialize"
        /\ InitializeTask(z).obj = z
        /\ \A o \in ActiveObjects : FinalizeTask(o) # InitializeTask(z) /\ FinalizeTask(o) \in Tasks
        /\ \A o \in ActiveObjects : o # z => InitializeTask(o) # InitializeTask(z)
        /\ \A o \in ActiveObjects : InitializeTask(z) \notin Callbacks(o)
    BY <1>4, TaskFields DEF InitializeTask, FinalizeTask, Callbacks
  <1>8. ASSUME NEW p \in Seq(Frames), Swaps(th, p), [Queue!Next]_queueVars,
               \A i \in DOMAIN p :
                 \/ p[i] = Frame("make", z)
                 \/ i = 1 /\ p[i] = Frame("run", InitializeTask(z)) /\ th = QueueThread
                    /\ InitializeTask(z) \in running'
                 \/ p[i] = Frame("cancel", InitializeTask(z)) /\ InitializeTask(z) \in doomed',
               \A t \in Tasks : t \in fresh => t \in fresh' \/ t = InitializeTask(z),
               Queue!Pending' \subseteq Queue!Pending \cup {InitializeTask(z)},
               \/ pending' = pending
               \/ accepting /\ \E t \in Tasks : pending' = Append(pending, t),
               \/ object'[z].m_isInitialized
               \/ In(p, {Frame("run", InitializeTask(z))})
               \/ th # QueueThread /\ pending' = Append(pending, InitializeTask(z))
               \/ th # QueueThread /\ InitializeTask(z) \in doomed' /\ ~accepting'
        PROVE  IndInv'
    <2>1. TypeOK'
      <3>1. held' \in [Threads -> SUBSET ActiveObjects] /\ early' \subseteq Tasks
            /\ (finalized \cup destroyed \cup notified \cup outside)' \subseteq ActiveObjects
        BY <1>3 DEF TypeOK
      <3> QED BY <1>3, <1>5, <1>8, <3>1, TypeStep DEF IndInv
    <2>2. FramesFit(th, p)
      BY <1>3, <1>8, FrameFields DEF FramesFit
    <2>3. ASSUME NEW o \in ActiveObjects, NEW i \in DOMAIN p
          PROVE  /\ p[i] \notin EndFrames(o) /\ p[i] \notin LateFrames(o, early')
                 /\ p[i] \in ObjectFrames(o) \cup HoldFrames(o) => o = z
                 /\ p[i] # Frame("destruct", o) /\ p[i] # Frame("construct", o)
      <3>1. PICK at, x : /\ p[i] = Frame(at, x)
                         /\ \/ at = "make" /\ x = z
                            \/ at \in {"run", "cancel"} /\ x = InitializeTask(z)
        BY <1>8, <2>3
      <3>2. Frame(at, x) \notin EndFrames(o) /\ (Frame(at, x) \in ObjectFrames(o) => o = z)
        BY <1>7, <3>1, FrameSets
      <3>3. Frame(at, x) \notin LateFrames(o, early')
        BY <1>7, <3>1, FrameSets
      <3>4. Frame(at, x) \in HoldFrames(o) => o = z
        BY <1>7, <3>1, FrameSets
      <3>5. Frame(at, x) # Frame("destruct", o) /\ Frame(at, x) # Frame("construct", o)
        BY <3>1, FrameFields
      <3> QED BY <3>1, <3>2, <3>3, <3>4, <3>5
    <2>4. ASSUME NEW o \in ActiveObjects
          PROVE  /\ ~In(p, EndFrames(o)) /\ ~In(p, LateFrames(o, early')) /\ ~In(p, {Frame("destruct", o)})
                 /\ ~In(p, {Frame("construct", o)})
                 /\ o # z => ~In(p, ObjectFrames(o)) /\ ~In(p, HoldFrames(o))
      BY <2>3 DEF In
    <2>5. ASSUME NEW o \in ActiveObjects PROVE Discreet(p, o)
      BY <1>3, <1>5, <1>6, <1>7, <1>8, <2>4 DEF Discreet
    <2>6. ASSUME NEW o \in ActiveObjects, o # z PROVE Untouched(th, p, o)
      <3>1. \A x \in Threads : o \in held'[x] => IsHeld(o)
        BY <1>3 DEF IsHeld, HeldIn
      <3>2. \A i \in DOMAIN pending' : TaskHolds(pending'[i], o) => IsHeld(o)
        <4>1. \A i \in DOMAIN pending' : pending'[i] \in Queue!Pending'
          BY DEF Queue!Pending
        <4>2. \A t \in Queue!Pending : TaskHolds(t, o) => IsHeld(o)
          BY DEF Queue!Pending, IsHeld, HeldIn
        <4> QED BY <1>7, <1>8, <4>1, <4>2 DEF TaskHolds
      <3>3. IsHeld(o)' => IsHeld(o)
        BY <1>3, <1>8, <2>1, <2>4, <2>6, <3>1, <3>2, HeldStep
      <3>4. /\ FinalizeTask(o) \in fresh => FinalizeTask(o) \in fresh'
            /\ InitializeTask(o) \in fresh => InitializeTask(o) \in fresh'
            /\ Callbacks(o) \cap fresh \subseteq fresh'
        BY <1>7, <1>8, <2>6, TaskFields DEF Callbacks
      <3>5. FinalizeTask(o) \in Queue!Pending' => FinalizeTask(o) \in Queue!Pending
        BY <1>7, <1>8
      <3>6. /\ Head(stack[th]) \notin FramesOn({"run", "user"}, InitializeTask(o))
            /\ Head(stack[th]) # Frame("construct", o)
        BY <1>4, <2>6, FrameFields DEF FramesOn
      <3> QED BY <1>3, <1>5, <1>8, <2>4, <2>6, <3>3, <3>4, <3>5, <3>6 DEF Untouched
    <2>7. EndsOnce(z)'
      BY <1>3, <1>4, <1>6, <1>7, <1>8, <2>4, EndsSame DEF ObjectInv
    <2>8. FinalizedFirst(z)'
      <3>1. OccursIn(stack', {Frame("destruct", z)}) =>
              OccursIn(stack, {Frame("destruct", z)}) \/ In(p, {Frame("destruct", z)})
        BY <1>3, <1>8, StackStep
      <3>2. ~OccursIn(stack', {Frame("destruct", z)}) /\ FinalizeTask(z) \in fresh'
        BY <1>4, <1>6, <1>7, <1>8, <2>4, <3>1 DEF Occurs
      <3> QED BY <1>3, <1>6, <3>2 DEF FinalizedFirst, Occurs
    <2>9. BeingMade(z)'
      <3> DEFINE C == {Frame("construct", z)}
      <3>1. AtMostOnceIn(stack, C) /\ Head(stack[th]) \in C /\ ~In(p, C)
        BY <1>4, <1>6, <2>4 DEF ObjectInv, BeingMade
      <3> HIDE DEF C
      <3>2. ~OccursIn(stack', C)
        BY <1>3, <1>8, <3>1, StackStep
      <3>3. AtMostOnceIn(stack', C)
        BY <3>2 DEF OccursIn, AtMostOnceIn
      <3> QED BY <3>2, <3>3 DEF BeingMade, Occurs, C
    <2>10. InitializedFirst(z)'
      <3>1. ~OccursIn(stack', LateFrames(z, early'))
        BY <1>3, <1>4, <1>6, <1>8, <2>4, LateStep
      <3>2. CASE object'[z].m_isInitialized
        BY <3>2 DEF InitializedFirst
      <3>3. CASE In(p, {Frame("run", InitializeTask(z))})
        <4>1. OccursIn(stack', {Frame("run", InitializeTask(z))})
          BY <1>3, <1>8, <3>3, StackStep
        <4> QED BY <3>1, <4>1 DEF InitializedFirst, NotCalledYet, Occurs
      <3>4. CASE th # QueueThread /\ pending' = Append(pending, InitializeTask(z))
        <4> DEFINE s == Append(pending, InitializeTask(z))
                   k == Len(pending) + 1
        <4>1. pending \in Seq(Tasks)
          BY <1>3 DEF TypeOK
        <4>2. /\ k \in DOMAIN s /\ s[k] = InitializeTask(z)
              /\ \A i \in DOMAIN s : i = k \/ (i \in DOMAIN pending /\ s[i] = pending[i])
          BY <1>7, <4>1
        <4>3. pending' = s
          BY <3>4
        <4> HIDE DEF s, k
        <4>4. \A i \in DOMAIN s : s[i] \notin Callbacks(z) \ early'
          BY <1>3, <1>4, <1>6, <1>7, <4>2 DEF Queue!Pending
        <4>5. InitializeAhead(z)'
          BY <1>3, <1>6, <3>4, <4>2, <4>3, <4>4 DEF InitializeAhead
        <4> QED BY <3>1, <4>5 DEF InitializedFirst, NotCalledYet, Occurs
      <3>5. CASE th # QueueThread /\ InitializeTask(z) \in doomed' /\ ~accepting'
        <4>1. InitializeCanceled(z)'
          BY <1>3, <1>4, <1>6, <1>7, <1>8, <3>5 DEF InitializeCanceled
        <4> QED BY <3>1, <4>1 DEF InitializedFirst, NotCalledYet, Occurs
      <3> QED BY <1>8, <3>2, <3>3, <3>4, <3>5
    <2>11. ObjectInv(z)'
      BY <2>7, <2>8, <2>9, <2>10 DEF ObjectInv
    <2> QED BY <1>8, <2>1, <2>2, <2>5, <2>6, <2>11, OneObjectStep
  <1>9. CASE ~hasInitialize
    <2>1. PICK p : p = <<Frame("make", z)>>
      OBVIOUS
    <2>2. stack' = [stack EXCEPT ![th] = p \o Tail(stack[th])] /\ UNCHANGED queueVars
      BY <1>2, <1>9, <2>1
    <2>3. p \in Seq(Frames) /\ Swaps(th, p) /\ \A i \in DOMAIN p : p[i] = Frame("make", z)
      BY <1>3, <1>4, <2>1, <2>2 DEF Swaps
    <2>4. [Queue!Next]_queueVars /\ pending' = pending /\ fresh' = fresh /\ Queue!Pending' = Queue!Pending
      BY <2>2 DEF queueVars, Queue!Pending
    <2>5. object'[z].m_isInitialized
      BY <1>5, <1>9
    <2> QED BY <1>8, <2>3, <2>4, <2>5
  <1>10. CASE hasInitialize
    <2>1. PICK m : m = <<Frame("make", z)>>
      OBVIOUS
    <2>2. m \in Seq(Frames) /\ \A i \in DOMAIN m : m[i] = Frame("make", z)
      BY <1>4, <2>1
    <2>3. PICK r \in Seq(Frames) : r = m \o Tail(stack[th])
      <3>1. m \o Tail(stack[th]) \in Seq(Frames)
        BY <1>4, <2>2, ConcatFrames
      <3> QED BY <3>1
    <2>4. InvokeElsePost(th, InitializeTask(z), r)
      BY <1>2, <1>10, <2>1, <2>3
    <2>5. PICK q : /\ Invoked(th, InitializeTask(z), q)
                   /\ stack' = [stack EXCEPT ![th] = q \o r]
      BY <1>3, <1>7, <2>4, InvokedFrames
    <2>6. /\ q \in Seq(Frames)
          /\ [Queue!Next]_queueVars
          /\ InitializeTask(z) \in fresh /\ fresh' = fresh \ {InitializeTask(z)}
          /\ pending' = pending \/ (accepting /\ pending' = Append(pending, InitializeTask(z)))
          /\ \A i \in DOMAIN q :
               \/ i = 1 /\ q[i] = Frame("run", InitializeTask(z)) /\ th = QueueThread
                  /\ InitializeTask(z) \in running'
               \/ i = 1 /\ q[i] = Frame("cancel", InitializeTask(z)) /\ InitializeTask(z) \in doomed'
                  /\ th # QueueThread
          /\ Queue!Pending' \subseteq Queue!Pending \cup {InitializeTask(z)}
      BY <1>7, <2>5, InvokedFacts
    <2>7. PICK p \in Seq(Frames) : p = q \o m
      <3>1. q \o m \in Seq(Frames)
        BY <2>2, <2>6, ConcatFrames
      <3> QED BY <3>1
    <2>8. Swaps(th, p)
      <3>1. q \o (m \o Tail(stack[th])) = (q \o m) \o Tail(stack[th])
        <4>1. q \in Seq(Frames) /\ m \in Seq(Frames) /\ Tail(stack[th]) \in Seq(Frames)
          BY <1>4, <2>2, <2>6
        <4> QED BY <4>1, ThreeSequences
      <3> QED BY <1>3, <2>3, <2>5, <2>7, <3>1 DEF Swaps
    <2>9. \A i \in DOMAIN p : p[i] = Frame("make", z) \/ (i \in DOMAIN q /\ p[i] = q[i])
      BY <2>2, <2>6, <2>7, ConcatFrames
    <2>10. \/ In(p, {Frame("run", InitializeTask(z))})
           \/ th # QueueThread /\ pending' = Append(pending, InitializeTask(z))
           \/ th # QueueThread /\ InitializeTask(z) \in doomed' /\ ~accepting'
      <3>1. CASE q = <<Frame("run", InitializeTask(z))>>
        <4>1. 1 \in DOMAIN q /\ q[1] = Frame("run", InitializeTask(z))
          BY <3>1
        <4>2. 1 \in DOMAIN p /\ p[1] = q[1]
          BY <2>2, <2>6, <2>7, <4>1, ConcatFrames
        <4> QED BY <4>1, <4>2 DEF In
      <3>2. CASE th # QueueThread /\ Queue!Accept(InitializeTask(z))
        BY <3>2 DEF Queue!Accept
      <3>3. CASE th # QueueThread /\ Queue!Reject(InitializeTask(z))
        BY <1>3, <3>3 DEF Queue!Reject
      <3> QED BY <2>5, <3>1, <3>2, <3>3 DEF Invoked
    <2>11. /\ \A t \in Tasks : t \in fresh => t \in fresh' \/ t = InitializeTask(z)
           /\ pending' = pending \/ (accepting /\ \E t \in Tasks : pending' = Append(pending, t))
      BY <1>7, <2>6
    <2>12. \A i \in DOMAIN p :
              \/ p[i] = Frame("make", z)
              \/ i = 1 /\ p[i] = Frame("run", InitializeTask(z)) /\ th = QueueThread
                 /\ InitializeTask(z) \in running'
              \/ p[i] = Frame("cancel", InitializeTask(z)) /\ InitializeTask(z) \in doomed'
      BY <2>6, <2>9
    <2> QED BY <1>8, <2>6, <2>8, <2>10, <2>11, <2>12
  <1> QED BY <1>9, <1>10

(* The queue's thread takes the first task of the queue. *)
LEMMA StartTaskStep ==
  ASSUME IndInv, StartTask
  PROVE  IndInv'
  <1>1. PICK t : t = Head(pending)
    OBVIOUS
  <1>2. PICK th : th = QueueThread
    OBVIOUS
  <1>3. /\ TypeOK /\ Queue!OnePlace /\ th \in Threads /\ stack[th] = <<>> /\ Queue!Start
        /\ Push(th, <<Frame("run", t)>>)
        /\ object' = object /\ held' = held /\ finalized' = finalized /\ destroyed' = destroyed
        /\ notified' = notified /\ outside' = outside /\ early' = early
    BY <1>1, <1>2 DEF StartTask, IndInv, objectVars, historyVars, Threads
  <1>4. /\ pending # <<>> /\ running' = running \cup {t} /\ pending' = Tail(pending) /\ fresh' = fresh
        /\ finished' = finished /\ doomed' = doomed /\ canceled' = canceled /\ accepting' = accepting
        /\ [Queue!Next]_queueVars
    BY <1>1, <1>3 DEF Queue!Start, Queue!Next
  <1>5. /\ pending \in Seq(Tasks) /\ Len(pending) \in Nat \ {0} /\ DOMAIN pending = 1..Len(pending)
        /\ t = pending[1] /\ t \in Tasks /\ t \in Queue!Pending
    BY <1>1, <1>3, <1>4 DEF TypeOK, Queue!Pending
  <1>6. /\ DOMAIN pending' = 1..(Len(pending) - 1)
        /\ \A i \in DOMAIN pending' : i + 1 \in DOMAIN pending /\ pending'[i] = pending[i + 1]
        /\ \A i \in DOMAIN pending : i = 1 \/ (i - 1 \in DOMAIN pending' /\ pending'[i - 1] = pending[i])
    <2> DEFINE s == Tail(pending)
    <2>1. /\ DOMAIN s = 1..(Len(pending) - 1) /\ \A i \in 1..(Len(pending) - 1) : s[i] = pending[i + 1]
      BY <1>4, <1>5
    <2>2. pending' = s
      BY <1>4
    <2> HIDE DEF s
    <2> QED BY <1>5, <2>1, <2>2
  <1>7. Queue!Pending' \subseteq Queue!Pending /\ t \notin Queue!Pending'
    <2>1. \A i \in DOMAIN pending' : pending'[i] # t
      BY <1>3, <1>5, <1>6 DEF Queue!OnePlace
    <2> QED BY <1>6, <2>1 DEF Queue!Pending
  <1>8. Frame("run", t) \in Frames /\ Frame("run", t).at = "run" /\ Frame("run", t).on = t
    BY <1>5, FrameFields
  <1>9. PICK p : p = <<Frame("run", t)>>
    OBVIOUS
  <1>10. /\ p \in Seq(Frames) /\ Pushes(th, p) /\ ~Swaps(th, p)
         /\ \A C : OnceIn(p, C) /\ (In(p, C) <=> Frame("run", t) \in C)
         /\ \A i \in DOMAIN p : i = 1 /\ p[i] = Frame("run", t)
    <2>1. \A C : p \in Seq(Frames) /\ OnceIn(p, C) /\ (In(p, C) <=> Frame("run", t) \in C)
      BY <1>8, <1>9, ShortSequences
    <2>2. \A i \in DOMAIN p : i = 1 /\ p[i] = Frame("run", t)
      BY <1>9
    <2>3. Pushes(th, p) /\ ~Swaps(th, p)
      BY <1>3, <1>9 DEF Push, Pushes, Swaps
    <2> QED BY <2>1, <2>2, <2>3
  <1>11. TypeOK'
    BY <1>3, <1>4, <1>10, TypeStep DEF TypeOK
  <1>12. FramesFit(th, p)
    BY <1>2, <1>3, <1>4, <1>8, <1>10 DEF FramesFit
  <1>13. ASSUME NEW o \in ActiveObjects
         PROVE  /\ Frame("run", t) \in EndFrames(o) <=> t = FinalizeTask(o)
                /\ Frame("run", t) \in LateFrames(o, early') => t \in Callbacks(o) \ early'
                /\ Frame("run", t) \notin ObjectFrames(o)
                /\ Frame("run", t) \in HoldFrames(o) => TaskHolds(t, o)
                /\ Frame("run", t) # Frame("construct", o) /\ Frame("run", t) # Frame("destruct", o)
    <2>1. Frame("run", t) \in EndFrames(o) <=> t = FinalizeTask(o)
      BY FrameSets
    <2>2. Frame("run", t) \in LateFrames(o, early') => t \in Callbacks(o) \ early'
      BY FrameSets
    <2>3. Frame("run", t) \notin ObjectFrames(o)
      BY FrameSets
    <2>4. Frame("run", t) \in HoldFrames(o) => TaskHolds(t, o)
      BY FrameSets DEF TaskHolds
    <2>5. Frame("run", t) # Frame("construct", o) /\ Frame("run", t) # Frame("destruct", o)
      BY FrameFields
    <2> QED BY <2>1, <2>2, <2>3, <2>4, <2>5
  <1>14. ASSUME NEW o \in ActiveObjects PROVE Discreet(p, o)
    BY <1>3, <1>4, <1>10, <1>13 DEF Discreet
  <1>15. ASSUME NEW o \in ActiveObjects PROVE IsHeld(o)' => IsHeld(o)
    <2>1. \A i \in DOMAIN pending : TaskHolds(pending[i], o) => IsHeld(o)
      BY DEF IsHeld, HeldIn
    <2>2. \A i \in DOMAIN pending' : TaskHolds(pending'[i], o) => IsHeld(o)
      BY <1>6, <2>1
    <2>3. TaskHolds(t, o) => IsHeld(o)
      BY <1>5, <2>1
    <2>4. \A x \in Threads : o \in held'[x] => IsHeld(o)
      BY <1>3 DEF IsHeld, HeldIn
    <2> QED BY <1>3, <1>10, <1>11, <1>13, <2>2, <2>3, <2>4, HeldStep
  <1>16. ASSUME NEW o \in ActiveObjects PROVE EndsOnce(o)'
    <2>1. CASE t # FinalizeTask(o)
      <3>1. ~In(p, EndFrames(o))
        BY <1>10, <1>13, <2>1
      <3> QED BY <1>3, <1>7, <1>10, <1>15, <3>1, EndsSame DEF IndInv, ObjectInv
    <2>2. CASE t = FinalizeTask(o)
      <3>1. EndsOnce(o) /\ ~Occurs(EndFrames(o)) /\ o \notin destroyed /\ ~IsHeld(o)
        BY <1>5, <2>2 DEF IndInv, ObjectInv, EndsOnce, Ending
      <3> QED BY <1>3, <1>7, <1>10, <1>15, <2>2, <3>1, EndsBegun
    <2> QED BY <2>1, <2>2
  <1>17. ASSUME NEW o \in ActiveObjects PROVE FinalizedFirst(o)'
    <2>1. In(p, FramesOn({"run", "user"}, FinalizeTask(o))) => o \notin finalized
      <3>1. Frame("run", t) \in FramesOn({"run", "user"}, FinalizeTask(o)) => t = FinalizeTask(o)
        BY FrameFields DEF FramesOn
      <3> QED BY <1>5, <1>10, <3>1, FinalizeOnStack
    <2>2. ~In(p, {Frame("destruct", o)})
      BY <1>10, <1>13
    <2> QED BY <1>3, <1>4, <1>10, <2>1, <2>2, FinalSame DEF IndInv, ObjectInv
  <1>18. ASSUME NEW o \in ActiveObjects PROVE InitializedFirst(o)'
    <2>1. ASSUME NotCalledYet(o) PROVE NotCalledYet(o)'
      <3>1. ~OccursIn(stack, {Frame("run", InitializeTask(o))})
        <4> SUFFICES ASSUME NEW x \in Threads, NEW i \in DOMAIN stack[x],
                            stack[x][i] = Frame("run", InitializeTask(o))
                     PROVE  FALSE
          BY DEF OccursIn
        <4>1. x = th
          BY <1>2, FrameFields DEF IndInv, RunsInQueue
        <4> QED BY <1>3, <4>1
      <3>2. InitializeAhead(o) \/ InitializeCanceled(o) \/ Occurs({Frame("construct", o)})
        BY <2>1, <3>1 DEF NotCalledYet, Occurs
      <3>3. t \notin Callbacks(o) \ early
        <4>1. CASE InitializeAhead(o)
          BY <1>5, <4>1 DEF InitializeAhead
        <4>2. CASE InitializeCanceled(o)
          BY <1>5, <4>2 DEF InitializeCanceled
        <4>3. CASE Occurs({Frame("construct", o)})
          BY <1>3, <1>5, <4>3 DEF IndInv, ObjectInv, BeingMade, Queue!OnePlace
        <4> QED BY <3>2, <4>1, <4>2, <4>3
      <3>4. ~OccursIn(stack', LateFrames(o, early'))
        <4>1. ~In(p, LateFrames(o, early'))
          BY <1>3, <1>10, <1>13, <3>3
        <4> QED BY <1>3, <1>10, <2>1, <4>1, LateStep DEF NotCalledYet
      <3>5. CASE Occurs({Frame("construct", o)})
        <4>1. OccursIn(stack', {Frame("construct", o)})
          BY <1>3, <1>10, <3>5, StackStep DEF Occurs
        <4> QED BY <3>4, <4>1 DEF NotCalledYet, Occurs
      <3>6. CASE InitializeCanceled(o)
        <4>1. InitializeCanceled(o)'
          BY <1>3, <1>4, <1>7, <3>6 DEF InitializeCanceled
        <4> QED BY <3>4, <4>1 DEF NotCalledYet, Occurs
      <3>7. CASE InitializeAhead(o)
        <4>1. PICK k \in DOMAIN pending :
                /\ pending[k] = InitializeTask(o)
                /\ \A i \in DOMAIN pending : pending[i] \in Callbacks(o) \ early => i > k
          BY <3>7 DEF InitializeAhead
        <4>2. CASE k = 1
          <5>1. In(p, {Frame("run", InitializeTask(o))})
            BY <1>5, <1>10, <4>1, <4>2
          <5>2. OccursIn(stack', {Frame("run", InitializeTask(o))})
            BY <1>3, <1>10, <5>1, StackStep
          <5> QED BY <3>4, <5>2 DEF NotCalledYet, Occurs
        <4>3. CASE k # 1
          <5>1. k - 1 \in DOMAIN pending' /\ pending'[k - 1] = InitializeTask(o)
            BY <1>6, <4>1, <4>3
          <5>2. \A i \in DOMAIN pending' : pending'[i] \in Callbacks(o) \ early' => i > k - 1
            BY <1>3, <1>5, <1>6, <4>1
          <5>3. InitializeAhead(o)'
            BY <1>3, <3>7, <5>1, <5>2 DEF InitializeAhead
          <5> QED BY <3>4, <5>3 DEF NotCalledYet, Occurs
        <4> QED BY <4>2, <4>3
      <3> QED BY <3>2, <3>5, <3>6, <3>7
    <2>2. NotCalledYet(o)' => InitializedFirst(o)'
      BY DEF InitializedFirst
    <2> QED BY <1>3, <1>10, <1>15, <2>1, <2>2, InitSame DEF IndInv, ObjectInv
  <1>19. ASSUME NEW o \in ActiveObjects PROVE BeingMade(o)'
    BY <1>3, <1>4, <1>10, <1>13, BeingMadeStep DEF IndInv, ObjectInv
  <1>20. \A o \in ActiveObjects : ObjectInv(o)'
    BY <1>16, <1>17, <1>18, <1>19 DEF ObjectInv
  <1> QED BY <1>3, <1>4, <1>11, <1>12, <1>14, <1>20, CommonStep DEF IndInv

(* Shutdown closes the queue, and Shutdown(Cancel) gives up what waits. *)
LEMMA ShutdownQueueStep ==
  ASSUME IndInv, NEW th \in Threads, NEW action \in {"Complete", "Cancel"}, ShutdownQueue(th, action)
  PROVE  IndInv'
  <1>1. PICK p : p = IF action = "Cancel"
                     THEN [i \in DOMAIN pending |-> Frame("cancel", pending[i])] ELSE <<>>
    OBVIOUS
  <1>2. /\ TypeOK /\ Queue!OnePlace /\ InUserCode(th) /\ Queue!Shutdown(action) /\ Push(th, p)
        /\ object' = object /\ held' = held /\ finalized' = finalized /\ destroyed' = destroyed
        /\ notified' = notified /\ outside' = outside /\ early' = early
    BY <1>1 DEF ShutdownQueue, IndInv, objectVars, historyVars
  <1>3. /\ accepting' = FALSE /\ fresh' = fresh /\ running' = running /\ finished' = finished
        /\ canceled' = canceled /\ doomed \subseteq doomed'
        /\ action # "Cancel" => pending' = pending
        /\ action = "Cancel" => pending' = <<>> /\ Queue!Pending \subseteq doomed'
        /\ [Queue!Next]_queueVars
    BY <1>2 DEF Queue!Shutdown, Queue!Next, Queue!Pending
  <1>4. /\ pending \in Seq(Tasks) /\ Len(pending) \in Nat /\ DOMAIN pending = 1..Len(pending)
        /\ \A i \in DOMAIN pending : pending[i] \in Tasks /\ pending[i] \in Queue!Pending
    BY <1>2 DEF TypeOK, Queue!Pending
  <1>5. /\ p \in Seq(Frames)
        /\ \A i \in DOMAIN p : /\ action = "Cancel" /\ i \in DOMAIN pending
                               /\ p[i] = Frame("cancel", pending[i])
    <2>1. CASE action = "Cancel"
      <3>1. p = [i \in 1..Len(pending) |-> Frame("cancel", pending[i])]
        BY <1>1, <1>4, <2>1
      <3>2. \A i \in 1..Len(pending) : Frame("cancel", pending[i]) \in Frames
        BY <1>4, FrameFields
      <3>3. p \in Seq(Frames)
        BY <1>4, <3>1, <3>2
      <3>4. DOMAIN p = DOMAIN pending /\ \A i \in DOMAIN p : p[i] = Frame("cancel", pending[i])
        BY <1>1, <2>1
      <3> QED BY <2>1, <3>3, <3>4
    <2>2. CASE action # "Cancel"
      BY <1>1, <2>2
    <2> QED BY <2>1, <2>2
  <1>6. Pushes(th, p) /\ ~Swaps(th, p)
    <2>1. Pushes(th, p)
      BY <1>2 DEF Push, Pushes
    <2> QED BY <1>2, <1>5, <2>1, PushOrSwap
  <1>7. TypeOK'
    BY <1>2, <1>3, <1>5, <1>6, TypeStep DEF TypeOK
  <1>8. FramesFit(th, p)
    <2>1. stack[th] = <<>> \/ Head(stack[th]).at # "run"
      BY <1>2, UserCode
    <2>2. \A i \in DOMAIN p : p[i].at = "cancel" /\ p[i].on \in doomed'
      BY <1>3, <1>4, <1>5, FrameFields
    <2> QED BY <1>2, <1>5, <1>6, <2>1, <2>2 DEF FramesFit
  <1>9. ASSUME NEW o \in ActiveObjects, NEW i \in DOMAIN p
        PROVE  /\ p[i] \in EndFrames(o) <=> pending[i] = FinalizeTask(o)
               /\ p[i] \notin LateFrames(o, early') /\ p[i] \notin ObjectFrames(o)
               /\ p[i] \in HoldFrames(o) => TaskHolds(pending[i], o)
               /\ p[i] # Frame("construct", o) /\ p[i] # Frame("destruct", o)
               /\ p[i] \notin FramesOn({"run", "user"}, FinalizeTask(o))
    <2>1. PICK t : t = pending[i]
      OBVIOUS
    <2>2. Frame("cancel", t) \in EndFrames(o) <=> t = FinalizeTask(o)
      BY FrameSets
    <2>3. Frame("cancel", t) \notin LateFrames(o, early') /\ Frame("cancel", t) \notin ObjectFrames(o)
      BY FrameSets
    <2>4. Frame("cancel", t) \in HoldFrames(o) => TaskHolds(t, o)
      BY FrameSets DEF TaskHolds
    <2>5. /\ Frame("cancel", t) # Frame("construct", o) /\ Frame("cancel", t) # Frame("destruct", o)
          /\ Frame("cancel", t) \notin FramesOn({"run", "user"}, FinalizeTask(o))
      BY FrameFields DEF FramesOn
    <2> QED BY <1>5, <2>1, <2>2, <2>3, <2>4, <2>5
  <1>10. ASSUME NEW o \in ActiveObjects
         PROVE  /\ In(p, EndFrames(o)) => action = "Cancel" /\ FinalizeTask(o) \in Queue!Pending
                /\ OnceIn(p, EndFrames(o))
                /\ ~In(p, LateFrames(o, early')) /\ ~In(p, ObjectFrames(o))
                /\ ~In(p, {Frame("construct", o)}) /\ ~In(p, {Frame("destruct", o)})
                /\ ~In(p, FramesOn({"run", "user"}, FinalizeTask(o)))
    <2>1. OnceIn(p, EndFrames(o))
      BY <1>2, <1>5, <1>9 DEF OnceIn, Queue!OnePlace
    <2>2. In(p, EndFrames(o)) => action = "Cancel" /\ FinalizeTask(o) \in Queue!Pending
      BY <1>4, <1>5, <1>9 DEF In
    <2> QED BY <1>9, <2>1, <2>2 DEF In
  <1>11. ASSUME NEW o \in ActiveObjects PROVE Discreet(p, o)
    BY <1>2, <1>3, <1>10 DEF Discreet
  <1>12. ASSUME NEW o \in ActiveObjects PROVE IsHeld(o)' => IsHeld(o)
    <2>1. \A i \in DOMAIN pending : TaskHolds(pending[i], o) => IsHeld(o)
      BY DEF IsHeld, HeldIn
    <2>2. \A i \in DOMAIN pending' : TaskHolds(pending'[i], o) => IsHeld(o)
      <3>1. pending' = <<>> => DOMAIN pending' = {}
        OBVIOUS
      <3> QED BY <1>3, <2>1, <3>1
    <2>3. In(p, HoldFrames(o)) => IsHeld(o)
      BY <1>5, <1>9, <2>1 DEF In
    <2>4. \A x \in Threads : o \in held'[x] => IsHeld(o)
      BY <1>2 DEF IsHeld, HeldIn
    <2> QED BY <1>2, <1>5, <1>6, <1>7, <2>2, <2>3, <2>4, HeldStep
  <1>13. /\ action # "Cancel" => Queue!Pending' = Queue!Pending
         /\ action = "Cancel" => Queue!Pending' = {}
    <2>1. pending' = <<>> => DOMAIN pending' = {}
      OBVIOUS
    <2> QED BY <1>3, <2>1 DEF Queue!Pending
  <1>14. ASSUME NEW o \in ActiveObjects PROVE EndsOnce(o)'
    <2>1. CASE ~In(p, EndFrames(o))
      BY <1>2, <1>5, <1>6, <1>12, <1>13, <2>1, EndsSame DEF IndInv, ObjectInv
    <2>2. CASE In(p, EndFrames(o))
      <3>1. action = "Cancel" /\ FinalizeTask(o) \in Queue!Pending
        BY <1>10, <2>2
      <3>2. EndsOnce(o) /\ ~Occurs(EndFrames(o)) /\ o \notin destroyed /\ ~IsHeld(o)
        BY <3>1 DEF IndInv, ObjectInv, EndsOnce, Ending
      <3> QED BY <1>2, <1>5, <1>6, <1>10, <1>12, <1>13, <3>1, <3>2, EndsBegun
    <2> QED BY <2>1, <2>2
  <1>15. ASSUME NEW o \in ActiveObjects PROVE FinalizedFirst(o)'
    BY <1>2, <1>3, <1>5, <1>6, <1>10, FinalSame DEF IndInv, ObjectInv
  <1>16. ASSUME NEW o \in ActiveObjects PROVE InitializedFirst(o)'
    <2>1. ASSUME NotCalledYet(o) PROVE NotCalledYet(o)'
      <3>1. doomed \cup canceled \subseteq (doomed \cup canceled)' /\ (accepting' => accepting)
        BY <1>3
      <3>2. CASE pending' = pending
        BY <1>2, <1>5, <1>6, <1>10, <2>1, <3>1, <3>2, NotCalledStep
      <3>3. CASE action = "Cancel"
        <4>1. ~OccursIn(stack', LateFrames(o, early'))
          BY <1>2, <1>5, <1>6, <1>10, <2>1, LateStep DEF NotCalledYet
        <4>2. CASE Occurs({Frame("run", InitializeTask(o))})
          <5>1. OccursIn(stack', {Frame("run", InitializeTask(o))})
            BY <1>2, <1>5, <1>6, <4>2, StackStep DEF Occurs
          <5> QED BY <4>1, <5>1 DEF NotCalledYet, Occurs
        <4>3. CASE InitializeAhead(o) \/ InitializeCanceled(o)
          <5>1. InitializeTask(o) \in doomed' \cup canceled'
            BY <1>3, <1>4, <3>3, <4>3 DEF InitializeAhead, InitializeCanceled
          <5>2. InitializeCanceled(o)'
            BY <1>2, <1>3, <1>13, <3>3, <4>3, <5>1 DEF InitializeAhead, InitializeCanceled
          <5> QED BY <4>1, <5>2 DEF NotCalledYet, Occurs
        <4>4. CASE Occurs({Frame("construct", o)})
          <5>1. OccursIn(stack', {Frame("construct", o)})
            BY <1>2, <1>5, <1>6, <4>4, StackStep DEF Occurs
          <5> QED BY <4>1, <5>1 DEF NotCalledYet, Occurs
        <4> QED BY <2>1, <4>2, <4>3, <4>4 DEF NotCalledYet
      <3> QED BY <1>3, <3>2, <3>3
    <2>2. NotCalledYet(o)' => InitializedFirst(o)'
      BY DEF InitializedFirst
    <2> QED BY <1>2, <1>5, <1>6, <1>12, <2>1, <2>2, InitSame DEF IndInv, ObjectInv
  <1>17. ASSUME NEW o \in ActiveObjects PROVE BeingMade(o)'
    BY <1>2, <1>3, <1>5, <1>6, <1>10, BeingMadeStep DEF IndInv, ObjectInv
  <1>18. \A o \in ActiveObjects : ObjectInv(o)'
    BY <1>14, <1>15, <1>16, <1>17 DEF ObjectInv
  <1> QED BY <1>2, <1>3, <1>7, <1>8, <1>11, <1>18, CommonStep DEF IndInv

-----------------------------------------------------------------------------
(* At first there are no objects, no frames and no tasks in the queue. *)
LEMMA InitInd == Init => IndInv
  <1> SUFFICES ASSUME Init PROVE IndInv
    OBVIOUS
  <1>1. /\ fresh = Tasks /\ pending = <<>> /\ deferred = {} /\ running = {} /\ finished = {}
        /\ doomed = {} /\ canceled = {} /\ accepting = TRUE
        /\ object = [o \in ActiveObjects |-> NoFields] /\ held = [th \in Threads |-> {}]
        /\ stack = [th \in Threads |-> <<>>] /\ finalized = {} /\ destroyed = {} /\ notified = {}
        /\ outside = {} /\ early = {}
    BY DEF Init, Queue!Init
  <1>2. DOMAIN pending = {} /\ \A th \in Threads : DOMAIN stack[th] = {} /\ held[th] = {}
    BY <1>1
  <1>3. TypeOK
    BY <1>1 DEF TypeOK, NoFields
  <1>4. Queue!OnePlace /\ Queue!Pending = {}
    BY <1>1, <1>2 DEF Queue!OnePlace, Queue!Pending
  <1>5. \A C : ~Occurs(C) /\ AtMostOnceIn(stack, C)
    BY <1>2 DEF Occurs, OccursIn, AtMostOnceIn
  <1>6. TasksPlaced /\ RunsInQueue
    BY <1>2, <1>5 DEF TasksPlaced, RunsInQueue
  <1>7. Unmade
    BY <1>1, <1>2, <1>5 DEF Unmade, NoFields
  <1>8. \A o \in ActiveObjects : ~object[o].made /\ FinalizeTask(o) \in fresh
    BY <1>1, TaskFields DEF NoFields
  <1>9. \A o \in ActiveObjects : EndsOnce(o)
    BY <1>1, <1>4, <1>5 DEF EndsOnce, Ending
  <1>10. \A o \in ActiveObjects : FinalizedFirst(o) /\ InitializedFirst(o)
    BY <1>1, <1>5, <1>8 DEF FinalizedFirst, InitializedFirst
  <1>11. \A o \in ActiveObjects : BeingMade(o)
    BY <1>5 DEF BeingMade
  <1> QED BY <1>3, <1>4, <1>6, <1>7, <1>9, <1>10, <1>11 DEF IndInv, ObjectInv

(* Every step keeps it: one lemma per action. *)
LEMMA IndStep == IndInv /\ [Next]_vars => IndInv'
  <1> SUFFICES ASSUME IndInv, [Next]_vars PROVE IndInv'
    OBVIOUS
  <1>1. ASSUME NEW th \in Threads, UserStep(th) PROVE IndInv'
    BY <1>1, MakeStep, ReleasePtrStep, SetOnDestructedOnceStep, ReleaseAndWaitStep, ShareStep,
       CallStep, ShutdownQueueStep DEF UserStep
  <1>2. ASSUME NEW th \in Threads, ThreadStep(th) PROVE IndInv'
    BY <1>2, MakeReturnsStep, RunTaskStep, ReturnsStep, CancelTaskStep, ReleaseStep, DeleteStep,
       DestructObjectStep DEF ThreadStep
  <1>3. ASSUME NEW th \in Threads, UserReturns(th) PROVE IndInv'
    BY <1>3, ConstructorReturnsStep, CallbackReturnsStep DEF UserReturns
  <1>4. ASSUME UNCHANGED vars PROVE IndInv'
    <2>1. UNCHANGED <<queueVars, objectVars, historyVars, stack>>
      BY <1>4 DEF vars
    <2>2. /\ fresh' = fresh /\ pending' = pending /\ deferred' = deferred /\ running' = running
          /\ finished' = finished /\ doomed' = doomed /\ canceled' = canceled
          /\ accepting' = accepting /\ object' = object /\ held' = held /\ stack' = stack
          /\ finalized' = finalized /\ destroyed' = destroyed /\ notified' = notified
          /\ outside' = outside /\ early' = early
      BY <2>1 DEF queueVars, objectVars, historyVars
    <2>3. TypeOK' /\ Queue!OnePlace' /\ Queue!Pending' = Queue!Pending
      BY <2>2 DEF IndInv, TypeOK, Queue!OnePlace, Queue!Pending
    <2>4. \A C : Occurs(C)' <=> Occurs(C)
      BY <2>2 DEF Occurs
    <2>5. \A o \in ActiveObjects : IsHeld(o)' <=> IsHeld(o)
      BY <2>2 DEF IsHeld, HeldIn
    <2>6. TasksPlaced' /\ RunsInQueue' /\ Unmade'
      BY <2>2 DEF IndInv, TasksPlaced, RunsInQueue, Unmade, Occurs
    <2>7. \A o \in ActiveObjects : EndsOnce(o)' /\ FinalizedFirst(o)'
      BY <2>2, <2>3, <2>5 DEF IndInv, ObjectInv, EndsOnce, Ending, FinalizedFirst, Occurs
    <2>8. \A o \in ActiveObjects : NotCalledYet(o)' <=> NotCalledYet(o)
      BY <2>2, <2>3 DEF NotCalledYet, InitializeAhead, InitializeCanceled, Occurs
    <2>9. \A o \in ActiveObjects : InitializedFirst(o)'
      BY <2>2, <2>5, <2>8 DEF IndInv, ObjectInv, InitializedFirst, Occurs
    <2>10. \A o \in ActiveObjects : BeingMade(o)'
      BY <2>2 DEF IndInv, ObjectInv, BeingMade, Occurs
    <2> QED BY <2>3, <2>6, <2>7, <2>9, <2>10 DEF IndInv, ObjectInv
  <1> QED BY <1>1, <1>2, <1>3, <1>4, StartTaskStep DEF Next

(* The invariant holds of every behaviour, fair or not. *)
LEMMA Invariance == Spec => []IndInv
  BY InitInd, IndStep, PTL DEF Spec

(* TypeOK: the queue holds tasks of the objects, the stacks frames that    *)
(* the code can be in.                                                     *)
THEOREM TypeCorrect == Spec => []TypeOK
  <1>1. IndInv => TypeOK
    BY DEF IndInv
  <1> QED BY <1>1, Invariance, PTL

(* InitializedBeforeUse: whichever thread makes the object, whichever      *)
(* other the pointer is given to and whatever happens to the queue, a      *)
(* callback runs after Initialize or inside it, unless it was handed over  *)
(* while the constructor ran, or invoked at once by the queue's thread on  *)
(* an object that a client made.                                           *)
THEOREM UseIsInitialized == Spec => []InitializedBeforeUse
  <1>1. IndInv => InitializedBeforeUse
    <2> SUFFICES ASSUME IndInv, NEW t \in Tasks \ early,
                        t.kind \in {"Weak", "Strong"}, OnStack("user", t), ~object[t.obj].m_isInitialized
                 PROVE  OnStack("user", InitializeTask(t.obj))
      BY DEF InitializedBeforeUse
    <2>1. PICK o \in ActiveObjects : o = t.obj
      BY TaskFields
    <2>2. \A C : Frame("user", t) \in C => Occurs(C)
      BY DEF OnStack, Occurs, OccursIn
    <2>3. t \in Callbacks(o)
      BY <2>1 DEF Callbacks
    <2>4. Frame("user", t) \in LateFrames(o, early) /\ Frame("user", t) \in RunFrames(t)
      BY <2>3, FrameSets DEF RunFrames
    <2>5. Frame("user", t) \in Frames
      BY FrameFields
    <2>6. Frame("user", t) \in HoldFrames(o)
      BY <2>1, <2>5, FrameSets
    <2>7. object[o].made
      BY <2>1, <2>2, <2>4, KnownMade
    <2>8. TypeOK
      BY DEF IndInv
    <2>9. IsHeld(o) /\ ~NotCalledYet(o)
      BY <2>2, <2>4, <2>6, <2>8, HeldParts DEF NotCalledYet
    <2>10. Occurs({Frame("user", InitializeTask(o))})
      BY <2>1, <2>7, <2>9 DEF IndInv, ObjectInv, InitializedFirst
    <2> QED BY <2>1, <2>10 DEF OnStack, Occurs, OccursIn
  <1> QED BY <1>1, Invariance, PTL

(* FinalizedInOrder: Finalize runs once, on an initialized object and      *)
(* before its destructor, and is missed only when the queue canceled it.   *)
THEOREM FinalizedOnceInOrder == Spec => []FinalizedInOrder
  <1>1. IndInv => FinalizedInOrder
    <2> SUFFICES ASSUME IndInv PROVE FinalizedInOrder
      OBVIOUS
    <2>1. ASSUME NEW o \in ActiveObjects, OnStack("user", FinalizeTask(o))
          PROVE  object[o].m_isInitialized /\ o \notin finalized \cup destroyed
      <3>1. \A C : Frame("user", FinalizeTask(o)) \in C => Occurs(C)
        BY <2>1 DEF OnStack, Occurs, OccursIn
      <3>2. /\ Frame("user", FinalizeTask(o)) \in RunFrames(FinalizeTask(o))
            /\ Frame("user", FinalizeTask(o)) \in FramesOn({"run", "user"}, FinalizeTask(o))
            /\ Frame("user", FinalizeTask(o)) \in EndFrames(o)
        BY DEF RunFrames, FramesOn, EndFrames
      <3>3. object[o].m_isInitialized /\ o \notin finalized
        BY <3>1, <3>2, FinalizeOnStack
      <3>4. o \notin destroyed
        BY <3>1, <3>2 DEF IndInv, ObjectInv, EndsOnce, Ending
      <3> QED BY <3>3, <3>4
    <2>2. ASSUME NEW o \in destroyed, object[o].m_hasFinalize, object[o].m_isInitialized
          PROVE  o \in finalized \/ FinalizeTask(o) \in canceled
      <3>1. o \in ActiveObjects
        BY DEF IndInv, TypeOK
      <3> QED BY <2>2, <3>1 DEF IndInv, ObjectInv, FinalizedFirst
    <2> QED BY <2>1, <2>2 DEF FinalizedInOrder
  <1> QED BY <1>1, Invariance, PTL

(* DestroyedOnce: once the count of an object was zero, one thread or one  *)
(* Finalize task is in charge of its end, nobody holds it again, and after *)
(* the destructor there is no other.                                       *)
THEOREM DestroyedOnceOnly == Spec => []DestroyedOnce
  <1>1. IndInv => DestroyedOnce
    <2> SUFFICES ASSUME IndInv, NEW o \in ActiveObjects,
                        NEW ends, ends = {p \in Positions : EndsObject(stack[p[1]][p[2]], o)}
                                         \cup {i \in DOMAIN pending : pending[i] = FinalizeTask(o)}
                 PROVE  /\ Cardinality(ends) <= 1
                        /\ ends # {} => ~IsHeld(o)
                        /\ o \in destroyed => ends = {} /\ ~IsHeld(o)
      BY DEF DestroyedOnce
    <2>1. EndsOnce(o) /\ TypeOK /\ Queue!OnePlace
      BY DEF IndInv, ObjectInv
    <2>2. ASSUME NEW p \in Positions
          PROVE  p = <<p[1], p[2]>> /\ p[1] \in Threads /\ p[2] \in DOMAIN stack[p[1]]
      BY DEF Positions
    <2>3. ASSUME NEW th \in Threads, NEW i \in DOMAIN stack[th], EndsObject(stack[th][i], o)
          PROVE  stack[th][i] \in EndFrames(o)
      <3>1. stack[th][i] \in Frames
        BY <2>1 DEF TypeOK
      <3>2. PICK at, x : stack[th][i] = Frame(at, x) /\ EndsObject(Frame(at, x), o)
        BY <2>3, <3>1, FrameFields
      <3>3. \/ at \in {"delete", "destruct"} /\ x = o
            \/ at \in {"run", "user", "cancel"} /\ x = FinalizeTask(o)
        <4>1. Frame(at, x).at = at /\ Frame(at, x).on = x
          BY FrameFields
        <4> QED BY <3>2, <4>1 DEF EndsObject
      <3>4. Frame(at, x) \in EndFrames(o)
        BY <3>3, FrameSets
      <3> QED BY <3>2, <3>4
    <2>4. \A p \in Positions : EndsObject(stack[p[1]][p[2]], o) => Occurs(EndFrames(o))
      BY <2>2, <2>3 DEF Occurs, OccursIn
    <2>5. \A i \in DOMAIN pending : pending[i] = FinalizeTask(o) => FinalizeTask(o) \in Queue!Pending
      BY DEF Queue!Pending
    <2>6. ASSUME NEW a \in ends, NEW b \in ends PROVE a = b
      <3>1. CASE Occurs(EndFrames(o))
        <4>1. FinalizeTask(o) \notin Queue!Pending
          BY <2>1, <3>1 DEF EndsOnce
        <4>2. /\ a \in Positions /\ EndsObject(stack[a[1]][a[2]], o)
              /\ b \in Positions /\ EndsObject(stack[b[1]][b[2]], o)
          BY <2>5, <4>1
        <4>3. a[1] = b[1] /\ a[2] = b[2]
          <5>1. stack[a[1]][a[2]] \in EndFrames(o) /\ stack[b[1]][b[2]] \in EndFrames(o)
            BY <2>2, <2>3, <4>2
          <5> QED BY <2>1, <2>2, <4>2, <5>1 DEF EndsOnce, AtMostOnceIn
        <4> QED BY <2>2, <4>2, <4>3
      <3>2. CASE ~Occurs(EndFrames(o))
        BY <2>1, <2>4, <3>2 DEF Queue!OnePlace
      <3> QED BY <3>1, <3>2
    <2>7. ends # {} => Ending(o)
      BY <2>4, <2>5 DEF Ending
    <2>8. Cardinality(ends) <= 1
      <3>1. CASE ends = {}
        BY <3>1, FS_EmptySet
      <3>2. ASSUME NEW a \in ends PROVE Cardinality(ends) <= 1
        <4>1. ends = {a}
          BY <2>6, <3>2
        <4>2. Cardinality({a}) = 1
          BY FS_Singleton
        <4>3. Cardinality(ends) = 1
          BY <4>1, <4>2
        <4> QED BY <4>3
      <3> QED BY <3>1, <3>2
    <2> QED BY <2>1, <2>7, <2>8 DEF EndsOnce
  <1> QED BY <1>1, Invariance, PTL
=============================================================================
