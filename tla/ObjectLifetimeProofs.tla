------------------------ MODULE ObjectLifetimeProofs ------------------------
(***************************************************************************)
(* Proofs about ObjectLifetime, for any threads, objects and programs: the *)
(* invariant of ObjectLifetimeInvariant holds at first and every step      *)
(* keeps it, and what makes sharing objects safe follows from it.          *)
(***************************************************************************)
EXTENDS ObjectLifetimeInvariant

-----------------------------------------------------------------------------
(* The last reference to the counter of x goes. *)
Falls(x) == cls[x].policy \in {"Simple", "WeakRef"} /\ ~(m_refCount'[Counter(x)] > 0)

(* The object x stays, and the calls about it, unless its last reference goes. *)
SameObject(x) ==
  /\ cls'[x] = cls[x] /\ life'[x] = life[x] /\ weakRef'[x] = weakRef[x] /\ field'[x] = field[x]
  /\ m_headMember'[x] = m_headMember[x] /\ storage'[x] = storage[x]
  /\ m_weakRefCount'[x] > 0 <=> m_weakRefCount[x] > 0
CallsStay(x) ==
  /\ Occurs({Delete(x)}) => Occurs({Delete(x)})'
  /\ Occurs({EndDelete(x)}) => Occurs({EndDelete(x)})'
  /\ Occurs(MemberFrames(x))' <=> Occurs(MemberFrames(x))
  /\ Dying(x)' => Dying(x) \/ Falls(x)
  /\ life[x] = "alive" /\ Falls(x) => (m_refCount[Counter(x)] > 0 => Occurs({Delete(x)})')

Inside(b) == Range(m_headMember[b]) \cup storage[b]

(* The objects outside D stay, with what D has to do with them. *)
Kept(D) ==
  /\ program' = program
  /\ \A x \in Objects : Pos(x)' => Pos(x)
  /\ \A x \in Objects : x \notin D => SameObject(x) /\ CallsStay(x)
  /\ \A d \in Objects : d \in D =>
       /\ Inside(d) \subseteq Inside(d)' \cup D
       /\ storage'[d] \subseteq storage[d]
       /\ \A m \in Range(m_headMember'[d]) : m \in Range(m_headMember[d]) \/ Occurs(MemberFrames(m))
       /\ \A x \in Objects : x \notin D /\ weakRef[x] = d => cls'[d] = cls[d] /\ storage'[d] = storage[d]
       /\ \A x \in Objects : x \notin D /\ d \in Inside(x) =>
            /\ cls'[d] = cls[d]
            /\ weakRef'[d] = x \/ (weakRef'[d] = NoObj /\ life'[d] = "dead")
            /\ d \in Range(m_headMember[x]) => ~Pos(x)' /\ ~Occurs(MemberFrames(d))'

(* The objects outside D stay as they should be. *)
LEMMA KeptHeap ==
  ASSUME IInv, NEW D, Kept(D), \A h \in StrongTokens : Ref(h) \in D => UNCHANGED weakRef,
         NEW x \in Objects, x \notin D
  PROVE  ClassOK(x)' /\ FieldOK(x)' /\ WeakRefOK(x)' /\ ListsOK(x)' /\ CountsOK(x)'
<1>0. TypeOK /\ Heap BY DEF IInv
<1>1. ClassOK(x) /\ FieldOK(x) /\ WeakRefOK(x) /\ ListsOK(x) /\ CountsOK(x) BY <1>0 DEF Heap
<1>2. /\ program' = program
      /\ cls'[x] = cls[x] /\ life'[x] = life[x] /\ weakRef'[x] = weakRef[x] /\ field'[x] = field[x]
      /\ m_headMember'[x] = m_headMember[x] /\ storage'[x] = storage[x]
      /\ m_weakRefCount'[x] > 0 <=> m_weakRefCount[x] > 0
      /\ Pos(x)' => Pos(x)
  BY DEF Kept, SameObject
<1>3. \A y \in Objects : y \notin D => CallsStay(y) BY DEF Kept
<1>4. weakRef[x] \in Objects \cup {NoObj} BY <1>0 DEF TypeOK, RefTypeOK, Pointers
<1>5. ClassOK(x)' BY <1>1, <1>2 DEF ClassOK, IsStatic, StaticClasses
<1>6. FieldOK(x)'
  <2>1. field[x].counts => field[x].m_ptr \in Objects
    BY <1>0, <1>1 DEF FieldOK, TypeOK, RefTypeOK, Pointers
  <2>2. field[x].counts => weakRef'[field[x].m_ptr] = weakRef[field[x].m_ptr]
    <3> SUFFICES ASSUME field[x].counts PROVE weakRef'[field[x].m_ptr] = weakRef[field[x].m_ptr] OBVIOUS
    <3>1. Ref(<<"field", x>>) = field[x].m_ptr /\ <<"field", x>> \in StrongTokens BY RefIs, TokenKinds
    <3>2. CASE field[x].m_ptr \in D BY <3>1, <3>2
    <3>3. CASE field[x].m_ptr \notin D BY <2>1, <3>3 DEF Kept, SameObject
    <3> QED BY <3>2, <3>3
  <2> QED BY <1>1, <1>2, <2>2 DEF FieldOK
<1>7. WeakRefOK(x)'
  <2>1. weakRef[x] # NoObj => /\ cls'[weakRef[x]] = cls[weakRef[x]]
                              /\ storage'[weakRef[x]] = storage[weakRef[x]]
    BY <1>4 DEF Kept, SameObject
  <2>2. Occurs({EndDelete(x)}) => Occurs({EndDelete(x)})' BY <1>3 DEF CallsStay
  <2> QED BY <1>1, <1>2, <2>1, <2>2 DEF WeakRefOK
<1>8. ListsOK(x)'
  <2>0. Range(m_headMember[x]) \subseteq Objects /\ storage[x] \subseteq Objects BY <1>0 DEF TypeOK, RefTypeOK, Range
  <2>1. \A m \in Range(m_headMember'[x]) :
         /\ cls'[m] \in SwarmMembers
         /\ weakRef'[m] = x \/ (weakRef'[m] = NoObj /\ life'[m] = "dead")
         /\ Pos(x)' => weakRef'[m] = x /\ life'[m] = "alive" /\ ~Dying(m)'
         /\ ~Occurs(MemberFrames(m))'
         /\ \A d \in Objects : m \in Range(m_headMember'[d]) => d = x
    <3> TAKE m \in Range(m_headMember'[x])
    <3>1. m \in Range(m_headMember[x]) /\ m \in Objects BY <1>2, <2>0
    <3>2. /\ cls[m] \in SwarmMembers
          /\ weakRef[m] = x \/ (weakRef[m] = NoObj /\ life[m] = "dead")
          /\ Pos(x) => weakRef[m] = x /\ life[m] = "alive" /\ ~Dying(m)
          /\ ~Occurs(MemberFrames(m))
          /\ \A d \in Objects : m \in Range(m_headMember[d]) => d = x
      BY <1>1, <3>1 DEF ListsOK
    <3>3. \A d \in Objects : m \in Range(m_headMember'[d]) => d = x BY <3>2 DEF Kept, SameObject
    <3>4. CASE m \in D
      <4>1. m \in Inside(x) BY <3>1 DEF Inside
      <4> QED BY <3>1, <3>2, <3>3, <3>4, <4>1 DEF Kept
    <3>5. CASE m \notin D
      <4>1. /\ cls'[m] = cls[m] /\ life'[m] = life[m] /\ weakRef'[m] = weakRef[m]
            /\ ~Occurs(MemberFrames(m))' /\ (Dying(m)' => Dying(m) \/ Falls(m))
        BY <3>1, <3>2, <3>5 DEF Kept, SameObject, CallsStay
      <4>2. Pos(x)' => ~Falls(m)
        <5>1. cls[m].policy # "Simple" BY <3>2 DEF SwarmMembers, SwarmMember, LinkedSwarmMember, Class
        <5>2. Pos(x)' => Counter(m) = x BY <1>2, <3>2, <5>1 DEF Counter
        <5> QED BY <5>2 DEF Falls, Pos
      <4> QED BY <1>2, <3>2, <3>3, <4>1, <4>2
    <3> QED BY <3>4, <3>5
  <2>2. \A m \in storage'[x] :
         /\ cls'[m] = FixedSwarmMember
         /\ weakRef'[m] = x \/ (weakRef'[m] = NoObj /\ life'[m] = "dead")
         /\ \A d \in Objects : m \in storage'[d] => d = x
    <3> TAKE m \in storage'[x]
    <3>1. m \in storage[x] /\ m \in Objects BY <1>2, <2>0
    <3>2. /\ cls[m] = FixedSwarmMember
          /\ weakRef[m] = x \/ (weakRef[m] = NoObj /\ life[m] = "dead")
          /\ \A d \in Objects : m \in storage[d] => d = x
      BY <1>1, <3>1 DEF ListsOK
    <3>3. \A d \in Objects : m \in storage'[d] => m \in storage[d] BY DEF Kept, SameObject
    <3>4. CASE m \in D
      <4>1. m \in Inside(x) BY <3>1 DEF Inside
      <4> QED BY <3>1, <3>2, <3>3, <3>4, <4>1 DEF Kept
    <3>5. CASE m \notin D BY <3>1, <3>2, <3>3, <3>5 DEF Kept, SameObject
    <3> QED BY <3>4, <3>5
  <2>3. \A i \in DOMAIN m_headMember'[x], j \in DOMAIN m_headMember'[x] : m_headMember'[x][i] = m_headMember'[x][j] => i = j
    BY <1>1, <1>2 DEF ListsOK
  <2> QED BY <2>1, <2>2, <2>3 DEF ListsOK
<1>9. CountsOK(x)'
  <2>1. Counter(x)' = Counter(x) BY <1>2 DEF Counter
  <2>2. CallsStay(x) BY <1>3
  <2>3. (Pos(x) => life[x] = "alive" /\ ~Dying(x) /\ Counter(x) = x)'
    <3>1. Pos(x) => life[x] = "alive" /\ ~Dying(x) /\ Counter(x) = x BY <1>1 DEF CountsOK
    <3>2. Pos(x)' => ~Falls(x) BY <1>2, <3>1 DEF Falls, Pos
    <3> QED BY <1>2, <2>1, <2>2, <3>1, <3>2 DEF CallsStay
  <2>4. (life[x] = "alive" /\ cls[x].policy \in {"Simple", "WeakRef"} /\ ~Pos(Counter(x)) => Occurs({Delete(x)}))'
    <3>1. life[x] = "alive" /\ cls[x].policy \in {"Simple", "WeakRef"} /\ ~Pos(Counter(x)) => Occurs({Delete(x)})
      BY <1>1 DEF CountsOK
    <3>2. PICK c : c = Counter(x) OBVIOUS
    <3>3. Pos(Counter(x))' <=> m_refCount'[c] > 0 BY <2>1, <3>2 DEF Pos
    <3>4. Pos(Counter(x)) <=> m_refCount[c] > 0 BY <3>2 DEF Pos
    <3> QED BY <1>2, <2>2, <3>1, <3>2, <3>3, <3>4 DEF CallsStay, Falls
  <2>5. (m_weakRefCount[x] > 0 <=> HasWeakRef(cls[x]) /\ cls[x] \notin Members)' BY <1>1, <1>2 DEF CountsOK
  <2>6. (cls[x] \in Members => \/ \E b \in Objects : x \in Range(m_headMember[b]) \cup storage[b]
                               \/ Occurs(MemberFrames(x)))'
    <3>1. cls[x] \in Members => \/ \E b \in Objects : x \in Range(m_headMember[b]) \cup storage[b]
                                \/ Occurs(MemberFrames(x))
      BY <1>1 DEF CountsOK
    <3>2. \A b \in Objects : x \in Range(m_headMember[b]) \cup storage[b] => x \in Range(m_headMember'[b]) \cup storage'[b]
      BY DEF Kept, SameObject, Inside
    <3> QED BY <1>2, <2>2, <3>1, <3>2 DEF CallsStay
  <2> QED BY <2>3, <2>4, <2>5, <2>6 DEF CountsOK
<1> QED BY <1>5, <1>6, <1>7, <1>8, <1>9

(* And so do the references to them. *)
LEMMA KeptLive ==
  ASSUME IInv, NEW D, Kept(D)
  PROVE  /\ \A x : x \notin D /\ Live(x) /\ ~Falls(x) => Live(x)'
         /\ \A w : w.m_ptr \notin D /\ w.m_weakRef \notin D /\ WeakLive(w) => WeakLive(w)'
<1>1. \A x \in Objects : x \notin D => /\ cls'[x] = cls[x] /\ life'[x] = life[x] /\ weakRef'[x] = weakRef[x]
                                       /\ Dying(x)' => Dying(x) \/ Falls(x)
  BY DEF Kept, SameObject, CallsStay
<1>2. \A b \in Objects : Owned(b) \subseteq Owned(b)' \cup D
  BY DEF Kept, SameObject, Owned, Inside
<1>3. ASSUME NEW x, x \notin D, Live(x), ~Falls(x) PROVE Live(x)'
  <2>1. PICK b : b = weakRef[x] OBVIOUS
  <2>2. HasWeakRef(cls[x]) => b \in Objects /\ x \in Owned(b) BY <1>3, <2>1 DEF Live
  <2>3. HasWeakRef(cls[x]) => b \in Objects /\ x \in Owned(b)' BY <1>2, <1>3, <2>2
  <2>4. weakRef'[x] = b /\ cls'[x] = cls[x] /\ life'[x] = life[x] /\ ~Dying(x)' /\ x \in Objects
    BY <1>1, <1>3, <2>1 DEF Live
  <2>5. HasWeakRef(cls[x])' => weakRef'[x] \in Objects /\ x \in Owned(weakRef[x])' BY <2>3, <2>4
  <2> QED BY <1>3, <2>4, <2>5 DEF Live
<1>4. ASSUME NEW w, w.m_ptr \notin D, w.m_weakRef \notin D, WeakLive(w) PROVE WeakLive(w)'
  <2>1. CASE w = EmptyWeakPtr BY <2>1 DEF WeakLive
  <2>2. CASE w # EmptyWeakPtr
    <3>1. PICK x, b : x = w.m_ptr /\ b = w.m_weakRef OBVIOUS
    <3>2. /\ x \in Objects /\ b \in Objects /\ x \notin D /\ b \notin D
          /\ cls[x].policy = "WeakRef" /\ cls[b] # NoClass /\ x \in Owned(b)
          /\ Pos(b) => /\ life[x] = "alive" /\ weakRef[x] = b /\ ~Dying(x)
      BY <1>4, <2>2, <3>1 DEF WeakLive
    <3>3. Pos(b)' => Pos(b) BY <3>2 DEF Kept
    <3>4. x \in Owned(b)' BY <1>2, <3>2
    <3>5. Pos(b)' => ~Falls(x)
      <4>1. Pos(b)' => Counter(x) = b BY <3>2, <3>3 DEF Counter
      <4> QED BY <4>1 DEF Falls, Pos
    <3>6. /\ cls'[x].policy = "WeakRef" /\ cls'[b] # NoClass
          /\ Pos(b)' => /\ life'[x] = "alive" /\ weakRef'[x] = b /\ ~Dying(x)'
      BY <1>1, <3>2, <3>3, <3>5
    <3> QED BY <3>1, <3>2, <3>4, <3>6 DEF WeakLive
  <2> QED BY <2>1, <2>2
<1> QED BY <1>3, <1>4

(* A step that changes the objects of D keeps the invariant, when these are *)
(* as they should be, the references are counted and the calls in order.   *)
(* E are the objects nobody may refer to.                                  *)
LEMMA DestroyStep ==
  ASSUME IInv, NEW D, Kept(D), NEW E, Unharmed(E), NEW th \in Threads, NEW p \in Seq(Frames),
         StackStep(th, p), TypeOK', Counts', Onces', Reports',
         \A x \in Objects : x \in D => (ClassOK(x) /\ FieldOK(x) /\ WeakRefOK(x) /\ ListsOK(x) /\ CountsOK(x))',
         \A h \in StrongTokens : FromHere(th, h) /\ Ref(h) \notin E /\ (Ref(h) \in D => UNCHANGED weakRef),
         \A h \in StrongTokens : \/ Ref(h)' = NoObj
                                 \/ \E k \in StrongTokens : Ref(h)' = Ref(k) /\ Ref(k) \notin D
                                 \/ Live(Ref(h))',
         \A u \in Threads : \/ WeakLive(weak[u])'
                            \/ weak'[u] = weak[u] /\ weak[u].m_ptr \notin D /\ weak[u].m_weakRef \notin D,
         \A u \in Threads : u # th => SameLocals(u),
         \A u \in Threads : u # th => \A j \in DOMAIN todo[u] :
            /\ todo[u][j].call \in LastCalls => todo[u][j].arg \notin E
            /\ todo[u][j].call = "AddSwarmMember" => todo[u][j].arg \notin D,
         \A i \in DOMAIN todo'[th] : FrameOK(th, i)' /\ Cascade(th, i)'
  PROVE  IInv'
<1>0. /\ TypeOK /\ FramesTyped(todo) /\ Counts /\ RefsLive /\ WeaksLive /\ Heap
      /\ Onces /\ FramesOK /\ Cascades /\ Reports
  BY DEF IInv
<1>1. Heap'
  <2>1. \A h \in StrongTokens : Ref(h) \in D => UNCHANGED weakRef OBVIOUS
  <2>2. \A x \in Objects : x \notin D => (ClassOK(x) /\ FieldOK(x) /\ WeakRefOK(x) /\ ListsOK(x) /\ CountsOK(x))'
    BY <2>1, KeptHeap
  <2> QED BY <2>2 DEF Heap
<1>2. StrongExact' /\ NoObj \notin Objects BY RefCountingAssumption DEF Counts
<1>3. ASSUME NEW h \in StrongTokens, NEW c \in Objects, StrongAt'[h] = c PROVE m_refCount'[c] > 0
  <2>1. PICK g, m : g = StrongAt' /\ m = m_refCount' OBVIOUS
  <2>2. Exact(g, m) /\ h \in DOMAIN g /\ g[h] = c BY <1>2, <1>3, <2>1 DEF StrongExact, StrongAt, StrongTokens
  <2>3. m[c] \in Nat /\ m[c] # 0 BY <2>2, ExactZero
  <2> QED BY <2>1, <2>3
<1>4. RefsLive'
  <2> SUFFICES ASSUME NEW h \in StrongTokens, Ref(h)' # NoObj, ~Live(Ref(h))' PROVE FALSE
    BY DEF RefsLive, StrongTokens
  <2>1. PICK x : x = Ref(h)' OBVIOUS
  <2>2. PICK k \in StrongTokens : x = Ref(k) /\ x \notin D BY <2>1
  <2>3. Live(x) BY <1>0, <2>1, <2>2 DEF RefsLive
  <2>4. ~Falls(x)
    <3> SUFFICES ASSUME Falls(x) PROVE FALSE OBVIOUS
    <3>1. IsCounted(x) BY DEF Falls, IsCounted
    <3>2. PICK c : c = Counter(x) OBVIOUS
    <3>3. c \in Objects /\ x \in Objects BY <2>3, <3>1, <3>2, LiveCounter
    <3>4. cls'[x] = cls[x] /\ weakRef'[x] = weakRef[x] BY <2>2, <3>3 DEF Kept, SameObject
    <3>5. Counter(x)' = c BY <3>2, <3>4 DEF Counter
    <3>6. StrongAt'[h] = IF Ref(h)' = NoObj THEN NoObj ELSE Counter(Ref(h))' BY DEF StrongAt, StrongTokens
    <3>7. StrongAt'[h] = c BY <2>1, <3>5, <3>6
    <3> QED BY <1>3, <3>2, <3>3, <3>7 DEF Falls
  <2>5. Live(x)' BY <2>2, <2>3, <2>4, KeptLive
  <2> QED BY <2>1, <2>5
<1>5. WeaksLive'
  <2> SUFFICES ASSUME NEW u \in Threads, weak'[u] = weak[u], weak[u].m_ptr \notin D, weak[u].m_weakRef \notin D
               PROVE  WeakLive(weak[u])'
    BY DEF WeaksLive
  <2>1. PICK w : w = weak[u] OBVIOUS
  <2>2. WeakLive(w) /\ w.m_ptr \notin D /\ w.m_weakRef \notin D BY <1>0, <2>1 DEF WeaksLive
  <2>3. WeakLive(w)' BY <2>2, KeptLive
  <2>4. weak'[u] = w BY <2>1
  <2> QED BY <2>3, <2>4
<1>6. FramesOK'
  <2> SUFFICES ASSUME NEW u \in Threads, NEW i \in DOMAIN todo'[u], u # th PROVE FrameOK(u, i)'
    BY DEF FramesOK
  <2>1. todo'[u] = todo[u] /\ i \in DOMAIN todo[u] /\ SameLocals(u) BY <1>0, StackAfter
  <2>2. ASSUME NEW j \in DOMAIN todo[u], todo[u][j].call = "AddSwarmMember" PROVE ~Dying(todo[u][j].arg)'
    <3>1. PICK f, x, b : f = todo[u][j] /\ x = f.arg /\ b = f.swarm OBVIOUS
    <3>2. FrameOK(u, j) /\ f \in Frames /\ f.call = "AddSwarmMember"
      BY <1>0, <2>2, <3>1 DEF FramesOK, FramesTyped
    <3>3. /\ x \in Objects /\ b \in Objects /\ ~Dying(x) /\ weakRef[x] = b
          /\ cls[x] \in SwarmMembers /\ HoldsSwarm(u, b)
      BY <3>1, <3>2, FrameFacts DEF FrameOK
    <3>4. PICK s \in Own(u) : strong[s] # NoObj /\ weakRef[strong[s]] = b BY <3>3 DEF HoldsSwarm
    <3>5. PICK y : y = strong[s] OBVIOUS
    <3>6. /\ <<"slot", s>> \in StrongTokens /\ Ref(<<"slot", s>>) = y /\ Ref(<<"slot", s>>)' = strong'[s]
          /\ strong'[s] = y
      BY <2>1, <3>5, OwnPlaces, RefIs DEF SameLocals
    <3>7. Live(y) /\ y \in Objects /\ y \notin E BY <1>0, <3>4, <3>5, <3>6 DEF RefsLive, Live
    <3>8. cls'[y] = cls[y] /\ weakRef'[y] = b BY <3>4, <3>5, <3>7 DEF Unharmed
    <3>9. HasWeakRef(cls[y])
      <4>1. b # NoObj /\ WeakRefOK(y) BY <1>0, <1>2, <3>3, <3>7 DEF Heap
      <4> QED BY <3>4, <3>5, <4>1 DEF WeakRefOK
    <3>10. Counter(y)' = b BY <3>8, <3>9 DEF Counter, HasWeakRef
    <3>11. PICK h : h = <<"slot", s>> OBVIOUS
    <3>12. StrongAt'[h] = b
      <4>1. h \in StrongTokens /\ Ref(h)' = y /\ y # NoObj BY <3>4, <3>5, <3>6, <3>11
      <4>2. StrongAt'[h] = IF Ref(h)' = NoObj THEN NoObj ELSE Counter(Ref(h))' BY <4>1 DEF StrongAt, StrongTokens
      <4> QED BY <3>10, <4>1, <4>2
    <3>13. m_refCount'[b] > 0 BY <1>3, <3>3, <3>6, <3>11, <3>12
    <3>14. ~Falls(x)
      <4>1. cls[x].policy # "Simple" BY <3>3 DEF SwarmMembers, SwarmMember, LinkedSwarmMember, Class
      <4> QED BY <3>3, <3>13, <4>1 DEF Falls, Counter
    <3>15. x \notin D BY <2>2, <3>1
    <3>16. ~Dying(x)' BY <3>3, <3>14, <3>15 DEF Kept, CallsStay
    <3>17. todo'[u][j].arg = x BY <2>1, <3>1
    <3> QED BY <3>1, <3>16, <3>17
  <2>3. \A h \in StrongTokens : FromHere(th, h) /\ Ref(h) \notin E OBVIOUS
  <2>4. \A j \in DOMAIN todo[u] : todo[u][j].call \in LastCalls => todo[u][j].arg \notin E OBVIOUS
  <2> QED BY <2>1, <2>2, <2>3, <2>4, FramesKept
<1>7. FramesTyped(todo') BY <1>0, StackAfter
<1>8. Cascades'
  <2> SUFFICES ASSUME NEW u \in Threads, NEW i \in DOMAIN todo'[u], u # th PROVE Cascade(u, i)' BY DEF Cascades
  <2>1. todo'[u] = todo[u] /\ i \in DOMAIN todo[u] /\ SameLocals(u) BY <1>0, StackAfter
  <2>2. PICK f, x, b : f = todo[u][i] /\ x = f.arg /\ b = weakRef[x] OBVIOUS
  <2>3. f \in Frames /\ FrameOK(u, i) /\ Cascade(u, i) BY <1>0, <2>1, <2>2 DEF FramesTyped, FramesOK, Cascades
  <2>4. CASE f.call \in {"Delete", "EndDelete"}
    <3>1. x \in Objects /\ x \notin E BY <2>1, <2>2, <2>3, <2>4, FrameFacts DEF LastCalls
    <3>2. cls'[x] = cls[x] /\ weakRef'[x] = weakRef[x] BY <3>1 DEF Unharmed
    <3>3. ASSUME cls[x] = FixedSwarmMember, m_refCount[b] > 0 PROVE m_refCount'[b] > 0
      <4>1. cls[x].policy = "WeakRef" /\ cls[x] # SwarmMember BY <3>3 DEF FixedSwarmMember, SwarmMember, Class
      <4>2. DyingOK(u, i, x) BY <2>2, <2>3, <2>4 DEF FrameOK
      <4>3. b # NoObj /\ Throwing(u, x) BY <2>2, <3>3, <4>1, <4>2 DEF DyingOK, Pos
      <4>4. b \in Objects /\ cls[b] = FixedSwarm BY <1>0, <2>2, <3>1, <3>3, <4>3, SwarmOfMember
      <4>5. ~(Len(todo[u]) = 2 /\ todo[u][2] = FreeMember(x))
        <5> SUFFICES ASSUME Len(todo[u]) = 2, todo[u][2] = FreeMember(x) PROVE FALSE OBVIOUS
        <5>1. 2 \in DOMAIN todo[u] BY <1>0 DEF FramesTyped
        <5>2. FrameOK(u, 2) BY <1>0, <5>1 DEF FramesOK
        <5> QED BY <4>1, <5>2 DEF FrameOK, FreeMember
      <4>6. PICK s \in Own(u) : strong[s] = b BY <2>2, <4>3, <4>5 DEF Throwing, HoldsOnly
      <4>7. PICK h : h = <<"slot", s>> OBVIOUS
      <4>8. h \in StrongTokens /\ Ref(h) = b /\ Ref(h)' = b BY <2>1, <4>6, <4>7, OwnPlaces, RefIs DEF SameLocals
      <4>9. cls'[b] = cls[b] /\ weakRef'[b] = weakRef[b] BY <4>4, <4>8 DEF Unharmed
      <4>10. weakRef[b] = b
        <5>1. Live(b) BY <1>0, <1>2, <4>4, <4>8 DEF RefsLive
        <5> QED BY <4>4, <5>1, <4>8, <1>2, FixedSwarmCounter, RefCounted
      <4>11. StrongAt'[h] = b
        <5>1. StrongAt'[h] = IF Ref(h)' = NoObj THEN NoObj ELSE Counter(Ref(h))' BY <4>8 DEF StrongAt, StrongTokens
        <5>2. Counter(b)' = b BY <4>4, <4>9, <4>10 DEF Counter, FixedSwarm, Class
        <5> QED BY <1>2, <4>4, <4>8, <5>1, <5>2
      <4> QED BY <1>3, <4>4, <4>8, <4>11
    <3>4. CascadeStays(u, i) BY <2>2, <3>2, <3>3 DEF CascadeStays
    <3> QED BY <2>1, <2>3, <3>4, CascadeOther
  <2>5. CASE f.call \notin {"Delete", "EndDelete"} BY <2>1, <2>2, <2>5 DEF Cascade
  <2> QED BY <2>4, <2>5
<1> QED BY <1>0, <1>1, <1>4, <1>5, <1>6, <1>7, <1>8 DEF IInv

(* The calls around the object x: all that a step takes or makes. *)
LEMMA CallsAround ==
  ASSUME IInv, NEW x \in Objects, NEW th \in Threads, NEW p \in Seq(Frames), StackStep(th, p),
         todo[th] # <<>>, todo[th][1].call \in LastCalls => todo[th][1].arg = x,
         \A i \in DOMAIN p : p[i].call \in LastCalls => p[i] = EndDelete(x),
         \A i, j \in DOMAIN p : p[i] = EndDelete(x) /\ p[j] = EndDelete(x) => i = j,
         \/ todo[th][1] \in DyingFrames(x) \/ ~Dying(x)
         \/ \A i \in DOMAIN p : p[i] # EndDelete(x)
  PROVE  /\ CallsElsewhere(x) /\ Onces'
         /\ (\E i \in DOMAIN p : p[i] = EndDelete(x)) => Occurs({EndDelete(x)})'
         /\ todo[th][1] \in DyingFrames(x) /\ (\A i \in DOMAIN p : p[i] # EndDelete(x)) => ~Dying(x)'
         /\ todo[th][1] \in MemberFrames(x) => ~Occurs(MemberFrames(x))'
         /\ todo[th][1] \notin MemberFrames(x) => (Occurs(MemberFrames(x))' <=> Occurs(MemberFrames(x)))
<1>0. FramesTyped(todo) /\ Onces BY DEF IInv
<1>1. PICK t : t = todo[th][1] OBVIOUS
<1>2. ASSUME NEW C, t \notin C, \A i \in DOMAIN p : p[i] \notin C
      PROVE  /\ OccursIn(todo', C) <=> OccursIn(todo, C)
             /\ AtMostOnceIn(todo, C) => AtMostOnceIn(todo', C)
  BY <1>0, <1>1, <1>2, OccursKept
<1>3. ASSUME NEW y \in Objects, y # x
      PROVE  /\ \A i \in DOMAIN p : p[i] \notin {Delete(y)} /\ p[i] \notin {EndDelete(y)}
             /\ \A i \in DOMAIN p : p[i] \notin DyingFrames(y)
             /\ \A i \in DOMAIN p : p[i] \notin MemberFrames(y)
             /\ t \notin {Delete(y)} /\ t \notin {EndDelete(y)} /\ t \notin DyingFrames(y) /\ t \notin MemberFrames(y)
  BY <1>1, <1>3 DEF LastCalls, Delete, EndDelete, DyingFrames, MemberFrames
<1>4. CallsElsewhere(x)
  <2> SUFFICES ASSUME NEW y \in Objects, y # x
               PROVE /\ Occurs({Delete(y)})' <=> Occurs({Delete(y)})
                     /\ Occurs({EndDelete(y)})' <=> Occurs({EndDelete(y)})
                     /\ Dying(y)' <=> Dying(y)
                     /\ Occurs(MemberFrames(y))' <=> Occurs(MemberFrames(y))
    BY DEF CallsElsewhere
  <2>1. Occurs({Delete(y)})' <=> Occurs({Delete(y)}) BY <1>2, <1>3 DEF Occurs
  <2>2. Occurs({EndDelete(y)})' <=> Occurs({EndDelete(y)}) BY <1>2, <1>3 DEF Occurs
  <2>3. Dying(y)' <=> Dying(y) BY <1>2, <1>3 DEF Dying, Occurs
  <2>4. Occurs(MemberFrames(y))' <=> Occurs(MemberFrames(y)) BY <1>2, <1>3 DEF Occurs
  <2> QED BY <2>1, <2>2, <2>3, <2>4
<1>5. AtMostOnceIn(todo, DyingFrames(x)) /\ AtMostOnceIn(todo, MemberFrames(x)) BY <1>0 DEF Onces
<1>6. \A i \in DOMAIN p : p[i] \notin MemberFrames(x)
  BY DEF MemberFrames, LastCalls, EndDelete
<1>7. \A i \in DOMAIN p : p[i] \in DyingFrames(x) => p[i] = EndDelete(x)
  BY DEF DyingFrames, LastCalls, Delete, EndDelete
<1>8. EndDelete(x) \in DyingFrames(x) BY DEF DyingFrames
<1>9. /\ t \in MemberFrames(x) => ~OccursIn(todo', MemberFrames(x))
      /\ t \notin MemberFrames(x) => (OccursIn(todo', MemberFrames(x)) <=> OccursIn(todo, MemberFrames(x)))
      /\ AtMostOnceIn(todo', MemberFrames(x))
  <2>1. CASE t \in MemberFrames(x) BY <1>0, <1>1, <1>5, <1>6, <2>1, OccursGone
  <2>2. CASE t \notin MemberFrames(x) BY <1>2, <1>5, <1>6, <2>2
  <2> QED BY <2>1, <2>2
<1>10. CASE \E k \in DOMAIN p : p[k] = EndDelete(x)
  <2>1. PICK k \in DOMAIN p : p[k] = EndDelete(x) BY <1>10
  <2>2. \A i \in DOMAIN p : p[i] \in DyingFrames(x) => i = k BY <1>7, <2>1
  <2>3. t \in DyingFrames(x) \/ ~OccursIn(todo, DyingFrames(x)) BY <1>1, <2>1 DEF Dying, Occurs
  <2>4. AtMostOnceIn(todo', DyingFrames(x)) BY <1>0, <1>1, <1>5, <1>8, <2>1, <2>2, <2>3, OccursPut
  <2>5. Occurs({EndDelete(x)})'
    <3>1. k \in DOMAIN todo'[th] /\ todo'[th][k] = p[k] BY <1>0, StackAfter DEF Stacked
    <3> QED BY <2>1, <3>1 DEF Occurs, OccursIn
  <2>6. Onces'
    <3> SUFFICES ASSUME NEW y \in Objects PROVE AtMostOnceIn(todo', DyingFrames(y)) /\ AtMostOnceIn(todo', MemberFrames(y))
      BY DEF Onces
    <3> QED BY <1>0, <1>2, <1>3, <1>9, <2>4 DEF Onces
  <2> QED BY <1>1, <1>4, <1>9, <1>10, <2>5, <2>6 DEF Occurs
<1>11. CASE \A k \in DOMAIN p : p[k] # EndDelete(x)
  <2>1. \A i \in DOMAIN p : p[i] \notin DyingFrames(x) BY <1>7, <1>11
  <2>2. AtMostOnceIn(todo', DyingFrames(x)) /\ (t \in DyingFrames(x) => ~OccursIn(todo', DyingFrames(x)))
    <3>1. CASE t \in DyingFrames(x) BY <1>0, <1>1, <1>5, <2>1, <3>1, OccursGone
    <3>2. CASE t \notin DyingFrames(x) BY <1>2, <1>5, <2>1, <3>2
    <3> QED BY <3>1, <3>2
  <2>3. Onces'
    <3> SUFFICES ASSUME NEW y \in Objects PROVE AtMostOnceIn(todo', DyingFrames(y)) /\ AtMostOnceIn(todo', MemberFrames(y))
      BY DEF Onces
    <3> QED BY <1>0, <1>2, <1>3, <1>9, <2>2 DEF Onces
  <2> QED BY <1>1, <1>4, <1>9, <1>11, <2>2, <2>3 DEF Occurs, Dying
<1> QED BY <1>10, <1>11

(* The calls of the thread that stay on its stack are as they should be. *)
LEMMA RestKept ==
  ASSUME IInv, NEW E, Unharmed(E), NEW th \in Threads, NEW p \in Seq(Frames), StackStep(th, p),
         SameLocals(th), \A h \in StrongTokens : Ref(h) \notin E,
         todo[th] # <<>> => todo[th][1] # ClearHolder /\ (todo[th][1].call = "ReleaseWeakRef" => p = <<>>),
         \A j \in DOMAIN todo[th] : j # 1 /\ todo[th][j].call \in {"Delete", "EndDelete"} => todo[th][j].arg \notin E,
         (\E j \in DOMAIN todo[th] : j # 1 /\ todo[th][j].call = "ReleaseWeakRef") =>
            \A k \in DOMAIN p : p[k].call \in {"Delete", "EndDelete"} /\ cls'[p[k].arg] = FixedSwarmMember,
         NEW i \in DOMAIN todo'[th], i \notin DOMAIN p
  PROVE  (todo'[th][i].call # "FreeMember" => FrameOK(th, i)') /\ Cascade(th, i)'
<1>0. TypeOK /\ Heap /\ FramesTyped(todo) /\ FramesOK /\ Cascades BY DEF IInv
<1>1. \A x \in Objects : x \notin E => cls'[x] = cls[x] /\ life'[x] = life[x] /\ weakRef'[x] = weakRef[x]
  BY DEF Unharmed
<1>2. Stacked(todo[th], p, todo'[th]) BY <1>0, StackAfter
<1>3. PICK j : j = i - Len(p) + 1 OBVIOUS
<1>4. j \in DOMAIN todo[th] /\ j # 1 /\ todo'[th][i] = todo[th][j] BY <1>2, <1>3 DEF Stacked
<1>5. PICK f : f = todo[th][j] OBVIOUS
<1>6. FrameOK(th, j) BY <1>0, <1>4 DEF FramesOK
<1>7. /\ f \in Frames /\ todo[th] # <<>> /\ j > 1
      /\ f.call \in {"Delete", "EndDelete", "ReleaseWeakRef", "AssignWeak", "Place", "FreeMember"}
      /\ f.call = "AssignWeak" => todo[th][1].call = "ReleaseWeakRef" /\ j = 2
      /\ f.call \in {"AssignWeak", "Place"} => j = Len(todo[th])
  BY <1>0, <1>4, <1>5, BelowTop
<1>9. todo[th] \in Seq(Frames) /\ Len(p) \in Nat /\ Len(todo[th]) \in Nat /\ j \in Nat BY <1>0, <1>4 DEF FramesTyped
<1>10. i = j + Len(p) - 1 /\ i \in Nat
  <2>1. i \in Nat
    <3>1. todo'[th] \in Seq(Frames) BY <1>2 DEF Stacked
    <3> QED BY <3>1
  <2> QED BY <1>3, <1>9, <2>1
<1>11. Len(todo'[th]) = Len(todo[th]) + Len(p) - 1 BY <1>2, <1>7, <1>9 DEF Stacked
<1>12. j = Len(todo[th]) => i = Len(todo'[th]) BY <1>10, <1>11
<1>17. Cascade(th, i)'
  <2> SUFFICES ASSUME NEW k \in DOMAIN todo[th], k # 1 PROVE CascadeStays(th, k) BY <1>0, CascadeRest
  <2> SUFFICES ASSUME todo[th][k].call \in {"Delete", "EndDelete"} PROVE CascadeStays(th, k) BY DEF CascadeStays
  <2>1. PICK o : o = todo[th][k].arg OBVIOUS
  <2>2. todo[th][k] \in Frames /\ FrameOK(th, k) BY <1>0 DEF FramesTyped, FramesOK
  <2>3. o \in Objects /\ o \notin E BY <2>1, <2>2, FrameFacts
  <2>4. DyingOK(th, k, o) BY <2>1, <2>2 DEF FrameOK
  <2>5. cls[o] = FixedSwarmMember => ~Pos(weakRef[o]) BY <2>4 DEF DyingOK, FixedSwarmMember, Class
  <2> QED BY <1>1, <2>1, <2>3, <2>5 DEF CascadeStays, Pos
<1>13. CASE f.call \in {"Delete", "EndDelete"}
  <2>1. f.arg \in Objects /\ f.arg \notin E BY <1>4, <1>5, <1>7, <1>13, FrameFacts
  <2>2. DyingOK(th, j, f.arg) BY <1>5, <1>6, <1>13 DEF FrameOK
  <2>3. DyingOK(th, i, f.arg)'
    <3>1. PICK o \in Objects : o = f.arg BY <2>1
    <3>2. cls[o].policy = "WeakRef" => weakRef[o] \in Objects /\ ~Pos(weakRef[o])
      BY <1>0, <1>4, <2>2, <3>1 DEF DyingOK, TypeOK, RefTypeOK, Pointers
    <3>3. PICK b : b = weakRef[o] OBVIOUS
    <3>4. cls[o].policy = "WeakRef" => ~Pos(b)' /\ b # NoObj BY <3>2, <3>3, RefCountingAssumption DEF Unharmed
    <3>5. cls'[o] = cls[o] /\ weakRef'[o] = b BY <1>1, <2>1, <3>1, <3>3
    <3> QED BY <3>1, <3>4, <3>5 DEF DyingOK
  <2>4. cls'[f.arg] = cls[f.arg] /\ life'[f.arg] = life[f.arg] BY <1>1, <2>1
  <2> QED BY <1>4, <1>5, <1>6, <1>13, <1>17, <2>3, <2>4 DEF FrameOK
<1>14. CASE f.call = "AssignWeak"
  <2>1. p = <<>> BY <1>7, <1>14
  <2>2. Len(p) = 0 BY <2>1
  <2>3. i = 1 /\ i = Len(todo'[th])
    <3>1. j = 2 /\ i = Len(todo'[th]) BY <1>7, <1>12, <1>14
    <3> QED BY <1>10, <2>2, <3>1
  <2>4. Own(th)' = Own(th) BY DEF Own
  <2>5. PICK s \in Own(th) : strong[s] = f.arg.m_ptr BY <1>5, <1>6, <1>14 DEF FrameOK
  <2>6. f.arg.m_ptr \notin E /\ f.arg.m_ptr \in Objects
    <3>1. <<"slot", s>> \in StrongTokens /\ Ref(<<"slot", s>>) = strong[s] BY OwnPlaces, RefIs
    <3> QED BY <1>7, <1>14, <2>5, <3>1, FrameFacts
  <2>7. cls'[f.arg.m_ptr] = cls[f.arg.m_ptr] /\ weakRef'[f.arg.m_ptr] = weakRef[f.arg.m_ptr] BY <1>1, <2>6
  <2> QED BY <1>4, <1>5, <1>6, <1>14, <1>17, <2>3, <2>4, <2>7 DEF FrameOK, SameLocals
<1>15. CASE f.call = "Place"
  <2>1. i = Len(todo'[th]) BY <1>7, <1>12, <1>15
  <2>2. holder[th] = NoObj BY <1>5, <1>6, <1>7, <1>15 DEF FrameOK
  <2>3. holder'[th] = NoObj BY <2>2 DEF SameLocals
  <2> QED BY <1>4, <1>5, <1>15, <1>17, <2>1, <2>3 DEF FrameOK
<1>16. CASE f.call = "ReleaseWeakRef"
  <2> SUFFICES ASSUME NEW k \in 1..(i-1)
               PROVE  todo'[th][k].call \in {"Delete", "EndDelete"} /\ cls'[todo'[th][k].arg] = FixedSwarmMember
    BY <1>4, <1>5, <1>16, <1>17 DEF FrameOK
  <2>1. CASE k \in DOMAIN p
    <3>1. todo'[th][k] = p[k] BY <1>2, <2>1 DEF Stacked
    <3> QED BY <1>4, <1>5, <1>16, <2>1, <3>1
  <2>2. CASE k \notin DOMAIN p
    <3>1. todo'[th] \in Seq(Frames) BY <1>2 DEF Stacked
    <3>2. PICK n \in Nat : n = Len(p) BY <1>9
    <3>3. i \in 1..Len(todo'[th]) /\ Len(todo'[th]) \in Nat BY <3>1
    <3>4. k \in DOMAIN todo'[th]
      <4>1. k \in 1..Len(todo'[th]) BY <1>10, <3>3
      <4> QED BY <3>1, <4>1
    <3>5. PICK l : l = k - Len(p) + 1 OBVIOUS
    <3>6. l \in DOMAIN todo[th] /\ l # 1 /\ todo'[th][k] = todo[th][l] BY <1>2, <2>2, <3>4, <3>5 DEF Stacked
    <3>7. l \in 1..(j-1)
      <4>1. l \in 1..Len(todo[th]) BY <1>9, <3>6
      <4> QED BY <1>9, <1>10, <3>2, <3>5, <4>1
    <3>8. todo[th][l].call \in {"Delete", "EndDelete"} /\ cls[todo[th][l].arg] = FixedSwarmMember
      BY <1>5, <1>6, <1>16, <3>7 DEF FrameOK
    <3>9. todo[th][l].arg \in Objects /\ todo[th][l].arg \notin E
      <4>1. todo[th][l] \in Frames BY <1>0, <3>6 DEF FramesTyped
      <4> QED BY <3>6, <3>8, <4>1, FrameFacts
    <3> QED BY <1>1, <3>6, <3>8, <3>9
  <2> QED BY <2>1, <2>2
<1> QED BY <1>4, <1>5, <1>7, <1>13, <1>14, <1>15, <1>16, <1>17
-----------------------------------------------------------------------------
(* Nobody else has a call about the object the top call destroys. *)
LEMMA OnlyHere ==
  ASSUME IInv, NEW th \in Threads, NEW x \in Objects, todo[th] # <<>>, todo[th][1] \in DyingFrames(x)
  PROVE  /\ Dying(x)
         /\ \A u \in Threads : \A j \in DOMAIN todo[u] : u # th \/ j # 1 =>
              \/ todo[u][j].call \notin LastCalls
              \/ todo[u][j].arg # x
              \/ u = th /\ j = 2 /\ todo[u][j] = FreeMember(x) /\ Len(todo[th]) = 2
         /\ \A j \in DOMAIN todo[th] : j # 1 /\ todo[th][j].call = "FreeMember" => todo[th][j].arg = x
<1>0. FramesTyped(todo) /\ FramesOK /\ Onces BY DEF IInv
<1>1. 1 \in DOMAIN todo[th] BY <1>0 DEF FramesTyped
<1>2. Dying(x) BY <1>1 DEF Dying, Occurs, OccursIn
<1>3. cls[x].policy = "WeakRef" => weakRef[x] # NoObj
  <2>1. FrameOK(th, 1) BY <1>0, <1>1 DEF FramesOK
  <2>2. todo[th][1].call \in {"Delete", "EndDelete"} /\ todo[th][1].arg = x BY DEF DyingFrames, Delete, EndDelete
  <2>3. DyingOK(th, 1, x) BY <2>1, <2>2 DEF FrameOK
  <2> QED BY <2>3 DEF DyingOK
<1>4. ASSUME NEW u \in Threads, NEW j \in DOMAIN todo[u], u # th \/ j # 1, todo[u][j].call \in LastCalls, todo[u][j].arg = x
      PROVE  u = th /\ j = 2 /\ todo[u][j] = FreeMember(x) /\ Len(todo[th]) = 2
  <2>1. PICK f : f = todo[u][j] OBVIOUS
  <2>2. f \in Frames /\ FrameOK(u, j) /\ f.call \in LastCalls /\ f.arg = x BY <1>0, <1>4, <2>1 DEF FramesTyped, FramesOK
  <2>3. f \notin DyingFrames(x) BY <1>0, <1>1, <1>4, <2>1 DEF Onces, AtMostOnceIn
  <2>4. f.call \notin {"Delete", "EndDelete"}
    <3>1. f.call \in {"Delete", "EndDelete"} => f = [call |-> f.call, arg |-> x] BY <2>2, FrameFacts
    <3> QED BY <2>3, <3>1 DEF DyingFrames, Delete, EndDelete
  <2>5. f.call # "AddSwarmMember" BY <1>2, <2>1, <2>2 DEF FrameOK
  <2>6. f.call = "FreeMember" BY <2>2, <2>4, <2>5 DEF LastCalls
  <2>7. f = FreeMember(x) BY <2>2, <2>6, FrameFacts DEF FreeMember
  <2>8. cls[x].policy = "WeakRef" BY <2>1, <2>2, <2>6 DEF FrameOK, SwarmMember, Class
  <2>9. j = 2 /\ todo[u][1] \in DyingFrames(x) /\ j = Len(todo[u])
    BY <1>3, <2>1, <2>2, <2>6, <2>8 DEF FrameOK, DyingFrames
  <2>10. u = th
    <3>1. 1 \in DOMAIN todo[u] BY <1>0, <1>4, <2>9 DEF FramesTyped
    <3> QED BY <1>0, <1>1, <2>9, <3>1 DEF Onces, AtMostOnceIn
  <2> QED BY <2>1, <2>7, <2>9, <2>10
<1>5. ASSUME NEW j \in DOMAIN todo[th], j # 1, todo[th][j].call = "FreeMember" PROVE todo[th][j].arg = x
  <2>1. FrameOK(th, j) BY <1>0 DEF FramesOK
  <2>2. todo[th][1] \in {Delete(todo[th][j].arg), EndDelete(todo[th][j].arg)} BY <1>5, <2>1 DEF FrameOK
  <2> QED BY <2>2 DEF DyingFrames, Delete, EndDelete
<1> QED BY <1>2, <1>4, <1>5

(* An object whose destructor has run, or that gives up its weak count. *)
Fades(x) ==
  /\ UNCHANGED <<program, cls, m_headMember, storage, m_refCount, strong, weak, holder>>
  /\ \A y \in Objects : y # x => life'[y] = life[y] /\ weakRef'[y] = weakRef[y] /\ field'[y] = field[y]
  /\ \A y \in Objects : m_weakRefCount'[y] > 0 <=> m_weakRefCount[y] > 0
  /\ life'[x] = "dead" /\ field'[x] = NullField
  /\ weakRef'[x] = weakRef[x] \/ (weakRef'[x] = NoObj /\ HasWeakRef(cls[x]))

(* It stays in its container. *)
LEMMA FadeStep ==
  ASSUME IInv, NEW x \in Objects, NEW th \in Threads, NEW p \in Seq(Frames), StackStep(th, p), Fades(x),
         Dying(x) \/ cls[x] = OwnedObject, cls[x].policy \in {"Simple", "WeakRef", "Owned"}, cls[x] \in Classes,
         CallsElsewhere(x), Onces', Occurs(MemberFrames(x))' <=> Occurs(MemberFrames(x)),
         Occurs({EndDelete(x)})' \/ (HasWeakRef(cls[x]) /\ weakRef'[x] = NoObj),
         TypeOK', Counts', Reports',
         \A h \in StrongTokens : FromHere(th, h) /\ (Ref(h)' = NoObj \/ \E k \in StrongTokens : Ref(h)' = Ref(k)),
         \A u \in Threads : u # th => \A j \in DOMAIN todo[u] : todo[u][j].call \in LastCalls => todo[u][j].arg # x,
         \A i \in DOMAIN todo'[th] : FrameOK(th, i)' /\ Cascade(th, i)'
  PROVE  IInv'
<1>0. TypeOK /\ Heap /\ RefsLive /\ WeaksLive BY DEF IInv
<1>1. PICK D : D = {x} OBVIOUS
<1>2. /\ program' = program /\ cls' = cls /\ m_headMember' = m_headMember /\ storage' = storage
      /\ m_refCount' = m_refCount /\ strong' = strong /\ weak' = weak /\ holder' = holder
  BY DEF Fades
<1>3. \A y \in Objects : y # x => life'[y] = life[y] /\ weakRef'[y] = weakRef[y] /\ field'[y] = field[y]
  BY DEF Fades
<1>4. \A b \in Objects : Pos(b)' <=> Pos(b) BY <1>2 DEF Pos
<1>5. \A h \in StrongTokens : Ref(h) # x
  <2>1. ~Live(x) BY DEF Live
  <2>2. x # NoObj BY RefCountingAssumption
  <2> QED BY <1>0, <2>1, <2>2 DEF RefsLive
<1>6. ClassOK(x) /\ WeakRefOK(x) /\ ListsOK(x) /\ CountsOK(x) BY <1>0 DEF Heap
<1>7. ~Pos(x)
  <2>1. Pos(x) => ~Dying(x) /\ Counter(x) = x BY <1>6 DEF CountsOK
  <2>2. cls[x] = OwnedObject => weakRef[x] = NoObj BY <1>6 DEF WeakRefOK, HasWeakRef, OwnedObject, Class
  <2>3. cls[x] = OwnedObject => Counter(x) = NoObj BY <2>2 DEF Counter, OwnedObject, Class
  <2> QED BY <2>1, <2>3, RefCountingAssumption
<1>8. ASSUME NEW z \in Objects, x \in Inside(z)
      PROVE  /\ cls[x] \in Members /\ (weakRef[x] = z \/ weakRef[x] = NoObj) /\ Dying(x)
             /\ x \in Range(m_headMember[z]) => ~Pos(z) /\ ~Occurs(MemberFrames(x))
  <2>1. ListsOK(z) BY <1>0 DEF Heap
  <2>2. cls[x] \in Members /\ (weakRef[x] = z \/ weakRef[x] = NoObj) BY <1>8, <2>1 DEF ListsOK, Inside, Members
  <2>3. Dying(x)
    <3>1. OwnedObject \notin Members BY DEF Members, SwarmMembers, SwarmMember, LinkedSwarmMember, FixedSwarmMember, OwnedObject, Class
    <3> QED BY <2>2, <3>1
  <2> QED BY <2>1, <2>2, <2>3 DEF ListsOK
<1>9. Unharmed(D) BY <1>1, <1>2, <1>3, <1>4 DEF Unharmed
<1>10. Kept(D)
  <2>1. \A y \in Objects : y \notin D => SameObject(y) BY <1>1, <1>2, <1>3 DEF SameObject, Fades
  <2>2. \A y \in Objects : y \notin D => CallsStay(y) BY <1>1, <1>2 DEF CallsStay, CallsElsewhere, Falls
  <2>3. \A b : Inside(b)' = Inside(b) BY <1>2 DEF Inside
  <2>4. \A z \in Objects : x \in Inside(z) => /\ weakRef'[x] = z \/ weakRef'[x] = NoObj
                                              /\ x \in Range(m_headMember[z]) => ~Pos(z)' /\ ~Occurs(MemberFrames(x))'
    BY <1>4, <1>8 DEF Fades
  <2>5. life'[x] = "dead" BY DEF Fades
  <2> QED BY <1>1, <1>2, <1>4, <2>1, <2>2, <2>3, <2>4, <2>5 DEF Kept
<1>11. (ClassOK(x) /\ FieldOK(x) /\ WeakRefOK(x) /\ ListsOK(x) /\ CountsOK(x))'
  <2>0. life'[x] = "dead" /\ field'[x] = NullField /\ (weakRef'[x] = weakRef[x] \/ weakRef'[x] = NoObj) BY DEF Fades
  <2>1. ClassOK(x)'
    <3>1. cls[x] # NoClass /\ ~IsStatic(x) BY <1>6, ClassFacts DEF ClassOK
    <3> QED BY <1>2, <1>6, <2>0, <3>1 DEF ClassOK, IsStatic, StaticClasses
  <2>2. FieldOK(x)' BY <2>0 DEF FieldOK, NullField
  <2>3. WeakRefOK(x)'
    <3>1. storage'[weakRef'[x]] = storage[weakRef'[x]] /\ cls'[weakRef'[x]] = cls[weakRef'[x]] BY <1>2
    <3>2. weakRef'[x] # NoObj => weakRef'[x] = weakRef[x] BY <2>0
    <3> QED BY <1>2, <1>6, <2>0, <3>1, <3>2 DEF WeakRefOK
  <2>4. ListsOK(x)'
    <3>0. Range(m_headMember[x]) \subseteq Objects /\ storage[x] \subseteq Objects BY <1>0 DEF TypeOK, RefTypeOK, Range
    <3>1. x \notin Inside(x)
      <4>1. x \in Inside(x) => cls[x] \in Swarms \cup {FixedSwarm}
        <5>1. m_headMember[x] = <<>> => Range(m_headMember[x]) = {} BY DEF Range
        <5> QED BY <1>6, <5>1 DEF ClassOK, Inside
      <4> QED BY <1>8, <4>1, ClassFacts
    <3>2. \A m \in Inside(x) : m \in Objects /\ m # x BY <3>0, <3>1 DEF Inside
    <3>3. \A m \in Range(m_headMember[x]) : Occurs(MemberFrames(m))' <=> Occurs(MemberFrames(m))
      BY <3>2 DEF CallsElsewhere, Inside
    <3> QED BY <1>2, <1>3, <1>4, <1>6, <1>7, <3>2, <3>3 DEF ListsOK, Inside
  <2>5. CountsOK(x)' BY <1>2, <1>4, <1>6, <1>7, <2>0 DEF CountsOK, Fades
  <2> QED BY <2>1, <2>2, <2>3, <2>4, <2>5
<1>12. \A u \in Threads : WeakLive(weak[u])'
  <2> SUFFICES ASSUME NEW u \in Threads PROVE WeakLive(weak[u])' OBVIOUS
  <2>1. PICK w : w = weak[u] OBVIOUS
  <2>2. WeakLive(w) BY <1>0, <2>1 DEF WeaksLive
  <2>3. WeakLive(w)'
    <3>1. CASE w = EmptyWeakPtr BY <3>1 DEF WeakLive
    <3>2. CASE w # EmptyWeakPtr
      <4>1. PICK y, b : y = w.m_ptr /\ b = w.m_weakRef OBVIOUS
      <4>2. /\ y \in Objects /\ b \in Objects
            /\ cls[y].policy = "WeakRef" /\ cls[b] # NoClass /\ y \in Owned(b)
            /\ Pos(b) => /\ life[y] = "alive" /\ weakRef[y] = b /\ ~Dying(y)
        BY <2>2, <3>2, <4>1 DEF WeakLive
      <4>3. Pos(b) => y # x BY <4>2 DEF OwnedObject, Class
      <4>4. Owned(b)' = Owned(b) BY <1>2 DEF Owned
      <4>5. Pos(b)' => life'[y] = "alive" /\ weakRef'[y] = b /\ ~Dying(y)' BY <1>3, <1>4, <4>2, <4>3 DEF CallsElsewhere
      <4>6. /\ cls'[y].policy = "WeakRef" /\ cls'[b] # NoClass /\ y \in Owned(b)' BY <1>2, <4>2, <4>4
      <4> QED BY <4>1, <4>2, <4>5, <4>6 DEF WeakLive
    <3> QED BY <3>1, <3>2
  <2>4. weak'[u] = w BY <1>2, <2>1
  <2> QED BY <2>3, <2>4
<1>13. \A u \in Threads : SameLocals(u) BY <1>2 DEF SameLocals
<1>14. \A h \in StrongTokens : FromHere(th, h) /\ Ref(h) \notin D /\ (Ref(h) \in D => UNCHANGED weakRef) BY <1>1, <1>5
<1>15. \A h \in StrongTokens : \/ Ref(h)' = NoObj
                               \/ \E k \in StrongTokens : Ref(h)' = Ref(k) /\ Ref(k) \notin D
                               \/ Live(Ref(h))'
  BY <1>1, <1>5
<1>16. \A u \in Threads : u # th => \A j \in DOMAIN todo[u] :
          /\ todo[u][j].call \in LastCalls => todo[u][j].arg \notin D
          /\ todo[u][j].call = "AddSwarmMember" => todo[u][j].arg \notin D
  BY <1>1 DEF LastCalls
<1>17. \A y \in Objects : y \in D => (ClassOK(y) /\ FieldOK(y) /\ WeakRefOK(y) /\ ListsOK(y) /\ CountsOK(y))' BY <1>1, <1>11
<1> HIDE DEF Fades
<1> QED BY <1>9, <1>10, <1>12, <1>13, <1>14, <1>15, <1>16, <1>17, DestroyStep
-----------------------------------------------------------------------------
(* The calls after the destructor of x: the Release of its field, EndDelete. *)
LEMMA DeleteFrames ==
  ASSUME IInv, NEW th \in Threads, NEW x \in Objects, todo[th] # <<>>, todo[th][1] = Delete(x),
         NEW p \in Seq(Frames), StackStep(th, p), Fades(x), weakRef' = weakRef, NEW k \in DOMAIN p,
         p[k] = EndDelete(x), \A i \in DOMAIN p : i = k \/ (i = 1 /\ p[i].call = "Release"),
         field[x].counts = FALSE => k = 1 /\ Len(p) = 1 /\ \A h \in StrongTokens : Ref(h)' = Ref(h)
  PROVE  \A i \in DOMAIN todo'[th] : FrameOK(th, i)' /\ Cascade(th, i)'
<1>0. TypeOK /\ Heap /\ FramesTyped(todo) /\ FramesOK /\ Cascades /\ RefsLive BY DEF IInv
<1>1. 1 \in DOMAIN todo[th] /\ todo[th] \in Seq(Frames) BY <1>0 DEF FramesTyped
<1>2. FrameOK(th, 1) /\ Cascade(th, 1) BY <1>0, <1>1 DEF FramesOK, Cascades
<1>3. todo[th][1].call = "Delete" /\ todo[th][1].arg = x /\ todo[th][1] \in DyingFrames(x) BY DEF Delete, DyingFrames
<1>4. cls[x].policy \in {"Simple", "WeakRef"} /\ DyingOK(th, 1, x) BY <1>2, <1>3 DEF FrameOK
<1>5. Stacked(todo[th], p, todo'[th]) BY <1>0, StackAfter
<1>6. /\ cls' = cls /\ strong' = strong /\ weak' = weak /\ holder' = holder /\ m_refCount' = m_refCount
      /\ life'[x] = "dead" /\ \A y \in Objects : y # x => life'[y] = life[y]
  BY DEF Fades
<1>7. cls[x] \in {SwarmMember, FixedSwarmMember} => field[x].counts = FALSE
  <2>1. FieldOK(x) /\ ClassOK(x) BY <1>0 DEF Heap
  <2>2. cls[x] \in {SwarmMember, FixedSwarmMember} => cls[x] \in Members /\ cls[x] \in Classes /\ ~cls[x].links
    BY ClassFacts DEF Members, SwarmMembers
  <2>3. cls[x] \in {SwarmMember, FixedSwarmMember} => field[x] = NullField BY <2>1, <2>2, ClassFacts DEF FieldOK
  <2> QED BY <2>3 DEF NullField
<1>8. Len(p) = 1 => /\ Len(todo'[th]) = Len(todo[th])
                    /\ \A j \in DOMAIN todo[th] : j # 1 => j \in DOMAIN todo'[th] /\ todo'[th][j] = todo[th][j]
                    /\ \A i \in DOMAIN todo'[th] : i \notin DOMAIN p => i \in DOMAIN todo[th] /\ i # 1
  <2>1. PICK n \in Nat : n = Len(todo[th]) BY <1>1
  <2>2. todo'[th] \in Seq(Frames) BY <1>5 DEF Stacked
  <2>3. DOMAIN todo[th] = 1..n /\ DOMAIN todo'[th] = 1..Len(todo'[th]) BY <1>1, <2>1, <2>2
  <2> QED BY <2>1, <2>2, <2>3, <1>5 DEF Stacked
<1>9. Own(th)' = Own(th) BY DEF Own
<1>10. \A h \in StrongTokens : Ref(h) # x
  <2>1. ~Live(x) BY <1>3, OnlyHere DEF Live
  <2> QED BY <1>0, <2>1, RefCountingAssumption DEF RefsLive
<1>11. ASSUME Pos(weakRef[x]), cls[x].policy = "WeakRef" PROVE Throwing(th, x)' /\ k = 1
  <2>1. Throwing(th, x) BY <1>4, <1>11 DEF DyingOK
  <2>2. cls[x] \in {SwarmMember, FixedSwarmMember}
    <3>1. CASE Len(todo[th]) = 2 /\ todo[th][2] = FreeMember(x)
      <4>1. 2 \in DOMAIN todo[th] BY <1>1, <3>1
      <4>2. FrameOK(th, 2) BY <1>0, <4>1 DEF FramesOK
      <4> QED BY <3>1, <4>2 DEF FrameOK, FreeMember
    <3>2. CASE cls[x] = FixedSwarmMember BY <3>2
    <3> QED BY <2>1, <3>1, <3>2 DEF Throwing
  <2>3. k = 1 /\ Len(p) = 1 /\ \A h \in StrongTokens : Ref(h)' = Ref(h) BY <1>7, <2>2
  <2>4. Len(todo[th]) = 2 => 2 \in DOMAIN todo[th] BY <1>1
  <2>5. CASE Len(todo[th]) = 2 /\ todo[th][2] = FreeMember(x)
    <3>1. Len(todo'[th]) = 2 /\ todo'[th][2] = FreeMember(x) BY <1>8, <2>3, <2>4, <2>5
    <3> QED BY <2>1, <2>3, <3>1 DEF Throwing
  <2>6. CASE Len(todo[th]) = 1 /\ cls[x] = FixedSwarmMember /\ HoldsOnly(th, weakRef[x])
    <3>1. PICK b : b = weakRef[x] OBVIOUS
    <3>2. HoldsOnly(th, b)' BY <1>6, <1>9, <2>3, <2>6, <3>1 DEF HoldsOnly
    <3>3. HoldsOnly(th, weakRef[x])' BY <3>1, <3>2
    <3>4. Len(todo'[th]) = 1 /\ cls'[x] = FixedSwarmMember BY <1>6, <1>8, <2>3, <2>6
    <3>5. weakRef'[x] # x BY <2>1 DEF Throwing
    <3> QED BY <2>3, <3>3, <3>4, <3>5 DEF Throwing
  <2> QED BY <2>1, <2>3, <2>5, <2>6 DEF Throwing
<1>12. DyingOK(th, k, x)'
  <2>1. PICK b : b = weakRef[x] OBVIOUS
  <2>2. Pos(b)' <=> Pos(b) BY <1>6 DEF Pos
  <2>3. weakRef'[x] = b /\ cls'[x] = cls[x] BY <1>6, <2>1
  <2>4. Pos(weakRef[x])' <=> Pos(b) BY <2>2, <2>3
  <2>5. cls[x].policy = "WeakRef" => b # NoObj /\ (Pos(b) => k = 1 /\ Throwing(th, x)') BY <1>4, <1>11, <2>1 DEF DyingOK
  <2> QED BY <2>3, <2>4, <2>5 DEF DyingOK
<1>13. todo'[th][k] = EndDelete(x) /\ todo'[th][k].call = "EndDelete" /\ todo'[th][k].arg = x
  BY <1>5 DEF Stacked, EndDelete
<1>14. FrameOK(th, k)' BY <1>4, <1>6, <1>12, <1>13 DEF FrameOK
<1>15. Cascade(th, k)'
  <2> SUFFICES ASSUME cls[x] = FixedSwarmMember, ~Pos(weakRef[x])
               PROVE  \E j \in DOMAIN todo'[th] : j > k /\ todo'[th][j] = ReleaseWeakRef(weakRef[x])
    BY <1>6, <1>13 DEF Cascade, Pos
  <2>1. k = 1 /\ Len(p) = 1 BY <1>7
  <2>2. PICK j \in DOMAIN todo[th] : j > 1 /\ todo[th][j] = ReleaseWeakRef(weakRef[x]) BY <1>2, <1>3 DEF Cascade
  <2>3. j \in Nat BY <1>1
  <2>4. j # 1 BY <2>2, <2>3
  <2> QED BY <1>8, <2>1, <2>2, <2>4
<1>16. ASSUME NEW i \in DOMAIN p, i # k PROVE FrameOK(th, i)' /\ Cascade(th, i)'
  <2>1. i = 1 /\ todo'[th][i].call = "Release" BY <1>5, <1>16 DEF Stacked
  <2>2. FrameOK(th, i)' BY <2>1, ReleaseFrame
  <2> QED BY <2>1, <2>2 DEF Cascade
<1>17. ASSUME NEW i \in DOMAIN todo'[th], i \notin DOMAIN p PROVE FrameOK(th, i)' /\ Cascade(th, i)'
  <2>1. PICK E : E = {x} OBVIOUS
  <2>2. Unharmed(E)
    <3>1. \A b \in Objects : Pos(b)' => Pos(b) BY <1>6 DEF Pos
    <3> QED BY <1>6, <2>1, <3>1 DEF Unharmed
  <2>3. SameLocals(th) BY <1>6 DEF SameLocals
  <2>4. \A h \in StrongTokens : Ref(h) \notin E BY <1>10, <2>1
  <2>5. todo[th][1] # ClearHolder /\ todo[th][1].call # "ReleaseWeakRef" BY <1>3 DEF ClearHolder
  <2>6. \A j \in DOMAIN todo[th] : j # 1 /\ todo[th][j].call \in {"Delete", "EndDelete"} => todo[th][j].arg \notin E
    <3> SUFFICES ASSUME NEW j \in DOMAIN todo[th], j # 1, todo[th][j].call \in {"Delete", "EndDelete"}, todo[th][j].arg = x
                 PROVE  FALSE
      BY <2>1
    <3>1. todo[th][j].call \in LastCalls BY DEF LastCalls
    <3>2. todo[th][j] = FreeMember(x) BY <1>3, <3>1, OnlyHere
    <3> QED BY <3>2 DEF FreeMember
  <2>7. (\E j \in DOMAIN todo[th] : j # 1 /\ todo[th][j].call = "ReleaseWeakRef") =>
            \A l \in DOMAIN p : p[l].call \in {"Delete", "EndDelete"} /\ cls'[p[l].arg] = FixedSwarmMember
    <3> SUFFICES ASSUME NEW j \in DOMAIN todo[th], j # 1, todo[th][j].call = "ReleaseWeakRef", NEW l \in DOMAIN p
                 PROVE  p[l].call \in {"Delete", "EndDelete"} /\ cls'[p[l].arg] = FixedSwarmMember
      OBVIOUS
    <3>1. cls[x] = FixedSwarmMember BY <1>0, <1>3, BelowTop
    <3>2. k = 1 BY <1>7, <3>1
    <3>3. l = k BY <3>2
    <3> QED BY <1>6, <3>1, <3>3 DEF EndDelete
  <2>8. (todo'[th][i].call # "FreeMember" => FrameOK(th, i)') /\ Cascade(th, i)'
    BY <1>17, <2>2, <2>3, <2>4, <2>5, <2>6, <2>7, RestKept
  <2>9. ASSUME todo'[th][i].call = "FreeMember" PROVE FrameOK(th, i)'
    <3>1. PICK j \in DOMAIN todo[th] : j # 1 /\ todo'[th][i] = todo[th][j] BY <1>5, <1>17 DEF Stacked
    <3>2. todo[th][j].arg = x BY <1>3, <2>9, <3>1, OnlyHere
    <3>3. todo[th][j] = FreeMember(x) /\ Len(todo[th]) = 2 /\ j = 2
      BY <1>3, <2>9, <3>1, <3>2, OnlyHere DEF LastCalls
    <3>4. FrameOK(th, 2) BY <1>0, <3>1, <3>3 DEF FramesOK
    <3>5. cls[x] = SwarmMember /\ HoldsSwarm(th, weakRef[x]) BY <3>3, <3>4 DEF FrameOK, FreeMember
    <3>6. k = 1 /\ Len(p) = 1 BY <1>7, <3>5
    <3>7. Len(todo'[th]) = 2 /\ i \in DOMAIN todo[th] /\ i # 1 BY <1>8, <1>17, <3>3, <3>6
    <3>8. i = 2 BY <1>1, <3>3, <3>7
    <3>9. HoldsSwarm(th, weakRef[x])' BY <1>6, <1>9, <3>5 DEF HoldsSwarm
    <3>10. todo'[th][1] = EndDelete(x) BY <1>13, <3>6
    <3> QED BY <1>6, <3>1, <3>3, <3>5, <3>7, <3>8, <3>9, <3>10 DEF FrameOK, FreeMember
  <2> QED BY <2>8, <2>9
<1> QED BY <1>14, <1>15, <1>16, <1>17

(* Delete() of an object: its destructor, and the report of its error. *)
LEMMA DeleteObjectStep ==
  ASSUME IInv, NEW th \in Threads, DeleteObject(th), UNCHANGED holderVars
  PROVE  IInv'
<1>0. TypeOK /\ Heap /\ FramesTyped(todo) /\ FramesOK /\ RefsLive /\ Reports BY DEF IInv
<1>1. Calling(th, "Delete") BY DEF DeleteObject, RunDelete
<1>2. /\ todo[th] # <<>> /\ 1 \in DOMAIN todo[th] /\ todo[th][1] \in Frames
      /\ Head(todo[th]) = todo[th][1] /\ todo[th][1].call = "Delete" /\ Arg(th) = todo[th][1].arg
  BY <1>0, <1>1 DEF Calling, FramesTyped, Arg
<1>3. PICK x \in Objects : x = Arg(th) BY <1>2, FrameFacts
<1>4. todo[th][1] = Delete(x) /\ todo[th][1] \in DyingFrames(x) BY <1>2, <1>3, FrameFacts DEF Delete, DyingFrames
<1>5. life[x] = "alive" /\ cls[x].policy \in {"Simple", "WeakRef"}
  <2>1. FrameOK(th, 1) BY <1>0, <1>2 DEF FramesOK
  <2> QED BY <1>2, <1>3, <2>1 DEF FrameOK
<1>6. ClassOK(x) /\ FieldOK(x) BY <1>0 DEF Heap
<1>7. cls[x] \in Classes BY <1>5, <1>6 DEF ClassOK
<1>8. /\ field \in [Objects -> [m_ptr : Pointers, counts : BOOLEAN]] /\ life \in [Objects -> {"raw", "alive", "dead"}]
      /\ weakRef \in [Objects -> Pointers] /\ NullField \in [m_ptr : Pointers, counts : BOOLEAN]
  BY <1>0 DEF TypeOK, RefTypeOK, NullField, Pointers
<1>9. PICK f : f = field[x] OBVIOUS
<1>10. f.counts \in BOOLEAN /\ (f.counts => f.m_ptr \in Objects /\ f.m_ptr # NoObj)
  BY <1>6, <1>8, <1>9 DEF FieldOK, Pointers
<1>11. /\ life' = [life EXCEPT ![x] = "dead"] /\ field' = [field EXCEPT ![x] = NullField]
       /\ Continue(th, (IF f.counts THEN <<Release(f.m_ptr)>> ELSE <<>>) \o <<EndDelete(x)>>)
       /\ UNCHANGED <<program, cls, weakRef, m_refCount, m_weakRefCount, m_headMember, storage, strong, weak>>
       /\ reported' = (IF cls[x] = ErrorCodeState /\ x \notin handled THEN reported \cup {x} ELSE reported)
       /\ UNCHANGED <<handled, maybe>> /\ UNCHANGED <<holder, raw>>
  BY <1>3, <1>9 DEF DeleteObject, RunDelete, holderVars
<1> HIDE DEF DeleteObject
<1>12. PICK e \in Frames : e = EndDelete(x) BY FrameKinds
<1>13. PICK p \in Seq(Frames), k \in {1, 2} :
          /\ Continue(th, p) /\ k \in DOMAIN p /\ p[k] = EndDelete(x)
          /\ \A i \in DOMAIN p : i = k \/ (i = 1 /\ p[i].call = "Release")
          /\ p # <<>>
          /\ f.counts = FALSE => k = 1 /\ Len(p) = 1
          /\ f.counts => p[1] = Release(f.m_ptr)
  <2>1. CASE f.counts
    <3>1. PICK r \in Frames : r = Release(f.m_ptr) BY <1>10, <2>1, FrameKinds
    <3>6. /\ <<r, e>> \in Seq(Frames) /\ <<r>> \o <<e>> = <<r, e>> /\ DOMAIN <<r, e>> = {1, 2}
          /\ <<r, e>>[1] = r /\ <<r, e>>[2] = e
      BY FewCalls
    <3>2. PICK p \in Seq(Frames) : p = <<r, e>> /\ p = <<r>> \o <<e>> /\ DOMAIN p = {1, 2} /\ p[1] = r /\ p[2] = e
      BY <3>6
    <3>3. Continue(th, p) BY <1>11, <1>12, <2>1, <3>1, <3>2
    <3>4. r.call = "Release" /\ f.counts # FALSE BY <2>1, <3>1 DEF Release
    <3>5. p # <<>> BY <3>2
    <3> QED BY <1>12, <2>1, <3>1, <3>2, <3>3, <3>4, <3>5
  <2>2. CASE f.counts = FALSE
    <3>1. PICK p \in Seq(Frames) : p = <<e>> /\ p = <<>> \o <<e>> /\ DOMAIN p = {1} /\ p[1] = e /\ Len(p) = 1
      BY FewCalls
    <3>2. Continue(th, p) BY <1>11, <1>12, <2>2, <3>1
    <3>3. p # <<>> BY <3>1
    <3> QED BY <1>12, <2>2, <3>1, <3>2, <3>3
  <2> QED BY <1>10, <2>1, <2>2
<1>14. StackStep(th, p) BY <1>0, <1>1, <1>13, ContinueStack
<1>15. /\ life'[x] = "dead" /\ field'[x] = NullField
       /\ \A y \in Objects : y # x => life'[y] = life[y] /\ field'[y] = field[y]
  BY <1>8, <1>11
<1>16. Fades(x) BY <1>11, <1>15 DEF Fades
<1>17. /\ \A h \in StrongTokens : h \notin {<<"field", x>>, <<"release", th>>} => Ref(h)' = Ref(h)
       /\ Ref(<<"release", th>>) = NoObj
       /\ Ref(<<"release", th>>)' = Ref(<<"field", x>>) /\ Ref(<<"field", x>>)' = NoObj
  <2>1. /\ \A h \in StrongTokens : h \notin {<<"field", x>>, <<"release", th>>, <<"publish", th>>} => Ref(h)' = Ref(h)
        /\ Ref(<<"release", th>>) = NoObj /\ Ref(<<"publish", th>>) = NoObj
        /\ Ref(<<"release", th>>)' = (IF p # <<>> /\ p[1].call = "Release" THEN p[1].arg ELSE NoObj)
        /\ Ref(<<"publish", th>>)' = (IF p # <<>> /\ p[1].call = "Publish" THEN p[1].new ELSE NoObj)
    BY <1>0, <1>2, <1>11, <1>13, <1>14, <1>15, StepRefs
  <2>2. Ref(<<"field", x>>) = (IF f.counts THEN f.m_ptr ELSE NoObj) /\ Ref(<<"field", x>>)' = NoObj
    BY <1>9, <1>15, RefIs DEF NullField
  <2>3. f.counts => p[1].call = "Release" /\ p[1].arg = f.m_ptr BY <1>13 DEF Release
  <2>4. f.counts = FALSE => p[1].call = "EndDelete" BY <1>13 DEF EndDelete
  <2> QED BY <1>10, <1>13, <2>1, <2>2, <2>3, <2>4
<1>18. StrongExact' /\ SamePos /\ RefsOK(th)
  <2>1. PICK h, k1 : h = <<"field", x>> /\ k1 = <<"release", th>> OBVIOUS
  <2>2. /\ h \in StrongTokens /\ k1 \in StrongTokens /\ Here(th, h) /\ Here(th, k1)
        /\ Ref(h)' = Ref(k1) /\ Ref(k1)' = Ref(h)
        /\ \A y \in StrongTokens : y \notin {h, k1} => Ref(y)' = Ref(y)
    BY <1>17, <2>1, OwnPlaces, TokenKinds
  <2>3. UNCHANGED <<cls, weakRef, m_refCount>> BY <1>11
  <2> QED BY <2>2, <2>3, CountSwap
<1>19. TypeOK'
  <2>1. life' \in [Objects -> {"raw", "alive", "dead"}] /\ field' \in [Objects -> [m_ptr : Pointers, counts : BOOLEAN]]
    BY <1>8, <1>11
  <2>2. reported' \subseteq Objects BY <1>0, <1>11 DEF TypeOK, ErrorTypeOK
  <2> QED BY <1>0, <1>11, <2>1, <2>2 DEF TypeOK, RefTypeOK, ErrorTypeOK, HolderTypeOK, Value, Error
<1>20. Counts'
  <2>1. \A i \in DOMAIN p : p[i].call \in {"Release", "EndDelete"} BY <1>13 DEF EndDelete
  <2>2. WeakExact' BY <1>2, <1>11, <1>14, <1>18, <1>19, <2>1, WeakKept
  <2>3. \A u \in Threads : OwnerAt'[<<"raw", u>>] = OwnerAt[<<"raw", u>>]
    <3> SUFFICES ASSUME NEW u \in Threads PROVE OwnerAt'[<<"raw", u>>] = OwnerAt[<<"raw", u>>] OBVIOUS
    <3>1. /\ OwnerAt[<<"raw", u>>] = IF raw[u] # NoObj /\ cls[raw[u]] = OwnedObject THEN raw[u] ELSE NoObj
          /\ OwnerAt'[<<"raw", u>>] = IF raw'[u] # NoObj /\ cls'[raw'[u]] = OwnedObject THEN raw'[u] ELSE NoObj
      BY OwnerIs
    <3> QED BY <1>11, <3>1
  <2>4. \A y \in Objects : cls'[y] = OwnedObject /\ life'[y] = "alive" <=> cls[y] = OwnedObject /\ life[y] = "alive"
    <3>1. cls[x] # OwnedObject BY <1>5 DEF OwnedObject, Class
    <3> QED BY <1>11, <1>15, <3>1
  <2>5. OwnerExact' BY <1>2, <1>11, <1>14, <2>1, <2>3, <2>4, OwnersStay
  <2> QED BY <1>18, <2>2, <2>5 DEF Counts
<1>21. /\ CallsElsewhere(x) /\ Onces' /\ Occurs({EndDelete(x)})'
       /\ Occurs(MemberFrames(x))' <=> Occurs(MemberFrames(x))
  <2>1. \A i \in DOMAIN p : p[i].call \in LastCalls => i = k BY <1>13 DEF LastCalls
  <2>2. \A i \in DOMAIN p : p[i] = EndDelete(x) => i = k BY <2>1 DEF EndDelete, LastCalls
  <2>3. todo[th][1] \notin MemberFrames(x) BY <1>2 DEF MemberFrames
  <2> QED BY <1>2, <1>3, <1>4, <1>13, <1>14, <2>1, <2>2, <2>3, CallsAround
<1>22. Reports'
  <2> SUFFICES ASSUME NEW y \in Objects
               PROVE  /\ y \in reported' => life'[y] = "dead" /\ cls'[y] = ErrorCodeState
                      /\ cls'[y] = ErrorCodeState /\ life'[y] = "dead" => (y \in reported' <=> y \notin handled')
    BY DEF Reports
  <2>1. /\ y \in reported => life[y] = "dead" /\ cls[y] = ErrorCodeState
        /\ cls[y] = ErrorCodeState /\ life[y] = "dead" => (y \in reported <=> y \notin handled)
    BY <1>0 DEF Reports
  <2>2. CASE y = x BY <1>5, <1>11, <1>15, <2>1, <2>2
  <2>3. CASE y # x
    <3>1. y \in reported' <=> y \in reported BY <1>11, <2>3
    <3> QED BY <1>11, <1>15, <2>1, <2>3, <3>1
  <2> QED BY <2>2, <2>3
<1>23. \A h \in StrongTokens : FromHere(th, h) /\ (Ref(h)' = NoObj \/ \E k1 \in StrongTokens : Ref(h)' = Ref(k1))
  <2>1. \A h \in StrongTokens : FromHere(th, h) BY <1>18 DEF RefsOK
  <2>2. <<"field", x>> \in StrongTokens BY TokenKinds
  <2> QED BY <1>17, <2>1, <2>2
<1>24. Dying(x) /\ \A u \in Threads : u # th => \A j \in DOMAIN todo[u] : todo[u][j].call \in LastCalls => todo[u][j].arg # x
  BY <1>2, <1>4, OnlyHere
<1>25. \A i \in DOMAIN todo'[th] : FrameOK(th, i)' /\ Cascade(th, i)'
  <2>1. f.counts = FALSE => \A h \in StrongTokens : Ref(h)' = Ref(h)
    <3>1. Ref(<<"field", x>>) = (IF f.counts THEN f.m_ptr ELSE NoObj) BY <1>9, RefIs
    <3> QED BY <1>17, <3>1
  <2>2. weakRef' = weakRef BY <1>11
  <2> QED BY <1>2, <1>4, <1>9, <1>13, <1>14, <1>16, <2>1, <2>2, DeleteFrames
<1> QED BY <1>5, <1>7, <1>14, <1>16, <1>19, <1>20, <1>21, <1>22, <1>23, <1>24, <1>25, FadeStep

(* No call destroys an object that has an owner. *)
LEMMA OwnedCalls ==
  ASSUME IInv, NEW x \in Objects, cls[x] = OwnedObject, life[x] = "alive",
         NEW u \in Threads, NEW j \in DOMAIN todo[u], todo[u][j].call \in LastCalls
  PROVE  todo[u][j].arg # x
<1>1. FrameOK(u, j) BY DEF IInv, FramesOK
<1>2. OwnedObject.policy = "Owned" /\ SwarmMember.policy = "WeakRef" /\ LinkedSwarmMember.policy = "WeakRef"
  BY DEF OwnedObject, SwarmMember, LinkedSwarmMember, Class
<1> QED BY <1>1, <1>2 DEF FrameOK, LastCalls, SwarmMembers

(* Free of an object a THolder owned: its destructor. *)
LEMMA RunFreeStep ==
  ASSUME IInv, NEW th \in Threads, RunFree(th)
  PROVE  IInv'
<1>0. TypeOK /\ Heap /\ FramesTyped(todo) /\ FramesOK /\ RefsLive /\ Reports /\ OwnerExact BY DEF IInv, Counts
<1>1. Calling(th, "Free") BY DEF RunFree
<1>2. /\ todo[th] # <<>> /\ 1 \in DOMAIN todo[th] /\ todo[th][1] \in Frames /\ todo[th] \in Seq(Frames)
      /\ Head(todo[th]) = todo[th][1] /\ todo[th][1].call = "Free" /\ Arg(th) = todo[th][1].arg
  BY <1>0, <1>1 DEF Calling, FramesTyped, Arg
<1>3. PICK x \in Objects : x = Arg(th) BY <1>2, FrameFacts
<1>4. OwnerAt[<<"free", th>>] = x /\ <<"free", th>> \in OwnerTokens BY <1>2, <1>3, OwnerIs
<1>5. cls[x] = OwnedObject /\ life[x] = "alive" BY <1>4, OwnerFact
<1>6. cls[x].policy = "Owned" /\ cls[x] \in Classes BY <1>5, ClassFacts
<1>7. life \in [Objects -> {"raw", "alive", "dead"}] BY <1>0 DEF TypeOK, RefTypeOK
<1>8. PICK e \in Frames, c \in Frames : e = EndDelete(x) /\ c = ClearHolder BY FrameKinds
<1>9. PICK p \in Seq(Frames), k \in {1, 2} :
          /\ Continue(th, p) /\ DOMAIN p = 1..k /\ Len(p) = k /\ p[k] = EndDelete(x)
          /\ \A i \in DOMAIN p : i = k \/ (i = 1 /\ p[i] = ClearHolder)
          /\ p # <<>>
  <2>1. PICK comesBack \in BOOLEAN :
          Continue(th, (IF comesBack THEN <<c>> ELSE <<>>) \o <<e>>)
    BY <1>3, <1>8 DEF RunFree
  <2>2. CASE comesBack
    <3>1. /\ <<c, e>> \in Seq(Frames) /\ <<c>> \o <<e>> = <<c, e>> /\ DOMAIN <<c, e>> = {1, 2} /\ Len(<<c, e>>) = 2
          /\ <<c, e>>[1] = c /\ <<c, e>>[2] = e
      BY FewCalls
    <3>2. PICK p \in Seq(Frames) : p = <<c, e>> /\ p = <<c>> \o <<e>> /\ DOMAIN p = {1, 2} /\ p[1] = c /\ p[2] = e /\ Len(p) = 2
      BY <3>1
    <3>3. Continue(th, p) BY <2>1, <2>2, <3>2
    <3>4. p # <<>> /\ {1, 2} = 1..2 BY <3>2
    <3> HIDE DEF RunFree
    <3> QED BY <1>8, <3>2, <3>3, <3>4
  <2>3. CASE comesBack = FALSE
    <3>1. PICK p \in Seq(Frames) : p = <<e>> /\ p = <<>> \o <<e>> /\ DOMAIN p = {1} /\ p[1] = e /\ Len(p) = 1
      BY FewCalls
    <3>2. Continue(th, p) BY <2>1, <2>3, <3>1
    <3>3. p # <<>> /\ {1} = 1..1 BY <3>1
    <3> HIDE DEF RunFree
    <3> QED BY <1>8, <3>1, <3>2, <3>3
  <2> QED BY <2>1, <2>2, <2>3
<1>10. /\ life' = [life EXCEPT ![x] = "dead"]
       /\ UNCHANGED <<program, cls, weakRef, m_refCount, m_weakRefCount, m_headMember, storage, field, strong, weak>>
       /\ UNCHANGED <<handled, reported, maybe>> /\ UNCHANGED <<holder, raw>>
  BY <1>3 DEF RunFree, holderVars, errorVars
<1> HIDE DEF RunFree
<1>11. StackStep(th, p) BY <1>0, <1>1, <1>9, ContinueStack
<1>12. Stacked(todo[th], p, todo'[th]) BY <1>0, <1>11, StackAfter
<1>13. life'[x] = "dead" /\ \A y \in Objects : y # x => life'[y] = life[y] BY <1>7, <1>10
<1>14. field[x] = NullField
  <2>1. FieldOK(x) BY <1>0 DEF Heap
  <2>2. LinkedSwarmObject.policy = "WeakRef" /\ LinkedSwarmMember.policy = "WeakRef"
    BY DEF LinkedSwarmObject, LinkedSwarmMember, Class
  <2>3. ~(cls[x].takes \/ cls[x].links \/ cls[x].lazy) BY <1>6, <2>2, ClassFacts
  <2> QED BY <2>1, <2>3 DEF FieldOK
<1>15. Fades(x) BY <1>10, <1>13, <1>14 DEF Fades
<1>16. \A i \in DOMAIN p : p[i].call \in {"ClearHolder", "EndDelete"} BY <1>9 DEF EndDelete, ClearHolder
<1>17. \A h \in StrongTokens : Ref(h)' = Ref(h)
  <2>1. p[1].call \in {"ClearHolder", "EndDelete"} BY <1>9, <1>16
  <2>2. /\ \A h \in StrongTokens : h \notin {<<"release", th>>, <<"publish", th>>} => Ref(h)' = Ref(h)
        /\ Ref(<<"release", th>>) = NoObj /\ Ref(<<"publish", th>>) = NoObj
        /\ Ref(<<"release", th>>)' = NoObj /\ Ref(<<"publish", th>>)' = NoObj
    BY <1>0, <1>2, <1>10, <1>11, <2>1, StepRefs
  <2> QED BY <2>2
<1>18. StrongExact' /\ SamePos /\ RefsOK(th)
  <2>1. UNCHANGED <<cls, weakRef, m_refCount>> BY <1>10
  <2> QED BY <1>17, <2>1, CountSame
<1>19. TypeOK'
  <2>1. life' \in [Objects -> {"raw", "alive", "dead"}] BY <1>7, <1>10
  <2> QED BY <1>0, <1>10, <2>1 DEF TypeOK, RefTypeOK, ErrorTypeOK, HolderTypeOK, Value, Error
<1>20. WeakExact' BY <1>2, <1>10, <1>11, <1>16, <1>18, <1>19, WeakKept
<1>21. OwnerExact'
  <2>1. PICK h : h = <<"free", th>> OBVIOUS
  <2>2. h \in OwnerTokens /\ OwnerAt[h] = x /\ OwnerAt'[h] = NoObj
    <3>1. p[1].call \in {"ClearHolder", "EndDelete"} BY <1>9, <1>16
    <3>2. OwnerAt'[<<"free", th>>] = NoObj BY <1>10, <1>11, <3>1, OwnerPlaces
    <3> QED BY <1>4, <2>1, <3>2
  <2>3. OwnerAt'[<<"place", th>>] = OwnerAt[<<"place", th>>]
    <3>1. PlaceOf(p) = NoObj BY <1>9 DEF PlaceOf, Last1, EndDelete
    <3>2. Len(todo[th]) = 1 => PlaceOf(todo[th]) = NoObj BY <1>2 DEF PlaceOf, Last1
    <3>3. Len(todo[th]) > 1 \/ Len(todo[th]) = 1
      <4>1. PICK s \in Seq(Frames) : s = todo[th] /\ s # <<>> BY <1>2
      <4>2. PICK n \in Nat : n = Len(s) /\ n # 0 BY <4>1
      <4>3. n > 1 \/ n = 1 BY <4>2
      <4> QED BY <4>1, <4>2, <4>3, Zenon
    <3> QED BY <1>10, <1>11, <3>1, <3>2, <3>3, OwnerPlaces
  <2>4. \A y \in OwnerTokens : y # h => OwnerAt'[y] = OwnerAt[y]
    BY <1>10, <1>11, <2>1, <2>3, OwnerPlaces
  <2>5. PICK f, g, n, m : f = OwnerAt /\ g = OwnerAt' /\ n = OwnerCount /\ m = OwnerCount' OBVIOUS
  <2>6. Minus1(m, n, x) BY <1>5, <1>10, <1>13, <2>5 DEF OwnerCount, Minus1
  <2>7. /\ DOMAIN g = DOMAIN f /\ Exact(f, n) /\ h \in DOMAIN f /\ f[h] = x /\ g[h] \notin Objects
        /\ \A y \in DOMAIN f : y # h => g[y] = f[y]
    BY <1>0, <2>2, <2>4, <2>5, OwnerIs, RefCountingAssumption DEF OwnerExact
  <2>8. Exact(g, m) BY <2>6, <2>7, ExactDrop
  <2> QED BY <2>5, <2>8 DEF OwnerExact
<1>22. Counts' BY <1>18, <1>20, <1>21 DEF Counts
<1>23. \A u \in Threads : \A j \in DOMAIN todo[u] : todo[u][j].call \in LastCalls => todo[u][j].arg # x
  BY <1>5, OwnedCalls
<1>24. ~Dying(x)
  <2>1. ASSUME NEW u \in Threads, NEW j \in DOMAIN todo[u], todo[u][j] \in DyingFrames(x) PROVE FALSE
    <3>1. todo[u][j].call \in LastCalls /\ todo[u][j].arg = x BY <2>1 DEF DyingFrames, Delete, EndDelete, LastCalls
    <3> QED BY <1>23, <3>1
  <2> QED BY <2>1 DEF Dying, Occurs, OccursIn
<1>25. /\ CallsElsewhere(x) /\ Onces' /\ Occurs({EndDelete(x)})'
       /\ Occurs(MemberFrames(x))' <=> Occurs(MemberFrames(x))
  <2>1. \A i \in DOMAIN p : p[i].call \in LastCalls => i = k BY <1>9 DEF LastCalls, ClearHolder
  <2>2. \A i \in DOMAIN p : p[i] = EndDelete(x) => i = k BY <2>1 DEF EndDelete, LastCalls
  <2>3. todo[th][1] \notin MemberFrames(x) /\ todo[th][1].call \notin LastCalls BY <1>2 DEF MemberFrames, LastCalls
  <2>4. k \in DOMAIN p BY <1>9
  <2> QED BY <1>2, <1>9, <1>11, <1>24, <2>1, <2>2, <2>3, <2>4, CallsAround
<1>26. Reports'
  <2>1. cls[x] # ErrorCodeState BY <1>5 DEF OwnedObject, ErrorCodeState, Class
  <2> QED BY <1>0, <1>10, <1>13, <2>1 DEF Reports
<1>27. \A h \in StrongTokens : FromHere(th, h) /\ (Ref(h)' = NoObj \/ \E k1 \in StrongTokens : Ref(h)' = Ref(k1))
  BY <1>17, <1>18 DEF RefsOK
<1>28. \A i \in DOMAIN todo'[th] : FrameOK(th, i)' /\ Cascade(th, i)'
  <2>1. ASSUME NEW i \in DOMAIN p PROVE FrameOK(th, i)' /\ Cascade(th, i)'
    <3>1. todo'[th][i] = p[i] BY <1>12 DEF Stacked
    <3>2. CASE i # k
      <4>1. i = 1 /\ todo'[th][1].call = "ClearHolder" BY <1>9, <3>1, <3>2 DEF ClearHolder
      <4>2. FrameOK(th, 1)' BY <4>1, ReleaseFrame
      <4> QED BY <4>1, <4>2 DEF Cascade
    <3>3. CASE i = k
      <4>1. todo'[th][i].call = "EndDelete" /\ todo'[th][i].arg = x BY <1>9, <3>1, <3>3 DEF EndDelete
      <4>2. cls'[x].policy = "Owned" /\ cls'[x] # FixedSwarmMember BY <1>6, <1>10 DEF FixedSwarmMember, Class
      <4> QED BY <1>13, <4>1, <4>2 DEF FrameOK, DyingOK, Cascade
    <3> QED BY <3>2, <3>3
  <2>2. ASSUME NEW i \in DOMAIN todo'[th], i \notin DOMAIN p PROVE FrameOK(th, i)' /\ Cascade(th, i)'
    <3>1. PICK E : E = {x} OBVIOUS
    <3>2. Unharmed(E)
      <4>1. \A b \in Objects : Pos(b)' => Pos(b) BY <1>10 DEF Pos
      <4> QED BY <1>10, <1>13, <3>1, <4>1 DEF Unharmed
    <3>3. SameLocals(th) BY <1>10 DEF SameLocals
    <3>4. \A h \in StrongTokens : Ref(h) \notin E
      <4>1. ~Live(x) BY <1>5 DEF Live
      <4> QED BY <1>0, <3>1, <4>1, RefCountingAssumption DEF RefsLive
    <3>5. todo[th][1] # ClearHolder /\ todo[th][1].call # "ReleaseWeakRef" BY <1>2 DEF ClearHolder
    <3>6. \A j \in DOMAIN todo[th] : j # 1 /\ todo[th][j].call \in {"Delete", "EndDelete"} => todo[th][j].arg \notin E
      BY <1>23, <3>1 DEF LastCalls
    <3>7. \A j \in DOMAIN todo[th] : j # 1 => todo[th][j].call \notin {"ReleaseWeakRef", "FreeMember"}
      BY <1>0, <1>2, BelowTop
    <3>8. (todo'[th][i].call # "FreeMember" => FrameOK(th, i)') /\ Cascade(th, i)'
      BY <1>11, <2>2, <3>2, <3>3, <3>4, <3>5, <3>6, <3>7, RestKept
    <3>9. PICK j \in DOMAIN todo[th] : j # 1 /\ todo'[th][i] = todo[th][j] BY <1>12, <2>2 DEF Stacked
    <3> QED BY <3>7, <3>8, <3>9
  <2> QED BY <2>1, <2>2
<1> QED BY <1>5, <1>6, <1>11, <1>15, <1>19, <1>22, <1>23, <1>25, <1>26, <1>27, <1>28, FadeStep
-----------------------------------------------------------------------------
(* Nothing but the call on top of the stack of th has to do with D. *)
Detached(th, D) ==
  /\ \A y \in D : /\ field[y] = NullField /\ ~Pos(y) /\ cls[y].policy # "NoRefCount"
                  /\ ~(cls[y] = OwnedObject /\ life[y] = "alive") /\ Inside(y) \subseteq D
  /\ \A z \in Objects : z \notin D => weakRef[z] \notin D /\ Inside(z) \cap D = {}
  /\ \A h \in StrongTokens : Ref(h) \notin D
  /\ \A u \in Threads : weak[u].m_ptr \notin D /\ weak[u].m_weakRef \notin D
  /\ \A u \in Threads : \A j \in DOMAIN todo[u] :
       todo[u][j].call \in LastCalls => (todo[u][j].arg \in D <=> u = th /\ j = 1)

(* The memory of D is free. *)
Gone(D) ==
  /\ Deallocate(D)
  /\ weakRef' \in [Objects -> Pointers]
  /\ \A y \in Objects : weakRef'[y] = IF y \in D THEN NoObj ELSE weakRef[y]
  /\ UNCHANGED <<program, m_refCount, field, strong, weak, maybe, holder, raw>>
  /\ m_weakRefCount' \in [Objects -> Nat]
  /\ \A y \in Objects : IF y \in D THEN m_weakRefCount'[y] = 0
                        ELSE m_weakRefCount'[y] > 0 <=> m_weakRefCount[y] > 0
  /\ handled' \in SUBSET Objects /\ reported' \in SUBSET Objects
  /\ \A y \in Objects : IF y \in D THEN y \notin reported'
                        ELSE (y \in handled' <=> y \in handled) /\ (y \in reported' <=> y \in reported)

(* What is left of the objects. *)
LEMMA GoneIs ==
  ASSUME NEW D, Gone(D)
  PROVE  \A y \in Objects :
           /\ y \in D => /\ cls'[y] = NoClass /\ life'[y] = "raw" /\ m_headMember'[y] = <<>> /\ storage'[y] = {}
                         /\ weakRef'[y] = NoObj /\ m_weakRefCount'[y] = 0 /\ y \notin reported'
           /\ y \notin D => /\ cls'[y] = cls[y] /\ life'[y] = life[y] /\ weakRef'[y] = weakRef[y]
                            /\ m_headMember'[y] = m_headMember[y] /\ storage'[y] = storage[y]
                            /\ m_weakRefCount'[y] > 0 <=> m_weakRefCount[y] > 0
                            /\ y \in handled' <=> y \in handled
                            /\ y \in reported' <=> y \in reported
           /\ field'[y] = field[y] /\ m_refCount'[y] = m_refCount[y]
BY DEF Gone, Deallocate

(* The references and the owners stay. *)
LEMMA GoneRefs ==
  ASSUME IInv, NEW th \in Threads, NEW D \in SUBSET Objects, Detached(th, D), Gone(D),
         NEW p \in Seq(Frames), p = <<>>, StackStep(th, p), todo[th] # <<>>,
         todo[th][1].call \in {"EndDelete", "ReleaseWeakRef", "FreeMember"}
  PROVE  /\ \A h \in StrongTokens : Ref(h)' = Ref(h)
         /\ StrongExact' /\ OwnerExact'
<1>0. TypeOK /\ FramesTyped(todo) /\ FramesOK /\ StrongExact /\ RefsLive BY DEF IInv, Counts
<1>1. UNCHANGED <<program, m_refCount, field, strong, weak, maybe, holder, raw>> BY DEF Gone
<1>2. \A y \in Objects : y \notin D => cls'[y] = cls[y] /\ weakRef'[y] = weakRef[y] /\ life'[y] = life[y] BY GoneIs
<1>3. \A u \in Threads : raw[u] # NoObj => raw[u] \in Objects /\ raw[u] \notin D
  <2> SUFFICES ASSUME NEW u \in Threads, raw[u] # NoObj PROVE raw[u] \in Objects /\ raw[u] \notin D OBVIOUS
  <2>1. raw[u] \in Objects BY <1>0 DEF TypeOK, HolderTypeOK, Pointers
  <2>2. CASE cls[raw[u]] # OwnedObject
    <3>1. Ref(<<"raw", u>>) = raw[u] /\ <<"raw", u>> \in StrongTokens BY <2>2, RefIs, TokenKinds
    <3> QED BY <2>1, <3>1 DEF Detached
  <2>3. CASE cls[raw[u]] = OwnedObject
    <3>1. OwnerAt[<<"raw", u>>] = raw[u] /\ <<"raw", u>> \in OwnerTokens BY <2>3, OwnerIs
    <3>2. life[raw[u]] = "alive" BY <2>1, <3>1, OwnerFact
    <3> QED BY <2>1, <2>3, <3>2 DEF Detached
  <2> QED BY <2>2, <2>3
<1>4. \A h \in StrongTokens : Ref(h)' = Ref(h)
  <2> SUFFICES ASSUME NEW h \in StrongTokens PROVE Ref(h)' = Ref(h) OBVIOUS
  <2>1. ASSUME NEW s \in Slots, h = <<"slot", s>> PROVE Ref(h)' = Ref(h) BY <1>1, <2>1, RefIs
  <2>2. ASSUME NEW o \in Objects, h = <<"field", o>> PROVE Ref(h)' = Ref(h) BY <1>1, <2>2, RefIs
  <2>3. ASSUME NEW u \in Threads, h = <<"maybe", u>> PROVE Ref(h)' = Ref(h) BY <1>1, <2>3, RefIs
  <2>4. ASSUME NEW u \in Threads, h = <<"raw", u>> PROVE Ref(h)' = Ref(h)
    <3>1. /\ Ref(<<"raw", u>>) = IF raw[u] # NoObj /\ cls[raw[u]] # OwnedObject THEN raw[u] ELSE NoObj
          /\ Ref(<<"raw", u>>)' = IF raw'[u] # NoObj /\ cls'[raw'[u]] # OwnedObject THEN raw'[u] ELSE NoObj
      BY RefIs
    <3> QED BY <1>1, <1>2, <1>3, <2>4, <3>1
  <2>5. /\ \A u \in Threads : u # th => /\ Ref(<<"release", u>>)' = Ref(<<"release", u>>)
                                        /\ Ref(<<"publish", u>>)' = Ref(<<"publish", u>>)
        /\ Ref(<<"release", th>>)' = NoObj /\ Ref(<<"publish", th>>)' = NoObj
    BY <1>0, TopRefs
  <2>6. Head(todo[th]) = todo[th][1] BY <1>0 DEF FramesTyped
  <2>7. Ref(<<"release", th>>) = NoObj /\ Ref(<<"publish", th>>) = NoObj BY <2>6, RefIs
  <2> QED BY <2>1, <2>2, <2>3, <2>4, <2>5, <2>7, TokenKinds
<1>5. StrongExact'
  <2>1. \A h \in StrongTokens : StrongAt'[h] = StrongAt[h]
    <3> SUFFICES ASSUME NEW h \in StrongTokens PROVE StrongAt'[h] = StrongAt[h] OBVIOUS
    <3>1. PICK o : o = Ref(h) OBVIOUS
    <3>2. o # NoObj => o \in Objects /\ o \notin D BY <1>0, <3>1 DEF RefsLive, Live, Detached
    <3>3. o # NoObj => Counter(o)' = Counter(o) BY <1>2, <3>2 DEF Counter
    <3>4. Ref(h)' = o BY <1>4, <3>1
    <3>5. StrongAt[h] = (IF o = NoObj THEN NoObj ELSE Counter(o)) BY <3>1 DEF StrongAt
    <3>6. StrongAt'[h] = (IF o = NoObj THEN NoObj ELSE Counter(o)') BY <3>4 DEF StrongAt
    <3> QED BY <3>3, <3>5, <3>6
  <2>2. DOMAIN StrongAt = StrongTokens /\ DOMAIN StrongAt' = StrongTokens BY DEF StrongAt
  <2>3. PICK f, g, n : f = StrongAt /\ g = StrongAt' /\ n = m_refCount /\ n = m_refCount' BY <1>1
  <2>4. Exact(f, n) /\ DOMAIN g = DOMAIN f /\ \A l \in DOMAIN f : g[l] = f[l] BY <1>0, <2>1, <2>2, <2>3 DEF StrongExact
  <2>5. Exact(g, n) BY <2>4, ExactSame
  <2> QED BY <2>3, <2>5 DEF StrongExact
<1>6. OwnerExact'
  <2>1. \A u \in Threads : OwnerAt'[<<"raw", u>>] = OwnerAt[<<"raw", u>>]
    <3> SUFFICES ASSUME NEW u \in Threads PROVE OwnerAt'[<<"raw", u>>] = OwnerAt[<<"raw", u>>] OBVIOUS
    <3>1. /\ OwnerAt[<<"raw", u>>] = IF raw[u] # NoObj /\ cls[raw[u]] = OwnedObject THEN raw[u] ELSE NoObj
          /\ OwnerAt'[<<"raw", u>>] = IF raw'[u] # NoObj /\ cls'[raw'[u]] = OwnedObject THEN raw'[u] ELSE NoObj
      BY OwnerIs
    <3> QED BY <1>1, <1>2, <1>3, <3>1
  <2>2. \A y \in Objects : cls'[y] = OwnedObject /\ life'[y] = "alive" <=> cls[y] = OwnedObject /\ life[y] = "alive"
    BY <1>2, GoneIs DEF Detached
  <2>3. \A i \in DOMAIN p : FALSE OBVIOUS
  <2> QED BY <1>1, <2>1, <2>2, <2>3, OwnersStay
<1> QED BY <1>4, <1>5, <1>6

(* A step that gives memory back keeps the invariant, when the weak counts *)
(* are right and nothing has to do with that memory.                       *)
LEMMA FreeStep ==
  ASSUME IInv, NEW th \in Threads, NEW D \in SUBSET Objects, Detached(th, D), Gone(D),
         NEW p \in Seq(Frames), p = <<>>, StackStep(th, p), todo[th] # <<>>,
         todo[th][1].call \in {"EndDelete", "ReleaseWeakRef", "FreeMember"},
         WeakExact'
  PROVE  IInv'
<1>0. TypeOK /\ Heap /\ FramesTyped(todo) /\ FramesOK /\ Onces /\ Reports BY DEF IInv
<1>1. /\ UNCHANGED <<program, m_refCount, field, strong, weak, maybe, holder, raw>>
      /\ weakRef' \in [Objects -> Pointers] /\ m_weakRefCount' \in [Objects -> Nat]
      /\ handled' \in SUBSET Objects /\ reported' \in SUBSET Objects
  BY DEF Gone
<1>2. 1 \in DOMAIN todo[th] BY <1>0 DEF FramesTyped
<1>3. \A i \in DOMAIN p : FALSE OBVIOUS
<1>4. todo[th][1].call \in LastCalls => todo[th][1].arg \in D BY <1>2 DEF Detached
<1>5. \A b \in Objects : Pos(b)' <=> Pos(b) BY <1>1 DEF Pos
<1>6. Counts' BY GoneRefs DEF Counts
<1>7. TypeOK'
  <2>1. cls' \in [Objects -> program.classes \cup {NoClass, RefCountedObject}]
    <3>1. cls \in [Objects -> program.classes \cup {NoClass, RefCountedObject}] BY <1>0 DEF TypeOK, RefTypeOK
    <3> QED BY <3>1 DEF Gone, Deallocate
  <2>2. /\ life' \in [Objects -> {"raw", "alive", "dead"}] /\ storage' \in [Objects -> SUBSET Objects]
    BY <1>0 DEF TypeOK, RefTypeOK, Gone, Deallocate
  <2>3. m_headMember' \in [Objects -> Seq(Objects)]
    <3>1. <<>> \in Seq(Objects) OBVIOUS
    <3> QED BY <1>0, <3>1 DEF TypeOK, RefTypeOK, Gone, Deallocate
  <2> QED BY <1>0, <1>1, <2>1, <2>2, <2>3 DEF TypeOK, RefTypeOK, ErrorTypeOK, HolderTypeOK, Value, Error
<1>8. \A C : AtMostOnceIn(todo, C) => AtMostOnceIn(todo', C)
  <2> SUFFICES ASSUME NEW C, AtMostOnceIn(todo, C) PROVE AtMostOnceIn(todo', C) OBVIOUS
  <2>1. CASE todo[th][1] \in C BY <1>0, <1>3, <2>1, OccursGone
  <2>2. CASE todo[th][1] \notin C BY <1>0, <1>3, <2>2, OccursKept
  <2> QED BY <2>1, <2>2
<1>9. Onces' BY <1>0, <1>8 DEF Onces, DyingFrames, MemberFrames
<1>10. \A y \in Objects : y \notin D => CallsStay(y)
  <2> SUFFICES ASSUME NEW y \in Objects, y \notin D PROVE CallsStay(y) OBVIOUS
  <2>1. \A C : todo[th][1] \notin C => (OccursIn(todo', C) <=> OccursIn(todo, C)) BY <1>0, <1>3, OccursKept
  <2>2. /\ todo[th][1] # Delete(y) /\ todo[th][1] # EndDelete(y)
        /\ todo[th][1] \notin DyingFrames(y) /\ todo[th][1] \notin MemberFrames(y)
    BY <1>4 DEF DyingFrames, MemberFrames, Delete, EndDelete, LastCalls
  <2>3. (Occurs({Delete(y)})' <=> Occurs({Delete(y)})) /\ (Occurs({EndDelete(y)})' <=> Occurs({EndDelete(y)}))
    <3>1. todo[th][1] \notin {Delete(y)} /\ todo[th][1] \notin {EndDelete(y)} BY <2>2
    <3>2. OccursIn(todo', {Delete(y)}) <=> OccursIn(todo, {Delete(y)}) BY <2>1, <3>1
    <3>3. OccursIn(todo', {EndDelete(y)}) <=> OccursIn(todo, {EndDelete(y)}) BY <2>1, <3>1
    <3> QED BY <3>2, <3>3 DEF Occurs
  <2>4. (Dying(y)' <=> Dying(y)) /\ (Occurs(MemberFrames(y))' <=> Occurs(MemberFrames(y)))
    <3>1. OccursIn(todo', DyingFrames(y)) <=> OccursIn(todo, DyingFrames(y)) BY <2>1, <2>2
    <3>2. OccursIn(todo', MemberFrames(y)) <=> OccursIn(todo, MemberFrames(y)) BY <2>1, <2>2
    <3> QED BY <3>1, <3>2 DEF Dying, Occurs, DyingFrames, MemberFrames
  <2> QED BY <1>1, <2>3, <2>4 DEF CallsStay, Falls
<1>11. Kept(D)
  <2>1. \A y \in Objects : y \notin D => SameObject(y) BY GoneIs DEF SameObject
  <2>2. \A d \in Objects : d \in D => /\ Inside(d) \subseteq D /\ storage'[d] = {} /\ Range(m_headMember'[d]) = {}
                                      /\ \A y \in Objects : y \notin D => weakRef[y] # d /\ d \notin Inside(y)
    <3> SUFFICES ASSUME NEW d \in D
                 PROVE  /\ Inside(d) \subseteq D /\ storage'[d] = {} /\ Range(m_headMember'[d]) = {}
                        /\ \A y \in Objects : y \notin D => weakRef[y] # d /\ d \notin Inside(y)
      OBVIOUS
    <3>1. storage'[d] = {} /\ m_headMember'[d] = <<>> BY GoneIs
    <3> QED BY <3>1 DEF Detached, Range
  <2> QED BY <1>1, <1>5, <1>10, <2>1, <2>2 DEF Kept
<1>12. Unharmed(D) BY <1>5, GoneIs DEF Unharmed
<1>13. \A y \in Objects : y \in D => (ClassOK(y) /\ FieldOK(y) /\ WeakRefOK(y) /\ ListsOK(y) /\ CountsOK(y))'
  <2> SUFFICES ASSUME NEW y \in Objects, y \in D
               PROVE  (ClassOK(y) /\ FieldOK(y) /\ WeakRefOK(y) /\ ListsOK(y) /\ CountsOK(y))'
    OBVIOUS
  <2>1. /\ cls'[y] = NoClass /\ life'[y] = "raw" /\ m_headMember'[y] = <<>> /\ storage'[y] = {}
        /\ weakRef'[y] = NoObj /\ m_weakRefCount'[y] = 0 /\ field'[y] = field[y]
    BY GoneIs
  <2>2. field[y] = NullField /\ ~Pos(y) /\ cls[y].policy # "NoRefCount" BY DEF Detached
  <2>3. NoClass.policy = "Free" /\ NoClass \notin Members
    <3>1. NoClass.policy = "Free" BY DEF NoClass, Class
    <3> QED BY <3>1, ClassFacts
  <2>4. ClassOK(y)'
    <3>1. ~IsStatic(y) BY <1>0, <2>2 DEF Heap, ClassOK
    <3> QED BY <1>1, <2>1, <2>3, <3>1 DEF ClassOK, IsStatic, StaticClasses
  <2>5. FieldOK(y)' BY <2>1, <2>2 DEF FieldOK, NullField
  <2>6. WeakRefOK(y)' BY <2>1 DEF WeakRefOK
  <2>7. ListsOK(y)' BY <2>1 DEF ListsOK, Range
  <2>8. CountsOK(y)' BY <1>5, <2>1, <2>2, <2>3 DEF CountsOK, HasWeakRef
  <2> QED BY <2>4, <2>5, <2>6, <2>7, <2>8
<1>14. Reports'
  <2>1. NoClass # ErrorCodeState BY ClassFacts
  <2>2. \A y \in Objects : \/ cls'[y] = NoClass /\ y \notin reported'
                           \/ /\ cls'[y] = cls[y] /\ life'[y] = life[y]
                              /\ (y \in handled' <=> y \in handled) /\ (y \in reported' <=> y \in reported)
    BY GoneIs
  <2> QED BY <1>0, <2>1, <2>2 DEF Reports
<1>15. \A h \in StrongTokens : Ref(h)' = Ref(h) /\ Ref(h) \notin D BY GoneRefs DEF Detached
<1>16. \A u \in Threads : SameLocals(u) BY <1>1 DEF SameLocals
<1>17. \A i \in DOMAIN todo'[th] : FrameOK(th, i)' /\ Cascade(th, i)'
  <2> SUFFICES ASSUME NEW i \in DOMAIN todo'[th] PROVE FrameOK(th, i)' /\ Cascade(th, i)' OBVIOUS
  <2>1. /\ todo[th][1] # ClearHolder
        /\ \A j \in DOMAIN todo[th] : j # 1 /\ todo[th][j].call \in {"Delete", "EndDelete"} => todo[th][j].arg \notin D
    BY DEF ClearHolder, Detached, LastCalls
  <2>2. (todo'[th][i].call # "FreeMember" => FrameOK(th, i)') /\ Cascade(th, i)'
    BY <1>3, <1>12, <1>15, <1>16, <2>1, RestKept
  <2>3. todo'[th][i].call # "FreeMember"
    <3>1. Stacked(todo[th], p, todo'[th]) BY <1>0, StackAfter
    <3>2. PICK j \in DOMAIN todo[th] : j # 1 /\ todo'[th][i] = todo[th][j] BY <1>3, <3>1 DEF Stacked
    <3>3. ASSUME todo[th][j].call = "FreeMember" PROVE FALSE
      <4>1. FrameOK(th, j) BY <1>0 DEF FramesOK
      <4>2. todo[th][1] \in DyingFrames(todo[th][j].arg) BY <3>2, <3>3, <4>1 DEF FrameOK, DyingFrames
      <4>3. todo[th][1].arg = todo[th][j].arg /\ todo[th][1].call \in LastCalls
        BY <4>2 DEF DyingFrames, Delete, EndDelete, LastCalls
      <4>4. todo[th][j].arg \notin D BY <3>2, <3>3 DEF Detached, LastCalls
      <4> QED BY <1>4, <4>3, <4>4
    <3> QED BY <3>2, <3>3
  <2> QED BY <2>2, <2>3
<1>18. \A u \in Threads : u # th => \A j \in DOMAIN todo[u] :
            /\ todo[u][j].call \in LastCalls => todo[u][j].arg \notin D
            /\ todo[u][j].call = "AddSwarmMember" => todo[u][j].arg \notin D
  BY DEF Detached, LastCalls
<1>19. \A u \in Threads : \/ WeakLive(weak[u])'
                          \/ weak'[u] = weak[u] /\ weak[u].m_ptr \notin D /\ weak[u].m_weakRef \notin D
  BY <1>1 DEF Detached
<1>20. \A h \in StrongTokens : FromHere(th, h) /\ Ref(h) \notin D /\ (Ref(h) \in D => UNCHANGED weakRef)
  BY <1>15 DEF FromHere
<1>21. \A h \in StrongTokens : \/ Ref(h)' = NoObj
                               \/ \E k \in StrongTokens : Ref(h)' = Ref(k) /\ Ref(k) \notin D
                               \/ Live(Ref(h))'
  BY <1>15
<1>22. \A u \in Threads : u # th => SameLocals(u) BY <1>16
<1> HIDE DEF Gone, Detached
<1> QED BY <1>6, <1>7, <1>9, <1>11, <1>12, <1>13, <1>14, <1>17, <1>18, <1>19, <1>20, <1>21, <1>22, DestroyStep

(* An object that is not in a container, without weak count, is freed. *)
LEMMA FreeOne ==
  ASSUME IInv, NEW th \in Threads, NEW x \in Objects, life[x] = "dead", weakRef[x] = NoObj,
         ~HasWeakRef(cls[x]) \/ cls[x] \in SwarmMembers,
         \A z \in Objects : x \notin Inside(z),
         \A u \in Threads : \A j \in DOMAIN todo[u] :
            todo[u][j].call \in LastCalls => (todo[u][j].arg = x <=> u = th /\ j = 1),
         Calling(th, "EndDelete") \/ Calling(th, "FreeMember"), Continue(th, <<>>),
         Deallocate({x}),
         UNCHANGED <<program, weakRef, m_refCount, m_weakRefCount, field, strong, weak, maybe, holder, raw>>,
         handled' = handled \/ handled' = handled \ {x}, reported' = reported \ {x}
  PROVE  IInv'
<1>0. TypeOK /\ Heap /\ FramesTyped(todo) /\ FramesOK /\ RefsLive /\ WeaksLive BY DEF IInv
<1>1. ClassOK(x) /\ FieldOK(x) /\ CountsOK(x) BY <1>0 DEF Heap
<1>2. PICK D : D = {x} OBVIOUS
<1>3. D \in SUBSET Objects BY <1>2
<1>4. ~(m_weakRefCount[x] > 0) /\ m_weakRefCount \in [Objects -> Nat]
  BY <1>0, <1>1 DEF CountsOK, Members, TypeOK, RefTypeOK
<1>5. cls[x] \notin Swarms /\ cls[x] # FixedSwarm
  <2>1. cls[x] \in Swarms \cup {FixedSwarm} => HasWeakRef(cls[x]) /\ cls[x] \notin SwarmMembers
    BY ClassFacts DEF HasWeakRef, Swarms, SwarmMembers, SwarmObject, LinkedSwarmObject, SwarmMember, LinkedSwarmMember, FixedSwarm, Class
  <2> QED BY <2>1
<1>6. Inside(x) = {}
  <2>1. m_headMember[x] = <<>> /\ storage[x] = {} BY <1>1, <1>5 DEF ClassOK
  <2> QED BY <2>1 DEF Inside, Range
<1>7. Detached(th, D)
  <2>1. /\ field[x] = NullField /\ ~Pos(x) /\ cls[x].policy # "NoRefCount" /\ life[x] # "alive"
    BY <1>1 DEF FieldOK, ClassOK, CountsOK
  <2>2. \A z \in Objects : z # x => weakRef[z] # x
    <3> SUFFICES ASSUME NEW z \in Objects, z # x, weakRef[z] = x PROVE FALSE OBVIOUS
    <3>1. WeakRefOK(z) /\ x # NoObj BY <1>0, RefCountingAssumption DEF Heap
    <3>2. cls[x] \in Swarms \/ cls[x] = FixedSwarm BY <3>1 DEF WeakRefOK
    <3> QED BY <1>5, <3>2
  <2>3. \A h \in StrongTokens : Ref(h) # x BY <1>0, RefCountingAssumption DEF RefsLive, Live
  <2>4. \A u \in Threads : weak[u].m_ptr # x /\ weak[u].m_weakRef # x
    <3> SUFFICES ASSUME NEW u \in Threads PROVE weak[u].m_ptr # x /\ weak[u].m_weakRef # x OBVIOUS
    <3>1. CASE weak[u] = EmptyWeakPtr BY <3>1, RefCountingAssumption DEF EmptyWeakPtr
    <3>2. CASE weak[u] # EmptyWeakPtr
      <4>1. m_weakRefCount[weak[u].m_weakRef] > 0 /\ WeakLive(weak[u]) /\ weak[u].m_weakRef \in Objects BY <3>2, WeakFull
      <4>2. weak[u].m_weakRef # x BY <1>4, <4>1
      <4>3. weak[u].m_ptr \in Owned(weak[u].m_weakRef) BY <3>2, <4>1 DEF WeakLive
      <4>4. x \notin Inside(weak[u].m_weakRef) BY <4>1
      <4> QED BY <4>2, <4>3, <4>4 DEF Owned, Inside
    <3> QED BY <3>1, <3>2
  <2> QED BY <1>2, <1>6, <2>1, <2>2, <2>3, <2>4 DEF Detached
<1>8. Gone(D)
  <2>1. Deallocate(D) BY <1>2
  <2>2. /\ \A y \in Objects : weakRef'[y] = (IF y \in D THEN NoObj ELSE weakRef[y])
        /\ weakRef' \in [Objects -> Pointers] /\ m_weakRefCount' = m_weakRefCount
    BY <1>0, <1>2 DEF TypeOK, RefTypeOK
  <2>3. m_weakRefCount[x] = 0 BY <1>4
  <2>4. /\ handled' \in SUBSET Objects /\ reported' \in SUBSET Objects BY <1>0 DEF TypeOK, ErrorTypeOK
  <2>5. \A y \in Objects : IF y \in D THEN y \notin reported'
                           ELSE (y \in handled' <=> y \in handled) /\ (y \in reported' <=> y \in reported)
    BY <1>2
  <2> HIDE DEF Deallocate
  <2> QED BY <1>2, <1>4, <2>1, <2>2, <2>3, <2>4, <2>5 DEF Gone
<1>9. PICK p : p = <<>> OBVIOUS
<1>10. p \in Seq(Frames) /\ Continue(th, p) /\ \A i \in DOMAIN p : FALSE BY <1>9
<1>11. /\ StackStep(th, p) /\ todo[th] # <<>> /\ todo[th][1].call \in {"EndDelete", "FreeMember"}
  BY <1>0, <1>10, ContinueStack
<1>12. WeakExact'
  <2>1. \A b : todo[th][1] # ReleaseWeakRef(b) BY <1>11 DEF ReleaseWeakRef
  <2>2. \A y \in Objects : WeakAt'[<<"object", y>>] = WeakAt[<<"object", y>>]
    <3> SUFFICES ASSUME NEW y \in Objects PROVE WeakAt'[<<"object", y>>] = WeakAt[<<"object", y>>] OBVIOUS
    <3>1. /\ WeakAt[<<"object", y>>] = IF cls[y] = FixedSwarm /\ m_refCount[y] = 0 THEN NoObj ELSE weakRef[y]
          /\ WeakAt'[<<"object", y>>] = IF cls'[y] = FixedSwarm /\ m_refCount'[y] = 0 THEN NoObj ELSE weakRef'[y]
      BY WeakIs
    <3>2. y # x => cls'[y] = cls[y] BY <1>2, <1>8, GoneIs
    <3> QED BY <3>1, <3>2
  <2>3. \A u \in Threads : WeakAt'[<<"weak", u>>] = WeakAt[<<"weak", u>>] BY WeakIs
  <2>4. \A u \in Threads, b \in Objects : WeakAt'[<<"call", u, b>>] = WeakAt[<<"call", u, b>>]
    <3> SUFFICES ASSUME NEW u \in Threads, NEW b \in Objects PROVE WeakAt'[<<"call", u, b>>] = WeakAt[<<"call", u, b>>] OBVIOUS
    <3>1. ReleaseWeakRef(b) \in Range(todo'[u]) <=> ReleaseWeakRef(b) \in Range(todo[u])
      BY <1>0, <1>10, <1>11, <2>1, CallsAfter
    <3>2. /\ WeakAt[<<"call", u, b>>] = IF ReleaseWeakRef(b) \in Range(todo[u]) THEN b ELSE NoObj
          /\ WeakAt'[<<"call", u, b>>] = IF ReleaseWeakRef(b) \in Range(todo'[u]) THEN b ELSE NoObj
      BY WeakIs
    <3> QED BY <3>1, <3>2
  <2>5. \A y \in WeakTokens : WeakAt'[y] = WeakAt[y] BY <2>2, <2>3, <2>4, WeakIs
  <2> QED BY <2>5, WeakSame
<1> HIDE DEF Deallocate
<1> QED BY <1>3, <1>7, <1>8, <1>9, <1>10, <1>11, <1>12, FreeStep

(* What EndDelete works on. *)
LEMMA EndDeleteFacts ==
  ASSUME IInv, NEW th \in Threads, EndDeleteObject(th)
  PROVE  /\ Calling(th, "EndDelete") /\ todo[th] # <<>> /\ 1 \in DOMAIN todo[th] /\ Arg(th) \in Objects
         /\ todo[th][1] = EndDelete(Arg(th)) /\ todo[th][1] \in DyingFrames(Arg(th))
         /\ FrameOK(th, 1) /\ Cascade(th, 1) /\ life[Arg(th)] = "dead"
         /\ cls[Arg(th)].policy \in {"Simple", "WeakRef", "Owned"} /\ cls[Arg(th)] \in Classes
         /\ DyingOK(th, 1, Arg(th)) /\ field[Arg(th)] = NullField /\ ~Pos(Arg(th))
<1>0. FramesTyped(todo) /\ FramesOK /\ Heap /\ Cascades BY DEF IInv
<1>1. Calling(th, "EndDelete") BY DEF EndDeleteObject, RunEndDelete
<1>2. /\ todo[th] # <<>> /\ 1 \in DOMAIN todo[th] /\ todo[th][1] \in Frames
      /\ Head(todo[th]) = todo[th][1] /\ todo[th][1].call = "EndDelete" /\ Arg(th) = todo[th][1].arg
  BY <1>0, <1>1 DEF Calling, FramesTyped, Arg
<1>3. PICK x \in Objects : x = Arg(th) BY <1>2, FrameFacts
<1>4. todo[th][1] = EndDelete(x) /\ todo[th][1] \in DyingFrames(x) BY <1>2, <1>3, FrameFacts DEF EndDelete, DyingFrames
<1>5. FrameOK(th, 1) /\ Cascade(th, 1) BY <1>0, <1>2 DEF FramesOK, Cascades
<1>6. life[x] = "dead" /\ cls[x].policy \in {"Simple", "WeakRef", "Owned"} /\ DyingOK(th, 1, x)
  BY <1>2, <1>3, <1>5 DEF FrameOK
<1>7. ClassOK(x) /\ FieldOK(x) /\ CountsOK(x) BY <1>0 DEF Heap
<1> QED BY <1>1, <1>2, <1>3, <1>4, <1>5, <1>6, <1>7 DEF ClassOK, FieldOK, CountsOK

(* EndDelete of an object without a weak reference frees its memory. *)
LEMMA EndDeleteFreesStep ==
  ASSUME IInv, NEW th \in Threads, EndDeleteObject(th), UNCHANGED holderVars, ~HasWeakRef(cls[Arg(th)])
  PROVE  IInv'
<1>0. Heap /\ FramesOK BY DEF IInv
<1>1. PICK x : x = Arg(th) OBVIOUS
<1>2. /\ Calling(th, "EndDelete") /\ x \in Objects /\ todo[th] # <<>> /\ 1 \in DOMAIN todo[th]
      /\ todo[th][1] = EndDelete(x) /\ todo[th][1] \in DyingFrames(x) /\ life[x] = "dead" /\ ~HasWeakRef(cls[x])
      /\ cls[x] \in Classes
  BY <1>1, EndDeleteFacts
<1>3. /\ Continue(th, <<>>) /\ Deallocate({x})
      /\ UNCHANGED <<program, weakRef, m_refCount, m_weakRefCount, field, strong, weak, maybe, holder, raw>>
      /\ handled' = handled \ {x} /\ reported' = reported \ {x}
  BY <1>1 DEF EndDeleteObject, RunEndDelete, holderVars
<1> HIDE DEF EndDeleteObject
<1>4. weakRef[x] = NoObj BY <1>0, <1>2 DEF Heap, WeakRefOK
<1>5. cls[x] \notin Members /\ cls[x] # SwarmMember BY <1>2, ClassFacts DEF HasWeakRef, Members, SwarmMembers
<1>6. \A z \in Objects : x \notin Inside(z)
  BY <1>0, <1>5 DEF Heap, ListsOK, Inside, Members
<1>7. \A u \in Threads : \A j \in DOMAIN todo[u] :
         todo[u][j].call \in LastCalls => (todo[u][j].arg = x <=> u = th /\ j = 1)
  <2> SUFFICES ASSUME NEW u \in Threads, NEW j \in DOMAIN todo[u], todo[u][j].call \in LastCalls
               PROVE  todo[u][j].arg = x <=> u = th /\ j = 1
    OBVIOUS
  <2>1. u = th /\ j = 1 => todo[u][j].arg = x BY <1>2 DEF EndDelete
  <2>2. ASSUME todo[u][j].arg = x, ~(u = th /\ j = 1) PROVE FALSE
    <3>1. todo[u][j] = FreeMember(x) BY <1>2, <2>2, OnlyHere
    <3>2. FrameOK(u, j) BY <1>0 DEF FramesOK
    <3> QED BY <1>5, <3>1, <3>2 DEF FrameOK, FreeMember
  <2> QED BY <2>1, <2>2
<1> QED BY <1>2, <1>3, <1>4, <1>6, <1>7, FreeOne

(* The holder of a member that could not be initialized goes. *)
LEMMA RunFreeMemberStep ==
  ASSUME IInv, NEW th \in Threads, RunFreeMember(th), UNCHANGED <<errorVars, holderVars>>
  PROVE  IInv'
<1>0. Heap /\ FramesOK /\ FramesTyped(todo) /\ Onces /\ Reports BY DEF IInv
<1>1. Calling(th, "FreeMember") BY DEF RunFreeMember
<1>2. /\ todo[th] # <<>> /\ 1 \in DOMAIN todo[th] /\ todo[th][1] \in Frames
      /\ Head(todo[th]) = todo[th][1] /\ todo[th][1].call = "FreeMember" /\ Arg(th) = todo[th][1].arg
  BY <1>0, <1>1 DEF Calling, FramesTyped, Arg
<1>3. PICK x \in Objects : x = Arg(th) BY <1>2, FrameFacts
<1>4. /\ Continue(th, <<>>) /\ Deallocate({x})
      /\ UNCHANGED <<program, weakRef, m_refCount, m_weakRefCount, field, strong, weak, maybe, holder, raw>>
      /\ handled' = handled /\ reported' = reported
  BY <1>3 DEF RunFreeMember, holderVars, errorVars
<1> HIDE DEF RunFreeMember
<1>5. cls[x] = SwarmMember /\ weakRef[x] = NoObj /\ life[x] = "dead"
  <2>1. FrameOK(th, 1) BY <1>0, <1>2 DEF FramesOK
  <2> QED BY <1>2, <1>3, <2>1 DEF FrameOK
<1>6. cls[x] \in SwarmMembers /\ cls[x].policy = "WeakRef" /\ cls[x] # ErrorCodeState
  BY <1>5 DEF SwarmMembers, SwarmMember, ErrorCodeState, Class
<1>7. reported' = reported \ {x} BY <1>0, <1>4, <1>6 DEF Reports
<1>8. todo[th][1] \in MemberFrames(x) BY <1>2, <1>3 DEF MemberFrames
<1>9. \A z \in Objects : x \notin Inside(z)
  <2>1. Occurs(MemberFrames(x)) BY <1>2, <1>8 DEF Occurs, OccursIn
  <2>2. cls[x] # FixedSwarmMember BY <1>6, ClassFacts
  <2> QED BY <1>0, <2>1, <2>2 DEF Heap, ListsOK, Inside
<1>10. \A u \in Threads : \A j \in DOMAIN todo[u] :
         todo[u][j].call \in LastCalls => (todo[u][j].arg = x <=> u = th /\ j = 1)
  <2> SUFFICES ASSUME NEW u \in Threads, NEW j \in DOMAIN todo[u], todo[u][j].call \in LastCalls
               PROVE  todo[u][j].arg = x <=> u = th /\ j = 1
    OBVIOUS
  <2>1. u = th /\ j = 1 => todo[u][j].arg = x BY <1>2, <1>3
  <2>2. ASSUME todo[u][j].arg = x PROVE u = th /\ j = 1
    <3>1. todo[u][j] \in Frames /\ FrameOK(u, j) BY <1>0 DEF FramesTyped, FramesOK
    <3>2. todo[u][j].call \notin {"Delete", "EndDelete"} BY <1>5, <1>6, <2>2, <3>1 DEF FrameOK, DyingOK
    <3>3. todo[u][j] \in MemberFrames(x) BY <2>2, <3>1, <3>2 DEF LastCalls, MemberFrames
    <3> QED BY <1>0, <1>2, <1>8, <3>3 DEF Onces, AtMostOnceIn
  <2> QED BY <2>1, <2>2
<1> QED BY <1>1, <1>4, <1>5, <1>6, <1>7, <1>9, <1>10, FreeOne
-----------------------------------------------------------------------------
(* No object is in two containers. *)
LEMMA OwnedApart ==
  ASSUME IInv, NEW b \in Objects, NEW c \in Objects, cls[b] \notin Members, cls[c] \notin Members,
         NEW y \in Owned(b), y \in Owned(c)
  PROVE  b = c
<1>1. ListsOK(b) /\ ListsOK(c) BY DEF IInv, Heap
<1>2. y # b => cls[y] \in Members BY <1>1 DEF ListsOK, Owned, Members
<1>3. y # c => cls[y] \in Members BY <1>1 DEF ListsOK, Owned, Members
<1>4. CASE y \in Range(m_headMember[b]) /\ y \in Range(m_headMember[c]) BY <1>1, <1>4 DEF ListsOK
<1>5. CASE y \in storage[b] /\ y \in storage[c] BY <1>1, <1>5 DEF ListsOK
<1>6. CASE y \in Range(m_headMember[b]) /\ y \in storage[c] BY <1>1, <1>6, ClassFacts DEF ListsOK
<1>7. CASE y \in storage[b] /\ y \in Range(m_headMember[c]) BY <1>1, <1>7, ClassFacts DEF ListsOK
<1> QED BY <1>2, <1>3, <1>4, <1>5, <1>6, <1>7 DEF Owned

(* The weak count h is the last one of the container b, and the top call   *)
(* of th gives it up: it destroys x, or releases b.                        *)
LastWeak(th, x, b, h) ==
  /\ h \in WeakTokens /\ WeakAt[h] = b /\ m_weakRefCount[b] = 1
  /\ todo[th] # <<>>
  /\ \/ h = <<"object", x>> /\ todo[th][1] = EndDelete(x)
     \/ h = <<"call", th, b>> /\ todo[th][1] = ReleaseWeakRef(b)

(* What is left in the container. *)
LEMMA LastInside ==
  ASSUME IInv, NEW th \in Threads, NEW x \in Objects, NEW b \in Objects, NEW h, LastWeak(th, x, b, h)
  PROVE  /\ HasWeakRef(cls[b]) /\ cls[b] \notin Members
         /\ \A k \in WeakTokens : WeakAt[k] = b => k = h
         /\ \A y \in Owned(b) : /\ y \in Objects /\ HasWeakRef(cls[y]) /\ weakRef[y] \in {b, NoObj}
                                /\ y # b => cls[y] \in Members /\ Inside(y) = {} /\ m_weakRefCount[y] = 0
         /\ \A y \in Objects : weakRef[y] = b => \/ y = x /\ h = <<"object", x>>
                                                 \/ y = b /\ cls[b] = FixedSwarm /\ m_refCount[b] = 0
         /\ h = <<"object", x>> => Dying(x) /\ life[x] = "dead" /\ todo[th][1] \in DyingFrames(x)
<1>0. TypeOK /\ Heap /\ WeakExact /\ FramesTyped(todo) /\ FramesOK BY DEF IInv, Counts
<1>1. HasWeakRef(cls[b]) /\ cls[b] \notin Members
  <2>1. m_weakRefCount[b] > 0 BY DEF LastWeak
  <2> QED BY <1>0, <2>1 DEF Heap, CountsOK
<1>2. \A k \in WeakTokens : WeakAt[k] = b => k = h
  <2>1. PICK f, n : f = WeakAt /\ n = m_weakRefCount OBVIOUS
  <2>2. Exact(f, n) /\ n[b] = 1 /\ f[h] = b /\ h \in DOMAIN f /\ DOMAIN f = WeakTokens
    BY <1>0, <2>1, WeakIs DEF WeakExact, LastWeak
  <2> QED BY <2>1, <2>2, ExactZero
<1>3. m_weakRefCount \in [Objects -> Nat] /\ storage \in [Objects -> SUBSET Objects] /\ m_headMember \in [Objects -> Seq(Objects)]
  BY <1>0 DEF TypeOK, RefTypeOK
<1>4. \A y \in Owned(b) : /\ y \in Objects /\ HasWeakRef(cls[y]) /\ weakRef[y] \in {b, NoObj}
                          /\ y # b => cls[y] \in Members /\ Inside(y) = {} /\ m_weakRefCount[y] = 0
  <2> SUFFICES ASSUME NEW y \in Owned(b)
               PROVE  /\ y \in Objects /\ HasWeakRef(cls[y]) /\ weakRef[y] \in {b, NoObj}
                      /\ y # b => cls[y] \in Members /\ Inside(y) = {} /\ m_weakRefCount[y] = 0
    OBVIOUS
  <2>1. y \in Objects BY <1>3 DEF Owned, Range
  <2>2. ListsOK(b) /\ ClassOK(y) /\ CountsOK(y) /\ WeakRefOK(b) BY <1>0, <2>1 DEF Heap
  <2>3. CASE y = b
    <3>1. weakRef[b] # NoObj /\ weakRef[b] # b => cls[b] \in SwarmMembers \cup {FixedSwarmMember}
      BY <2>2 DEF WeakRefOK
    <3> QED BY <1>1, <2>1, <2>3, <3>1 DEF Members
  <2>4. CASE y # b
    <3>1. cls[y] \in Members /\ weakRef[y] \in {b, NoObj} BY <2>2, <2>4 DEF ListsOK, Owned, Members
    <3>2. cls[y].policy = "WeakRef" /\ cls[y] \notin Swarms /\ cls[y] # FixedSwarm
      <4>1. cls[y] \in Classes BY <3>1, ClassFacts DEF Members
      <4> QED BY <3>1, <4>1, ClassFacts
    <3>3. m_headMember[y] = <<>> /\ storage[y] = {} BY <2>2, <3>2 DEF ClassOK
    <3>4. ~(m_weakRefCount[y] > 0) BY <2>2, <3>1 DEF CountsOK
    <3>5. m_weakRefCount[y] = 0 BY <1>3, <2>1, <3>4
    <3> QED BY <2>1, <2>4, <3>1, <3>2, <3>3, <3>5 DEF Inside, Range, HasWeakRef
  <2> QED BY <2>3, <2>4
<1>5. \A y \in Objects : weakRef[y] = b => \/ y = x /\ h = <<"object", x>>
                                           \/ y = b /\ cls[b] = FixedSwarm /\ m_refCount[b] = 0
  <2> SUFFICES ASSUME NEW y \in Objects, weakRef[y] = b
               PROVE  \/ y = x /\ h = <<"object", x>>
                      \/ y = b /\ cls[b] = FixedSwarm /\ m_refCount[b] = 0
    OBVIOUS
  <2>1. /\ WeakAt[<<"object", y>>] = IF cls[y] = FixedSwarm /\ m_refCount[y] = 0 THEN NoObj ELSE weakRef[y]
        /\ <<"object", y>> \in WeakTokens
    BY WeakIs
  <2>2. CASE cls[y] = FixedSwarm /\ m_refCount[y] = 0
    <3>1. WeakRefOK(y) /\ b # NoObj BY <1>0, RefCountingAssumption DEF Heap
    <3>2. FixedSwarm \notin SwarmMembers /\ FixedSwarm # FixedSwarmMember BY ClassFacts DEF Members
    <3>3. y = b BY <2>2, <3>1, <3>2 DEF WeakRefOK
    <3> QED BY <2>2, <3>3
  <2>3. CASE ~(cls[y] = FixedSwarm /\ m_refCount[y] = 0)
    <3>1. h = <<"object", y>> BY <1>2, <2>1, <2>3
    <3> QED BY <3>1 DEF LastWeak
  <2> QED BY <2>2, <2>3
<1>6. h = <<"object", x>> => Dying(x) /\ life[x] = "dead" /\ todo[th][1] \in DyingFrames(x)
  <2> SUFFICES ASSUME h = <<"object", x>> PROVE Dying(x) /\ life[x] = "dead" /\ todo[th][1] \in DyingFrames(x) OBVIOUS
  <2>1. todo[th] # <<>> /\ todo[th][1] = EndDelete(x) BY DEF LastWeak
  <2>2. 1 \in DOMAIN todo[th] BY <1>0, <2>1 DEF FramesTyped
  <2>3. FrameOK(th, 1) BY <1>0, <2>2 DEF FramesOK
  <2>4. life[x] = "dead" BY <2>1, <2>3 DEF FrameOK, EndDelete
  <2>5. todo[th][1] \in DyingFrames(x) BY <2>1 DEF DyingFrames
  <2> QED BY <2>1, <2>4, <2>5, OnlyHere
<1> QED BY <1>1, <1>2, <1>4, <1>5, <1>6
-----------------------------------------------------------------------------
(* No reference counts at a container whose last weak count goes.          *)
LEMMA LastNoRef ==
  ASSUME IInv, NEW th \in Threads, NEW x \in Objects, NEW b \in Objects, NEW h, LastWeak(th, x, b, h)
  PROVE  \A k \in StrongTokens : Ref(k) # NoObj => weakRef[Ref(k)] # b
<1> SUFFICES ASSUME NEW k \in StrongTokens, Ref(k) # NoObj, weakRef[Ref(k)] = b PROVE FALSE OBVIOUS
<1>1. PICK y : y = Ref(k) OBVIOUS
<1>2. /\ Live(y) /\ y \in Objects /\ weakRef[y] = b
      /\ IsCounted(y) => Counter(y) \in Objects /\ Pos(Counter(y))
  BY <1>1, RefCounted
<1>3. CASE y = x /\ h = <<"object", x>>
  <2>1. Dying(x) BY <1>3, LastInside
  <2> QED BY <1>2, <1>3, <2>1 DEF Live
<1>4. CASE y = b /\ cls[b] = FixedSwarm /\ m_refCount[b] = 0
  <2>1. FixedSwarm.policy = "FixedSwarm" BY DEF FixedSwarm, Class
  <2>2. IsCounted(y) /\ Counter(y) = b BY <1>2, <1>4, <2>1 DEF IsCounted, Counter
  <2> QED BY <1>2, <1>4, <2>2 DEF Pos
<1>5. \/ y = x /\ h = <<"object", x>>
      \/ y = b /\ cls[b] = FixedSwarm /\ m_refCount[b] = 0
  BY <1>2, LastInside
<1> QED BY <1>3, <1>4, <1>5

(* The object that gives the last weak count up is in the container.       *)
LEMMA LastOwned ==
  ASSUME IInv, NEW th \in Threads, NEW x \in Objects, NEW b \in Objects, NEW h, LastWeak(th, x, b, h),
         h = <<"object", x>>
  PROVE  x \in Owned(b)
<1>0. Heap /\ FramesOK /\ FramesTyped(todo) BY DEF IInv
<1>1. Dying(x) /\ life[x] = "dead" /\ todo[th][1] \in DyingFrames(x) /\ todo[th] # <<>> /\ 1 \in DOMAIN todo[th]
  <2>1. Dying(x) /\ life[x] = "dead" /\ todo[th][1] \in DyingFrames(x) BY LastInside
  <2>2. todo[th] # <<>> BY DEF LastWeak
  <2> QED BY <1>0, <2>1, <2>2 DEF FramesTyped
<1>2. weakRef[x] = b
  <2>1. WeakAt[h] = b BY DEF LastWeak
  <2>2. WeakAt[h] = (IF cls[x] = FixedSwarm /\ m_refCount[x] = 0 THEN NoObj ELSE weakRef[x]) BY WeakIs
  <2> QED BY <2>1, <2>2, RefCountingAssumption
<1>3. WeakRefOK(x) /\ CountsOK(x) BY <1>0 DEF Heap
<1>4. b # NoObj BY RefCountingAssumption
<1>5. CASE x = b BY <1>5 DEF Owned
<1>6. CASE cls[x] = FixedSwarmMember /\ x \in storage[b] BY <1>6 DEF Owned
<1>7. CASE cls[x] \in SwarmMembers
  <2>1. ASSUME NEW d \in Objects, x \in Range(m_headMember[d]) \cup storage[d] PROVE x \in Owned(b)
    <3>1. ListsOK(d) BY <1>0 DEF Heap
    <3>2. weakRef[x] = d BY <1>2, <1>4, <2>1, <3>1 DEF ListsOK
    <3> QED BY <1>2, <2>1, <3>2 DEF Owned
  <2>2. ASSUME Occurs(MemberFrames(x)) PROVE FALSE
    <3>0. PICK u \in Threads : \E i \in DOMAIN todo[u] : todo[u][i] \in MemberFrames(x) BY <2>2 DEF Occurs, OccursIn
    <3>1. PICK i \in DOMAIN todo[u] : todo[u][i] \in MemberFrames(x) BY <3>0
    <3>2. /\ todo[u][i] \in Frames /\ todo[u][i].arg = x
          /\ todo[u][i].call \in {"AddSwarmMember", "FreeMember"}
      BY <3>1 DEF MemberFrames
    <3>3. FrameOK(u, i) BY <1>0 DEF FramesOK
    <3>4. CASE todo[u][i].call = "AddSwarmMember" BY <1>1, <3>2, <3>3, <3>4 DEF FrameOK
    <3>5. CASE todo[u][i].call = "FreeMember"
      <4>1. HoldsSwarm(u, b) BY <1>2, <1>4, <3>2, <3>3, <3>5 DEF FrameOK
      <4>2. PICK s \in Own(u) : strong[s] # NoObj /\ weakRef[strong[s]] = b BY <4>1 DEF HoldsSwarm
      <4>3. <<"slot", s>> \in StrongTokens /\ Ref(<<"slot", s>>) = strong[s] BY <4>2, TokenKinds, RefIs DEF Own
      <4>4. weakRef[strong[s]] # b BY <4>2, <4>3, LastNoRef
      <4> QED BY <4>2, <4>4
    <3> QED BY <3>2, <3>4, <3>5
  <2>3. \/ \E d \in Objects : x \in Range(m_headMember[d]) \cup storage[d]
        \/ Occurs(MemberFrames(x))
    BY <1>3, <1>7 DEF CountsOK, Members
  <2> QED BY <2>1, <2>2, <2>3
<1> QED BY <1>2, <1>3, <1>4, <1>5, <1>6, <1>7 DEF WeakRefOK

(* Nothing but the top call of th has to do with the container.            *)
LEMMA LastDetached ==
  ASSUME IInv, NEW th \in Threads, NEW x \in Objects, NEW b \in Objects, NEW h, LastWeak(th, x, b, h)
  PROVE  Owned(b) \in SUBSET Objects /\ Detached(th, Owned(b))
<1>0. TypeOK /\ Heap /\ FramesOK /\ FramesTyped(todo) /\ Onces BY DEF IInv
<1>1. /\ HasWeakRef(cls[b]) /\ cls[b] \notin Members
      /\ \A k \in WeakTokens : WeakAt[k] = b => k = h
      /\ \A y \in Owned(b) : /\ y \in Objects /\ HasWeakRef(cls[y]) /\ weakRef[y] \in {b, NoObj}
                             /\ y # b => cls[y] \in Members /\ Inside(y) = {} /\ m_weakRefCount[y] = 0
      /\ \A y \in Objects : weakRef[y] = b => \/ y = x /\ h = <<"object", x>>
                                              \/ y = b /\ cls[b] = FixedSwarm /\ m_refCount[b] = 0
      /\ h = <<"object", x>> => Dying(x) /\ life[x] = "dead" /\ todo[th][1] \in DyingFrames(x)
  BY LastInside
<1>2. PICK D : D = Owned(b) OBVIOUS
<1>3. D \in SUBSET Objects /\ b \in D BY <1>1, <1>2 DEF Owned
<1>4. FixedSwarm.policy = "FixedSwarm" /\ OwnedObject.policy = "Owned" BY DEF FixedSwarm, OwnedObject, Class
<1>5. \A y \in D : life[y] = "alive" => y = b /\ cls[b] = FixedSwarm /\ m_refCount[b] = 0
  <2> SUFFICES ASSUME NEW y \in D, life[y] = "alive" PROVE y = b /\ cls[b] = FixedSwarm /\ m_refCount[b] = 0 OBVIOUS
  <2>1. y \in Objects /\ HasWeakRef(cls[y]) /\ weakRef[y] \in {b, NoObj} BY <1>1, <1>2
  <2>2. WeakRefOK(y) BY <1>0, <2>1 DEF Heap
  <2>3. weakRef[y] = b BY <2>1, <2>2 DEF WeakRefOK
  <2> QED BY <1>1, <2>1, <2>3
<1>6. \A y \in D : /\ field[y] = NullField /\ ~Pos(y) /\ cls[y].policy # "NoRefCount"
                   /\ ~(cls[y] = OwnedObject /\ life[y] = "alive") /\ Inside(y) \subseteq D
  <2> SUFFICES ASSUME NEW y \in D
               PROVE  /\ field[y] = NullField /\ ~Pos(y) /\ cls[y].policy # "NoRefCount"
                      /\ ~(cls[y] = OwnedObject /\ life[y] = "alive") /\ Inside(y) \subseteq D
    OBVIOUS
  <2>1. y \in Objects /\ HasWeakRef(cls[y]) BY <1>1, <1>2
  <2>2. FieldOK(y) /\ CountsOK(y) BY <1>0, <2>1 DEF Heap
  <2>3. field[y] = NullField
    <3>1. ~(FixedSwarm.takes \/ FixedSwarm.links \/ FixedSwarm.lazy) BY DEF FixedSwarm, Class
    <3> QED BY <1>5, <2>2, <3>1 DEF FieldOK
  <2>4. ~Pos(y) BY <1>5, <2>2 DEF CountsOK, Pos
  <2>5. cls[y].policy # "NoRefCount" /\ cls[y] # OwnedObject BY <1>4, <2>1 DEF HasWeakRef
  <2>6. Inside(y) \subseteq D BY <1>1, <1>2 DEF Inside, Owned
  <2> QED BY <2>3, <2>4, <2>5, <2>6
<1>7. \A z \in Objects : z \notin D => weakRef[z] \notin D /\ Inside(z) \cap D = {}
  <2> SUFFICES ASSUME NEW z \in Objects, z \notin D PROVE weakRef[z] \notin D /\ Inside(z) \cap D = {} OBVIOUS
  <2>1. WeakRefOK(z) /\ ClassOK(z) BY <1>0 DEF Heap
  <2>2. weakRef[z] # b
    <3>1. z # b BY <1>3
    <3>2. z = x /\ h = <<"object", x>> => z \in D BY <1>2, LastOwned
    <3> QED BY <1>1, <3>1, <3>2
  <2>3. ASSUME weakRef[z] \in D, weakRef[z] # b PROVE FALSE
    <3>1. PICK d \in D : d = weakRef[z] BY <2>3
    <3>2. d \in Objects /\ cls[d] \in Members /\ d # NoObj BY <1>1, <1>2, <2>3, <3>1, RefCountingAssumption
    <3>3. cls[d] \notin Swarms /\ cls[d] # FixedSwarm
      <4>1. cls[d] \in Classes BY <3>2, ClassFacts DEF Members
      <4> QED BY <3>2, <4>1, ClassFacts
    <3>4. d = z BY <2>1, <3>1, <3>2, <3>3 DEF WeakRefOK
    <3> QED BY <3>4
  <2>4. ASSUME NEW y \in Inside(z), y \in D PROVE FALSE
    <3>1. cls[z] \in Swarms \/ cls[z] = FixedSwarm
      <4>1. m_headMember[z] \in Seq(Objects) /\ (y \in Range(m_headMember[z]) => m_headMember[z] # <<>>)
        BY <1>0 DEF TypeOK, RefTypeOK, Range
      <4> QED BY <2>1, <2>4, <4>1 DEF ClassOK, Inside
    <3>2. cls[z] \notin Members
      <4>1. cls[z] \in Classes \cup {NoClass} BY <2>1 DEF ClassOK
      <4> QED BY <3>1, <4>1, ClassFacts DEF Members
    <3>3. y \in Owned(b) /\ y \in Owned(z) BY <1>2, <2>4 DEF Owned, Inside
    <3>4. b = z BY <1>1, <3>2, <3>3, OwnedApart
    <3> QED BY <1>3, <3>4
  <2> QED BY <2>2, <2>3, <2>4
<1>8. \A k \in StrongTokens : Ref(k) \notin D
  <2> SUFFICES ASSUME NEW k \in StrongTokens, Ref(k) \in D PROVE FALSE OBVIOUS
  <2>1. PICK y \in D : y = Ref(k) OBVIOUS
  <2>2. y # NoObj /\ HasWeakRef(cls[y]) /\ weakRef[y] \in {b, NoObj} BY <1>1, <1>2, RefCountingAssumption
  <2>3. Live(y) BY <2>1, <2>2, RefCounted
  <2>4. weakRef[y] = b BY <2>2, <2>3, RefCountingAssumption DEF Live
  <2> QED BY <2>1, <2>2, <2>4, LastNoRef
<1>9. \A u \in Threads : weak[u].m_ptr \notin D /\ weak[u].m_weakRef \notin D
  <2> SUFFICES ASSUME NEW u \in Threads PROVE weak[u].m_ptr \notin D /\ weak[u].m_weakRef \notin D OBVIOUS
  <2>1. CASE weak[u] = EmptyWeakPtr BY <1>3, <2>1, WeakFull, RefCountingAssumption
  <2>2. CASE weak[u] # EmptyWeakPtr
    <3>1. PICK y, c : y = weak[u].m_ptr /\ c = weak[u].m_weakRef OBVIOUS
    <3>2. y \in Objects /\ c \in Objects /\ m_weakRefCount[c] > 0 /\ WeakLive(weak[u]) BY <2>2, <3>1, WeakFull
    <3>3. y \in Owned(c) BY <2>2, <3>1, <3>2 DEF WeakLive
    <3>4. cls[c] \notin Members
      <4>1. CountsOK(c) BY <1>0, <3>2 DEF Heap
      <4> QED BY <3>2, <4>1 DEF CountsOK
    <3>5. c # b
      <4>1. <<"weak", u>> \in WeakTokens /\ WeakAt[<<"weak", u>>] = c BY <3>1, WeakIs
      <4>2. <<"weak", u>> # h BY DEF LastWeak
      <4> QED BY <1>1, <4>1, <4>2
    <3>6. y \notin D BY <1>1, <1>2, <3>2, <3>3, <3>4, <3>5, OwnedApart
    <3>7. c \notin D BY <1>1, <1>2, <3>4, <3>5
    <3> QED BY <3>1, <3>6, <3>7
  <2> QED BY <2>1, <2>2
<1>10. \A u \in Threads : \A j \in DOMAIN todo[u] :
          todo[u][j].call \in LastCalls => (todo[u][j].arg \in D <=> u = th /\ j = 1)
  <2> SUFFICES ASSUME NEW u \in Threads, NEW j \in DOMAIN todo[u], todo[u][j].call \in LastCalls
               PROVE  todo[u][j].arg \in D <=> u = th /\ j = 1
    OBVIOUS
  <2>1. FrameOK(u, j) /\ todo[u][j] \in Frames BY <1>0 DEF FramesOK, FramesTyped
  <2>2. ASSUME u = th, j = 1 PROVE todo[u][j].arg \in D
    <3>1. h = <<"object", x>> /\ todo[th][1] = EndDelete(x) BY <2>2 DEF LastWeak, LastCalls, ReleaseWeakRef
    <3>2. x \in D BY <1>2, <3>1, LastOwned
    <3> QED BY <2>2, <3>1, <3>2 DEF EndDelete
  <2>3. ASSUME todo[u][j].arg \in D PROVE u = th /\ j = 1
    <3>1. PICK y \in D : y = todo[u][j].arg BY <2>3
    <3>2. y \in Objects /\ HasWeakRef(cls[y]) /\ weakRef[y] \in {b, NoObj} BY <1>1, <1>2
    <3>3. CASE todo[u][j].call \in {"Delete", "EndDelete"}
      <4>1. cls[y].policy = "WeakRef" /\ DyingOK(u, j, y) BY <2>1, <3>1, <3>2, <3>3 DEF FrameOK, HasWeakRef
      <4>2. weakRef[y] = b BY <3>2, <4>1 DEF DyingOK
      <4>3. y = x /\ h = <<"object", x>> BY <1>1, <1>4, <3>2, <4>1, <4>2
      <4>4. todo[u][j] \in DyingFrames(x)
        BY <2>1, <3>1, <3>3, <4>3, FrameFacts DEF DyingFrames, Delete, EndDelete
      <4>5. todo[th][1] \in DyingFrames(x) /\ 1 \in DOMAIN todo[th]
        <5>1. todo[th] # <<>> BY DEF LastWeak
        <5> QED BY <1>0, <1>1, <4>3, <5>1 DEF FramesTyped
      <4>6. AtMostOnceIn(todo, DyingFrames(x)) BY <1>0 DEF Onces
      <4> QED BY <4>4, <4>5, <4>6 DEF AtMostOnceIn
    <3>4. CASE todo[u][j].call \in {"FreeMember", "AddSwarmMember"}
      <4>1. cls[y] \in SwarmMembers BY <2>1, <3>1, <3>4 DEF FrameOK, SwarmMembers
      <4>2. y # b /\ cls[y] # FixedSwarmMember BY <1>1, <4>1, ClassFacts DEF Members
      <4>3. ListsOK(b) BY <1>0 DEF Heap
      <4>4. y \in Range(m_headMember[b]) BY <1>2, <4>2, <4>3 DEF ListsOK, Owned
      <4>5. todo[u][j] \in MemberFrames(y) BY <2>1, <3>1, <3>4 DEF MemberFrames
      <4>6. Occurs(MemberFrames(y)) BY <4>5 DEF Occurs, OccursIn
      <4> QED BY <4>3, <4>4, <4>6 DEF ListsOK
    <3> QED BY <3>3, <3>4 DEF LastCalls
  <2> QED BY <2>2, <2>3
<1>11. Detached(th, D) BY <1>6, <1>7, <1>8, <1>9, <1>10 DEF Detached
<1> QED BY <1>2, <1>3, <1>11

(* The last weak count of a container goes, and its memory with it.        *)
LEMMA LastWeakStep ==
  ASSUME IInv, NEW th \in Threads, NEW x \in Objects, NEW b \in Objects, NEW h, LastWeak(th, x, b, h),
         Continue(th, <<>>), DropWeakRef(b),
         weakRef' \in [Objects -> Pointers],
         \A y \in Objects : weakRef'[y] = IF y \in Owned(b) THEN NoObj ELSE weakRef[y],
         UNCHANGED <<program, m_refCount, field, strong, weak, maybe, holder, raw>>,
         \/ UNCHANGED <<handled, reported>>
         \/ h = <<"object", x>> /\ handled' = handled \ {x} /\ reported' = reported \ {x}
  PROVE  IInv'
<1>0. TypeOK /\ Heap /\ FramesTyped(todo) /\ FramesOK /\ Reports BY DEF IInv
<1>1. /\ \A k \in WeakTokens : WeakAt[k] = b => k = h
      /\ \A y \in Owned(b) : y \in Objects /\ HasWeakRef(cls[y]) /\ weakRef[y] \in {b, NoObj}
      /\ \A y \in Owned(b) : y # b => m_weakRefCount[y] = 0
  BY LastInside
<1>2. Owned(b) \in SUBSET Objects /\ Detached(th, Owned(b)) BY LastDetached
<1>3. PICK D : D = Owned(b) OBVIOUS
<1>4. D \in SUBSET Objects /\ Detached(th, D) /\ b \in D BY <1>2, <1>3 DEF Owned
<1>5. /\ h \in WeakTokens /\ WeakAt[h] = b /\ m_weakRefCount[b] = 1 /\ todo[th] # <<>>
      /\ \/ h = <<"object", x>> /\ todo[th][1] = EndDelete(x)
         \/ h = <<"call", th, b>> /\ todo[th][1] = ReleaseWeakRef(b)
  BY DEF LastWeak
<1>6. /\ Deallocate(D) /\ m_weakRefCount' = [m_weakRefCount EXCEPT ![b] = @ - 1]
      /\ \A y \in Objects : weakRef'[y] = IF y \in D THEN NoObj ELSE weakRef[y]
  BY <1>3, <1>5 DEF DropWeakRef
<1>7. m_weakRefCount \in [Objects -> Nat] BY <1>0 DEF TypeOK, RefTypeOK
<1>8. /\ m_weakRefCount' \in [Objects -> Nat] /\ m_weakRefCount'[b] = 0
      /\ \A y \in Objects : y # b => m_weakRefCount'[y] = m_weakRefCount[y]
      /\ Minus1(m_weakRefCount', m_weakRefCount, b)
  BY <1>5, <1>6, <1>7 DEF Minus1
<1>9. Gone(D)
  <2>1. \A y \in Objects : IF y \in D THEN m_weakRefCount'[y] = 0
                           ELSE m_weakRefCount'[y] > 0 <=> m_weakRefCount[y] > 0
    BY <1>1, <1>3, <1>4, <1>8
  <2>2. /\ handled' \in SUBSET Objects /\ reported' \in SUBSET Objects BY <1>0 DEF TypeOK, ErrorTypeOK
  <2>3. \A y \in Objects : y \in D => y \notin reported'
    <3> SUFFICES ASSUME NEW y \in D PROVE y \notin reported' OBVIOUS
    <3>1. cls[y] # ErrorCodeState BY <1>1, <1>3 DEF HasWeakRef, ErrorCodeState, Class
    <3>2. y \notin reported BY <1>0, <1>4, <3>1 DEF Reports
    <3> QED BY <3>2
  <2>4. \A y \in Objects : y \notin D => (y \in handled' <=> y \in handled) /\ (y \in reported' <=> y \in reported)
    <3>1. h = <<"object", x>> => x \in D BY <1>3, LastOwned
    <3> QED BY <3>1
  <2>5. \A y \in Objects : IF y \in D THEN y \notin reported'
                           ELSE (y \in handled' <=> y \in handled) /\ (y \in reported' <=> y \in reported)
    BY <2>3, <2>4
  <2> HIDE DEF Deallocate
  <2> QED BY <1>6, <1>8, <2>1, <2>2, <2>5 DEF Gone
<1>10. PICK p : p = <<>> OBVIOUS
<1>11. p \in Seq(Frames) /\ Continue(th, p) /\ \A i \in DOMAIN p : FALSE BY <1>10
<1>12. Calling(th, "EndDelete") \/ Calling(th, "ReleaseWeakRef")
  <2>1. Head(todo[th]) = todo[th][1] BY <1>0, <1>5 DEF FramesTyped
  <2> QED BY <1>5, <2>1 DEF Calling, EndDelete, ReleaseWeakRef
<1>13. StackStep(th, p) /\ todo[th][1].call \in {"EndDelete", "ReleaseWeakRef"}
  BY <1>0, <1>11, <1>12, ContinueStack
<1>14. \A k \in WeakTokens : WeakAt'[k] = IF k = h THEN NoObj ELSE WeakAt[k]
  <2>1. ASSUME NEW y \in Objects
        PROVE  WeakAt'[<<"object", y>>] = IF <<"object", y>> = h THEN NoObj ELSE WeakAt[<<"object", y>>]
    <3>1. /\ WeakAt[<<"object", y>>] = IF cls[y] = FixedSwarm /\ m_refCount[y] = 0 THEN NoObj ELSE weakRef[y]
          /\ WeakAt'[<<"object", y>>] = IF cls'[y] = FixedSwarm /\ m_refCount'[y] = 0 THEN NoObj ELSE weakRef'[y]
          /\ <<"object", y>> \in WeakTokens
      BY WeakIs
    <3>2. CASE y \notin D
      <4>1. cls'[y] = cls[y] BY <1>9, <3>2, GoneIs
      <4>2. WeakAt'[<<"object", y>>] = WeakAt[<<"object", y>>] BY <1>6, <3>1, <3>2, <4>1
      <4>3. <<"object", y>> # h
        <5>1. <<"object", y>> = h => y = x BY <1>5
        <5> QED BY <1>3, <3>2, <5>1, LastOwned
      <4> QED BY <4>2, <4>3
    <3>3. CASE y \in D
      <4>1. WeakAt'[<<"object", y>>] = NoObj BY <1>6, <3>1, <3>3
      <4>2. WeakAt[<<"object", y>>] \in {b, NoObj} BY <1>1, <1>3, <3>1, <3>3
      <4> QED BY <1>1, <3>1, <4>1, <4>2
    <3> QED BY <3>2, <3>3
  <2>2. ASSUME NEW u \in Threads
        PROVE  WeakAt'[<<"weak", u>>] = WeakAt[<<"weak", u>>] /\ <<"weak", u>> # h
    BY <1>5, WeakIs
  <2>3. ASSUME NEW u \in Threads, NEW d \in Objects
        PROVE  WeakAt'[<<"call", u, d>>] = IF <<"call", u, d>> = h THEN NoObj ELSE WeakAt[<<"call", u, d>>]
    <3>1. /\ u # th => (ReleaseWeakRef(d) \in Range(todo'[u]) <=> ReleaseWeakRef(d) \in Range(todo[u]))
          /\ ReleaseWeakRef(d) \in Range(todo'[th]) <=>
                (ReleaseWeakRef(d) \in Range(todo[th]) /\ todo[th][1] # ReleaseWeakRef(d))
      BY <1>0, <1>11, <1>13, CallsAfter
    <3>2. /\ WeakAt[<<"call", u, d>>] = IF ReleaseWeakRef(d) \in Range(todo[u]) THEN d ELSE NoObj
          /\ WeakAt'[<<"call", u, d>>] = IF ReleaseWeakRef(d) \in Range(todo'[u]) THEN d ELSE NoObj
      BY WeakIs
    <3>3. CASE <<"call", u, d>> = h
      <4>1. u = th /\ d = b /\ todo[th][1] = ReleaseWeakRef(b) BY <1>5, <3>3
      <4> QED BY <3>1, <3>2, <3>3, <4>1
    <3>4. CASE <<"call", u, d>> # h
      <4>1. u = th => todo[th][1] # ReleaseWeakRef(d)
        BY <1>5, <3>4 DEF ReleaseWeakRef, EndDelete
      <4> QED BY <3>1, <3>2, <3>4, <4>1
    <3> QED BY <3>3, <3>4
  <2> QED BY <2>1, <2>2, <2>3, WeakIs
<1>15. WeakExact'
  <2>1. PICK f, g, n, m : f = WeakAt /\ g = WeakAt' /\ n = m_weakRefCount /\ m = m_weakRefCount' OBVIOUS
  <2>2. DOMAIN g = DOMAIN f /\ h \in DOMAIN f /\ f[h] = b /\ g[h] \notin Objects
        /\ \A k \in DOMAIN f : k # h => g[k] = f[k]
    BY <1>5, <1>14, <2>1, WeakIs, RefCountingAssumption
  <2>3. Exact(f, n) /\ Minus1(m, n, b) BY <1>8, <2>1 DEF IInv, Counts, WeakExact
  <2>4. Exact(g, m) BY <2>2, <2>3, ExactDrop
  <2> QED BY <2>1, <2>4 DEF WeakExact, Exact, At
<1> HIDE DEF DropWeakRef
<1>16. todo[th][1].call \in {"EndDelete", "ReleaseWeakRef", "FreeMember"} BY <1>13
<1> QED BY <1>4, <1>5, <1>9, <1>10, <1>11, <1>13, <1>15, <1>16, FreeStep

(* ReleaseWeakRef() of the last weak count.                                *)
LEMMA RunReleaseLastWeakRefStep ==
  ASSUME IInv, NEW th \in Threads, RunReleaseWeakRef(th), m_weakRefCount[Arg(th)] = 1,
         UNCHANGED <<errorVars, holderVars>>
  PROVE  IInv'
<1>0. TypeOK /\ FramesTyped(todo) /\ FramesOK BY DEF IInv
<1>1. Calling(th, "ReleaseWeakRef") BY DEF RunReleaseWeakRef
<1>2. /\ todo[th] # <<>> /\ 1 \in DOMAIN todo[th] /\ todo[th][1] \in Frames
      /\ Head(todo[th]) = todo[th][1] /\ todo[th][1].call = "ReleaseWeakRef" /\ Arg(th) = todo[th][1].arg
  BY <1>0, <1>1 DEF Calling, FramesTyped, Arg
<1>3. PICK b \in Objects : b = Arg(th) BY <1>2, FrameFacts
<1>4. todo[th][1] = ReleaseWeakRef(b) BY <1>2, <1>3, FrameFacts DEF ReleaseWeakRef
<1>5. /\ Continue(th, <<>>) /\ DropWeakRef(b)
      /\ weakRef' = [o \in Objects |-> IF o \in Owned(b) THEN NoObj ELSE weakRef[o]]
      /\ UNCHANGED <<program, m_refCount, field, strong, weak>>
      /\ m_weakRefCount[b] = 1
  BY <1>3 DEF RunReleaseWeakRef
<1> HIDE DEF RunReleaseWeakRef
<1>6. UNCHANGED <<program, m_refCount, field, strong, weak, maybe, holder, raw>> /\ UNCHANGED <<handled, reported>>
  BY <1>5 DEF errorVars, holderVars
<1>7. PICK h : h = <<"call", th, b>> OBVIOUS
<1>8. LastWeak(th, b, b, h)
  <2>1. ReleaseWeakRef(b) \in Range(todo[th]) BY <1>2, <1>4 DEF Range
  <2>2. h \in WeakTokens /\ WeakAt[h] = b BY <1>7, <2>1, WeakIs
  <2> QED BY <1>2, <1>4, <1>5, <1>7, <2>2 DEF LastWeak
<1>9. /\ weakRef' \in [Objects -> Pointers]
      /\ \A y \in Objects : weakRef'[y] = IF y \in Owned(b) THEN NoObj ELSE weakRef[y]
  BY <1>0, <1>5 DEF TypeOK, RefTypeOK, Pointers
<1> QED BY <1>5, <1>6, <1>8, <1>9, LastWeakStep

(* EndDelete of an object with a weak reference, which is the last.        *)
LEMMA EndDeleteLastStep ==
  ASSUME IInv, NEW th \in Threads, EndDeleteObject(th), UNCHANGED holderVars, HasWeakRef(cls[Arg(th)]),
         m_weakRefCount[weakRef[Arg(th)]] = 1
  PROVE  IInv'
<1>0. TypeOK /\ Heap /\ FramesTyped(todo) /\ FramesOK BY DEF IInv
<1>1. PICK x : x = Arg(th) OBVIOUS
<1>2. /\ Calling(th, "EndDelete") /\ x \in Objects /\ todo[th] # <<>> /\ 1 \in DOMAIN todo[th]
      /\ todo[th][1] = EndDelete(x) /\ todo[th][1] \in DyingFrames(x) /\ life[x] = "dead" /\ HasWeakRef(cls[x])
      /\ cls[x] \in Classes /\ Cascade(th, 1) /\ DyingOK(th, 1, x) /\ cls[x].policy \in {"Simple", "WeakRef", "Owned"}
  BY <1>1, EndDeleteFacts
<1>3. cls[x].policy = "WeakRef" /\ weakRef[x] # NoObj BY <1>2 DEF HasWeakRef, DyingOK
<1>4. PICK b \in Objects : b = weakRef[x] BY <1>0, <1>2, <1>3 DEF TypeOK, RefTypeOK, Pointers
<1>5. /\ Continue(th, <<>>) /\ DropWeakRef(b) /\ weakRef' = [weakRef EXCEPT ![x] = NoObj]
      /\ UNCHANGED <<program, m_refCount, field, strong, weak>>
      /\ UNCHANGED <<maybe, holder, raw>>
      /\ handled' = handled \ {x} /\ reported' = reported \ {x}
      /\ m_weakRefCount[b] = 1
  BY <1>1, <1>2, <1>4 DEF EndDeleteObject, RunEndDelete, holderVars
<1> HIDE DEF EndDeleteObject
<1>6. PICK h : h = <<"object", x>> OBVIOUS
<1>7. LastWeak(th, x, b, h)
  <2>1. cls[x] # FixedSwarm BY <1>3 DEF FixedSwarm, Class
  <2>2. h \in WeakTokens /\ WeakAt[h] = b BY <1>2, <1>4, <1>6, <2>1, WeakIs
  <2> QED BY <1>2, <1>5, <1>6, <2>2 DEF LastWeak
<1>8. ~(cls[b] = FixedSwarm /\ m_refCount[b] = 0)
  <2> SUFFICES ASSUME cls[b] = FixedSwarm, m_refCount[b] = 0 PROVE FALSE OBVIOUS
  <2>1. WeakRefOK(x) BY <1>0, <1>2 DEF Heap
  <2>2. cls[b] \notin Swarms /\ cls[x] # FixedSwarm
    <3>1. FixedSwarm \notin Swarms BY ClassFacts
    <3> QED BY <1>3, <3>1 DEF FixedSwarm, Class
  <2>3. cls[x] = FixedSwarmMember BY <1>3, <1>4, <2>1, <2>2 DEF WeakRefOK
  <2>4. todo[th][1].call = "EndDelete" /\ todo[th][1].arg = x BY <1>2 DEF EndDelete
  <2>5. \/ Pos(b) \/ \E k \in DOMAIN todo[th] : k > 1 /\ todo[th][k] = ReleaseWeakRef(b)
    BY <1>2, <1>4, <2>3, <2>4 DEF Cascade
  <2>6. ReleaseWeakRef(b) \in Range(todo[th]) BY <2>5 DEF Pos, Range
  <2>7. WeakAt[<<"call", th, b>>] = b /\ <<"call", th, b>> \in WeakTokens BY <2>6, WeakIs
  <2>8. <<"call", th, b>> = h BY <1>2, <1>7, <2>7, LastInside
  <2> QED BY <1>6, <2>8
<1>9. x \in Owned(b) BY <1>2, <1>6, <1>7, LastOwned
<1>10. /\ weakRef' \in [Objects -> Pointers]
       /\ \A y \in Objects : weakRef'[y] = IF y \in Owned(b) THEN NoObj ELSE weakRef[y]
  <2>1. weakRef \in [Objects -> Pointers] BY <1>0 DEF TypeOK, RefTypeOK
  <2>2. weakRef' \in [Objects -> Pointers] /\ \A y \in Objects : weakRef'[y] = IF y = x THEN NoObj ELSE weakRef[y]
    BY <1>5, <2>1 DEF Pointers
  <2>3. \A y \in Owned(b) : y # x => weakRef[y] = NoObj
    <3>1. \A y \in Owned(b) : y \in Objects /\ weakRef[y] \in {b, NoObj} BY <1>2, <1>7, LastInside
    <3>2. \A y \in Objects : weakRef[y] = b => y = x BY <1>2, <1>7, <1>8, LastInside
    <3> QED BY <3>1, <3>2
  <2> QED BY <1>9, <2>2, <2>3
<1>11. UNCHANGED <<program, m_refCount, field, strong, weak, maybe, holder, raw>> BY <1>5
<1> QED BY <1>2, <1>5, <1>6, <1>7, <1>10, <1>11, LastWeakStep

(* EndDelete of an object with a weak reference, while others have one.    *)
LEMMA EndDeleteFadesStep ==
  ASSUME IInv, NEW th \in Threads, EndDeleteObject(th), UNCHANGED holderVars, HasWeakRef(cls[Arg(th)]),
         m_weakRefCount[weakRef[Arg(th)]] # 1
  PROVE  IInv'
<1>0. TypeOK /\ Heap /\ FramesTyped(todo) /\ FramesOK /\ RefsLive /\ Reports /\ Counts BY DEF IInv
<1>1. PICK x : x = Arg(th) OBVIOUS
<1>2. /\ Calling(th, "EndDelete") /\ x \in Objects /\ todo[th] # <<>> /\ 1 \in DOMAIN todo[th]
      /\ todo[th][1] = EndDelete(x) /\ todo[th][1] \in DyingFrames(x) /\ life[x] = "dead" /\ HasWeakRef(cls[x])
      /\ cls[x] \in Classes /\ DyingOK(th, 1, x) /\ cls[x].policy \in {"Simple", "WeakRef", "Owned"}
      /\ field[x] = NullField
  BY <1>1, EndDeleteFacts
<1>3. cls[x].policy = "WeakRef" /\ weakRef[x] # NoObj BY <1>2 DEF HasWeakRef, DyingOK
<1>4. PICK b \in Objects : b = weakRef[x] BY <1>0, <1>2, <1>3 DEF TypeOK, RefTypeOK, Pointers
<1>5. PICK p : p = <<>> OBVIOUS
<1>6. p \in Seq(Frames) /\ \A i \in DOMAIN p : FALSE BY <1>5
<1>7. /\ Continue(th, p) /\ m_weakRefCount' = [m_weakRefCount EXCEPT ![b] = @ - 1] /\ m_weakRefCount[b] # 1
      /\ weakRef' = [weakRef EXCEPT ![x] = NoObj]
      /\ UNCHANGED <<program, cls, life, m_headMember, storage, m_refCount, field, strong, weak>>
      /\ UNCHANGED <<maybe, holder, raw>>
      /\ handled' = handled \ {x} /\ reported' = reported \ {x}
  BY <1>1, <1>2, <1>4, <1>5 DEF EndDeleteObject, RunEndDelete, DropWeakRef, holderVars
<1> HIDE DEF EndDeleteObject
<1>8. StackStep(th, p) BY <1>0, <1>2, <1>6, <1>7, ContinueStack
<1>9. cls[x] # FixedSwarm /\ cls[x] # ErrorCodeState /\ cls[x] # OwnedObject
  BY <1>3 DEF FixedSwarm, ErrorCodeState, OwnedObject, Class
<1>10. PICK k : k = <<"object", x>> OBVIOUS
<1>11. /\ m_weakRefCount \in [Objects -> Nat] /\ weakRef \in [Objects -> Pointers] /\ Exact(WeakAt, m_weakRefCount)
  BY <1>0 DEF TypeOK, RefTypeOK, Counts, WeakExact
<1>12. /\ weakRef' \in [Objects -> Pointers] /\ weakRef'[x] = NoObj
       /\ \A y \in Objects : y # x => weakRef'[y] = weakRef[y]
  BY <1>2, <1>7, <1>11 DEF Pointers
<1>13. /\ k \in WeakTokens /\ WeakAt[k] = b /\ WeakAt'[k] = NoObj
  BY <1>2, <1>4, <1>9, <1>10, <1>12, WeakIs
<1>14. m_weakRefCount[b] > 1
  <2>1. m_weakRefCount[b] # 0 BY <1>11, <1>13, ExactZero, WeakIs
  <2> QED BY <1>7, <1>11, <2>1
<1>15. /\ m_weakRefCount' \in [Objects -> Nat] /\ Minus1(m_weakRefCount', m_weakRefCount, b)
       /\ \A d \in Objects : m_weakRefCount'[d] > 0 <=> m_weakRefCount[d] > 0
  BY <1>7, <1>11, <1>14 DEF Minus1
<1>16. TypeOK' BY <1>0, <1>7, <1>12, <1>15 DEF TypeOK, RefTypeOK, ErrorTypeOK, HolderTypeOK, Value, Error
<1>17. WeakExact'
  <2>1. \A y \in WeakTokens : y # k => WeakAt'[y] = WeakAt[y]
    <3>1. ASSUME NEW y \in Objects, y # x PROVE WeakAt'[<<"object", y>>] = WeakAt[<<"object", y>>]
      <4>1. /\ WeakAt[<<"object", y>>] = IF cls[y] = FixedSwarm /\ m_refCount[y] = 0 THEN NoObj ELSE weakRef[y]
            /\ WeakAt'[<<"object", y>>] = IF cls'[y] = FixedSwarm /\ m_refCount'[y] = 0 THEN NoObj ELSE weakRef'[y]
        BY WeakIs
      <4> QED BY <1>7, <1>12, <3>1, <4>1
    <3>2. ASSUME NEW u \in Threads PROVE WeakAt'[<<"weak", u>>] = WeakAt[<<"weak", u>>] BY <1>7, WeakIs
    <3>3. ASSUME NEW u \in Threads, NEW d \in Objects PROVE WeakAt'[<<"call", u, d>>] = WeakAt[<<"call", u, d>>]
      <4>1. todo[th][1] # ReleaseWeakRef(d) BY <1>2 DEF EndDelete, ReleaseWeakRef
      <4>2. ReleaseWeakRef(d) \in Range(todo'[u]) <=> ReleaseWeakRef(d) \in Range(todo[u])
        BY <1>0, <1>6, <1>8, <4>1, CallsAfter
      <4>3. /\ WeakAt[<<"call", u, d>>] = IF ReleaseWeakRef(d) \in Range(todo[u]) THEN d ELSE NoObj
            /\ WeakAt'[<<"call", u, d>>] = IF ReleaseWeakRef(d) \in Range(todo'[u]) THEN d ELSE NoObj
        BY WeakIs
      <4> QED BY <4>2, <4>3
    <3> QED BY <1>10, <3>1, <3>2, <3>3, WeakIs
  <2>2. PICK f, g, n, m : f = WeakAt /\ g = WeakAt' /\ n = m_weakRefCount /\ m = m_weakRefCount' OBVIOUS
  <2>3. DOMAIN g = DOMAIN f /\ k \in DOMAIN f /\ f[k] = b /\ g[k] \notin Objects
        /\ \A y \in DOMAIN f : y # k => g[y] = f[y]
    BY <1>13, <2>1, <2>2, WeakIs, RefCountingAssumption
  <2>4. Exact(f, n) /\ Minus1(m, n, b) BY <1>11, <1>15, <2>2
  <2>5. Exact(g, m) BY <2>3, <2>4, ExactDrop
  <2> QED BY <2>2, <2>5 DEF WeakExact, Exact, At
<1>18. \A h \in StrongTokens : Ref(h)' = Ref(h)
  <2> SUFFICES ASSUME NEW h \in StrongTokens PROVE Ref(h)' = Ref(h) OBVIOUS
  <2>1. todo[th][1].call = "EndDelete" BY <1>2 DEF EndDelete
  <2>2. /\ Ref(<<"release", th>>)' = NoObj /\ Ref(<<"publish", th>>)' = NoObj
        /\ Ref(<<"release", th>>) = NoObj /\ Ref(<<"publish", th>>) = NoObj
    BY <1>0, <1>2, <1>5, <1>6, <1>7, <1>8, <2>1, StepRefs
  <2>3. /\ \/ \E s \in Slots : h = <<"slot", s>> /\ Ref(h) = strong[s] /\ Ref(h)' = strong'[s]
           \/ \E o \in Objects : h = <<"field", o>> /\ (field'[o] = field[o] => Ref(h)' = Ref(h))
           \/ \E u \in Threads : h = <<"maybe", u>> /\ Ref(h) = maybe[u].m_error /\ Ref(h)' = maybe'[u].m_error
           \/ \E u \in Threads : h = <<"raw", u>> /\ (raw'[u] = raw[u] => Ref(h)' = Ref(h))
           \/ h = <<"release", th>> \/ h = <<"publish", th>>
           \/ Ref(h)' = Ref(h)
    BY <1>0, <1>6, <1>7, <1>8, StepRefs
  <2> QED BY <1>7, <2>2, <2>3
<1>19. \A h \in StrongTokens : Ref(h) # NoObj => Ref(h) \in Objects /\ Ref(h) # x
  <2>1. Dying(x) BY <1>2, OnlyHere
  <2> QED BY <1>0, <2>1 DEF RefsLive, Live
<1>20. StrongExact'
  <2>1. \A h \in StrongTokens : StrongAt'[h] = StrongAt[h]
    <3> SUFFICES ASSUME NEW h \in StrongTokens PROVE StrongAt'[h] = StrongAt[h] OBVIOUS
    <3>1. PICK o : o = Ref(h) OBVIOUS
    <3>2. o # NoObj => o \in Objects /\ o # x BY <1>19, <3>1
    <3>3. o # NoObj => Counter(o)' = Counter(o) BY <1>7, <1>12, <3>2 DEF Counter
    <3>4. Ref(h)' = o BY <1>18, <3>1
    <3>5. StrongAt[h] = (IF o = NoObj THEN NoObj ELSE Counter(o)) BY <3>1 DEF StrongAt
    <3>6. StrongAt'[h] = (IF o = NoObj THEN NoObj ELSE Counter(o)') BY <3>4 DEF StrongAt
    <3> QED BY <3>3, <3>5, <3>6
  <2>2. DOMAIN StrongAt = StrongTokens /\ DOMAIN StrongAt' = StrongTokens BY DEF StrongAt
  <2>3. PICK f, g, n : f = StrongAt /\ g = StrongAt' /\ n = m_refCount /\ n = m_refCount' BY <1>7
  <2>4. Exact(f, n) /\ DOMAIN g = DOMAIN f /\ \A l \in DOMAIN f : g[l] = f[l]
    BY <1>0, <2>1, <2>2, <2>3 DEF Counts, StrongExact
  <2>5. Exact(g, n) BY <2>4, ExactSame
  <2> QED BY <2>3, <2>5 DEF StrongExact
<1>21. OwnerExact'
  <2>1. todo[th][1].call \notin {"Place", "Free"} BY <1>2 DEF EndDelete
  <2>2. \A u \in Threads : raw'[u] = raw[u] BY <1>7
  <2>3. UNCHANGED <<cls, life, holder>> BY <1>7
  <2> QED BY <1>2, <1>6, <1>8, <2>1, <2>2, <2>3, OwnersKept
<1>22. Counts' BY <1>17, <1>20, <1>21 DEF Counts
<1>23. Fades(x) BY <1>2, <1>7, <1>12, <1>15 DEF Fades
<1>24. Reports'
  <2>1. x \notin reported BY <1>0, <1>2, <1>9 DEF Reports
  <2>2. \A y \in Objects : (y \in reported' <=> y \in reported) /\ (y # x => (y \in handled' <=> y \in handled))
    BY <1>7, <2>1
  <2> QED BY <1>0, <1>7, <1>9, <2>2 DEF Reports
<1>25. /\ CallsElsewhere(x) /\ Onces'
       /\ Occurs(MemberFrames(x))' <=> Occurs(MemberFrames(x))
  <2>1. todo[th][1].call = "EndDelete" /\ todo[th][1].arg = x BY <1>2 DEF EndDelete
  <2>2. todo[th][1] \notin MemberFrames(x) BY <2>1 DEF MemberFrames
  <2> QED BY <1>2, <1>6, <1>8, <2>1, <2>2, CallsAround
<1>26. Dying(x) /\ \A u \in Threads : u # th => \A j \in DOMAIN todo[u] : todo[u][j].call \in LastCalls => todo[u][j].arg # x
  BY <1>2, OnlyHere
<1>27. \A h \in StrongTokens : FromHere(th, h) /\ (Ref(h)' = NoObj \/ \E l \in StrongTokens : Ref(h)' = Ref(l))
  BY <1>18 DEF FromHere
<1>28. \A i \in DOMAIN todo'[th] : FrameOK(th, i)' /\ Cascade(th, i)'
  <2> SUFFICES ASSUME NEW i \in DOMAIN todo'[th] PROVE FrameOK(th, i)' /\ Cascade(th, i)' OBVIOUS
  <2>1. PICK E : E = {x} OBVIOUS
  <2>2. Unharmed(E)
    <3>1. \A d \in Objects : Pos(d)' => Pos(d) BY <1>7 DEF Pos
    <3> QED BY <1>7, <1>12, <2>1, <3>1 DEF Unharmed
  <2>3. SameLocals(th) BY <1>7 DEF SameLocals
  <2>4. \A h \in StrongTokens : Ref(h) \notin E BY <1>2, <1>19, <2>1, RefCountingAssumption
  <2>5. todo[th][1] # ClearHolder /\ todo[th][1].call # "ReleaseWeakRef" BY <1>2 DEF EndDelete, ClearHolder
  <2>6. \A j \in DOMAIN todo[th] : j # 1 /\ todo[th][j].call \in {"Delete", "EndDelete"} => todo[th][j].arg \notin E
    <3> SUFFICES ASSUME NEW j \in DOMAIN todo[th], j # 1, todo[th][j].call \in {"Delete", "EndDelete"}
                 PROVE  todo[th][j].arg # x
      BY <2>1
    <3>1. \/ todo[th][j].call \notin LastCalls
          \/ todo[th][j].arg # x
          \/ todo[th][j] = FreeMember(x)
      BY <1>2, OnlyHere
    <3> QED BY <3>1 DEF LastCalls, FreeMember
  <2>7. (todo'[th][i].call # "FreeMember" => FrameOK(th, i)') /\ Cascade(th, i)'
    BY <1>6, <1>8, <2>2, <2>3, <2>4, <2>5, <2>6, RestKept
  <2>8. ASSUME todo'[th][i].call = "FreeMember" PROVE FrameOK(th, i)'
    <3>1. Stacked(todo[th], p, todo'[th]) BY <1>0, <1>6, <1>8, StackAfter
    <3>2. PICK j \in DOMAIN todo[th] : j # 1 /\ todo'[th][i] = todo[th][j] /\ j = i + 1 /\ Len(todo'[th]) = Len(todo[th]) - 1
      BY <1>2, <1>5, <1>6, <3>1 DEF Stacked
    <3>3. \/ todo[th][j].call \notin LastCalls
          \/ todo[th][j].arg # x
          \/ j = 2 /\ todo[th][j] = FreeMember(x) /\ Len(todo[th]) = 2
      BY <1>2, <3>2, OnlyHere
    <3>4. todo[th][j].arg = x BY <1>2, <2>8, <3>2, OnlyHere
    <3>5. j = 2 /\ todo[th][j] = FreeMember(x) /\ Len(todo[th]) = 2 BY <2>8, <3>2, <3>3, <3>4 DEF LastCalls
    <3>6. FrameOK(th, j) BY <1>0 DEF FramesOK
    <3>7. cls[x] = SwarmMember BY <3>5, <3>6 DEF FrameOK, FreeMember
    <3>8. /\ todo'[th][i].call = "FreeMember" /\ todo'[th][i].arg = x /\ i = 1 /\ Len(todo'[th]) = 1
      BY <3>2, <3>5 DEF FreeMember
    <3>9. cls'[x] = SwarmMember /\ weakRef'[x] = NoObj /\ life'[x] = "dead" BY <1>2, <1>7, <1>12, <3>7
    <3> QED BY <3>8, <3>9 DEF FrameOK
  <2> QED BY <2>7, <2>8
<1> QED BY <1>2, <1>6, <1>8, <1>12, <1>16, <1>22, <1>23, <1>24, <1>25, <1>26, <1>27, <1>28, FadeStep

(* EndDelete *)
LEMMA EndDeleteStep ==
  ASSUME IInv, NEW th \in Threads, EndDeleteObject(th), UNCHANGED holderVars
  PROVE  IInv'
BY EndDeleteFreesStep, EndDeleteLastStep, EndDeleteFadesStep
-----------------------------------------------------------------------------
(* The objects that count at b: the ones the last Release destroys.        *)
Doomed(b) == {y \in Objects : life[y] = "alive" /\ cls[y].policy \in {"Simple", "WeakRef"} /\ Counter(y) = b}

(* The last reference at b is the one that is being released.              *)
LEMMA LastAlone ==
  ASSUME IInv, NEW th \in Threads, NEW b \in Objects, m_refCount[b] = 1,
         NEW h \in StrongTokens, h = <<"release", th>>, StrongAt[h] = b
  PROVE  /\ \A u \in Threads : ~HoldsSwarm(u, b) /\ ~HoldsOnly(u, b)
         /\ life[b] = "alive" /\ ~Dying(b) /\ Counter(b) = b /\ cls[b] \notin Members
         /\ cls[b] \in Classes /\ cls[b].policy \in {"Simple", "WeakRef", "FixedSwarm"}
<1>0. TypeOK /\ Heap /\ StrongExact BY DEF IInv, Counts
<1>1. Pos(b) BY DEF Pos
<1>2. CountsOK(b) /\ WeakRefOK(b) /\ ClassOK(b) BY <1>0 DEF Heap
<1>3. life[b] = "alive" /\ ~Dying(b) /\ Counter(b) = b BY <1>1, <1>2 DEF CountsOK
<1>4. cls[b] \in Classes BY <1>2, <1>3 DEF ClassOK
<1>5. b # NoObj BY RefCountingAssumption
<1>6. cls[b].policy # "Simple" => weakRef[b] = b BY <1>3 DEF Counter
<1>7. cls[b].policy \in {"Simple", "WeakRef", "FixedSwarm"} BY <1>2, <1>5, <1>6 DEF WeakRefOK, HasWeakRef
<1>8. cls[b] \notin Members
  <2>1. cls[b] \in Members => cls[b].policy = "WeakRef" BY <1>4, ClassFacts
  <2> QED BY <1>2, <1>5, <1>6, <2>1 DEF WeakRefOK
<1>9. \A k \in StrongTokens : StrongAt[k] = b => k = h
  <2>1. PICK f, n : f = StrongAt /\ n = m_refCount OBVIOUS
  <2>2. Exact(f, n) /\ n[b] = 1 /\ f[h] = b /\ DOMAIN f = StrongTokens
    BY <1>0, <2>1 DEF StrongExact, StrongAt
  <2> QED BY <2>1, <2>2, ExactZero
<1>10. ASSUME NEW u \in Threads, NEW s \in Own(u), strong[s] # NoObj, Counter(strong[s]) = b PROVE FALSE
  <2>1. <<"slot", s>> \in StrongTokens /\ Ref(<<"slot", s>>) = strong[s] BY TokenKinds, RefIs DEF Own
  <2>2. StrongAt[<<"slot", s>>] = b BY <1>10, <2>1 DEF StrongAt
  <2> QED BY <1>9, <2>1, <2>2
<1>11. ASSUME NEW u \in Threads, HoldsSwarm(u, b) PROVE FALSE
  <2>1. PICK s \in Own(u) : strong[s] # NoObj /\ weakRef[strong[s]] = b BY <1>11 DEF HoldsSwarm
  <2>2. PICK y : y = strong[s] OBVIOUS
  <2>3. <<"slot", s>> \in StrongTokens /\ Ref(<<"slot", s>>) = y BY <2>2, TokenKinds, RefIs DEF Own
  <2>4. y \in Objects BY <2>1, <2>2, <2>3, RefCounted
  <2>5. WeakRefOK(y) BY <1>0, <2>4 DEF Heap
  <2>6. HasWeakRef(cls[y]) BY <1>5, <2>1, <2>2, <2>5 DEF WeakRefOK
  <2>7. Counter(y) = b BY <2>1, <2>2, <2>6 DEF Counter, HasWeakRef
  <2> QED BY <1>10, <2>1, <2>2, <2>7
<1>12. ASSUME NEW u \in Threads, HoldsOnly(u, b) PROVE FALSE
  <2>1. PICK s \in Own(u) : strong[s] = b BY <1>12 DEF HoldsOnly
  <2> QED BY <1>3, <1>5, <1>10, <2>1
<1> QED BY <1>3, <1>4, <1>7, <1>8, <1>11, <1>12

(* None of the objects is being destroyed or linked, and a member is in    *)
(* its container.                                                          *)
LEMMA LastDoomed ==
  ASSUME IInv, NEW th \in Threads, NEW b \in Objects, m_refCount[b] = 1,
         NEW h \in StrongTokens, h = <<"release", th>>, StrongAt[h] = b, NEW y \in Objects
  PROVE  /\ y \in Doomed(b) => /\ ~Dying(y)
                               /\ cls[y].policy = "WeakRef" => weakRef[y] = b
                               /\ y # b => y \in Inside(b) /\ weakRef[y] = b
         /\ y \in Inside(b) /\ weakRef[y] # NoObj => y \in Doomed(b)
<1>0. TypeOK /\ Heap /\ FramesTyped(todo) /\ FramesOK BY DEF IInv
<1>1. /\ \A u \in Threads : ~HoldsSwarm(u, b) /\ ~HoldsOnly(u, b)
      /\ life[b] = "alive" /\ ~Dying(b) /\ Counter(b) = b /\ cls[b] \notin Members
      /\ cls[b].policy \in {"Simple", "WeakRef", "FixedSwarm"}
  BY LastAlone
<1>2. b # NoObj /\ Pos(b) BY RefCountingAssumption DEF Pos
<1>3. WeakRefOK(y) /\ CountsOK(y) /\ ClassOK(y) /\ ListsOK(b) BY <1>0 DEF Heap
<1>4. ASSUME weakRef[y] = b, y # b PROVE y \in Inside(b)
  <2>1. CASE cls[y] = FixedSwarmMember /\ y \in storage[b] BY <2>1 DEF Inside
  <2>2. CASE cls[y] \in SwarmMembers
    <3>1. ASSUME NEW d \in Objects, y \in Range(m_headMember[d]) \cup storage[d] PROVE y \in Inside(b)
      <4>1. ListsOK(d) BY <1>0 DEF Heap
      <4>2. b = d BY <1>2, <1>4, <3>1, <4>1 DEF ListsOK
      <4> QED BY <3>1, <4>2 DEF Inside
    <3>2. ASSUME Occurs(MemberFrames(y)) PROVE FALSE
      <4>0. PICK u \in Threads : \E i \in DOMAIN todo[u] : todo[u][i] \in MemberFrames(y) BY <3>2 DEF Occurs, OccursIn
      <4>1. PICK i \in DOMAIN todo[u] : todo[u][i] \in MemberFrames(y) BY <4>0
      <4>2. /\ todo[u][i] \in Frames /\ todo[u][i].arg = y
            /\ todo[u][i].call \in {"AddSwarmMember", "FreeMember"}
        BY <4>1 DEF MemberFrames
      <4>3. FrameOK(u, i) BY <1>0 DEF FramesOK
      <4>4. HoldsSwarm(u, b) BY <1>2, <1>4, <4>2, <4>3 DEF FrameOK
      <4> QED BY <1>1, <4>4
    <3>3. \/ \E d \in Objects : y \in Range(m_headMember[d]) \cup storage[d]
          \/ Occurs(MemberFrames(y))
      BY <1>3, <2>2 DEF CountsOK, Members
    <3> QED BY <3>1, <3>2, <3>3
  <2> QED BY <1>2, <1>3, <1>4, <2>1, <2>2 DEF WeakRefOK
<1>5. ASSUME weakRef[y] = b, cls[y].policy = "WeakRef", y # b PROVE ~Dying(y)
  <2> SUFFICES ASSUME Dying(y) PROVE FALSE OBVIOUS
  <2>0. PICK u \in Threads : \E i \in DOMAIN todo[u] : todo[u][i] \in DyingFrames(y) BY DEF Dying, Occurs, OccursIn
  <2>1. PICK i \in DOMAIN todo[u] : todo[u][i] \in DyingFrames(y) BY <2>0
  <2>2. FrameOK(u, i) BY <1>0 DEF FramesOK
  <2>3. DyingOK(u, i, y) BY <2>1, <2>2 DEF FrameOK, DyingFrames, Delete, EndDelete
  <2>4. Throwing(u, y) BY <1>2, <1>5, <2>3 DEF DyingOK
  <2>5. Len(todo[u]) = 2 /\ todo[u][2] = FreeMember(y) BY <1>1, <1>5, <2>4 DEF Throwing
  <2>6. 2 \in DOMAIN todo[u] BY <1>0, <2>5 DEF FramesTyped
  <2>7. FrameOK(u, 2) BY <1>0, <2>6 DEF FramesOK
  <2>8. HoldsSwarm(u, b) BY <1>2, <1>5, <2>5, <2>7 DEF FrameOK, FreeMember
  <2> QED BY <1>1, <2>8
<1>6. ASSUME y \in Doomed(b), y # b PROVE cls[y].policy = "WeakRef" /\ weakRef[y] = b
  BY <1>6 DEF Doomed, Counter
<1>7. ASSUME y \in Inside(b), weakRef[y] # NoObj PROVE y \in Doomed(b)
  <2>1. cls[y] \in Members /\ weakRef[y] = b BY <1>3, <1>7 DEF ListsOK, Inside, Members
  <2>2. cls[y].policy = "WeakRef" BY <1>3, <2>1, ClassFacts DEF ClassOK
  <2>3. y # b BY <1>1, <2>1
  <2>4. ~Dying(y) BY <1>5, <2>1, <2>2, <2>3
  <2>5. ~Occurs({EndDelete(y)}) BY <2>4 DEF Dying, DyingFrames, Occurs, OccursIn
  <2>6. life[y] # "dead" BY <1>3, <1>7, <2>5 DEF WeakRefOK
  <2>7. life[y] # "raw" BY <1>3, <2>2, ClassFacts DEF ClassOK
  <2>8. life[y] = "alive" BY <1>0, <2>6, <2>7 DEF TypeOK, RefTypeOK
  <2> QED BY <2>1, <2>2, <2>8 DEF Doomed, Counter
<1>8. y \in Doomed(b) /\ cls[y].policy = "WeakRef" => weakRef[y] = b BY DEF Doomed, Counter
<1> QED BY <1>1, <1>4, <1>5, <1>6, <1>7, <1>8

(* Deletes, and one call more.                                             *)
LEMMA DeletesThen ==
  ASSUME NEW s \in Seq(Objects), NEW e \in Frames, NEW p, p = Deletes(s) \o <<e>>
  PROVE  /\ p \in Seq(Frames) /\ Len(p) = Len(s) + 1 /\ Len(p) \in DOMAIN p /\ p[Len(p)] = e
         /\ \A i \in DOMAIN s : i \in DOMAIN p /\ i < Len(p) /\ p[i] = Delete(s[i])
         /\ \A i \in DOMAIN p : i = Len(p) \/ i \in DOMAIN s
<1>1. PICK n \in Nat : n = Len(s) /\ DOMAIN s = 1..n OBVIOUS
<1>2. PICK d : d = Deletes(s) OBVIOUS
<1>3. d = [i \in 1..n |-> Delete(s[i])] BY <1>1, <1>2 DEF Deletes
<1>4. d \in Seq(Frames) /\ Len(d) = n
  <2>1. \A i \in 1..n : Delete(s[i]) \in Frames BY <1>1, FrameKinds
  <2>2. d \in [1..n -> Frames] BY <1>3, <2>1
  <2> QED BY <2>2, SeqDef
<1>5. p = d \o <<e>> BY <1>2
<1>9. PICK q \in Seq(Frames) : q = <<e>> /\ Len(q) = 1 /\ q[1] = e BY FewCalls
<1>10. p = d \o q BY <1>5, <1>9
<1>11. /\ p \in Seq(Frames) /\ Len(p) = n + 1
       /\ \A i \in 1..(n + 1) : p[i] = IF i <= n THEN d[i] ELSE q[i - n]
  <2>1. /\ d \o q \in Seq(Frames) /\ Len(d \o q) = Len(d) + Len(q)
        /\ \A i \in 1..(Len(d) + Len(q)) : (d \o q)[i] = IF i <= Len(d) THEN d[i] ELSE q[i - Len(d)]
    BY <1>4, <1>9, ConcatProperties
  <2> QED BY <1>4, <1>9, <1>10, <2>1
<1>6. p \in Seq(Frames) /\ Len(p) = n + 1 /\ p[n + 1] = e BY <1>9, <1>11
<1>7. \A i \in 1..n : p[i] = Delete(s[i]) BY <1>3, <1>11
<1>8. DOMAIN p = 1..(n + 1) BY <1>6
<1> QED BY <1>1, <1>6, <1>7, <1>8

(* What the last Release calls: each object that counts at b is deleted    *)
(* once, and a FixedSwarm gives up its weak count last.                    *)
LEMMA DestroyCalls ==
  ASSUME IInv, NEW th \in Threads, NEW b \in Objects, m_refCount[b] = 1,
         NEW h \in StrongTokens, h = <<"release", th>>, StrongAt[h] = b, NEW p, p = DestroyObject(b)
  PROVE  /\ p \in Seq(Frames) /\ p # <<>>
         /\ \A i \in DOMAIN p : \/ \E y \in Doomed(b) : p[i] = Delete(y)
                                \/ cls[b] = FixedSwarm /\ i = Len(p) /\ p[i] = ReleaseWeakRef(b)
         /\ \A y \in Doomed(b) : \E i \in DOMAIN p : p[i] = Delete(y)
         /\ \A i, j \in DOMAIN p : p[i] = p[j] => i = j
         /\ cls[b] = FixedSwarm =>
              /\ Len(p) \in DOMAIN p /\ p[Len(p)] = ReleaseWeakRef(b)
              /\ \A i \in DOMAIN p : i # Len(p) => i < Len(p) /\ \E y \in Doomed(b) : p[i] = Delete(y) /\ cls[y] = FixedSwarmMember
<1>0. TypeOK /\ Heap BY DEF IInv
<1>1. /\ life[b] = "alive" /\ Counter(b) = b /\ cls[b] \notin Members /\ cls[b] \in Classes
      /\ cls[b].policy \in {"Simple", "WeakRef", "FixedSwarm"}
  BY LastAlone
<1>2. /\ \A y \in Doomed(b) : y \in Objects /\ (y # b => y \in Inside(b) /\ weakRef[y] = b)
      /\ \A y \in Objects : y \in Inside(b) /\ weakRef[y] # NoObj => y \in Doomed(b)
  BY LastDoomed DEF Doomed
<1>3. ClassOK(b) /\ ListsOK(b) /\ Pos(b) /\ b # NoObj BY <1>0, RefCountingAssumption DEF Heap, Pos
<1>4. storage[b] \in SUBSET Objects /\ m_headMember[b] \in Seq(Objects) BY <1>0 DEF TypeOK, RefTypeOK
<1>5. cls[b].policy = "FixedSwarm" <=> cls[b] = FixedSwarm BY <1>1, ClassFacts
<1>6. \A y, z : /\ Delete(y) = Delete(z) => y = z
                /\ Delete(y) # ReleaseWeakRef(z)
  BY DEF Delete, ReleaseWeakRef
<1>7. CASE cls[b] = FixedSwarm
  <2>1. PICK S \in SUBSET Objects : S = {m \in storage[b] : weakRef[m] # NoObj} BY <1>4
  <2>2. PICK s : s = InOrder(S) OBVIOUS
  <2>3. s \in Seq(S) /\ Range(s) = S /\ \A i, j \in DOMAIN s : s[i] = s[j] => i = j BY <2>2, InOrderSeq
  <2>4. s \in Seq(Objects) BY <2>3, SeqMonotonic
  <2>5. PICK e \in Frames : e = ReleaseWeakRef(b) BY FrameKinds
  <2>6. p = Deletes(s) \o <<e>> BY <1>5, <1>7, <2>1, <2>2, <2>5 DEF DestroyObject
  <2>7. /\ p \in Seq(Frames) /\ Len(p) = Len(s) + 1 /\ Len(p) \in DOMAIN p /\ p[Len(p)] = e
        /\ \A i \in DOMAIN s : i \in DOMAIN p /\ i < Len(p) /\ p[i] = Delete(s[i])
        /\ \A i \in DOMAIN p : i = Len(p) \/ i \in DOMAIN s
    BY <2>4, <2>6, DeletesThen
  <2>8. S = Doomed(b)
    <3>1. ASSUME NEW y \in S PROVE y \in Doomed(b) BY <1>2, <2>1, <3>1 DEF Inside
    <3>2. ASSUME NEW y \in Doomed(b) PROVE y \in S
      <4>1. y # b BY <1>5, <1>7, <3>2 DEF Doomed
      <4>2. y \in Inside(b) /\ weakRef[y] = b BY <1>2, <4>1
      <4>3. m_headMember[b] = <<>>
        <5>1. cls[b] \notin Swarms BY <1>7, ClassFacts
        <5> QED BY <1>3, <5>1 DEF ClassOK
      <4>4. y \in storage[b] BY <4>2, <4>3 DEF Inside, Range
      <4> QED BY <1>3, <2>1, <4>2, <4>4
    <3> QED BY <3>1, <3>2
  <2>9. \A i \in DOMAIN s : s[i] \in Doomed(b) /\ cls[s[i]] = FixedSwarmMember
    <3>1. \A i \in DOMAIN s : s[i] \in S BY <2>3 DEF Range
    <3> QED BY <1>3, <2>1, <2>8, <3>1 DEF ListsOK
  <2>10. \A y \in Doomed(b) : \E i \in DOMAIN p : p[i] = Delete(y) BY <2>3, <2>7, <2>8 DEF Range
  <2>11. \A i, j \in DOMAIN p : p[i] = p[j] => i = j BY <1>6, <2>3, <2>5, <2>7
  <2>12. \A i \in DOMAIN p : i # Len(p) => i < Len(p) /\ \E y \in Doomed(b) : p[i] = Delete(y) /\ cls[y] = FixedSwarmMember
    <3> SUFFICES ASSUME NEW i \in DOMAIN p, i # Len(p)
                 PROVE  i < Len(p) /\ \E y \in Doomed(b) : p[i] = Delete(y) /\ cls[y] = FixedSwarmMember
      OBVIOUS
    <3>1. i \in DOMAIN s /\ i < Len(p) /\ p[i] = Delete(s[i]) BY <2>7
    <3>2. s[i] \in Doomed(b) /\ cls[s[i]] = FixedSwarmMember BY <2>9, <3>1
    <3> QED BY <3>1, <3>2
  <2>13. p # <<>> BY <2>7
  <2> QED BY <1>7, <2>5, <2>7, <2>10, <2>11, <2>12, <2>13
<1>8. CASE cls[b] # FixedSwarm
  <2>1. PICK s \in Seq(Objects) : s = m_headMember[b] BY <1>4
  <2>2. PICK e \in Frames : e = Delete(b) BY FrameKinds
  <2>3. p = Deletes(s) \o <<e>> BY <1>5, <1>8, <2>1, <2>2 DEF DestroyObject
  <2>4. /\ p \in Seq(Frames) /\ Len(p) = Len(s) + 1 /\ Len(p) \in DOMAIN p /\ p[Len(p)] = e
        /\ \A i \in DOMAIN s : i \in DOMAIN p /\ i < Len(p) /\ p[i] = Delete(s[i])
        /\ \A i \in DOMAIN p : i = Len(p) \/ i \in DOMAIN s
    BY <2>3, DeletesThen
  <2>5. \A i \in DOMAIN s : s[i] \in Doomed(b) /\ s[i] # b
    <3>1. \A i \in DOMAIN s : s[i] \in Objects /\ s[i] \in Range(m_headMember[b]) BY <2>1 DEF Range
    <3>2. \A i \in DOMAIN s : weakRef[s[i]] = b /\ cls[s[i]] \in Members BY <1>3, <3>1 DEF ListsOK, Members
    <3> QED BY <1>1, <1>2, <1>3, <3>1, <3>2 DEF Inside
  <2>6. b \in Doomed(b) BY <1>1, <1>5, <1>8 DEF Doomed
  <2>7. \A y \in Doomed(b) : y # b => \E i \in DOMAIN s : y = s[i]
    <3> SUFFICES ASSUME NEW y \in Doomed(b), y # b PROVE \E i \in DOMAIN s : y = s[i] OBVIOUS
    <3>1. y \in Inside(b) BY <1>2
    <3>2. storage[b] = {} BY <1>3, <1>8 DEF ClassOK
    <3> QED BY <2>1, <3>1, <3>2 DEF Inside, Range
  <2>8. \A i, j \in DOMAIN s : s[i] = s[j] => i = j BY <1>3, <2>1 DEF ListsOK
  <2>9. \A i \in DOMAIN p : \E y \in Doomed(b) : p[i] = Delete(y)
    <3> SUFFICES ASSUME NEW i \in DOMAIN p PROVE \E y \in Doomed(b) : p[i] = Delete(y) OBVIOUS
    <3>1. CASE i = Len(p) BY <2>2, <2>4, <2>6, <3>1
    <3>2. CASE i \in DOMAIN s
      <4>1. p[i] = Delete(s[i]) /\ s[i] \in Doomed(b) BY <2>4, <2>5, <3>2
      <4> QED BY <4>1
    <3> QED BY <2>4, <3>1, <3>2
  <2>10. \A y \in Doomed(b) : \E i \in DOMAIN p : p[i] = Delete(y) BY <2>2, <2>4, <2>7
  <2>11. \A i, j \in DOMAIN p : p[i] = p[j] => i = j
    <3> SUFFICES ASSUME NEW i \in DOMAIN p, NEW j \in DOMAIN p, p[i] = p[j] PROVE i = j OBVIOUS
    <3>1. PICK n : n = Len(p) OBVIOUS
    <3>2. p[n] = Delete(b) /\ \A k \in DOMAIN s : p[k] = Delete(s[k]) /\ s[k] # b BY <2>2, <2>4, <2>5, <3>1
    <3>3. CASE i \in DOMAIN s /\ j \in DOMAIN s BY <1>6, <2>8, <3>2, <3>3
    <3>4. CASE i = n /\ j \in DOMAIN s
      <4>1. Delete(b) = Delete(s[j]) /\ s[j] # b BY <3>2, <3>4
      <4> QED BY <1>6, <4>1
    <3>5. CASE j = n /\ i \in DOMAIN s BY <1>6, <3>2, <3>5
    <3> QED BY <2>4, <3>1, <3>3, <3>4, <3>5
  <2>12. p # <<>> BY <2>4
  <2> QED BY <1>8, <2>4, <2>9, <2>10, <2>11, <2>12
<1> QED BY <1>7, <1>8

(* The weak counts after the last Release: that of a FixedSwarm passes     *)
(* from the object to the call that gives it up.                           *)
LEMMA LastReleaseWeak ==
  ASSUME IInv, NEW th \in Threads, NEW b \in Objects, m_refCount[b] = 1, weakRef[b] \in {b, NoObj},
         cls[b] = FixedSwarm => weakRef[b] = b,
         NEW p \in Seq(Frames), StackStep(th, p), todo[th] # <<>>, todo[th][1].call = "Release",
         \A i \in DOMAIN p : \A d : p[i] = ReleaseWeakRef(d) => d = b /\ cls[b] = FixedSwarm,
         cls[b] = FixedSwarm => \E i \in DOMAIN p : p[i] = ReleaseWeakRef(b),
         UNCHANGED <<cls, weakRef, weak, m_weakRefCount>>,
         m_refCount'[b] = 0, \A d \in Objects : d # b => m_refCount'[d] = m_refCount[d]
  PROVE  WeakExact'
<1>0. FramesTyped(todo) /\ FramesOK BY DEF IInv
<1>1. \A d \in Objects : ReleaseWeakRef(d) \notin Range(todo[th])
  <2> SUFFICES ASSUME NEW d \in Objects, NEW j \in DOMAIN todo[th], todo[th][j] = ReleaseWeakRef(d) PROVE FALSE
    BY DEF Range
  <2>1. j # 1 BY DEF ReleaseWeakRef
  <2>2. todo[th][j].call = "ReleaseWeakRef" BY DEF ReleaseWeakRef
  <2> QED BY <1>0, <2>1, <2>2, BelowTop
<1>2. PICK h, k : h = <<"object", b>> /\ k = <<"call", th, b>> OBVIOUS
<1>3. h \in WeakTokens /\ k \in WeakTokens BY <1>2, WeakIs
<1>4. \A x \in WeakTokens : x \notin {h, k} => WeakAt'[x] = WeakAt[x]
  <2>1. ASSUME NEW y \in Objects, y # b PROVE WeakAt'[<<"object", y>>] = WeakAt[<<"object", y>>]
    <3>1. /\ WeakAt[<<"object", y>>] = IF cls[y] = FixedSwarm /\ m_refCount[y] = 0 THEN NoObj ELSE weakRef[y]
          /\ WeakAt'[<<"object", y>>] = IF cls'[y] = FixedSwarm /\ m_refCount'[y] = 0 THEN NoObj ELSE weakRef'[y]
      BY WeakIs
    <3>2. cls'[y] = cls[y] /\ weakRef'[y] = weakRef[y] /\ m_refCount'[y] = m_refCount[y] BY <2>1
    <3> QED BY <3>1, <3>2
  <2>2. ASSUME NEW u \in Threads PROVE WeakAt'[<<"weak", u>>] = WeakAt[<<"weak", u>>] BY WeakIs
  <2>3. ASSUME NEW u \in Threads, NEW d \in Objects, ~(u = th /\ d = b)
        PROVE  WeakAt'[<<"call", u, d>>] = WeakAt[<<"call", u, d>>]
    <3>1. /\ u # th => (ReleaseWeakRef(d) \in Range(todo'[u]) <=> ReleaseWeakRef(d) \in Range(todo[u]))
          /\ ReleaseWeakRef(d) \in Range(todo'[th]) <=>
               \/ \E i \in DOMAIN p : p[i] = ReleaseWeakRef(d)
               \/ ReleaseWeakRef(d) \in Range(todo[th]) /\ todo[th][1] # ReleaseWeakRef(d)
      BY <1>0, CallsAfter
    <3>2. u = th => ReleaseWeakRef(d) \notin Range(todo'[th]) /\ ReleaseWeakRef(d) \notin Range(todo[th])
      BY <1>1, <2>3, <3>1
    <3>3. ReleaseWeakRef(d) \in Range(todo'[u]) <=> ReleaseWeakRef(d) \in Range(todo[u]) BY <3>1, <3>2
    <3>4. /\ WeakAt[<<"call", u, d>>] = IF ReleaseWeakRef(d) \in Range(todo[u]) THEN d ELSE NoObj
          /\ WeakAt'[<<"call", u, d>>] = IF ReleaseWeakRef(d) \in Range(todo'[u]) THEN d ELSE NoObj
      BY WeakIs
    <3> QED BY <3>3, <3>4
  <2> QED BY <1>2, <2>1, <2>2, <2>3, WeakIs
<1>5. /\ WeakAt[h] = weakRef[b] /\ WeakAt[k] = NoObj
      /\ WeakAt'[h] = (IF cls[b] = FixedSwarm THEN NoObj ELSE weakRef[b])
      /\ WeakAt'[k] = (IF cls[b] = FixedSwarm THEN b ELSE NoObj)
  <2>1. WeakAt[h] = IF cls[b] = FixedSwarm /\ m_refCount[b] = 0 THEN NoObj ELSE weakRef[b] BY <1>2, WeakIs
  <2>2. WeakAt'[h] = IF cls'[b] = FixedSwarm /\ m_refCount'[b] = 0 THEN NoObj ELSE weakRef'[b] BY <1>2, WeakIs
  <2>3. WeakAt[k] = IF ReleaseWeakRef(b) \in Range(todo[th]) THEN b ELSE NoObj BY <1>2, WeakIs
  <2>4. WeakAt'[k] = IF ReleaseWeakRef(b) \in Range(todo'[th]) THEN b ELSE NoObj BY <1>2, WeakIs
  <2>5. ReleaseWeakRef(b) \in Range(todo'[th]) <=>
               \/ \E i \in DOMAIN p : p[i] = ReleaseWeakRef(b)
               \/ ReleaseWeakRef(b) \in Range(todo[th]) /\ todo[th][1] # ReleaseWeakRef(b)
    BY <1>0, CallsAfter
  <2> QED BY <1>1, <2>1, <2>2, <2>3, <2>4, <2>5
<1>6. PICK f, g, n : f = WeakAt /\ g = WeakAt' /\ n = m_weakRefCount /\ n = m_weakRefCount' OBVIOUS
<1>7. Exact(f, n) /\ DOMAIN g = DOMAIN f /\ DOMAIN f = WeakTokens BY <1>6, WeakIs DEF IInv, Counts, WeakExact
<1>8. Exact(g, n)
  <2>1. CASE cls[b] = FixedSwarm
    <3>1. f[h] = g[k] /\ f[k] = g[h] BY <1>5, <1>6, <2>1
    <3>2. \A l \in DOMAIN f : l \notin {h, k} => g[l] = f[l] BY <1>4, <1>6, <1>7
    <3> QED BY <1>3, <1>7, <3>1, <3>2, ExactSwap
  <2>2. CASE cls[b] # FixedSwarm
    <3>1. \A l \in DOMAIN f : g[l] = f[l] BY <1>4, <1>5, <1>6, <1>7, <2>2
    <3> QED BY <1>7, <3>1, ExactSame
  <2> QED BY <2>1, <2>2
<1> QED BY <1>6, <1>8 DEF WeakExact

(* The references after it.                                                *)
LEMMA LastReleaseStrong ==
  ASSUME IInv, NEW th \in Threads, NEW b \in Objects, m_refCount[b] = 1,
         NEW h \in StrongTokens, StrongAt[h] = b, Ref(h)' = NoObj,
         \A k \in StrongTokens : k # h => Ref(k)' = Ref(k),
         UNCHANGED <<cls, weakRef>>,
         m_refCount'[b] = 0, \A d \in Objects : d # b => m_refCount'[d] = m_refCount[d]
  PROVE  StrongExact'
<1>1. PICK f, g, n, m : f = StrongAt /\ g = StrongAt' /\ n = m_refCount /\ m = m_refCount' OBVIOUS
<1>2. Exact(f, n) /\ DOMAIN f = StrongTokens /\ DOMAIN g = DOMAIN f
  BY <1>1 DEF IInv, Counts, StrongExact, StrongAt, StrongTokens
<1>3. \A k \in StrongTokens : g[k] = IF k = h THEN NoObj ELSE f[k]
  <2> SUFFICES ASSUME NEW k \in StrongTokens PROVE g[k] = IF k = h THEN NoObj ELSE f[k] OBVIOUS
  <2>1. PICK o : o = Ref(k) OBVIOUS
  <2>2. Ref(k)' = IF k = h THEN NoObj ELSE o BY <2>1
  <2>3. Counter(o)' = Counter(o) BY DEF Counter
  <2>4. f[k] = IF o = NoObj THEN NoObj ELSE Counter(o) BY <1>1, <2>1 DEF StrongAt
  <2>5. StrongAt'[k] = IF Ref(k)' = NoObj THEN NoObj ELSE Counter(Ref(k))' BY DEF StrongAt, StrongTokens
  <2> QED BY <1>1, <2>2, <2>3, <2>4, <2>5
<1>4. Minus1(m, n, b) BY <1>1 DEF Minus1
<1>5. f[h] = b /\ g[h] \notin Objects /\ \A k \in DOMAIN f : k # h => g[k] = f[k]
  BY <1>1, <1>2, <1>3, RefCountingAssumption
<1>6. Exact(g, m) BY <1>2, <1>4, <1>5, ExactDrop
<1> QED BY <1>1, <1>6 DEF StrongExact, Exact, At

(* The calls after the last Release: they destroy what counted at b.       *)
LEMMA LastReleaseCalls ==
  ASSUME IInv, NEW th \in Threads, NEW b \in Objects, m_refCount[b] = 1,
         NEW h \in StrongTokens, h = <<"release", th>>, StrongAt[h] = b, NEW p, p = DestroyObject(b),
         StackStep(th, p), todo[th] # <<>>, todo[th][1].call = "Release",
         UNCHANGED <<cls, weakRef, life>>,
         m_refCount'[b] = 0, \A d \in Objects : d # b => m_refCount'[d] = m_refCount[d]
  PROVE  Onces' /\ \A x \in Objects : CallsStay(x)
<1>0. TypeOK /\ Heap /\ FramesTyped(todo) /\ Onces BY DEF IInv
<1>1. /\ p \in Seq(Frames) /\ p # <<>>
      /\ \A i \in DOMAIN p : \/ \E y \in Doomed(b) : p[i] = Delete(y)
                             \/ cls[b] = FixedSwarm /\ i = Len(p) /\ p[i] = ReleaseWeakRef(b)
      /\ \A y \in Doomed(b) : \E i \in DOMAIN p : p[i] = Delete(y)
      /\ \A i, j \in DOMAIN p : p[i] = p[j] => i = j
  BY DestroyCalls
<1>2. \A y \in Doomed(b) : y \in Objects /\ ~Dying(y) BY LastDoomed DEF Doomed
<1>3. \A x \in Objects, i \in DOMAIN p : /\ p[i] # EndDelete(x) /\ p[i] \notin MemberFrames(x)
                                         /\ p[i] \in DyingFrames(x) => x \in Doomed(b) /\ p[i] = Delete(x)
  <2> SUFFICES ASSUME NEW x \in Objects, NEW i \in DOMAIN p
               PROVE  /\ p[i] # EndDelete(x) /\ p[i] \notin MemberFrames(x)
                      /\ p[i] \in DyingFrames(x) => x \in Doomed(b) /\ p[i] = Delete(x)
    OBVIOUS
  <2>1. ASSUME NEW y \in Doomed(b), p[i] = Delete(y)
        PROVE  /\ p[i] # EndDelete(x) /\ p[i] \notin MemberFrames(x)
               /\ p[i] \in DyingFrames(x) => x \in Doomed(b) /\ p[i] = Delete(x)
    BY <2>1 DEF Delete, EndDelete, MemberFrames, DyingFrames
  <2>2. ASSUME p[i] = ReleaseWeakRef(b)
        PROVE  p[i] # EndDelete(x) /\ p[i] \notin MemberFrames(x) /\ p[i] \notin DyingFrames(x)
    BY <2>2 DEF ReleaseWeakRef, Delete, EndDelete, MemberFrames, DyingFrames
  <2> QED BY <1>1, <2>1, <2>2
<1>4. \A x \in Objects : /\ todo[th][1] \notin {Delete(x)} /\ todo[th][1] \notin {EndDelete(x)}
                         /\ todo[th][1] \notin DyingFrames(x) /\ todo[th][1] \notin MemberFrames(x)
  BY DEF Delete, EndDelete, DyingFrames, MemberFrames
<1>5. ASSUME NEW x \in Objects
      PROVE  /\ AtMostOnceIn(todo', DyingFrames(x)) /\ AtMostOnceIn(todo', MemberFrames(x))
             /\ OccursIn(todo', MemberFrames(x)) <=> OccursIn(todo, MemberFrames(x))
             /\ OccursIn(todo', {EndDelete(x)}) <=> OccursIn(todo, {EndDelete(x)})
             /\ OccursIn(todo, {Delete(x)}) => OccursIn(todo', {Delete(x)})
             /\ OccursIn(todo', DyingFrames(x)) => OccursIn(todo, DyingFrames(x)) \/ x \in Doomed(b)
             /\ x \in Doomed(b) => OccursIn(todo', {Delete(x)})
  <2>1. AtMostOnceIn(todo, DyingFrames(x)) /\ AtMostOnceIn(todo, MemberFrames(x)) BY <1>0 DEF Onces
  <2>2. /\ AtMostOnceIn(todo', MemberFrames(x))
        /\ OccursIn(todo', MemberFrames(x)) <=> OccursIn(todo, MemberFrames(x))
    BY <1>0, <1>1, <1>3, <1>4, <2>1, OccursKept
  <2>3. OccursIn(todo', {EndDelete(x)}) <=> OccursIn(todo, {EndDelete(x)})
    <3>1. \A i \in DOMAIN p : p[i] \notin {EndDelete(x)} BY <1>3
    <3> QED BY <1>0, <1>1, <1>4, <3>1, OccursKept
  <2>4. CASE x \in Doomed(b)
    <3>1. ~OccursIn(todo, DyingFrames(x)) BY <1>2, <2>4 DEF Dying, Occurs
    <3>2. ~OccursIn(todo, {Delete(x)}) BY <3>1 DEF OccursIn, DyingFrames
    <3>3. PICK k \in DOMAIN p : p[k] = Delete(x) BY <1>1, <2>4
    <3>4. p[k] \in DyingFrames(x) /\ p[k] \in {Delete(x)} BY <3>3 DEF DyingFrames
    <3>5. \A i \in DOMAIN p : p[i] \in DyingFrames(x) => i = k BY <1>1, <1>3, <3>3
    <3>6. \A i \in DOMAIN p : p[i] \in {Delete(x)} => i = k BY <1>1, <3>3
    <3>7. AtMostOnceIn(todo', DyingFrames(x)) BY <1>0, <1>1, <3>1, <3>4, <3>5, OccursPut
    <3>8. OccursIn(todo', {Delete(x)}) BY <1>0, <1>1, <3>2, <3>4, <3>6, OccursPut
    <3> QED BY <2>2, <2>3, <2>4, <3>7, <3>8
  <2>5. CASE x \notin Doomed(b)
    <3>1. \A i \in DOMAIN p : p[i] \notin DyingFrames(x) BY <1>3, <2>5
    <3>2. \A i \in DOMAIN p : p[i] \notin {Delete(x)} BY <3>1 DEF DyingFrames
    <3>3. /\ OccursIn(todo', DyingFrames(x)) <=> OccursIn(todo, DyingFrames(x))
          /\ AtMostOnceIn(todo', DyingFrames(x))
      BY <1>0, <1>1, <1>4, <2>1, <3>1, OccursKept
    <3>4. OccursIn(todo', {Delete(x)}) <=> OccursIn(todo, {Delete(x)}) BY <1>0, <1>1, <1>4, <3>2, OccursKept
    <3> QED BY <2>2, <2>3, <2>5, <3>3, <3>4
  <2> QED BY <2>4, <2>5
<1>6. Onces' BY <1>5 DEF Onces, DyingFrames, MemberFrames
<1>7. ASSUME NEW x \in Objects PROVE CallsStay(x)
  <2>1. x \in Doomed(b) => Falls(x) BY DEF Doomed, Falls
  <2>2. life[x] = "alive" /\ Falls(x) /\ m_refCount[Counter(x)] > 0 => x \in Doomed(b)
    <3> SUFFICES ASSUME life[x] = "alive", Falls(x), m_refCount[Counter(x)] > 0 PROVE x \in Doomed(b) OBVIOUS
    <3>1. WeakRefOK(x) BY <1>0 DEF Heap
    <3>2. Counter(x) \in Objects
      <4>1. weakRef[x] \in Pointers BY <1>0 DEF TypeOK, RefTypeOK
      <4> QED BY <3>1, <4>1 DEF Falls, Counter, WeakRefOK, HasWeakRef, Pointers
    <3>3. Counter(x) = b BY <3>2 DEF Falls
    <3> QED BY <3>3 DEF Falls, Doomed
  <2>3. /\ Occurs({Delete(x)}) => Occurs({Delete(x)})'
        /\ Occurs({EndDelete(x)}) => Occurs({EndDelete(x)})'
    BY <1>5 DEF Occurs, Delete, EndDelete
  <2>4. Occurs(MemberFrames(x))' <=> Occurs(MemberFrames(x)) BY <1>5 DEF Occurs, MemberFrames
  <2>5. Dying(x)' => Dying(x) \/ Falls(x) BY <1>5, <2>1 DEF Dying, Occurs, DyingFrames
  <2>6. x \in Doomed(b) => Occurs({Delete(x)})' BY <1>5 DEF Occurs, Delete
  <2> QED BY <2>2, <2>3, <2>4, <2>5, <2>6 DEF CallsStay
<1> QED BY <1>6, <1>7

(* They are in order.                                                      *)
LEMMA LastReleaseFrames ==
  ASSUME IInv, NEW th \in Threads, NEW b \in Objects, m_refCount[b] = 1,
         NEW h \in StrongTokens, h = <<"release", th>>, StrongAt[h] = b, NEW p, p = DestroyObject(b),
         StackStep(th, p), todo[th] # <<>>, todo[th][1].call = "Release",
         UNCHANGED <<cls, weakRef, life>>, SameLocals(th),
         m_refCount'[b] = 0, \A d \in Objects : d # b => m_refCount'[d] = m_refCount[d]
  PROVE  \A i \in DOMAIN todo'[th] : FrameOK(th, i)' /\ Cascade(th, i)'
<1>0. TypeOK /\ Heap /\ FramesTyped(todo) /\ FramesOK BY DEF IInv
<1>1. /\ p \in Seq(Frames) /\ p # <<>>
      /\ \A i \in DOMAIN p : \/ \E y \in Doomed(b) : p[i] = Delete(y)
                             \/ cls[b] = FixedSwarm /\ i = Len(p) /\ p[i] = ReleaseWeakRef(b)
      /\ cls[b] = FixedSwarm =>
           /\ Len(p) \in DOMAIN p /\ p[Len(p)] = ReleaseWeakRef(b)
           /\ \A i \in DOMAIN p : i # Len(p) => i < Len(p) /\ \E y \in Doomed(b) : p[i] = Delete(y) /\ cls[y] = FixedSwarmMember
  BY DestroyCalls
<1>2. Stacked(todo[th], p, todo'[th]) BY <1>0, <1>1, StackAfter
<1>3. \A i \in DOMAIN p : i \in DOMAIN todo'[th] /\ todo'[th][i] = p[i] BY <1>2 DEF Stacked
<1>4. ASSUME NEW i \in DOMAIN p, NEW y \in Doomed(b), p[i] = Delete(y) PROVE FrameOK(th, i)' /\ Cascade(th, i)'
  <2>1. /\ y \in Objects /\ life[y] = "alive" /\ cls[y].policy \in {"Simple", "WeakRef"}
        /\ cls[y].policy = "WeakRef" => weakRef[y] = b
    BY DEF Doomed, Counter
  <2>2. todo'[th][i].call = "Delete" /\ todo'[th][i].arg = y BY <1>3, <1>4 DEF Delete
  <2>3. b # NoObj /\ ~(m_refCount'[b] > 0) BY RefCountingAssumption
  <2>4. DyingOK(th, i, y)'
    <3>1. cls[y].policy = "WeakRef" => weakRef'[y] # NoObj /\ ~Pos(weakRef[y])'
      <4> SUFFICES ASSUME cls[y].policy = "WeakRef" PROVE weakRef'[y] # NoObj /\ ~Pos(weakRef[y])' OBVIOUS
      <4>1. weakRef'[y] = b BY <2>1
      <4> QED BY <2>3, <4>1 DEF Pos
    <3> QED BY <3>1 DEF DyingOK
  <2>5. FrameOK(th, i)' BY <2>1, <2>2, <2>4 DEF FrameOK
  <2>6. Cascade(th, i)'
    <3> SUFFICES ASSUME cls[y] = FixedSwarmMember
                 PROVE  \E k \in DOMAIN todo'[th] : k > i /\ todo'[th][k] = ReleaseWeakRef(weakRef'[y])
      BY <2>2 DEF Cascade, Pos
    <3>1. cls[y].policy = "WeakRef" BY DEF FixedSwarmMember, Class
    <3>2. weakRef[y] = b BY <2>1, <3>1
    <3>3. cls[b] = FixedSwarm BY <1>0, <2>1, <2>3, <3>2, SwarmOfMember
    <3>4. PICK n : n = Len(p) OBVIOUS
    <3>5. n \in DOMAIN p /\ p[n] = ReleaseWeakRef(b) /\ (i # n => i < n) BY <1>1, <3>3, <3>4
    <3>6. i # n BY <1>4, <3>5 DEF Delete, ReleaseWeakRef
    <3>7. n \in Nat /\ i \in Nat BY <1>1, <3>5
    <3> QED BY <1>3, <3>2, <3>5, <3>6, <3>7
  <2> QED BY <2>5, <2>6
<1>5. ASSUME NEW i \in DOMAIN p, p[i] = ReleaseWeakRef(b), cls[b] = FixedSwarm, i = Len(p)
      PROVE  FrameOK(th, i)' /\ Cascade(th, i)'
  <2>1. todo'[th][i].call = "ReleaseWeakRef" /\ i \in Nat BY <1>1, <1>3, <1>5 DEF ReleaseWeakRef
  <2>2. \A j \in 1..(i-1) : /\ todo'[th][j].call \in {"Delete", "EndDelete"}
                            /\ cls'[todo'[th][j].arg] = FixedSwarmMember
    <3> SUFFICES ASSUME NEW j \in 1..(i-1)
                 PROVE  todo'[th][j].call = "Delete" /\ cls'[todo'[th][j].arg] = FixedSwarmMember
      OBVIOUS
    <3>1. j \in DOMAIN p /\ j # Len(p)
      <4>1. DOMAIN p = 1..Len(p) BY <1>1
      <4> QED BY <1>5, <2>1, <4>1
    <3>2. PICK y \in Doomed(b) : p[j] = Delete(y) /\ cls[y] = FixedSwarmMember BY <1>1, <1>5, <3>1
    <3> QED BY <1>3, <3>1, <3>2 DEF Delete
  <2>3. FrameOK(th, i)' BY <2>1, <2>2 DEF FrameOK
  <2> QED BY <2>1, <2>3 DEF Cascade
<1>6. ASSUME NEW i \in DOMAIN todo'[th], i \notin DOMAIN p PROVE FrameOK(th, i)' /\ Cascade(th, i)'
  <2>1. PICK E : E = {} OBVIOUS
  <2>2. Unharmed(E)
    <3>1. \A d \in Objects : Pos(d)' => Pos(d) BY DEF Pos
    <3> QED BY <3>1 DEF Unharmed
  <2>3. \A k \in StrongTokens : Ref(k) \notin E BY <2>1
  <2>4. todo[th][1] # ClearHolder /\ todo[th][1].call # "ReleaseWeakRef" BY DEF ClearHolder
  <2>5. \A j \in DOMAIN todo[th] : j # 1 /\ todo[th][j].call \in {"Delete", "EndDelete"} => todo[th][j].arg \notin E
    BY <2>1
  <2>6. \A j \in DOMAIN todo[th] : j # 1 => todo[th][j].call \notin {"ReleaseWeakRef", "FreeMember"} BY <1>0, BelowTop
  <2>7. (todo'[th][i].call # "FreeMember" => FrameOK(th, i)') /\ Cascade(th, i)'
    BY <1>1, <1>6, <2>2, <2>3, <2>4, <2>5, <2>6, RestKept
  <2>8. todo'[th][i].call # "FreeMember"
    <3>1. PICK j \in DOMAIN todo[th] : j # 1 /\ todo'[th][i] = todo[th][j] BY <1>2, <1>6 DEF Stacked
    <3> QED BY <2>6, <3>1
  <2> QED BY <2>7, <2>8
<1> QED BY <1>1, <1>4, <1>5, <1>6

(* Release of the last reference.                                          *)
LEMMA RunLastReleaseStep ==
  ASSUME IInv, NEW th \in Threads, RunRelease(th), UNCHANGED <<errorVars, holderVars>>,
         IsCounted(Arg(th)), m_refCount[Counter(Arg(th))] = 1
  PROVE  IInv'
<1>0. TypeOK /\ Heap /\ FramesTyped(todo) /\ FramesOK /\ Reports BY DEF IInv
<1>1. Calling(th, "Release") BY DEF RunRelease
<1>2. PICK o, b : o = Arg(th) /\ b = Counter(o) OBVIOUS
<1>3. PICK p : p = DestroyObject(b) OBVIOUS
<1>4. /\ Continue(th, p) /\ m_refCount[b] = 1
      /\ m_refCount' = [m_refCount EXCEPT ![b] = @ - 1]
      /\ UNCHANGED <<program, cls, life, weakRef, m_weakRefCount, m_headMember, storage, field, strong, weak>>
      /\ UNCHANGED <<handled, reported, maybe, holder, raw>>
  BY <1>2, <1>3 DEF RunRelease, errorVars, holderVars
<1>5. /\ todo[th] # <<>> /\ todo[th][1] \in Frames /\ todo[th][1].call = "Release" /\ Arg(th) = todo[th][1].arg
      /\ Head(todo[th]) = todo[th][1]
  BY <1>0, <1>1 DEF Calling, FramesTyped, Arg
<1>6. o \in Objects /\ o # NoObj BY <1>2, <1>5, FrameFacts, RefCountingAssumption
<1>7. PICK h : h = <<"release", th>> OBVIOUS
<1>8. h \in StrongTokens /\ Ref(h) = o /\ StrongAt[h] = b
  <2>1. Ref(<<"release", th>>) = IF todo[th] # <<>> /\ Head(todo[th]).call = "Release" THEN Head(todo[th]).arg ELSE NoObj
    BY RefIs
  <2>2. h \in StrongTokens BY <1>7, TokenKinds
  <2>3. Ref(h) = o BY <1>2, <1>5, <1>7, <2>1
  <2> QED BY <1>2, <1>6, <2>2, <2>3 DEF StrongAt
<1>9. b \in Objects BY <1>2, <1>6, <1>8, RefCounted
<1> HIDE DEF RunRelease
<1>10. /\ p \in Seq(Frames) /\ p # <<>>
       /\ \A i \in DOMAIN p : \/ \E y \in Doomed(b) : p[i] = Delete(y)
                              \/ cls[b] = FixedSwarm /\ i = Len(p) /\ p[i] = ReleaseWeakRef(b)
       /\ cls[b] = FixedSwarm => Len(p) \in DOMAIN p /\ p[Len(p)] = ReleaseWeakRef(b)
  BY <1>3, <1>4, <1>7, <1>8, <1>9, DestroyCalls
<1>11. StackStep(th, p) BY <1>0, <1>1, <1>4, <1>10, ContinueStack
<1>12. /\ m_refCount' \in [Objects -> Nat] /\ m_refCount'[b] = 0
       /\ \A d \in Objects : d # b => m_refCount'[d] = m_refCount[d]
  BY <1>0, <1>4, <1>9 DEF TypeOK, RefTypeOK
<1>13. \A i \in DOMAIN p : p[i].call \in {"Delete", "ReleaseWeakRef"} BY <1>10 DEF Delete, ReleaseWeakRef
<1>14. /\ \A x \in StrongTokens : x # h => Ref(x)' = Ref(x)
       /\ Ref(h)' = NoObj
  <2>1. /\ \A x \in StrongTokens : x \notin {<<"release", th>>, <<"publish", th>>} => Ref(x)' = Ref(x)
        /\ Ref(<<"publish", th>>) = NoObj
    BY <1>0, <1>4, <1>5, <1>10, <1>11, StepRefs
  <2>2. /\ Ref(<<"publish", th>>)' = (IF p # <<>> /\ p[1].call = "Publish" THEN p[1].new ELSE NoObj)
        /\ Ref(<<"release", th>>)' = (IF p # <<>> /\ p[1].call = "Release" THEN p[1].arg ELSE NoObj)
    BY <1>0, <1>4, <1>10, <1>11, StepRefs
  <2>3. 1 \in DOMAIN p BY <1>10
  <2>4. p[1].call \notin {"Publish", "Release"} BY <1>13, <2>3
  <2> QED BY <1>7, <2>1, <2>2, <2>4
<1>15. StrongExact' BY <1>4, <1>8, <1>9, <1>12, <1>14, LastReleaseStrong
<1>16. /\ life[b] = "alive" /\ Counter(b) = b /\ cls[b].policy \in {"Simple", "WeakRef", "FixedSwarm"}
  BY <1>4, <1>7, <1>8, <1>9, LastAlone
<1>17. weakRef[b] \in {b, NoObj} /\ (cls[b] = FixedSwarm => weakRef[b] = b)
  <2>1. WeakRefOK(b) BY <1>0, <1>9 DEF Heap
  <2>2. FixedSwarm.policy = "FixedSwarm" BY DEF FixedSwarm, Class
  <2> QED BY <1>16, <2>1, <2>2 DEF Counter, WeakRefOK, HasWeakRef
<1>18. WeakExact'
  <2>1. \A i \in DOMAIN p : \A d : p[i] = ReleaseWeakRef(d) => d = b /\ cls[b] = FixedSwarm
    BY <1>10 DEF Delete, ReleaseWeakRef
  <2> QED BY <1>4, <1>5, <1>9, <1>10, <1>11, <1>12, <1>17, <2>1, LastReleaseWeak
<1>19. OwnerExact'
  <2>1. \A i \in DOMAIN p : p[i].call \notin {"Place", "Free"} BY <1>13
  <2>2. \A u \in Threads : raw'[u] = raw[u] BY <1>4
  <2> QED BY <1>4, <1>5, <1>10, <1>11, <2>1, <2>2, OwnersKept
<1>20. TypeOK' /\ Counts'
  <2>1. TypeOK' BY <1>0, <1>4, <1>12 DEF TypeOK, RefTypeOK, ErrorTypeOK, HolderTypeOK, Value, Error
  <2> QED BY <1>15, <1>18, <1>19, <2>1 DEF Counts
<1>21. Onces' /\ \A x \in Objects : CallsStay(x)
  BY <1>3, <1>4, <1>5, <1>7, <1>8, <1>9, <1>11, <1>12, LastReleaseCalls
<1>22. Reports' BY <1>0, <1>4 DEF Reports
<1>23. \A u \in Threads : SameLocals(u) BY <1>4 DEF SameLocals
<1>24. \A i \in DOMAIN todo'[th] : FrameOK(th, i)' /\ Cascade(th, i)'
  BY <1>3, <1>4, <1>5, <1>7, <1>8, <1>9, <1>11, <1>12, <1>23, LastReleaseFrames
<1>25. PICK D, E : D = {} /\ E = {} OBVIOUS
<1>26. \A d \in Objects : Pos(d)' => Pos(d) BY <1>12 DEF Pos
<1>27. Kept(D)
  <2>1. \A x \in Objects : SameObject(x) BY <1>4 DEF SameObject
  <2> QED BY <1>4, <1>21, <1>25, <1>26, <2>1 DEF Kept
<1>28. Unharmed(E) BY <1>4, <1>26 DEF Unharmed
<1>29. \A k \in StrongTokens : FromHere(th, k) /\ Ref(k) \notin E /\ (Ref(k) \in D => UNCHANGED weakRef)
  BY <1>14, <1>25 DEF FromHere
<1>30. \A k \in StrongTokens : \/ Ref(k)' = NoObj
                               \/ \E l \in StrongTokens : Ref(k)' = Ref(l) /\ Ref(l) \notin D
                               \/ Live(Ref(k))'
  BY <1>14, <1>25
<1>31. \A u \in Threads : \/ WeakLive(weak[u])'
                          \/ weak'[u] = weak[u] /\ weak[u].m_ptr \notin D /\ weak[u].m_weakRef \notin D
  BY <1>4, <1>25
<1>32. \A u \in Threads : u # th => \A j \in DOMAIN todo[u] :
            /\ todo[u][j].call \in LastCalls => todo[u][j].arg \notin E
            /\ todo[u][j].call = "AddSwarmMember" => todo[u][j].arg \notin D
  BY <1>25
<1>33. \A x \in Objects : x \in D => (ClassOK(x) /\ FieldOK(x) /\ WeakRefOK(x) /\ ListsOK(x) /\ CountsOK(x))'
  BY <1>25
<1>34. \A u \in Threads : u # th => SameLocals(u) BY <1>23
<1> QED BY <1>10, <1>11, <1>20, <1>21, <1>22, <1>24, <1>27, <1>28, <1>29, <1>30, <1>31, <1>32, <1>33, <1>34, DestroyStep

(* Release *)
LEMMA RunAnyReleaseStep ==
  ASSUME IInv, NEW th \in Threads, RunRelease(th), UNCHANGED <<errorVars, holderVars>>
  PROVE  IInv'
BY RunReleaseStep, RunLastReleaseStep
-----------------------------------------------------------------------------
(* The member m is about to join the swarm b of the thread. *)
LEMMA JoinFacts ==
  ASSUME IInv, NEW th \in Threads, Calling(th, "AddSwarmMember"),
         NEW m, NEW b, m = todo[th][1].arg, b = todo[th][1].swarm
  PROVE  /\ m \in Objects /\ b \in Objects /\ m # b /\ cls[b] \in Swarms /\ cls[m] \in SwarmMembers /\ Pos(b)
         /\ m # NoObj /\ weakRef[m] = b /\ IsCounted(m) /\ Counter(m) = b /\ HasWeakRef(cls[m])
         /\ life[m] = "alive" /\ ~Dying(m) /\ todo[th][1] \in MemberFrames(m)
         /\ m_headMember[m] = <<>> /\ storage[m] = {}
         /\ \A x \in Objects : m \notin Inside(x) /\ b \notin Inside(x)
         /\ \A u \in Threads : u # th => \A j \in DOMAIN todo[u] : todo[u][j] \notin MemberFrames(m)
<1>0. Heap /\ Onces BY DEF IInv
<1>1. /\ 1 \in DOMAIN todo[th] /\ todo[th][1] \in Frames /\ todo[th][1].call = "AddSwarmMember"
      /\ m \in Objects /\ b \in Objects /\ cls[m] \in SwarmMembers /\ life[m] = "alive" /\ ~Dying(m)
      /\ weakRef[m] = b /\ HoldsSwarm(th, b)
  BY AddSwarmMemberFrame
<1>2. m # NoObj /\ b # NoObj BY <1>1, RefCountingAssumption
<1>3. cls[m].policy = "WeakRef" /\ cls[m] \in Members /\ cls[m] \notin Swarms /\ cls[m] # FixedSwarm
      /\ cls[m] # FixedSwarmMember
  BY <1>1, ClassFacts DEF Members
<1>4. m # b /\ cls[b] \in Swarms
  <2>1. WeakRefOK(m) BY <1>0, <1>1 DEF Heap
  <2> QED BY <1>1, <1>2, <1>3, <2>1 DEF WeakRefOK
<1>5. Pos(b)
  <2>1. PICK s \in Own(th) : strong[s] # NoObj /\ weakRef[strong[s]] = b BY <1>1 DEF HoldsSwarm
  <2>2. PICK x, k : x = strong[s] /\ k = <<"slot", s>> OBVIOUS
  <2>3. k \in StrongTokens /\ Ref(k) = x BY <2>2, OwnPlaces, RefIs
  <2>4. Live(x) /\ x \in Objects /\ (IsCounted(x) => Counter(x) \in Objects /\ Pos(Counter(x)))
    BY <2>1, <2>2, <2>3, RefCounted
  <2>5. WeakRefOK(x) BY <1>0, <2>4 DEF Heap
  <2>6. HasWeakRef(cls[x]) BY <1>2, <2>1, <2>2, <2>5 DEF WeakRefOK
  <2>7. IsCounted(x) /\ Counter(x) = weakRef[x] BY <2>6 DEF HasWeakRef, IsCounted, Counter
  <2> QED BY <2>1, <2>2, <2>4, <2>7
<1>6. IsCounted(m) /\ Counter(m) = b /\ HasWeakRef(cls[m]) BY <1>1, <1>3 DEF IsCounted, Counter, HasWeakRef
<1>7. m_headMember[m] = <<>> /\ storage[m] = {}
  <2>1. ClassOK(m) BY <1>0, <1>1 DEF Heap
  <2> QED BY <1>3, <2>1 DEF ClassOK
<1>8. todo[th][1] \in MemberFrames(m) BY <1>1 DEF MemberFrames
<1>9. ASSUME NEW x \in Objects PROVE m \notin Inside(x) /\ b \notin Inside(x)
  <2>1. ListsOK(x) BY <1>0 DEF Heap
  <2>2. Occurs(MemberFrames(m)) BY <1>1, <1>8 DEF Occurs, OccursIn
  <2>3. cls[b] \notin SwarmMembers /\ cls[b] # FixedSwarmMember BY <1>4, ClassFacts DEF Members
  <2> QED BY <1>3, <2>1, <2>2, <2>3 DEF ListsOK, Inside
<1>10. ASSUME NEW u \in Threads, u # th, NEW j \in DOMAIN todo[u] PROVE todo[u][j] \notin MemberFrames(m)
  BY <1>0, <1>1, <1>8, <1>10 DEF Onces, AtMostOnceIn
<1> QED BY <1>1, <1>2, <1>3, <1>4, <1>5, <1>6, <1>7, <1>8, <1>9, <1>10

(* The member m is now the head of the swarm b. *)
Joins(th, p, m, b) ==
  /\ todo[th] # <<>> /\ todo[th][1].call = "AddSwarmMember" /\ todo[th][1].arg = m /\ todo[th][1].swarm = b
  /\ Len(todo[th]) = 1
  /\ StackStep(th, p)
  /\ \A i \in DOMAIN p : i = 1 /\ p[i].call = "Release"
  /\ m_headMember' = [m_headMember EXCEPT ![b] = <<m>> \o @]
  /\ m_refCount' = AddRef(m)
  /\ UNCHANGED <<program, cls, life, weakRef, m_weakRefCount, storage, field, weak>>
  /\ UNCHANGED <<handled, reported, maybe, holder, raw>>

(* The calls about other objects stay, and m has none left. *)
LEMMA JoinCalls ==
  ASSUME IInv, NEW th \in Threads, NEW p \in Seq(Frames), NEW m, NEW b, Joins(th, p, m, b)
  PROVE  /\ Calling(th, "AddSwarmMember") /\ CallsElsewhere(m) /\ Onces'
         /\ ~Dying(m)' /\ ~Occurs(MemberFrames(m))' /\ SamePos /\ m_refCount' \in [Objects -> Nat]
         /\ Plus1(m_refCount', m_refCount, b)
<1>0. TypeOK /\ FramesTyped(todo) BY DEF IInv
<1>1. /\ todo[th] # <<>> /\ todo[th][1].call = "AddSwarmMember" /\ m = todo[th][1].arg /\ b = todo[th][1].swarm
      /\ StackStep(th, p) /\ (\A i \in DOMAIN p : p[i].call = "Release") /\ m_refCount' = AddRef(m)
  BY DEF Joins
<1>2. Calling(th, "AddSwarmMember")
  <2>1. Head(todo[th]) = todo[th][1] BY <1>0, <1>1 DEF FramesTyped
  <2> QED BY <1>1, <2>1 DEF Calling
<1>3. /\ m \in Objects /\ b \in Objects /\ Pos(b) /\ IsCounted(m) /\ Counter(m) = b
      /\ ~Dying(m) /\ todo[th][1] \in MemberFrames(m)
  BY <1>1, <1>2, JoinFacts
<1>4. \A i \in DOMAIN p : p[i].call \notin LastCalls BY <1>1 DEF LastCalls
<1>5. \A i \in DOMAIN p : p[i] # EndDelete(m) BY <1>1 DEF EndDelete
<1>6. CallsElsewhere(m) /\ Onces' /\ ~Occurs(MemberFrames(m))' BY <1>1, <1>3, <1>4, <1>5, CallsAround
<1>7. ~Dying(m)'
  <2>1. PICK C : C = DyingFrames(m) OBVIOUS
  <2>2. todo[th][1] \notin C /\ \A i \in DOMAIN p : p[i] \notin C BY <1>1, <2>1 DEF DyingFrames, Delete, EndDelete
  <2>3. OccursIn(todo', C) <=> OccursIn(todo, C) BY <1>0, <1>1, <2>2, OccursKept
  <2> QED BY <1>3, <2>1, <2>3 DEF Dying, Occurs
<1>8. m_refCount' \in [Objects -> Nat] /\ SamePos /\ Plus1(m_refCount', m_refCount, Counter(m))
  BY <1>0, <1>1, <1>3, AddRefCounts
<1> QED BY <1>2, <1>3, <1>6, <1>7, <1>8

(* The counts after it: the reference in the variable is the new one. *)
LEMMA JoinCounts ==
  ASSUME IInv, NEW th \in Threads, NEW p \in Seq(Frames), NEW m, NEW b, Joins(th, p, m, b), TypeOK',
         NEW h \in StrongTokens, NEW k \in StrongTokens, h # k, Ref(k) = NoObj, Ref(h)' = m, Ref(k)' = Ref(h),
         \A x \in StrongTokens : x \notin {h, k} => Ref(x)' = Ref(x)
  PROVE  Counts'
<1>0. TypeOK /\ FramesTyped(todo) /\ StrongExact BY DEF IInv, Counts
<1>1. /\ todo[th] # <<>> /\ todo[th][1].call = "AddSwarmMember" /\ m = todo[th][1].arg /\ b = todo[th][1].swarm
      /\ StackStep(th, p) /\ (\A i \in DOMAIN p : p[i].call = "Release")
      /\ UNCHANGED <<cls, life, weakRef, weak, m_weakRefCount, holder, raw>>
  BY DEF Joins
<1>2. Calling(th, "AddSwarmMember") /\ SamePos /\ Plus1(m_refCount', m_refCount, b) BY JoinCalls
<1>3. m # NoObj /\ b \in Objects /\ Counter(m) = b BY <1>1, <1>2, JoinFacts
<1>4. StrongExact'
  <2>1. PICK f, g, n, q : f = StrongAt /\ g = StrongAt' /\ n = m_refCount /\ q = m_refCount' OBVIOUS
  <2>2. /\ DOMAIN g = DOMAIN f /\ h \in DOMAIN f /\ k \in DOMAIN f /\ f[k] = NoObj
        /\ g[k] = f[h] /\ g[h] = b
        /\ \A x \in DOMAIN f : x \notin {h, k} => g[x] = f[x]
    BY <1>1, <1>3, <2>1, StrongAtAfter
  <2>3. Plus1(q, n, b) /\ Exact(f, n) BY <1>0, <1>2, <2>1 DEF StrongExact
  <2>4. f[k] \notin Objects BY <2>2, RefCountingAssumption
  <2>5. Exact(g, q) BY <1>3, <2>2, <2>3, <2>4, ExactSwapAdd
  <2> QED BY <2>1, <2>5 DEF StrongExact, Exact, At
<1>5. WeakExact' BY <1>1, <1>2, WeakKept
<1>6. OwnerExact' BY <1>1, OwnersKept
<1> QED BY <1>4, <1>5, <1>6 DEF Counts
(* A sequence of one element. *)
LEMMA OneElement ==
  ASSUME NEW S, NEW m \in S
  PROVE  \E r \in Seq(S) : r = <<m>> /\ Len(r) = 1 /\ r[1] = m
<1>1. <<m>> \in Seq(S) /\ Len(<<m>>) = 1 /\ <<m>>[1] = m OBVIOUS
<1> QED BY <1>1

(* A sequence with a new head. *)
Headed(q, m, s) == q = <<m>> \o s

(* What is in it. *)
LEMMA NewHead ==
  ASSUME NEW S, NEW m \in S, NEW s \in Seq(S), NEW q \in Seq(S), Headed(q, m, s)
  PROVE  /\ 1 \in DOMAIN q /\ q[1] = m
         /\ \A i \in DOMAIN q : (i = 1 /\ q[i] = m) \/ \E j \in DOMAIN s : i = j + 1 /\ q[i] = s[j]
         /\ \A j \in DOMAIN s : \E i \in DOMAIN q : q[i] = s[j]
<1>1. PICK r \in Seq(S) : r = <<m>> /\ Len(r) = 1 /\ r[1] = m BY OneElement
<1>2. PICK n \in Nat : n = Len(s) /\ DOMAIN s = 1..n OBVIOUS
<1>3. q = r \o s BY <1>1 DEF Headed
<1>4. q \in Seq(S) /\ Len(q) = 1 + n /\ \A i \in 1..Len(q) : q[i] = IF i <= 1 THEN r[i] ELSE s[i - 1]
  BY <1>1, <1>2, <1>3
<1>5. DOMAIN q = 1..(1 + n) BY <1>4
<1>6. ASSUME NEW i \in DOMAIN q, i # 1 PROVE \E j \in DOMAIN s : i = j + 1 /\ q[i] = s[j]
  <2>1. i \in Nat /\ i > 1 /\ i <= 1 + n BY <1>5, <1>6
  <2>2. i - 1 \in 1..n /\ i = (i - 1) + 1 BY <2>1
  <2>3. q[i] = s[i - 1] BY <1>4, <1>5, <1>6, <2>1
  <2> QED BY <1>2, <2>2, <2>3
<1>7. 1 \in DOMAIN q /\ q[1] = m BY <1>1, <1>4, <1>5
<1>8. ASSUME NEW j \in DOMAIN s PROVE \E i \in DOMAIN q : q[i] = s[j]
  <2>1. j \in Nat /\ j >= 1 /\ j <= n BY <1>2
  <2>2. j + 1 \in DOMAIN q /\ q[j + 1] = s[(j + 1) - 1] BY <1>4, <1>5, <2>1
  <2>3. (j + 1) - 1 = j BY <2>1
  <2> QED BY <2>2, <2>3
<1> QED BY <1>4, <1>6, <1>7, <1>8

(* The swarm and its new member are as they should be. *)
LEMMA JoinHeap ==
  ASSUME IInv, NEW th \in Threads, NEW p \in Seq(Frames), NEW m, NEW b, Joins(th, p, m, b), TypeOK'
  PROVE  /\ (ClassOK(b) /\ FieldOK(b) /\ WeakRefOK(b) /\ ListsOK(b) /\ CountsOK(b))'
         /\ (ClassOK(m) /\ FieldOK(m) /\ WeakRefOK(m) /\ ListsOK(m) /\ CountsOK(m))'
<1>0. TypeOK /\ Heap BY DEF IInv
<1>1. /\ m = todo[th][1].arg /\ b = todo[th][1].swarm
      /\ m_headMember' = [m_headMember EXCEPT ![b] = <<m>> \o @]
      /\ UNCHANGED <<program, cls, life, weakRef, m_weakRefCount, storage, field>>
  BY DEF Joins
<1>2. /\ Calling(th, "AddSwarmMember") /\ CallsElsewhere(m) /\ ~Dying(m)' /\ ~Occurs(MemberFrames(m))' /\ SamePos
  BY JoinCalls
<1>3. /\ m \in Objects /\ b \in Objects /\ m # b /\ cls[b] \in Swarms /\ cls[m] \in SwarmMembers /\ Pos(b)
      /\ weakRef[m] = b /\ Counter(m) = b /\ life[m] = "alive"
      /\ m_headMember[m] = <<>> /\ storage[m] = {}
      /\ \A x \in Objects : m \notin Inside(x)
  <2>1. m = todo[th][1].arg /\ b = todo[th][1].swarm BY <1>1
  <2> QED BY <1>2, <2>1, JoinFacts
<1>4. /\ ClassOK(b) /\ FieldOK(b) /\ WeakRefOK(b) /\ ListsOK(b) /\ CountsOK(b)
      /\ ClassOK(m) /\ FieldOK(m) /\ WeakRefOK(m) /\ ListsOK(m) /\ CountsOK(m)
  BY <1>0, <1>3 DEF Heap
<1>5. PICK s, q : s = m_headMember[b] /\ q = m_headMember'[b] OBVIOUS
<1>6. /\ s \in Seq(Objects) /\ q \in Seq(Objects) /\ q = <<m>> \o s
      /\ \A x \in Objects : x # b => m_headMember'[x] = m_headMember[x]
  BY <1>0, <1>1, <1>3, <1>5 DEF TypeOK, RefTypeOK
<1>7. /\ \A i \in DOMAIN q : (i = 1 /\ q[i] = m) \/ \E j \in DOMAIN s : i = j + 1 /\ q[i] = s[j]
      /\ 1 \in DOMAIN q /\ q[1] = m
      /\ \A j \in DOMAIN s : \E i \in DOMAIN q : q[i] = s[j]
  <2>1. m \in Objects /\ s \in Seq(Objects) /\ q \in Seq(Objects) /\ Headed(q, m, s) BY <1>3, <1>6 DEF Headed
  <2> QED BY <2>1, NewHead
<1>8. Range(q) = Range(s) \cup {m}
  <2>0. \A j \in DOMAIN s : \E i \in DOMAIN q : q[i] = s[j] BY <1>7
  <2>1. ASSUME NEW x \in Range(q) PROVE x \in Range(s) \cup {m}
    <3>1. PICK i \in DOMAIN q : q[i] = x BY <2>1 DEF Range
    <3> QED BY <1>7, <3>1 DEF Range
  <2>2. ASSUME NEW x \in Range(s) PROVE x \in Range(q)
    <3>1. PICK j \in DOMAIN s : s[j] = x BY <2>2 DEF Range
    <3> QED BY <2>0, <3>1 DEF Range
  <2>3. m \in Range(q) BY <1>7 DEF Range
  <2> QED BY <2>1, <2>2, <2>3
<1>9. m \notin Range(s) BY <1>3, <1>5 DEF Inside
<1>10. \A x \in Objects : x \notin {m} => (Dying(x)' <=> Dying(x)) /\ (Occurs({Delete(x)})' <=> Occurs({Delete(x)}))
                            /\ (Occurs({EndDelete(x)})' <=> Occurs({EndDelete(x)}))
                            /\ (Occurs(MemberFrames(x))' <=> Occurs(MemberFrames(x)))
  BY <1>2 DEF CallsElsewhere
<1>11. cls[b] \notin Members /\ cls[m] \notin Swarms /\ cls[m].policy = "WeakRef"
  BY <1>3, ClassFacts DEF Members
<1>12. /\ ClassOK(b)' /\ ClassOK(m)' BY <1>1, <1>3, <1>4, <1>6 DEF ClassOK, IsStatic, StaticClasses
<1>13. FieldOK(b)' /\ FieldOK(m)' BY <1>1, <1>4 DEF FieldOK
<1>14. WeakRefOK(b)' /\ WeakRefOK(m)' BY <1>1, <1>3, <1>4, <1>10 DEF WeakRefOK
<1>15. ListsOK(m)'
  <2>1. m_headMember'[m] = <<>> /\ storage'[m] = {} BY <1>1, <1>3, <1>6
  <2> QED BY <2>1 DEF ListsOK, Range
<1>16. ListsOK(b)'
  <2>1. \A i, j \in DOMAIN q : q[i] = q[j] => i = j
    <3> SUFFICES ASSUME NEW i \in DOMAIN q, NEW j \in DOMAIN q, q[i] = q[j] PROVE i = j OBVIOUS
    <3>1. \A x, y \in DOMAIN s : s[x] = s[y] => x = y BY <1>4, <1>5 DEF ListsOK
    <3>2. \A x \in DOMAIN s : s[x] # m BY <1>9 DEF Range
    <3> QED BY <1>7, <3>1, <3>2
  <2>2. \A x \in Range(s) : x \in Objects /\ x # m BY <1>6, <1>9 DEF Range
  <2>3. ASSUME NEW x \in Range(q)
        PROVE  /\ cls'[x] \in SwarmMembers
               /\ weakRef'[x] = b \/ (weakRef'[x] = NoObj /\ life'[x] = "dead")
               /\ Pos(b)' => weakRef'[x] = b /\ life'[x] = "alive" /\ ~Dying(x)'
               /\ ~Occurs(MemberFrames(x))'
               /\ \A d \in Objects : x \in Range(m_headMember'[d]) => d = b
    <3>1. CASE x = m
      <4>1. \A d \in Objects : d # b => m \notin Range(m_headMember'[d]) BY <1>3, <1>6 DEF Inside
      <4> QED BY <1>1, <1>2, <1>3, <3>1, <4>1
    <3>2. CASE x # m
      <4>1. x \in Range(s) BY <1>8, <2>3, <3>2
      <4>2. /\ cls[x] \in SwarmMembers
            /\ weakRef[x] = b \/ (weakRef[x] = NoObj /\ life[x] = "dead")
            /\ Pos(b) => weakRef[x] = b /\ life[x] = "alive" /\ ~Dying(x)
            /\ ~Occurs(MemberFrames(x))
            /\ \A d \in Objects : x \in Range(m_headMember[d]) => d = b
        BY <1>4, <1>5, <4>1 DEF ListsOK
      <4>3. \A d \in Objects : x \in Range(m_headMember'[d]) => d = b BY <1>6, <4>2
      <4>4. (Dying(x)' <=> Dying(x)) /\ (Occurs(MemberFrames(x))' <=> Occurs(MemberFrames(x)))
        BY <1>10, <2>2, <4>1
      <4> QED BY <1>1, <1>3, <4>2, <4>3, <4>4
    <3> QED BY <3>1, <3>2
  <2>4. \A x \in storage'[b] : /\ cls'[x] = FixedSwarmMember
                               /\ weakRef'[x] = b \/ (weakRef'[x] = NoObj /\ life'[x] = "dead")
                               /\ \A d \in Objects : x \in storage'[d] => d = b
    BY <1>1, <1>4 DEF ListsOK
  <2> QED BY <1>5, <2>1, <2>3, <2>4 DEF ListsOK
<1>17. CountsOK(b)'
  <2>1. (Pos(b)' <=> Pos(b)) /\ b \in Objects /\ b \notin {m} BY <1>2, <1>3 DEF SamePos
  <2>2. Counter(b)' = Counter(b) BY <1>1 DEF Counter
  <2>3. Pos(b) => Counter(b) = b BY <1>4 DEF CountsOK
  <2> QED BY <1>1, <1>3, <1>4, <1>10, <1>11, <2>1, <2>2, <2>3 DEF CountsOK
<1>18. CountsOK(m)'
  <2>1. (Pos(m)' <=> Pos(m)) /\ Pos(b)' BY <1>2, <1>3 DEF SamePos
  <2>2. Counter(m)' = Counter(m) BY <1>1 DEF Counter
  <2>3. Pos(m) => Counter(m) = m BY <1>4 DEF CountsOK
  <2>4. m \in Range(m_headMember'[b]) BY <1>5, <1>8
  <2>5. ~Pos(m)' BY <1>3, <2>1, <2>3
  <2>6. Pos(Counter(m))' BY <1>3, <2>1, <2>2
  <2>7. m_weakRefCount'[m] > 0 <=> HasWeakRef(cls'[m]) /\ cls'[m] \notin Members BY <1>1, <1>4 DEF CountsOK
  <2> QED BY <1>3, <2>4, <2>5, <2>6, <2>7 DEF CountsOK
<1> QED BY <1>12, <1>13, <1>14, <1>15, <1>16, <1>17, <1>18
(* What the new head of a swarm leaves alone, and what it keeps. *)
LEMMA JoinKept ==
  ASSUME IInv, NEW th \in Threads, NEW p \in Seq(Frames), NEW m, NEW b, Joins(th, p, m, b), TypeOK'
  PROVE  Kept({m, b})
<1>0. TypeOK /\ Heap BY DEF IInv
<1>1. /\ m = todo[th][1].arg /\ b = todo[th][1].swarm
      /\ m_headMember' = [m_headMember EXCEPT ![b] = <<m>> \o @]
      /\ UNCHANGED <<program, cls, life, weakRef, m_weakRefCount, storage, field>>
  BY DEF Joins
<1>2. Calling(th, "AddSwarmMember") /\ CallsElsewhere(m) /\ SamePos BY JoinCalls
<1>3. /\ m \in Objects /\ b \in Objects /\ m # b /\ todo[th][1] \in MemberFrames(m)
      /\ m_headMember[m] = <<>> /\ storage[m] = {}
      /\ \A x \in Objects : m \notin Inside(x) /\ b \notin Inside(x)
  <2>1. m = todo[th][1].arg /\ b = todo[th][1].swarm BY <1>1
  <2>2. m \in Objects /\ b \in Objects /\ m # b /\ weakRef[m] = b BY <1>2, <2>1, JoinFacts
  <2>5. m_headMember[m] = <<>> /\ storage[m] = {}
    <3>1. cls[m] \in SwarmMembers BY <1>2, <2>1, JoinFacts
    <3>2. ClassOK(m) BY <1>0, <2>2 DEF Heap
    <3>3. cls[m] \notin Swarms /\ cls[m] # FixedSwarm BY <3>1, ClassFacts DEF Members
    <3> QED BY <3>2, <3>3 DEF ClassOK
  <2>3. todo[th][1] \in MemberFrames(m) BY <1>2, <2>1, JoinFacts
  <2>4. \A x \in Objects : m \notin Inside(x) /\ b \notin Inside(x) BY <1>2, <2>1, JoinFacts
  <2> QED BY <2>2, <2>3, <2>4, <2>5
<1>4. PICK s, q : s = m_headMember[b] /\ q = m_headMember'[b] OBVIOUS
<1>5. /\ s \in Seq(Objects) /\ q \in Seq(Objects) /\ q = <<m>> \o s
      /\ \A x \in Objects : x # b => m_headMember'[x] = m_headMember[x]
  BY <1>0, <1>1, <1>3, <1>4 DEF TypeOK, RefTypeOK
<1>6. /\ \A i \in DOMAIN q : (i = 1 /\ q[i] = m) \/ \E j \in DOMAIN s : i = j + 1 /\ q[i] = s[j]
      /\ \A j \in DOMAIN s : \E i \in DOMAIN q : q[i] = s[j]
  <2>1. m \in Objects /\ s \in Seq(Objects) /\ q \in Seq(Objects) /\ Headed(q, m, s) BY <1>3, <1>5 DEF Headed
  <2> QED BY <2>1, NewHead
<1>7. Range(s) \subseteq Range(q) /\ Range(q) \subseteq Range(s) \cup {m} BY <1>6 DEF Range
<1>8. ASSUME NEW x \in Objects, x \notin {m, b} PROVE SameObject(x) /\ CallsStay(x)
  <2>1. SameObject(x) BY <1>1, <1>5, <1>8 DEF SameObject
  <2>2. life[x] = "alive" /\ Falls(x) => Counter(x) \in Objects
    <3>1. WeakRefOK(x) /\ weakRef[x] \in Objects \cup {NoObj} BY <1>0, <1>8 DEF Heap, TypeOK, RefTypeOK, Pointers
    <3> QED BY <1>8, <3>1 DEF Falls, Counter, WeakRefOK, HasWeakRef
  <2>3. life[x] = "alive" /\ Falls(x) => ~(m_refCount[Counter(x)] > 0)
    BY <1>2, <2>2 DEF Falls, SamePos, Pos
  <2> QED BY <1>2, <1>8, <2>1, <2>3 DEF CallsStay, CallsElsewhere
<1>9. ASSUME NEW d \in {m, b}
      PROVE  /\ Inside(d) \subseteq Inside(d)' \cup {m, b}
             /\ \A x \in Range(m_headMember'[d]) : x \in Range(m_headMember[d]) \/ Occurs(MemberFrames(x))
  <2>1. CASE d = m BY <1>1, <1>3, <1>5, <2>1 DEF Inside
  <2>2. CASE d = b
    <3>1. Occurs(MemberFrames(m))
      <4>1. 1 \in DOMAIN todo[th] BY <1>2, AddSwarmMemberFrame
      <4> QED BY <1>3, <4>1 DEF Occurs, OccursIn
    <3> QED BY <1>1, <1>4, <1>7, <2>2, <3>1 DEF Inside
  <2> QED BY <1>9, <2>1, <2>2
<1>10. \A x \in Objects : Pos(x)' => Pos(x) BY <1>2 DEF SamePos
<1> QED BY <1>1, <1>3, <1>8, <1>9, <1>10 DEF Kept
(* A call that has to release one reference, or none. *)
LEMMA ReleaseCalls ==
  ASSUME NEW r \in Objects \cup {NoObj}, NEW p, p = ReleaseOf(r)
  PROVE  /\ p \in Seq(Frames)
         /\ \A i \in DOMAIN p : i = 1 /\ p[i].call = "Release" /\ p[i] = Release(r)
         /\ r = NoObj => p = <<>>
         /\ r # NoObj => 1 \in DOMAIN p /\ p # <<>> /\ p[1].arg = r
<1>1. CASE r = NoObj BY <1>1 DEF ReleaseOf
<1>2. CASE r # NoObj
  <2>1. PICK f \in Frames : f = Release(r) BY <1>2, FrameKinds
  <2>2. f.call = "Release" /\ f.arg = r BY <2>1 DEF Release
  <2>3. p = <<f>> BY <1>2, <2>1 DEF ReleaseOf
  <2>4. p \in Seq(Frames) /\ DOMAIN p = {1} /\ p[1] = f /\ p # <<>> BY <2>3, FewCalls
  <2> QED BY <1>2, <2>1, <2>2, <2>4
<1> QED BY <1>1, <1>2

(* A member joins the swarm whose head it saw. *)
LEMMA JoinStep ==
  ASSUME IInv, NEW th \in Threads, NEW p \in Seq(Frames), NEW m, NEW b, Joins(th, p, m, b), TypeOK',
         NEW h \in StrongTokens, NEW k \in StrongTokens, h # k, Here(th, h), Ref(k) = NoObj, Ref(h)' = m, Ref(k)' = Ref(h),
         \A x \in StrongTokens : x \notin {h, k} => Ref(x)' = Ref(x),
         \A u \in Threads : u # th => SameLocals(u)
  PROVE  IInv'
<1>0. TypeOK /\ FramesTyped(todo) /\ Heap /\ RefsLive /\ WeaksLive /\ Reports BY DEF IInv
<1>1. m = todo[th][1].arg /\ b = todo[th][1].swarm BY DEF Joins
<1>2. /\ StackStep(th, p) /\ Len(todo[th]) = 1 /\ todo[th] # <<>>
      /\ \A i \in DOMAIN p : i = 1 /\ p[i].call = "Release"
      /\ m_headMember' = [m_headMember EXCEPT ![b] = <<m>> \o @]
      /\ UNCHANGED <<program, cls, life, weakRef, m_weakRefCount, storage, field, weak, handled, reported>>
  BY DEF Joins
<1>3. /\ Calling(th, "AddSwarmMember") /\ CallsElsewhere(m) /\ Onces' /\ ~Dying(m)' /\ SamePos
      /\ m_refCount' \in [Objects -> Nat]
  BY JoinCalls
<1>4. m \in Objects /\ b \in Objects /\ m # b /\ cls[b] \in Swarms /\ cls[m] \in SwarmMembers
  BY <1>1, <1>3, JoinFacts
<1>5. life[m] = "alive" /\ weakRef[m] = b /\ Pos(b) BY <1>1, <1>3, JoinFacts
<1>6. \A u \in Threads : u # th => \A j \in DOMAIN todo[u] : todo[u][j] \notin MemberFrames(m)
  BY <1>1, <1>3, JoinFacts
<1>7. PICK D, E : D = {m, b} /\ E = {} OBVIOUS
<1>8. Kept(D) BY <1>7, JoinKept
<1>9. Unharmed(E)
  <2>1. \A d \in Objects : Pos(d)' => Pos(d) BY <1>3 DEF SamePos
  <2> QED BY <1>2, <2>1 DEF Unharmed
<1>10. Counts' BY JoinCounts
<1>11. Reports' BY <1>0, <1>2 DEF Reports
<1>12. \A x \in D : (ClassOK(x) /\ FieldOK(x) /\ WeakRefOK(x) /\ ListsOK(x) /\ CountsOK(x))'
  <2>1. (ClassOK(b) /\ FieldOK(b) /\ WeakRefOK(b) /\ ListsOK(b) /\ CountsOK(b))' BY JoinHeap
  <2>2. (ClassOK(m) /\ FieldOK(m) /\ WeakRefOK(m) /\ ListsOK(m) /\ CountsOK(m))' BY JoinHeap
  <2> QED BY <1>7, <2>1, <2>2
<1>13. \A d \in Objects : Owned(d) \subseteq Owned(d)'
  <2> SUFFICES ASSUME NEW d \in Objects PROVE Owned(d) \subseteq Owned(d)' OBVIOUS
  <2>1. Inside(d) \subseteq Inside(d)' \cup D /\ (d \in D \/ Inside(d)' = Inside(d))
    BY <1>8 DEF Kept, SameObject, Inside
  <2>2. m \notin Inside(d) /\ b \notin Inside(d) BY <1>1, <1>3, JoinFacts
  <2> QED BY <1>7, <2>1, <2>2 DEF Owned, Inside
<1>14. ASSUME NEW x, Live(x), x # m PROVE Live(x)'
  <2>1. x \in Objects /\ ~Dying(x)' BY <1>3, <1>14 DEF Live, CallsElsewhere
  <2>2. HasWeakRef(cls[x]) => weakRef[x] \in Objects /\ x \in Owned(weakRef[x]) BY <1>14 DEF Live
  <2>3. HasWeakRef(cls[x]) => x \in Owned(weakRef[x])'
    <3>1. PICK d : d = weakRef[x] OBVIOUS
    <3>2. d \in Objects /\ x \in Owned(d) => x \in Owned(d)' BY <1>13
    <3>3. weakRef'[x] = d BY <1>2, <3>1
    <3> QED BY <2>2, <3>1, <3>2, <3>3
  <2> QED BY <1>2, <1>14, <2>1, <2>2, <2>3 DEF Live
<1>15. Live(m)'
  <2>1. m \in Owned(b)'
    <3>1. PICK s, q : s = m_headMember[b] /\ q = m_headMember'[b] OBVIOUS
    <3>2. s \in Seq(Objects) /\ q \in Seq(Objects) /\ Headed(q, m, s)
      BY <1>0, <1>2, <1>4, <3>1 DEF TypeOK, RefTypeOK, Headed
    <3>3. 1 \in DOMAIN q /\ q[1] = m BY <1>4, <3>2, NewHead
    <3>4. m \in Range(m_headMember'[b]) BY <3>1, <3>3 DEF Range
    <3> QED BY <3>4 DEF Owned
  <2>2. cls[m] # OwnedObject BY <1>4, ClassFacts DEF OwnedObject, Class, Members
  <2> QED BY <1>2, <1>3, <1>4, <1>5, <2>1, <2>2 DEF Live
<1>16. \A x \in StrongTokens : FromHere(th, x)
  <2>1. cls'[m] # FixedSwarm BY <1>2, <1>4, ClassFacts DEF Members
  <2>2. Ref(h)' = m BY <1>7
  <2>3. FromHere(th, h)
    <3>1. cls[m] # FixedSwarm BY <1>4, ClassFacts DEF Members
    <3> QED BY <2>2, <3>1 DEF FromHere
  <2>4. FromHere(th, k) BY DEF FromHere, Here
  <2> QED BY <2>3, <2>4 DEF FromHere
<1>17. \A x \in StrongTokens : FromHere(th, x) /\ Ref(x) \notin E /\ (Ref(x) \in D => UNCHANGED weakRef)
  BY <1>2, <1>7, <1>16
<1>18. \A x \in StrongTokens : \/ Ref(x)' = NoObj
                               \/ \E y \in StrongTokens : Ref(x)' = Ref(y) /\ Ref(y) \notin D
                               \/ Live(Ref(x))'
  <2> TAKE x \in StrongTokens
  <2>1. CASE x = h
    <3>1. PICK o : o = Ref(x)' OBVIOUS
    <3>2. o = m BY <2>1, <3>1
    <3>3. Live(o)' BY <1>15, <3>2
    <3> QED BY <3>1, <3>3
  <2>2. CASE x # h
    <3>1. \E y \in StrongTokens : Ref(x)' = Ref(y) BY <2>2
    <3>2. PICK o : o = Ref(x)' OBVIOUS
    <3>3. o = NoObj \/ Live(o) BY <1>0, <3>1, <3>2 DEF RefsLive
    <3>4. ~Live(m)
      <4>1. m \notin Owned(b)
        <5>1. m \notin Inside(b) BY <1>1, <1>3, <1>4, JoinFacts
        <5> QED BY <1>4, <5>1 DEF Owned, Inside
      <4>2. HasWeakRef(cls[m]) BY <1>4, ClassFacts DEF Members, HasWeakRef
      <4> QED BY <1>5, <4>1, <4>2 DEF Live
    <3>5. o = NoObj \/ Live(o)' BY <1>14, <3>3, <3>4
    <3> QED BY <3>2, <3>5
  <2> QED BY <2>1, <2>2
<1>19. \A u \in Threads : \/ WeakLive(weak[u])'
                          \/ weak'[u] = weak[u] /\ weak[u].m_ptr \notin D /\ weak[u].m_weakRef \notin D
  <2> TAKE u \in Threads
  <2>1. PICK w : w = weak[u] OBVIOUS
  <2>2. WeakLive(w) BY <1>0, <2>1 DEF WeaksLive
  <2>3. w # EmptyWeakPtr => WeakLive(w)'
    <3> SUFFICES ASSUME w # EmptyWeakPtr PROVE WeakLive(w)' OBVIOUS
    <3>1. /\ w.m_ptr \in Objects /\ w.m_weakRef \in Objects /\ w.m_ptr \in Owned(w.m_weakRef)
          /\ Pos(w.m_weakRef) => ~Dying(w.m_ptr)
      BY <2>2 DEF WeakLive
    <3>2. w.m_ptr \in Owned(w.m_weakRef)' BY <1>13, <3>1
    <3>3. Pos(w.m_weakRef)' <=> Pos(w.m_weakRef) BY <1>3, <3>1 DEF SamePos
    <3>4. Pos(w.m_weakRef)' => ~Dying(w.m_ptr)' BY <1>3, <3>1, <3>3 DEF CallsElsewhere
    <3> QED BY <1>2, <2>2, <3>1, <3>2, <3>3, <3>4 DEF WeakLive
  <2>4. WeakLive(w)' BY <2>3 DEF WeakLive
  <2>5. weak'[u] = w BY <1>2, <2>1
  <2> QED BY <2>4, <2>5
<1>20. \A u \in Threads : u # th => \A j \in DOMAIN todo[u] :
            /\ todo[u][j].call \in LastCalls => todo[u][j].arg \notin E
            /\ todo[u][j].call = "AddSwarmMember" => todo[u][j].arg \notin D
  <2> SUFFICES ASSUME NEW u \in Threads, u # th, NEW j \in DOMAIN todo[u], todo[u][j].call = "AddSwarmMember"
               PROVE  todo[u][j].arg \notin D
    BY <1>7
  <2>1. todo[u][j] \in Frames BY <1>0 DEF FramesTyped
  <2>2. todo[u][j] \notin MemberFrames(m) BY <1>6
  <2>3. todo[u][j].arg # m BY <2>1, <2>2 DEF MemberFrames
  <2>4. FrameOK(u, j) BY DEF IInv, FramesOK
  <2>5. cls[todo[u][j].arg] \in SwarmMembers BY <2>4 DEF FrameOK
  <2>6. cls[b] \notin SwarmMembers BY <1>4, ClassFacts DEF Members
  <2>7. todo[u][j].arg # b BY <2>5, <2>6
  <2> QED BY <1>7, <2>3, <2>7
<1>21. \A i \in DOMAIN todo'[th] : FrameOK(th, i)' /\ Cascade(th, i)'
  <2> TAKE i \in DOMAIN todo'[th]
  <2>1. Stacked(todo[th], p, todo'[th]) BY <1>0, <1>2, StackAfter
  <2>2. i \in DOMAIN p
    <3>1. PICK s \in Seq(Frames), q \in Seq(Frames) : s = todo[th] /\ q = todo'[th] /\ Len(s) = 1 /\ s # <<>>
      BY <1>0, <1>2, <2>1 DEF FramesTyped, Stacked
    <3>2. Len(q) = Len(p) BY <2>1, <3>1 DEF Stacked
    <3>3. DOMAIN q = DOMAIN p BY <3>2
    <3> QED BY <3>1, <3>3
  <2>3. i = 1 /\ todo'[th][1].call = "Release" BY <1>2, <2>1, <2>2 DEF Stacked
  <2>4. FrameOK(th, 1)' BY <2>3, ReleaseFrame
  <2> QED BY <2>3, <2>4 DEF Cascade
<1>22. \A x \in Objects : x \in D => (ClassOK(x) /\ FieldOK(x) /\ WeakRefOK(x) /\ ListsOK(x) /\ CountsOK(x))'
  BY <1>12
<1> QED BY <1>2, <1>3, <1>8, <1>9, <1>10, <1>11, <1>17, <1>18, <1>19, <1>20, <1>21, <1>22, DestroyStep
(* Swarm::AddSwarmMember *)
LEMMA RunAddSwarmMemberStep ==
  ASSUME IInv, NEW th \in Threads, RunAddSwarmMember(th), UNCHANGED <<errorVars, holderVars>>
  PROVE  IInv'
<1>0. TypeOK /\ FramesTyped(todo) /\ FramesOK BY DEF IInv
<1>1. Calling(th, "AddSwarmMember") BY DEF RunAddSwarmMember
<1>2. CASE m_headMember[Head(todo[th]).swarm] # Head(todo[th]).next BY <1>2, AddSwarmMemberAgain
<1>3. CASE m_headMember[Head(todo[th]).swarm] = Head(todo[th]).next
  <2>1. PICK e : e = Head(todo[th]) OBVIOUS
  <2>2. PICK m, b, to : m = e.arg /\ b = e.swarm /\ to = e.to OBVIOUS
  <2>3. PICK r : r = strong[to] OBVIOUS
  <2>4. PICK p : p = ReleaseOf(r) OBVIOUS
  <2>5. /\ m_headMember' = [m_headMember EXCEPT ![b] = <<m>> \o @]
        /\ m_refCount' = AddRef(m)
        /\ strong' = [strong EXCEPT ![to] = m]
        /\ Continue(th, p)
        /\ UNCHANGED <<program, cls, life, weakRef, m_weakRefCount, storage, field, weak>>
        /\ UNCHANGED <<handled, reported, maybe, holder, raw>>
    <3>1. m_headMember[b] = e.next BY <1>3, <2>1, <2>2
    <3> QED BY <2>1, <2>2, <2>3, <2>4, <3>1 DEF RunAddSwarmMember, errorVars, holderVars
  <2> HIDE DEF RunAddSwarmMember
  <2>6. /\ Len(todo[th]) = 1 /\ todo[th] # <<>> /\ e = todo[th][1] /\ e.call = "AddSwarmMember" /\ to \in Own(th)
    BY <1>1, <2>1, <2>2, AddSwarmMemberFrame
  <2>7. m = todo[th][1].arg /\ b = todo[th][1].swarm BY <2>2, <2>6
  <2>8. m \in Objects /\ m # NoObj /\ b \in Objects BY <1>1, <2>7, JoinFacts
  <2>9. to \in Slots /\ r \in Objects \cup {NoObj}
    BY <1>0, <2>3, <2>6, OwnPlaces DEF TypeOK, RefTypeOK, Pointers
  <2>10. /\ p \in Seq(Frames)
         /\ \A i \in DOMAIN p : i = 1 /\ p[i].call = "Release"
         /\ r = NoObj => p = <<>>
         /\ r # NoObj => 1 \in DOMAIN p /\ p # <<>> /\ p[1].arg = r
    BY <2>4, <2>9, ReleaseCalls
  <2>11. StackStep(th, p) BY <1>0, <1>1, <2>5, <2>10, ContinueStack
  <2>12. Joins(th, p, m, b) BY <2>5, <2>6, <2>7, <2>10, <2>11 DEF Joins
  <2>13. PICK h, k : h = <<"slot", to>> /\ k = <<"release", th>> OBVIOUS
  <2>14. h \in StrongTokens /\ k \in StrongTokens /\ h # k /\ Here(th, h) BY <2>6, <2>9, <2>13, TokenKinds DEF Here
  <2>15. strong'[to] = m /\ \A s \in Slots : s # to => strong'[s] = strong[s]
    BY <1>0, <2>5, <2>9 DEF TypeOK, RefTypeOK
  <2>16. Ref(h) = r /\ Ref(h)' = m BY <2>3, <2>13, <2>15, RefIs
  <2>17. Ref(k) = NoObj /\ Ref(k)' = r
    <3>1. todo[th][1].call # "Release" BY <2>6
    <3>2. cls' = cls BY <2>5
    <3>3. /\ Ref(<<"release", th>>)' = IF p # <<>> /\ p[1].call = "Release" THEN p[1].arg ELSE NoObj
          /\ Ref(<<"release", th>>) = NoObj
      BY <1>0, <2>10, <2>11, <3>1, <3>2, StepRefs
    <3> QED BY <2>10, <2>13, <3>3
  <2>18. \A x \in StrongTokens : x \notin {h, k} => Ref(x)' = Ref(x)
    <3>1. todo[th][1].call # "Publish" BY <2>6
    <3>2. /\ cls' = cls /\ \A o \in Objects : field'[o] = field[o]
          /\ \A u \in Threads : maybe'[u] = maybe[u] /\ raw'[u] = raw[u]
      BY <2>5
    <3>3. /\ Ref(<<"publish", th>>)' = IF p # <<>> /\ p[1].call = "Publish" THEN p[1].new ELSE NoObj
          /\ Ref(<<"publish", th>>) = NoObj
          /\ \A x \in StrongTokens :
              \/ \E s \in Slots : x = <<"slot", s>> /\ Ref(x) = strong[s] /\ Ref(x)' = strong'[s]
              \/ \E o \in Objects : x = <<"field", o>> /\ (field'[o] = field[o] => Ref(x)' = Ref(x))
              \/ \E u \in Threads : x = <<"maybe", u>> /\ Ref(x) = maybe[u].m_error /\ Ref(x)' = maybe'[u].m_error
              \/ \E u \in Threads : x = <<"raw", u>> /\ (raw'[u] = raw[u] => Ref(x)' = Ref(x))
              \/ x = <<"release", th>> \/ x = <<"publish", th>>
              \/ Ref(x)' = Ref(x)
      BY <1>0, <2>10, <2>11, <3>1, <3>2, StepRefs
    <3>4. p = <<>> \/ p[1].call = "Release" BY <2>10
    <3> QED BY <2>13, <2>15, <3>2, <3>3, <3>4
  <2>19. TypeOK'
    <3>1. m_refCount' \in [Objects -> Nat] BY <2>10, <2>12, JoinCalls
    <3>2. m_headMember' \in [Objects -> Seq(Objects)]
      <4>1. PICK s : s = m_headMember[b] OBVIOUS
      <4>2. s \in Seq(Objects) /\ m_headMember \in [Objects -> Seq(Objects)] BY <1>0, <2>8, <4>1 DEF TypeOK, RefTypeOK
      <4>3. <<m>> \o s \in Seq(Objects) BY <2>8, <4>2
      <4>4. m_headMember' = [m_headMember EXCEPT ![b] = <<m>> \o s] BY <2>5, <4>1
      <4> QED BY <4>2, <4>3, <4>4
    <3>3. strong' \in [Slots -> Pointers] BY <1>0, <2>5, <2>8 DEF TypeOK, RefTypeOK, Pointers
    <3> QED BY <1>0, <2>5, <3>1, <3>2, <3>3 DEF TypeOK, RefTypeOK, ErrorTypeOK, HolderTypeOK, Value, Error
  <2>20. \A u \in Threads : u # th => SameLocals(u)
    <3>1. \A u \in Threads : u # th => to \notin Own(u) BY <2>6 DEF Own
    <3>2. \A u \in Threads : u # th => \A s \in Own(u) : s \in Slots /\ s # to BY <3>1 DEF Own
    <3> QED BY <2>5, <2>15, <3>2 DEF SameLocals
  <2>21. Ref(k)' = Ref(h) BY <2>16, <2>17
  <2> QED BY <2>10, <2>12, <2>14, <2>16, <2>17, <2>18, <2>19, <2>20, <2>21, JoinStep
<1> QED BY <1>2, <1>3
-----------------------------------------------------------------------------
(* What Make creates is an object of its own. *)
LEMMA MadeMakable ==
  ASSUME TypeOK, NEW c \in program.classes, IsMade(c)
  PROVE  Makable(c)
<1>1. c \in Classes BY RefCountingAssumption DEF TypeOK, RefTypeOK
<1>2. c.policy \in {"Simple", "WeakRef", "FixedSwarm"} BY <1>1, ClassFacts DEF IsMade
<1> QED BY <1>1, <1>2 DEF Makable, IsMade, Members, SwarmMembers

(* The steps of CntPtr, WeakPtr and Make. *)
LEMMA RefStepKeeps ==
  ASSUME IInv, NEW th \in Threads, RefStep(th), UNCHANGED <<errorVars, holderVars>>
  PROVE  IInv'
<1>0. TypeOK BY DEF IInv
<1>1. ASSUME NEW from \in Own(th), NEW to \in Own(th),
             Assign(th, from, to) \/ MoveAssign(th, from, to) \/ QueryInterface(th, from, to)
      PROVE  IInv'
  BY <1>1, AssignStep, MoveAssignStep, QueryInterfaceStep
<1>2. ASSUME NEW from \in Own(th), NEW to \in Slots, MoveToThread(th, from, to) PROVE IInv'
  BY <1>2, MoveToThreadStep
<1>3. ASSUME NEW from \in Own(th), WeakFromStrong(th, from) \/ WeakFromFuture(th, from) PROVE IInv'
  BY <1>3, WeakFromStrongStep, WeakFromFutureStep
<1>4. ASSUME NEW other \in Threads, CopyWeakToThread(th, other) PROVE IInv' BY <1>4, CopyWeakToThreadStep
<1>5. CASE ResetWeak(th) BY <1>5, ResetWeakStep
<1>6. ASSUME NEW to \in Own(th), Clear(th, to) \/ GetStrongPtr(th, to) \/ PointToStatic(th, to) PROVE IInv'
  BY <1>6, ClearStep, GetStrongPtrStep, PointToStaticStep
<1>7. ASSUME NEW c \in program.classes, NEW to \in Own(th), NEW keep \in BOOLEAN, IsMade(c),
             Make(th, c, to, keep) \/ MakeInitializeThrows(th, c, to, keep) \/ MakeThrows(th, c, to, keep)
      PROVE  IInv'
  <2>1. Makable(c) /\ c # ErrorCodeState BY <1>0, <1>7, MadeMakable DEF IsMade
  <2>2. CASE Make(th, c, to, keep) BY <2>1, <2>2, MakeStep
  <2>3. CASE MakeInitializeThrows(th, c, to, keep) BY <2>1, <2>3, MakeInitializeThrowsStep
  <2>4. CASE MakeThrows(th, c, to, keep)
    <3>1. CASE keep = FALSE
      <4>1. MakeThrows(th, c, to, FALSE) BY <2>4, <3>1
      <4> QED BY <4>1, MakeThrowsStep
    <3>2. CASE keep = TRUE
      <4>1. MakeThrows(th, c, to, TRUE) BY <2>4, <3>2
      <4> QED BY <2>1, <4>1, MakeThrowsKeepStep
    <3> QED BY <3>1, <3>2
  <2> QED BY <1>7, <2>2, <2>3, <2>4
<1>8. CASE RunRelease(th) BY <1>8, RunAnyReleaseStep
<1>9. CASE RunReleaseWeakRef(th)
  <2>1. CASE m_weakRefCount[Arg(th)] # 1 BY <1>9, <2>1, ReleaseWeakRefStep
  <2>2. CASE m_weakRefCount[Arg(th)] = 1 BY <1>9, <2>2, RunReleaseLastWeakRefStep
  <2> QED BY <2>1, <2>2
<1>10. CASE RunAssignWeak(th) BY <1>10, RunAssignWeakStep
<1>11. CASE RunIncrement(th) BY <1>11, RunIncrementStep
<1> QED BY <1>1, <1>2, <1>3, <1>4, <1>5, <1>6, <1>7, <1>8, <1>9, <1>10, <1>11 DEF RefStep

(* The steps of Swarm, FixedSwarm and their members. *)
LEMMA SwarmStepKeeps ==
  ASSUME IInv, NEW th \in Threads, SwarmStep(th), UNCHANGED <<errorVars, holderVars>>
  PROVE  IInv'
<1>1. ASSUME NEW from \in Own(th), NEW to \in Own(th),
             MakeMember(th, from, to) \/ GetFixedMember(th, from, to) \/ LinkMember(th, from, to)
      PROVE  IInv'
  BY <1>1, MakeMemberStep, GetFixedMemberStep, LinkMemberStep
<1>2. ASSUME NEW from \in Own(th), MakeMemberInitializeThrows(th, from) \/ MakeMemberThrows(th, from) PROVE IInv'
  BY <1>2, MakeMemberInitializeThrowsStep, MakeMemberThrowsStep
<1>3. ASSUME NEW from \in Own(th), NEW throws \in BOOLEAN, MakeFixedMember(th, from, throws) PROVE IInv'
  BY <1>3, MakeFixedMemberStep
<1>4. CASE RunFreeMember(th) BY <1>4, RunFreeMemberStep
<1>5. CASE RunAddSwarmMember(th) BY <1>5, RunAddSwarmMemberStep
<1> QED BY <1>1, <1>2, <1>3, <1>4, <1>5 DEF SwarmStep

(* The steps of LazyInit. *)
LEMMA LazyStepKeeps ==
  ASSUME IInv, NEW th \in Threads, LazyStep(th), UNCHANGED <<errorVars, holderVars>>
  PROVE  IInv'
BY LazyGetStep, LazyReleaseStep, RunPublishStep DEF LazyStep

(* The steps of ErrorCode and Maybe, and those that destroy an object. *)
LEMMA ErrorStepKeeps ==
  ASSUME IInv, NEW th \in Threads, ErrorStep(th), UNCHANGED holderVars
  PROVE  IInv'
<1>1. CASE DeleteObject(th) BY <1>1, DeleteObjectStep
<1>2. CASE EndDeleteObject(th) BY <1>2, EndDeleteStep
<1>3. CASE MaybeFromValue(th) BY <1>3, MaybeFromValueStep
<1>4. ASSUME NEW s \in Own(th), MakeErrorCode(th, s) \/ Handle(th, s) \/ MaybeFromError(th, s) PROVE IInv'
  BY <1>4, MakeErrorCodeStep, HandleStep, MaybeFromErrorStep
<1>5. ASSUME NEW s \in Own(th), TakeError(th, s) \/ GetValueElseThrow(th, s) \/ ThrowOnError(th, s) PROVE IInv'
  BY <1>5, TakeErrorStep, GetValueElseThrowStep, ThrowOnErrorStep
<1>6. ASSUME NEW other \in Threads, CopyMaybe(th, other) \/ MoveMaybe(th, other) PROVE IInv'
  BY <1>6, CopyMaybeStep, MoveMaybeStep
<1> QED BY <1>1, <1>2, <1>3, <1>4, <1>5, <1>6 DEF ErrorStep

(* The steps of THolder and of raw pointers. *)
LEMMA HolderStepKeeps ==
  ASSUME IInv, NEW th \in Threads, HolderStep(th)
  PROVE  IInv'
<1>1. CASE RunClearHolder(th) \/ RunFree(th) \/ RunPlace(th)
  BY <1>1, RunClearHolderStep, RunFreeStep, RunPlaceStep
<1>2. CASE MakeOwned(th) \/ ResetHolder(th) \/ DetachHolder(th) \/ AttachHolder(th)
  BY <1>2, MakeOwnedStep, ResetHolderStep, DetachHolderStep, AttachHolderStep
<1>3. ASSUME NEW other \in Threads, TransferFrom(th, other) \/ SwapHolders(th, other) PROVE IInv'
  BY <1>3, TransferFromStep, SwapHoldersStep
<1>4. ASSUME NEW s \in Own(th), DetachPtr(th, s) \/ AttachPtr(th, s) PROVE IInv'
  BY <1>4, DetachPtrStep, AttachPtrStep
<1>5. ASSUME NEW left \in Own(th), NEW right \in Own(th), SwapPtrs(th, left, right) PROVE IInv'
  BY <1>5, SwapPtrsStep
<1> QED BY <1>1, <1>2, <1>3, <1>4, <1>5 DEF HolderStep
(* A step preserves the invariant. *)
LEMMA NextKeeps ==
  ASSUME IInv, Next
  PROVE  IInv'
<1>1. PICK th \in Threads :
        \/ (RefStep(th) \/ SwarmStep(th) \/ LazyStep(th)) /\ UNCHANGED <<errorVars, holderVars>>
        \/ ErrorStep(th) /\ UNCHANGED holderVars
        \/ HolderStep(th)
  BY DEF Next
<1>2. CASE RefStep(th) /\ UNCHANGED <<errorVars, holderVars>> BY <1>2, RefStepKeeps
<1>3. CASE SwarmStep(th) /\ UNCHANGED <<errorVars, holderVars>> BY <1>3, SwarmStepKeeps
<1>4. CASE LazyStep(th) /\ UNCHANGED <<errorVars, holderVars>> BY <1>4, LazyStepKeeps
<1>5. CASE ErrorStep(th) /\ UNCHANGED holderVars BY <1>5, ErrorStepKeeps
<1>6. CASE HolderStep(th) BY <1>6, HolderStepKeeps
<1> QED BY <1>1, <1>2, <1>3, <1>4, <1>5, <1>6

(* A step that changes nothing preserves it, too. *)
LEMMA StutterKeeps ==
  ASSUME IInv, UNCHANGED vars
  PROVE  IInv'
<1>0. /\ TypeOK /\ FramesTyped(todo) /\ Counts /\ RefsLive /\ WeaksLive /\ Heap
      /\ Onces /\ FramesOK /\ Cascades /\ Reports
  BY DEF IInv
<1>1. UNCHANGED <<program, cls, life, weakRef, m_refCount, m_weakRefCount, m_headMember,
                  storage, field, strong, weak, todo, handled, reported, maybe, holder, raw>>
  BY DEF vars, refVars, errorVars, holderVars
<1>2. SameHeap BY <1>1 DEF SameHeap, SameCalls, Occurs, Dying, Pos
<1>3. TypeOK' /\ FramesTyped(todo')
  BY <1>0, <1>1 DEF TypeOK, RefTypeOK, ErrorTypeOK, HolderTypeOK, Value, Error, FramesTyped
<1>4. Heap' BY <1>0, <1>1, <1>2, SameHeapKeeps
<1>5. \A h \in StrongTokens : Ref(h)' = Ref(h)
  BY <1>1 DEF Ref, Calling, Arg
<1>6. RefsLive'
  <2> SUFFICES ASSUME NEW h \in StrongTokens, Ref(h)' # NoObj PROVE Live(Ref(h))' BY DEF RefsLive, StrongTokens
  <2>1. PICK o : o = Ref(h)' OBVIOUS
  <2>2. Live(o) BY <1>0, <1>5, <2>1 DEF RefsLive
  <2>3. Live(o)' BY <1>2, <2>2, SameHeapLive
  <2> QED BY <2>1, <2>3
<1>7. WeaksLive'
  <2> SUFFICES ASSUME NEW u \in Threads PROVE WeakLive(weak[u])' BY DEF WeaksLive
  <2>1. PICK w : w = weak'[u] OBVIOUS
  <2>2. WeakLive(w) BY <1>0, <1>1, <2>1 DEF WeaksLive
  <2>3. WeakLive(w)' BY <1>2, <2>2, SameHeapLive
  <2> QED BY <2>1, <2>3
<1>8. Counts'
  <2>1. StrongAt' = StrongAt /\ WeakAt' = WeakAt /\ OwnerAt' = OwnerAt /\ OwnerCount' = OwnerCount
    <3>1. StrongAt' = StrongAt BY <1>1, <1>5 DEF StrongAt, StrongTokens, Counter
    <3>2. WeakAt' = WeakAt BY <1>1 DEF WeakAt
    <3>3. OwnerAt' = OwnerAt BY <1>1 DEF OwnerAt, Calling, Arg
    <3>4. OwnerCount' = OwnerCount BY <1>1 DEF OwnerCount
    <3> QED BY <3>1, <3>2, <3>3, <3>4
  <2>2. StrongExact' BY <1>0, <1>1, <2>1 DEF Counts, StrongExact, Exact, At
  <2>3. WeakExact' BY <1>0, <1>1, <2>1 DEF Counts, WeakExact, Exact, At
  <2>4. OwnerExact' BY <1>0, <2>1 DEF Counts, OwnerExact, Exact, At
  <2> QED BY <2>2, <2>3, <2>4 DEF Counts
<1>9. Onces' BY <1>0, <1>1 DEF Onces, AtMostOnceIn, MemberFrames, DyingFrames
<1>10. FramesOK'
  <2>1. \A u \in Threads : \A i \in DOMAIN todo[u] : FrameOK(u, i)' <=> FrameOK(u, i)
    <3> TAKE u \in Threads
    <3> TAKE i \in DOMAIN todo[u]
    <3> QED BY <1>1, <1>5 DEF FrameOK, DyingOK, Throwing, HoldsOnly, HoldsSwarm, Pos, Dying,
                              Occurs, OccursIn, DyingFrames
  <2> QED BY <1>0, <1>1, <2>1 DEF FramesOK
<1>11. Cascades' BY <1>0, <1>1 DEF Cascades, Cascade, Pos
<1>12. Reports' BY <1>0, <1>1 DEF Reports
<1> QED BY <1>3, <1>4, <1>6, <1>7, <1>8, <1>9, <1>10, <1>11, <1>12 DEF IInv

(* Nothing is counted and nobody refers to anything at first. *)
LEMMA InitCounts ==
  ASSUME Init
  PROVE  Counts /\ \A h \in StrongTokens : Ref(h) = NoObj
<1>1. /\ \A o \in Objects : /\ m_refCount[o] = 0 /\ m_weakRefCount[o] = 0 /\ weakRef[o] = NoObj
                            /\ field[o] = NullField
      /\ \A s \in Slots : strong[s] = NoObj
      /\ \A u \in Threads : /\ weak[u] = EmptyWeakPtr /\ todo[u] = <<>> /\ maybe[u] = Value
                            /\ holder[u] = NoObj /\ raw[u] = NoObj
  BY DEF Init, RefInit, ErrorInit, HolderInit
<1>2. \A h \in StrongTokens : Ref(h) = NoObj
  BY <1>1, TokenKinds, RefIs DEF NullField, Value
<1>3. ASSUME NEW f, NEW n, \A h \in DOMAIN f : f[h] \notin Objects, \A b \in Objects : n[b] = 0
      PROVE  Exact(f, n)
  <2> SUFFICES ASSUME NEW b \in Objects PROVE IsFiniteSet(At(f, b)) /\ n[b] = Cardinality(At(f, b)) BY DEF Exact
  <2>1. At(f, b) = {} BY <1>3 DEF At
  <2> QED BY <1>3, <2>1, FS_EmptySet
<1>4. StrongExact
  <2>1. \A h \in DOMAIN StrongAt : StrongAt[h] \notin Objects BY <1>2, RefCountingAssumption DEF StrongAt
  <2> QED BY <1>1, <1>3, <2>1 DEF StrongExact
<1>5. WeakExact
  <2>1. \A h \in DOMAIN WeakAt : WeakAt[h] \notin Objects
    <3> SUFFICES ASSUME NEW h \in WeakTokens PROVE WeakAt[h] \notin Objects BY WeakIs
    <3>1. \A o \in Objects : WeakAt[<<"object", o>>] = NoObj BY <1>1, WeakIs
    <3>2. \A u \in Threads : WeakAt[<<"weak", u>>] = NoObj
      <4> TAKE u \in Threads
      <4>1. WeakAt[<<"weak", u>>] = weak[u].m_weakRef BY WeakIs
      <4>2. weak[u].m_weakRef = NoObj BY <1>1 DEF EmptyWeakPtr
      <4> QED BY <4>1, <4>2
    <3>3. \A u \in Threads : Range(todo[u]) = {} BY <1>1 DEF Range
    <3>4. \A u \in Threads, b \in Objects : WeakAt[<<"call", u, b>>] = NoObj BY <3>3, WeakIs
    <3> QED BY <3>1, <3>2, <3>4, WeakIs, RefCountingAssumption
  <2> QED BY <1>1, <1>3, <2>1 DEF WeakExact
<1>6. OwnerExact
  <2>1. \A h \in DOMAIN OwnerAt : OwnerAt[h] \notin Objects
    <3> SUFFICES ASSUME NEW h \in OwnerTokens PROVE OwnerAt[h] = NoObj BY OwnerIs, RefCountingAssumption
    <3>1. \A u \in Threads : PlaceOf(todo[u]) = NoObj BY <1>1 DEF PlaceOf
    <3>2. CASE \E u \in Threads : h = <<"holder", u>>
      <4>1. PICK u \in Threads : h = <<"holder", u>> BY <3>2
      <4>2. OwnerAt[<<"holder", u>>] = holder[u] BY OwnerIs
      <4> QED BY <1>1, <4>1, <4>2
    <3>3. CASE \E u \in Threads : h = <<"raw", u>>
      <4>1. PICK u \in Threads : h = <<"raw", u>> BY <3>3
      <4>2. raw[u] = NoObj => OwnerAt[<<"raw", u>>] = NoObj BY OwnerIs
      <4> QED BY <1>1, <4>1, <4>2
    <3>4. CASE \E u \in Threads : h = <<"place", u>>
      <4>1. PICK u \in Threads : h = <<"place", u>> BY <3>4
      <4>2. OwnerAt[<<"place", u>>] = PlaceOf(todo[u]) BY OwnerIs
      <4> QED BY <3>1, <4>1, <4>2
    <3>5. CASE \E u \in Threads : h = <<"free", u>>
      <4>1. PICK u \in Threads : h = <<"free", u>> BY <3>5
      <4>2. ~Calling(u, "Free") BY <1>1 DEF Calling
      <4>3. ~Calling(u, "Free") => OwnerAt[<<"free", u>>] = NoObj BY OwnerIs DEF Calling
      <4> QED BY <4>1, <4>2, <4>3
    <3> QED BY <3>2, <3>3, <3>4, <3>5 DEF OwnerTokens
  <2>2. \A b \in Objects : OwnerCount[b] = 0
    <3> SUFFICES ASSUME NEW b \in Objects PROVE ~(cls[b] = OwnedObject /\ life[b] = "alive") BY DEF OwnerCount
    <3>1. life[b] = "alive" => cls[b] \in StaticClasses
      BY DEF Init, RefInit, IsStatic
    <3>2. OwnedObject \notin StaticClasses BY DEF StaticClasses, OwnedObject, Class
    <3> QED BY <3>1, <3>2
  <2> QED BY <1>3, <2>1, <2>2 DEF OwnerExact
<1> QED BY <1>2, <1>4, <1>5, <1>6 DEF Counts

(* The invariant holds at first. *)
LEMMA InitIInv ==
  ASSUME Init
  PROVE  IInv
<1>1. /\ \A o \in Objects : /\ m_refCount[o] = 0 /\ m_weakRefCount[o] = 0 /\ weakRef[o] = NoObj
                            /\ field[o] = NullField /\ m_headMember[o] = <<>> /\ storage[o] = {}
                            /\ IF IsStatic(o) THEN life[o] = "alive" /\ cls[o] \in StaticClasses
                               ELSE life[o] = "raw" /\ cls[o] = NoClass
      /\ \A s \in Slots : strong[s] = NoObj
      /\ \A u \in Threads : /\ weak[u] = EmptyWeakPtr /\ todo[u] = <<>> /\ maybe[u] = Value
                            /\ holder[u] = NoObj /\ raw[u] = NoObj
      /\ todo = [u \in Threads |-> <<>>] /\ handled = {} /\ reported = {}
  BY DEF Init, RefInit, ErrorInit, HolderInit, IsStatic
<1>2. Counts /\ \A h \in StrongTokens : Ref(h) = NoObj BY InitCounts
<1>3. TypeOK
  <2>1. RefTypeOK
    <3>1. cls \in [Objects -> program.classes \cup {NoClass, RefCountedObject}]
      BY DEF Init, RefInit, IsStatic, StaticClasses
    <3>2. EmptyWeakPtr \in [m_ptr : Pointers, m_weakRef : Pointers] /\ NullField \in [m_ptr : Pointers, counts : BOOLEAN]
      BY DEF EmptyWeakPtr, NullField, Pointers
    <3> QED BY <3>1, <3>2 DEF Init, RefInit, RefTypeOK, Pointers
  <2>2. ErrorTypeOK BY DEF Init, ErrorInit, ErrorTypeOK
  <2>3. HolderTypeOK BY DEF Init, HolderInit, HolderTypeOK, Pointers
  <2> QED BY <2>1, <2>2, <2>3 DEF TypeOK
<1>4. FramesTyped(todo) BY <1>1 DEF FramesTyped
<1>5. RefsLive BY <1>2 DEF RefsLive
<1>6. WeaksLive BY <1>1 DEF WeaksLive, WeakLive
<1>7. \A C : ~OccursIn(todo, C) BY <1>1 DEF OccursIn
<1>8. Heap
  <2> SUFFICES ASSUME NEW o \in Objects PROVE ClassOK(o) /\ FieldOK(o) /\ WeakRefOK(o) /\ ListsOK(o) /\ CountsOK(o)
    BY DEF Heap
  <2>1. IsStatic(o) => cls[o] \in Classes /\ cls[o].policy = "NoRefCount" /\ cls[o] # NoClass
    BY <1>1, <1>3, ClassFacts, RefCountingAssumption DEF StaticClasses, TypeOK, RefTypeOK
  <2>2. ~IsStatic(o) => cls[o] = NoClass /\ life[o] = "raw" /\ NoClass.policy = "Free"
    BY <1>1 DEF NoClass, Class
  <2>3. ClassOK(o) BY <1>1, <2>1, <2>2 DEF ClassOK
  <2>4. FieldOK(o)
    <3>1. field[o] = NullField /\ NullField.counts = FALSE BY <1>1 DEF NullField
    <3> QED BY <3>1 DEF FieldOK
  <2>5. WeakRefOK(o) BY <1>1, <2>1, <2>2 DEF WeakRefOK, HasWeakRef
  <2>6. ListsOK(o) BY <1>1 DEF ListsOK, Range
  <2>7. CountsOK(o)
    <3>1. cls[o] \notin Members BY <2>1, <2>2, ClassFacts
    <3> QED BY <1>1, <2>1, <2>2, <3>1 DEF CountsOK, HasWeakRef, Pos
  <2> QED BY <2>3, <2>4, <2>5, <2>6, <2>7
<1>9. Onces /\ FramesOK /\ Cascades BY <1>1 DEF Onces, AtMostOnceIn, FramesOK, Cascades
<1>10. Reports
  <2>1. \A e \in Objects : life[e] # "dead" BY <1>1
  <2> QED BY <1>1, <2>1 DEF Reports
<1> QED BY <1>2, <1>3, <1>4, <1>5, <1>6, <1>8, <1>9, <1>10 DEF IInv
-----------------------------------------------------------------------------
(* The invariant holds in every state a behaviour reaches: it holds at     *)
(* first and each of the steps of every thread keeps it.                   *)
THEOREM Inductive == Spec => []IInv
<1>1. Init => IInv BY InitIInv
<1>2. IInv /\ [Next]_vars => IInv' BY NextKeeps, StutterKeeps
<1> QED BY <1>1, <1>2, PTL DEF Spec

(* The variables always have their types: no address outside the heap, no  *)
(* count below zero.                                                       *)
THEOREM TypeCorrect == Spec => []TypeOK
<1>1. IInv => TypeOK BY DEF IInv
<1> QED BY <1>1, Inductive, PTL

(* OnUnhandledError is called for exactly the errors that nobody handled,  *)
(* and not before they are destroyed.                                      *)
THEOREM UnhandledReported == Spec => []ReportedUnhandled
<1>1. IInv => ReportedUnhandled
  <2> SUFFICES ASSUME IInv PROVE ReportedUnhandled OBVIOUS
  <2>1. Reports /\ reported \subseteq Objects BY DEF IInv, TypeOK, ErrorTypeOK
  <2> QED BY <2>1 DEF Reports, ReportedUnhandled
<1> QED BY <1>1, Inductive, PTL
-----------------------------------------------------------------------------
(* The parts of the invariant. *)
LEMMA IInvParts ==
  ASSUME IInv
  PROVE  /\ TypeOK /\ FramesTyped(todo)
         /\ StrongExact /\ WeakExact /\ OwnerExact
         /\ RefsLive /\ WeaksLive /\ Heap
         /\ Onces /\ FramesOK /\ Cascades /\ Reports
         /\ \A o \in Objects : ClassOK(o) /\ FieldOK(o) /\ WeakRefOK(o) /\ ListsOK(o) /\ CountsOK(o)
BY DEF IInv, Counts, Heap

(* What a reference of any place refers to is alive. *)
LEMMA ReferredAlive ==
  ASSUME IInv, NEW h \in StrongTokens, NEW o, Ref(h) = o, o # NoObj
  PROVE  o \in Objects /\ life[o] = "alive" /\ cls[o] # OwnedObject /\ ~Dying(o)
BY IInvParts DEF RefsLive, Live

(* What a place owns without counting is alive. *)
LEMMA OwnedAlive ==
  ASSUME IInv, NEW h \in OwnerTokens, NEW o \in Objects, OwnerAt[h] = o
  PROVE  /\ life[o] = "alive" /\ cls[o] = OwnedObject
         /\ \A k \in OwnerTokens : OwnerAt[k] = o => k = h
<1>1. life[o] = "alive" /\ cls[o] = OwnedObject BY OwnerFact
<1>2. PICK f, n : f = OwnerAt /\ n = OwnerCount OBVIOUS
<1>3. Exact(f, n) /\ DOMAIN f = OwnerTokens BY <1>2, OwnerIs, IInvParts DEF OwnerExact
<1>4. n[o] = 1 BY <1>1, <1>2 DEF OwnerCount
<1>5. \A k, l \in DOMAIN f : f[k] = o /\ f[l] = o => k = l BY <1>3, <1>4, ExactZero
<1> QED BY <1>1, <1>2, <1>3, <1>5

(* No pointer dangles. *)
LEMMA NoneDangles ==
  ASSUME IInv
  PROVE  NoDanglingPointer
<1>1. ASSUME NEW s \in Slots, strong[s] # NoObj PROVE life[strong[s]] = "alive"
  <2>1. <<"slot", s>> \in StrongTokens BY TokenKinds
  <2>2. Ref(<<"slot", s>>) = strong[s] BY RefIs
  <2> QED BY <1>1, <2>1, <2>2, ReferredAlive
<1>2. ASSUME NEW o \in Objects, field[o].counts PROVE life[field[o].m_ptr] = "alive"
  <2>1. <<"field", o>> \in StrongTokens BY TokenKinds
  <2>2. Ref(<<"field", o>>) = field[o].m_ptr BY <1>2, RefIs
  <2>3. field[o].m_ptr # NoObj BY <1>2, IInvParts DEF FieldOK
  <2> QED BY <2>1, <2>2, <2>3, ReferredAlive
<1>3. ASSUME NEW th \in Threads, maybe[th].m_error # NoObj PROVE life[maybe[th].m_error] = "alive"
  <2>1. <<"maybe", th>> \in StrongTokens BY TokenKinds
  <2>2. Ref(<<"maybe", th>>) = maybe[th].m_error BY RefIs
  <2> QED BY <1>3, <2>1, <2>2, ReferredAlive
<1>4. ASSUME NEW th \in Threads, weak[th].m_weakRef # NoObj PROVE cls[weak[th].m_weakRef] # NoClass
  <2>1. PICK w : w = weak[th] OBVIOUS
  <2>2. WeakLive(w) BY <2>1, IInvParts DEF WeaksLive
  <2>3. w # EmptyWeakPtr BY <1>4, <2>1 DEF EmptyWeakPtr
  <2> QED BY <2>1, <2>2, <2>3 DEF WeakLive
<1>5. ASSUME NEW th \in Threads, holder[th] # NoObj PROVE life[holder[th]] = "alive"
  <2>1. <<"holder", th>> \in OwnerTokens BY OwnerIs
  <2>2. OwnerAt[<<"holder", th>>] = holder[th] BY OwnerIs
  <2>3. holder[th] \in Objects BY <1>5, IInvParts DEF TypeOK, HolderTypeOK, Pointers
  <2> QED BY <2>1, <2>2, <2>3, OwnedAlive
<1>6. ASSUME NEW th \in Threads, raw[th] # NoObj PROVE life[raw[th]] = "alive"
  <2>1. CASE cls[raw[th]] = OwnedObject
    <3>1. <<"raw", th>> \in OwnerTokens BY OwnerIs
    <3>2. OwnerAt[<<"raw", th>>] = raw[th] BY <1>6, <2>1, OwnerIs
    <3>3. raw[th] \in Objects BY <1>6, IInvParts DEF TypeOK, HolderTypeOK, Pointers
    <3> QED BY <3>1, <3>2, <3>3, OwnedAlive
  <2>2. CASE cls[raw[th]] # OwnedObject
    <3>1. <<"raw", th>> \in StrongTokens BY TokenKinds
    <3>2. Ref(<<"raw", th>>) = raw[th] BY <1>6, <2>2, RefIs
    <3> QED BY <1>6, <3>1, <3>2, ReferredAlive
  <2> QED BY <2>1, <2>2
<1> QED BY <1>1, <1>2, <1>3, <1>4, <1>5, <1>6 DEF NoDanglingPointer

(* What a CntPtr, a field, a Maybe or a THolder refers to has not been     *)
(* destroyed, and what a WeakPtr refers to has not been freed.             *)
THEOREM NothingDangles == Spec => []NoDanglingPointer
<1>1. IInv => NoDanglingPointer BY NoneDangles
<1> QED BY <1>1, Inductive, PTL
-----------------------------------------------------------------------------
(* A pending call is on a stack, where it is in order. *)
LEMMA PendingCall ==
  ASSUME IInv, NEW c, NEW p \in Pending(c)
  PROVE  \E th \in Threads : \E i \in DOMAIN todo[th] :
           /\ p = <<th, i>> /\ CallAt(p) = todo[th][i] /\ todo[th] # <<>> /\ 1 \in DOMAIN todo[th]
           /\ todo[th][i] \in Frames /\ todo[th][i].call = c /\ FrameOK(th, i)
<1>1. PICK th \in Threads : p \in {th} \X DOMAIN todo[th] BY DEF Pending
<1>2. PICK i \in DOMAIN todo[th] : p = <<th, i>> BY <1>1
<1>3. todo[th][i].call = c BY <1>2 DEF Pending
<1>4. todo[th] \in Seq(Frames) BY IInvParts DEF FramesTyped
<1>5. todo[th][i] \in Frames /\ todo[th] # <<>> /\ 1 \in DOMAIN todo[th] BY <1>4
<1>6. FrameOK(th, i) BY IInvParts DEF FramesOK
<1> QED BY <1>2, <1>3, <1>5, <1>6 DEF CallAt

(* A frame of a stack is a pending call. *)
LEMMA CallPends ==
  ASSUME NEW th \in Threads, NEW i \in DOMAIN todo[th]
  PROVE  /\ <<th, i>> \in Pending(todo[th][i].call)
         /\ CallAt(<<th, i>>) = todo[th][i]
BY DEF Pending, CallAt

(* The holder of StrongHolders that a place is. *)
HolderOf(t) == IF t[1] \in {"release", "publish"} THEN <<t[1], <<t[2], 1>>>> ELSE t

(* A place that refers to o is a holder of it. *)
LEMMA HolderOfRef ==
  ASSUME IInv, NEW t \in StrongTokens, NEW o \in Objects, Ref(t) = o
  PROVE  HolderOf(t) \in StrongHolders(o)
<1>0. o # NoObj BY RefCountingAssumption
<1>1. CASE \E s \in Slots : t = <<"slot", s>>
  <2>1. PICK s \in Slots : t = <<"slot", s>> BY <1>1
  <2>2. strong[s] = o BY <2>1, RefIs
  <2>3. HolderOf(t) = <<"slot", s>> BY <2>1 DEF HolderOf
  <2> QED BY <2>2, <2>3 DEF StrongHolders
<1>2. CASE \E f \in Objects : t = <<"field", f>>
  <2>1. PICK f \in Objects : t = <<"field", f>> BY <1>2
  <2>2. field[f].counts /\ field[f].m_ptr = o BY <1>0, <2>1, RefIs
  <2>3. field[f] \in [m_ptr : Pointers, counts : BOOLEAN] BY IInvParts DEF TypeOK, RefTypeOK
  <2>4. field[f] = CntPtrTo(o) BY <1>0, <2>2, <2>3 DEF CntPtrTo
  <2>5. HolderOf(t) = <<"field", f>> BY <2>1 DEF HolderOf
  <2> QED BY <2>4, <2>5 DEF StrongHolders
<1>3. CASE \E u \in Threads : t = <<"maybe", u>>
  <2>1. PICK u \in Threads : t = <<"maybe", u>> BY <1>3
  <2>2. maybe[u].m_error = o BY <2>1, RefIs
  <2>3. HolderOf(t) = <<"maybe", u>> BY <2>1 DEF HolderOf
  <2> QED BY <2>2, <2>3 DEF StrongHolders
<1>4. CASE \E u \in Threads : t = <<"raw", u>>
  <2>1. PICK u \in Threads : t = <<"raw", u>> BY <1>4
  <2>2. raw[u] = o BY <1>0, <2>1, RefIs
  <2>3. HolderOf(t) = <<"raw", u>> BY <2>1 DEF HolderOf
  <2> QED BY <2>2, <2>3 DEF StrongHolders
<1>5. CASE \E u \in Threads : t = <<"release", u>>
  <2>1. PICK u \in Threads : t = <<"release", u>> BY <1>5
  <2>2. todo[u] # <<>> /\ Head(todo[u]).call = "Release" /\ Head(todo[u]).arg = o BY <1>0, <2>1, RefIs
  <2>3. todo[u] \in Seq(Frames) BY IInvParts DEF FramesTyped
  <2>4. 1 \in DOMAIN todo[u] /\ todo[u][1].call = "Release" /\ todo[u][1].arg = o BY <2>2, <2>3
  <2>5. <<u, 1>> \in Pending("Release") /\ CallAt(<<u, 1>>).arg = o BY <2>4, CallPends
  <2>6. HolderOf(t) = <<"release", <<u, 1>>>> BY <2>1 DEF HolderOf
  <2> QED BY <2>5, <2>6 DEF StrongHolders
<1>6. CASE \E u \in Threads : t = <<"publish", u>>
  <2>1. PICK u \in Threads : t = <<"publish", u>> BY <1>6
  <2>2. todo[u] # <<>> /\ Head(todo[u]).call = "Publish" /\ Head(todo[u]).new = o BY <1>0, <2>1, RefIs
  <2>3. todo[u] \in Seq(Frames) BY IInvParts DEF FramesTyped
  <2>4. 1 \in DOMAIN todo[u] /\ todo[u][1].call = "Publish" /\ todo[u][1].new = o BY <2>2, <2>3
  <2>5. <<u, 1>> \in Pending("Publish") /\ CallAt(<<u, 1>>).new = o BY <2>4, CallPends
  <2>6. HolderOf(t) = <<"publish", <<u, 1>>>> BY <2>1 DEF HolderOf
  <2> QED BY <2>5, <2>6 DEF StrongHolders
<1> QED BY <1>1, <1>2, <1>3, <1>4, <1>5, <1>6, TokenKinds

(* Every holder of what is not owned is a place that refers to it. *)
LEMMA RefOfHolder ==
  ASSUME IInv, NEW o \in Objects, cls[o] # OwnedObject, NEW x \in StrongHolders(o)
  PROVE  \E t \in StrongTokens : Ref(t) = o /\ HolderOf(t) = x
<1>0. o # NoObj BY RefCountingAssumption
<1>1. CASE \E s \in Slots : x = <<"slot", s>> /\ strong[s] = o
  <2>1. PICK s \in Slots : x = <<"slot", s>> /\ strong[s] = o BY <1>1
  <2>2. Ref(<<"slot", s>>) = o BY <2>1, RefIs
  <2>3. HolderOf(<<"slot", s>>) = x BY <2>1 DEF HolderOf
  <2> QED BY <2>2, <2>3, TokenKinds
<1>2. CASE \E f \in Objects : x = <<"field", f>> /\ field[f] = CntPtrTo(o)
  <2>1. PICK f \in Objects : x = <<"field", f>> /\ field[f] = CntPtrTo(o) BY <1>2
  <2>2. field[f].counts = TRUE /\ field[f].m_ptr = o
    <3>1. CntPtrTo(o) = [m_ptr |-> o, counts |-> o # NoObj] BY DEF CntPtrTo
    <3>2. (o # NoObj) = TRUE BY <1>0
    <3>3. CntPtrTo(o) = [m_ptr |-> o, counts |-> TRUE] BY <3>1, <3>2
    <3> QED BY <2>1, <3>3
  <2>3. Ref(<<"field", f>>) = o BY <2>2, RefIs
  <2>4. HolderOf(<<"field", f>>) = x BY <2>1 DEF HolderOf
  <2> QED BY <2>3, <2>4, TokenKinds
<1>3. CASE \E u \in Threads : x = <<"maybe", u>> /\ maybe[u].m_error = o
  <2>1. PICK u \in Threads : x = <<"maybe", u>> /\ maybe[u].m_error = o BY <1>3
  <2>2. Ref(<<"maybe", u>>) = o BY <2>1, RefIs
  <2>3. HolderOf(<<"maybe", u>>) = x BY <2>1 DEF HolderOf
  <2> QED BY <2>2, <2>3, TokenKinds
<1>4. CASE \E u \in Threads : x = <<"raw", u>> /\ raw[u] = o
  <2>1. PICK u \in Threads : x = <<"raw", u>> /\ raw[u] = o BY <1>4
  <2>2. Ref(<<"raw", u>>) = o BY <1>0, <2>1, RefIs
  <2>3. HolderOf(<<"raw", u>>) = x BY <2>1 DEF HolderOf
  <2> QED BY <2>2, <2>3, TokenKinds
<1>5. CASE \E p \in Pending("Release") : x = <<"release", p>> /\ CallAt(p).arg = o
  <2>1. PICK p \in Pending("Release") : x = <<"release", p>> /\ CallAt(p).arg = o BY <1>5
  <2>2. PICK u \in Threads : \E i \in DOMAIN todo[u] :
          /\ p = <<u, i>> /\ CallAt(p) = todo[u][i] /\ todo[u] # <<>> /\ 1 \in DOMAIN todo[u]
          /\ todo[u][i] \in Frames /\ todo[u][i].call = "Release" /\ FrameOK(u, i)
    BY PendingCall
  <2>3. p = <<u, 1>> /\ CallAt(p) = todo[u][1] /\ todo[u] # <<>> /\ todo[u][1].call = "Release"
    BY <2>2 DEF FrameOK
  <2>4. todo[u] \in Seq(Frames) BY IInvParts DEF FramesTyped
  <2>5. Head(todo[u]) = todo[u][1] BY <2>3, <2>4
  <2>6. Ref(<<"release", u>>) = o BY <2>1, <2>3, <2>5, RefIs
  <2>7. HolderOf(<<"release", u>>) = x BY <2>1, <2>3 DEF HolderOf
  <2> QED BY <2>6, <2>7, TokenKinds
<1>6. CASE \E p \in Pending("Publish") : x = <<"publish", p>> /\ CallAt(p).new = o
  <2>1. PICK p \in Pending("Publish") : x = <<"publish", p>> /\ CallAt(p).new = o BY <1>6
  <2>2. PICK u \in Threads : \E i \in DOMAIN todo[u] :
          /\ p = <<u, i>> /\ CallAt(p) = todo[u][i] /\ todo[u] # <<>> /\ 1 \in DOMAIN todo[u]
          /\ todo[u][i] \in Frames /\ todo[u][i].call = "Publish" /\ FrameOK(u, i)
    BY PendingCall
  <2>3. p = <<u, 1>> /\ CallAt(p) = todo[u][1] /\ todo[u] # <<>> /\ todo[u][1].call = "Publish"
    BY <2>2 DEF FrameOK
  <2>4. todo[u] \in Seq(Frames) BY IInvParts DEF FramesTyped
  <2>5. Head(todo[u]) = todo[u][1] BY <2>3, <2>4
  <2>6. Ref(<<"publish", u>>) = o BY <2>1, <2>3, <2>5, RefIs
  <2>7. HolderOf(<<"publish", u>>) = x BY <2>1, <2>3 DEF HolderOf
  <2> QED BY <2>6, <2>7, TokenKinds
<1> QED BY <1>1, <1>2, <1>3, <1>4, <1>5, <1>6 DEF StrongHolders

(* The holders of what b counts, as places. *)
LEMMA CountedHolders ==
  ASSUME IInv, NEW b \in Objects
  PROVE  /\ \A t \in At(StrongAt, b) : /\ t \in StrongTokens /\ Ref(t) \in CountedBy(b)
                                       /\ HolderOf(t) \in StrongHolders(Ref(t))
         /\ \A o \in CountedBy(b) : \A x \in StrongHolders(o) :
              \E t \in At(StrongAt, b) : HolderOf(t) = x
<1>0. b # NoObj BY RefCountingAssumption
<1>1. ASSUME NEW t \in At(StrongAt, b)
      PROVE  t \in StrongTokens /\ Ref(t) \in CountedBy(b) /\ HolderOf(t) \in StrongHolders(Ref(t))
  <2>1. PICK o : o = Ref(t) OBVIOUS
  <2>2. t \in StrongTokens /\ o # NoObj /\ Counter(o) = b BY <1>0, <2>1 DEF At, StrongAt
  <2>3. o \in Objects /\ Live(o) BY <2>1, <2>2, IInvParts DEF RefsLive, Live
  <2>4. IsCounted(o) BY <1>0, <2>2, <2>3, LiveCounter
  <2>5. cls[o] # NoClass BY <2>3, IInvParts DEF Live, ClassOK
  <2>6. HolderOf(t) \in StrongHolders(o) BY <2>1, <2>2, <2>3, HolderOfRef
  <2> QED BY <2>1, <2>2, <2>3, <2>4, <2>5, <2>6 DEF CountedBy
<1>2. ASSUME NEW o \in CountedBy(b), NEW x \in StrongHolders(o)
      PROVE  \E t \in At(StrongAt, b) : HolderOf(t) = x
  <2>1. o \in Objects /\ IsCounted(o) /\ Counter(o) = b BY DEF CountedBy
  <2>2. cls[o] # OwnedObject BY <2>1, ClassFacts DEF IsCounted
  <2>3. PICK t \in StrongTokens : Ref(t) = o /\ HolderOf(t) = x BY <2>1, <2>2, RefOfHolder
  <2>4. o # NoObj BY <2>1, RefCountingAssumption
  <2>5. StrongAt[t] = b BY <2>1, <2>3, <2>4 DEF StrongAt
  <2>6. t \in DOMAIN StrongAt BY DEF StrongAt
  <2> QED BY <2>3, <2>5, <2>6 DEF At
<1> QED BY <1>1, <1>2

(* Different places are different holders. *)
LEMMA HolderOfApart ==
  ASSUME NEW t \in StrongTokens, NEW q \in StrongTokens, HolderOf(t) = HolderOf(q)
  PROVE  t = q
<1>1. HolderOf(t)[1] = t[1] /\ HolderOf(q)[1] = q[1] BY DEF HolderOf
<1>2. t[1] = q[1] BY <1>1
<1>3. CASE t[1] \in {"release", "publish"}
  <2>1. t = <<t[1], t[2]>> /\ q = <<q[1], q[2]>> BY TokenKinds
  <2>2. <<t[1], <<t[2], 1>>>> = <<q[1], <<q[2], 1>>>> BY <1>2, <1>3 DEF HolderOf
  <2> QED BY <1>2, <2>1, <2>2
<1>4. CASE t[1] \notin {"release", "publish"} BY <1>2, <1>4 DEF HolderOf
<1> QED BY <1>3, <1>4

(* The counters count exactly what holds a reference. *)
LEMMA CountsExactly ==
  ASSUME IInv
  PROVE  StrongCountExact
<1> SUFFICES ASSUME NEW b \in Objects, cls[b] # NoClass, cls[b].policy = "Simple" \/ weakRef[b] = b
             PROVE  m_refCount[b] = Cardinality(UNION {StrongHolders(o) : o \in CountedBy(b)})
  BY DEF StrongCountExact
<1> DEFINE S == At(StrongAt, b)
           H == UNION {StrongHolders(o) : o \in CountedBy(b)}
           f == [t \in S |-> HolderOf(t)]
<1>1. IsFiniteSet(S) /\ m_refCount[b] = Cardinality(S) BY IInvParts DEF StrongExact, Exact
<1>2. \A t \in S : HolderOf(t) \in H BY CountedHolders
<1>3. \A x \in H : \E t \in S : HolderOf(t) = x BY CountedHolders
<1>4. \A t, q \in S : HolderOf(t) = HolderOf(q) => t = q
  <2>1. S \subseteq StrongTokens BY CountedHolders
  <2> QED BY <2>1, HolderOfApart
<1> HIDE DEF S, H
<1>5. f \in Bijection(S, H)
  <2>1. f \in [S -> H] BY <1>2
  <2>2. \A t, q \in S : f[t] = f[q] => t = q BY <1>4
  <2>3. \A x \in H : \E t \in S : f[t] = x BY <1>3
  <2> QED BY <2>1, <2>2, <2>3 DEF Bijection, Injection, IsInjective, Surjection
<1>6. Cardinality(S) = Cardinality(H) BY <1>1, <1>5, FS_Bijection DEF ExistsBijection
<1> QED BY <1>1, <1>6 DEF H

(* m_refCount is the number of strong holders of the objects it counts, at *)
(* every step of every interleaving.                                       *)
THEOREM StrongCountsExact == Spec => []StrongCountExact
<1>1. IInv => StrongCountExact BY CountsExactly
<1> QED BY <1>1, Inductive, PTL
-----------------------------------------------------------------------------
(* What somebody owns has an owner among the places. *)
LEMMA OwnerPlace ==
  ASSUME IInv, NEW o \in Objects, cls[o] = OwnedObject, NEW x \in Owners(o)
  PROVE  \E t \in OwnerTokens : OwnerAt[t] = o /\ t[1] # "free"
<1>0. o # NoObj BY RefCountingAssumption
<1>1. CASE \E u \in Threads : holder[u] = o
  <2>1. PICK u \in Threads : holder[u] = o BY <1>1
  <2>2. OwnerAt[<<"holder", u>>] = holder[u] /\ <<"holder", u>> \in OwnerTokens BY OwnerIs
  <2>3. <<"holder", u>>[1] # "free" OBVIOUS
  <2> QED BY <2>1, <2>2, <2>3
<1>2. CASE \E u \in Threads : raw[u] = o
  <2>1. PICK u \in Threads : raw[u] = o BY <1>2
  <2>2. <<"raw", u>> \in OwnerTokens BY OwnerIs
  <2>3. OwnerAt[<<"raw", u>>] = o BY <1>0, <2>1, OwnerIs
  <2>4. <<"raw", u>>[1] # "free" OBVIOUS
  <2> QED BY <2>2, <2>3, <2>4
<1>3. CASE \E p \in Pending("Place") : CallAt(p).arg = o
  <2>1. PICK p \in Pending("Place") : CallAt(p).arg = o BY <1>3
  <2>2. PICK u \in Threads : \E i \in DOMAIN todo[u] :
          /\ p = <<u, i>> /\ CallAt(p) = todo[u][i] /\ todo[u] # <<>> /\ 1 \in DOMAIN todo[u]
          /\ todo[u][i] \in Frames /\ todo[u][i].call = "Place" /\ FrameOK(u, i)
    BY PendingCall
  <2>3. /\ todo[u] # <<>> /\ todo[u][Len(todo[u])].call = "Place" /\ todo[u][Len(todo[u])].arg = o
    BY <2>1, <2>2 DEF FrameOK
  <2>4. PlaceOf(todo[u]) = o BY <2>3 DEF PlaceOf, Last1
  <2>5. OwnerAt[<<"place", u>>] = o /\ <<"place", u>> \in OwnerTokens BY <2>4, OwnerIs
  <2>6. <<"place", u>>[1] # "free" OBVIOUS
  <2> QED BY <2>5, <2>6
<1> QED BY <1>1, <1>2, <1>3 DEF Owners

(* What is counted has no owner: a raw pointer to it is a strong holder. *)
LEMMA CountedOwners ==
  ASSUME IInv, NEW o \in Objects, cls[o] # OwnedObject, NEW x \in Owners(o)
  PROVE  x \in StrongHolders(o)
<1>1. CASE \E u \in Threads : holder[u] = o
  <2>1. PICK u \in Threads : holder[u] = o BY <1>1
  <2>2. OwnerAt[<<"holder", u>>] = o /\ <<"holder", u>> \in OwnerTokens BY <2>1, OwnerIs
  <2> QED BY <2>2, OwnedAlive
<1>2. CASE \E u \in Threads : x = <<"raw", u>> /\ raw[u] = o BY <1>2 DEF StrongHolders
<1>3. CASE \E p \in Pending("Place") : CallAt(p).arg = o
  <2>1. PICK p \in Pending("Place") : CallAt(p).arg = o BY <1>3
  <2>2. PICK u \in Threads : \E i \in DOMAIN todo[u] :
          /\ p = <<u, i>> /\ CallAt(p) = todo[u][i] /\ todo[u] # <<>> /\ 1 \in DOMAIN todo[u]
          /\ todo[u][i] \in Frames /\ todo[u][i].call = "Place" /\ FrameOK(u, i)
    BY PendingCall
  <2>3. /\ todo[u] # <<>> /\ todo[u][Len(todo[u])].call = "Place" /\ todo[u][Len(todo[u])].arg = o
    BY <2>1, <2>2 DEF FrameOK
  <2>4. PlaceOf(todo[u]) = o BY <2>3 DEF PlaceOf, Last1
  <2>5. OwnerAt[<<"place", u>>] = o /\ <<"place", u>> \in OwnerTokens BY <2>4, OwnerIs
  <2> QED BY <2>5, OwnedAlive
<1> QED BY <1>1, <1>2, <1>3 DEF Owners

(* A pending Delete: a live object, which nothing refers to. *)
LEMMA DeleteCalls ==
  ASSUME IInv, NEW p \in Pending("Delete")
  PROVE  /\ CallAt(p).arg \in Objects /\ life[CallAt(p).arg] = "alive" /\ cls[CallAt(p).arg] # OwnedObject
         /\ \A q \in Pending("Delete") : CallAt(q).arg = CallAt(p).arg => q = p
         /\ StrongHolders(CallAt(p).arg) \cup Owners(CallAt(p).arg) = {}
<1>1. PICK th \in Threads : \E i \in DOMAIN todo[th] :
        /\ p = <<th, i>> /\ CallAt(p) = todo[th][i] /\ todo[th] # <<>> /\ 1 \in DOMAIN todo[th]
        /\ todo[th][i] \in Frames /\ todo[th][i].call = "Delete" /\ FrameOK(th, i)
  BY PendingCall
<1>2. PICK i \in DOMAIN todo[th] :
        /\ p = <<th, i>> /\ CallAt(p) = todo[th][i]
        /\ todo[th][i] \in Frames /\ todo[th][i].call = "Delete" /\ FrameOK(th, i)
  BY <1>1
<1>3. PICK o : o = CallAt(p).arg OBVIOUS
<1>4. o \in Objects /\ todo[th][i] = Delete(o) BY <1>2, <1>3, FrameFacts DEF Delete
<1>5. life[o] = "alive" /\ cls[o].policy \in {"Simple", "WeakRef"} BY <1>2, <1>3 DEF FrameOK
<1>6. cls[o] # OwnedObject BY <1>5, ClassFacts
<1>7. Dying(o) BY <1>4 DEF Dying, Occurs, OccursIn, DyingFrames
<1>8. StrongHolders(o) = {}
  <2> SUFFICES ASSUME NEW x \in StrongHolders(o) PROVE FALSE OBVIOUS
  <2>1. PICK t \in StrongTokens : Ref(t) = o BY <1>4, <1>6, RefOfHolder
  <2>2. o # NoObj BY <1>4, RefCountingAssumption
  <2> QED BY <1>7, <2>1, <2>2, ReferredAlive
<1>9. Owners(o) = {} BY <1>4, <1>6, <1>8, CountedOwners
<1>10. ASSUME NEW q \in Pending("Delete"), CallAt(q).arg = o PROVE q = p
  <2>1. PICK u \in Threads : \E j \in DOMAIN todo[u] :
          /\ q = <<u, j>> /\ CallAt(q) = todo[u][j] /\ todo[u] # <<>> /\ 1 \in DOMAIN todo[u]
          /\ todo[u][j] \in Frames /\ todo[u][j].call = "Delete" /\ FrameOK(u, j)
    BY PendingCall
  <2>2. PICK j \in DOMAIN todo[u] : /\ q = <<u, j>> /\ CallAt(q) = todo[u][j]
                                    /\ todo[u][j] \in Frames /\ todo[u][j].call = "Delete"
    BY <2>1
  <2>3. todo[u][j] = Delete(o) BY <1>10, <2>2, FrameFacts DEF Delete
  <2>4. AtMostOnceIn(todo, DyingFrames(o)) BY <1>4, IInvParts DEF Onces
  <2>5. th = u /\ i = j BY <1>4, <2>3, <2>4 DEF AtMostOnceIn, DyingFrames
  <2> QED BY <1>2, <2>2, <2>5
<1> QED BY <1>3, <1>4, <1>5, <1>6, <1>8, <1>9, <1>10

(* A pending Free: a live object that is not counted, and no other owner. *)
LEMMA FreeCalls ==
  ASSUME IInv, NEW p \in Pending("Free")
  PROVE  /\ CallAt(p).arg \in Objects /\ life[CallAt(p).arg] = "alive" /\ cls[CallAt(p).arg] = OwnedObject
         /\ \A q \in Pending("Free") : CallAt(q).arg = CallAt(p).arg => q = p
         /\ StrongHolders(CallAt(p).arg) \cup Owners(CallAt(p).arg) = {}
<1>1. ASSUME NEW q \in Pending("Free")
      PROVE  \E u \in Threads : /\ q = <<u, 1>> /\ <<"free", u>> \in OwnerTokens /\ CallAt(q).arg \in Objects
                                /\ OwnerAt[<<"free", u>>] = CallAt(q).arg
  <2>1. PICK u \in Threads : \E j \in DOMAIN todo[u] :
          /\ q = <<u, j>> /\ CallAt(q) = todo[u][j] /\ todo[u] # <<>> /\ 1 \in DOMAIN todo[u]
          /\ todo[u][j] \in Frames /\ todo[u][j].call = "Free" /\ FrameOK(u, j)
    BY PendingCall
  <2>2. /\ q = <<u, 1>> /\ CallAt(q) = todo[u][1] /\ todo[u] # <<>> /\ todo[u][1] \in Frames
        /\ todo[u][1].call = "Free"
    BY <2>1 DEF FrameOK
  <2>3. todo[u] \in Seq(Frames) BY IInvParts DEF FramesTyped
  <2>4. Head(todo[u]) = todo[u][1] BY <2>2, <2>3
  <2>5. OwnerAt[<<"free", u>>] = todo[u][1].arg
    <3>1. todo[u] # <<>> /\ Head(todo[u]).call = "Free" => OwnerAt[<<"free", u>>] = Head(todo[u]).arg BY OwnerIs
    <3> QED BY <2>2, <2>4, <3>1
  <2>6. todo[u][1].arg \in Objects BY <2>2, FrameFacts
  <2>7. <<"free", u>> \in OwnerTokens BY OwnerIs
  <2> QED BY <2>2, <2>5, <2>6, <2>7
<1>2. PICK o : o = CallAt(p).arg OBVIOUS
<1>3. PICK th \in Threads : /\ p = <<th, 1>> /\ <<"free", th>> \in OwnerTokens /\ o \in Objects
                            /\ OwnerAt[<<"free", th>>] = o
  BY <1>1, <1>2
<1>4. /\ life[o] = "alive" /\ cls[o] = OwnedObject
      /\ \A k \in OwnerTokens : OwnerAt[k] = o => k = <<"free", th>>
  BY <1>3, OwnedAlive
<1>5. ASSUME NEW q \in Pending("Free"), CallAt(q).arg = o PROVE q = p
  <2>1. PICK u \in Threads : /\ q = <<u, 1>> /\ <<"free", u>> \in OwnerTokens
                             /\ OwnerAt[<<"free", u>>] = o
    BY <1>1, <1>5
  <2>2. <<"free", u>> = <<"free", th>> BY <1>4, <2>1
  <2> QED BY <1>3, <2>1, <2>2
<1>6. Owners(o) = {}
  <2> SUFFICES ASSUME NEW x \in Owners(o) PROVE FALSE OBVIOUS
  <2>1. PICK t \in OwnerTokens : OwnerAt[t] = o /\ t[1] # "free" BY <1>3, <1>4, OwnerPlace
  <2>2. t = <<"free", th>> BY <1>4, <2>1
  <2> QED BY <2>1, <2>2
<1>7. StrongHolders(o) = {}
  <2> SUFFICES ASSUME NEW x \in StrongHolders(o) PROVE FALSE OBVIOUS
  <2>0. o # NoObj BY <1>3, RefCountingAssumption
  <2>1. ASSUME NEW t \in StrongTokens, Ref(t) = o PROVE FALSE BY <1>4, <2>0, <2>1, ReferredAlive
  <2>2. CASE \E s \in Slots : strong[s] = o
    <3>1. PICK s \in Slots : strong[s] = o BY <2>2
    <3>2. Ref(<<"slot", s>>) = o BY <3>1, RefIs
    <3> QED BY <2>1, <3>2, TokenKinds
  <2>3. CASE \E f \in Objects : field[f] = CntPtrTo(o)
    <3>1. PICK f \in Objects : field[f] = CntPtrTo(o) BY <2>3
    <3>2. CntPtrTo(o) = [m_ptr |-> o, counts |-> TRUE]
      <4>1. (o # NoObj) = TRUE BY <2>0
      <4> QED BY <4>1 DEF CntPtrTo
    <3>3. field[f].counts = TRUE /\ field[f].m_ptr = o BY <3>1, <3>2
    <3>4. Ref(<<"field", f>>) = o BY <3>3, RefIs
    <3> QED BY <2>1, <3>4, TokenKinds
  <2>4. CASE \E u \in Threads : maybe[u].m_error = o
    <3>1. PICK u \in Threads : maybe[u].m_error = o BY <2>4
    <3>2. Ref(<<"maybe", u>>) = o BY <3>1, RefIs
    <3> QED BY <2>1, <3>2, TokenKinds
  <2>5. CASE \E u \in Threads : raw[u] = o
    <3>1. PICK u \in Threads : raw[u] = o BY <2>5
    <3>2. <<"raw", u>> \in Owners(o) BY <3>1 DEF Owners
    <3> QED BY <1>6, <3>2
  <2>6. CASE \E q \in Pending("Release") : CallAt(q).arg = o
    <3>1. PICK q \in Pending("Release") : CallAt(q).arg = o BY <2>6
    <3>2. PICK u \in Threads : \E j \in DOMAIN todo[u] :
            /\ q = <<u, j>> /\ CallAt(q) = todo[u][j] /\ todo[u] # <<>> /\ 1 \in DOMAIN todo[u]
            /\ todo[u][j] \in Frames /\ todo[u][j].call = "Release" /\ FrameOK(u, j)
      BY PendingCall
    <3>3. todo[u] # <<>> /\ todo[u][1].call = "Release" /\ todo[u][1].arg = o
      BY <3>1, <3>2 DEF FrameOK
    <3>4. todo[u] \in Seq(Frames) BY IInvParts DEF FramesTyped
    <3>5. Head(todo[u]) = todo[u][1] BY <3>3, <3>4
    <3>6. Ref(<<"release", u>>) = o BY <3>3, <3>5, RefIs
    <3> QED BY <2>1, <3>6, TokenKinds
  <2>7. CASE \E q \in Pending("Publish") : CallAt(q).new = o
    <3>1. PICK q \in Pending("Publish") : CallAt(q).new = o BY <2>7
    <3>2. PICK u \in Threads : \E j \in DOMAIN todo[u] :
            /\ q = <<u, j>> /\ CallAt(q) = todo[u][j] /\ todo[u] # <<>> /\ 1 \in DOMAIN todo[u]
            /\ todo[u][j] \in Frames /\ todo[u][j].call = "Publish" /\ FrameOK(u, j)
      BY PendingCall
    <3>3. todo[u] # <<>> /\ todo[u][1].call = "Publish" /\ todo[u][1].new = o
      BY <3>1, <3>2 DEF FrameOK
    <3>4. todo[u] \in Seq(Frames) BY IInvParts DEF FramesTyped
    <3>5. Head(todo[u]) = todo[u][1] BY <3>3, <3>4
    <3>6. Ref(<<"publish", u>>) = o BY <3>3, <3>5, RefIs
    <3> QED BY <2>1, <3>6, TokenKinds
  <2> QED BY <2>2, <2>3, <2>4, <2>5, <2>6, <2>7 DEF StrongHolders
<1> QED BY <1>2, <1>3, <1>4, <1>5, <1>6, <1>7

(* A pending call of the cascade has something to work on. *)
LEMMA OtherCalls ==
  ASSUME IInv
  PROVE  /\ \A p \in Pending("EndDelete") : life[CallAt(p).arg] = "dead"
         /\ \A p \in Pending("Release") : life[CallAt(p).arg] = "alive"
         /\ \A p \in Pending("ReleaseWeakRef") : cls[CallAt(p).arg] # NoClass
<1>1. ASSUME NEW p \in Pending("EndDelete") PROVE life[CallAt(p).arg] = "dead"
  BY PendingCall DEF FrameOK
<1>2. ASSUME NEW p \in Pending("Release") PROVE life[CallAt(p).arg] = "alive"
  <2>1. PICK u \in Threads : \E j \in DOMAIN todo[u] :
          /\ p = <<u, j>> /\ CallAt(p) = todo[u][j] /\ todo[u] # <<>> /\ 1 \in DOMAIN todo[u]
          /\ todo[u][j] \in Frames /\ todo[u][j].call = "Release" /\ FrameOK(u, j)
    BY PendingCall
  <2>2. PICK o : o = CallAt(p).arg OBVIOUS
  <2>3. todo[u] # <<>> /\ todo[u][1].call = "Release" /\ todo[u][1].arg = o /\ todo[u][1] \in Frames
    BY <2>1, <2>2 DEF FrameOK
  <2>4. todo[u] \in Seq(Frames) BY IInvParts DEF FramesTyped
  <2>5. Head(todo[u]) = todo[u][1] BY <2>3, <2>4
  <2>6. Ref(<<"release", u>>) = o BY <2>3, <2>5, RefIs
  <2>7. o \in Objects /\ o # NoObj BY <2>3, FrameFacts, RefCountingAssumption
  <2>8. <<"release", u>> \in StrongTokens BY TokenKinds
  <2> QED BY <2>2, <2>6, <2>7, <2>8, ReferredAlive
<1>3. ASSUME NEW p \in Pending("ReleaseWeakRef") PROVE cls[CallAt(p).arg] # NoClass
  <2>1. PICK u \in Threads : \E j \in DOMAIN todo[u] :
          /\ p = <<u, j>> /\ CallAt(p) = todo[u][j] /\ todo[u] # <<>> /\ 1 \in DOMAIN todo[u]
          /\ todo[u][j] \in Frames /\ todo[u][j].call = "ReleaseWeakRef" /\ FrameOK(u, j)
    BY PendingCall
  <2>2. PICK j \in DOMAIN todo[u] : /\ CallAt(p) = todo[u][j] /\ todo[u][j] \in Frames
                                    /\ todo[u][j].call = "ReleaseWeakRef"
    BY <2>1
  <2>3. PICK b : b = CallAt(p).arg OBVIOUS
  <2>4. b \in Objects /\ todo[u][j] = ReleaseWeakRef(b) BY <2>2, <2>3, FrameFacts DEF ReleaseWeakRef
  <2>5. ReleaseWeakRef(b) \in Range(todo[u]) BY <2>2, <2>4 DEF Range
  <2>6. WeakAt[<<"call", u, b>>] = b /\ <<"call", u, b>> \in WeakTokens BY <2>4, <2>5, WeakIs
  <2>7. PICK f, n : f = WeakAt /\ n = m_weakRefCount OBVIOUS
  <2>8. Exact(f, n) /\ DOMAIN f = WeakTokens BY <2>7, WeakIs, IInvParts DEF WeakExact
  <2>9. n[b] \in Nat /\ n[b] # 0 BY <2>4, <2>6, <2>7, <2>8, ExactZero
  <2>10. HasWeakRef(cls[b])
    <3>1. CountsOK(b) BY <2>4, IInvParts
    <3>2. m_weakRefCount[b] > 0 BY <2>7, <2>9
    <3> QED BY <3>1, <3>2 DEF CountsOK
  <2>11. cls[b] # NoClass
    <3>1. NoClass.policy = "Free" BY DEF NoClass, Class
    <3> QED BY <2>10, <3>1 DEF HasWeakRef
  <2> QED BY <2>3, <2>11
<1> QED BY <1>1, <1>2, <1>3

(* Every object is destroyed once, after its last reference. *)
LEMMA OnceDestroyed ==
  ASSUME IInv
  PROVE  DestroyedOnce
<1>1. ASSUME NEW p \in Pending("Delete") \cup Pending("Free")
      PROVE  /\ life[CallAt(p).arg] = "alive"
             /\ \A q \in Pending("Delete") \cup Pending("Free") : CallAt(q).arg = CallAt(p).arg => q = p
             /\ StrongHolders(CallAt(p).arg) \cup Owners(CallAt(p).arg) = {}
  <2>1. CASE p \in Pending("Delete")
    <3>1. \A q \in Pending("Free") : CallAt(q).arg # CallAt(p).arg BY <2>1, DeleteCalls, FreeCalls
    <3> QED BY <2>1, <3>1, DeleteCalls
  <2>2. CASE p \in Pending("Free")
    <3>1. \A q \in Pending("Delete") : CallAt(q).arg # CallAt(p).arg BY <2>2, DeleteCalls, FreeCalls
    <3> QED BY <2>2, <3>1, FreeCalls
  <2> QED BY <2>1, <2>2
<1>2. /\ \A p \in Pending("EndDelete") : life[CallAt(p).arg] = "dead"
      /\ \A p \in Pending("Release") : life[CallAt(p).arg] = "alive"
      /\ \A p \in Pending("ReleaseWeakRef") : cls[CallAt(p).arg] # NoClass
  BY OtherCalls
<1> QED BY <1>1, <1>2 DEF DestroyedOnce

(* No object is destroyed twice, or while something refers to it, and no   *)
(* call works on memory that was given back.                               *)
THEOREM ObjectsDestroyedOnce == Spec => []DestroyedOnce
<1>1. IInv => DestroyedOnce BY OnceDestroyed
<1> QED BY <1>1, Inductive, PTL
-----------------------------------------------------------------------------
(* When nothing runs: what has a weak reference is alive, and a member is  *)
(* in the container it refers to.                                          *)
LEMMA QuietMembers ==
  ASSUME IInv, \A th \in Threads : todo[th] = <<>>, NEW p \in Objects, NEW b \in Objects, weakRef[p] = b
  PROVE  life[p] = "alive" /\ p \in Owned(b)
<1>0. b # NoObj BY RefCountingAssumption
<1>1. \A C : ~OccursIn(todo, C) BY DEF OccursIn
<1>2. WeakRefOK(p) /\ CountsOK(p) /\ ClassOK(p) BY IInvParts
<1>3. HasWeakRef(cls[p]) BY <1>0, <1>2 DEF WeakRefOK
<1>4. life[p] = "alive"
  <2>1. NoClass.policy = "Free" BY DEF NoClass, Class
  <2>2. life[p] # "raw" BY <1>2, <1>3, <2>1 DEF ClassOK, HasWeakRef
  <2>3. life[p] # "dead" BY <1>0, <1>1, <1>2 DEF WeakRefOK, Occurs
  <2>4. life[p] \in {"raw", "alive", "dead"} BY IInvParts DEF TypeOK, RefTypeOK
  <2> QED BY <2>2, <2>3, <2>4
<1>5. CASE p = b BY <1>4, <1>5 DEF Owned
<1>6. CASE p # b
  <2>1. cls[p] \in Members BY <1>0, <1>2, <1>6 DEF WeakRefOK, Members
  <2>2. PICK d \in Objects : p \in Range(m_headMember[d]) \cup storage[d]
    BY <1>1, <1>2, <2>1 DEF CountsOK, Occurs
  <2>3. weakRef[p] = d \/ life[p] = "dead" BY <2>2, IInvParts DEF ListsOK
  <2>4. d = b BY <1>4, <2>3
  <2> QED BY <1>4, <2>2, <2>4 DEF Owned
<1> QED BY <1>5, <1>6

(* A container with a weak count is held by a WeakPtr or a live object. *)
LEMMA ContainerHeld ==
  ASSUME IInv, \A th \in Threads : todo[th] = <<>>, NEW b \in Objects, HasWeakRef(cls[b]), cls[b] \notin Members
  PROVE  /\ m_weakRefCount[b] > 0
         /\ \/ \E th \in Threads : weak[th].m_weakRef = b
            \/ \E p \in Objects : /\ weakRef[p] = b /\ ~(cls[p] = FixedSwarm /\ m_refCount[p] = 0)
                                  /\ life[p] = "alive" /\ p \in Owned(b)
<1>0. b # NoObj BY RefCountingAssumption
<1>1. CountsOK(b) BY IInvParts
<1>2. m_weakRefCount[b] > 0 BY <1>1 DEF CountsOK
<1>3. PICK f, n : f = WeakAt /\ n = m_weakRefCount OBVIOUS
<1>4. Exact(f, n) /\ DOMAIN f = WeakTokens BY <1>3, WeakIs, IInvParts DEF WeakExact
<1>5. n[b] # 0 BY <1>2, <1>3
<1>6. PICK t \in WeakTokens : f[t] = b BY <1>4, <1>5, ExactZero
<1>7. WeakAt[t] = b BY <1>3, <1>6
<1>8. CASE \E p \in Objects : t = <<"object", p>>
  <2>1. PICK p \in Objects : t = <<"object", p>> BY <1>8
  <2>2. WeakAt[<<"object", p>>] = IF cls[p] = FixedSwarm /\ m_refCount[p] = 0 THEN NoObj ELSE weakRef[p]
    BY WeakIs
  <2>3. weakRef[p] = b /\ ~(cls[p] = FixedSwarm /\ m_refCount[p] = 0) BY <1>0, <1>7, <2>1, <2>2
  <2>4. life[p] = "alive" /\ p \in Owned(b) BY <2>3, QuietMembers
  <2> QED BY <1>2, <2>3, <2>4
<1>9. CASE \E u \in Threads : t = <<"weak", u>>
  <2>1. PICK u \in Threads : t = <<"weak", u>> BY <1>9
  <2>2. WeakAt[<<"weak", u>>] = weak[u].m_weakRef BY WeakIs
  <2> QED BY <1>2, <1>7, <2>1, <2>2
<1>10. CASE \E u \in Threads, c \in Objects : t = <<"call", u, c>>
  <2>1. PICK u \in Threads, c \in Objects : t = <<"call", u, c>> BY <1>10
  <2>2. Range(todo[u]) = {} BY DEF Range
  <2>3. WeakAt[<<"call", u, c>>] = NoObj BY <2>2, WeakIs
  <2> QED BY <1>0, <1>7, <2>1, <2>3
<1> QED BY <1>8, <1>9, <1>10, WeakIs

(* A counter that is not zero has a reference from outside the swarm. *)
LEMMA HeldFromOutside ==
  ASSUME IInv, NEW o \in Objects, life[o] = "alive", IsCounted(o), Pos(Counter(o)), Counter(o) \in Objects
  PROVE  \E h \in UNION {StrongHolders(x) : x \in CountedBy(Counter(o))} :
           h[1] # "field" \/ ~(weakRef[h[2]] # NoObj /\ weakRef[h[2]] = weakRef[o])
<1>1. PICK b \in Objects : b = Counter(o) OBVIOUS
<1>2. PICK f, n : f = StrongAt /\ n = m_refCount OBVIOUS
<1>3. Exact(f, n) /\ DOMAIN f = StrongTokens BY <1>2, IInvParts DEF StrongExact, StrongAt
<1>4. n[b] # 0 BY <1>1, <1>2 DEF Pos
<1>5. PICK t \in StrongTokens : f[t] = b BY <1>3, <1>4, ExactZero
<1>6. t \in At(StrongAt, b) BY <1>2, <1>3, <1>5 DEF At
<1>7. PICK x : x = Ref(t) OBVIOUS
<1>8. x \in CountedBy(b) /\ HolderOf(t) \in StrongHolders(x) BY <1>6, <1>7, CountedHolders
<1>9. HolderOf(t) \in UNION {StrongHolders(y) : y \in CountedBy(Counter(o))} BY <1>1, <1>8
<1>10. HolderOf(t)[1] # "field" \/ ~(weakRef[HolderOf(t)[2]] # NoObj /\ weakRef[HolderOf(t)[2]] = weakRef[o])
  <2> SUFFICES ASSUME HolderOf(t)[1] = "field", weakRef[HolderOf(t)[2]] # NoObj,
                      weakRef[HolderOf(t)[2]] = weakRef[o]
               PROVE  FALSE
    OBVIOUS
  <2>1. PICK q \in Objects : t = <<"field", q>> /\ HolderOf(t) = t
    <3>1. t[1] = "field" BY DEF HolderOf
    <3>2. HolderOf(t) = t BY <3>1 DEF HolderOf
    <3> QED BY <3>1, <3>2, TokenKinds
  <2>2. weakRef[q] # NoObj /\ weakRef[q] = weakRef[o] BY <2>1
  <2>3. x \in Objects /\ IsCounted(x) /\ Counter(x) = b /\ cls[x] # NoClass BY <1>8 DEF CountedBy
  <2>4. x # NoObj BY <2>3, RefCountingAssumption
  <2>5. field[q].counts /\ field[q].m_ptr = x
    <3>1. Ref(<<"field", q>>) = IF field[q].counts THEN field[q].m_ptr ELSE NoObj BY RefIs
    <3> QED BY <1>7, <2>1, <2>4, <3>1
  <2>6. weakRef[q] # weakRef[x]
    <3>1. FieldOK(q) BY IInvParts
    <3> QED BY <2>2, <2>5, <3>1 DEF FieldOK
  <2>7. HasWeakRef(cls[o]) /\ WeakRefOK(o)
    <3>1. WeakRefOK(o) BY IInvParts
    <3> QED BY <2>2, <3>1 DEF WeakRefOK
  <2>8. b = weakRef[o] BY <1>1, <2>7 DEF Counter, HasWeakRef
  <2>9. cls[x].policy = "Simple" BY <2>2, <2>3, <2>6, <2>8 DEF Counter
  <2>10. x = weakRef[o] BY <2>3, <2>8, <2>9 DEF Counter
  <2>11. x # o BY <2>7, <2>9 DEF HasWeakRef
  <2>12. cls[x] \in Swarms \cup {FixedSwarm} BY <2>2, <2>7, <2>10, <2>11 DEF WeakRefOK
  <2>13. \A c \in Swarms \cup {FixedSwarm} : c.policy # "Simple"
    BY DEF Swarms, SwarmObject, LinkedSwarmObject, FixedSwarm, Class
  <2> QED BY <2>9, <2>12, <2>13
<1> QED BY <1>9, <1>10

(* When no call is pending, what is alive is held. *)
LEMMA AliveHeld ==
  ASSUME IInv, \A th \in Threads : todo[th] = <<>>, NEW o \in Objects, life[o] = "alive", IsCounted(o)
  PROVE  \/ \E h \in UNION {StrongHolders(x) : x \in CountedBy(Counter(o))} :
              h[1] # "field" \/ ~(weakRef[h[2]] # NoObj /\ weakRef[h[2]] = weakRef[o])
         \/ cls[o] = FixedSwarm /\ \E th \in Threads : weak[th].m_weakRef = o
<1>1. \A C : ~OccursIn(todo, C) BY DEF OccursIn
<1>2. WeakRefOK(o) /\ CountsOK(o) /\ ClassOK(o) BY IInvParts
<1>3. cls[o] \in Classes BY <1>2 DEF ClassOK
<1>4. cls[o].policy \in {"Simple", "WeakRef", "FixedSwarm"} BY <1>3, ClassFacts DEF IsCounted
<1>5. Counter(o) \in Objects
  <2>1. CASE cls[o].policy = "Simple" BY <2>1 DEF Counter
  <2>2. CASE cls[o].policy # "Simple"
    <3>1. weakRef[o] # NoObj BY <1>2, <1>4, <2>2 DEF WeakRefOK, HasWeakRef
    <3>2. weakRef[o] \in Pointers BY IInvParts DEF TypeOK, RefTypeOK
    <3> QED BY <2>2, <3>1, <3>2 DEF Counter, Pointers
  <2> QED BY <2>1, <2>2
<1>6. CASE Pos(Counter(o)) BY <1>5, <1>6, HeldFromOutside
<1>7. CASE ~Pos(Counter(o))
  <2>1. cls[o] = FixedSwarm
    <3>1. cls[o].policy = "FixedSwarm" BY <1>1, <1>2, <1>4, <1>7 DEF CountsOK, Occurs
    <3> QED BY <1>3, <3>1, ClassFacts
  <2>2. HasWeakRef(cls[o]) /\ Counter(o) = weakRef[o] /\ weakRef[o] \in {o, NoObj} BY <2>1, FixedSwarmCounter
  <2>3. Counter(o) = o BY <1>5, <2>2, RefCountingAssumption
  <2>4. cls[o] \notin Members BY <2>1, ClassFacts
  <2>5. CASE \E p \in Objects : /\ weakRef[p] = o /\ ~(cls[p] = FixedSwarm /\ m_refCount[p] = 0)
                                /\ life[p] = "alive" /\ p \in Owned(o)
    <3>1. PICK p \in Objects : /\ weakRef[p] = o /\ ~(cls[p] = FixedSwarm /\ m_refCount[p] = 0)
                               /\ life[p] = "alive" /\ p \in Owned(o)
      BY <2>5
    <3>2. m_refCount[o] = 0
      <4>1. m_refCount[o] \in Nat BY IInvParts DEF TypeOK, RefTypeOK
      <4> QED BY <1>7, <2>3, <4>1 DEF Pos
    <3>3. p # o BY <2>1, <3>1, <3>2
    <3>4. WeakRefOK(p) /\ CountsOK(p) BY IInvParts
    <3>5. cls[p] \in Members
      <4>1. weakRef[p] # NoObj BY <3>1, RefCountingAssumption
      <4> QED BY <3>1, <3>3, <3>4, <4>1 DEF WeakRefOK, Members
    <3>6. cls[p].policy = "WeakRef"
      <4>1. cls[p] \in Classes \cup {NoClass} BY IInvParts DEF ClassOK
      <4> QED BY <3>5, <4>1, ClassFacts
    <3>7. Counter(p) = o BY <3>1, <3>6 DEF Counter
    <3>8. Occurs({Delete(p)}) BY <1>7, <2>3, <3>1, <3>4, <3>6, <3>7 DEF CountsOK
    <3> QED BY <1>1, <3>8 DEF Occurs
  <2> QED BY <2>1, <2>2, <2>4, <2>5, ContainerHeld
<1> QED BY <1>6, <1>7

(* When no call is pending, what is not counted has one owner. *)
LEMMA OneOwner ==
  ASSUME IInv, \A th \in Threads : todo[th] = <<>>, NEW o \in Objects, life[o] = "alive", cls[o] = OwnedObject
  PROVE  Cardinality(Owners(o)) = 1
<1>0. o # NoObj BY RefCountingAssumption
<1>1. PICK S : S = At(OwnerAt, o) OBVIOUS
<1>2. Cardinality(S) = 1
  <2>1. OwnerCount[o] = Cardinality(At(OwnerAt, o)) BY IInvParts DEF OwnerExact, Exact
  <2>2. OwnerCount[o] = 1 BY DEF OwnerCount
  <2> QED BY <1>1, <2>1, <2>2
<1>3. \A t : t \in S <=> t \in OwnerTokens /\ OwnerAt[t] = o BY <1>1, OwnerIs DEF At
<1>4. Pending("Place") = {} BY DEF Pending
<1>5. ASSUME NEW t \in S PROVE t \in Owners(o)
  <2>1. PICK u \in Threads : t \in {<<"holder", u>>, <<"raw", u>>, <<"place", u>>, <<"free", u>>}
    BY <1>3, OwnerIs
  <2>2. OwnerAt[t] = o BY <1>3
  <2>3. CASE t = <<"holder", u>>
    <3>1. OwnerAt[<<"holder", u>>] = holder[u] BY OwnerIs
    <3> QED BY <2>2, <2>3, <3>1 DEF Owners
  <2>4. CASE t = <<"raw", u>>
    <3>1. OwnerAt[<<"raw", u>>] = IF raw[u] # NoObj /\ cls[raw[u]] = OwnedObject THEN raw[u] ELSE NoObj BY OwnerIs
    <3>2. raw[u] = o BY <1>0, <2>2, <2>4, <3>1
    <3> QED BY <2>4, <3>2 DEF Owners
  <2>5. CASE t = <<"place", u>>
    <3>1. OwnerAt[<<"place", u>>] = PlaceOf(todo[u]) BY OwnerIs
    <3>2. PlaceOf(todo[u]) = NoObj BY DEF PlaceOf
    <3> QED BY <1>0, <2>2, <2>5, <3>1, <3>2
  <2>6. CASE t = <<"free", u>>
    <3>1. ~Calling(u, "Free") => OwnerAt[<<"free", u>>] = NoObj BY OwnerIs DEF Calling
    <3>2. ~Calling(u, "Free") BY DEF Calling
    <3> QED BY <1>0, <2>2, <2>6, <3>1, <3>2
  <2> QED BY <2>1, <2>3, <2>4, <2>5, <2>6
<1>6. ASSUME NEW x \in Owners(o) PROVE x \in S
  <2>1. CASE \E u \in Threads : x = <<"holder", u>> /\ holder[u] = o
    <3>1. PICK u \in Threads : x = <<"holder", u>> /\ holder[u] = o BY <2>1
    <3>2. OwnerAt[<<"holder", u>>] = holder[u] /\ <<"holder", u>> \in OwnerTokens BY OwnerIs
    <3> QED BY <1>3, <3>1, <3>2
  <2>2. CASE \E u \in Threads : x = <<"raw", u>> /\ raw[u] = o
    <3>1. PICK u \in Threads : x = <<"raw", u>> /\ raw[u] = o BY <2>2
    <3>2. OwnerAt[<<"raw", u>>] = IF raw[u] # NoObj /\ cls[raw[u]] = OwnedObject THEN raw[u] ELSE NoObj BY OwnerIs
    <3>3. <<"raw", u>> \in OwnerTokens BY OwnerIs
    <3>4. OwnerAt[<<"raw", u>>] = o BY <1>0, <3>1, <3>2
    <3> QED BY <1>3, <3>1, <3>3, <3>4
  <2> QED BY <1>4, <2>1, <2>2 DEF Owners
<1>7. S = Owners(o) BY <1>5, <1>6
<1> QED BY <1>2, <1>7

(* When no call is pending, memory without an object is held. *)
LEMMA DeadHeld ==
  ASSUME IInv, \A th \in Threads : todo[th] = <<>>, NEW o \in Objects, life[o] = "dead"
  PROVE  \E b \in Objects : /\ o \in Owned(b)
                            /\ m_weakRefCount[b] > 0
                            /\ \/ \E th \in Threads : weak[th].m_weakRef = b
                               \/ \E x \in Owned(b) : life[x] = "alive"
<1>1. \A C : ~OccursIn(todo, C) BY DEF OccursIn
<1>2. WeakRefOK(o) /\ CountsOK(o) BY IInvParts
<1>3. HasWeakRef(cls[o]) BY <1>1, <1>2 DEF WeakRefOK, Occurs
<1>4. CASE cls[o] \notin Members
  <2>1. o \in Owned(o) BY DEF Owned
  <2> QED BY <1>3, <1>4, <2>1, ContainerHeld
<1>5. CASE cls[o] \in Members
  <2>1. PICK b \in Objects : o \in Range(m_headMember[b]) \cup storage[b]
    BY <1>1, <1>2, <1>5 DEF CountsOK, Occurs
  <2>2. cls[b] \in Swarms \cup {FixedSwarm}
    <3>1. ClassOK(b) BY IInvParts
    <3>2. m_headMember[b] # <<>> \/ storage[b] # {} BY <2>1 DEF Range
    <3> QED BY <3>1, <3>2 DEF ClassOK
  <2>3. HasWeakRef(cls[b])
    BY <2>2 DEF Swarms, SwarmObject, LinkedSwarmObject, FixedSwarm, Class, HasWeakRef
  <2>4. cls[b] \notin Members
    <3>1. cls[b] \in Classes \cup {NoClass} BY IInvParts DEF ClassOK
    <3> QED BY <2>2, <3>1, ClassFacts
  <2>5. o \in Owned(b) BY <2>1 DEF Owned
  <2> QED BY <2>3, <2>4, <2>5, ContainerHeld
<1> QED BY <1>4, <1>5

(* Nothing leaks. *)
LEMMA NothingLeaks ==
  ASSUME IInv
  PROVE  NoLeak
BY AliveHeld, OneOwner, DeadHeld DEF NoLeak

(* When no thread is inside a call, a live object is held from outside its *)
(* swarm, an object that is not counted has one owner, and memory without  *)
(* a live object is held by a WeakPtr.                                     *)
THEOREM NothingLeaked == Spec => []NoLeak
<1>1. IInv => NoLeak BY NothingLeaks
<1> QED BY <1>1, Inductive, PTL
-----------------------------------------------------------------------------
(* A step that replaces no instance that is published. *)
PublishedStays == \A o \in Objects : cls[o].lazy /\ field[o].counts /\ field'[o].counts => field'[o] = field[o]

(* A constructor writes to memory that was free, where there is no owner. *)
LEMMA ConstructPublished ==
  ASSUME IInv, FreeMemory # {}, NEW f, field' = [field EXCEPT ![Allocated] = f]
  PROVE  PublishedStays
<1> SUFFICES ASSUME NEW o \in Objects, cls[o].lazy, field[o].counts, field'[o].counts PROVE field'[o] = field[o]
  BY DEF PublishedStays
<1>1. Allocated \in Objects /\ cls[Allocated] = NoClass
  BY AllocatedFree, IInvParts DEF TypeOK, RefTypeOK
<1>2. ~NoClass.lazy BY DEF NoClass, Class
<1>3. o # Allocated BY <1>1, <1>2
<1>4. field \in [Objects -> [m_ptr : Pointers, counts : BOOLEAN]] BY IInvParts DEF TypeOK, RefTypeOK
<1> QED BY <1>3, <1>4

(* The steps of RefCounting. *)
LEMMA RefStepPublished ==
  ASSUME IInv, NEW th \in Threads, RefStep(th)
  PROVE  PublishedStays
<1>1. CASE UNCHANGED field BY <1>1 DEF PublishedStays
<1>2. CASE \E c \in program.classes, to \in Own(th), keep \in BOOLEAN :
             Make(th, c, to, keep) \/ MakeInitializeThrows(th, c, to, keep)
  <2>1. PICK c \in program.classes, to \in Own(th), keep \in BOOLEAN :
             Make(th, c, to, keep) \/ MakeInitializeThrows(th, c, to, keep)
    BY <1>2
  <2>2. FreeMemory # {} /\ field' = [field EXCEPT ![Allocated] = CntPtrTo(strong[to])]
    BY <2>1 DEF Make, MakeInitializeThrows, Construct
  <2> QED BY <2>2, ConstructPublished
<1>3. \/ UNCHANGED field
      \/ \E c \in program.classes, to \in Own(th), keep \in BOOLEAN :
           Make(th, c, to, keep) \/ MakeInitializeThrows(th, c, to, keep)
  <2>1. CASE \E from, to \in Own(th) : Assign(th, from, to) \/ MoveAssign(th, from, to) \/ QueryInterface(th, from, to)
    BY <2>1 DEF Assign, MoveAssign, QueryInterface
  <2>2. CASE \E from \in Own(th), to \in Slots : MoveToThread(th, from, to) BY <2>2 DEF MoveToThread
  <2>3. CASE \E from \in Own(th) : WeakFromStrong(th, from) \/ WeakFromFuture(th, from)
    BY <2>3 DEF WeakFromStrong, WeakFromFuture, ReassignWeak
  <2>4. CASE \E other \in Threads : CopyWeakToThread(th, other) BY <2>4 DEF CopyWeakToThread
  <2>5. CASE ResetWeak(th) BY <2>5 DEF ResetWeak, ReassignWeak
  <2>6. CASE \E to \in Own(th) : Clear(th, to) \/ GetStrongPtr(th, to) \/ PointToStatic(th, to)
    BY <2>6 DEF Clear, GetStrongPtr, PointToStatic
  <2>7. CASE \E c \in program.classes, to \in Own(th), keep \in BOOLEAN : MakeThrows(th, c, to, keep)
    BY <2>7 DEF MakeThrows
  <2>8. CASE RunRelease(th) \/ RunReleaseWeakRef(th) \/ RunAssignWeak(th) \/ RunIncrement(th)
    BY <2>8 DEF RunRelease, RunReleaseWeakRef, RunAssignWeak, RunIncrement
  <2> QED BY <2>1, <2>2, <2>3, <2>4, <2>5, <2>6, <2>7, <2>8 DEF RefStep
<1> QED BY <1>1, <1>2, <1>3

(* The steps of Swarm: a SwarmMemberPtr is set once, and by no lazy object. *)
LEMMA SwarmStepPublished ==
  ASSUME IInv, NEW th \in Threads, SwarmStep(th)
  PROVE  PublishedStays
<1>1. CASE UNCHANGED field BY <1>1 DEF PublishedStays
<1>2. CASE \E from, to \in Own(th) : LinkMember(th, from, to)
  <2>1. PICK from \in Own(th), to \in Own(th) : LinkMember(th, from, to) BY <1>2
  <2>2. field[strong[from]] = NullField /\ \E f : field' = [field EXCEPT ![strong[from]] = f]
    BY <2>1 DEF LinkMember
  <2>3. PICK f : field' = [field EXCEPT ![strong[from]] = f] BY <2>2
  <2>4. NullField.counts = FALSE BY DEF NullField
  <2>5. field \in [Objects -> [m_ptr : Pointers, counts : BOOLEAN]] BY IInvParts DEF TypeOK, RefTypeOK
  <2> QED BY <2>2, <2>3, <2>4, <2>5 DEF PublishedStays
<1>3. UNCHANGED field \/ \E from, to \in Own(th) : LinkMember(th, from, to)
  <2>1. CASE \E from, to \in Own(th) : MakeMember(th, from, to) \/ GetFixedMember(th, from, to)
    BY <2>1 DEF MakeMember, GetFixedMember
  <2>2. CASE \E from \in Own(th) : \/ MakeMemberInitializeThrows(th, from)
                                   \/ MakeMemberThrows(th, from)
                                   \/ \E throws \in BOOLEAN : MakeFixedMember(th, from, throws)
    BY <2>2 DEF MakeMemberInitializeThrows, MakeMemberThrows, MakeFixedMember
  <2>3. CASE RunFreeMember(th) \/ RunAddSwarmMember(th) BY <2>3 DEF RunFreeMember, RunAddSwarmMember
  <2> QED BY <2>1, <2>2, <2>3 DEF SwarmStep
<1> QED BY <1>1, <1>2, <1>3

(* The steps of LazyInit: only an empty pointer takes an instance. *)
LEMMA LazyStepPublished ==
  ASSUME IInv, NEW th \in Threads, LazyStep(th)
  PROVE  PublishedStays
<1>0. /\ field \in [Objects -> [m_ptr : Pointers, counts : BOOLEAN]]
      /\ NullField.counts = FALSE
  BY IInvParts DEF TypeOK, RefTypeOK, NullField
<1>1. CASE UNCHANGED field BY <1>1 DEF PublishedStays
<1>2. CASE \E q, f : field[q] = NullField /\ field' = [field EXCEPT ![q] = f]
  BY <1>0, <1>2 DEF PublishedStays
<1>3. CASE \E q : field' = [field EXCEPT ![q] = NullField]
  BY <1>0, <1>3 DEF PublishedStays
<1>4. CASE \E from \in Own(th) : LazyGet(th, from) BY <1>1, <1>4 DEF LazyGet
<1>5. CASE \E from \in Own(th) : LazyRelease(th, from) BY <1>3, <1>5 DEF LazyRelease
<1>6. CASE RunPublish(th) BY <1>1, <1>2, <1>6 DEF RunPublish
<1> QED BY <1>4, <1>5, <1>6 DEF LazyStep

(* The steps of ErrorCode: a destructor empties the pointer. *)
LEMMA ErrorStepPublished ==
  ASSUME IInv, NEW th \in Threads, ErrorStep(th)
  PROVE  PublishedStays
<1>1. CASE UNCHANGED field BY <1>1 DEF PublishedStays
<1>2. CASE DeleteObject(th)
  <2>1. field' = [field EXCEPT ![Arg(th)] = NullField] BY <1>2 DEF DeleteObject, RunDelete
  <2>2. /\ field \in [Objects -> [m_ptr : Pointers, counts : BOOLEAN]]
        /\ NullField.counts = FALSE
    BY IInvParts DEF TypeOK, RefTypeOK, NullField
  <2> QED BY <2>1, <2>2 DEF PublishedStays
<1>3. CASE \E s \in Own(th) : MakeErrorCode(th, s)
  <2>1. PICK s \in Own(th) : MakeErrorCode(th, s) BY <1>3
  <2>2. FreeMemory # {} /\ field' = [field EXCEPT ![Allocated] = CntPtrTo(strong[s])]
    BY <2>1 DEF MakeErrorCode, Make, Construct
  <2> QED BY <2>2, ConstructPublished
<1>4. CASE EndDeleteObject(th) BY <1>1, <1>4 DEF EndDeleteObject, RunEndDelete
<1>5. CASE MaybeFromValue(th) BY <1>1, <1>5 DEF MaybeFromValue, KeepHeap
<1>6. CASE \E s \in Own(th) : Handle(th, s) \/ MaybeFromError(th, s) \/ TakeError(th, s)
  BY <1>1, <1>6 DEF Handle, MaybeFromError, TakeError, KeepHeap, refVars
<1>7. CASE \E s \in Own(th) : GetValueElseThrow(th, s) \/ ThrowOnError(th, s)
  BY <1>1, <1>7 DEF GetValueElseThrow, ThrowOnError, KeepHeap
<1>8. CASE \E other \in Threads : CopyMaybe(th, other) \/ MoveMaybe(th, other)
  BY <1>1, <1>8 DEF CopyMaybe, MoveMaybe, KeepHeap
<1> QED BY <1>2, <1>3, <1>4, <1>5, <1>6, <1>7, <1>8 DEF ErrorStep

(* The steps of Holder leave the pointers of objects alone. *)
LEMMA HolderStepPublished ==
  ASSUME NEW th \in Threads, HolderStep(th)
  PROVE  PublishedStays
<1>1. CASE UNCHANGED field BY <1>1 DEF PublishedStays
<1>2. CASE RunClearHolder(th) \/ RunFree(th) \/ RunPlace(th)
  BY <1>1, <1>2 DEF RunClearHolder, RunFree, RunPlace, KeepObjects
<1>3. CASE MakeOwned(th) \/ ResetHolder(th) \/ DetachHolder(th) \/ AttachHolder(th)
  BY <1>1, <1>3 DEF MakeOwned, ResetHolder, DetachHolder, AttachHolder, KeepObjects
<1>4. CASE \E other \in Threads : TransferFrom(th, other) \/ SwapHolders(th, other)
  BY <1>1, <1>4 DEF TransferFrom, SwapHolders, KeepObjects
<1>5. CASE \E s \in Own(th) : DetachPtr(th, s) \/ AttachPtr(th, s)
  BY <1>1, <1>5 DEF DetachPtr, AttachPtr, KeepObjects
<1>6. CASE \E left, right \in Own(th) : SwapPtrs(th, left, right)
  BY <1>1, <1>6 DEF SwapPtrs, KeepObjects
<1> QED BY <1>2, <1>3, <1>4, <1>5, <1>6 DEF HolderStep

(* No step of any thread replaces an instance that is published: everybody *)
(* who calls Get() on a LazyInit, or ToString() on one error, gets the     *)
(* same one until the owner dies or releases it.                           *)
THEOREM InstancesPublishedOnce == Spec => PublishedOnce
<1>1. IInv /\ [Next]_vars => [PublishedStays]_vars
  <2> SUFFICES ASSUME IInv, Next PROVE PublishedStays OBVIOUS
  <2>1. PICK th \in Threads :
          \/ (RefStep(th) \/ SwarmStep(th) \/ LazyStep(th)) /\ UNCHANGED <<errorVars, holderVars>>
          \/ ErrorStep(th) /\ UNCHANGED holderVars
          \/ HolderStep(th)
    BY DEF Next
  <2> QED BY <2>1, RefStepPublished, SwarmStepPublished, LazyStepPublished, ErrorStepPublished,
             HolderStepPublished
<1>2. [PublishedStays]_vars <=>
        [\A o \in Objects : cls[o].lazy /\ field[o].counts /\ field'[o].counts => field'[o] = field[o]]_vars
  BY DEF PublishedStays
<1> QED BY <1>1, <1>2, Inductive, PTL DEF Spec, PublishedOnce
=============================================================================
