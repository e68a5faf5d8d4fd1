----------------------- MODULE ObjectLifetimeInvariant -----------------------
(***************************************************************************)
(* The inductive invariant of ObjectLifetime, and that the steps keep it   *)
(* that move references and make objects.  ObjectLifetimeProofs goes on    *)
(* with the steps that destroy.                                            *)
(***************************************************************************)
EXTENDS ObjectLifetime, SequenceTheorems, FiniteSetTheorems, TLAPS

(* Classes of objects that live in the container of another one. *)
Swarms == {SwarmObject, LinkedSwarmObject}
SwarmMembers == {SwarmMember, LinkedSwarmMember}
Members == SwarmMembers \cup {FixedSwarmMember}

(* The calls a thread may have to make. *)
Frames ==
  [call : {"Release", "Delete", "EndDelete", "ReleaseWeakRef", "FreeMember", "Free", "Place"},
   arg : Objects]
  \cup {ClearHolder}
  \cup [call : {"AssignWeak"}, arg : [m_ptr : Objects, m_weakRef : Objects]]
  \cup [call : {"Increment"}, arg : Slots, count : Nat]
  \cup [call : {"AddSwarmMember"}, arg : Objects, swarm : Objects, next : Seq(Objects), to : Slots]
  \cup [call : {"Publish"}, arg : Objects, new : Objects]

FramesTyped(td) == td \in [Threads -> Seq(Frames)]

(* A frame of the set C is on a stack, and is on the stacks once. *)
OccursIn(td, C) == \E th \in Threads : \E i \in DOMAIN td[th] : td[th][i] \in C
AtMostOnceIn(td, C) ==
  \A th, u \in Threads : \A i \in DOMAIN td[th], j \in DOMAIN td[u] :
    td[th][i] \in C /\ td[u][j] \in C => th = u /\ i = j
Occurs(C) == OccursIn(todo, C)

DyingFrames(o) == {Delete(o), EndDelete(o)}
Dying(o) == Occurs(DyingFrames(o))
MemberFrames(o) == {f \in Frames : f.call \in {"AddSwarmMember", "FreeMember"} /\ f.arg = o}

(* References that count: where they are, and the counter they count at. *)
StrongTokens ==
  ({"slot"} \X Slots) \cup ({"field"} \X Objects)
  \cup ({"maybe", "raw", "release", "publish"} \X Threads)
Ref(h) ==
  CASE h[1] = "slot"    -> strong[h[2]]
    [] h[1] = "field"   -> IF field[h[2]].counts THEN field[h[2]].m_ptr ELSE NoObj
    [] h[1] = "maybe"   -> maybe[h[2]].m_error
    [] h[1] = "raw"     -> IF raw[h[2]] # NoObj /\ cls[raw[h[2]]] # OwnedObject
                           THEN raw[h[2]] ELSE NoObj
    [] h[1] = "release" -> IF Calling(h[2], "Release") THEN Arg(h[2]) ELSE NoObj
    [] h[1] = "publish" -> IF Calling(h[2], "Publish") THEN Head(todo[h[2]]).new ELSE NoObj
StrongAt == [h \in StrongTokens |-> IF Ref(h) = NoObj THEN NoObj ELSE Counter(Ref(h))]

(* The weak counts: of the objects themselves, of WeakPtrs, of calls. *)
WeakTokens == ({"object"} \X Objects) \cup ({"weak"} \X Threads)
              \cup ({"call"} \X Threads \X Objects)
WeakAt ==
  [h \in WeakTokens |->
     CASE h[1] = "object" -> IF cls[h[2]] = FixedSwarm /\ m_refCount[h[2]] = 0
                             THEN NoObj ELSE weakRef[h[2]]
       [] h[1] = "weak"   -> weak[h[2]].m_weakRef
       [] h[1] = "call"   -> IF ReleaseWeakRef(h[3]) \in Range(todo[h[2]]) THEN h[3] ELSE NoObj]

(* The owners of an object that is not counted. *)
OwnerTokens == {"holder", "raw", "place", "free"} \X Threads
Last1(s) == s[Len(s)]
OwnerAt ==
  [h \in OwnerTokens |->
     CASE h[1] = "holder" -> holder[h[2]]
       [] h[1] = "raw"    -> IF raw[h[2]] # NoObj /\ cls[raw[h[2]]] = OwnedObject
                             THEN raw[h[2]] ELSE NoObj
       [] h[1] = "place"  -> IF todo[h[2]] # <<>> /\ Last1(todo[h[2]]).call = "Place"
                             THEN Last1(todo[h[2]]).arg ELSE NoObj
       [] h[1] = "free"   -> IF Calling(h[2], "Free") THEN Arg(h[2]) ELSE NoObj]
OwnerCount == [o \in Objects |-> IF cls[o] = OwnedObject /\ life[o] = "alive" THEN 1 ELSE 0]

At(f, b) == {h \in DOMAIN f : f[h] = b}
Exact(f, n) == \A b \in Objects : IsFiniteSet(At(f, b)) /\ n[b] = Cardinality(At(f, b))

StrongExact == Exact(StrongAt, m_refCount)
WeakExact == Exact(WeakAt, m_weakRefCount)
OwnerExact == Exact(OwnerAt, OwnerCount)

Pos(b) == m_refCount[b] > 0

(* What a reference that counts refers to. *)
Live(o) ==
  /\ o \in Objects
  /\ life[o] = "alive"
  /\ cls[o] # OwnedObject
  /\ ~Dying(o)
  /\ HasWeakRef(cls[o]) => weakRef[o] \in Objects /\ o \in Owned(weakRef[o])
RefsLive == \A h \in StrongTokens : Ref(h) # NoObj => Live(Ref(h))

WeakLive(w) ==
  \/ w = EmptyWeakPtr
  \/ /\ w.m_ptr \in Objects /\ w.m_weakRef \in Objects
     /\ cls[w.m_ptr].policy = "WeakRef"
     /\ cls[w.m_weakRef] # NoClass
     /\ w.m_ptr \in Owned(w.m_weakRef)
     /\ Pos(w.m_weakRef) => /\ life[w.m_ptr] = "alive" /\ weakRef[w.m_ptr] = w.m_weakRef
                            /\ ~Dying(w.m_ptr)
WeaksLive == \A th \in Threads : WeakLive(weak[th])

ClassOK(o) ==
  /\ cls[o] \in Classes \cup {NoClass}
  /\ cls[o] = NoClass <=> life[o] = "raw"
  /\ m_headMember[o] # <<>> => cls[o] \in Swarms
  /\ storage[o] # {} => cls[o] = FixedSwarm
  /\ cls[o].policy = "NoRefCount" => life[o] = "alive"
  /\ IsStatic(o) => cls[o].policy = "NoRefCount"
FieldOK(o) ==
  /\ field[o] # NullField => /\ life[o] = "alive"
                             /\ cls[o].takes \/ cls[o].links \/ cls[o].lazy
  /\ field[o].counts => /\ field[o].m_ptr # NoObj
                        /\ weakRef[o] = NoObj \/ weakRef[o] # weakRef[field[o].m_ptr]
WeakRefOK(o) ==
  /\ weakRef[o] # NoObj =>
       /\ HasWeakRef(cls[o])
       /\ IF weakRef[o] = o
          THEN cls[o] \notin Members
          ELSE \/ cls[weakRef[o]] \in Swarms /\ cls[o] \in SwarmMembers
               \/ cls[weakRef[o]] = FixedSwarm /\ cls[o] = FixedSwarmMember /\ o \in storage[weakRef[o]]
  /\ life[o] = "alive" /\ HasWeakRef(cls[o]) => weakRef[o] # NoObj
  /\ life[o] = "dead" => \/ Occurs({EndDelete(o)})
                         \/ HasWeakRef(cls[o]) /\ weakRef[o] = NoObj
ListsOK(b) ==
  /\ \A i \in DOMAIN m_headMember[b], j \in DOMAIN m_headMember[b] : m_headMember[b][i] = m_headMember[b][j] => i = j
  /\ \A m \in Range(m_headMember[b]) :
       /\ cls[m] \in SwarmMembers
       /\ weakRef[m] = b \/ (weakRef[m] = NoObj /\ life[m] = "dead")
       /\ Pos(b) => weakRef[m] = b /\ life[m] = "alive" /\ ~Dying(m)
       /\ ~Occurs(MemberFrames(m))
       /\ \A d \in Objects : m \in Range(m_headMember[d]) => d = b
  /\ \A m \in storage[b] :
       /\ cls[m] = FixedSwarmMember
       /\ weakRef[m] = b \/ (weakRef[m] = NoObj /\ life[m] = "dead")
       /\ \A d \in Objects : m \in storage[d] => d = b
CountsOK(o) ==
  /\ Pos(o) => life[o] = "alive" /\ ~Dying(o) /\ Counter(o) = o
  /\ life[o] = "alive" /\ cls[o].policy \in {"Simple", "WeakRef"} /\ ~Pos(Counter(o)) => Occurs({Delete(o)})
  /\ m_weakRefCount[o] > 0 <=> HasWeakRef(cls[o]) /\ cls[o] \notin Members
  /\ cls[o] \in Members => \/ \E b \in Objects : o \in Range(m_headMember[b]) \cup storage[b]
                           \/ Occurs(MemberFrames(o))

Onces == \A o \in Objects : AtMostOnceIn(todo, DyingFrames(o)) /\ AtMostOnceIn(todo, MemberFrames(o))

HoldsOnly(th, b) ==
  /\ \E s \in Own(th) : strong[s] = b
  /\ \A h \in StrongTokens : Ref(h) = b => h[1] = "slot" /\ h[2] \in Own(th)
HoldsSwarm(th, b) == \E s \in Own(th) : strong[s] # NoObj /\ weakRef[strong[s]] = b

(* The constructor of o threw: nobody else has a reference to it.          *)
Throwing(th, o) ==
  /\ weakRef[o] # o
  /\ \/ Len(todo[th]) = 2 /\ todo[th][2] = FreeMember(o)
     \/ Len(todo[th]) = 1 /\ cls[o] = FixedSwarmMember /\ HoldsOnly(th, weakRef[o])

DyingOK(th, i, o) ==
  cls[o].policy = "WeakRef" => /\ weakRef[o] # NoObj
                               /\ Pos(weakRef[o]) => i = 1 /\ Throwing(th, o)

FrameOK(th, i) ==
  LET f == todo[th][i]
      n == Len(todo[th])
  IN /\ f.call = "Release" => i = 1
     /\ f.call = "Delete" => /\ life[f.arg] = "alive"
                             /\ cls[f.arg].policy \in {"Simple", "WeakRef"}
                             /\ DyingOK(th, i, f.arg)
     /\ f.call = "EndDelete" => /\ life[f.arg] = "dead"
                                /\ cls[f.arg].policy \in {"Simple", "WeakRef", "Owned"}
                                /\ DyingOK(th, i, f.arg)
     /\ f.call = "ReleaseWeakRef" =>
          \A j \in 1..(i-1) : /\ todo[th][j].call \in {"Delete", "EndDelete"}
                              /\ cls[todo[th][j].arg] = FixedSwarmMember
     /\ f.call = "FreeMember" =>
          /\ i = n
          /\ cls[f.arg] = SwarmMember
          /\ \/ i = 1 /\ weakRef[f.arg] = NoObj /\ life[f.arg] = "dead"
             \/ /\ i = 2 /\ todo[th][1] \in {Delete(f.arg), EndDelete(f.arg)}
                /\ HoldsSwarm(th, weakRef[f.arg])
     /\ f.call = "AssignWeak" =>
          /\ i = n /\ (i = 1 \/ (i = 2 /\ todo[th][1].call = "ReleaseWeakRef"))
          /\ weak[th] = EmptyWeakPtr
          /\ cls[f.arg.m_ptr].policy = "WeakRef"
          /\ weakRef[f.arg.m_ptr] = f.arg.m_weakRef
          /\ \E s \in Own(th) : strong[s] = f.arg.m_ptr
     /\ f.call = "Increment" =>
          /\ i = 1 /\ n = 1
          /\ f.arg \in Own(th) /\ strong[f.arg] = NoObj
          /\ weak[th] # EmptyWeakPtr
     /\ f.call = "AddSwarmMember" =>
          /\ i = 1 /\ n = 1
          /\ f.to \in Own(th)
          /\ cls[f.arg] \in SwarmMembers /\ life[f.arg] = "alive" /\ ~Dying(f.arg)
          /\ weakRef[f.arg] = f.swarm
          /\ HoldsSwarm(th, f.swarm)
     /\ f.call = "Publish" =>
          /\ i = 1 /\ n = 1
          /\ cls[f.arg].lazy
          /\ cls[f.new] = RefCountedObject
          /\ \E s \in Own(th) : strong[s] = f.arg
     /\ f.call = "ClearHolder" => i = 1
     /\ f.call = "Place" => i = n /\ (holder[th] = NoObj \/ todo[th][1] = ClearHolder)
     /\ f.call = "Free" => i = 1
FramesOK == \A th \in Threads : \A i \in DOMAIN todo[th] : FrameOK(th, i)

(* The members of a FixedSwarm are destroyed before its weak count goes. *)
Cascade(th, i) ==
  todo[th][i].call \in {"Delete", "EndDelete"} /\ cls[todo[th][i].arg] = FixedSwarmMember =>
    \/ Pos(weakRef[todo[th][i].arg])
    \/ \E k \in DOMAIN todo[th] : k > i /\ todo[th][k] = ReleaseWeakRef(weakRef[todo[th][i].arg])
Cascades == \A th \in Threads : \A i \in DOMAIN todo[th] : Cascade(th, i)

Reports ==
  \A e \in Objects :
    /\ e \in reported => life[e] = "dead" /\ cls[e] = ErrorCodeState
    /\ cls[e] = ErrorCodeState /\ life[e] = "dead" => (e \in reported <=> e \notin handled)
-----------------------------------------------------------------------------
(* The classes: what a policy or a trait says about the class. *)
LEMMA ClassFacts ==
  /\ \A c \in Classes \cup {NoClass} :
       /\ c.policy \in {"Simple", "WeakRef", "FixedSwarm", "NoRefCount", "Owned", "Free"}
       /\ c.policy = "Free" <=> c = NoClass
       /\ c.policy = "FixedSwarm" <=> c = FixedSwarm
       /\ c.policy = "Owned" <=> c = OwnedObject
       /\ c \in Members => c.policy = "WeakRef" /\ ~c.takes /\ ~c.lazy
       /\ c \in Members /\ c.links => c = LinkedSwarmMember
       /\ c \in Swarms => c.policy = "WeakRef" /\ c \notin Members
       /\ c.weak => c.policy = "WeakRef"
       /\ c.keeps => c.policy = "WeakRef"
       /\ c.lazy => c.policy = "Simple" /\ c # RefCountedObject
       /\ c.links => c \in {LinkedSwarmObject, LinkedSwarmMember}
       /\ c.takes => c.policy \in {"Simple", "WeakRef"} /\ c \notin Swarms \cup Members
  /\ NoClass \notin Classes
  /\ RefCountedObject \in Classes /\ RefCountedObject.policy = "Simple"
  /\ ErrorCodeState \in Classes /\ ErrorCodeState.policy = "Simple"
  /\ FutureImpl \in Classes /\ FutureImpl.policy = "WeakRef"
  /\ FixedSwarm \in Classes /\ OwnedObject \in Classes
  /\ SwarmMembers \subseteq Classes /\ FixedSwarmMember \in Classes
  /\ FixedSwarmMember \notin SwarmMembers /\ ~FixedSwarmMember.links /\ ~SwarmMember.links
  /\ FixedSwarm \notin Swarms \cup Members
<1> USE DEF Classes, Class, NoClass, Members, SwarmMembers, Swarms, RefCountedWrapper,
       RefCountedObject, WeakRefCountedObject, NoVTableObject, NoRefCountObject, UnknownObject,
       WeakUnknownObject, NoQueryObject, AgileUnknownObject, SwarmObject, SwarmMember,
       LinkedSwarmObject, LinkedSwarmMember, LazyInitOwner, ErrorCodeState,
       FunctionObjectWrapper, FixedSwarm, FixedSwarmMember, FunctionPointerWrapper,
       FutureImpl, OwnedObject
<1>1. \A c \in Classes \cup {NoClass} :
       /\ c.policy \in {"Simple", "WeakRef", "FixedSwarm", "NoRefCount", "Owned", "Free"}
       /\ c.policy = "Free" <=> c = NoClass
       /\ c.policy = "FixedSwarm" <=> c = FixedSwarm
       /\ c.policy = "Owned" <=> c = OwnedObject
  OBVIOUS
<1>2. \A c \in Classes \cup {NoClass} :
       /\ c \in Members => c.policy = "WeakRef"
       /\ c \in Swarms => c.policy = "WeakRef" /\ c \notin Members
  OBVIOUS
<1>3. \A c \in Members : ~c.takes /\ ~c.lazy /\ (c.links => c = LinkedSwarmMember)
  <2>1. ~SwarmMember.takes /\ ~SwarmMember.lazy /\ ~SwarmMember.links OBVIOUS
  <2>2. ~LinkedSwarmMember.takes /\ ~LinkedSwarmMember.lazy OBVIOUS
  <2>3. ~FixedSwarmMember.takes /\ ~FixedSwarmMember.lazy /\ ~FixedSwarmMember.links OBVIOUS
  <2>4. \A c \in Members : c \in {SwarmMember, LinkedSwarmMember, FixedSwarmMember}
    BY DEF Members, SwarmMembers
  <2> HIDE DEF SwarmMember, LinkedSwarmMember, FixedSwarmMember, Members, SwarmMembers
  <2> QED BY <2>1, <2>2, <2>3, <2>4
<1> DEFINE Fits(c) == /\ c.weak => c.policy = "WeakRef"
                      /\ c.keeps => c.policy = "WeakRef"
                      /\ c.lazy => c.policy = "Simple" /\ c # RefCountedObject
                      /\ c.links => c \in {LinkedSwarmObject, LinkedSwarmMember}
                      /\ c.takes => c.policy \in {"Simple", "WeakRef"} /\ c \notin Swarms \cup Members
<1>4. \A c \in Classes \cup {NoClass} : Fits(c)
  <2>1. Fits(RefCountedWrapper) /\ Fits(RefCountedObject) /\ Fits(WeakRefCountedObject) /\ Fits(NoVTableObject)
    OBVIOUS
  <2>2. Fits(NoRefCountObject) /\ Fits(UnknownObject) /\ Fits(WeakUnknownObject) /\ Fits(NoQueryObject)
    OBVIOUS
  <2>3. Fits(AgileUnknownObject) /\ Fits(SwarmObject) /\ Fits(SwarmMember) /\ Fits(LinkedSwarmObject)
    OBVIOUS
  <2>4. Fits(LinkedSwarmMember) /\ Fits(LazyInitOwner) /\ Fits(ErrorCodeState) /\ Fits(FunctionObjectWrapper)
    OBVIOUS
  <2>5. Fits(FixedSwarm) /\ Fits(FixedSwarmMember) /\ Fits(FunctionPointerWrapper) /\ Fits(FutureImpl)
    OBVIOUS
  <2>6. Fits(OwnedObject) /\ Fits(NoClass)
    OBVIOUS
  <2> HIDE DEF Fits, NoClass, RefCountedWrapper,
       RefCountedObject, WeakRefCountedObject, NoVTableObject, NoRefCountObject, UnknownObject,
       WeakUnknownObject, NoQueryObject, AgileUnknownObject, SwarmObject, SwarmMember,
       LinkedSwarmObject, LinkedSwarmMember, LazyInitOwner, ErrorCodeState,
       FunctionObjectWrapper, FixedSwarm, FixedSwarmMember, FunctionPointerWrapper,
       FutureImpl, OwnedObject
  <2> QED BY <2>1, <2>2, <2>3, <2>4, <2>5, <2>6 DEF Classes
<1>5. /\ NoClass \notin Classes
      /\ RefCountedObject \in Classes /\ RefCountedObject.policy = "Simple"
      /\ ErrorCodeState \in Classes /\ ErrorCodeState.policy = "Simple"
      /\ FutureImpl \in Classes /\ FutureImpl.policy = "WeakRef"
      /\ FixedSwarm \in Classes /\ OwnedObject \in Classes
  OBVIOUS
<1>6. /\ SwarmMembers \subseteq Classes /\ FixedSwarmMember \in Classes
       /\ FixedSwarmMember \notin SwarmMembers /\ ~FixedSwarmMember.links /\ ~SwarmMember.links
       /\ FixedSwarm \notin Swarms \cup Members
  OBVIOUS
<1> HIDE DEF Classes, Class, NoClass, Members, SwarmMembers, Swarms, RefCountedWrapper,
       RefCountedObject, WeakRefCountedObject, NoVTableObject, NoRefCountObject, UnknownObject,
       WeakUnknownObject, NoQueryObject, AgileUnknownObject, SwarmObject, SwarmMember,
       LinkedSwarmObject, LinkedSwarmMember, LazyInitOwner, ErrorCodeState,
       FunctionObjectWrapper, FixedSwarm, FixedSwarmMember, FunctionPointerWrapper,
       FutureImpl, OwnedObject
<1> QED BY <1>1, <1>2, <1>3, <1>4, <1>5, <1>6

(* A set of numbers that is not empty has a least element. *)
LEMMA LeastNumber ==
  ASSUME NEW T \in SUBSET Nat, T # {}
  PROVE  \E x \in T : \A y \in T : x <= y
<1> DEFINE R == {ss \in Nat \X Nat : ss[1] < ss[2]}
<1>1. IsWellFoundedOn(R, Nat) BY NatLessThanWellFounded DEF OpToRel
<1>2. \A x, y \in Nat : x < y => <<x, y>> \in R
  <2> SUFFICES ASSUME NEW x \in Nat, NEW y \in Nat, x < y PROVE <<x, y>> \in R OBVIOUS
  <2>1. <<x, y>>[1] < <<x, y>>[2] OBVIOUS
  <2>2. <<x, y>> \in Nat \X Nat OBVIOUS
  <2> QED BY <2>1, <2>2
<1> HIDE DEF R
<1>3. PICK x \in T : \A y \in T : ~(<<y, x>> \in R) BY <1>1, WFMin
<1>4. \A y \in T : ~(y < x)
  <2> TAKE y \in T
  <2>1. y \in Nat /\ x \in Nat OBVIOUS
  <2> QED BY <1>2, <1>3, <2>1
<1>5. \A y \in T : y \in Nat /\ x \in Nat OBVIOUS
<1> QED BY <1>4, <1>5

(* A finite one has a greatest element: the one with the fewest above it. *)
LEMMA GreatestNumber ==
  ASSUME NEW T \in SUBSET Nat, T # {}, IsFiniteSet(T)
  PROVE  \E x \in T : \A y \in T : y <= x
<1> DEFINE Above(x) == {y \in T : x < y}
           N == {Cardinality(Above(x)) : x \in T}
<1>1. \A x \in T : IsFiniteSet(Above(x)) /\ Cardinality(Above(x)) \in Nat
  <2> TAKE x \in T
  <2>1. Above(x) \in SUBSET T OBVIOUS
  <2> QED BY <2>1, FS_Subset, FS_CardinalityType
<1>2. N \in SUBSET Nat /\ N # {} BY <1>1
<1>3. PICK n \in N : \A k \in N : n <= k BY <1>2, LeastNumber
<1>4. PICK x \in T : n = Cardinality(Above(x)) BY <1>3
<1>5. ASSUME NEW y \in T, x < y PROVE FALSE
  <2>0. \A z \in T : z \in Nat OBVIOUS
  <2>1. Above(y) \in SUBSET Above(x) /\ y \in Above(x) /\ y \notin Above(y)
    <3>1. \A z \in T : y < z => x < z BY <1>5, <2>0
    <3>2. ~(y < y) BY <2>0
    <3> QED BY <1>5, <3>1, <3>2
  <2>2. Cardinality(Above(y)) # Cardinality(Above(x))
    <3> HIDE DEF Above
    <3>1. Above(y) # Above(x) BY <2>1
    <3> QED BY <1>1, <2>1, <3>1, FS_Subset
  <2>3. Cardinality(Above(y)) <= Cardinality(Above(x)) BY <1>1, <2>1, FS_Subset
  <2>4. Cardinality(Above(x)) <= Cardinality(Above(y)) BY <1>3, <1>4
  <2>5. Cardinality(Above(x)) \in Nat /\ Cardinality(Above(y)) \in Nat BY <1>1
  <2> QED BY <2>2, <2>3, <2>4, <2>5
<1>6. \A y \in T : x \in Nat /\ y \in Nat OBVIOUS
<1> QED BY <1>5, <1>6

(* The static instance has an address. *)
LEMMA MaxObject == Max(Objects) \in Objects
<1>1. \E x \in Objects : \A y \in Objects : y <= x BY GreatestNumber, RefCountingAssumption
<1>2. \E x \in Objects : \A y \in Objects : x >= y BY <1>1, RefCountingAssumption
<1> QED BY <1>2 DEF Max

(* The allocator finds free memory when there is some. *)
LEMMA AllocatedFree ==
  ASSUME program \in Programs, FreeMemory # {}
  PROVE  Allocated \in Objects /\ cls[Allocated] = NoClass
<1>1. FreeMemory \in SUBSET Nat BY RefCountingAssumption DEF FreeMemory
<1>2. \E x \in FreeMemory : \A y \in FreeMemory : x <= y BY <1>1, LeastNumber
<1>3. Allocated \in FreeMemory BY <1>2 DEF Allocated, Min
<1> QED BY <1>3, RefCountingAssumption DEF FreeMemory

(* The members of a FixedSwarm have an order: that of their addresses. *)
LEMMA InOrderSeq ==
  ASSUME NEW S \in SUBSET Objects
  PROVE  /\ InOrder(S) \in Seq(S)
         /\ \A i, j \in DOMAIN InOrder(S) : InOrder(S)[i] = InOrder(S)[j] => i = j
         /\ Range(InOrder(S)) = S
<1>1. IsFiniteSet(S) /\ \A x \in S : x \in Nat BY FS_Subset, RefCountingAssumption
<1> DEFINE n == Cardinality(S)
           Upto(x) == {y \in S : y <= x}
           rank == [x \in S |-> Cardinality(Upto(x))]
           Sorts(f) == \A i, j \in DOMAIN f : i < j => f[i] < f[j]
<1>2. n \in Nat /\ IsFiniteSet(1..n) /\ Cardinality(1..n) = n
  <2>1. n \in Nat BY <1>1, FS_CardinalityType
  <2>2. IsFiniteSet(1..n) /\ Cardinality(1..n) = IF 1 > n THEN 0 ELSE n-1+1 BY <2>1, FS_Interval
  <2> HIDE DEF n
  <2> QED BY <2>1, <2>2
<1>3. \A x \in S : IsFiniteSet(Upto(x)) /\ Cardinality(Upto(x)) \in 1..n
  <2> TAKE x \in S
  <2>1. Upto(x) \in SUBSET S /\ x \in Upto(x) BY <1>1
  <2>2. IsFiniteSet(Upto(x)) /\ Cardinality(Upto(x)) <= n BY <1>1, <2>1, FS_Subset
  <2>3. Cardinality(Upto(x)) \in Nat BY <2>2, FS_CardinalityType
  <2>4. Cardinality(Upto(x)) # 0
    <3> HIDE DEF Upto
    <3>1. Upto(x) # {} BY <2>1
    <3> QED BY <2>2, <3>1, FS_EmptySet
  <2> HIDE DEF Upto, n
  <2> QED BY <1>2, <2>2, <2>3, <2>4
<1>4. \A x, y \in S : x < y => rank[x] < rank[y]
  <2> SUFFICES ASSUME NEW x \in S, NEW y \in S, x < y PROVE rank[x] < rank[y] OBVIOUS
  <2>1. Upto(x) \in SUBSET Upto(y) /\ y \in Upto(y) /\ y \notin Upto(x) BY <1>1
  <2>2. Cardinality(Upto(x)) <= Cardinality(Upto(y)) BY <1>3, <2>1, FS_Subset
  <2>3. Cardinality(Upto(x)) # Cardinality(Upto(y))
    <3> HIDE DEF Upto
    <3>1. Upto(x) # Upto(y) BY <2>1
    <3> QED BY <1>3, <2>1, <3>1, FS_Subset
  <2>4. Cardinality(Upto(x)) \in 1..n /\ Cardinality(Upto(y)) \in 1..n BY <1>3
  <2> HIDE DEF Upto, n
  <2> QED BY <1>2, <2>2, <2>3, <2>4
<1>5. rank \in Surjection(S, 1..n)
  <2>1. rank \in [S -> 1..n] BY <1>3
  <2>2. \A x, y \in S : rank[x] = rank[y] => x = y
    <3> SUFFICES ASSUME NEW x \in S, NEW y \in S, rank[x] = rank[y] PROVE x = y OBVIOUS
    <3>1. rank[x] \in Nat /\ rank[y] \in Nat /\ x \in Nat /\ y \in Nat BY <1>1, <1>2, <2>1
    <3> HIDE DEF rank
    <3> QED BY <1>4, <3>1
  <2>3. rank \in Injection(S, 1..n) BY <2>1, <2>2 DEF Injection, IsInjective
  <2> HIDE DEF rank
  <2> QED BY <1>1, <1>2, <2>3, FS_Injection
<1>6. \E f \in [1..n -> S] : Sorts(f)
  <2> DEFINE f == [i \in 1..n |-> CHOOSE x \in S : rank[x] = i]
  <2>1. \A i \in 1..n : f[i] \in S /\ rank[f[i]] = i
    <3> HIDE DEF rank, n
    <3>1. \A i \in 1..n : \E x \in S : rank[x] = i BY <1>5 DEF Surjection
    <3> QED BY <3>1
  <2>2. f \in [1..n -> S] BY <2>1
  <2>3. \A i, j \in 1..n : i < j => f[i] < f[j]
    <3> SUFFICES ASSUME NEW i \in 1..n, NEW j \in 1..n, i < j PROVE f[i] < f[j] OBVIOUS
    <3>1. f[i] \in S /\ f[j] \in S /\ rank[f[i]] = i /\ rank[f[j]] = j BY <2>1
    <3> HIDE DEF f, rank
    <3>2. f[i] \in Nat /\ f[j] \in Nat BY <1>1, <3>1
    <3>3. ~(f[j] < f[i]) BY <1>4, <3>1, <1>2
    <3>4. f[i] # f[j] BY <3>1, <1>2
    <3> QED BY <3>2, <3>3, <3>4
  <2> HIDE DEF f
  <2>4. Sorts(f) BY <2>2, <2>3
  <2> QED BY <2>2, <2>4
<1>7. InOrder(S) \in [1..n -> S] /\ Sorts(InOrder(S)) BY <1>6 DEF InOrder
<1>8. \A i, j \in 1..n : InOrder(S)[i] = InOrder(S)[j] => i = j
  <2> SUFFICES ASSUME NEW i \in 1..n, NEW j \in 1..n, InOrder(S)[i] = InOrder(S)[j] PROVE i = j
    OBVIOUS
  <2>1. InOrder(S)[i] \in Nat /\ InOrder(S)[j] \in Nat BY <1>1, <1>7
  <2> QED BY <1>2, <1>7, <2>1
<1>9. InOrder(S) \in Surjection(1..n, S)
  <2>1. InOrder(S) \in Injection(1..n, S) BY <1>7, <1>8 DEF Injection, IsInjective
  <2> QED BY <1>1, <1>2, <2>1, FS_Injection
<1> HIDE DEF n
<1>10. InOrder(S) \in Seq(S) /\ DOMAIN InOrder(S) = 1..n BY <1>2, <1>7
<1>11. Range(InOrder(S)) = S BY <1>7, <1>9 DEF Surjection, Range
<1> QED BY <1>8, <1>10, <1>11

(* The count of b goes up, or down. *)
Plus1(m, n, b) == m[b] = n[b] + 1 /\ \A x \in Objects : x # b => m[x] = n[x]
Minus1(m, n, b) == m[b] = n[b] - 1 /\ \A x \in Objects : x # b => m[x] = n[x]

(* Counting: one place more refers to b, one less, two swap. *)
LEMMA ExactAdd ==
  ASSUME NEW f, NEW g, DOMAIN g = DOMAIN f, NEW n, Exact(f, n),
         NEW h \in DOMAIN f, NEW b \in Objects, f[h] \notin Objects, g[h] = b,
         \A k \in DOMAIN f : k # h => g[k] = f[k], NEW m, Plus1(m, n, b)
  PROVE  Exact(g, m)
<1> SUFFICES ASSUME NEW x \in Objects
             PROVE  /\ IsFiniteSet(At(g, x))
                    /\ m[x] = Cardinality(At(g, x))
  BY DEF Exact
<1>1. IsFiniteSet(At(f, x)) /\ n[x] = Cardinality(At(f, x)) BY DEF Exact
<1>2. CASE x = b
  <2>1. At(g, x) = At(f, x) \cup {h} /\ h \notin At(f, x) BY <1>2 DEF At
  <2> QED BY <1>1, <1>2, <2>1, FS_AddElement DEF Plus1
<1>3. CASE x # b
  <2>1. At(g, x) = At(f, x) BY <1>3 DEF At
  <2> QED BY <1>1, <1>3, <2>1 DEF Plus1
<1> QED BY <1>2, <1>3

(* One place less. *)
LEMMA ExactDrop ==
  ASSUME NEW f, NEW g, DOMAIN g = DOMAIN f, NEW n, Exact(f, n),
         NEW h \in DOMAIN f, NEW b \in Objects, f[h] = b, g[h] \notin Objects,
         \A k \in DOMAIN f : k # h => g[k] = f[k], NEW m, Minus1(m, n, b)
  PROVE  Exact(g, m) /\ n[b] > 0
<1>0. ASSUME NEW x \in Objects
      PROVE  /\ IsFiniteSet(At(g, x))
             /\ m[x] = Cardinality(At(g, x))
  <2>1. IsFiniteSet(At(f, x)) /\ n[x] = Cardinality(At(f, x)) BY DEF Exact
  <2>2. CASE x = b
    <3>1. At(g, x) = At(f, x) \ {h} /\ h \in At(f, x) BY <2>2 DEF At
    <3> QED BY <2>1, <2>2, <3>1, FS_RemoveElement DEF Minus1
  <2>3. CASE x # b
    <3>1. At(g, x) = At(f, x) BY <2>3 DEF At
    <3> QED BY <2>1, <2>3, <3>1 DEF Minus1
  <2> QED BY <2>2, <2>3
<1>1. IsFiniteSet(At(f, b)) /\ n[b] = Cardinality(At(f, b)) /\ h \in At(f, b) BY DEF Exact, At
<1>2. n[b] # 0 /\ n[b] \in Nat BY <1>1, FS_EmptySet, FS_CardinalityType
<1>3. Exact(g, m) BY <1>0 DEF Exact
<1> QED BY <1>2, <1>3

(* Two places swap what they refer to. *)
LEMMA ExactSwap ==
  ASSUME NEW f, NEW g, DOMAIN g = DOMAIN f, NEW n, Exact(f, n),
         NEW h \in DOMAIN f, NEW k \in DOMAIN f, f[h] = g[k], f[k] = g[h],
         \A l \in DOMAIN f : l \notin {h, k} => g[l] = f[l]
  PROVE  Exact(g, n)
<1> SUFFICES ASSUME NEW x \in Objects
             PROVE  IsFiniteSet(At(g, x)) /\ n[x] = Cardinality(At(g, x))
  BY DEF Exact
<1>1. IsFiniteSet(At(f, x)) /\ n[x] = Cardinality(At(f, x)) BY DEF Exact
<1>2. CASE f[h] = x <=> f[k] = x
  <2>1. At(g, x) = At(f, x) BY <1>2 DEF At
  <2> QED BY <1>1, <2>1
<1>3. ASSUME NEW a \in {h, k}, NEW c \in {h, k}, f[a] = x, f[c] # x
      PROVE  IsFiniteSet(At(g, x)) /\ n[x] = Cardinality(At(g, x))
  <2>1. At(g, x) = (At(f, x) \ {a}) \cup {c} BY <1>3 DEF At
  <2>2. a \in At(f, x) /\ c \notin At(f, x) \ {a} BY <1>3 DEF At
  <2>3. Cardinality(At(f, x)) \in Nat BY <1>1, FS_CardinalityType
  <2>4. /\ IsFiniteSet(At(f, x) \ {a})
        /\ Cardinality(At(f, x) \ {a}) = Cardinality(At(f, x)) - 1
    BY <1>1, <2>2, FS_RemoveElement
  <2>5. /\ IsFiniteSet((At(f, x) \ {a}) \cup {c})
        /\ Cardinality((At(f, x) \ {a}) \cup {c}) = Cardinality(At(f, x) \ {a}) + 1
    BY <2>2, <2>4, FS_AddElement
  <2> QED BY <1>1, <2>1, <2>3, <2>4, <2>5
<1> QED BY <1>2, <1>3

(* The same places, the same count. *)
LEMMA ExactSame ==
  ASSUME NEW f, NEW g, DOMAIN g = DOMAIN f, NEW n, Exact(f, n), \A l \in DOMAIN f : g[l] = f[l]
  PROVE  Exact(g, n)
<1>1. \A x \in Objects : At(g, x) = At(f, x) BY DEF At
<1> QED BY <1>1 DEF Exact

(* A count is zero when no place refers to it, and only then. *)
LEMMA ExactZero ==
  ASSUME NEW f, NEW n, Exact(f, n), NEW b \in Objects
  PROVE  /\ n[b] \in Nat
         /\ n[b] = 0 <=> \A h \in DOMAIN f : f[h] # b
         /\ n[b] = 1 => \A h, k \in DOMAIN f : f[h] = b /\ f[k] = b => h = k
<1>1. IsFiniteSet(At(f, b)) /\ n[b] = Cardinality(At(f, b)) BY DEF Exact
<1>2. n[b] \in Nat BY <1>1, FS_CardinalityType
<1>3. n[b] = 0 <=> At(f, b) = {} BY <1>1, FS_EmptySet
<1>4. n[b] = 1 => \E x : At(f, b) = {x} BY <1>1, FS_Singleton
<1>5. n[b] = 1 => \A h, k \in At(f, b) : h = k BY <1>4
<1> QED BY <1>2, <1>3, <1>5 DEF At
-----------------------------------------------------------------------------
(* A thread replaces the top of its stack, or starts on an empty one. *)
Rest(s) == IF s = <<>> THEN <<>> ELSE Tail(s)
StackStep(th, p) == todo' = [todo EXCEPT ![th] = p \o Rest(todo[th])]

(* What is where on the new stack q. *)
Stacked(s, p, q) ==
  /\ q \in Seq(Frames)
  /\ Len(q) = Len(p) + (IF s = <<>> THEN 0 ELSE Len(s) - 1)
  /\ \A i \in DOMAIN p : i \in DOMAIN q /\ q[i] = p[i]
  /\ \A i \in DOMAIN s : i # 1 => /\ i + Len(p) - 1 \in DOMAIN q
                                  /\ q[i + Len(p) - 1] = s[i]
  /\ \A i \in DOMAIN q : i \notin DOMAIN p => /\ i - Len(p) + 1 \in DOMAIN s
                                             /\ i - Len(p) + 1 # 1
                                             /\ q[i] = s[i - Len(p) + 1]

(* The new calls are on top of the old ones. *)
LEMMA StackShape ==
  ASSUME NEW s \in Seq(Frames), NEW p \in Seq(Frames), NEW q, q = p \o Rest(s)
  PROVE  Stacked(s, p, q)
<1>1. CASE s = <<>>
  <2>1. q = p BY <1>1 DEF Rest
  <2>2. \A i : i \notin DOMAIN s BY <1>1
  <2>3. Len(p) = Len(p) + 0 BY LenProperties
  <2> QED BY <1>1, <2>1, <2>2, <2>3 DEF Stacked
<1>2. CASE s # <<>>
  <2> DEFINE t == Tail(s)
  <2>1. t \in Seq(Frames) /\ Len(t) = Len(s) - 1 /\ \A i \in 1..Len(t) : t[i] = s[i+1]
    BY <1>2, HeadTailProperties
  <2>2. q = p \o t BY <1>2 DEF Rest
  <2> HIDE DEF t
  <2>3. q \in Seq(Frames) /\ Len(q) = Len(p) + Len(t) BY <2>1, <2>2, ConcatProperties
  <2>4. \A i \in 1..Len(p) + Len(t) : q[i] = IF i <= Len(p) THEN p[i] ELSE t[i - Len(p)]
    BY <2>1, <2>2, ConcatProperties
  <2>5. DOMAIN p = 1..Len(p) /\ DOMAIN s = 1..Len(s) /\ DOMAIN q = 1..(Len(p) + Len(t))
        /\ Len(p) \in Nat /\ Len(s) \in Nat /\ Len(t) \in Nat /\ Len(s) >= 1
    BY <1>2, <2>1, <2>3
  <2>6. ASSUME NEW i \in DOMAIN s, i # 1
        PROVE  i + Len(p) - 1 \in DOMAIN q /\ q[i + Len(p) - 1] = s[i]
    <3>1. i - 1 \in 1..Len(t) /\ i + Len(p) - 1 \in 1..Len(p) + Len(t)
          /\ ~(i + Len(p) - 1 <= Len(p)) /\ (i + Len(p) - 1) - Len(p) = i - 1 /\ (i - 1) + 1 = i
      BY <2>1, <2>5, <2>6
    <3>2. q[i + Len(p) - 1] = t[i - 1] BY <2>4, <3>1
    <3> QED BY <2>1, <2>5, <3>1, <3>2
  <2>7. ASSUME NEW i \in DOMAIN q, i \notin DOMAIN p
        PROVE  /\ i - Len(p) + 1 \in DOMAIN s /\ i - Len(p) + 1 # 1
               /\ q[i] = s[i - Len(p) + 1]
    <3>1. /\ i - Len(p) \in 1..Len(t) /\ ~(i <= Len(p)) /\ i \in 1..Len(p) + Len(t)
          /\ i - Len(p) + 1 \in 1..Len(s) /\ i - Len(p) + 1 # 1
      BY <2>1, <2>5, <2>7
    <3>2. q[i] = t[i - Len(p)] BY <2>4, <3>1
    <3>3. t[i - Len(p)] = s[i - Len(p) + 1] BY <2>1, <3>1
    <3> QED BY <2>5, <3>1, <3>2, <3>3
  <2>8. \A i \in DOMAIN p : i \in DOMAIN q /\ q[i] = p[i] BY <2>4, <2>5
  <2> QED BY <1>2, <2>1, <2>3, <2>6, <2>7, <2>8 DEF Stacked
<1> QED BY <1>1, <1>2

(* The stacks after a step. *)
LEMMA StackAfter ==
  ASSUME FramesTyped(todo), NEW th \in Threads, NEW p \in Seq(Frames), StackStep(th, p)
  PROVE  /\ FramesTyped(todo')
         /\ \A u \in Threads : u # th => todo'[u] = todo[u]
         /\ Stacked(todo[th], p, todo'[th])
<1> DEFINE s == todo[th]
           q == todo'[th]
<1>1. s \in Seq(Frames) /\ q = p \o Rest(s) BY DEF FramesTyped, StackStep
<1>2. Stacked(s, p, q)
  <2> HIDE DEF s, q
  <2> QED BY <1>1, StackShape
<1>3. FramesTyped(todo') /\ \A u \in Threads : u # th => todo'[u] = todo[u]
  BY <1>1, <1>2 DEF StackStep, FramesTyped, Stacked
<1> QED BY <1>2, <1>3

(* A step that neither takes nor pushes a frame of C. *)
LEMMA OccursKept ==
  ASSUME FramesTyped(todo), NEW th \in Threads, NEW p \in Seq(Frames), StackStep(th, p), NEW C,
         todo[th] = <<>> \/ todo[th][1] \notin C, \A i \in DOMAIN p : p[i] \notin C
  PROVE  /\ OccursIn(todo', C) <=> OccursIn(todo, C)
         /\ AtMostOnceIn(todo, C) => AtMostOnceIn(todo', C)
<1>0. todo[th] \in Seq(Frames) /\ DOMAIN todo[th] = 1..Len(todo[th]) /\ Len(p) \in Nat
  BY DEF FramesTyped
<1>1. ASSUME OccursIn(todo', C) PROVE OccursIn(todo, C)
  <2>1. PICK u \in Threads : \E i \in DOMAIN todo'[u] : todo'[u][i] \in C BY <1>1 DEF OccursIn
  <2>2. CASE u = th
    <3>1. PICK i \in DOMAIN todo'[th] : todo'[th][i] \in C BY <2>1, <2>2
    <3>2. i \notin DOMAIN p BY <3>1, StackAfter DEF Stacked
    <3>3. i - Len(p) + 1 \in DOMAIN todo[th] /\ todo[th][i - Len(p) + 1] \in C
      BY <3>1, <3>2, StackAfter DEF Stacked
    <3> QED BY <3>3 DEF OccursIn
  <2>3. CASE u # th
    <3>1. todo'[u] = todo[u] BY <2>3, StackAfter DEF Stacked
    <3> QED BY <2>1, <3>1 DEF OccursIn
  <2> QED BY <2>2, <2>3
<1>2. ASSUME OccursIn(todo, C) PROVE OccursIn(todo', C)
  <2>1. PICK u \in Threads : \E i \in DOMAIN todo[u] : todo[u][i] \in C BY <1>2 DEF OccursIn
  <2>2. CASE u = th
    <3>1. PICK i \in DOMAIN todo[th] : todo[th][i] \in C BY <2>1, <2>2
    <3>2. i # 1 BY <3>1, <1>0
    <3> QED BY <3>1, <3>2, StackAfter DEF Stacked, OccursIn
  <2>3. CASE u # th BY <2>1, <2>3, StackAfter DEF Stacked, OccursIn
  <2> QED BY <2>2, <2>3
<1>3. ASSUME AtMostOnceIn(todo, C),
             NEW u \in Threads, NEW v \in Threads, NEW i \in DOMAIN todo'[u],
             NEW j \in DOMAIN todo'[v], todo'[u][i] \in C, todo'[v][j] \in C
      PROVE  u = v /\ i = j
  <2> DEFINE Old(w, k) == IF w = th THEN k - Len(p) + 1 ELSE k
  <2>1. Old(u, i) \in DOMAIN todo[u] /\ todo[u][Old(u, i)] \in C BY <1>3, StackAfter DEF Stacked
  <2>2. Old(v, j) \in DOMAIN todo[v] /\ todo[v][Old(v, j)] \in C BY <1>3, StackAfter DEF Stacked
  <2>3. u = v /\ Old(u, i) = Old(v, j) BY <1>3, <2>1, <2>2 DEF AtMostOnceIn
  <2>4. i \in Int /\ j \in Int BY StackAfter DEF FramesTyped
  <2> QED BY <1>0, <2>3, <2>4
<1> QED BY <1>1, <1>2, <1>3 DEF AtMostOnceIn

(* A step that takes the frame of C. *)
LEMMA OccursGone ==
  ASSUME FramesTyped(todo), NEW th \in Threads, NEW p \in Seq(Frames), StackStep(th, p), NEW C,
         AtMostOnceIn(todo, C), todo[th] # <<>>, todo[th][1] \in C, \A i \in DOMAIN p : p[i] \notin C
  PROVE  ~OccursIn(todo', C) /\ AtMostOnceIn(todo', C)
<1>0. todo[th] \in Seq(Frames) /\ 1 \in DOMAIN todo[th] BY DEF FramesTyped
<1>1. ASSUME NEW u \in Threads, NEW i \in DOMAIN todo'[u], todo'[u][i] \in C PROVE FALSE
  <2>1. CASE u = th
    <3>1. i - Len(p) + 1 \in DOMAIN todo[th] /\ i - Len(p) + 1 # 1
          /\ todo[th][i - Len(p) + 1] \in C
      BY <1>1, <2>1, StackAfter DEF Stacked
    <3> QED BY <1>0, <3>1 DEF AtMostOnceIn
  <2>2. CASE u # th BY <1>0, <1>1, <2>2, StackAfter DEF Stacked, AtMostOnceIn
  <2> QED BY <2>1, <2>2
<1> QED BY <1>1 DEF OccursIn, AtMostOnceIn

(* A step that pushes one frame of C, where there was none or the top one. *)
LEMMA OccursPut ==
  ASSUME FramesTyped(todo), NEW th \in Threads, NEW p \in Seq(Frames), StackStep(th, p), NEW C,
         \/ ~OccursIn(todo, C)
         \/ AtMostOnceIn(todo, C) /\ todo[th] # <<>> /\ todo[th][1] \in C,
         NEW k \in DOMAIN p, p[k] \in C, \A i \in DOMAIN p : p[i] \in C => i = k
  PROVE  OccursIn(todo', C) /\ AtMostOnceIn(todo', C)
<1>0. todo[th] # <<>> => 1 \in DOMAIN todo[th] BY DEF FramesTyped
<1>1. ASSUME NEW u \in Threads, NEW i \in DOMAIN todo'[u], todo'[u][i] \in C
      PROVE  u = th /\ i = k
  <2>1. CASE u = th
    <3>1. CASE i \in DOMAIN p BY <1>1, <2>1, <3>1, StackAfter DEF Stacked
    <3>2. CASE i \notin DOMAIN p
      <4>1. i - Len(p) + 1 \in DOMAIN todo[th] /\ i - Len(p) + 1 # 1
            /\ todo[th][i - Len(p) + 1] \in C
        BY <1>1, <2>1, <3>2, StackAfter DEF Stacked
      <4> QED BY <1>0, <4>1 DEF AtMostOnceIn, OccursIn
    <3> QED BY <3>1, <3>2
  <2>2. CASE u # th BY <1>0, <1>1, <2>2, StackAfter DEF Stacked, AtMostOnceIn, OccursIn
  <2> QED BY <2>1, <2>2
<1>2. OccursIn(todo', C) BY StackAfter DEF Stacked, OccursIn
<1>3. AtMostOnceIn(todo', C)
  <2> SUFFICES ASSUME NEW u \in Threads, NEW v \in Threads, NEW i \in DOMAIN todo'[u],
                      NEW j \in DOMAIN todo'[v], todo'[u][i] \in C, todo'[v][j] \in C
               PROVE  u = v /\ i = j
    BY DEF AtMostOnceIn
  <2> QED BY <1>1
<1> QED BY <1>2, <1>3
-----------------------------------------------------------------------------
(* The invariant. *)
Heap == \A o \in Objects : ClassOK(o) /\ FieldOK(o) /\ WeakRefOK(o) /\ ListsOK(o) /\ CountsOK(o)
Counts == StrongExact /\ WeakExact /\ OwnerExact
IInv == /\ TypeOK /\ FramesTyped(todo)
        /\ Counts
        /\ RefsLive /\ WeaksLive
        /\ Heap
        /\ Onces /\ FramesOK /\ Cascades
        /\ Reports

(* What a call on a stack carries. *)
LEMMA FrameFacts ==
  ASSUME NEW f \in Frames
  PROVE  /\ f.call \in {"Release", "Delete", "EndDelete", "ReleaseWeakRef", "FreeMember", "Free",
                        "Place", "ClearHolder", "AssignWeak", "Increment", "AddSwarmMember", "Publish"}
         /\ f.call \in {"Release", "Delete", "EndDelete", "ReleaseWeakRef", "FreeMember", "Free",
                        "Place"} => f.arg \in Objects
         /\ f.call \in {"Release", "Delete", "EndDelete", "ReleaseWeakRef", "FreeMember", "Free",
                        "Place"} => f = [call |-> f.call, arg |-> f.arg]
         /\ f.call = "ClearHolder" => f = ClearHolder
         /\ f.call = "AssignWeak" => /\ f.arg.m_ptr \in Objects /\ f.arg.m_weakRef \in Objects
                                     /\ f.arg \in [m_ptr : Objects, m_weakRef : Objects]
         /\ f.call = "Increment" => f.arg \in Slots /\ f.count \in Nat
         /\ f.call = "AddSwarmMember" => /\ f.arg \in Objects /\ f.swarm \in Objects
                                         /\ f.next \in Seq(Objects) /\ f.to \in Slots
         /\ f.call = "Publish" => f.arg \in Objects /\ f.new \in Objects
<1>1. CASE f \in [call : {"Release", "Delete", "EndDelete", "ReleaseWeakRef", "FreeMember", "Free", "Place"},
                  arg : Objects]
  BY <1>1
<1>2. CASE f = ClearHolder BY <1>2 DEF ClearHolder
<1>3. CASE f \in [call : {"AssignWeak"}, arg : [m_ptr : Objects, m_weakRef : Objects]] BY <1>3
<1>4. CASE f \in [call : {"Increment"}, arg : Slots, count : Nat] BY <1>4
<1>5. CASE f \in [call : {"AddSwarmMember"}, arg : Objects, swarm : Objects, next : Seq(Objects), to : Slots]
  BY <1>5
<1>6. CASE f \in [call : {"Publish"}, arg : Objects, new : Objects] BY <1>6
<1> QED BY <1>1, <1>2, <1>3, <1>4, <1>5, <1>6 DEF Frames

(* The calls are frames. *)
LEMMA FrameKinds ==
  /\ \A o \in Objects : /\ Release(o) \in Frames /\ Delete(o) \in Frames /\ EndDelete(o) \in Frames
                        /\ ReleaseWeakRef(o) \in Frames /\ FreeMember(o) \in Frames
                        /\ Free(o) \in Frames /\ Place(o) \in Frames
  /\ ClearHolder \in Frames
  /\ \A w \in [m_ptr : Objects, m_weakRef : Objects] : AssignWeak(w) \in Frames
  /\ \A s \in Slots, n \in Nat : Increment(s, n) \in Frames
  /\ \A o, b \in Objects, next \in Seq(Objects), to \in Slots : AddSwarmMember(o, b, next, to) \in Frames
  /\ \A o, new \in Objects : Publish(o, new) \in Frames
BY DEF Frames, Release, Delete, EndDelete, ReleaseWeakRef, FreeMember, Free, Place, AssignWeak,
       Increment, AddSwarmMember, Publish

(* What each place that holds a reference refers to, before and after a step. *)
LEMMA RefIs ==
  /\ \A s : Ref(<<"slot", s>>) = strong[s] /\ Ref(<<"slot", s>>)' = strong'[s]
  /\ \A o : /\ Ref(<<"field", o>>) = IF field[o].counts THEN field[o].m_ptr ELSE NoObj
            /\ Ref(<<"field", o>>)' = IF field'[o].counts THEN field'[o].m_ptr ELSE NoObj
  /\ \A u : Ref(<<"maybe", u>>) = maybe[u].m_error /\ Ref(<<"maybe", u>>)' = maybe'[u].m_error
  /\ \A u : /\ Ref(<<"raw", u>>) = IF raw[u] # NoObj /\ cls[raw[u]] # OwnedObject THEN raw[u] ELSE NoObj
            /\ Ref(<<"raw", u>>)' = IF raw'[u] # NoObj /\ cls'[raw'[u]] # OwnedObject THEN raw'[u] ELSE NoObj
  /\ \A u : /\ Ref(<<"release", u>>) = IF todo[u] # <<>> /\ Head(todo[u]).call = "Release" THEN Head(todo[u]).arg ELSE NoObj
            /\ Ref(<<"release", u>>)' = IF todo'[u] # <<>> /\ Head(todo'[u]).call = "Release" THEN Head(todo'[u]).arg ELSE NoObj
  /\ \A u : /\ Ref(<<"publish", u>>) = IF todo[u] # <<>> /\ Head(todo[u]).call = "Publish" THEN Head(todo[u]).new ELSE NoObj
            /\ Ref(<<"publish", u>>)' = IF todo'[u] # <<>> /\ Head(todo'[u]).call = "Publish" THEN Head(todo'[u]).new ELSE NoObj
BY DEF Ref, Calling, Arg

(* The places that hold references, by kind. *)
LEMMA TokenKinds ==
  /\ \A h \in StrongTokens : \/ \E s \in Slots : h = <<"slot", s>>
                             \/ \E o \in Objects : h = <<"field", o>>
                             \/ \E u \in Threads : h = <<"maybe", u>>
                             \/ \E u \in Threads : h = <<"raw", u>>
                             \/ \E u \in Threads : h = <<"release", u>>
                             \/ \E u \in Threads : h = <<"publish", u>>
  /\ \A s \in Slots : <<"slot", s>> \in StrongTokens
  /\ \A o \in Objects : <<"field", o>> \in StrongTokens
  /\ \A u \in Threads : /\ <<"maybe", u>> \in StrongTokens /\ <<"raw", u>> \in StrongTokens
                        /\ <<"release", u>> \in StrongTokens /\ <<"publish", u>> \in StrongTokens
BY DEF StrongTokens
-----------------------------------------------------------------------------
(* Calls below the top of a stack. *)
LEMMA BelowTop ==
  ASSUME FramesTyped(todo), FramesOK, NEW th \in Threads, NEW i \in DOMAIN todo[th], i # 1
  PROVE  /\ todo[th][i] \in Frames
         /\ todo[th] # <<>> /\ 1 \in DOMAIN todo[th] /\ i > 1 /\ todo[th][1] \in Frames
         /\ todo[th][i].call \in {"Delete", "EndDelete", "ReleaseWeakRef", "FreeMember", "AssignWeak", "Place"}
         /\ todo[th][i].call = "ReleaseWeakRef" =>
              /\ todo[th][1].call \in {"Delete", "EndDelete"}
              /\ cls[todo[th][1].arg] = FixedSwarmMember
         /\ todo[th][i].call = "FreeMember" => todo[th][1].call \in {"Delete", "EndDelete"}
         /\ todo[th][i].call = "AssignWeak" => todo[th][1].call = "ReleaseWeakRef" /\ i = 2
         /\ todo[th][i].call \in {"FreeMember", "AssignWeak", "Place"} => i = Len(todo[th])
<1>1. todo[th] \in Seq(Frames) /\ DOMAIN todo[th] = 1..Len(todo[th]) /\ Len(todo[th]) \in Nat
  BY DEF FramesTyped
<1>2. todo[th][i] \in Frames /\ 1 \in DOMAIN todo[th] /\ i > 1 /\ todo[th][1] \in Frames /\ i \in Nat
      /\ todo[th] # <<>>
  BY <1>1
<1>3. FrameOK(th, i) BY DEF FramesOK
<1>4. todo[th][i].call \in {"Release", "Delete", "EndDelete", "ReleaseWeakRef", "FreeMember", "Free",
                            "Place", "ClearHolder", "AssignWeak", "Increment", "AddSwarmMember", "Publish"}
  BY <1>2, FrameFacts
<1>5. todo[th][i].call \in {"Delete", "EndDelete", "ReleaseWeakRef", "FreeMember", "AssignWeak", "Place"}
  BY <1>2, <1>3, <1>4 DEF FrameOK
<1>6. todo[th][i].call = "ReleaseWeakRef" =>
              /\ todo[th][1].call \in {"Delete", "EndDelete"}
              /\ cls[todo[th][1].arg] = FixedSwarmMember
  <2>1. 1 \in 1..(i-1) BY <1>2
  <2> QED BY <1>3, <2>1 DEF FrameOK
<1>7. todo[th][i].call = "FreeMember" => todo[th][1].call \in {"Delete", "EndDelete"}
  BY <1>2, <1>3 DEF FrameOK, Delete, EndDelete
<1>8. todo[th][i].call = "AssignWeak" => todo[th][1].call = "ReleaseWeakRef" /\ i = 2
  BY <1>2, <1>3 DEF FrameOK
<1>9. todo[th][i].call \in {"FreeMember", "AssignWeak", "Place"} => i = Len(todo[th])
  BY <1>3 DEF FrameOK
<1> QED BY <1>2, <1>5, <1>6, <1>7, <1>8, <1>9

(* The top of the stack after a step. *)
LEMMA TopAfter ==
  ASSUME FramesTyped(todo), FramesOK, NEW th \in Threads, NEW p \in Seq(Frames), StackStep(th, p)
  PROVE  /\ p # <<>> => todo'[th] # <<>> /\ Head(todo'[th]) = p[1] /\ todo'[th][1] = p[1]
         /\ p = <<>> => IF 2 \in DOMAIN todo[th]
                        THEN todo'[th] # <<>> /\ Head(todo'[th]) = todo[th][2] /\ todo'[th][1] = todo[th][2]
                        ELSE todo'[th] = <<>>
<1>1. Stacked(todo[th], p, todo'[th]) BY StackAfter
<1>2. todo[th] \in Seq(Frames) /\ todo'[th] \in Seq(Frames) BY <1>1 DEF FramesTyped, Stacked
<1>3. ASSUME p # <<>> PROVE todo'[th] # <<>> /\ Head(todo'[th]) = p[1] /\ todo'[th][1] = p[1]
  <2>1. 1 \in DOMAIN p BY <1>3
  <2>2. 1 \in DOMAIN todo'[th] /\ todo'[th][1] = p[1] BY <1>1, <2>1 DEF Stacked
  <2> QED BY <1>2, <2>2
<1>4. ASSUME p = <<>>, 2 \in DOMAIN todo[th]
      PROVE todo'[th] # <<>> /\ Head(todo'[th]) = todo[th][2] /\ todo'[th][1] = todo[th][2]
  <2>1. Len(p) = 0 BY <1>4
  <2>2. 2 + Len(p) - 1 \in DOMAIN todo'[th] /\ todo'[th][2 + Len(p) - 1] = todo[th][2]
    BY <1>1, <1>4 DEF Stacked
  <2>3. 2 + Len(p) - 1 = 1 BY <2>1
  <2> QED BY <1>2, <2>2, <2>3
<1>5. ASSUME p = <<>>, 2 \notin DOMAIN todo[th] PROVE todo'[th] = <<>>
  <2>1. Len(p) = 0 BY <1>5
  <2>2. Len(todo[th]) < 2 /\ Len(todo[th]) \in Nat BY <1>2, <1>5
  <2>3. todo[th] # <<>> => Len(todo[th]) = 1
    <3>1. todo[th] # <<>> => Len(todo[th]) # 0 BY <1>2, EmptySeq
    <3> DEFINE n == Len(todo[th])
    <3>2. n < 2 /\ n \in Nat /\ (todo[th] # <<>> => n # 0) BY <2>2, <3>1
    <3> HIDE DEF n
    <3>3. todo[th] # <<>> => n = 1 BY <3>2
    <3> QED BY <3>3 DEF n
  <2>4. Len(todo'[th]) = 0 BY <1>1, <2>1, <2>3 DEF Stacked
  <2> QED BY <1>2, <2>4
<1> QED BY <1>3, <1>4, <1>5

(* Release and Publish are only ever the innermost call. *)
LEMMA TopRefs ==
  ASSUME FramesTyped(todo), FramesOK, NEW th \in Threads, NEW p \in Seq(Frames), StackStep(th, p)
  PROVE  /\ \A u \in Threads : u # th => /\ Ref(<<"release", u>>)' = Ref(<<"release", u>>)
                                         /\ Ref(<<"publish", u>>)' = Ref(<<"publish", u>>)
         /\ Ref(<<"release", th>>)' = IF p # <<>> /\ p[1].call = "Release" THEN p[1].arg ELSE NoObj
         /\ Ref(<<"publish", th>>)' = IF p # <<>> /\ p[1].call = "Publish" THEN p[1].new ELSE NoObj
         /\ todo[th] = <<>> => Ref(<<"release", th>>) = NoObj /\ Ref(<<"publish", th>>) = NoObj
<1>1. \A u \in Threads : u # th => todo'[u] = todo[u] BY StackAfter
<1>2. ASSUME p # <<>> PROVE todo'[th] # <<>> /\ Head(todo'[th]) = p[1] BY <1>2, TopAfter
<1>3. ASSUME p = <<>>, todo'[th] # <<>> PROVE Head(todo'[th]).call \notin {"Release", "Publish"}
  <2>1. 2 \in DOMAIN todo[th] /\ Head(todo'[th]) = todo[th][2] BY <1>3, TopAfter
  <2>2. 2 # 1 OBVIOUS
  <2> QED BY <2>1, <2>2, BelowTop
<1> QED BY <1>1, <1>2, <1>3, RefIs

(* Which containers a thread is about to release. *)
LEMMA CallsAfter ==
  ASSUME FramesTyped(todo), FramesOK, NEW th \in Threads, NEW p \in Seq(Frames), StackStep(th, p),
         NEW b \in Objects
  PROVE  /\ \A u \in Threads : u # th => /\ ReleaseWeakRef(b) \in Range(todo'[u])
                                            <=> ReleaseWeakRef(b) \in Range(todo[u])
         /\ ReleaseWeakRef(b) \in Range(todo'[th]) <=>
              \/ \E i \in DOMAIN p : p[i] = ReleaseWeakRef(b)
              \/ ReleaseWeakRef(b) \in Range(todo[th]) /\ todo[th][1] # ReleaseWeakRef(b)
<1>1. Stacked(todo[th], p, todo'[th]) /\ (\A u \in Threads : u # th => todo'[u] = todo[u])
  BY StackAfter
<1>2. ASSUME ReleaseWeakRef(b) \in Range(todo'[th]), \A i \in DOMAIN p : p[i] # ReleaseWeakRef(b)
      PROVE  ReleaseWeakRef(b) \in Range(todo[th]) /\ todo[th][1] # ReleaseWeakRef(b)
  <2>1. PICK i \in DOMAIN todo'[th] : todo'[th][i] = ReleaseWeakRef(b) BY <1>2 DEF Range
  <2>2. i \notin DOMAIN p BY <1>1, <1>2, <2>1 DEF Stacked
  <2> DEFINE j == i - Len(p) + 1
  <2>3. j \in DOMAIN todo[th] /\ j # 1 /\ todo[th][j] = ReleaseWeakRef(b)
    BY <1>1, <2>1, <2>2 DEF Stacked
  <2> HIDE DEF j
  <2>4. todo[th][j].call = "ReleaseWeakRef" BY <2>3 DEF ReleaseWeakRef
  <2>5. todo[th][1].call # "ReleaseWeakRef" BY <2>3, <2>4, BelowTop
  <2> QED BY <2>3, <2>5 DEF Range, ReleaseWeakRef
<1>3. ASSUME NEW i \in DOMAIN p, p[i] = ReleaseWeakRef(b) PROVE ReleaseWeakRef(b) \in Range(todo'[th])
  BY <1>1, <1>3 DEF Stacked, Range
<1>4. ASSUME ReleaseWeakRef(b) \in Range(todo[th]), todo[th][1] # ReleaseWeakRef(b)
      PROVE  ReleaseWeakRef(b) \in Range(todo'[th])
  <2>1. PICK i \in DOMAIN todo[th] : todo[th][i] = ReleaseWeakRef(b) BY <1>4 DEF Range
  <2>2. i # 1 BY <1>4, <2>1
  <2> QED BY <1>1, <2>1, <2>2 DEF Stacked, Range
<1> QED BY <1>1, <1>2, <1>3, <1>4

(* The object a thread is about to place into its holder. *)
PlaceOf(s) == IF s # <<>> /\ Last1(s).call = "Place" THEN Last1(s).arg ELSE NoObj

(* The outermost call stays, unless there was at most the one that is done. *)
LEMMA PlaceAfter ==
  ASSUME FramesTyped(todo), NEW th \in Threads, NEW p \in Seq(Frames), StackStep(th, p)
  PROVE  /\ \A u \in Threads : u # th => PlaceOf(todo'[u]) = PlaceOf(todo[u])
         /\ PlaceOf(todo'[th]) = IF Len(todo[th]) > 1 THEN PlaceOf(todo[th]) ELSE PlaceOf(p)
<1>1. Stacked(todo[th], p, todo'[th]) /\ (\A u \in Threads : u # th => todo'[u] = todo[u])
  BY StackAfter
<1> DEFINE s == todo[th]
           q == todo'[th]
           n == Len(s)
           k == Len(p)
<1>2. s \in Seq(Frames) /\ q \in Seq(Frames) /\ n \in Nat /\ k \in Nat
      /\ Len(q) = k + (IF s = <<>> THEN 0 ELSE n - 1) /\ DOMAIN s = 1..n /\ DOMAIN p = 1..k
  BY <1>1 DEF FramesTyped, Stacked
<1>3. (s # <<>> => n # 0) /\ (q # <<>> => Len(q) # 0) /\ (p # <<>> => k # 0) BY <1>2, EmptySeq
<1>4. (s = <<>> => n = 0) /\ (q = <<>> => Len(q) = 0) /\ (p = <<>> => k = 0) OBVIOUS
<1>5. ASSUME n > 1 PROVE PlaceOf(q) = PlaceOf(s)
  <2>1. n \in DOMAIN s /\ n # 1
    <3> HIDE DEF n
    <3> QED BY <1>2, <1>5
  <2>2. q[n + k - 1] = s[n] BY <1>1, <2>1 DEF Stacked
  <2>3. s # <<>> BY <1>4, <1>5
  <2>4. Len(q) = n + k - 1
    <3> HIDE DEF n, k
    <3> QED BY <1>2, <2>3
  <2>5. q # <<>> BY <1>2, <1>4, <1>5, <2>4
  <2> QED BY <2>2, <2>3, <2>4, <2>5 DEF PlaceOf, Last1
<1>6. ASSUME ~(n > 1) PROVE PlaceOf(q) = PlaceOf(p)
  <2>1. Len(q) = k
    <3> HIDE DEF n, k
    <3> QED BY <1>2, <1>3, <1>4, <1>6
  <2>2. CASE p = <<>> 
    <3>1. Len(q) = 0 BY <2>1, <2>2, <1>4
    <3>2. q = <<>> BY <1>3, <3>1
    <3> QED BY <2>2, <3>2
  <2>3. CASE p # <<>>
    <3>1. k \in DOMAIN p BY <1>2, <1>3, <2>3
    <3>2. q[k] = p[k] BY <1>1, <3>1 DEF Stacked
    <3>3. q # <<>> BY <2>1, <2>3, <1>3, <1>4
    <3> QED BY <2>1, <2>3, <3>2, <3>3 DEF PlaceOf, Last1
  <2> QED BY <2>2, <2>3
<1> QED BY <1>1, <1>5, <1>6

(* The weak counts, by kind. *)
LEMMA WeakIs ==
  /\ \A h \in WeakTokens : \/ \E o \in Objects : h = <<"object", o>>
                           \/ \E u \in Threads : h = <<"weak", u>>
                           \/ \E u \in Threads, b \in Objects : h = <<"call", u, b>>
  /\ \A o \in Objects : /\ <<"object", o>> \in WeakTokens
                        /\ WeakAt[<<"object", o>>] =
                             IF cls[o] = FixedSwarm /\ m_refCount[o] = 0 THEN NoObj ELSE weakRef[o]
                        /\ WeakAt'[<<"object", o>>] =
                             IF cls'[o] = FixedSwarm /\ m_refCount'[o] = 0 THEN NoObj ELSE weakRef'[o]
  /\ \A u \in Threads : /\ <<"weak", u>> \in WeakTokens
                        /\ WeakAt[<<"weak", u>>] = weak[u].m_weakRef
                        /\ WeakAt'[<<"weak", u>>] = weak'[u].m_weakRef
  /\ \A u \in Threads, b \in Objects :
       /\ <<"call", u, b>> \in WeakTokens
       /\ WeakAt[<<"call", u, b>>] = IF ReleaseWeakRef(b) \in Range(todo[u]) THEN b ELSE NoObj
       /\ WeakAt'[<<"call", u, b>>] = IF ReleaseWeakRef(b) \in Range(todo'[u]) THEN b ELSE NoObj
  /\ DOMAIN WeakAt = WeakTokens /\ DOMAIN WeakAt' = WeakTokens
BY DEF WeakTokens, WeakAt

(* The owners, by kind. *)
LEMMA OwnerIs ==
  /\ \A h \in OwnerTokens : \E u \in Threads : h \in {<<"holder", u>>, <<"raw", u>>, <<"place", u>>, <<"free", u>>}
  /\ \A u \in Threads :
       /\ <<"holder", u>> \in OwnerTokens /\ <<"raw", u>> \in OwnerTokens
       /\ <<"place", u>> \in OwnerTokens /\ <<"free", u>> \in OwnerTokens
       /\ OwnerAt[<<"holder", u>>] = holder[u] /\ OwnerAt'[<<"holder", u>>] = holder'[u]
       /\ OwnerAt[<<"raw", u>>] = IF raw[u] # NoObj /\ cls[raw[u]] = OwnedObject THEN raw[u] ELSE NoObj
       /\ OwnerAt'[<<"raw", u>>] = IF raw'[u] # NoObj /\ cls'[raw'[u]] = OwnedObject THEN raw'[u] ELSE NoObj
       /\ OwnerAt[<<"place", u>>] = PlaceOf(todo[u]) /\ OwnerAt'[<<"place", u>>] = PlaceOf(todo'[u])
       /\ OwnerAt[<<"free", u>>] = IF todo[u] # <<>> /\ Head(todo[u]).call = "Free" THEN Head(todo[u]).arg ELSE NoObj
       /\ OwnerAt'[<<"free", u>>] = IF todo'[u] # <<>> /\ Head(todo'[u]).call = "Free" THEN Head(todo'[u]).arg ELSE NoObj
  /\ DOMAIN OwnerAt = OwnerTokens /\ DOMAIN OwnerAt' = OwnerTokens
BY DEF OwnerTokens, OwnerAt, PlaceOf, Calling, Arg

(* One reference moves through a third place. *)
LEMMA ExactCycle ==
  ASSUME NEW f, NEW g, DOMAIN g = DOMAIN f, NEW n, Exact(f, n),
         NEW h \in DOMAIN f, NEW k \in DOMAIN f, NEW l \in DOMAIN f, h # k, k # l, h # l,
         g[k] = f[h], g[l] = f[k], g[h] = f[l],
         \A x \in DOMAIN f : x \notin {h, k, l} => g[x] = f[x]
  PROVE  Exact(g, n)
<1> DEFINE e == [f EXCEPT ![k] = f[l], ![l] = f[k]]
<1>1. DOMAIN e = DOMAIN f /\ e[k] = f[l] /\ e[l] = f[k] /\ \A x \in DOMAIN f : x \notin {k, l} => e[x] = f[x]
  OBVIOUS
<1> HIDE DEF e
<1>2. Exact(e, n) BY <1>1, ExactSwap
<1>3. e[h] = g[k] /\ e[k] = g[h] /\ \A x \in DOMAIN e : x \notin {h, k} => g[x] = e[x] BY <1>1
<1> QED BY <1>1, <1>2, <1>3, ExactSwap

(* A reference moves on and its place takes a new one. *)
LEMMA ExactSwapAdd ==
  ASSUME NEW f, NEW g, DOMAIN g = DOMAIN f, NEW n, Exact(f, n),
         NEW h \in DOMAIN f, NEW k \in DOMAIN f, h # k, f[k] \notin Objects,
         NEW b \in Objects, g[k] = f[h], g[h] = b,
         \A x \in DOMAIN f : x \notin {h, k} => g[x] = f[x], NEW m, Plus1(m, n, b)
  PROVE  Exact(g, m)
<1> DEFINE e == [f EXCEPT ![h] = f[k], ![k] = f[h]]
<1>1. DOMAIN e = DOMAIN f /\ e[k] = f[h] /\ e[h] = f[k] /\ \A x \in DOMAIN f : x \notin {h, k} => e[x] = f[x]
  OBVIOUS
<1> HIDE DEF e
<1>2. Exact(e, n) BY <1>1, ExactSwap
<1>3. /\ e[h] \notin Objects /\ \A x \in DOMAIN e : x # h => g[x] = e[x]
      /\ DOMAIN g = DOMAIN e /\ h \in DOMAIN e /\ g[h] = b
  BY <1>1
<1> QED BY <1>2, <1>3, ExactAdd
-----------------------------------------------------------------------------
(* Steps that neither make nor destroy an object. *)
QuietCalls == {"Release", "ReleaseWeakRef", "AssignWeak", "Increment", "Publish", "ClearHolder", "Place", "Free"}
QuietStack(th, p) ==
  /\ StackStep(th, p)
  /\ todo[th] = <<>> \/ todo[th][1].call \in QuietCalls
  /\ \A i \in DOMAIN p : p[i].call \in QuietCalls

SameCalls ==
  \A o \in Objects : /\ Occurs({Delete(o)})' <=> Occurs({Delete(o)})
                     /\ Occurs({EndDelete(o)})' <=> Occurs({EndDelete(o)})
                     /\ Dying(o)' <=> Dying(o)
                     /\ Occurs(MemberFrames(o))' <=> Occurs(MemberFrames(o))
SameHeap == /\ UNCHANGED <<program, cls, life, weakRef, m_headMember, storage>>
            /\ SameCalls
            /\ \A b \in Objects : Pos(b)' <=> Pos(b)

(* The calls of the destruction cascade stay on the stacks. *)
LEMMA QuietKeepsCalls ==
  ASSUME FramesTyped(todo), Onces, NEW th \in Threads, NEW p \in Seq(Frames), QuietStack(th, p)
  PROVE  SameCalls /\ Onces' /\ FramesTyped(todo')
<1>1. FramesTyped(todo') BY StackAfter DEF QuietStack
<1>2. ASSUME NEW C, \A f \in C : f.call \notin QuietCalls
      PROVE  /\ OccursIn(todo', C) <=> OccursIn(todo, C)
             /\ AtMostOnceIn(todo, C) => AtMostOnceIn(todo', C)
  <2>1. todo[th] = <<>> \/ todo[th][1] \notin C BY <1>2 DEF QuietStack
  <2>2. \A i \in DOMAIN p : p[i] \notin C BY <1>2 DEF QuietStack
  <2>3. StackStep(th, p) BY DEF QuietStack
  <2> QED BY <2>1, <2>2, <2>3, OccursKept
<1>3. \A o : /\ \A f \in {Delete(o)} : f.call \notin QuietCalls
             /\ \A f \in {EndDelete(o)} : f.call \notin QuietCalls
             /\ \A f \in DyingFrames(o) : f.call \notin QuietCalls
             /\ \A f \in MemberFrames(o) : f.call \notin QuietCalls
  BY DEF QuietCalls, Delete, EndDelete, DyingFrames, MemberFrames
<1>4. SameCalls
  <2> SUFFICES ASSUME NEW o \in Objects
               PROVE /\ Occurs({Delete(o)})' <=> Occurs({Delete(o)})
                     /\ Occurs({EndDelete(o)})' <=> Occurs({EndDelete(o)})
                     /\ Dying(o)' <=> Dying(o)
                     /\ Occurs(MemberFrames(o))' <=> Occurs(MemberFrames(o))
    BY DEF SameCalls
  <2>1. Occurs({Delete(o)})' <=> Occurs({Delete(o)}) BY <1>2, <1>3 DEF Occurs
  <2>2. Occurs({EndDelete(o)})' <=> Occurs({EndDelete(o)}) BY <1>2, <1>3 DEF Occurs
  <2>3. Dying(o)' <=> Dying(o) BY <1>2, <1>3 DEF Dying, Occurs
  <2>4. Occurs(MemberFrames(o))' <=> Occurs(MemberFrames(o)) BY <1>2, <1>3 DEF Occurs
  <2> QED BY <2>1, <2>2, <2>3, <2>4
<1>5. Onces'
  <2> SUFFICES ASSUME NEW o \in Objects
               PROVE  AtMostOnceIn(todo', DyingFrames(o)) /\ AtMostOnceIn(todo', MemberFrames(o))
    BY DEF Onces
  <2> QED BY <1>2, <1>3 DEF Onces
<1> QED BY <1>1, <1>4, <1>5

(* The objects stay as they should be. *)
LEMMA SameHeapKeeps ==
  ASSUME TypeOK, Heap, SameHeap,
         \A b \in Objects : m_weakRefCount'[b] > 0 <=> m_weakRefCount[b] > 0,
         \A o \in Objects : field'[o] = field[o] \/ FieldOK(o)'
  PROVE  Heap'
<1> SUFFICES ASSUME NEW o \in Objects
             PROVE  ClassOK(o)' /\ FieldOK(o)' /\ WeakRefOK(o)' /\ ListsOK(o)' /\ CountsOK(o)'
  BY DEF Heap
<1>0. ClassOK(o) /\ FieldOK(o) /\ WeakRefOK(o) /\ ListsOK(o) /\ CountsOK(o) BY DEF Heap
<1>1. /\ program' = program /\ cls' = cls /\ life' = life /\ weakRef' = weakRef
      /\ m_headMember' = m_headMember /\ storage' = storage
      /\ \A b \in Objects : Pos(b)' <=> Pos(b)
  BY DEF SameHeap
<1>2. ClassOK(o)' BY <1>0, <1>1 DEF ClassOK, IsStatic, StaticClasses
<1>3. FieldOK(o)' BY <1>0, <1>1 DEF FieldOK
<1>4. WeakRefOK(o)'
  <2>1. Occurs({EndDelete(o)})' <=> Occurs({EndDelete(o)}) BY DEF SameHeap, SameCalls
  <2> QED BY <1>0, <1>1, <2>1 DEF WeakRefOK
<1>5. ListsOK(o)'
  <2>0. Range(m_headMember[o]) \subseteq Objects BY DEF TypeOK, RefTypeOK, Range
  <2>1. \A m \in Objects : /\ Dying(m)' <=> Dying(m)
                           /\ Occurs(MemberFrames(m))' <=> Occurs(MemberFrames(m))
    BY DEF SameHeap, SameCalls
  <2> QED BY <1>0, <1>1, <2>0, <2>1 DEF ListsOK
<1>6. CountsOK(o)'
  <2>1. /\ Occurs({Delete(o)})' <=> Occurs({Delete(o)})
        /\ Dying(o)' <=> Dying(o)
        /\ Occurs(MemberFrames(o))' <=> Occurs(MemberFrames(o))
    BY DEF SameHeap, SameCalls
  <2>2. Pos(o) => life[o] = "alive" /\ ~Dying(o) /\ Counter(o) = o BY <1>0 DEF CountsOK
  <2>3. Counter(o)' = Counter(o) BY <1>1 DEF Counter
  <2>4. life[o] = "alive" /\ cls[o].policy \in {"Simple", "WeakRef"} => Counter(o) \in Objects
    <3>1. cls[o].policy = "WeakRef" /\ life[o] = "alive" => weakRef[o] # NoObj
      BY <1>0 DEF WeakRefOK, HasWeakRef
    <3>2. weakRef[o] \in Objects \cup {NoObj} BY DEF TypeOK, RefTypeOK, Pointers
    <3> QED BY <3>1, <3>2 DEF Counter
  <2>5. (life[o] = "alive" /\ cls[o].policy \in {"Simple", "WeakRef"} /\ ~Pos(Counter(o)) => Occurs({Delete(o)}))'
    <3>1. life[o] = "alive" /\ cls[o].policy \in {"Simple", "WeakRef"} => (Pos(Counter(o))' <=> Pos(Counter(o)))
      <4> DEFINE c == Counter(o)
      <4>1. (c \in Objects => (Pos(c)' <=> Pos(c))) /\ c' = c BY <1>1, <2>3
      <4> QED BY <2>4, <4>1
    <3>2. life[o] = "alive" /\ cls[o].policy \in {"Simple", "WeakRef"} /\ ~Pos(Counter(o)) => Occurs({Delete(o)})
      BY <1>0 DEF CountsOK
    <3> QED BY <1>1, <2>1, <3>1, <3>2
  <2>6. (m_weakRefCount[o] > 0 <=> HasWeakRef(cls[o]) /\ cls[o] \notin Members)'
    BY <1>0, <1>1 DEF CountsOK
  <2>7. (cls[o] \in Members => \/ \E b \in Objects : o \in Range(m_headMember[b]) \cup storage[b]
                               \/ Occurs(MemberFrames(o)))'
    BY <1>0, <1>1, <2>1 DEF CountsOK
  <2>8. (Pos(o) => life[o] = "alive" /\ ~Dying(o) /\ Counter(o) = o)' BY <1>1, <2>1, <2>2, <2>3
  <2> QED BY <2>5, <2>6, <2>7, <2>8 DEF CountsOK
<1> QED BY <1>2, <1>3, <1>4, <1>5, <1>6

(* And so do the references to them. *)
LEMMA SameHeapLive ==
  ASSUME SameHeap
  PROVE  /\ \A o : Live(o)' <=> Live(o)
         /\ \A w : WeakLive(w)' <=> WeakLive(w)
<1>1. /\ cls' = cls /\ life' = life /\ weakRef' = weakRef
      /\ m_headMember' = m_headMember /\ storage' = storage
      /\ \A b \in Objects : (Pos(b)' <=> Pos(b)) /\ (Dying(b)' <=> Dying(b))
  BY DEF SameHeap, SameCalls
<1>2. \A b : Owned(b)' = Owned(b) BY <1>1 DEF Owned
<1>3. \A o : Live(o)' <=> Live(o) BY <1>1, <1>2 DEF Live
<1>4. \A w : WeakLive(w)' <=> WeakLive(w) BY <1>1, <1>2 DEF WeakLive
<1> QED BY <1>3, <1>4

(* A new reference is to what the thread th, or no variable, refers to.    *)
FromHere(th, h) ==
  \/ Ref(h)' = Ref(h) \/ Ref(h)' = NoObj
  \/ cls[Ref(h)'] # FixedSwarm
  \/ \E k \in StrongTokens : Ref(k) = Ref(h)' /\ (k[1] = "slot" => k[2] \in Own(th))

(* The variables of the thread u stay. *)
SameLocals(u) ==
  /\ \A s \in Own(u) : strong'[s] = strong[s]
  /\ weak'[u] = weak[u]
  /\ holder'[u] = holder[u]

(* Nobody else gets a reference to an object only u refers to. *)
LEMMA HoldsOnlyKept ==
  ASSUME NEW th \in Threads, NEW u \in Threads, u # th, SameLocals(u),
         \A h \in StrongTokens : FromHere(th, h),
         NEW b \in Objects, cls[b] = FixedSwarm, HoldsOnly(u, b)
  PROVE  HoldsOnly(u, b)'
<1>1. \E s \in Own(u) : strong'[s] = b BY DEF HoldsOnly, SameLocals
<1>2. ASSUME NEW h \in StrongTokens, Ref(h)' = b
      PROVE  h[1] = "slot" /\ h[2] \in Own(u)
  <2>1. Ref(h)' # NoObj BY <1>2, RefCountingAssumption
  <2>2. CASE Ref(h)' = Ref(h) BY <1>2, <2>2 DEF HoldsOnly
  <2>3. ASSUME NEW k \in StrongTokens, Ref(k) = Ref(h)', k[1] = "slot" => k[2] \in Own(th) PROVE FALSE
    <3>1. k[1] = "slot" /\ k[2] \in Own(u) BY <1>2, <2>3 DEF HoldsOnly
    <3> QED BY <2>3, <3>1 DEF Own
  <2> QED BY <1>2, <2>1, <2>2, <2>3 DEF FromHere
<1>3. Own(u)' = Own(u) /\ StrongTokens' = StrongTokens BY DEF Own, StrongTokens
<1> QED BY <1>1, <1>2, <1>3 DEF HoldsOnly

(* The swarm of a member is a FixedSwarm, that of a WeakRef object is there. *)
LEMMA SwarmOfMember ==
  ASSUME TypeOK, Heap, NEW o \in Objects, cls[o] = FixedSwarmMember, weakRef[o] # NoObj
  PROVE  weakRef[o] \in Objects /\ cls[weakRef[o]] = FixedSwarm /\ weakRef[o] # o
<1>1. WeakRefOK(o) /\ weakRef[o] \in Objects BY DEF Heap, TypeOK, RefTypeOK, Pointers
<1>2. FixedSwarmMember \in Members /\ FixedSwarmMember \notin SwarmMembers
  BY ClassFacts DEF Members
<1> QED BY <1>1, <1>2 DEF WeakRefOK

(* The calls of the other threads stay as they should be. *)
LEMMA OtherFrames ==
  ASSUME TypeOK, Heap, FramesTyped(todo), FramesOK, SameHeap, NEW th \in Threads,
         NEW u \in Threads, u # th, todo'[u] = todo[u], SameLocals(u),
         \A h \in StrongTokens : FromHere(th, h),
         NEW i \in DOMAIN todo[u]
  PROVE  FrameOK(u, i)'
<1>1. /\ cls' = cls /\ life' = life /\ weakRef' = weakRef
      /\ \A b \in Objects : (Pos(b)' <=> Pos(b)) /\ (Dying(b)' <=> Dying(b))
  BY DEF SameHeap, SameCalls
<1>2. FrameOK(u, i) BY DEF FramesOK
<1>0. PICK f : f = todo[u][i] OBVIOUS
<1>3. f \in Frames /\ todo[u] \in Seq(Frames) BY <1>0 DEF FramesTyped
<1>4. Own(u)' = Own(u) BY DEF Own
<1>5. \A b : HoldsSwarm(u, b)' <=> HoldsSwarm(u, b) BY <1>1, <1>4 DEF HoldsSwarm, SameLocals
<1>6. ASSUME NEW o \in Objects, Throwing(u, o), weakRef[o] # NoObj PROVE Throwing(u, o)'
  <2>1. CASE Len(todo[u]) = 2 /\ todo[u][2] = FreeMember(o) BY <1>1, <1>6, <2>1 DEF Throwing
  <2>2. CASE Len(todo[u]) = 1 /\ cls[o] = FixedSwarmMember /\ HoldsOnly(u, weakRef[o])
    <3>1. PICK b : b = weakRef[o] OBVIOUS
    <3>2. b \in Objects /\ cls[b] = FixedSwarm BY <1>6, <2>2, <3>1, SwarmOfMember
    <3>3. HoldsOnly(u, b)' BY <2>2, <3>1, <3>2, HoldsOnlyKept
    <3>4. HoldsOnly(u, weakRef[o])' BY <1>1, <3>1, <3>3
    <3> QED BY <1>1, <1>6, <2>2, <3>4 DEF Throwing
  <2> QED BY <1>6, <2>1, <2>2 DEF Throwing
<1>7. ASSUME NEW o \in Objects, DyingOK(u, i, o) PROVE DyingOK(u, i, o)'
  <2>1. cls[o].policy = "WeakRef" => weakRef[o] \in Objects
    BY <1>7 DEF DyingOK, TypeOK, RefTypeOK, Pointers
  <2>2. cls[o].policy = "WeakRef" => (Pos(weakRef[o])' <=> Pos(weakRef[o]))
    <3>1. PICK b : b = weakRef[o] OBVIOUS
    <3>2. b \in Objects => (Pos(b)' <=> Pos(b)) BY <1>1
    <3> QED BY <1>1, <2>1, <3>1, <3>2
  <2> QED BY <1>1, <1>6, <1>7, <2>2 DEF DyingOK
<1>9. f.call \in {"Delete", "EndDelete", "FreeMember", "AddSwarmMember"} => f.arg \in Objects
  BY <1>3, FrameFacts
<1>10. f.call \in {"Delete", "EndDelete"} =>
          /\ f.call = "Delete" => /\ life'[f.arg] = "alive"
                                  /\ cls'[f.arg].policy \in {"Simple", "WeakRef"}
          /\ f.call = "EndDelete" => /\ life'[f.arg] = "dead"
                                     /\ cls'[f.arg].policy \in {"Simple", "WeakRef", "Owned"}
          /\ DyingOK(u, i, f.arg)'
  <2>1. f.call \in {"Delete", "EndDelete"} =>
          /\ f.call = "Delete" => /\ life[f.arg] = "alive"
                                  /\ cls[f.arg].policy \in {"Simple", "WeakRef"}
          /\ f.call = "EndDelete" => /\ life[f.arg] = "dead"
                                     /\ cls[f.arg].policy \in {"Simple", "WeakRef", "Owned"}
          /\ DyingOK(u, i, f.arg)
    BY <1>0, <1>2 DEF FrameOK
  <2> QED BY <1>1, <1>7, <1>9, <2>1
<1>11. f.call = "AddSwarmMember" => ~Dying(f.arg)'
  <2>1. f.call = "AddSwarmMember" => ~Dying(f.arg) BY <1>0, <1>2 DEF FrameOK
  <2> QED BY <1>1, <1>9, <2>1
<1>12. \A s \in Own(u) : strong'[s] = strong[s] BY DEF SameLocals
<1>13. weak'[u] = weak[u] /\ holder'[u] = holder[u] BY DEF SameLocals
<1>14. todo'[u][i] = f BY <1>0
<1> QED BY <1>0, <1>1, <1>2, <1>4, <1>5, <1>10, <1>11, <1>12, <1>13, <1>14 DEF FrameOK

(* What the top call may change of the variables of its thread. *)
RestLocals(th, p) ==
  todo[th] # <<>> =>
    /\ todo[th][1].call = "ReleaseWeakRef" => p = <<>> /\ SameLocals(th)
    /\ todo[th][1].call # "Place" => holder'[th] = NoObj \/ (holder'[th] = holder[th] /\ todo[th][1] # ClearHolder)

(* The calls of the thread that stay on its stack are as they should be. *)
LEMMA RestFrames ==
  ASSUME TypeOK, Heap, FramesTyped(todo), FramesOK, SameHeap, NEW th \in Threads,
         NEW p \in Seq(Frames), QuietStack(th, p), RestLocals(th, p),
         NEW i \in DOMAIN todo'[th], i \notin DOMAIN p
  PROVE  FrameOK(th, i)'
<1>1. /\ cls' = cls /\ life' = life /\ weakRef' = weakRef
      /\ \A b \in Objects : Pos(b)' <=> Pos(b)
  BY DEF SameHeap, SameCalls
<1>2. Stacked(todo[th], p, todo'[th]) BY StackAfter DEF QuietStack
<1>3. PICK j : j = i - Len(p) + 1 OBVIOUS
<1>4. j \in DOMAIN todo[th] /\ j # 1 /\ todo'[th][i] = todo[th][j] BY <1>2, <1>3 DEF Stacked
<1>5. PICK f : f = todo[th][j] OBVIOUS
<1>6. FrameOK(th, j) BY <1>4 DEF FramesOK
<1>7. /\ f \in Frames /\ todo[th] # <<>> /\ j > 1
      /\ todo[th][1].call \in QuietCalls
      /\ f.call \in {"Delete", "EndDelete", "ReleaseWeakRef", "FreeMember", "AssignWeak", "Place"}
      /\ f.call = "ReleaseWeakRef" => todo[th][1].call \in {"Delete", "EndDelete"}
      /\ f.call = "FreeMember" => todo[th][1].call \in {"Delete", "EndDelete"}
      /\ f.call = "AssignWeak" => todo[th][1].call = "ReleaseWeakRef" /\ j = 2
      /\ f.call \in {"AssignWeak", "Place"} => j = Len(todo[th])
  BY <1>4, <1>5, BelowTop DEF QuietStack
<1>8. f.call \in {"Delete", "EndDelete", "AssignWeak", "Place"} BY <1>7 DEF QuietCalls
<1>9. todo[th] \in Seq(Frames) /\ Len(p) \in Nat /\ Len(todo[th]) \in Nat /\ j \in Nat BY <1>4 DEF FramesTyped
<1>10. i = j + Len(p) - 1 /\ i \in Nat
  <2>1. i \in Nat BY <1>2 DEF Stacked
  <2> QED BY <1>3, <1>9, <2>1
<1>11. Len(todo'[th]) = Len(todo[th]) + Len(p) - 1 BY <1>2, <1>7, <1>9 DEF Stacked
<1>12. j = Len(todo[th]) => i = Len(todo'[th]) BY <1>10, <1>11
<1>13. CASE f.call \in {"Delete", "EndDelete"}
  <2>1. f.arg \in Objects BY <1>7, <1>13, FrameFacts
  <2>2. DyingOK(th, j, f.arg) BY <1>5, <1>6, <1>13 DEF FrameOK
  <2>3. DyingOK(th, i, f.arg)'
    <3>1. PICK o \in Objects : o = f.arg BY <2>1
    <3>2. cls[o].policy = "WeakRef" => weakRef[o] \in Objects /\ ~Pos(weakRef[o])
      BY <1>4, <2>2, <3>1 DEF DyingOK, TypeOK, RefTypeOK, Pointers
    <3>3. PICK b : b = weakRef[o] OBVIOUS
    <3>4. cls[o].policy = "WeakRef" => ~Pos(b)' /\ b # NoObj BY <1>1, <3>2, <3>3, RefCountingAssumption
    <3> QED BY <1>1, <3>1, <3>3, <3>4 DEF DyingOK
  <2> QED BY <1>1, <1>4, <1>5, <1>6, <1>13, <2>3 DEF FrameOK
<1>14. CASE f.call = "AssignWeak"
  <2>1. p = <<>> /\ SameLocals(th) BY <1>7, <1>14 DEF RestLocals
  <2>2. Len(p) = 0 BY <2>1
  <2>3. i = 1 /\ i = Len(todo'[th])
    <3>1. j = 2 /\ i = Len(todo'[th]) BY <1>7, <1>12, <1>14
    <3> QED BY <1>10, <2>2, <3>1
  <2>4. Own(th)' = Own(th) BY DEF Own
  <2> QED BY <1>1, <1>4, <1>5, <1>6, <1>14, <2>1, <2>3, <2>4 DEF FrameOK, SameLocals
<1>15. CASE f.call = "Place"
  <2>1. i = Len(todo'[th]) BY <1>7, <1>12, <1>15
  <2>2. todo[th][1].call # "Place"
    <3>1. todo[th][1].call = "Place" => FALSE
      <4>1. FrameOK(th, 1) /\ 1 \in DOMAIN todo[th] BY <1>4, BelowTop DEF FramesOK
      <4>2. todo[th][1].call = "Place" => 1 = Len(todo[th]) BY <4>1 DEF FrameOK
      <4> QED BY <1>4, <1>7, <1>9, <1>15, <4>2
    <3> QED BY <3>1
  <2>3. holder[th] = NoObj \/ todo[th][1] = ClearHolder BY <1>5, <1>6, <1>15 DEF FrameOK
  <2>4. holder'[th] = NoObj BY <1>7, <2>2, <2>3 DEF RestLocals
  <2> QED BY <1>4, <1>5, <1>15, <2>1, <2>4 DEF FrameOK
<1> QED BY <1>8, <1>13, <1>14, <1>15

(* The swarm of the member a call is about still has its count, or will.   *)
CascadeStays(th, j) ==
  todo[th][j].call \in {"Delete", "EndDelete"} =>
    /\ cls'[todo[th][j].arg] = cls[todo[th][j].arg]
    /\ weakRef'[todo[th][j].arg] = weakRef[todo[th][j].arg]
    /\ cls[todo[th][j].arg] = FixedSwarmMember /\ m_refCount[weakRef[todo[th][j].arg]] > 0
          => m_refCount'[weakRef[todo[th][j].arg]] > 0

(* The call of another thread. *)
LEMMA CascadeOther ==
  ASSUME NEW u \in Threads, todo'[u] = todo[u], NEW i \in DOMAIN todo[u], Cascade(u, i), CascadeStays(u, i)
  PROVE  Cascade(u, i)'
<1>1. PICK f, x, b : f = todo[u][i] /\ x = f.arg /\ b = weakRef[x] OBVIOUS
<1>2. CASE f.call \in {"Delete", "EndDelete"} /\ cls[x] = FixedSwarmMember
  <2>1. m_refCount[b] > 0 \/ \E k \in DOMAIN todo[u] : k > i /\ todo[u][k] = ReleaseWeakRef(b)
    BY <1>1, <1>2 DEF Cascade, Pos
  <2>2. cls'[x] = cls[x] /\ weakRef'[x] = b /\ (m_refCount[b] > 0 => m_refCount'[b] > 0)
    BY <1>1, <1>2 DEF CascadeStays
  <2>3. m_refCount'[b] > 0 \/ \E k \in DOMAIN todo'[u] : k > i /\ todo'[u][k] = ReleaseWeakRef(b) BY <2>1, <2>2
  <2> QED BY <1>1, <2>2, <2>3 DEF Cascade, Pos
<1>3. CASE ~(f.call \in {"Delete", "EndDelete"} /\ cls[x] = FixedSwarmMember)
  <2>1. todo'[u][i] = f BY <1>1
  <2>2. f.call \in {"Delete", "EndDelete"} => cls'[x] # FixedSwarmMember BY <1>1, <1>3 DEF CascadeStays
  <2> QED BY <1>1, <2>1, <2>2 DEF Cascade
<1> QED BY <1>2, <1>3

(* A call that stays on the stack. *)
LEMMA CascadeRest ==
  ASSUME FramesTyped(todo), NEW th \in Threads, NEW p \in Seq(Frames), StackStep(th, p), Cascades,
         NEW i \in DOMAIN todo'[th], i \notin DOMAIN p, \A j \in DOMAIN todo[th] : j # 1 => CascadeStays(th, j)
  PROVE  Cascade(th, i)'
<1>0. Stacked(todo[th], p, todo'[th]) BY StackAfter
<1>1. PICK j : j = i - Len(p) + 1 OBVIOUS
<1>2. j \in DOMAIN todo[th] /\ j # 1 /\ todo'[th][i] = todo[th][j] BY <1>0, <1>1 DEF Stacked
<1>3. PICK f, x, b : f = todo[th][j] /\ x = f.arg /\ b = weakRef[x] OBVIOUS
<1>4. CASE f.call \in {"Delete", "EndDelete"} /\ cls[x] = FixedSwarmMember
  <2>1. m_refCount[b] > 0 \/ \E k \in DOMAIN todo[th] : k > j /\ todo[th][k] = ReleaseWeakRef(b)
    BY <1>2, <1>3, <1>4 DEF Cascades, Cascade, Pos
  <2>2. cls'[x] = cls[x] /\ weakRef'[x] = b /\ (m_refCount[b] > 0 => m_refCount'[b] > 0)
    BY <1>2, <1>3, <1>4 DEF CascadeStays
  <2>3. ASSUME NEW k \in DOMAIN todo[th], k > j, todo[th][k] = ReleaseWeakRef(b)
        PROVE  \E l \in DOMAIN todo'[th] : l > i /\ todo'[th][l] = ReleaseWeakRef(b)
    <3>1. todo[th] \in Seq(Frames) /\ todo'[th] \in Seq(Frames) BY <1>0 DEF Stacked, FramesTyped
    <3>2. PICK n \in Nat : n = Len(p) BY LenProperties
    <3>3. k \in Nat /\ j \in Nat /\ i \in Nat /\ j >= 1 BY <1>2, <3>1
    <3>4. k # 1 BY <2>3, <3>3
    <3>5. k + n - 1 \in DOMAIN todo'[th] /\ todo'[th][k + n - 1] = todo[th][k] BY <1>0, <3>2, <3>4 DEF Stacked
    <3>6. k + n - 1 > i BY <1>1, <2>3, <3>2, <3>3
    <3> QED BY <2>3, <3>5, <3>6
  <2>4. m_refCount'[b] > 0 \/ \E l \in DOMAIN todo'[th] : l > i /\ todo'[th][l] = ReleaseWeakRef(b) BY <2>1, <2>2, <2>3
  <2> QED BY <1>2, <1>3, <2>2, <2>4 DEF Cascade, Pos
<1>5. CASE ~(f.call \in {"Delete", "EndDelete"} /\ cls[x] = FixedSwarmMember)
  <2>1. todo'[th][i] = f BY <1>2, <1>3
  <2>2. f.call \in {"Delete", "EndDelete"} => cls'[x] # FixedSwarmMember BY <1>2, <1>3, <1>5 DEF CascadeStays
  <2> QED BY <1>3, <2>1, <2>2 DEF Cascade
<1> QED BY <1>4, <1>5

(* A step that neither makes nor destroys keeps the invariant, when the    *)
(* references it moves are counted and the calls it makes are in order.    *)
LEMMA QuietStep ==
  ASSUME IInv, NEW th \in Threads, NEW p \in Seq(Frames), QuietStack(th, p),
         UNCHANGED <<program, cls, life, weakRef, m_headMember, storage, reported>>,
         TypeOK', Counts',
         \A b \in Objects : Pos(b)' <=> Pos(b),
         \A b \in Objects : m_weakRefCount'[b] > 0 <=> m_weakRefCount[b] > 0,
         \A o \in Objects : field'[o] = field[o] \/ FieldOK(o)',
         \A h \in StrongTokens : FromHere(th, h) /\ (Ref(h)' = Ref(h) \/ Ref(h)' = NoObj \/ Live(Ref(h)')),
         \A u \in Threads : weak'[u] = weak[u] \/ WeakLive(weak'[u]),
         \A u \in Threads : u # th /\ todo[u] # <<>> => SameLocals(u),
         RestLocals(th, p),
         \A e \in Objects : life[e] = "dead" => (e \in handled' <=> e \in handled),
         SameHeap => \A i \in DOMAIN p : FrameOK(th, i)'
  PROVE  IInv'
<1>0. /\ TypeOK /\ FramesTyped(todo) /\ Counts /\ RefsLive /\ WeaksLive /\ Heap
      /\ Onces /\ FramesOK /\ Cascades /\ Reports
  BY DEF IInv
<1>1. SameCalls /\ Onces' /\ FramesTyped(todo') BY <1>0, QuietKeepsCalls
<1>2. SameHeap BY <1>1 DEF SameHeap
<1>3. Heap' BY <1>0, <1>2, SameHeapKeeps
<1>4. RefsLive'
  <2> SUFFICES ASSUME NEW h \in StrongTokens, Ref(h)' # NoObj PROVE Live(Ref(h))'
    BY DEF RefsLive, StrongTokens
  <2>1. PICK o : o = Ref(h)' OBVIOUS
  <2>2. Live(o) BY <1>0, <2>1 DEF RefsLive
  <2>3. Live(o)' BY <1>2, <2>2, SameHeapLive
  <2> QED BY <2>1, <2>3
<1>5. WeaksLive'
  <2> SUFFICES ASSUME NEW u \in Threads PROVE WeakLive(weak[u])' BY DEF WeaksLive
  <2>1. PICK w : w = weak'[u] OBVIOUS
  <2>2. WeakLive(w) BY <1>0, <2>1 DEF WeaksLive
  <2>3. WeakLive(w)' BY <1>2, <2>2, SameHeapLive
  <2> QED BY <2>1, <2>3
<1>6. FramesOK'
  <2> SUFFICES ASSUME NEW u \in Threads, NEW i \in DOMAIN todo'[u] PROVE FrameOK(u, i)'
    BY DEF FramesOK
  <2>1. CASE u # th
    <3>1. todo'[u] = todo[u] BY <1>0, <2>1, StackAfter DEF QuietStack
    <3>2. todo[u] # <<>> BY <3>1
    <3> QED BY <1>0, <1>2, <2>1, <3>1, <3>2, OtherFrames
  <2>2. CASE u = th /\ i \in DOMAIN p BY <1>2, <2>2
  <2>3. CASE u = th /\ i \notin DOMAIN p BY <1>0, <1>2, <2>3, RestFrames
  <2> QED BY <2>1, <2>2, <2>3
<1>7. Reports' BY <1>0 DEF Reports
<1>8. Cascades'
  <2> SUFFICES ASSUME NEW u \in Threads, NEW i \in DOMAIN todo'[u] PROVE Cascade(u, i)' BY DEF Cascades
  <2>1. \A j \in DOMAIN todo[u] : CascadeStays(u, j)
    <3> SUFFICES ASSUME NEW j \in DOMAIN todo[u], todo[u][j].call \in {"Delete", "EndDelete"}, cls[todo[u][j].arg] = FixedSwarmMember,
                        m_refCount[weakRef[todo[u][j].arg]] > 0
                 PROVE  m_refCount'[weakRef[todo[u][j].arg]] > 0
      BY DEF CascadeStays
    <3>1. PICK b : b = weakRef[todo[u][j].arg] OBVIOUS
    <3>2. FrameOK(u, j) /\ todo[u][j] \in Frames BY <1>0 DEF FramesOK, FramesTyped
    <3>3. b # NoObj
      <4>1. DyingOK(u, j, todo[u][j].arg) BY <3>2 DEF FrameOK
      <4>2. cls[todo[u][j].arg].policy = "WeakRef" BY DEF FixedSwarmMember, Class
      <4> QED BY <3>1, <4>1, <4>2 DEF DyingOK
    <3>4. b \in Objects
      <4>1. todo[u][j].arg \in Objects BY <3>2, FrameFacts
      <4> QED BY <1>0, <3>1, <3>3, <4>1 DEF TypeOK, RefTypeOK, Pointers
    <3> QED BY <3>1, <3>4 DEF Pos
  <2>2. CASE u # th
    <3>1. todo'[u] = todo[u] /\ Cascade(u, i) BY <1>0, <2>2, StackAfter DEF QuietStack, Cascades
    <3> QED BY <2>1, <3>1, CascadeOther
  <2>3. CASE u = th /\ i \in DOMAIN p
    <3>1. todo'[th][i] = p[i] BY <1>0, <2>3, StackAfter DEF QuietStack, Stacked
    <3>2. p[i].call \in QuietCalls BY <2>3 DEF QuietStack
    <3> QED BY <2>3, <3>1, <3>2 DEF Cascade, QuietCalls
  <2>4. CASE u = th /\ i \notin DOMAIN p
    <3>1. StackStep(th, p) BY DEF QuietStack
    <3> QED BY <1>0, <2>1, <2>4, <3>1, CascadeRest
  <2> QED BY <2>2, <2>3, <2>4
<1> QED BY <1>1, <1>3, <1>4, <1>5, <1>6, <1>7, <1>8 DEF IInv
-----------------------------------------------------------------------------
(* The counter of a live object is there, unless nobody counts. *)
LEMMA LiveCounter ==
  ASSUME IInv, NEW o, Live(o)
  PROVE  /\ o \in Objects /\ o # NoObj
         /\ IsCounted(o) => Counter(o) \in Objects
         /\ ~IsCounted(o) => Counter(o) = NoObj /\ Counter(o) \notin Objects
         /\ cls[o] \in Classes
<1>1. o \in Objects /\ life[o] = "alive" /\ cls[o] # OwnedObject
      /\ (HasWeakRef(cls[o]) => weakRef[o] \in Objects)
  BY DEF Live
<1>2. ClassOK(o) /\ WeakRefOK(o) BY <1>1 DEF IInv, Heap
<1>3. cls[o] \in Classes BY <1>1, <1>2 DEF ClassOK
<1>4. cls[o].policy \in {"Simple", "WeakRef", "FixedSwarm", "NoRefCount"} BY <1>1, <1>3, ClassFacts
<1>5. cls[o].policy = "NoRefCount" => weakRef[o] = NoObj
  BY <1>2 DEF WeakRefOK, HasWeakRef
<1> QED BY <1>1, <1>3, <1>4, <1>5, RefCountingAssumption DEF IsCounted, Counter, HasWeakRef

(* What is referred to is live, and its count is not zero. *)
LEMMA RefCounted ==
  ASSUME IInv, NEW h \in StrongTokens, Ref(h) # NoObj
  PROVE  /\ Live(Ref(h)) /\ Ref(h) \in Objects
         /\ IsCounted(Ref(h)) => Counter(Ref(h)) \in Objects /\ Pos(Counter(Ref(h)))
<1>1. Live(Ref(h)) BY DEF IInv, RefsLive
<1>2. Ref(h) \in Objects /\ (IsCounted(Ref(h)) => Counter(Ref(h)) \in Objects) BY <1>1, LiveCounter
<1>3. ASSUME IsCounted(Ref(h)) PROVE Pos(Counter(Ref(h)))
  <2>1. PICK b \in Objects : b = Counter(Ref(h)) BY <1>2, <1>3
  <2>2. StrongAt[h] = b /\ h \in DOMAIN StrongAt BY <2>1 DEF StrongAt
  <2>3. Exact(StrongAt, m_refCount) BY DEF IInv, Counts, StrongExact
  <2>4. m_refCount[b] \in Nat /\ m_refCount[b] # 0 BY <2>2, <2>3, ExactZero
  <2> QED BY <2>1, <2>4 DEF Pos
<1> QED BY <1>1, <1>2, <1>3

(* The reference is not in a variable of another thread. *)
Here(th, h) == h[1] = "slot" => h[2] \in Own(th)

RefsOK(th) == \A h \in StrongTokens : FromHere(th, h) /\ (Ref(h)' = Ref(h) \/ Ref(h)' = NoObj \/ Live(Ref(h)'))
SamePos == \A b \in Objects : Pos(b)' <=> Pos(b)

(* The counters places refer to, when objects keep theirs. *)
LEMMA StrongAtAfter ==
  ASSUME UNCHANGED <<cls, weakRef>>
  PROVE  /\ DOMAIN StrongAt = StrongTokens /\ DOMAIN StrongAt' = StrongTokens
         /\ \A h \in StrongTokens :
              /\ StrongAt[h] = IF Ref(h) = NoObj THEN NoObj ELSE Counter(Ref(h))
              /\ StrongAt'[h] = IF Ref(h)' = NoObj THEN NoObj ELSE Counter(Ref(h)')
<1>1. StrongTokens' = StrongTokens BY DEF StrongTokens
<1>2. \A o : (IF cls[o].policy = "Simple" THEN o ELSE weakRef[o])' = IF cls'[o].policy = "Simple" THEN o ELSE weakRef'[o] OBVIOUS
<1>3. StrongAt' = [h \in StrongTokens |-> IF Ref(h)' = NoObj THEN NoObj ELSE Counter(Ref(h)')]
  BY <1>1 DEF StrongAt, Counter
<1> QED BY <1>3 DEF StrongAt

(* Nothing moves. *)
LEMMA CountSame ==
  ASSUME IInv, NEW th \in Threads, UNCHANGED <<cls, weakRef, m_refCount>>,
         \A x \in StrongTokens : Ref(x)' = Ref(x)
  PROVE  StrongExact' /\ SamePos /\ RefsOK(th)
<1>1. Exact(StrongAt, m_refCount) BY DEF IInv, Counts, StrongExact
<1>2. PICK f, g, n, m : f = StrongAt /\ g = StrongAt' /\ n = m_refCount /\ m = m_refCount' OBVIOUS
<1>3. DOMAIN g = DOMAIN f /\ \A x \in DOMAIN f : g[x] = f[x] BY <1>2, StrongAtAfter
<1>4. Exact(g, n) BY <1>1, <1>2, <1>3, ExactSame
<1>5. StrongExact' BY <1>2, <1>4 DEF StrongExact, Exact, At
<1> QED BY <1>5 DEF SamePos, Pos, RefsOK, FromHere

(* Two places swap their references. *)
LEMMA CountSwap ==
  ASSUME IInv, NEW th \in Threads, UNCHANGED <<cls, weakRef, m_refCount>>,
         NEW h \in StrongTokens, NEW k \in StrongTokens, Ref(h)' = Ref(k), Ref(k)' = Ref(h),
         \A x \in StrongTokens : x \notin {h, k} => Ref(x)' = Ref(x),
         Here(th, h) \/ Ref(h) = NoObj, Here(th, k) \/ Ref(k) = NoObj
  PROVE  StrongExact' /\ SamePos /\ RefsOK(th)
<1>1. Exact(StrongAt, m_refCount) BY DEF IInv, Counts, StrongExact
<1>2. PICK f, g, n, m : f = StrongAt /\ g = StrongAt' /\ n = m_refCount /\ m = m_refCount' OBVIOUS
<1>3. DOMAIN g = DOMAIN f /\ h \in DOMAIN f /\ k \in DOMAIN f /\ f[h] = g[k] /\ f[k] = g[h]
      /\ \A x \in DOMAIN f : x \notin {h, k} => g[x] = f[x]
  BY <1>2, StrongAtAfter
<1>4. Exact(g, n) BY <1>1, <1>2, <1>3, ExactSwap
<1>5. StrongExact' BY <1>2, <1>4 DEF StrongExact, Exact, At
<1>6. \A x \in StrongTokens : Ref(x) # NoObj => Live(Ref(x)) BY DEF IInv, RefsLive
<1> QED BY <1>5, <1>6 DEF SamePos, Pos, RefsOK, FromHere, Here

(* A reference moves on, and what it replaces moves to a third place. *)
LEMMA CountCycle ==
  ASSUME IInv, NEW th \in Threads, UNCHANGED <<cls, weakRef, m_refCount>>,
         NEW h \in StrongTokens, NEW k \in StrongTokens, NEW l \in StrongTokens,
         h # k, k # l, h # l, Ref(k)' = Ref(h), Ref(l)' = Ref(k), Ref(h)' = Ref(l),
         \A x \in StrongTokens : x \notin {h, k, l} => Ref(x)' = Ref(x),
         Here(th, h) \/ Ref(h) = NoObj, Here(th, k) \/ Ref(k) = NoObj, Here(th, l) \/ Ref(l) = NoObj
  PROVE  StrongExact' /\ SamePos /\ RefsOK(th)
<1>1. Exact(StrongAt, m_refCount) BY DEF IInv, Counts, StrongExact
<1>2. PICK f, g, n, m : f = StrongAt /\ g = StrongAt' /\ n = m_refCount /\ m = m_refCount' OBVIOUS
<1>3. DOMAIN g = DOMAIN f /\ h \in DOMAIN f /\ k \in DOMAIN f /\ l \in DOMAIN f
      /\ g[k] = f[h] /\ g[l] = f[k] /\ g[h] = f[l]
      /\ \A x \in DOMAIN f : x \notin {h, k, l} => g[x] = f[x]
  BY <1>2, StrongAtAfter
<1>4. Exact(g, n) BY <1>1, <1>2, <1>3, ExactCycle
<1>5. StrongExact' BY <1>2, <1>4 DEF StrongExact, Exact, At
<1>6. \A x \in StrongTokens : Ref(x) # NoObj => Live(Ref(x)) BY DEF IInv, RefsLive
<1> QED BY <1>5, <1>6 DEF SamePos, Pos, RefsOK, FromHere, Here

(* AddRef: one more, or nothing for what nobody counts. *)
LEMMA AddRefCounts ==
  ASSUME TypeOK, NEW o, m_refCount' = AddRef(o), IsCounted(o) => Counter(o) \in Objects /\ Pos(Counter(o))
  PROVE  /\ m_refCount' \in [Objects -> Nat]
         /\ IsCounted(o) => Plus1(m_refCount', m_refCount, Counter(o))
         /\ ~IsCounted(o) => m_refCount' = m_refCount
         /\ SamePos
<1>1. m_refCount \in [Objects -> Nat] BY DEF TypeOK, RefTypeOK
<1> QED BY <1>1 DEF AddRef, Plus1, SamePos, Pos

(* A new reference, in a place that had none or passes its own on to k. *)
LEMMA CountAdd ==
  ASSUME IInv, NEW th \in Threads, UNCHANGED <<cls, weakRef>>,
         NEW o, m_refCount' = AddRef(o), Live(o), IsCounted(o) => Pos(Counter(o)),
         cls[o] # FixedSwarm \/ \E x \in StrongTokens : Ref(x) = o /\ Here(th, x),
         NEW h \in StrongTokens, NEW k \in StrongTokens, h # k, Ref(k) = NoObj,
         Ref(h)' = o, Ref(k)' = Ref(h), Here(th, h) \/ Ref(h) = NoObj,
         \A x \in StrongTokens : x \notin {h, k} => Ref(x)' = Ref(x)
  PROVE  StrongExact' /\ SamePos /\ RefsOK(th) /\ m_refCount' \in [Objects -> Nat]
<1>0. /\ o \in Objects /\ o # NoObj
      /\ IsCounted(o) => Counter(o) \in Objects
      /\ ~IsCounted(o) => Counter(o) = NoObj
  BY LiveCounter
<1>1. Exact(StrongAt, m_refCount) /\ TypeOK BY DEF IInv, Counts, StrongExact
<1>2. PICK f, g, n, m : f = StrongAt /\ g = StrongAt' /\ n = m_refCount /\ m = m_refCount' OBVIOUS
<1>3. DOMAIN g = DOMAIN f /\ h \in DOMAIN f /\ k \in DOMAIN f /\ f[k] = NoObj
      /\ g[k] = f[h] /\ g[h] = Counter(o)
      /\ \A x \in DOMAIN f : x \notin {h, k} => g[x] = f[x]
  BY <1>0, <1>2, StrongAtAfter
<1>4. /\ m_refCount' \in [Objects -> Nat]
      /\ IsCounted(o) => Plus1(m_refCount', m_refCount, Counter(o))
      /\ ~IsCounted(o) => m_refCount' = m_refCount
      /\ SamePos
  BY <1>0, <1>1, AddRefCounts
<1>5. Exact(g, m)
  <2>1. CASE IsCounted(o)
    <3>1. PICK b \in Objects : b = Counter(o) BY <1>0, <2>1
    <3>2. Plus1(m, n, b) BY <1>2, <1>4, <2>1, <3>1
    <3>3. f[k] \notin Objects BY <1>3, RefCountingAssumption
    <3> QED BY <1>1, <1>2, <1>3, <3>1, <3>2, <3>3, ExactSwapAdd
  <2>2. CASE ~IsCounted(o)
    <3>1. g[h] = f[k] /\ n = m BY <1>0, <1>2, <1>3, <1>4, <2>2
    <3> QED BY <1>1, <1>2, <1>3, <3>1, ExactSwap
  <2> QED BY <2>1, <2>2
<1>6. StrongExact' BY <1>2, <1>5 DEF StrongExact, Exact, At
<1>7. \A x \in StrongTokens : Ref(x) # NoObj => Live(Ref(x)) BY DEF IInv, RefsLive
<1>8. \A x \in StrongTokens : FromHere(th, x) /\ (Ref(x)' = Ref(x) \/ Ref(x)' = NoObj \/ Live(Ref(x)'))
  <2> TAKE x \in StrongTokens
  <2>1. CASE x = h BY <2>1 DEF FromHere, Here
  <2>2. CASE x = k BY <2>2, <1>7 DEF FromHere, Here
  <2>3. CASE x \notin {h, k} BY <2>3 DEF FromHere
  <2> QED BY <2>1, <2>2, <2>3
<1> QED BY <1>4, <1>6, <1>8 DEF RefsOK

(* The weak counts stay. *)
LEMMA WeakKept ==
  ASSUME IInv, NEW th \in Threads, NEW p \in Seq(Frames), StackStep(th, p),
         UNCHANGED <<cls, weakRef, weak, m_weakRefCount>>, SamePos, TypeOK',
         todo[th] = <<>> \/ todo[th][1].call # "ReleaseWeakRef",
         \A i \in DOMAIN p : p[i].call # "ReleaseWeakRef"
  PROVE  WeakExact'
<1>0. TypeOK /\ FramesTyped(todo) /\ FramesOK /\ Exact(WeakAt, m_weakRefCount) BY DEF IInv, Counts, WeakExact
<1>1. PICK f, g, n : f = WeakAt /\ g = WeakAt' /\ n = m_weakRefCount OBVIOUS
<1>2. DOMAIN f = WeakTokens /\ DOMAIN g = WeakTokens BY <1>1, WeakIs
<1>3. ASSUME NEW x \in WeakTokens PROVE g[x] = f[x]
  <2>1. ASSUME NEW o \in Objects, x = <<"object", o>> PROVE g[x] = f[x]
    <3>1. m_refCount'[o] = 0 <=> m_refCount[o] = 0
      <4>1. m_refCount[o] \in Nat /\ m_refCount'[o] \in Nat /\ (Pos(o)' <=> Pos(o))
        BY <1>0 DEF TypeOK, RefTypeOK, SamePos
      <4> QED BY <4>1 DEF Pos
    <3> QED BY <1>1, <2>1, <3>1, WeakIs
  <2>2. ASSUME NEW u \in Threads, x = <<"weak", u>> PROVE g[x] = f[x] BY <1>1, <2>2, WeakIs
  <2>3. ASSUME NEW u \in Threads, NEW b \in Objects, x = <<"call", u, b>> PROVE g[x] = f[x]
    <3>1. todo[th] = <<>> => ReleaseWeakRef(b) \notin Range(todo[th]) BY DEF Range
    <3>2. ReleaseWeakRef(b) \in Range(todo'[u]) <=> ReleaseWeakRef(b) \in Range(todo[u])
      BY <1>0, <3>1, CallsAfter DEF ReleaseWeakRef
    <3> QED BY <1>1, <2>3, <3>2, WeakIs
  <2> QED BY <2>1, <2>2, <2>3, WeakIs
<1>4. Exact(g, n) BY <1>0, <1>1, <1>2, <1>3, ExactSame
<1> QED BY <1>1, <1>4 DEF WeakExact, Exact, At

(* The owners stay, when what has none comes or goes. *)
LEMMA OwnersStay ==
  ASSUME IInv, NEW th \in Threads, NEW p \in Seq(Frames), StackStep(th, p), holder' = holder,
         \A u \in Threads : OwnerAt'[<<"raw", u>>] = OwnerAt[<<"raw", u>>],
         \A x \in Objects : cls'[x] = OwnedObject /\ life'[x] = "alive" <=> cls[x] = OwnedObject /\ life[x] = "alive",
         todo[th] = <<>> \/ todo[th][1].call \notin {"Place", "Free"},
         \A i \in DOMAIN p : p[i].call \notin {"Place", "Free"}
  PROVE  OwnerExact'
<1>0. TypeOK /\ FramesTyped(todo) /\ FramesOK /\ Exact(OwnerAt, OwnerCount) BY DEF IInv, Counts, OwnerExact
<1>1. PICK f, g, n, m : f = OwnerAt /\ g = OwnerAt' /\ n = OwnerCount /\ m = OwnerCount' OBVIOUS
<1>2. DOMAIN f = OwnerTokens /\ DOMAIN g = OwnerTokens BY <1>1, OwnerIs
<1>3. \A u \in Threads : PlaceOf(todo'[u]) = PlaceOf(todo[u])
  <2>0. todo[th] \in Seq(Frames) BY <1>0 DEF FramesTyped
  <2>1. PlaceOf(p) = NoObj
    <3>1. p # <<>> => Len(p) \in DOMAIN p
      <4>1. p # <<>> => Len(p) \in Nat \ {0} BY EmptySeq
      <4>2. DOMAIN p = 1..Len(p) OBVIOUS
      <4> QED BY <4>1, <4>2
    <3> QED BY <3>1 DEF PlaceOf, Last1
  <2>2. ~(Len(todo[th]) > 1) => PlaceOf(todo[th]) = NoObj
    <3>1. todo[th] # <<>> => Len(todo[th]) \in Nat \ {0} BY <2>0, EmptySeq
    <3>2. SUFFICES ASSUME todo[th] # <<>>, ~(Len(todo[th]) > 1) PROVE PlaceOf(todo[th]) = NoObj
      BY DEF PlaceOf
    <3>3. PICK n1 : n1 = Len(todo[th]) OBVIOUS
    <3>4. n1 \in Nat \ {0} /\ ~(n1 > 1) BY <3>1, <3>2, <3>3
    <3>5. n1 = 1 BY <3>4
    <3> QED BY <3>2, <3>3, <3>5 DEF PlaceOf, Last1
  <2> QED BY <1>0, <2>1, <2>2, PlaceAfter
<1>4. \A u \in Threads : g[<<"free", u>>] = f[<<"free", u>>]
  <2>1. \A u \in Threads : u # th => todo'[u] = todo[u] BY <1>0, StackAfter
  <2>2. f[<<"free", th>>] = NoObj
    <3>1. todo[th] # <<>> => Head(todo[th]) = todo[th][1] BY <1>0 DEF FramesTyped
    <3> QED BY <1>1, <3>1, OwnerIs
  <2>3. g[<<"free", th>>] = NoObj
    <3>1. CASE p # <<>>
      <4>1. 1 \in DOMAIN p BY <3>1
      <4>2. Head(todo'[th]) = p[1] BY <1>0, <3>1, TopAfter
      <4> QED BY <1>1, <4>1, <4>2, OwnerIs
    <3>2. CASE p = <<>> /\ todo'[th] # <<>>
      <4>1. 2 \in DOMAIN todo[th] /\ Head(todo'[th]) = todo[th][2] BY <1>0, <3>2, TopAfter
      <4>2. todo[th][2].call # "Free" BY <1>0, <4>1, BelowTop
      <4> QED BY <1>1, <4>1, <4>2, OwnerIs
    <3>3. CASE todo'[th] = <<>> BY <1>1, <3>3, OwnerIs
    <3> QED BY <3>1, <3>2, <3>3
  <2>4. \A u \in Threads : u # th => g[<<"free", u>>] = f[<<"free", u>>]
    <3> TAKE u \in Threads
    <3> HAVE u # th
    <3>1. todo'[u] = todo[u] BY <2>1
    <3>2. /\ f[<<"free", u>>] = IF todo[u] # <<>> /\ Head(todo[u]).call = "Free" THEN Head(todo[u]).arg ELSE NoObj
          /\ g[<<"free", u>>] = IF todo'[u] # <<>> /\ Head(todo'[u]).call = "Free" THEN Head(todo'[u]).arg ELSE NoObj
      BY <1>1, OwnerIs
    <3> QED BY <3>1, <3>2
  <2> QED BY <2>2, <2>3, <2>4
<1>5. ASSUME NEW x \in OwnerTokens PROVE g[x] = f[x]
  <2>1. PICK u \in Threads : x \in {<<"holder", u>>, <<"raw", u>>, <<"place", u>>, <<"free", u>>} BY OwnerIs
  <2>2. CASE x = <<"holder", u>> BY <1>1, <2>2, OwnerIs
  <2>3. CASE x = <<"raw", u>> BY <1>1, <2>3
  <2>4. CASE x = <<"place", u>>
    <3>1. f[x] = PlaceOf(todo[u]) /\ g[x] = PlaceOf(todo'[u]) BY <1>1, <2>4, OwnerIs
    <3> QED BY <1>3, <3>1
  <2>5. CASE x = <<"free", u>> BY <1>4, <2>5
  <2> QED BY <2>1, <2>2, <2>3, <2>4, <2>5
<1>6. m = n BY <1>1 DEF OwnerCount
<1>7. Exact(g, n) BY <1>0, <1>1, <1>2, <1>5, ExactSame
<1> QED BY <1>1, <1>6, <1>7 DEF OwnerExact, Exact, At

(* The owners stay, when no object comes or goes. *)
LEMMA OwnersKept ==
  ASSUME IInv, NEW th \in Threads, NEW p \in Seq(Frames), StackStep(th, p),
         UNCHANGED <<cls, life, holder>>,
         \A u \in Threads : \/ raw'[u] = raw[u]
                            \/ /\ raw[u] = NoObj \/ cls[raw[u]] # OwnedObject
                               /\ raw'[u] = NoObj \/ cls[raw'[u]] # OwnedObject,
         todo[th] = <<>> \/ todo[th][1].call \notin {"Place", "Free"},
         \A i \in DOMAIN p : p[i].call \notin {"Place", "Free"}
  PROVE  OwnerExact'
<1>1. ASSUME NEW u \in Threads PROVE OwnerAt'[<<"raw", u>>] = OwnerAt[<<"raw", u>>]
  <2>1. /\ OwnerAt[<<"raw", u>>] = IF raw[u] # NoObj /\ cls[raw[u]] = OwnedObject THEN raw[u] ELSE NoObj
        /\ OwnerAt'[<<"raw", u>>] = IF raw'[u] # NoObj /\ cls'[raw'[u]] = OwnedObject THEN raw'[u] ELSE NoObj
    BY OwnerIs
  <2> QED BY <2>1
<1> QED BY <1>1, OwnersStay

(* A pending Release is the innermost call. *)
LEMMA ReleaseFrame ==
  ASSUME NEW th \in Threads, todo'[th][1].call \in {"Release", "ClearHolder", "Free"} PROVE FrameOK(th, 1)'
BY DEF FrameOK

(* A step of user code that moves references, and at most has to release one. *)
LEMMA UserStep ==
  ASSUME IInv, NEW th \in Threads, InUserCode(th), NEW r \in Pointers, Start(th, ReleaseOf(r)),
         UNCHANGED <<program, cls, life, weakRef, m_weakRefCount, m_headMember, storage, weak,
                     holder, reported>>,
         TypeOK',
         \A u \in Threads : u # th /\ todo[u] # <<>> => \A s \in Own(u) : strong'[s] = strong[s],
         \A u \in Threads : \/ raw'[u] = raw[u]
                            \/ /\ raw[u] = NoObj \/ cls[raw[u]] # OwnedObject
                               /\ raw'[u] = NoObj \/ cls[raw'[u]] # OwnedObject,
         \A e \in Objects : life[e] = "dead" => (e \in handled' <=> e \in handled),
         \A o \in Objects : field'[o] = field[o] \/ FieldOK(o)',
         StrongExact', SamePos, RefsOK(th)
  PROVE  IInv'
<1>0. FramesTyped(todo) BY DEF IInv
<1>1. PICK p : p = ReleaseOf(r) OBVIOUS
<1>2. p \in Seq(Frames) /\ \A i \in DOMAIN p : i = 1 /\ p[i].call = "Release"
  <2>1. CASE r = NoObj BY <1>1, <2>1 DEF ReleaseOf
  <2>2. CASE r # NoObj
    <3>1. Release(r) \in Frames BY <2>2, FrameKinds DEF Pointers
    <3>2. p = <<Release(r)>> BY <1>1, <2>2 DEF ReleaseOf
    <3> QED BY <3>1, <3>2 DEF Release
  <2> QED BY <2>1, <2>2
<1>3. StackStep(th, p)
  <2>1. p \o <<>> = p BY <1>2, ConcatEmptySeq
  <2> QED BY <1>1, <2>1 DEF Start, StackStep, InUserCode, Rest
<1>4. QuietStack(th, p) BY <1>2, <1>3 DEF QuietStack, InUserCode, QuietCalls
<1>5. Counts'
  <2>1. WeakExact' BY <1>2, <1>3, WeakKept DEF InUserCode
  <2>2. OwnerExact' BY <1>2, <1>3, OwnersKept DEF InUserCode
  <2> QED BY <2>1, <2>2 DEF Counts
<1>6. \A i \in DOMAIN p : FrameOK(th, i)'
  <2> SUFFICES ASSUME NEW i \in DOMAIN p PROVE FrameOK(th, i)' OBVIOUS
  <2>1. todo'[th][i].call = "Release" /\ i = 1 BY <1>0, <1>2, <1>3, StackAfter DEF Stacked
  <2> QED BY <2>1, ReleaseFrame
<1>7. \A u \in Threads : u # th /\ todo[u] # <<>> => SameLocals(u) BY DEF SameLocals
<1>8. RestLocals(th, p) BY DEF RestLocals, InUserCode
<1>9. \A b \in Objects : m_weakRefCount'[b] > 0 <=> m_weakRefCount[b] > 0 OBVIOUS
<1>10. \A u \in Threads : weak'[u] = weak[u] \/ WeakLive(weak'[u]) OBVIOUS
<1>11. /\ \A b \in Objects : Pos(b)' <=> Pos(b)
       /\ \A h \in StrongTokens : FromHere(th, h) /\ (Ref(h)' = Ref(h) \/ Ref(h)' = NoObj \/ Live(Ref(h)'))
  BY DEF SamePos, RefsOK
<1> QED BY <1>2, <1>4, <1>5, <1>6, <1>7, <1>8, <1>9, <1>10, <1>11, QuietStep

(* The references around a step of user code. *)
LEMMA UserRefs ==
  ASSUME IInv, NEW th \in Threads, InUserCode(th), NEW r \in Pointers, Start(th, ReleaseOf(r)),
         cls' = cls
  PROVE  /\ <<"release", th>> \in StrongTokens /\ <<"publish", th>> \in StrongTokens
         /\ Ref(<<"release", th>>) = NoObj /\ Ref(<<"release", th>>)' = r
         /\ Ref(<<"publish", th>>) = NoObj /\ Ref(<<"publish", th>>)' = NoObj
         /\ \A h \in StrongTokens :
              \/ \E s \in Slots : h = <<"slot", s>> /\ Ref(h) = strong[s] /\ Ref(h)' = strong'[s]
              \/ \E o \in Objects : h = <<"field", o>> /\ (field'[o] = field[o] => Ref(h)' = Ref(h))
              \/ \E u \in Threads : h = <<"maybe", u>> /\ Ref(h) = maybe[u].m_error /\ Ref(h)' = maybe'[u].m_error
              \/ \E u \in Threads : h = <<"raw", u>> /\ (raw'[u] = raw[u] => Ref(h)' = Ref(h))
              \/ h = <<"release", th>>
              \/ Ref(h)' = Ref(h)
<1>0. FramesTyped(todo) /\ FramesOK /\ todo[th] = <<>> BY DEF IInv, InUserCode
<1>1. PICK p : p = ReleaseOf(r) OBVIOUS
<1>2. p \in Seq(Frames) /\ p = IF r = NoObj THEN <<>> ELSE <<Release(r)>>
  <2>1. r # NoObj => Release(r) \in Frames BY FrameKinds DEF Pointers
  <2> QED BY <1>1, <2>1 DEF ReleaseOf
<1>3. StackStep(th, p)
  <2>1. p \o <<>> = p BY <1>2, ConcatEmptySeq
  <2> QED BY <1>0, <1>1, <2>1 DEF Start, StackStep, Rest
<1>4. /\ \A u \in Threads : u # th => /\ Ref(<<"release", u>>)' = Ref(<<"release", u>>)
                                      /\ Ref(<<"publish", u>>)' = Ref(<<"publish", u>>)
      /\ Ref(<<"release", th>>)' = IF p # <<>> /\ p[1].call = "Release" THEN p[1].arg ELSE NoObj
      /\ Ref(<<"publish", th>>)' = IF p # <<>> /\ p[1].call = "Publish" THEN p[1].new ELSE NoObj
      /\ Ref(<<"release", th>>) = NoObj /\ Ref(<<"publish", th>>) = NoObj
  BY <1>0, <1>2, <1>3, TopRefs
<1>5. Ref(<<"release", th>>)' = r /\ Ref(<<"publish", th>>)' = NoObj BY <1>2, <1>4 DEF Release
<1>6. ASSUME NEW h \in StrongTokens
      PROVE  \/ \E s \in Slots : h = <<"slot", s>> /\ Ref(h) = strong[s] /\ Ref(h)' = strong'[s]
             \/ \E o \in Objects : h = <<"field", o>> /\ (field'[o] = field[o] => Ref(h)' = Ref(h))
             \/ \E u \in Threads : h = <<"maybe", u>> /\ Ref(h) = maybe[u].m_error /\ Ref(h)' = maybe'[u].m_error
             \/ \E u \in Threads : h = <<"raw", u>> /\ (raw'[u] = raw[u] => Ref(h)' = Ref(h))
             \/ h = <<"release", th>>
             \/ Ref(h)' = Ref(h)
  <2>1. ASSUME NEW s \in Slots, h = <<"slot", s>> PROVE Ref(h) = strong[s] /\ Ref(h)' = strong'[s]
    BY <2>1, RefIs
  <2>2. ASSUME NEW o \in Objects, h = <<"field", o>> PROVE field'[o] = field[o] => Ref(h)' = Ref(h)
    BY <2>2, RefIs
  <2>3. ASSUME NEW u \in Threads, h = <<"maybe", u>> PROVE Ref(h) = maybe[u].m_error /\ Ref(h)' = maybe'[u].m_error
    BY <2>3, RefIs
  <2>4. ASSUME NEW u \in Threads, h = <<"raw", u>> PROVE raw'[u] = raw[u] => Ref(h)' = Ref(h)
    BY <2>4, RefIs
  <2>5. ASSUME NEW u \in Threads, h = <<"release", u>>, u # th PROVE Ref(h)' = Ref(h) BY <1>4, <2>5
  <2>6. ASSUME NEW u \in Threads, h = <<"publish", u>> PROVE Ref(h)' = Ref(h) BY <1>4, <1>5, <2>6
  <2> QED BY <2>1, <2>2, <2>3, <2>4, <2>5, <2>6, TokenKinds
<1> QED BY <1>4, <1>5, <1>6, TokenKinds

(* The places of a thread are its own. *)
LEMMA OwnPlaces ==
  ASSUME NEW th \in Threads
  PROVE  /\ \A s \in Own(th) : s \in Slots /\ <<"slot", s>> \in StrongTokens /\ Here(th, <<"slot", s>>)
         /\ \A u, o : /\ Here(th, <<"field", o>>) /\ Here(th, <<"maybe", u>>) /\ Here(th, <<"raw", u>>)
                      /\ Here(th, <<"release", u>>) /\ Here(th, <<"publish", u>>)
         /\ \A u \in Threads : u # th => \A s \in Own(u) : s \notin Own(th)
BY TokenKinds DEF Own, Here

(* CntPtr::Clear *)
LEMMA ClearStep ==
  ASSUME IInv, NEW th \in Threads, NEW to \in Own(th), Clear(th, to), UNCHANGED <<errorVars, holderVars>>
  PROVE  IInv'
<1>0. TypeOK BY DEF IInv
<1> USE DEF Clear
<1>1. to \in Slots /\ strong[to] \in Pointers BY <1>0, OwnPlaces DEF TypeOK, RefTypeOK
<1>2. TypeOK' BY <1>0 DEF TypeOK, RefTypeOK, ErrorTypeOK, HolderTypeOK, errorVars, holderVars, Pointers, Value, Error
<1>3. \A x \in StrongTokens : x \notin {<<"slot", to>>, <<"release", th>>} => Ref(x)' = Ref(x)
  BY <1>0, <1>1, UserRefs DEF TypeOK, RefTypeOK, errorVars, holderVars
<1>4. Ref(<<"slot", to>>) = strong[to] /\ Ref(<<"slot", to>>)' = NoObj
  BY <1>0, <1>1, RefIs DEF TypeOK, RefTypeOK
<1>5. Ref(<<"release", th>>) = NoObj /\ Ref(<<"release", th>>)' = strong[to] BY <1>1, UserRefs
<1>6. StrongExact' /\ SamePos /\ RefsOK(th) BY <1>3, <1>4, <1>5, CountSwap, OwnPlaces, TokenKinds
<1>7. \A u \in Threads : u # th /\ todo[u] # <<>> => \A s \in Own(u) : strong'[s] = strong[s]
  BY <1>0, OwnPlaces DEF TypeOK, RefTypeOK
<1> QED BY <1>1, <1>2, <1>6, <1>7, UserStep DEF errorVars, holderVars

(* A step that makes no call. *)
LEMMA NoCall ==
  ASSUME FramesTyped(todo), NEW th \in Threads, InUserCode(th), todo' = todo
  PROVE  Start(th, ReleaseOf(NoObj)) /\ NoObj \in Pointers
<1>1. [todo EXCEPT ![th] = <<>>] = todo BY DEF FramesTyped, InUserCode
<1> QED BY <1>1 DEF Start, ReleaseOf, Pointers

(* operator=(const CntPtr&) *)
LEMMA AssignStep ==
  ASSUME IInv, NEW th \in Threads, NEW from \in Own(th), NEW to \in Own(th), Assign(th, from, to),
         UNCHANGED <<errorVars, holderVars>>
  PROVE  IInv'
<1>0. TypeOK BY DEF IInv
<1> USE DEF Assign
<1>1. from \in Slots /\ to \in Slots /\ strong[to] \in Pointers /\ strong \in [Slots -> Pointers]
  BY <1>0, OwnPlaces DEF TypeOK, RefTypeOK
<1>2. \A x \in StrongTokens : x \notin {<<"slot", to>>, <<"release", th>>} => Ref(x)' = Ref(x)
  BY <1>1, UserRefs DEF errorVars, holderVars
<1>3. Ref(<<"slot", to>>) = strong[to] /\ Ref(<<"slot", to>>)' = strong[from] /\ Ref(<<"slot", from>>) = strong[from]
  BY <1>1, RefIs
<1>4. Ref(<<"release", th>>) = NoObj /\ Ref(<<"release", th>>)' = strong[to] BY <1>1, UserRefs
<1>5. PICK o : o = strong[from] OBVIOUS
<1>6. Live(o) /\ (IsCounted(o) => Pos(Counter(o))) BY <1>3, <1>5, RefCounted, OwnPlaces
<1>7. /\ m_refCount' = AddRef(o) /\ Ref(<<"slot", to>>)' = o
      /\ \E x \in StrongTokens : Ref(x) = o /\ Here(th, x)
  BY <1>3, <1>5, OwnPlaces
<1>8. StrongExact' /\ SamePos /\ RefsOK(th) /\ m_refCount' \in [Objects -> Nat]
  <2>1. PICK h, k : h = <<"slot", to>> /\ k = <<"release", th>> OBVIOUS
  <2>2. /\ h \in StrongTokens /\ k \in StrongTokens /\ h # k /\ Here(th, h) /\ Ref(k) = NoObj
        /\ Ref(h)' = o /\ Ref(k)' = Ref(h)
        /\ \A x \in StrongTokens : x \notin {h, k} => Ref(x)' = Ref(x)
    BY <1>2, <1>3, <1>4, <1>7, <2>1, OwnPlaces, TokenKinds
  <2> QED BY <1>6, <1>7, <2>2, CountAdd
<1>9. TypeOK' BY <1>0, <1>1, <1>8 DEF TypeOK, RefTypeOK, ErrorTypeOK, HolderTypeOK, errorVars, holderVars, Value, Error
<1>10. \A u \in Threads : u # th /\ todo[u] # <<>> => \A s \in Own(u) : strong'[s] = strong[s]
  BY <1>1, OwnPlaces
<1> QED BY <1>1, <1>8, <1>9, <1>10, UserStep DEF errorVars, holderVars

(* operator=(CntPtr&&) *)
LEMMA MoveAssignStep ==
  ASSUME IInv, NEW th \in Threads, NEW from \in Own(th), NEW to \in Own(th), MoveAssign(th, from, to),
         UNCHANGED <<errorVars, holderVars>>
  PROVE  IInv'
<1>0. TypeOK BY DEF IInv
<1> USE DEF MoveAssign
<1>1. from \in Slots /\ to \in Slots /\ strong[to] \in Pointers /\ strong \in [Slots -> Pointers] /\ from # to
      /\ NoObj \in Pointers
  BY <1>0, OwnPlaces DEF TypeOK, RefTypeOK, Pointers
<1>2. \A x \in StrongTokens : x \notin {<<"slot", from>>, <<"slot", to>>, <<"release", th>>} => Ref(x)' = Ref(x)
  BY <1>1, UserRefs DEF errorVars, holderVars
<1>3. /\ Ref(<<"slot", to>>) = strong[to] /\ Ref(<<"slot", from>>) = strong[from]
      /\ Ref(<<"slot", to>>)' = strong[from] /\ Ref(<<"slot", from>>)' = NoObj
  BY <1>1, RefIs
<1>4. Ref(<<"release", th>>) = NoObj /\ Ref(<<"release", th>>)' = strong[to] BY <1>1, UserRefs
<1>6. StrongExact' /\ SamePos /\ RefsOK(th)
  <2>1. PICK h, k, l : h = <<"slot", from>> /\ k = <<"slot", to>> /\ l = <<"release", th>> OBVIOUS
  <2>2. /\ h \in StrongTokens /\ k \in StrongTokens /\ l \in StrongTokens
        /\ h # k /\ k # l /\ h # l /\ Here(th, h) /\ Here(th, k) /\ Here(th, l)
        /\ Ref(k)' = Ref(h) /\ Ref(l)' = Ref(k) /\ Ref(h)' = Ref(l)
        /\ \A x \in StrongTokens : x \notin {h, k, l} => Ref(x)' = Ref(x)
    BY <1>1, <1>2, <1>3, <1>4, <2>1, OwnPlaces, TokenKinds
  <2> QED BY <2>2, CountCycle
<1>9. TypeOK' BY <1>0, <1>1 DEF TypeOK, RefTypeOK, ErrorTypeOK, HolderTypeOK, errorVars, holderVars, Value, Error
<1>10. \A u \in Threads : u # th /\ todo[u] # <<>> => \A s \in Own(u) : strong'[s] = strong[s]
  BY <1>1, OwnPlaces
<1> QED BY <1>1, <1>6, <1>9, <1>10, UserStep DEF errorVars, holderVars

(* The move constructor of a variable of another thread. *)
LEMMA MoveToThreadStep ==
  ASSUME IInv, NEW th \in Threads, NEW from \in Own(th), NEW to \in Slots, MoveToThread(th, from, to),
         UNCHANGED <<errorVars, holderVars>>
  PROVE  IInv'
<1>0. TypeOK /\ FramesTyped(todo) BY DEF IInv
<1> USE DEF MoveToThread
<1>1. from \in Slots /\ strong \in [Slots -> Pointers] /\ from # to /\ NoObj \in Pointers
  BY <1>0, OwnPlaces DEF TypeOK, RefTypeOK, Pointers
<1>2. Start(th, ReleaseOf(NoObj)) BY <1>0, NoCall
<1>3. \A x \in StrongTokens : x \notin {<<"slot", from>>, <<"slot", to>>} => Ref(x)' = Ref(x)
  BY <1>1, <1>2, UserRefs DEF errorVars, holderVars
<1>4. /\ Ref(<<"slot", to>>) = NoObj /\ Ref(<<"slot", from>>) = strong[from]
      /\ Ref(<<"slot", to>>)' = strong[from] /\ Ref(<<"slot", from>>)' = NoObj
  BY <1>1, RefIs
<1>5. StrongExact' /\ SamePos /\ RefsOK(th) BY <1>3, <1>4, CountSwap, OwnPlaces, TokenKinds
<1>6. TypeOK' BY <1>0, <1>1 DEF TypeOK, RefTypeOK, ErrorTypeOK, HolderTypeOK, errorVars, holderVars, Value, Error
<1>7. ASSUME NEW u \in Threads, u # th, todo[u] # <<>>, NEW s \in Own(u) PROVE strong'[s] = strong[s]
  <2>1. s # from /\ s \in Slots BY <1>7, OwnPlaces
  <2>2. s # to BY <1>7 DEF Own, InUserCode
  <2> QED BY <1>1, <2>1, <2>2
<1> QED BY <1>1, <1>2, <1>5, <1>6, <1>7, UserStep DEF errorVars, holderVars

(* The constructor throws and nothing of the object is left. *)
LEMMA MakeThrowsStep ==
  ASSUME IInv, NEW th \in Threads, NEW c, NEW to \in Own(th), MakeThrows(th, c, to, FALSE),
         UNCHANGED <<errorVars, holderVars>>
  PROVE  IInv'
<1>0. TypeOK BY DEF IInv
<1> USE DEF MakeThrows
<1>1. to \in Slots /\ strong[to] \in Pointers /\ strong \in [Slots -> Pointers] /\ NoObj \in Pointers
  BY <1>0, OwnPlaces DEF TypeOK, RefTypeOK, Pointers
<1>2. TypeOK' BY <1>0, <1>1 DEF TypeOK, RefTypeOK, ErrorTypeOK, HolderTypeOK, errorVars, holderVars, Value, Error
<1>3. \A x \in StrongTokens : x \notin {<<"slot", to>>, <<"release", th>>} => Ref(x)' = Ref(x)
  BY <1>1, UserRefs DEF errorVars, holderVars
<1>4. Ref(<<"slot", to>>) = strong[to] /\ Ref(<<"slot", to>>)' = NoObj BY <1>1, RefIs
<1>5. Ref(<<"release", th>>) = NoObj /\ Ref(<<"release", th>>)' = strong[to] BY <1>1, UserRefs
<1>6. StrongExact' /\ SamePos /\ RefsOK(th) BY <1>3, <1>4, <1>5, CountSwap, OwnPlaces, TokenKinds
<1>7. \A u \in Threads : u # th /\ todo[u] # <<>> => \A s \in Own(u) : strong'[s] = strong[s]
  BY <1>1, OwnPlaces
<1> QED BY <1>1, <1>2, <1>6, <1>7, UserStep DEF errorVars, holderVars

(* A frame that destroys o is on a stack in order. *)
LEMMA DyingFrame ==
  ASSUME IInv, NEW o \in Objects, Dying(o)
  PROVE  \E u \in Threads : \E i \in DOMAIN todo[u] :
           /\ todo[u][i] \in DyingFrames(o)
           /\ cls[o].policy \in {"Simple", "WeakRef", "Owned"}
           /\ todo[u][i] = Delete(o) => life[o] = "alive" /\ cls[o].policy # "Owned"
           /\ todo[u][i] = EndDelete(o) => life[o] = "dead"
           /\ DyingOK(u, i, o)
<1>1. PICK u \in Threads : \E i \in DOMAIN todo[u] : todo[u][i] \in DyingFrames(o) BY DEF Dying, Occurs, OccursIn
<1>2. PICK i \in DOMAIN todo[u] : todo[u][i] \in DyingFrames(o) BY <1>1
<1>3. FrameOK(u, i) BY DEF IInv, FramesOK
<1>4. todo[u][i] = Delete(o) => /\ life[o] = "alive" /\ cls[o].policy \in {"Simple", "WeakRef"}
                                /\ DyingOK(u, i, o)
  BY <1>3 DEF FrameOK, Delete
<1>5. todo[u][i] = EndDelete(o) => /\ life[o] = "dead" /\ cls[o].policy \in {"Simple", "WeakRef", "Owned"}
                                   /\ DyingOK(u, i, o)
  BY <1>3 DEF FrameOK, EndDelete
<1>6. Delete(o) # EndDelete(o) BY DEF Delete, EndDelete
<1> QED BY <1>2, <1>4, <1>5, <1>6 DEF DyingFrames

(* The static instance is live. *)
LEMMA StaticLive ==
  ASSUME IInv, NEW o \in Objects, IsStatic(o)
  PROVE  Live(o) /\ ~IsCounted(o) /\ cls[o] # FixedSwarm
<1>1. ClassOK(o) /\ WeakRefOK(o) BY DEF IInv, Heap
<1>2. cls[o].policy = "NoRefCount" /\ life[o] = "alive" /\ cls[o] \in Classes BY <1>1 DEF ClassOK
<1>3. cls[o] # OwnedObject /\ cls[o] # FixedSwarm BY <1>2, ClassFacts
<1>4. ~Dying(o) BY <1>2, DyingFrame
<1> QED BY <1>2, <1>3, <1>4 DEF Live, HasWeakRef, IsCounted

(* A variable of the thread takes a reference of its own to the live object o. *)
LEMMA AddStep ==
  ASSUME IInv, NEW th \in Threads, NEW to \in Own(th), InUserCode(th), todo' = todo, strong[to] = NoObj,
         NEW o, strong' = [strong EXCEPT ![to] = o], m_refCount' = AddRef(o),
         Live(o), IsCounted(o) => Pos(Counter(o)),
         cls[o] # FixedSwarm \/ \E x \in StrongTokens : Ref(x) = o /\ Here(th, x),
         UNCHANGED <<program, cls, life, weakRef, m_weakRefCount, m_headMember, storage, field, weak,
                     maybe, reported, holderVars>>,
         handled' \in SUBSET Objects,
         \A e \in Objects : life[e] = "dead" => (e \in handled' <=> e \in handled)
  PROVE  IInv'
<1>0. TypeOK /\ FramesTyped(todo) BY DEF IInv
<1>1. to \in Slots /\ strong \in [Slots -> Pointers] /\ NoObj \in Pointers /\ o \in Pointers
  BY <1>0, OwnPlaces DEF TypeOK, RefTypeOK, Pointers, Live
<1>2. Start(th, ReleaseOf(NoObj)) BY <1>0, NoCall
<1>3. \A x \in StrongTokens : x \notin {<<"slot", to>>, <<"release", th>>} => Ref(x)' = Ref(x)
  BY <1>1, <1>2, UserRefs DEF holderVars
<1>4. Ref(<<"slot", to>>) = NoObj /\ Ref(<<"slot", to>>)' = o BY <1>1, RefIs
<1>5. Ref(<<"release", th>>) = NoObj /\ Ref(<<"release", th>>)' = NoObj BY <1>1, <1>2, UserRefs
<1>6. StrongExact' /\ SamePos /\ RefsOK(th) /\ m_refCount' \in [Objects -> Nat]
  <2>1. PICK h, k : h = <<"slot", to>> /\ k = <<"release", th>> OBVIOUS
  <2>2. /\ h \in StrongTokens /\ k \in StrongTokens /\ h # k /\ Here(th, h) /\ Ref(k) = NoObj
        /\ Ref(h)' = o /\ Ref(k)' = Ref(h)
        /\ \A x \in StrongTokens : x \notin {h, k} => Ref(x)' = Ref(x)
    BY <1>3, <1>4, <1>5, <2>1, OwnPlaces, TokenKinds
  <2> QED BY <2>2, CountAdd
<1>7. TypeOK' BY <1>0, <1>1, <1>6 DEF TypeOK, RefTypeOK, ErrorTypeOK, HolderTypeOK, holderVars, Value, Error
<1>8. \A u \in Threads : u # th /\ todo[u] # <<>> => \A s \in Own(u) : strong'[s] = strong[s]
  BY <1>1, OwnPlaces
<1> QED BY <1>1, <1>2, <1>6, <1>7, <1>8, UserStep DEF holderVars

(* A CntPtr to the static instance. *)
LEMMA PointToStaticStep ==
  ASSUME IInv, NEW th \in Threads, NEW to \in Own(th), PointToStatic(th, to),
         UNCHANGED <<errorVars, holderVars>>
  PROVE  IInv'
<1> USE DEF PointToStatic
<1>1. PICK o \in Objects : o = Max(Objects) BY MaxObject
<1>2. Live(o) /\ ~IsCounted(o) /\ cls[o] # FixedSwarm BY <1>1, StaticLive
<1>3. m_refCount' = AddRef(o) BY <1>2 DEF AddRef
<1>4. handled' \in SUBSET Objects BY DEF IInv, TypeOK, ErrorTypeOK, errorVars
<1> QED BY <1>1, <1>2, <1>3, <1>4, AddStep DEF errorVars

(* QueryInterface *)
LEMMA QueryInterfaceStep ==
  ASSUME IInv, NEW th \in Threads, NEW from \in Own(th), NEW to \in Own(th), QueryInterface(th, from, to),
         UNCHANGED <<errorVars, holderVars>>
  PROVE  IInv'
<1> USE DEF QueryInterface
<1>1. PICK o : o = strong[from] OBVIOUS
<1>2. Ref(<<"slot", from>>) = o /\ <<"slot", from>> \in StrongTokens /\ Here(th, <<"slot", from>>)
  BY <1>1, RefIs, OwnPlaces
<1>3. Live(o) /\ (IsCounted(o) => Pos(Counter(o))) BY <1>1, <1>2, RefCounted
<1>4. handled' \in SUBSET Objects BY DEF IInv, TypeOK, ErrorTypeOK, errorVars
<1> QED BY <1>1, <1>2, <1>3, <1>4, AddStep DEF errorVars

(* A FixedSwarm counts at itself. *)
LEMMA FixedSwarmCounter ==
  ASSUME IInv, NEW b \in Objects, cls[b] = FixedSwarm
  PROVE  /\ weakRef[b] \in {b, NoObj} /\ Counter(b) = weakRef[b] /\ IsCounted(b)
         /\ HasWeakRef(cls[b])
<1>1. WeakRefOK(b) BY DEF IInv, Heap
<1>2. FixedSwarm \notin Swarms \cup Members /\ FixedSwarm.policy = "FixedSwarm" /\ FixedSwarmMember # FixedSwarm
      /\ FixedSwarm \notin SwarmMembers
  <2>1. FixedSwarm \in Classes /\ FixedSwarm \notin Swarms \cup Members BY ClassFacts
  <2>2. FixedSwarm.policy = "FixedSwarm" BY <2>1, ClassFacts
  <2> QED BY <2>1, <2>2 DEF Members
<1> QED BY <1>1, <1>2 DEF WeakRefOK, Counter, IsCounted, HasWeakRef

(* A member in the storage of a FixedSwarm with references is live, unless *)
(* the thread that holds the swarm is destroying it.                       *)
LEMMA StoredLive ==
  ASSUME IInv, NEW th \in Threads, InUserCode(th), NEW s \in Own(th), NEW b \in Objects, strong[s] = b,
         NEW m \in storage[b], weakRef[m] # NoObj
  PROVE  /\ m \in Objects /\ Live(m) /\ cls[m] = FixedSwarmMember /\ weakRef[m] = b /\ cls[b] = FixedSwarm
         /\ Counter(m) = b /\ Pos(b)
<1>0. TypeOK /\ Heap BY DEF IInv
<1>1. m \in Objects /\ storage[b] # {} BY <1>0 DEF TypeOK, RefTypeOK
<1>2. cls[b] = FixedSwarm BY <1>0, <1>1 DEF Heap, ClassOK
<1>3. cls[m] = FixedSwarmMember /\ weakRef[m] = b BY <1>0 DEF Heap, ListsOK
<1>4. Ref(<<"slot", s>>) = b /\ <<"slot", s>> \in StrongTokens BY RefIs, OwnPlaces
<1>5. b # NoObj BY RefCountingAssumption
<1>6. Pos(b)
  <2>1. Live(b) /\ (IsCounted(b) => Pos(Counter(b))) BY <1>4, <1>5, RefCounted
  <2>2. weakRef[b] = b BY <1>2, <2>1, FixedSwarmCounter, RefCountingAssumption DEF Live
  <2> QED BY <1>2, <2>1, <2>2, FixedSwarmCounter
<1>7. FixedSwarmMember.policy = "WeakRef" /\ FixedSwarmMember \in Classes /\ FixedSwarmMember # OwnedObject
      /\ FixedSwarmMember # NoClass /\ FixedSwarmMember \in Members /\ FixedSwarmMember # SwarmMember
  <2>1. FixedSwarmMember \in Classes /\ NoClass \notin Classes /\ FixedSwarmMember \in Members
        /\ FixedSwarmMember # SwarmMember
    BY ClassFacts DEF Members, SwarmMembers
  <2>2. FixedSwarmMember.policy = "WeakRef" BY <2>1, ClassFacts
  <2> QED BY <2>1, <2>2, ClassFacts
<1>8. ~Dying(m)
  <2> SUFFICES ASSUME Dying(m) PROVE FALSE OBVIOUS
  <2>1. PICK u \in Threads : \E i \in DOMAIN todo[u] : DyingOK(u, i, m) BY <1>1, DyingFrame
  <2>2. PICK i \in DOMAIN todo[u] : DyingOK(u, i, m) BY <2>1
  <2>3. Throwing(u, m) BY <1>3, <1>6, <1>7, <2>2 DEF DyingOK
  <2>4. HoldsOnly(u, b)
    <3>1. todo[u] \in Seq(Frames) BY DEF IInv, FramesTyped
    <3>2. CASE Len(todo[u]) = 2 /\ todo[u][2] = FreeMember(m)
      <4>1. FrameOK(u, 2) /\ todo[u][2].call = "FreeMember" /\ todo[u][2].arg = m
        BY <3>1, <3>2 DEF IInv, FramesOK, FreeMember
      <4>2. cls[m] = SwarmMember BY <4>1 DEF FrameOK
      <4> QED BY <1>3, <1>7, <4>2
    <3> QED BY <1>3, <2>3, <3>2 DEF Throwing
  <2>5. s \in Own(u) BY <1>4, <2>4 DEF HoldsOnly
  <2>6. u = th BY <2>5 DEF Own
  <2> QED BY <2>2, <2>6 DEF InUserCode
<1>9. life[m] = "alive"
  <2>1. ClassOK(m) /\ WeakRefOK(m) /\ life[m] \in {"raw", "alive", "dead"} BY <1>0, <1>1 DEF Heap, TypeOK, RefTypeOK
  <2>2. life[m] # "raw" BY <1>3, <1>7, <2>1 DEF ClassOK
  <2>3. ~Occurs({EndDelete(m)}) BY <1>8 DEF Dying, Occurs, OccursIn, DyingFrames
  <2> QED BY <2>1, <2>2, <2>3 DEF WeakRefOK
<1>10. m \in Owned(b) BY DEF Owned
<1> QED BY <1>1, <1>2, <1>3, <1>6, <1>7, <1>8, <1>9, <1>10 DEF Live, Counter

(* FixedSwarm::Get *)
LEMMA GetFixedMemberStep ==
  ASSUME IInv, NEW th \in Threads, NEW from \in Own(th), NEW to \in Own(th), GetFixedMember(th, from, to),
         UNCHANGED <<errorVars, holderVars>>
  PROVE  IInv'
<1> USE DEF GetFixedMember
<1>1. PICK b : b = strong[from] OBVIOUS
<1>2. b \in Objects BY <1>1, OwnPlaces DEF IInv, TypeOK, RefTypeOK, Pointers
<1>3. PICK o \in storage[b] : weakRef[o] # NoObj /\ m_refCount' = AddRef(o) /\ strong' = [strong EXCEPT ![to] = o]
  BY <1>1
<1>4. Live(o) /\ cls[o] = FixedSwarmMember /\ Counter(o) = b /\ Pos(b)
  BY <1>1, <1>2, <1>3, StoredLive
<1>5. cls[o] # FixedSwarm BY <1>4, ClassFacts DEF Members
<1>6. handled' \in SUBSET Objects BY DEF IInv, TypeOK, ErrorTypeOK, errorVars
<1> QED BY <1>3, <1>4, <1>5, <1>6, AddStep DEF errorVars

(* An object in a swarm, and one that is in none. *)
LEMMA SwarmFacts ==
  ASSUME IInv, NEW o, Live(o)
  PROVE  /\ cls[o].links => /\ cls[o].policy = "WeakRef" /\ weakRef[o] \in Objects
                            /\ cls[weakRef[o]] \in Swarms /\ SwarmOf(o) = weakRef[o]
         /\ SwarmOf(o) = NoObj \/ (SwarmOf(o) = weakRef[o] /\ SwarmOf(o) \in Objects /\ cls[SwarmOf(o)] \in Swarms
                                   /\ cls[o].policy = "WeakRef")
         /\ SwarmOf(o) = NoObj /\ weakRef[o] # NoObj => cls[weakRef[o]] \notin Swarms
<1>1. /\ o \in Objects /\ o # NoObj /\ cls[o] \in Classes
      /\ (cls[o].policy = "WeakRef" => weakRef[o] \in Objects)
  BY LiveCounter DEF Live, HasWeakRef
<1>2. WeakRefOK(o) BY <1>1 DEF IInv, Heap
<1>3. Swarms = {SwarmObject, LinkedSwarmObject} BY DEF Swarms
<1>4. cls[o].links => /\ cls[o].policy = "WeakRef" /\ weakRef[o] \in Objects
                      /\ cls[weakRef[o]] \in Swarms
  <2> SUFFICES ASSUME cls[o].links PROVE /\ cls[o].policy = "WeakRef" /\ weakRef[o] \in Objects
                      /\ cls[weakRef[o]] \in Swarms
    OBVIOUS
  <2>1. cls[o] \in {LinkedSwarmObject, LinkedSwarmMember} /\ cls[o] # FixedSwarmMember
    BY <1>1, ClassFacts
  <2>2. cls[o].policy = "WeakRef" /\ (cls[o] = LinkedSwarmMember => cls[o] \in Members)
    BY <1>1, <2>1, ClassFacts DEF Members, SwarmMembers, Swarms
  <2> QED BY <1>1, <1>2, <1>3, <2>1, <2>2, RefCountingAssumption DEF WeakRefOK
<1>5. weakRef[o] # NoObj => HasWeakRef(cls[o]) BY <1>2 DEF WeakRefOK
<1>6. cls[o].policy = "FixedSwarm" => weakRef[o] \in {o, NoObj} /\ cls[o] \notin Swarms
  <2>1. cls[o].policy = "FixedSwarm" => cls[o] = FixedSwarm BY <1>1, ClassFacts
  <2>2. FixedSwarm \notin Swarms BY ClassFacts
  <2> QED BY <1>1, <2>1, <2>2, FixedSwarmCounter
<1> QED BY <1>1, <1>3, <1>4, <1>5, <1>6, RefCountingAssumption DEF SwarmOf, HasWeakRef

(* SwarmMemberPtr *)
LEMMA LinkMemberStep ==
  ASSUME IInv, NEW th \in Threads, NEW from \in Own(th), NEW to \in Own(th), LinkMember(th, from, to),
         UNCHANGED <<errorVars, holderVars>>
  PROVE  IInv'
<1>0. TypeOK /\ FramesTyped(todo) BY DEF IInv
<1> USE DEF LinkMember
<1>1. /\ from \in Slots /\ to \in Slots /\ strong \in [Slots -> Pointers] /\ NoObj \in Pointers
      /\ field \in [Objects -> [m_ptr : Pointers, counts : BOOLEAN]]
  BY <1>0, OwnPlaces DEF TypeOK, RefTypeOK, Pointers
<1>2. Start(th, ReleaseOf(NoObj)) BY <1>0, NoCall
<1>3. PICK f, o, d : f = strong[from] /\ o = strong[to] /\ d = (SwarmOf(strong[to]) # SwarmOf(strong[from])) OBVIOUS
<1>4. /\ Ref(<<"slot", from>>) = f /\ <<"slot", from>> \in StrongTokens
      /\ Ref(<<"slot", to>>) = o /\ <<"slot", to>> \in StrongTokens /\ Here(th, <<"slot", to>>)
      /\ f # NoObj /\ o # NoObj
  BY <1>3, RefIs, OwnPlaces
<1>5. Live(f) /\ Live(o) /\ (IsCounted(o) => Pos(Counter(o))) /\ f \in Objects /\ o \in Objects BY <1>4, RefCounted
<1>6. /\ field[f] = NullField /\ cls[f].links
      /\ field' = [field EXCEPT ![f] = [m_ptr |-> o, counts |-> d]]
      /\ m_refCount' = IF d THEN AddRef(o) ELSE m_refCount
      /\ d => SwarmOf(o) = NoObj
      /\ d \in BOOLEAN
  BY <1>3
<1>7. field'[f] = [m_ptr |-> o, counts |-> d] /\ \A x \in Objects : x # f => field'[x] = field[x] BY <1>1, <1>5, <1>6
<1>8. \A x \in StrongTokens : x \notin {<<"field", f>>, <<"release", th>>} => Ref(x)' = Ref(x)
  BY <1>1, <1>2, <1>7, UserRefs DEF errorVars, holderVars
<1>9. Ref(<<"field", f>>) = NoObj /\ Ref(<<"field", f>>)' = IF d THEN o ELSE NoObj
  BY <1>6, <1>7, RefIs DEF NullField
<1>10. Ref(<<"release", th>>) = NoObj /\ Ref(<<"release", th>>)' = NoObj BY <1>1, <1>2, UserRefs
<1>11. StrongExact' /\ SamePos /\ RefsOK(th) /\ m_refCount' \in [Objects -> Nat]
  <2>1. PICK h, k : h = <<"field", f>> /\ k = <<"release", th>> OBVIOUS
  <2>2. /\ h \in StrongTokens /\ k \in StrongTokens /\ h # k /\ Here(th, h) /\ Ref(k) = NoObj
        /\ Ref(h) = NoObj /\ Ref(h)' = (IF d THEN o ELSE NoObj) /\ Ref(k)' = Ref(h)
        /\ \A x \in StrongTokens : x \notin {h, k} => Ref(x)' = Ref(x)
    BY <1>5, <1>8, <1>9, <1>10, <2>1, OwnPlaces, TokenKinds
  <2>3. CASE d
    <3>1. Ref(h)' = o /\ m_refCount' = AddRef(o) BY <1>6, <2>2, <2>3
    <3> QED BY <1>4, <1>5, <2>2, <3>1, CountAdd
  <2>4. CASE ~d
    <3>1. m_refCount' = m_refCount /\ \A x \in StrongTokens : Ref(x)' = Ref(x) BY <1>6, <2>2, <2>4
    <3> QED BY <1>0, <3>1, CountSame DEF TypeOK, RefTypeOK
  <2> QED BY <2>3, <2>4
<1>12. TypeOK' BY <1>0, <1>1, <1>5, <1>6, <1>11 DEF TypeOK, RefTypeOK, ErrorTypeOK, HolderTypeOK, errorVars, holderVars, Value, Error, Pointers
<1>13. \A x \in Objects : field'[x] = field[x] \/ FieldOK(x)'
  <2> SUFFICES FieldOK(f)' BY <1>7
  <2>1. life[f] = "alive" BY <1>5 DEF Live
  <2>2. d => weakRef[f] # weakRef[o]
    <3>1. weakRef[f] \in Objects /\ cls[weakRef[f]] \in Swarms BY <1>5, <1>6, SwarmFacts
    <3>2. d /\ weakRef[o] # NoObj => cls[weakRef[o]] \notin Swarms BY <1>5, <1>6, SwarmFacts
    <3> QED BY <3>1, <3>2, RefCountingAssumption
  <2> QED BY <1>4, <1>6, <1>7, <2>1, <2>2 DEF FieldOK
<1> QED BY <1>1, <1>2, <1>11, <1>12, <1>13, UserStep DEF errorVars, holderVars

(* LazyInit::Release *)
LEMMA LazyReleaseStep ==
  ASSUME IInv, NEW th \in Threads, NEW from \in Own(th), LazyRelease(th, from),
         UNCHANGED <<errorVars, holderVars>>
  PROVE  IInv'
<1>0. TypeOK /\ FramesTyped(todo) BY DEF IInv
<1> USE DEF LazyRelease
<1>1. /\ from \in Slots /\ strong \in [Slots -> Pointers]
      /\ field \in [Objects -> [m_ptr : Pointers, counts : BOOLEAN]]
  BY <1>0, OwnPlaces DEF TypeOK, RefTypeOK, Pointers
<1>2. PICK f, r : f = strong[from] /\ r = field[f].m_ptr OBVIOUS
<1>3. f \in Objects /\ field[f].counts BY <1>1, <1>2 DEF Pointers
<1>4. r \in Pointers /\ r # NoObj
  <2>1. FieldOK(f) BY <1>3 DEF IInv, Heap
  <2> QED BY <1>1, <1>2, <1>3, <2>1 DEF FieldOK
<1>5. Start(th, ReleaseOf(r)) /\ field' = [field EXCEPT ![f] = NullField] BY <1>2, <1>4 DEF ReleaseOf
<1>6. field'[f] = NullField /\ \A x \in Objects : x # f => field'[x] = field[x] BY <1>1, <1>3, <1>5
<1>7. \A x \in StrongTokens : x \notin {<<"field", f>>, <<"release", th>>} => Ref(x)' = Ref(x)
  BY <1>4, <1>5, <1>6, UserRefs DEF errorVars, holderVars
<1>8. Ref(<<"field", f>>) = r /\ Ref(<<"field", f>>)' = NoObj BY <1>2, <1>3, <1>6, RefIs DEF NullField
<1>9. Ref(<<"release", th>>) = NoObj /\ Ref(<<"release", th>>)' = r BY <1>4, <1>5, UserRefs
<1>10. StrongExact' /\ SamePos /\ RefsOK(th)
  <2>1. PICK h, k : h = <<"field", f>> /\ k = <<"release", th>> OBVIOUS
  <2>2. /\ h \in StrongTokens /\ k \in StrongTokens /\ Here(th, h) /\ Here(th, k)
        /\ Ref(h)' = Ref(k) /\ Ref(k)' = Ref(h)
        /\ \A x \in StrongTokens : x \notin {h, k} => Ref(x)' = Ref(x)
    BY <1>3, <1>7, <1>8, <1>9, <2>1, OwnPlaces, TokenKinds
  <2> QED BY <2>2, CountSwap
<1>11. TypeOK' BY <1>0, <1>1, <1>5 DEF TypeOK, RefTypeOK, ErrorTypeOK, HolderTypeOK, errorVars, holderVars, Value, Error, Pointers, NullField
<1>12. \A x \in Objects : field'[x] = field[x] \/ FieldOK(x)' BY <1>6 DEF FieldOK, NullField
<1> QED BY <1>4, <1>5, <1>10, <1>11, <1>12, UserStep DEF errorVars, holderVars

(* ErrorCode::Handle *)
LEMMA HandleStep ==
  ASSUME IInv, NEW th \in Threads, NEW from \in Own(th), Handle(th, from), UNCHANGED holderVars
  PROVE  IInv'
<1>0. TypeOK /\ FramesTyped(todo) BY DEF IInv
<1> USE DEF Handle, refVars
<1>1. PICK e : e = strong[from] OBVIOUS
<1>2. Ref(<<"slot", from>>) = e /\ <<"slot", from>> \in StrongTokens /\ e # NoObj BY <1>1, RefIs, OwnPlaces
<1>3. e \in Objects /\ life[e] = "alive" BY <1>2, RefCounted DEF Live
<1>4. Start(th, ReleaseOf(NoObj)) /\ NoObj \in Pointers BY <1>0, NoCall
<1>5. \A x \in StrongTokens : Ref(x)' = Ref(x) BY <1>4, UserRefs DEF holderVars
<1>6. StrongExact' /\ SamePos /\ RefsOK(th) BY <1>5, CountSame
<1>7. TypeOK' BY <1>0, <1>1, <1>3 DEF TypeOK, RefTypeOK, ErrorTypeOK, HolderTypeOK, holderVars, Value, Error
<1>8. \A x \in Objects : life[x] = "dead" => (x \in handled' <=> x \in handled) BY <1>1, <1>3
<1> QED BY <1>4, <1>6, <1>7, <1>8, UserStep DEF holderVars

(* What a Maybe holds. *)
LEMMA MaybeIs ==
  ASSUME TypeOK, NEW u \in Threads
  PROVE  /\ maybe[u].m_error \in Pointers
         /\ Error(maybe[u].m_error) \in {Error(e) : e \in Pointers}
         /\ maybe[u] \in {Value} \cup {Error(e) : e \in Pointers}
         /\ \A m \in {Value} \cup {Error(e) : e \in Pointers} : m.m_error \in Pointers
         /\ maybe[u].m_kind = "Error" => maybe[u] = Error(maybe[u].m_error)
         /\ maybe[u].m_kind # "Error" => maybe[u] = Value /\ maybe[u].m_error = NoObj
BY DEF TypeOK, ErrorTypeOK, Value, Error, Pointers

(* A Maybe without its error. *)
LEMMA MaybeEmptied ==
  ASSUME NEW m \in {Value} \cup {Error(e) : e \in Pointers}
  PROVE  /\ [m EXCEPT !.m_error = NoObj] \in {Value} \cup {Error(e) : e \in Pointers}
         /\ [m EXCEPT !.m_error = NoObj].m_error = NoObj
<1>1. CASE m = Value
  <2>1. [m EXCEPT !.m_error = NoObj] = Value BY <1>1 DEF Value
  <2> QED BY <2>1 DEF Value
<1>2. ASSUME NEW e \in Pointers, m = Error(e)
      PROVE  /\ [m EXCEPT !.m_error = NoObj] \in {Value} \cup {Error(x) : x \in Pointers}
             /\ [m EXCEPT !.m_error = NoObj].m_error = NoObj
  <2>1. [m EXCEPT !.m_error = NoObj] = Error(NoObj) BY <1>2 DEF Error
  <2>2. NoObj \in Pointers /\ Error(NoObj).m_error = NoObj BY DEF Pointers, Error
  <2> QED BY <2>1, <2>2
<1> QED BY <1>1, <1>2

(* A Maybe takes a value: what it held is released. *)
LEMMA MaybeFromValueStep ==
  ASSUME IInv, NEW th \in Threads, MaybeFromValue(th), UNCHANGED holderVars
  PROVE  IInv'
<1>0. TypeOK BY DEF IInv
<1> USE DEF MaybeFromValue, AssignMaybe, KeepHeap
<1>1. PICK r : r = maybe[th].m_error OBVIOUS
<1>2. r \in Pointers BY <1>0, <1>1, MaybeIs
<1>3. maybe \in [Threads -> {Value} \cup {Error(e) : e \in Pointers}] /\ Value.m_error = NoObj
  BY <1>0 DEF TypeOK, ErrorTypeOK, Value
<1>4. Start(th, ReleaseOf(r)) BY <1>1
<1>5. \A x \in StrongTokens : x \notin {<<"maybe", th>>, <<"release", th>>} => Ref(x)' = Ref(x)
  BY <1>2, <1>3, <1>4, UserRefs DEF holderVars
<1>6. Ref(<<"maybe", th>>) = r /\ Ref(<<"maybe", th>>)' = NoObj BY <1>1, <1>3, RefIs
<1>7. Ref(<<"release", th>>) = NoObj /\ Ref(<<"release", th>>)' = r BY <1>2, <1>4, UserRefs
<1>8. StrongExact' /\ SamePos /\ RefsOK(th)
  <2>1. PICK h, k : h = <<"maybe", th>> /\ k = <<"release", th>> OBVIOUS
  <2>2. /\ h \in StrongTokens /\ k \in StrongTokens /\ Here(th, h) /\ Here(th, k)
        /\ Ref(h)' = Ref(k) /\ Ref(k)' = Ref(h)
        /\ \A x \in StrongTokens : x \notin {h, k} => Ref(x)' = Ref(x)
    BY <1>5, <1>6, <1>7, <2>1, OwnPlaces, TokenKinds
  <2> QED BY <2>2, CountSwap
<1>9. TypeOK' BY <1>0, <1>3 DEF TypeOK, RefTypeOK, ErrorTypeOK, HolderTypeOK, holderVars
<1> QED BY <1>2, <1>4, <1>8, <1>9, UserStep DEF holderVars

(* Maybe(ErrorCode&&): the error moves into the Maybe. *)
LEMMA MaybeFromErrorStep ==
  ASSUME IInv, NEW th \in Threads, NEW from \in Own(th), MaybeFromError(th, from), UNCHANGED holderVars
  PROVE  IInv'
<1>0. TypeOK BY DEF IInv
<1> USE DEF MaybeFromError, AssignMaybe, KeepHeap
<1>1. PICK r, e : r = maybe[th].m_error /\ e = strong[from] OBVIOUS
<1>2. /\ r \in Pointers /\ e \in Pointers /\ from \in Slots /\ strong \in [Slots -> Pointers]
      /\ NoObj \in Pointers
  BY <1>0, <1>1, MaybeIs, OwnPlaces DEF TypeOK, RefTypeOK, Pointers
<1>3. /\ maybe \in [Threads -> {Value} \cup {Error(x) : x \in Pointers}]
      /\ Error(e).m_error = e /\ maybe' = [maybe EXCEPT ![th] = Error(e)]
  BY <1>0, <1>1 DEF TypeOK, ErrorTypeOK, Error
<1>4. Start(th, ReleaseOf(r)) BY <1>1
<1>5. \A x \in StrongTokens : x \notin {<<"slot", from>>, <<"maybe", th>>, <<"release", th>>} => Ref(x)' = Ref(x)
  BY <1>2, <1>3, <1>4, UserRefs DEF holderVars
<1>6. /\ Ref(<<"maybe", th>>) = r /\ Ref(<<"maybe", th>>)' = e
      /\ Ref(<<"slot", from>>) = e /\ Ref(<<"slot", from>>)' = NoObj
  BY <1>1, <1>2, <1>3, RefIs
<1>7. Ref(<<"release", th>>) = NoObj /\ Ref(<<"release", th>>)' = r BY <1>2, <1>4, UserRefs
<1>8. StrongExact' /\ SamePos /\ RefsOK(th)
  <2>1. PICK h, k, l : h = <<"slot", from>> /\ k = <<"maybe", th>> /\ l = <<"release", th>> OBVIOUS
  <2>2. /\ h \in StrongTokens /\ k \in StrongTokens /\ l \in StrongTokens
        /\ h # k /\ k # l /\ h # l /\ Here(th, h) /\ Here(th, k) /\ Here(th, l)
        /\ Ref(k)' = Ref(h) /\ Ref(l)' = Ref(k) /\ Ref(h)' = Ref(l)
        /\ \A x \in StrongTokens : x \notin {h, k, l} => Ref(x)' = Ref(x)
    BY <1>5, <1>6, <1>7, <2>1, OwnPlaces, TokenKinds
  <2> QED BY <2>2, CountCycle
<1>9. TypeOK' BY <1>0, <1>2, <1>3 DEF TypeOK, RefTypeOK, ErrorTypeOK, HolderTypeOK, holderVars
<1>10. \A u \in Threads : u # th /\ todo[u] # <<>> => \A s \in Own(u) : strong'[s] = strong[s]
  BY <1>2, OwnPlaces
<1> QED BY <1>2, <1>4, <1>8, <1>9, <1>10, UserStep DEF holderVars

(* Maybe::operator=(const Maybe&) *)
LEMMA CopyMaybeStep ==
  ASSUME IInv, NEW th \in Threads, NEW other \in Threads, CopyMaybe(th, other), UNCHANGED holderVars
  PROVE  IInv'
<1>0. TypeOK BY DEF IInv
<1> USE DEF CopyMaybe, AssignMaybe, KeepHeap
<1>1. PICK r, e : r = maybe[other].m_error /\ e = maybe[th].m_error OBVIOUS
<1>2. r \in Pointers /\ e \in Pointers /\ maybe[th] \in {Value} \cup {Error(x) : x \in Pointers} BY <1>0, <1>1, MaybeIs
<1>3. /\ maybe \in [Threads -> {Value} \cup {Error(x) : x \in Pointers}]
      /\ maybe' = [maybe EXCEPT ![other] = maybe[th]]
      /\ m_refCount' = IF e # NoObj THEN AddRef(e) ELSE m_refCount
  BY <1>0, <1>1 DEF TypeOK, ErrorTypeOK
<1>4. Start(th, ReleaseOf(r)) BY <1>1
<1>5. \A x \in StrongTokens : x \notin {<<"maybe", other>>, <<"release", th>>} => Ref(x)' = Ref(x)
  BY <1>2, <1>3, <1>4, UserRefs DEF holderVars
<1>6. Ref(<<"maybe", other>>) = r /\ Ref(<<"maybe", other>>)' = e /\ Ref(<<"maybe", th>>) = e
  BY <1>1, <1>3, RefIs
<1>7. Ref(<<"release", th>>) = NoObj /\ Ref(<<"release", th>>)' = r BY <1>2, <1>4, UserRefs
<1>8. StrongExact' /\ SamePos /\ RefsOK(th) /\ m_refCount' \in [Objects -> Nat]
  <2>1. PICK h, k : h = <<"maybe", other>> /\ k = <<"release", th>> OBVIOUS
  <2>2. /\ h \in StrongTokens /\ k \in StrongTokens /\ h # k /\ Here(th, h) /\ Here(th, k) /\ Ref(k) = NoObj
        /\ Ref(h)' = e /\ Ref(k)' = Ref(h)
        /\ \A x \in StrongTokens : x \notin {h, k} => Ref(x)' = Ref(x)
        /\ <<"maybe", th>> \in StrongTokens /\ Here(th, <<"maybe", th>>)
    BY <1>5, <1>6, <1>7, <2>1, OwnPlaces, TokenKinds
  <2>3. CASE e # NoObj
    <3>1. Live(e) /\ (IsCounted(e) => Pos(Counter(e))) BY <1>6, <2>2, <2>3, RefCounted
    <3>2. \E x \in StrongTokens : Ref(x) = e /\ Here(th, x) BY <1>6, <2>2
    <3>3. m_refCount' = AddRef(e) BY <1>3, <2>3
    <3> QED BY <2>2, <3>1, <3>2, <3>3, CountAdd
  <2>4. CASE e = NoObj
    <3>1. m_refCount' = m_refCount /\ Ref(h)' = Ref(k) BY <1>3, <2>2, <2>4
    <3> QED BY <1>0, <2>2, <3>1, CountSwap DEF TypeOK, RefTypeOK
  <2> QED BY <2>3, <2>4
<1>9. TypeOK' BY <1>0, <1>2, <1>3, <1>8 DEF TypeOK, RefTypeOK, ErrorTypeOK, HolderTypeOK, holderVars
<1> QED BY <1>2, <1>4, <1>8, <1>9, UserStep DEF holderVars

(* Maybe::operator=(Maybe&&) *)
LEMMA MoveMaybeStep ==
  ASSUME IInv, NEW th \in Threads, NEW other \in Threads, MoveMaybe(th, other), UNCHANGED holderVars
  PROVE  IInv'
<1>0. TypeOK BY DEF IInv
<1> USE DEF MoveMaybe, KeepHeap
<1>1. PICK r, e : r = maybe[other].m_error /\ e = maybe[th].m_error OBVIOUS
<1>2. r \in Pointers /\ e \in Pointers /\ maybe[th] \in {Value} \cup {Error(x) : x \in Pointers} BY <1>0, <1>1, MaybeIs
<1>3. /\ maybe \in [Threads -> {Value} \cup {Error(x) : x \in Pointers}]
      /\ maybe' \in [Threads -> {Value} \cup {Error(x) : x \in Pointers}]
      /\ maybe'[other] = maybe[th] /\ maybe'[th].m_error = NoObj
      /\ \A u \in Threads : u \notin {th, other} => maybe'[u] = maybe[u]
  <2>1. maybe \in [Threads -> {Value} \cup {Error(x) : x \in Pointers}] BY <1>0 DEF TypeOK, ErrorTypeOK
  <2>2. [maybe[th] EXCEPT !.m_error = NoObj] \in {Value} \cup {Error(x) : x \in Pointers}
        /\ [maybe[th] EXCEPT !.m_error = NoObj].m_error = NoObj
    BY <1>2, MaybeEmptied
  <2>3. PICK mv : mv = [maybe[th] EXCEPT !.m_error = NoObj] OBVIOUS
  <2>4. maybe' = [maybe EXCEPT ![other] = maybe[th], ![th] = mv] BY <2>1, <2>3
  <2> QED BY <1>2, <2>1, <2>2, <2>3, <2>4
<1>4. Start(th, ReleaseOf(r)) BY <1>1
<1>5. \A x \in StrongTokens : x \notin {<<"maybe", th>>, <<"maybe", other>>, <<"release", th>>} => Ref(x)' = Ref(x)
  BY <1>2, <1>3, <1>4, UserRefs DEF holderVars
<1>6. /\ Ref(<<"maybe", other>>) = r /\ Ref(<<"maybe", other>>)' = e
      /\ Ref(<<"maybe", th>>) = e /\ Ref(<<"maybe", th>>)' = NoObj
  BY <1>1, <1>3, RefIs
<1>7. Ref(<<"release", th>>) = NoObj /\ Ref(<<"release", th>>)' = r BY <1>2, <1>4, UserRefs
<1>8. StrongExact' /\ SamePos /\ RefsOK(th)
  <2>1. PICK h, k, l : h = <<"maybe", th>> /\ k = <<"maybe", other>> /\ l = <<"release", th>> OBVIOUS
  <2>2. /\ h \in StrongTokens /\ k \in StrongTokens /\ l \in StrongTokens
        /\ h # k /\ k # l /\ h # l /\ Here(th, h) /\ Here(th, k) /\ Here(th, l)
        /\ Ref(k)' = Ref(h) /\ Ref(l)' = Ref(k) /\ Ref(h)' = Ref(l)
        /\ \A x \in StrongTokens : x \notin {h, k, l} => Ref(x)' = Ref(x)
    BY <1>5, <1>6, <1>7, <2>1, OwnPlaces, TokenKinds
  <2> QED BY <2>2, CountCycle
<1>9. TypeOK' BY <1>0, <1>3 DEF TypeOK, RefTypeOK, ErrorTypeOK, HolderTypeOK, holderVars
<1> QED BY <1>2, <1>4, <1>8, <1>9, UserStep DEF holderVars

(* Maybe::TakeError *)
LEMMA TakeErrorStep ==
  ASSUME IInv, NEW th \in Threads, NEW to \in Own(th), TakeError(th, to), UNCHANGED holderVars
  PROVE  IInv'
<1>0. TypeOK /\ FramesTyped(todo) BY DEF IInv
<1> USE DEF TakeError, KeepHeap
<1>1. PICK e : e = maybe[th].m_error OBVIOUS
<1>2. /\ e \in Pointers /\ maybe[th] \in {Value} \cup {Error(x) : x \in Pointers}
      /\ to \in Slots /\ strong \in [Slots -> Pointers] /\ NoObj \in Pointers
  BY <1>0, <1>1, MaybeIs, OwnPlaces DEF TypeOK, RefTypeOK, Pointers
<1>3. /\ maybe \in [Threads -> {Value} \cup {Error(x) : x \in Pointers}]
      /\ maybe' \in [Threads -> {Value} \cup {Error(x) : x \in Pointers}]
      /\ maybe'[th].m_error = NoObj
      /\ \A u \in Threads : u # th => maybe'[u] = maybe[u]
  <2>1. maybe \in [Threads -> {Value} \cup {Error(x) : x \in Pointers}] BY <1>0 DEF TypeOK, ErrorTypeOK
  <2>2. [maybe[th] EXCEPT !.m_error = NoObj] \in {Value} \cup {Error(x) : x \in Pointers}
        /\ [maybe[th] EXCEPT !.m_error = NoObj].m_error = NoObj
    BY <1>2, MaybeEmptied
  <2>3. PICK mv : mv = [maybe[th] EXCEPT !.m_error = NoObj] OBVIOUS
  <2>4. maybe' = [maybe EXCEPT ![th] = mv] BY <2>1, <2>3
  <2> QED BY <1>2, <2>1, <2>2, <2>3, <2>4
<1>4. Start(th, ReleaseOf(NoObj)) BY <1>0, NoCall
<1>5. \A x \in StrongTokens : x \notin {<<"slot", to>>, <<"maybe", th>>} => Ref(x)' = Ref(x)
  BY <1>2, <1>3, <1>4, UserRefs DEF holderVars
<1>6. /\ Ref(<<"maybe", th>>) = e /\ Ref(<<"maybe", th>>)' = NoObj
      /\ Ref(<<"slot", to>>) = NoObj /\ Ref(<<"slot", to>>)' = e
  BY <1>1, <1>2, <1>3, RefIs
<1>7. StrongExact' /\ SamePos /\ RefsOK(th)
  <2>1. PICK h, k : h = <<"maybe", th>> /\ k = <<"slot", to>> OBVIOUS
  <2>2. /\ h \in StrongTokens /\ k \in StrongTokens /\ Here(th, h) /\ Here(th, k)
        /\ Ref(h)' = Ref(k) /\ Ref(k)' = Ref(h)
        /\ \A x \in StrongTokens : x \notin {h, k} => Ref(x)' = Ref(x)
    BY <1>5, <1>6, <2>1, OwnPlaces, TokenKinds
  <2> QED BY <2>2, CountSwap
<1>8. TypeOK' BY <1>0, <1>1, <1>2, <1>3 DEF TypeOK, RefTypeOK, ErrorTypeOK, HolderTypeOK, holderVars
<1>9. \A u \in Threads : u # th /\ todo[u] # <<>> => \A s \in Own(u) : strong'[s] = strong[s]
  BY <1>2, OwnPlaces
<1> QED BY <1>2, <1>4, <1>7, <1>8, <1>9, UserStep DEF holderVars

(* A Maybe refers to a live error. *)
LEMMA MaybeError ==
  ASSUME IInv, NEW th \in Threads, maybe[th].m_error # NoObj
  PROVE  LET e == maybe[th].m_error
         IN /\ Live(e) /\ e \in Objects /\ (IsCounted(e) => Pos(Counter(e)))
            /\ \E x \in StrongTokens : Ref(x) = e /\ Here(th, x)
<1>1. Ref(<<"maybe", th>>) = maybe[th].m_error /\ <<"maybe", th>> \in StrongTokens /\ Here(th, <<"maybe", th>>)
  BY RefIs, TokenKinds, OwnPlaces
<1> QED BY <1>1, RefCounted

(* Maybe::GetValueElseThrow *)
LEMMA GetValueElseThrowStep ==
  ASSUME IInv, NEW th \in Threads, NEW catch \in Own(th), GetValueElseThrow(th, catch), UNCHANGED holderVars
  PROVE  IInv'
<1>0. TypeOK /\ FramesTyped(todo) BY DEF IInv
<1> USE DEF GetValueElseThrow, KeepHeap
<1>1. PICK e : e = maybe[th].m_error OBVIOUS
<1>2. /\ m_refCount' = IF e # NoObj THEN AddRef(e) ELSE m_refCount
      /\ strong' = [strong EXCEPT ![catch] = e]
  BY <1>1
<1>3. handled' \in SUBSET Objects BY <1>0 DEF TypeOK, ErrorTypeOK
<1>4. CASE e # NoObj
  <2>1. Live(e) /\ (IsCounted(e) => Pos(Counter(e))) /\ \E x \in StrongTokens : Ref(x) = e /\ Here(th, x)
    BY <1>1, <1>4, MaybeError
  <2> QED BY <1>2, <1>3, <1>4, <2>1, AddStep
<1>5. CASE e = NoObj
  <2>1. catch \in Slots /\ strong \in [Slots -> Pointers] BY <1>0, OwnPlaces DEF TypeOK, RefTypeOK
  <2>2. strong' = strong /\ m_refCount' = m_refCount BY <1>2, <1>5, <2>1
  <2>3. Start(th, ReleaseOf(NoObj)) /\ NoObj \in Pointers BY <1>0, NoCall
  <2>4. \A x \in StrongTokens : Ref(x)' = Ref(x) BY <2>2, <2>3, UserRefs DEF holderVars
  <2>5. StrongExact' /\ SamePos /\ RefsOK(th) BY <2>2, <2>4, CountSame
  <2>6. TypeOK' BY <1>0, <2>2 DEF TypeOK, RefTypeOK, ErrorTypeOK, HolderTypeOK, holderVars
  <2> QED BY <2>2, <2>3, <2>5, <2>6, UserStep DEF holderVars
<1> QED BY <1>4, <1>5

(* Maybe::ThrowOnError *)
LEMMA ThrowOnErrorStep ==
  ASSUME IInv, NEW th \in Threads, NEW catch \in Own(th), ThrowOnError(th, catch), UNCHANGED holderVars
  PROVE  IInv'
<1>0. TypeOK BY DEF IInv
<1> USE DEF ThrowOnError
<1>1. PICK e : e = maybe[th].m_error OBVIOUS
<1>2. m_refCount' = AddRef(e) /\ strong' = [strong EXCEPT ![catch] = e] /\ handled' = handled \cup {e} BY <1>1
<1>3. /\ Live(e) /\ e \in Objects /\ (IsCounted(e) => Pos(Counter(e)))
      /\ \E x \in StrongTokens : Ref(x) = e /\ Here(th, x)
  BY <1>1, MaybeError
<1>4. handled' \in SUBSET Objects BY <1>0, <1>2, <1>3 DEF TypeOK, ErrorTypeOK
<1>5. \A x \in Objects : life[x] = "dead" => (x \in handled' <=> x \in handled) BY <1>2, <1>3 DEF Live
<1> QED BY <1>2, <1>3, <1>4, <1>5, AddStep

(* A raw pointer of a thread, and what it was detached from. *)
LEMMA RawIs ==
  ASSUME TypeOK, NEW u \in Threads
  PROVE  /\ raw \in [Threads -> Pointers] /\ holder \in [Threads -> Pointers]
         /\ raw[u] \in Pointers /\ holder[u] \in Pointers
BY DEF TypeOK, HolderTypeOK

(* CntPtr::Detach *)
LEMMA DetachPtrStep ==
  ASSUME IInv, NEW th \in Threads, NEW from \in Own(th), DetachPtr(th, from)
  PROVE  IInv'
<1>0. TypeOK /\ FramesTyped(todo) BY DEF IInv
<1> USE DEF DetachPtr, KeepObjects
<1>1. PICK o : o = strong[from] OBVIOUS
<1>2. /\ o \in Pointers /\ from \in Slots /\ strong \in [Slots -> Pointers] /\ NoObj \in Pointers
      /\ raw \in [Threads -> Pointers]
  BY <1>0, <1>1, RawIs, OwnPlaces DEF TypeOK, RefTypeOK, Pointers
<1>3. Live(o) /\ cls[o] # OwnedObject
  <2>1. Ref(<<"slot", from>>) = o /\ <<"slot", from>> \in StrongTokens BY <1>1, RefIs, OwnPlaces
  <2> QED BY <1>1, <2>1, RefCounted DEF Live
<1>4. Start(th, ReleaseOf(NoObj)) BY <1>0, NoCall
<1>5. \A x \in StrongTokens : x \notin {<<"slot", from>>, <<"raw", th>>} => Ref(x)' = Ref(x)
  BY <1>2, <1>4, UserRefs DEF errorVars
<1>6. /\ Ref(<<"slot", from>>) = o /\ Ref(<<"slot", from>>)' = NoObj
      /\ Ref(<<"raw", th>>) = NoObj /\ Ref(<<"raw", th>>)' = o
  BY <1>1, <1>2, <1>3, RefIs
<1>7. StrongExact' /\ SamePos /\ RefsOK(th)
  <2>1. PICK h, k : h = <<"slot", from>> /\ k = <<"raw", th>> OBVIOUS
  <2>2. /\ h \in StrongTokens /\ k \in StrongTokens /\ Here(th, h) /\ Here(th, k)
        /\ Ref(h)' = Ref(k) /\ Ref(k)' = Ref(h)
        /\ \A x \in StrongTokens : x \notin {h, k} => Ref(x)' = Ref(x)
    BY <1>5, <1>6, <2>1, OwnPlaces, TokenKinds
  <2> QED BY <2>2, CountSwap
<1>8. TypeOK' BY <1>0, <1>1, <1>2 DEF TypeOK, RefTypeOK, ErrorTypeOK, HolderTypeOK, errorVars
<1>9. \A u \in Threads : u # th /\ todo[u] # <<>> => \A s \in Own(u) : strong'[s] = strong[s]
  BY <1>2, OwnPlaces
<1>10. \A u \in Threads : \/ raw'[u] = raw[u]
                          \/ /\ raw[u] = NoObj \/ cls[raw[u]] # OwnedObject
                             /\ raw'[u] = NoObj \/ cls[raw'[u]] # OwnedObject
  BY <1>1, <1>2, <1>3
<1> QED BY <1>2, <1>4, <1>7, <1>8, <1>9, <1>10, UserStep DEF errorVars

(* CntPtr::Attach *)
LEMMA AttachPtrStep ==
  ASSUME IInv, NEW th \in Threads, NEW to \in Own(th), AttachPtr(th, to)
  PROVE  IInv'
<1>0. TypeOK /\ FramesTyped(todo) BY DEF IInv
<1> USE DEF AttachPtr, KeepObjects
<1>1. PICK o, r : o = raw[th] /\ r = strong[to] OBVIOUS
<1>2. /\ o \in Pointers /\ r \in Pointers /\ to \in Slots /\ strong \in [Slots -> Pointers] /\ NoObj \in Pointers
      /\ raw \in [Threads -> Pointers]
  BY <1>0, <1>1, RawIs, OwnPlaces DEF TypeOK, RefTypeOK, Pointers
<1>3. o # NoObj /\ cls[o] # OwnedObject /\ Start(th, ReleaseOf(r)) BY <1>1
<1>5. \A x \in StrongTokens : x \notin {<<"raw", th>>, <<"slot", to>>, <<"release", th>>} => Ref(x)' = Ref(x)
  BY <1>2, <1>3, UserRefs DEF errorVars
<1>6. /\ Ref(<<"slot", to>>) = r /\ Ref(<<"slot", to>>)' = o
      /\ Ref(<<"raw", th>>) = o /\ Ref(<<"raw", th>>)' = NoObj
  BY <1>1, <1>2, <1>3, RefIs
<1>7. Ref(<<"release", th>>) = NoObj /\ Ref(<<"release", th>>)' = r BY <1>2, <1>3, UserRefs
<1>8. StrongExact' /\ SamePos /\ RefsOK(th)
  <2>1. PICK h, k, l : h = <<"raw", th>> /\ k = <<"slot", to>> /\ l = <<"release", th>> OBVIOUS
  <2>2. /\ h \in StrongTokens /\ k \in StrongTokens /\ l \in StrongTokens
        /\ h # k /\ k # l /\ h # l /\ Here(th, h) /\ Here(th, k) /\ Here(th, l)
        /\ Ref(k)' = Ref(h) /\ Ref(l)' = Ref(k) /\ Ref(h)' = Ref(l)
        /\ \A x \in StrongTokens : x \notin {h, k, l} => Ref(x)' = Ref(x)
    BY <1>5, <1>6, <1>7, <2>1, OwnPlaces, TokenKinds
  <2> QED BY <2>2, CountCycle
<1>9. TypeOK' BY <1>0, <1>1, <1>2 DEF TypeOK, RefTypeOK, ErrorTypeOK, HolderTypeOK, errorVars
<1>10. \A u \in Threads : u # th /\ todo[u] # <<>> => \A s \in Own(u) : strong'[s] = strong[s]
  BY <1>2, OwnPlaces
<1>11. \A u \in Threads : \/ raw'[u] = raw[u]
                          \/ /\ raw[u] = NoObj \/ cls[raw[u]] # OwnedObject
                             /\ raw'[u] = NoObj \/ cls[raw'[u]] # OwnedObject
  BY <1>1, <1>2, <1>3
<1> QED BY <1>2, <1>3, <1>8, <1>9, <1>10, <1>11, UserStep DEF errorVars

(* Functor::Swap *)
LEMMA SwapPtrsStep ==
  ASSUME IInv, NEW th \in Threads, NEW left \in Own(th), NEW right \in Own(th), SwapPtrs(th, left, right)
  PROVE  IInv'
<1>0. TypeOK /\ FramesTyped(todo) BY DEF IInv
<1> USE DEF SwapPtrs, KeepObjects
<1>1. /\ left \in Slots /\ right \in Slots /\ left # right /\ strong \in [Slots -> Pointers] /\ NoObj \in Pointers
  BY <1>0, OwnPlaces DEF TypeOK, RefTypeOK, Pointers
<1>4. Start(th, ReleaseOf(NoObj)) BY <1>0, NoCall
<1>5. \A x \in StrongTokens : x \notin {<<"slot", left>>, <<"slot", right>>} => Ref(x)' = Ref(x)
  BY <1>1, <1>4, UserRefs DEF errorVars, holderVars
<1>6. /\ Ref(<<"slot", left>>) = strong[left] /\ Ref(<<"slot", left>>)' = strong[right]
      /\ Ref(<<"slot", right>>) = strong[right] /\ Ref(<<"slot", right>>)' = strong[left]
  BY <1>1, RefIs
<1>7. StrongExact' /\ SamePos /\ RefsOK(th)
  <2>1. PICK h, k : h = <<"slot", left>> /\ k = <<"slot", right>> OBVIOUS
  <2>2. /\ h \in StrongTokens /\ k \in StrongTokens /\ Here(th, h) /\ Here(th, k)
        /\ Ref(h)' = Ref(k) /\ Ref(k)' = Ref(h)
        /\ \A x \in StrongTokens : x \notin {h, k} => Ref(x)' = Ref(x)
    BY <1>5, <1>6, <2>1, OwnPlaces, TokenKinds
  <2> QED BY <2>2, CountSwap
<1>8. TypeOK' BY <1>0, <1>1 DEF TypeOK, RefTypeOK, ErrorTypeOK, HolderTypeOK, errorVars, holderVars
<1>9. \A u \in Threads : u # th /\ todo[u] # <<>> => \A s \in Own(u) : strong'[s] = strong[s]
  BY <1>1, OwnPlaces
<1> QED BY <1>1, <1>4, <1>7, <1>8, <1>9, UserStep DEF errorVars, holderVars
-----------------------------------------------------------------------------
(* The places of the weak counts that a step can change. *)
LEMMA WeakPlaces ==
  ASSUME IInv, NEW th \in Threads, NEW p \in Seq(Frames), StackStep(th, p),
         UNCHANGED <<cls, weakRef, m_refCount>>
  PROVE  /\ DOMAIN WeakAt = WeakTokens /\ DOMAIN WeakAt' = WeakTokens
         /\ \A x \in WeakTokens :
              \/ \E u \in Threads : x = <<"weak", u>> /\ weak'[u] # weak[u]
              \/ \E b \in Objects : /\ x = <<"call", th, b>>
                                    /\ \/ todo[th] # <<>> /\ todo[th][1] = ReleaseWeakRef(b)
                                       \/ \E i \in DOMAIN p : p[i] = ReleaseWeakRef(b)
              \/ WeakAt'[x] = WeakAt[x]
<1>0. FramesTyped(todo) /\ FramesOK BY DEF IInv
<1>1. ASSUME NEW o \in Objects PROVE WeakAt'[<<"object", o>>] = WeakAt[<<"object", o>>]
  BY WeakIs
<1>2. ASSUME NEW u \in Threads, weak'[u] = weak[u] PROVE WeakAt'[<<"weak", u>>] = WeakAt[<<"weak", u>>]
  BY <1>2, WeakIs
<1>3. ASSUME NEW u \in Threads, NEW b \in Objects, u # th PROVE WeakAt'[<<"call", u, b>>] = WeakAt[<<"call", u, b>>]
  <2>1. ReleaseWeakRef(b) \in Range(todo'[u]) <=> ReleaseWeakRef(b) \in Range(todo[u])
    BY <1>0, <1>3, CallsAfter
  <2> QED BY <2>1, WeakIs
<1>4. ASSUME NEW b \in Objects, todo[th] = <<>> \/ todo[th][1] # ReleaseWeakRef(b),
             \A i \in DOMAIN p : p[i] # ReleaseWeakRef(b)
      PROVE  WeakAt'[<<"call", th, b>>] = WeakAt[<<"call", th, b>>]
  <2>1. todo[th] = <<>> => ReleaseWeakRef(b) \notin Range(todo[th]) BY DEF Range
  <2>2. ReleaseWeakRef(b) \in Range(todo'[th]) <=> ReleaseWeakRef(b) \in Range(todo[th])
    BY <1>0, <1>4, <2>1, CallsAfter
  <2> QED BY <2>2, WeakIs
<1> QED BY <1>1, <1>2, <1>3, <1>4, WeakIs

(* The references around a step of any kind. *)
LEMMA StepRefs ==
  ASSUME FramesTyped(todo), FramesOK, NEW th \in Threads, NEW p \in Seq(Frames), StackStep(th, p), cls' = cls
  PROVE  /\ <<"release", th>> \in StrongTokens /\ <<"publish", th>> \in StrongTokens
         /\ Ref(<<"release", th>>)' = IF p # <<>> /\ p[1].call = "Release" THEN p[1].arg ELSE NoObj
         /\ Ref(<<"publish", th>>)' = IF p # <<>> /\ p[1].call = "Publish" THEN p[1].new ELSE NoObj
         /\ todo[th] = <<>> \/ todo[th][1].call # "Release" => Ref(<<"release", th>>) = NoObj
         /\ todo[th] = <<>> \/ todo[th][1].call # "Publish" => Ref(<<"publish", th>>) = NoObj
         /\ todo[th] # <<>> /\ todo[th][1].call = "Release" => Ref(<<"release", th>>) = todo[th][1].arg
         /\ todo[th] # <<>> /\ todo[th][1].call = "Publish" => Ref(<<"publish", th>>) = todo[th][1].new
         /\ \A h \in StrongTokens :
              \/ \E s \in Slots : h = <<"slot", s>> /\ Ref(h) = strong[s] /\ Ref(h)' = strong'[s]
              \/ \E o \in Objects : h = <<"field", o>> /\ (field'[o] = field[o] => Ref(h)' = Ref(h))
              \/ \E u \in Threads : h = <<"maybe", u>> /\ Ref(h) = maybe[u].m_error /\ Ref(h)' = maybe'[u].m_error
              \/ \E u \in Threads : h = <<"raw", u>> /\ (raw'[u] = raw[u] => Ref(h)' = Ref(h))
              \/ h = <<"release", th>> \/ h = <<"publish", th>>
              \/ Ref(h)' = Ref(h)
<1>1. /\ \A u \in Threads : u # th => /\ Ref(<<"release", u>>)' = Ref(<<"release", u>>)
                                      /\ Ref(<<"publish", u>>)' = Ref(<<"publish", u>>)
      /\ Ref(<<"release", th>>)' = IF p # <<>> /\ p[1].call = "Release" THEN p[1].arg ELSE NoObj
      /\ Ref(<<"publish", th>>)' = IF p # <<>> /\ p[1].call = "Publish" THEN p[1].new ELSE NoObj
  BY TopRefs
<1>2. todo[th] # <<>> => Head(todo[th]) = todo[th][1] BY DEF FramesTyped
<1>3. /\ todo[th] = <<>> \/ todo[th][1].call # "Release" => Ref(<<"release", th>>) = NoObj
      /\ todo[th] = <<>> \/ todo[th][1].call # "Publish" => Ref(<<"publish", th>>) = NoObj
      /\ todo[th] # <<>> /\ todo[th][1].call = "Release" => Ref(<<"release", th>>) = todo[th][1].arg
      /\ todo[th] # <<>> /\ todo[th][1].call = "Publish" => Ref(<<"publish", th>>) = todo[th][1].new
  BY <1>2, RefIs
<1>6. ASSUME NEW h \in StrongTokens
      PROVE  \/ \E s \in Slots : h = <<"slot", s>> /\ Ref(h) = strong[s] /\ Ref(h)' = strong'[s]
             \/ \E o \in Objects : h = <<"field", o>> /\ (field'[o] = field[o] => Ref(h)' = Ref(h))
             \/ \E u \in Threads : h = <<"maybe", u>> /\ Ref(h) = maybe[u].m_error /\ Ref(h)' = maybe'[u].m_error
             \/ \E u \in Threads : h = <<"raw", u>> /\ (raw'[u] = raw[u] => Ref(h)' = Ref(h))
             \/ h = <<"release", th>> \/ h = <<"publish", th>>
             \/ Ref(h)' = Ref(h)
  <2>1. ASSUME NEW s \in Slots, h = <<"slot", s>> PROVE Ref(h) = strong[s] /\ Ref(h)' = strong'[s]
    BY <2>1, RefIs
  <2>2. ASSUME NEW o \in Objects, h = <<"field", o>> PROVE field'[o] = field[o] => Ref(h)' = Ref(h)
    BY <2>2, RefIs
  <2>3. ASSUME NEW u \in Threads, h = <<"maybe", u>> PROVE Ref(h) = maybe[u].m_error /\ Ref(h)' = maybe'[u].m_error
    BY <2>3, RefIs
  <2>4. ASSUME NEW u \in Threads, h = <<"raw", u>> PROVE raw'[u] = raw[u] => Ref(h)' = Ref(h)
    BY <2>4, RefIs
  <2>5. ASSUME NEW u \in Threads, h = <<"release", u>>, u # th PROVE Ref(h)' = Ref(h) BY <1>1, <2>5
  <2>6. ASSUME NEW u \in Threads, h = <<"publish", u>>, u # th PROVE Ref(h)' = Ref(h) BY <1>1, <2>6
  <2> QED BY <2>1, <2>2, <2>3, <2>4, <2>5, <2>6, TokenKinds
<1> QED BY <1>1, <1>3, <1>6, TokenKinds

WeakCalls == {"ReleaseWeakRef", "AssignWeak", "Increment"}

(* A step that only moves weak references. *)
LEMMA WeakStep ==
  ASSUME IInv, NEW th \in Threads, NEW p \in Seq(Frames), StackStep(th, p),
         todo[th] = <<>> \/ todo[th][1].call \in WeakCalls,
         \A i \in DOMAIN p : p[i].call \in WeakCalls,
         UNCHANGED <<program, cls, life, weakRef, m_refCount, m_headMember, storage, field, strong,
                     errorVars, holderVars>>,
         TypeOK', WeakExact',
         \A b \in Objects : m_weakRefCount'[b] > 0 <=> m_weakRefCount[b] > 0,
         \A u \in Threads : weak'[u] = weak[u] \/ (WeakLive(weak'[u]) /\ (u = th \/ todo[u] = <<>>)),
         todo[th] # <<>> /\ todo[th][1].call = "ReleaseWeakRef" => p = <<>> /\ weak'[th] = weak[th],
         SameHeap => \A i \in DOMAIN p : FrameOK(th, i)'
  PROVE  IInv'
<1>0. FramesTyped(todo) /\ FramesOK BY DEF IInv
<1>1. QuietStack(th, p) BY DEF QuietStack, QuietCalls, WeakCalls
<1>2. \A x \in StrongTokens : Ref(x)' = Ref(x)
  <2>1. todo[th] = <<>> \/ todo[th][1].call \notin {"Release", "Publish"} BY DEF WeakCalls
  <2>2. p # <<>> => p[1].call \notin {"Release", "Publish"}
    <3>1. p # <<>> => 1 \in DOMAIN p OBVIOUS
    <3> QED BY <3>1 DEF WeakCalls
  <2> QED BY <1>0, <2>1, <2>2, StepRefs DEF errorVars, holderVars
<1>3. StrongExact' /\ SamePos /\ RefsOK(th) BY <1>2, CountSame
<1>4. OwnerExact' BY OwnersKept DEF WeakCalls, holderVars
<1>5. Counts' BY <1>3, <1>4 DEF Counts
<1>6. RestLocals(th, p)
  <2>1. todo[th] # <<>> => todo[th][1] # ClearHolder BY DEF ClearHolder, WeakCalls
  <2> QED BY <2>1 DEF RestLocals, SameLocals, holderVars
<1>7. \A u \in Threads : u # th /\ todo[u] # <<>> => SameLocals(u) BY DEF SameLocals, holderVars
<1>8. /\ \A b \in Objects : Pos(b)' <=> Pos(b)
      /\ \A h \in StrongTokens : FromHere(th, h) /\ (Ref(h)' = Ref(h) \/ Ref(h)' = NoObj \/ Live(Ref(h)'))
  BY <1>3 DEF SamePos, RefsOK
<1> QED BY <1>1, <1>5, <1>6, <1>7, <1>8, QuietStep DEF errorVars

(* The container of a live object has a weak count. *)
LEMMA LiveWeak ==
  ASSUME IInv, NEW o, Live(o), HasWeakRef(cls[o])
  PROVE  /\ weakRef[o] \in Objects /\ m_weakRefCount[weakRef[o]] > 0 /\ cls[weakRef[o]] # NoClass
         /\ cls[o].policy = "WeakRef" => WeakLive([m_ptr |-> o, m_weakRef |-> weakRef[o]])
<1>1. o \in Objects /\ weakRef[o] \in Objects /\ o \in Owned(weakRef[o]) /\ ~Dying(o) /\ life[o] = "alive"
  BY DEF Live
<1>2. PICK b \in Objects : b = weakRef[o] BY <1>1
<1>3. WeakRefOK(o) /\ CountsOK(b) /\ ClassOK(b) BY <1>1 DEF IInv, Heap
<1>4. b # NoObj BY RefCountingAssumption
<1>5. HasWeakRef(cls[b]) /\ cls[b] \notin Members
  <2>1. \A c \in Swarms \cup {FixedSwarm} : HasWeakRef(c) /\ c \notin Members
    <3>1. Swarms \subseteq Classes BY DEF Swarms, Classes
    <3>2. FixedSwarm \in Classes /\ FixedSwarm.policy = "FixedSwarm" /\ FixedSwarm \notin Members
      BY ClassFacts
    <3> QED BY <3>1, <3>2, ClassFacts DEF HasWeakRef
  <2> QED BY <1>2, <1>3, <1>4, <2>1 DEF WeakRefOK
<1>6. m_weakRefCount[b] > 0 BY <1>3, <1>5 DEF CountsOK
<1>7. cls[b] # NoClass
  <2>1. NoClass.policy = "Free" BY ClassFacts
  <2> QED BY <1>5, <2>1 DEF HasWeakRef
<1>8. cls[o].policy = "WeakRef" => WeakLive([m_ptr |-> o, m_weakRef |-> weakRef[o]])
  BY <1>1, <1>2, <1>7 DEF WeakLive
<1> QED BY <1>2, <1>6, <1>7, <1>8

(* A WeakPtr that is not empty. *)
LEMMA WeakFull ==
  ASSUME IInv, NEW u \in Threads
  PROVE  /\ weak[u] \in [m_ptr : Pointers, m_weakRef : Pointers] /\ weak \in [Threads -> [m_ptr : Pointers, m_weakRef : Pointers]]
         /\ m_weakRefCount \in [Objects -> Nat]
         /\ weak[u] # EmptyWeakPtr => /\ weak[u].m_ptr \in Objects /\ weak[u].m_weakRef \in Objects
                                      /\ weak[u].m_ptr # NoObj /\ weak[u].m_weakRef # NoObj
                                      /\ WeakLive(weak[u]) /\ m_weakRefCount[weak[u].m_weakRef] > 0
         /\ EmptyWeakPtr.m_ptr = NoObj /\ EmptyWeakPtr.m_weakRef = NoObj
         /\ EmptyWeakPtr \in [m_ptr : Pointers, m_weakRef : Pointers]
         /\ WeakLive(EmptyWeakPtr)
<1>1. WeakLive(weak[u]) /\ TypeOK BY DEF IInv, WeaksLive
<1>2. weak[u] # EmptyWeakPtr => weak[u].m_ptr \in Objects /\ weak[u].m_weakRef \in Objects BY <1>1 DEF WeakLive
<1>3. ASSUME weak[u] # EmptyWeakPtr PROVE m_weakRefCount[weak[u].m_weakRef] > 0
  <2>1. PICK b \in Objects : b = weak[u].m_weakRef BY <1>2, <1>3
  <2>2. WeakAt[<<"weak", u>>] = b /\ <<"weak", u>> \in DOMAIN WeakAt BY <2>1, WeakIs
  <2>3. Exact(WeakAt, m_weakRefCount) BY DEF IInv, Counts, WeakExact
  <2>4. m_weakRefCount[b] \in Nat /\ m_weakRefCount[b] # 0 BY <2>2, <2>3, ExactZero
  <2> QED BY <2>1, <2>4
<1> QED BY <1>1, <1>2, <1>3, RefCountingAssumption DEF EmptyWeakPtr, WeakLive, TypeOK, RefTypeOK, Pointers

(* One call, two calls, none. *)
LEMMA FewCalls ==
  /\ <<>> \in Seq(Frames) /\ DOMAIN <<>> = {} /\ Len(<<>>) = 0
  /\ \A f \in Frames : /\ <<f>> \in Seq(Frames) /\ <<f>> # <<>> /\ Len(<<f>>) = 1
                       /\ DOMAIN <<f>> = {1} /\ <<f>>[1] = f
                       /\ <<>> \o <<f>> = <<f>> /\ <<f>> \o <<>> = <<f>>
  /\ \A f, g \in Frames : /\ <<f, g>> \in Seq(Frames) /\ <<f, g>> # <<>> /\ Len(<<f, g>>) = 2
                          /\ DOMAIN <<f, g>> = {1, 2} /\ <<f, g>>[1] = f /\ <<f, g>>[2] = g
                          /\ <<f>> \o <<g>> = <<f, g>>
<1>1. \A f \in Frames : DOMAIN <<f>> = {1} OBVIOUS
<1>2. \A f, g \in Frames : DOMAIN <<f, g>> = {1, 2}
  <2> TAKE f, g \in Frames
  <2>1. DOMAIN <<f, g>> = 1..2 OBVIOUS
  <2> QED BY <2>1
<1>3. \A f, g \in Frames : <<f>> \o <<g>> = <<f, g>>
  <2> TAKE f, g \in Frames
  <2>1. PICK s, t, c, d : s = <<f>> /\ t = <<g>> /\ c = s \o t /\ d = <<f, g>> OBVIOUS
  <2>2. s \in Seq(Frames) /\ t \in Seq(Frames) /\ d \in Seq(Frames) /\ Len(s) = 1 /\ Len(t) = 1 /\ Len(d) = 2
        /\ s[1] = f /\ t[1] = g /\ d[1] = f /\ d[2] = g
    BY <2>1
  <2>3. c \in Seq(Frames) /\ Len(c) = 2 /\ c[1] = f /\ c[2] = g BY <2>1, <2>2, ConcatProperties
  <2>4. c = d BY <2>2, <2>3, SeqEqual
  <2> QED BY <2>1, <2>4
<1>4. \A f \in Frames : <<>> \o <<f>> = <<f>> /\ <<f>> \o <<>> = <<f>> BY ConcatEmptySeq
<1> QED BY <1>1, <1>2, <1>3, <1>4

(* A call that starts in user code. *)
LEMMA StartStack ==
  ASSUME NEW th \in Threads, InUserCode(th), NEW p \in Seq(Frames), Start(th, p)
  PROVE  StackStep(th, p) /\ todo[th] = <<>>
<1>1. p \o <<>> = p BY ConcatEmptySeq
<1> QED BY <1>1 DEF Start, StackStep, InUserCode, Rest

(* A call that goes on with others. *)
LEMMA ContinueStack ==
  ASSUME FramesTyped(todo), NEW th \in Threads, NEW call, Calling(th, call), NEW p \in Seq(Frames), Continue(th, p)
  PROVE  /\ StackStep(th, p) /\ todo[th] # <<>> /\ 1 \in DOMAIN todo[th] /\ todo[th][1] \in Frames
         /\ Head(todo[th]) = todo[th][1] /\ todo[th][1].call = call /\ Arg(th) = todo[th][1].arg
<1>1. todo[th] # <<>> /\ todo[th] \in Seq(Frames) BY DEF Calling, FramesTyped
<1>2. Head(todo[th]) = todo[th][1] /\ 1 \in DOMAIN todo[th] /\ todo[th][1] \in Frames BY <1>1
<1> QED BY <1>1, <1>2 DEF Calling, Continue, StackStep, Rest, Arg

(* WeakPtr::Assign and Reset, up to the release of the old container. *)
LEMMA ReassignWeakStep ==
  ASSUME IInv, NEW th \in Threads, InUserCode(th), NEW w, ReassignWeak(th, w), UNCHANGED <<errorVars, holderVars>>,
         w # EmptyWeakPtr => /\ w \in [m_ptr : Objects, m_weakRef : Objects]
                             /\ cls[w.m_ptr].policy = "WeakRef"
                             /\ weakRef[w.m_ptr] = w.m_weakRef
                             /\ \E s \in Own(th) : strong[s] = w.m_ptr
  PROVE  IInv'
<1>0. TypeOK /\ FramesTyped(todo) /\ FramesOK BY DEF IInv
<1> USE DEF ReassignWeak
<1>1. PICK p, q : /\ p = WeakRefOf(weak[th]) \o q
                  /\ q = IF w.m_ptr = NoObj THEN <<>> ELSE <<AssignWeak(w)>>
  OBVIOUS
<1>2. w.m_ptr # NoObj => w # EmptyWeakPtr BY DEF EmptyWeakPtr
<1>3. q \in Seq(Frames) /\ \A i \in DOMAIN q : i = 1 /\ q[i] = AssignWeak(w)
  <2>1. CASE w.m_ptr = NoObj BY <1>1, <2>1
  <2>2. CASE w.m_ptr # NoObj
    <3>1. AssignWeak(w) \in Frames BY <1>2, <2>2, FrameKinds
    <3> QED BY <1>1, <2>2, <3>1
  <2> QED BY <2>1, <2>2
<1>4. weak' = [weak EXCEPT ![th] = EmptyWeakPtr] /\ weak \in [Threads -> [m_ptr : Pointers, m_weakRef : Pointers]]
      /\ weak'[th] = EmptyWeakPtr /\ WeakLive(EmptyWeakPtr) /\ EmptyWeakPtr.m_weakRef = NoObj
      /\ \A u \in Threads : u # th => weak'[u] = weak[u]
  BY WeakFull
<1>5. TypeOK'
  <2>1. EmptyWeakPtr \in [m_ptr : Pointers, m_weakRef : Pointers] BY WeakFull
  <2> QED BY <1>0, <1>4, <2>1 DEF TypeOK, RefTypeOK, ErrorTypeOK, HolderTypeOK, errorVars, holderVars, Value, Error
<1>6. \A u \in Threads : weak'[u] = weak[u] \/ (WeakLive(weak'[u]) /\ (u = th \/ todo[u] = <<>>))
  BY <1>4
<1>7. ASSUME p \in Seq(Frames), NEW i \in DOMAIN p, p[i] = AssignWeak(w), w.m_ptr # NoObj, StackStep(th, p),
             i = Len(p), i = 1 \/ (i = 2 /\ p[1].call = "ReleaseWeakRef"), SameHeap
      PROVE  FrameOK(th, i)'
  <2>1. /\ todo'[th][i] = AssignWeak(w) /\ Len(todo'[th]) = Len(p)
        /\ (i = 2 => todo'[th][1].call = "ReleaseWeakRef")
    <3>1. todo' = [todo EXCEPT ![th] = p] BY <1>1 DEF Start
    <3>2. todo'[th] = p BY <1>0, <3>1 DEF FramesTyped
    <3>3. i = 2 => p[1].call = "ReleaseWeakRef" BY <1>7
    <3> HIDE DEF ReassignWeak
    <3> QED BY <1>7, <3>2, <3>3
  <2>2. /\ cls[w.m_ptr].policy = "WeakRef" /\ weakRef[w.m_ptr] = w.m_weakRef
        /\ \E s \in Own(th) : strong[s] = w.m_ptr
    BY <1>2, <1>7
  <2>3. Own(th)' = Own(th) BY DEF Own
  <2> QED BY <1>4, <1>7, <2>1, <2>2, <2>3 DEF FrameOK, AssignWeak, SameHeap
<1>8. CASE weak[th] = EmptyWeakPtr
  <2>1. p = q
    <3>1. <<>> \o q = q BY <1>3, ConcatEmptySeq
    <3> QED BY <1>1, <1>4, <1>8, <3>1 DEF WeakRefOf
  <2>2. StackStep(th, p) /\ todo[th] = <<>> BY <1>1, <1>3, <2>1, StartStack
  <2>3. WeakExact'
    <3>1. PICK f, g, n, m : f = WeakAt /\ g = WeakAt' /\ n = m_weakRefCount /\ m = m_weakRefCount' OBVIOUS
    <3>2. weak' = weak BY <1>4, <1>8
    <3>0. \A i \in DOMAIN p : \A d : p[i] # ReleaseWeakRef(d) BY <1>3, <2>1 DEF AssignWeak, ReleaseWeakRef
    <3>3. DOMAIN g = DOMAIN f /\ \A x \in DOMAIN f : g[x] = f[x]
      BY <1>3, <2>1, <2>2, <3>0, <3>1, <3>2, WeakPlaces
    <3>4. Exact(f, n) BY <3>1 DEF IInv, Counts, WeakExact
    <3>5. Exact(g, n) BY <3>3, <3>4, ExactSame
    <3> QED BY <3>1, <3>5 DEF WeakExact, Exact, At
  <2>4. ASSUME SameHeap, NEW i \in DOMAIN p PROVE FrameOK(th, i)'
    <3>0. w.m_ptr # NoObj BY <1>1, <2>1, <2>4, FewCalls
    <3>1. w.m_ptr # NoObj /\ p = <<AssignWeak(w)>> /\ i = 1 /\ Len(p) = 1 BY <1>1, <1>3, <2>1, <2>4, <3>0
    <3> QED BY <1>3, <1>7, <2>1, <2>2, <2>4, <3>1
  <2>5. \A i \in DOMAIN p : p[i].call \in WeakCalls BY <1>3, <2>1 DEF AssignWeak, WeakCalls
  <2> QED BY <1>3, <1>5, <1>6, <2>1, <2>2, <2>3, <2>4, <2>5, WeakStep
<1>9. CASE weak[th] # EmptyWeakPtr
  <2>1. PICK b \in Objects : b = weak[th].m_weakRef /\ b # NoObj BY <1>9, WeakFull
  <2>2. p = <<ReleaseWeakRef(b)>> \o q /\ ReleaseWeakRef(b) \in Frames BY <1>1, <2>1, FrameKinds DEF WeakRefOf
  <2>3. /\ p \in Seq(Frames) /\ p[1] = ReleaseWeakRef(b) /\ 1 \in DOMAIN p
        /\ \A i \in DOMAIN p : i # 1 => p[i] = AssignWeak(w) /\ i = 2 /\ i = Len(p) /\ w.m_ptr # NoObj
    <3>1. CASE w.m_ptr = NoObj
      <4>0. PICK f \in Frames : f = ReleaseWeakRef(b) BY <2>2
      <4>1. p = <<f>> BY <1>1, <2>2, <3>1, <4>0, FewCalls
      <4>2. p \in Seq(Frames) /\ DOMAIN p = {1} /\ p[1] = f BY <4>1, FewCalls
      <4> QED BY <4>0, <4>2
    <3>2. CASE w.m_ptr # NoObj
      <4>0. AssignWeak(w) \in Frames BY <1>2, <3>2, FrameKinds
      <4>1. PICK f \in Frames, g \in Frames : f = ReleaseWeakRef(b) /\ g = AssignWeak(w) BY <2>2, <4>0
      <4>2. p = <<f, g>> BY <1>1, <2>2, <3>2, <4>1, FewCalls
      <4>3. p \in Seq(Frames) /\ DOMAIN p = {1, 2} /\ p[1] = f /\ p[2] = g /\ Len(p) = 2 BY <4>2, FewCalls
      <4> QED BY <3>2, <4>1, <4>3
    <3> QED BY <3>1, <3>2
  <2>4. \A i \in DOMAIN p : \/ p[i] = ReleaseWeakRef(b) /\ i = 1
                            \/ p[i] = AssignWeak(w) /\ i = 2 /\ i = Len(p) /\ w.m_ptr # NoObj
    BY <2>3
  <2>5. StackStep(th, p) /\ todo[th] = <<>> BY <1>1, <2>3, StartStack
  <2>6. WeakExact'
    <3>1. PICK f, g, n, m : f = WeakAt /\ g = WeakAt' /\ n = m_weakRefCount /\ m = m_weakRefCount' OBVIOUS
    <3>2. PICK h, k : h = <<"weak", th>> /\ k = <<"call", th, b>> OBVIOUS
    <3>3. DOMAIN g = DOMAIN f /\ h \in DOMAIN f /\ k \in DOMAIN f BY <3>1, <3>2, WeakIs
    <3>4. \A x \in DOMAIN f : x \notin {h, k} => g[x] = f[x]
      <4>1. \A d \in Objects, i \in DOMAIN p : p[i] = ReleaseWeakRef(d) => d = b
        BY <2>4 DEF ReleaseWeakRef, AssignWeak
      <4> QED BY <1>4, <2>3, <2>5, <3>1, <3>2, <4>1, WeakPlaces
    <3>5. f[h] = b /\ g[h] = NoObj BY <1>4, <2>1, <3>1, <3>2, WeakIs
    <3>6. f[k] = NoObj /\ g[k] = b
      <4>1. ReleaseWeakRef(b) \notin Range(todo[th]) BY <2>5 DEF Range
      <4>2. ReleaseWeakRef(b) \in Range(todo'[th]) BY <1>0, <2>3, <2>5, CallsAfter
      <4> QED BY <3>1, <3>2, <4>1, <4>2, WeakIs
    <3>7. Exact(f, n) BY <3>1 DEF IInv, Counts, WeakExact
    <3>8. Exact(g, n) BY <3>3, <3>4, <3>5, <3>6, <3>7, ExactSwap
    <3> QED BY <3>1, <3>8 DEF WeakExact, Exact, At
  <2>7. ASSUME SameHeap, NEW i \in DOMAIN p PROVE FrameOK(th, i)'
    <3>1. CASE i = 1
      <4>1. todo'[th][1] = ReleaseWeakRef(b) BY <1>0, <2>3, <2>5, StackAfter DEF Stacked
      <4> QED BY <3>1, <4>1 DEF FrameOK, ReleaseWeakRef
    <3>2. CASE i # 1
      <4>1. p[1].call = "ReleaseWeakRef" BY <2>3 DEF ReleaseWeakRef
      <4> QED BY <1>7, <2>3, <2>4, <2>5, <2>7, <3>2, <4>1
    <3> QED BY <3>1, <3>2
  <2>8. \A i \in DOMAIN p : p[i].call \in WeakCalls BY <2>4 DEF AssignWeak, ReleaseWeakRef, WeakCalls
  <2> QED BY <1>5, <1>6, <2>3, <2>5, <2>6, <2>7, <2>8, WeakStep
<1> QED BY <1>8, <1>9

(* WeakPtr = CntPtr *)
LEMMA WeakFromStrongStep ==
  ASSUME IInv, NEW th \in Threads, NEW from \in Own(th), WeakFromStrong(th, from), UNCHANGED <<errorVars, holderVars>>
  PROVE  IInv'
<1> USE DEF WeakFromStrong
<1>1. PICK o, w : o = strong[from] /\ w = [m_ptr |-> o, m_weakRef |-> weakRef[o]] OBVIOUS
<1>2. Ref(<<"slot", from>>) = o /\ <<"slot", from>> \in StrongTokens BY <1>1, RefIs, OwnPlaces
<1>3. Live(o) /\ o \in Objects BY <1>1, <1>2, RefCounted
<1>4. cls[o].policy = "WeakRef" /\ HasWeakRef(cls[o])
  <2>1. cls[o] \in Classes BY <1>3, LiveCounter
  <2> QED BY <1>1, <2>1, ClassFacts DEF HasWeakRef
<1>5. weakRef[o] \in Objects BY <1>3, <1>4 DEF Live
<1>6. w \in [m_ptr : Objects, m_weakRef : Objects] /\ w.m_ptr = o /\ w.m_weakRef = weakRef[o] BY <1>1, <1>3, <1>5
<1>7. ReassignWeak(th, w) /\ \E s \in Own(th) : strong[s] = w.m_ptr BY <1>1, <1>6
<1> QED BY <1>4, <1>6, <1>7, ReassignWeakStep

(* WeakPtr::Reset *)
LEMMA ResetWeakStep ==
  ASSUME IInv, NEW th \in Threads, ResetWeak(th), UNCHANGED <<errorVars, holderVars>>
  PROVE  IInv'
BY ReassignWeakStep DEF ResetWeak

(* A container that has a weak count gets one more. *)
LEMMA WeakCountUp ==
  ASSUME TypeOK, NEW b \in Objects, m_weakRefCount[b] > 0,
         m_weakRefCount' = [m_weakRefCount EXCEPT ![b] = @ + 1]
  PROVE  /\ m_weakRefCount' \in [Objects -> Nat]
         /\ Plus1(m_weakRefCount', m_weakRefCount, b)
         /\ \A d \in Objects : m_weakRefCount'[d] > 0 <=> m_weakRefCount[d] > 0
<1>1. m_weakRefCount \in [Objects -> Nat] BY DEF TypeOK, RefTypeOK
<1> QED BY <1>1 DEF Plus1

(* One place more has a weak count. *)
LEMMA WeakAdd ==
  ASSUME IInv, NEW h \in WeakTokens, NEW b \in Objects, WeakAt[h] = NoObj, WeakAt'[h] = b,
         \A x \in WeakTokens : x # h => WeakAt'[x] = WeakAt[x],
         Plus1(m_weakRefCount', m_weakRefCount, b)
  PROVE  WeakExact'
<1>1. PICK f, g, n, m : f = WeakAt /\ g = WeakAt' /\ n = m_weakRefCount /\ m = m_weakRefCount' OBVIOUS
<1>2. Exact(f, n) BY <1>1 DEF IInv, Counts, WeakExact
<1>3. DOMAIN g = DOMAIN f /\ DOMAIN f = WeakTokens BY <1>1, WeakIs
<1>4. f[h] \notin Objects /\ g[h] = b /\ \A x \in DOMAIN f : x # h => g[x] = f[x]
  BY <1>1, <1>3, RefCountingAssumption
<1>5. Plus1(m, n, b) BY <1>1
<1>6. Exact(g, m) BY <1>2, <1>3, <1>4, <1>5, ExactAdd
<1> QED BY <1>1, <1>6 DEF WeakExact, Exact, At

(* No place changes. *)
LEMMA WeakSame ==
  ASSUME IInv, \A x \in WeakTokens : WeakAt'[x] = WeakAt[x], m_weakRefCount' = m_weakRefCount
  PROVE  WeakExact'
<1>1. PICK f, g, n, m : f = WeakAt /\ g = WeakAt' /\ n = m_weakRefCount /\ m = m_weakRefCount' OBVIOUS
<1>2. Exact(f, n) BY <1>1 DEF IInv, Counts, WeakExact
<1>3. DOMAIN g = DOMAIN f /\ DOMAIN f = WeakTokens BY <1>1, WeakIs
<1>4. \A x \in DOMAIN f : g[x] = f[x] BY <1>1, <1>3
<1>6. Exact(g, n) BY <1>2, <1>3, <1>4, ExactSame
<1> QED BY <1>1, <1>6 DEF WeakExact, Exact, At

(* The second half of WeakPtr::Assign. *)
LEMMA RunAssignWeakStep ==
  ASSUME IInv, NEW th \in Threads, RunAssignWeak(th), UNCHANGED <<errorVars, holderVars>>
  PROVE  IInv'
<1>0. TypeOK /\ FramesTyped(todo) /\ FramesOK BY DEF IInv
<1>1. PICK p, w : p = <<>> /\ w = Arg(th) OBVIOUS
<1>2. p \in Seq(Frames) BY <1>1
<1>3. /\ StackStep(th, p) /\ todo[th] # <<>> /\ 1 \in DOMAIN todo[th] /\ todo[th][1] \in Frames
      /\ todo[th][1].call = "AssignWeak" /\ w = todo[th][1].arg
  BY <1>0, <1>1, <1>2, ContinueStack DEF RunAssignWeak
<1>4. w \in [m_ptr : Objects, m_weakRef : Objects] BY <1>3, FrameFacts
<1>5. /\ weak[th] = EmptyWeakPtr /\ cls[w.m_ptr].policy = "WeakRef" /\ weakRef[w.m_ptr] = w.m_weakRef
      /\ \E s \in Own(th) : strong[s] = w.m_ptr
  <2>1. FrameOK(th, 1) BY <1>0, <1>3 DEF FramesOK
  <2> QED BY <1>3, <2>1 DEF FrameOK
<1>6. PICK o \in Objects, b \in Objects : o = w.m_ptr /\ b = w.m_weakRef BY <1>4
<1>7. Live(o)
  <2>1. PICK s \in Own(th) : strong[s] = o BY <1>5, <1>6
  <2>2. Ref(<<"slot", s>>) = o /\ <<"slot", s>> \in StrongTokens BY <2>1, RefIs, OwnPlaces
  <2>3. o # NoObj BY RefCountingAssumption
  <2> QED BY <2>2, <2>3, RefCounted
<1>8. WeakLive(w) /\ m_weakRefCount[b] > 0
  <2>1. HasWeakRef(cls[o]) /\ cls[o].policy = "WeakRef" /\ weakRef[o] = b BY <1>5, <1>6 DEF HasWeakRef
  <2>2. w = [m_ptr |-> o, m_weakRef |-> weakRef[o]] BY <1>4, <1>6, <2>1
  <2> QED BY <1>7, <2>1, <2>2, LiveWeak
<1>9. weak \in [Threads -> [m_ptr : Pointers, m_weakRef : Pointers]] /\ w \in [m_ptr : Pointers, m_weakRef : Pointers]
      /\ EmptyWeakPtr.m_weakRef = NoObj
  BY <1>4, WeakFull DEF Pointers
<1> USE DEF RunAssignWeak
<1>10. weak' = [weak EXCEPT ![th] = w] /\ m_weakRefCount' = [m_weakRefCount EXCEPT ![b] = @ + 1]
  BY <1>1, <1>6
<1>11. /\ m_weakRefCount' \in [Objects -> Nat] /\ Plus1(m_weakRefCount', m_weakRefCount, b)
       /\ \A d \in Objects : m_weakRefCount'[d] > 0 <=> m_weakRefCount[d] > 0
  BY <1>0, <1>8, <1>10, WeakCountUp
<1>12. weak'[th] = w /\ \A u \in Threads : u # th => weak'[u] = weak[u] BY <1>9, <1>10
<1>13. WeakExact'
  <2>1. PICK h : h = <<"weak", th>> OBVIOUS
  <2>2. h \in WeakTokens /\ WeakAt[h] = NoObj /\ WeakAt'[h] = b BY <1>5, <1>6, <1>9, <1>12, <2>1, WeakIs
  <2>3. \A d : todo[th][1] # ReleaseWeakRef(d) BY <1>3 DEF ReleaseWeakRef
  <2>5. \A i \in DOMAIN p : FALSE BY <1>1
  <2>4. \A x \in WeakTokens : x # h => WeakAt'[x] = WeakAt[x]
    BY <1>2, <1>3, <1>12, <2>1, <2>3, <2>5, WeakPlaces
  <2> QED BY <1>11, <2>2, <2>4, WeakAdd
<1>14. TypeOK' BY <1>0, <1>9, <1>10, <1>11 DEF TypeOK, RefTypeOK, ErrorTypeOK, HolderTypeOK, errorVars, holderVars, Value, Error
<1>15. \A u \in Threads : weak'[u] = weak[u] \/ (WeakLive(weak'[u]) /\ (u = th \/ todo[u] = <<>>))
  BY <1>8, <1>12
<1>16. \A i \in DOMAIN p : FALSE BY <1>1
<1>17. todo[th][1].call \in WeakCalls /\ todo[th][1].call # "ReleaseWeakRef" BY <1>3 DEF WeakCalls
<1> QED BY <1>2, <1>3, <1>11, <1>13, <1>14, <1>15, <1>16, <1>17, WeakStep

(* WeakPtr<Future> *)
LEMMA WeakFromFutureStep ==
  ASSUME IInv, NEW th \in Threads, NEW from \in Own(th), WeakFromFuture(th, from), UNCHANGED <<errorVars, holderVars>>
  PROVE  IInv'
<1>0. TypeOK /\ FramesTyped(todo) /\ FramesOK BY DEF IInv
<1> USE DEF WeakFromFuture
<1>1. PICK o, b, w : o = strong[from] /\ b = weakRef[o] /\ w = [m_ptr |-> o, m_weakRef |-> b] OBVIOUS
<1>2. Ref(<<"slot", from>>) = o /\ <<"slot", from>> \in StrongTokens BY <1>1, RefIs, OwnPlaces
<1>3. Live(o) /\ o \in Objects BY <1>1, <1>2, RefCounted
<1>4. cls[o].policy = "WeakRef" /\ HasWeakRef(cls[o]) BY <1>1, ClassFacts DEF HasWeakRef
<1>5. b \in Objects /\ m_weakRefCount[b] > 0 /\ WeakLive(w) BY <1>1, <1>3, <1>4, LiveWeak
<1>6. w \in [m_ptr : Pointers, m_weakRef : Pointers] /\ w.m_weakRef = b BY <1>1, <1>3, <1>5 DEF Pointers
<1>7. weak \in [Threads -> [m_ptr : Pointers, m_weakRef : Pointers]] /\ EmptyWeakPtr.m_weakRef = NoObj
  BY WeakFull
<1>8. weak' = [weak EXCEPT ![th] = w] /\ m_weakRefCount' = [m_weakRefCount EXCEPT ![b] = @ + 1] BY <1>1
<1>9. /\ m_weakRefCount' \in [Objects -> Nat] /\ Plus1(m_weakRefCount', m_weakRefCount, b)
      /\ \A d \in Objects : m_weakRefCount'[d] > 0 <=> m_weakRefCount[d] > 0
  BY <1>0, <1>5, <1>8, WeakCountUp
<1>10. weak'[th] = w /\ \A u \in Threads : u # th => weak'[u] = weak[u] BY <1>7, <1>8
<1>11. TypeOK' BY <1>0, <1>6, <1>7, <1>8, <1>9 DEF TypeOK, RefTypeOK, ErrorTypeOK, HolderTypeOK, errorVars, holderVars, Value, Error
<1>12. \A u \in Threads : weak'[u] = weak[u] \/ (WeakLive(weak'[u]) /\ (u = th \/ todo[u] = <<>>))
  BY <1>5, <1>10
<1>13. PICK p, h : p = WeakRefOf(weak[th]) /\ h = <<"weak", th>> OBVIOUS
<1>14. h \in WeakTokens /\ WeakAt[h] = weak[th].m_weakRef /\ WeakAt'[h] = b BY <1>6, <1>10, <1>13, WeakIs
<1>15. CASE weak[th] = EmptyWeakPtr
  <2>1. p = <<>> /\ p \in Seq(Frames) BY <1>7, <1>13, <1>15 DEF WeakRefOf
  <2>2. StackStep(th, p) /\ todo[th] = <<>> BY <1>13, <2>1, StartStack
  <2>3. WeakExact'
    <3>0. p \in Seq(Frames) /\ \A i \in DOMAIN p : FALSE BY <2>1
    <3>1. \A x \in WeakTokens : x # h => WeakAt'[x] = WeakAt[x] BY <1>10, <1>13, <2>2, <3>0, WeakPlaces
    <3>2. WeakAt[h] = NoObj BY <1>7, <1>14, <1>15
    <3> QED BY <1>5, <1>9, <1>14, <3>1, <3>2, WeakAdd
  <2>4. \A i \in DOMAIN p : FALSE BY <2>1
  <2> QED BY <1>9, <1>11, <1>12, <2>1, <2>2, <2>3, <2>4, WeakStep
<1>16. CASE weak[th] # EmptyWeakPtr
  <2>1. PICK c \in Objects : c = weak[th].m_weakRef /\ c # NoObj BY <1>16, WeakFull
  <2>2. PICK r \in Frames : r = ReleaseWeakRef(c) BY FrameKinds
  <2>3. p = <<r>> BY <1>13, <2>1, <2>2 DEF WeakRefOf
  <2>4. p \in Seq(Frames) /\ DOMAIN p = {1} /\ p[1] = r BY <2>3, FewCalls
  <2>5. StackStep(th, p) /\ todo[th] = <<>> BY <1>13, <2>4, StartStack
  <2>6. WeakExact'
    <3>1. PICK f, g, n, m, k : /\ f = WeakAt /\ g = WeakAt' /\ n = m_weakRefCount /\ m = m_weakRefCount'
                               /\ k = <<"call", th, c>>
      OBVIOUS
    <3>3. DOMAIN g = DOMAIN f /\ h \in DOMAIN f /\ k \in DOMAIN f /\ h # k BY <1>13, <3>1, WeakIs
    <3>4. \A x \in DOMAIN f : x \notin {h, k} => g[x] = f[x]
      <4>1. \A d \in Objects, i \in DOMAIN p : p[i] = ReleaseWeakRef(d) => d = c
        BY <2>2, <2>4 DEF ReleaseWeakRef
      <4> QED BY <1>10, <1>13, <2>4, <2>5, <3>1, <4>1, WeakPlaces
    <3>5. f[k] = NoObj /\ g[k] = c
      <4>1. ReleaseWeakRef(c) \notin Range(todo[th]) BY <2>5 DEF Range
      <4>2. ReleaseWeakRef(c) \in Range(todo'[th]) BY <1>0, <2>2, <2>4, <2>5, CallsAfter
      <4> QED BY <3>1, <4>1, <4>2, WeakIs
    <3>6. f[h] = c /\ g[h] = b /\ f[k] \notin Objects BY <1>14, <2>1, <3>1, <3>5, RefCountingAssumption
    <3>7. Exact(f, n) /\ Plus1(m, n, b) BY <1>9, <3>1 DEF IInv, Counts, WeakExact
    <3>8. Exact(g, m) BY <1>5, <3>3, <3>4, <3>5, <3>6, <3>7, ExactSwapAdd
    <3> QED BY <3>1, <3>8 DEF WeakExact, Exact, At
  <2>7. \A i \in DOMAIN p : FrameOK(th, i)'
    <3>1. todo'[th][1] = ReleaseWeakRef(c) BY <1>0, <2>2, <2>4, <2>5, StackAfter DEF Stacked
    <3> QED BY <2>4, <3>1 DEF FrameOK, ReleaseWeakRef
  <2>8. \A i \in DOMAIN p : p[i].call \in WeakCalls BY <2>2, <2>4 DEF ReleaseWeakRef, WeakCalls
  <2> QED BY <1>9, <1>11, <1>12, <2>4, <2>5, <2>6, <2>7, <2>8, WeakStep
<1> QED BY <1>15, <1>16

(* A step of user code that makes no call. *)
LEMMA NoCallStack ==
  ASSUME FramesTyped(todo), NEW th \in Threads, InUserCode(th), todo' = todo
  PROVE  \E p \in Seq(Frames) : /\ p = <<>> /\ StackStep(th, p) /\ todo[th] = <<>>
                                /\ \A i \in DOMAIN p : FALSE
<1>1. PICK p : p = <<>> OBVIOUS
<1>2. p \in Seq(Frames) /\ \A i \in DOMAIN p : FALSE BY <1>1
<1>3. Start(th, p)
  <2>1. [todo EXCEPT ![th] = <<>>] = todo BY DEF FramesTyped, InUserCode
  <2> QED BY <1>1, <2>1 DEF Start
<1> QED BY <1>1, <1>2, <1>3, StartStack

(* The WeakPtr of another thread is copied from that of th. *)
LEMMA CopyWeakToThreadStep ==
  ASSUME IInv, NEW th \in Threads, NEW other \in Threads, CopyWeakToThread(th, other),
         UNCHANGED <<errorVars, holderVars>>
  PROVE  IInv'
<1>0. TypeOK /\ FramesTyped(todo) /\ FramesOK BY DEF IInv
<1> USE DEF CopyWeakToThread
<1>1. PICK p \in Seq(Frames) : p = <<>> /\ StackStep(th, p) /\ todo[th] = <<>> /\ \A i \in DOMAIN p : FALSE
  BY <1>0, NoCallStack
<1>2. weak[th] # EmptyWeakPtr /\ weak[other] = EmptyWeakPtr
  <2>1. weak[other] # EmptyWeakPtr => weak[other].m_ptr # NoObj BY WeakFull
  <2>2. EmptyWeakPtr.m_ptr = NoObj BY WeakFull
  <2> QED BY <2>1, <2>2
<1>3. PICK w, b : w = weak[th] /\ b = w.m_weakRef OBVIOUS
<1>4. /\ b \in Objects /\ m_weakRefCount[b] > 0 /\ WeakLive(w) /\ EmptyWeakPtr.m_weakRef = NoObj
      /\ w \in [m_ptr : Pointers, m_weakRef : Pointers]
      /\ weak \in [Threads -> [m_ptr : Pointers, m_weakRef : Pointers]]
  BY <1>2, <1>3, WeakFull
<1>5. weak' = [weak EXCEPT ![other] = w] /\ m_weakRefCount' = [m_weakRefCount EXCEPT ![b] = @ + 1] BY <1>3
<1>6. /\ m_weakRefCount' \in [Objects -> Nat] /\ Plus1(m_weakRefCount', m_weakRefCount, b)
      /\ \A d \in Objects : m_weakRefCount'[d] > 0 <=> m_weakRefCount[d] > 0
  BY <1>0, <1>4, <1>5, WeakCountUp
<1>7. weak'[other] = w /\ \A u \in Threads : u # other => weak'[u] = weak[u] BY <1>4, <1>5
<1>8. WeakExact'
  <2>1. PICK h : h = <<"weak", other>> OBVIOUS
  <2>2. h \in WeakTokens /\ WeakAt[h] = NoObj /\ WeakAt'[h] = b BY <1>2, <1>3, <1>4, <1>7, <2>1, WeakIs
  <2>4. StackStep(th, p) /\ todo[th] = <<>> /\ (\A i \in DOMAIN p : FALSE) /\ UNCHANGED <<cls, weakRef, m_refCount>>
    BY <1>1
  <2> HIDE DEF CopyWeakToThread
  <2>3. \A x \in WeakTokens : x # h => WeakAt'[x] = WeakAt[x] BY <1>7, <2>1, <2>4, WeakPlaces
  <2> QED BY <1>4, <1>6, <2>2, <2>3, WeakAdd
<1>9. TypeOK' BY <1>0, <1>4, <1>5, <1>6 DEF TypeOK, RefTypeOK, ErrorTypeOK, HolderTypeOK, errorVars, holderVars, Value, Error
<1>10. \A u \in Threads : weak'[u] = weak[u] \/ (WeakLive(weak'[u]) /\ (u = th \/ todo[u] = <<>>))
  BY <1>4, <1>7 DEF InUserCode
<1> QED BY <1>1, <1>6, <1>8, <1>9, <1>10, WeakStep

(* A pending increment. *)
LEMMA IncrementFrame ==
  ASSUME FramesTyped(todo), NEW th \in Threads, NEW s \in Own(th), NEW n \in Nat,
         NEW p \in Seq(Frames), p = <<Increment(s, n)>>, StackStep(th, p),
         todo[th] = <<>> \/ Len(todo[th]) = 1,
         strong'[s] = NoObj, weak'[th] # EmptyWeakPtr
  PROVE  \A i \in DOMAIN p : FrameOK(th, i)'
<1>1. PICK f : f = Increment(s, n) OBVIOUS
<1>2. p = <<f>> /\ DOMAIN p = {1} /\ Len(p) = 1 /\ p[1] = f BY <1>1
<1>3. Stacked(todo[th], p, todo'[th]) BY StackAfter
<1>4. todo'[th][1] = f BY <1>2, <1>3 DEF Stacked
<1>5. Len(todo'[th]) = 1
  <2>1. CASE todo[th] = <<>> BY <1>2, <1>3, <2>1 DEF Stacked
  <2>2. CASE todo[th] # <<>> /\ Len(todo[th]) = 1 BY <1>2, <1>3, <2>2 DEF Stacked
  <2> QED BY <2>1, <2>2
<1>6. Own(th)' = Own(th) BY DEF Own
<1> QED BY <1>1, <1>2, <1>4, <1>5, <1>6 DEF FrameOK, Increment

(* WeakPtr::GetStrongPtr loads the count. *)
LEMMA GetStrongPtrStep ==
  ASSUME IInv, NEW th \in Threads, NEW to \in Own(th), GetStrongPtr(th, to), UNCHANGED <<errorVars, holderVars>>
  PROVE  IInv'
<1>0. TypeOK /\ FramesTyped(todo) /\ FramesOK BY DEF IInv
<1>1. weak[th] # EmptyWeakPtr /\ EmptyWeakPtr.m_ptr = NoObj BY WeakFull DEF GetStrongPtr
<1>2. PICK n : n = m_refCount[weak[th].m_weakRef] OBVIOUS
<1>3. n \in Nat
  <2>1. weak[th].m_weakRef \in Objects BY <1>1, WeakFull
  <2> QED BY <1>0, <1>2, <2>1 DEF TypeOK, RefTypeOK
<1>4. PICK f \in Frames : f = Increment(to, n) BY <1>3, FrameKinds, OwnPlaces
<1>5. PICK p \in Seq(Frames) : p = <<f>> /\ DOMAIN p = {1} /\ p[1] = f BY FewCalls
<1> USE DEF GetStrongPtr
<1>6. StackStep(th, p) /\ todo[th] = <<>> BY <1>2, <1>4, <1>5, StartStack
<1>7. WeakExact'
  <2>1. \A i \in DOMAIN p : \A d : p[i] # ReleaseWeakRef(d) BY <1>4, <1>5 DEF Increment, ReleaseWeakRef
  <2>2. \A x \in WeakTokens : WeakAt'[x] = WeakAt[x] BY <1>6, <2>1, WeakPlaces
  <2> QED BY <2>2, WeakSame
<1>8. TypeOK' BY <1>0 DEF TypeOK, RefTypeOK, ErrorTypeOK, HolderTypeOK, errorVars, holderVars, Value, Error
<1>9. \A i \in DOMAIN p : FrameOK(th, i)' BY <1>0, <1>1, <1>3, <1>4, <1>5, <1>6, IncrementFrame
<1>10. \A i \in DOMAIN p : p[i].call \in WeakCalls BY <1>4, <1>5 DEF Increment, WeakCalls
<1> QED BY <1>6, <1>7, <1>8, <1>9, <1>10, WeakStep

(* The constructor of a member throws: its weak count is given back. *)
LEMMA MakeMemberThrowsStep ==
  ASSUME IInv, NEW th \in Threads, NEW from \in Own(th), MakeMemberThrows(th, from), UNCHANGED <<errorVars, holderVars>>
  PROVE  IInv'
<1>0. TypeOK /\ FramesTyped(todo) /\ FramesOK BY DEF IInv
<1> USE DEF MakeMemberThrows
<1>1. PICK o, b : o = strong[from] /\ b = weakRef[o] OBVIOUS
<1>2. Ref(<<"slot", from>>) = o /\ <<"slot", from>> \in StrongTokens BY <1>1, RefIs, OwnPlaces
<1>3. o # NoObj /\ HasWeakRef(cls[o])
  <2>1. SwarmOf(o) # NoObj => o # NoObj /\ cls[o].policy = "WeakRef" BY DEF SwarmOf
  <2>2. FixedSwarm.policy = "FixedSwarm" BY ClassFacts
  <2> QED BY <1>1, <2>1, <2>2 DEF HasWeakRef
<1>4. Live(o) BY <1>2, <1>3, RefCounted
<1>5. b \in Objects /\ m_weakRefCount[b] > 0 BY <1>1, <1>3, <1>4, LiveWeak
<1>6. /\ m_weakRefCount' \in [Objects -> Nat] /\ Plus1(m_weakRefCount', m_weakRefCount, b)
      /\ \A d \in Objects : m_weakRefCount'[d] > 0 <=> m_weakRefCount[d] > 0
  BY <1>0, <1>1, <1>5, WeakCountUp
<1>7. PICK r \in Frames : r = ReleaseWeakRef(b) BY <1>5, FrameKinds
<1>8. PICK p \in Seq(Frames) : p = <<r>> /\ DOMAIN p = {1} /\ p[1] = r BY FewCalls
<1>9. StackStep(th, p) /\ todo[th] = <<>> BY <1>1, <1>7, <1>8, StartStack
<1>10. WeakExact'
  <2>1. PICK k : k = <<"call", th, b>> OBVIOUS
  <2>2. k \in WeakTokens /\ WeakAt[k] = NoObj /\ WeakAt'[k] = b
    <3>1. ReleaseWeakRef(b) \notin Range(todo[th]) BY <1>9 DEF Range
    <3>2. ReleaseWeakRef(b) \in Range(todo'[th]) BY <1>0, <1>5, <1>7, <1>8, <1>9, CallsAfter
    <3> QED BY <1>5, <2>1, <3>1, <3>2, WeakIs
  <2>3. \A x \in WeakTokens : x # k => WeakAt'[x] = WeakAt[x]
    <3>1. \A d \in Objects, i \in DOMAIN p : p[i] = ReleaseWeakRef(d) => d = b
      BY <1>7, <1>8 DEF ReleaseWeakRef
    <3> QED BY <1>9, <2>1, <3>1, WeakPlaces
  <2> QED BY <1>5, <1>6, <2>2, <2>3, WeakAdd
<1>11. TypeOK' BY <1>0, <1>6 DEF TypeOK, RefTypeOK, ErrorTypeOK, HolderTypeOK, errorVars, holderVars, Value, Error
<1>12. \A i \in DOMAIN p : FrameOK(th, i)'
  <2>1. Stacked(todo[th], p, todo'[th]) /\ 1 \in DOMAIN p BY <1>0, <1>8, <1>9, StackAfter
  <2> HIDE DEF MakeMemberThrows
  <2>2. todo'[th][1] = ReleaseWeakRef(b) BY <1>7, <1>8, <2>1 DEF Stacked
  <2> QED BY <1>8, <2>2 DEF FrameOK, ReleaseWeakRef
<1>13. \A i \in DOMAIN p : p[i].call \in WeakCalls BY <1>7, <1>8 DEF ReleaseWeakRef, WeakCalls
<1> QED BY <1>6, <1>9, <1>10, <1>11, <1>12, <1>13, WeakStep

(* ReleaseWeakRef of a container that others refer to. *)
LEMMA ReleaseWeakRefStep ==
  ASSUME IInv, NEW th \in Threads, RunReleaseWeakRef(th), m_weakRefCount[Arg(th)] # 1,
         UNCHANGED <<errorVars, holderVars>>
  PROVE  IInv'
<1>0. TypeOK /\ FramesTyped(todo) /\ FramesOK BY DEF IInv
<1>1. PICK p, b : p = <<>> /\ b = Arg(th) OBVIOUS
<1>2. p \in Seq(Frames) /\ \A i \in DOMAIN p : FALSE BY <1>1
<1>3. /\ StackStep(th, p) /\ todo[th] # <<>> /\ 1 \in DOMAIN todo[th] /\ todo[th][1] \in Frames
      /\ todo[th][1].call = "ReleaseWeakRef" /\ b = todo[th][1].arg
  BY <1>0, <1>1, <1>2, ContinueStack DEF RunReleaseWeakRef
<1>4. b \in Objects /\ todo[th][1] = ReleaseWeakRef(b) BY <1>3, FrameFacts DEF ReleaseWeakRef
<1> USE DEF RunReleaseWeakRef, DropWeakRef
<1>5. /\ m_weakRefCount' = [m_weakRefCount EXCEPT ![b] = @ - 1] /\ m_weakRefCount[b] # 1
      /\ UNCHANGED <<cls, life, m_headMember, storage, weakRef>>
  BY <1>1
<1>6. Exact(WeakAt, m_weakRefCount) /\ m_weakRefCount \in [Objects -> Nat]
  BY <1>0 DEF IInv, Counts, WeakExact, TypeOK, RefTypeOK
<1>7. PICK k : k = <<"call", th, b>> OBVIOUS
<1>8. k \in WeakTokens /\ WeakAt[k] = b /\ WeakAt'[k] = NoObj
  <2>1. ReleaseWeakRef(b) \in Range(todo[th]) BY <1>3, <1>4 DEF Range
  <2>2. ReleaseWeakRef(b) \notin Range(todo'[th]) BY <1>0, <1>2, <1>3, <1>4, CallsAfter
  <2> QED BY <1>4, <1>7, <2>1, <2>2, WeakIs
<1>9. m_weakRefCount[b] # 0 /\ m_weakRefCount[b] > 1
  <2>1. m_weakRefCount[b] # 0 BY <1>4, <1>6, <1>8, ExactZero, WeakIs
  <2> QED BY <1>4, <1>5, <1>6, <2>1
<1>10. /\ m_weakRefCount' \in [Objects -> Nat] /\ Minus1(m_weakRefCount', m_weakRefCount, b)
       /\ \A d \in Objects : m_weakRefCount'[d] > 0 <=> m_weakRefCount[d] > 0
  BY <1>4, <1>5, <1>6, <1>9 DEF Minus1
<1>11. WeakExact'
  <2>1. \A x \in WeakTokens : x # k => WeakAt'[x] = WeakAt[x]
    <3>1. \A d : todo[th][1] = ReleaseWeakRef(d) => d = b BY <1>4 DEF ReleaseWeakRef
    <3> QED BY <1>2, <1>3, <1>5, <1>7, <3>1, WeakPlaces
  <2>2. PICK f, g, n, m : f = WeakAt /\ g = WeakAt' /\ n = m_weakRefCount /\ m = m_weakRefCount' OBVIOUS
  <2>3. DOMAIN g = DOMAIN f /\ k \in DOMAIN f /\ f[k] = b /\ g[k] \notin Objects
        /\ \A x \in DOMAIN f : x # k => g[x] = f[x]
    BY <1>8, <2>1, <2>2, WeakIs, RefCountingAssumption
  <2>4. Exact(f, n) /\ Minus1(m, n, b) BY <1>6, <1>10, <2>2
  <2>5. Exact(g, m) BY <1>4, <2>3, <2>4, ExactDrop
  <2> QED BY <2>2, <2>5 DEF WeakExact, Exact, At
<1>12. TypeOK' BY <1>0, <1>5, <1>10 DEF TypeOK, RefTypeOK, ErrorTypeOK, HolderTypeOK, errorVars, holderVars, Value, Error
<1>13. todo[th][1].call \in WeakCalls BY <1>3 DEF WeakCalls
<1> QED BY <1>1, <1>2, <1>3, <1>5, <1>10, <1>11, <1>12, <1>13, WeakStep
-----------------------------------------------------------------------------
(* A call on a counter or a published pointer. *)
LEMMA CallStep ==
  ASSUME IInv, NEW th \in Threads, NEW p \in Seq(Frames), StackStep(th, p),
         todo[th] # <<>>, todo[th][1].call \in {"Release", "Publish", "Increment"},
         \A i \in DOMAIN p : p[i].call = "Release" /\ i = 1,
         UNCHANGED <<program, cls, life, weakRef, m_weakRefCount, m_headMember, storage, weak,
                     errorVars, holderVars>>,
         TypeOK',
         \A u \in Threads : u # th => \A s \in Own(u) : strong'[s] = strong[s],
         \A o \in Objects : field'[o] = field[o] \/ FieldOK(o)',
         StrongExact', SamePos, RefsOK(th)
  PROVE  IInv'
<1>0. FramesTyped(todo) BY DEF IInv
<1>1. QuietStack(th, p) BY DEF QuietStack, QuietCalls
<1>2. Counts'
  <2>1. WeakExact' BY WeakKept
  <2>2. OwnerExact' BY OwnersKept DEF holderVars
  <2> QED BY <2>1, <2>2 DEF Counts
<1>3. \A i \in DOMAIN p : FrameOK(th, i)'
  <2> SUFFICES ASSUME NEW i \in DOMAIN p PROVE FrameOK(th, i)' OBVIOUS
  <2>1. todo'[th][i].call = "Release" /\ i = 1 BY <1>0, StackAfter DEF Stacked
  <2> QED BY <2>1, ReleaseFrame
<1>4. \A u \in Threads : u # th /\ todo[u] # <<>> => SameLocals(u) BY DEF SameLocals, holderVars
<1>5. RestLocals(th, p) BY DEF RestLocals, holderVars, ClearHolder
<1>6. /\ \A b \in Objects : Pos(b)' <=> Pos(b)
      /\ \A h \in StrongTokens : FromHere(th, h) /\ (Ref(h)' = Ref(h) \/ Ref(h)' = NoObj \/ Live(Ref(h)'))
  BY DEF SamePos, RefsOK
<1> QED BY <1>1, <1>2, <1>3, <1>4, <1>5, <1>6, QuietStep DEF errorVars

(* IncrementRefCountIfNotZero: zero, exchanged, or again. *)
LEMMA RunIncrementStep ==
  ASSUME IInv, NEW th \in Threads, RunIncrement(th), UNCHANGED <<errorVars, holderVars>>
  PROVE  IInv'
<1>0. TypeOK /\ FramesTyped(todo) /\ FramesOK BY DEF IInv
<1>1. Calling(th, "Increment") BY DEF RunIncrement
<1>2. /\ todo[th] # <<>> /\ 1 \in DOMAIN todo[th] /\ todo[th][1] \in Frames /\ todo[th] \in Seq(Frames)
      /\ Head(todo[th]) = todo[th][1] /\ todo[th][1].call = "Increment" /\ Arg(th) = todo[th][1].arg
  BY <1>0, <1>1 DEF Calling, FramesTyped, Arg
<1>3. PICK s, n, b, o : s = Arg(th) /\ n = Head(todo[th]).count /\ b = weak[th].m_weakRef /\ o = weak[th].m_ptr
  OBVIOUS
<1>4. FrameOK(th, 1) BY <1>0, <1>2 DEF FramesOK
<1>5. s \in Own(th) /\ strong[s] = NoObj /\ weak[th] # EmptyWeakPtr /\ Len(todo[th]) = 1
  BY <1>2, <1>3, <1>4 DEF FrameOK
<1>6. n \in Nat /\ b \in Objects /\ o \in Objects /\ o # NoObj /\ WeakLive(weak[th]) /\ m_refCount[b] \in Nat
  <2>1. b \in Objects /\ o \in Objects /\ o # NoObj /\ WeakLive(weak[th]) BY <1>3, <1>5, WeakFull
  <2>2. n \in Nat BY <1>2, <1>3, FrameFacts
  <2> QED BY <1>0, <2>1, <2>2 DEF TypeOK, RefTypeOK
<1>7. CASE n = 0 \/ n # m_refCount[b]
  <2>1. PICK q \in Seq(Frames) : /\ StackStep(th, q)
                                 /\ \A i \in DOMAIN q : q[i] = Increment(s, m_refCount[b])
                                 /\ q # <<>> => q = <<Increment(s, m_refCount[b])>>
    <3>1. CASE n = 0
      <4>1. PICK q : q = <<>> OBVIOUS
      <4>2. q \in Seq(Frames) /\ Continue(th, q) BY <1>3, <3>1, <4>1 DEF RunIncrement
      <4>3. StackStep(th, q) BY <1>0, <1>1, <4>2, ContinueStack
      <4>4. (\A i \in DOMAIN q : FALSE) /\ ~(q # <<>>) BY <4>1
      <4>5. q \in Seq(Frames) BY <4>2
      <4> HIDE DEF RunIncrement
      <4> WITNESS q \in Seq(Frames)
      <4> QED BY <4>3, <4>4
    <3>2. CASE n # 0
      <4>1. PICK f \in Frames : f = Increment(s, m_refCount[b]) BY <1>5, <1>6, FrameKinds, OwnPlaces
      <4>2. PICK q \in Seq(Frames) : q = <<f>> /\ DOMAIN q = {1} /\ q[1] = f BY FewCalls
      <4>3. Continue(th, q) BY <1>3, <1>7, <3>2, <4>1, <4>2 DEF RunIncrement
      <4>4. StackStep(th, q) BY <1>0, <1>1, <4>3, ContinueStack
      <4> QED BY <4>1, <4>2, <4>4
    <3> QED BY <3>1, <3>2
  <2>2. /\ UNCHANGED <<program, cls, life, weakRef, m_refCount, m_headMember, storage, field, strong>>
        /\ UNCHANGED <<weak, m_weakRefCount>>
    BY <1>3, <1>7 DEF RunIncrement
  <2>3. WeakExact'
    <3>1. \A i \in DOMAIN q : \A d : q[i] # ReleaseWeakRef(d) BY <2>1 DEF Increment, ReleaseWeakRef
    <3>2. \A d : todo[th][1] # ReleaseWeakRef(d) BY <1>2 DEF ReleaseWeakRef
    <3>3. \A x \in WeakTokens : WeakAt'[x] = WeakAt[x] BY <2>1, <2>2, <3>1, <3>2, WeakPlaces
    <3> QED BY <2>2, <3>3, WeakSame
  <2>4. TypeOK' BY <1>0, <2>2 DEF TypeOK, RefTypeOK, ErrorTypeOK, HolderTypeOK, errorVars, holderVars, Value, Error
  <2>5. \A i \in DOMAIN q : FrameOK(th, i)'
    <3>1. CASE q = <<>> BY <3>1
    <3>2. CASE q # <<>>
      <4>1. q = <<Increment(s, m_refCount[b])>> /\ strong'[s] = NoObj /\ weak'[th] # EmptyWeakPtr
        BY <1>5, <2>1, <2>2, <3>2
      <4> QED BY <1>0, <1>5, <1>6, <2>1, <4>1, IncrementFrame
    <3> QED BY <3>1, <3>2
  <2>6. \A i \in DOMAIN q : q[i].call \in WeakCalls BY <2>1 DEF Increment, WeakCalls
  <2>7. todo[th][1].call \in WeakCalls /\ todo[th][1].call # "ReleaseWeakRef" BY <1>2 DEF WeakCalls
  <2> QED BY <2>1, <2>2, <2>3, <2>4, <2>5, <2>6, <2>7, WeakStep
<1>8. CASE n # 0 /\ n = m_refCount[b]
  <2>1. Pos(b) BY <1>6, <1>8 DEF Pos
  <2>2. /\ cls[o].policy = "WeakRef" /\ o \in Owned(b) /\ life[o] = "alive" /\ weakRef[o] = b /\ ~Dying(o)
    BY <1>3, <1>5, <1>6, <2>1 DEF WeakLive
  <2>3. Live(o) /\ Counter(o) = b /\ IsCounted(o) /\ cls[o] # FixedSwarm
    <3>1. OwnedObject.policy = "Owned" /\ FixedSwarm.policy = "FixedSwarm" BY ClassFacts
    <3> QED BY <1>6, <2>2, <3>1 DEF Live, Counter, IsCounted
  <2>4. PICK p : p = <<>> OBVIOUS
  <2>5. p \in Seq(Frames) /\ \A i \in DOMAIN p : FALSE BY <2>4
  <2>6. /\ Continue(th, p) /\ m_refCount' = AddRef(o) /\ strong' = [strong EXCEPT ![s] = o]
        /\ UNCHANGED <<program, cls, life, weakRef, m_weakRefCount, m_headMember, storage, field, weak>>
    BY <1>3, <1>8, <2>3, <2>4 DEF RunIncrement, AddRef
  <2>7. StackStep(th, p) BY <1>0, <1>1, <2>5, <2>6, ContinueStack
  <2>8. s \in Slots /\ strong \in [Slots -> Pointers] BY <1>0, <1>5, OwnPlaces DEF TypeOK, RefTypeOK
  <2>9. \A x \in StrongTokens : x \notin {<<"slot", s>>, <<"release", th>>, <<"publish", th>>} => Ref(x)' = Ref(x)
    BY <1>0, <2>5, <2>6, <2>7, <2>8, StepRefs DEF errorVars, holderVars
  <2>10. /\ Ref(<<"release", th>>)' = NoObj /\ Ref(<<"publish", th>>)' = NoObj
         /\ Ref(<<"release", th>>) = NoObj /\ Ref(<<"publish", th>>) = NoObj
    BY <1>0, <1>2, <2>4, <2>5, <2>6, <2>7, StepRefs
  <2>11. Ref(<<"slot", s>>) = NoObj /\ Ref(<<"slot", s>>)' = o BY <1>5, <2>6, <2>8, RefIs
  <2>12. StrongExact' /\ SamePos /\ RefsOK(th) /\ m_refCount' \in [Objects -> Nat]
    <3>1. PICK h, k : h = <<"slot", s>> /\ k = <<"release", th>> OBVIOUS
    <3>2. /\ h \in StrongTokens /\ k \in StrongTokens /\ h # k /\ Here(th, h) /\ Ref(k) = NoObj
          /\ Ref(h)' = o /\ Ref(k)' = Ref(h)
          /\ \A x \in StrongTokens : x \notin {h, k} => Ref(x)' = Ref(x)
      BY <1>5, <2>9, <2>10, <2>11, <3>1, OwnPlaces, TokenKinds
    <3> QED BY <2>1, <2>3, <2>6, <3>2, CountAdd
  <2>13. TypeOK' BY <1>0, <1>6, <2>6, <2>8, <2>12 DEF TypeOK, RefTypeOK, ErrorTypeOK, HolderTypeOK, errorVars, holderVars, Value, Error, Pointers
  <2>14. \A u \in Threads : u # th => \A x \in Own(u) : strong'[x] = strong[x] BY <1>5, <2>6, <2>8, OwnPlaces
  <2> QED BY <1>2, <2>5, <2>6, <2>7, <2>12, <2>13, <2>14, CallStep
<1> QED BY <1>7, <1>8

(* The compare-exchange that publishes an instance. *)
LEMMA RunPublishStep ==
  ASSUME IInv, NEW th \in Threads, RunPublish(th), UNCHANGED <<errorVars, holderVars>>
  PROVE  IInv'
<1>0. TypeOK /\ FramesTyped(todo) /\ FramesOK BY DEF IInv
<1>1. Calling(th, "Publish") BY DEF RunPublish
<1>2. /\ todo[th] # <<>> /\ 1 \in DOMAIN todo[th] /\ todo[th][1] \in Frames
      /\ Head(todo[th]) = todo[th][1] /\ todo[th][1].call = "Publish" /\ Arg(th) = todo[th][1].arg
  BY <1>0, <1>1 DEF Calling, FramesTyped, Arg
<1>3. PICK o, new : o = Arg(th) /\ new = Head(todo[th]).new OBVIOUS
<1>4. o \in Objects /\ new \in Objects /\ new # NoObj BY <1>2, <1>3, FrameFacts, RefCountingAssumption
<1>5. cls[o].lazy /\ Live(o)
  <2>1. FrameOK(th, 1) BY <1>0, <1>2 DEF FramesOK
  <2>2. cls[o].lazy /\ \E s \in Own(th) : strong[s] = o BY <1>2, <1>3, <2>1 DEF FrameOK
  <2>3. PICK s \in Own(th) : strong[s] = o BY <2>2
  <2>4. Ref(<<"slot", s>>) = o /\ <<"slot", s>> \in StrongTokens BY <2>3, RefIs, OwnPlaces
  <2>5. o # NoObj BY <1>4, RefCountingAssumption
  <2> QED BY <2>2, <2>4, <2>5, RefCounted
<1>6. field \in [Objects -> [m_ptr : Pointers, counts : BOOLEAN]] BY <1>0 DEF TypeOK, RefTypeOK
<1>7. CASE field[o] = NullField
  <2>1. PICK p : p = <<>> OBVIOUS
  <2>2. p \in Seq(Frames) /\ \A i \in DOMAIN p : FALSE BY <2>1
  <2>3. /\ Continue(th, p) /\ field' = [field EXCEPT ![o] = CntPtrTo(new)]
        /\ UNCHANGED <<program, cls, life, weakRef, m_refCount, m_weakRefCount, m_headMember, storage, strong, weak>>
    BY <1>3, <1>7, <2>1 DEF RunPublish
  <2>4. StackStep(th, p) BY <1>0, <1>1, <2>2, <2>3, ContinueStack
  <2>5. /\ field'[o] = CntPtrTo(new) /\ field'[o].counts /\ field'[o].m_ptr = new
        /\ \A x \in Objects : x # o => field'[x] = field[x]
    BY <1>4, <1>6, <2>3 DEF CntPtrTo
  <2>6. \A x \in StrongTokens : x \notin {<<"field", o>>, <<"release", th>>, <<"publish", th>>} => Ref(x)' = Ref(x)
    BY <1>0, <2>2, <2>3, <2>4, <2>5, StepRefs DEF errorVars, holderVars
  <2>7. /\ Ref(<<"release", th>>)' = NoObj /\ Ref(<<"publish", th>>)' = NoObj
        /\ Ref(<<"release", th>>) = NoObj /\ Ref(<<"publish", th>>) = new
    BY <1>0, <1>2, <1>3, <2>1, <2>2, <2>3, <2>4, StepRefs
  <2>8. Ref(<<"field", o>>) = NoObj /\ Ref(<<"field", o>>)' = new
    BY <1>7, <2>5, RefIs DEF NullField
  <2>9. StrongExact' /\ SamePos /\ RefsOK(th)
    <3>1. PICK h, k : h = <<"publish", th>> /\ k = <<"field", o>> OBVIOUS
    <3>2. /\ h \in StrongTokens /\ k \in StrongTokens /\ Here(th, h) /\ Here(th, k)
          /\ Ref(h)' = Ref(k) /\ Ref(k)' = Ref(h)
          /\ \A x \in StrongTokens : x \notin {h, k} => Ref(x)' = Ref(x)
      BY <1>4, <2>6, <2>7, <2>8, <3>1, OwnPlaces, TokenKinds
    <3> QED BY <2>3, <3>2, CountSwap
  <2>10. TypeOK'
    <3>1. CntPtrTo(new) \in [m_ptr : Pointers, counts : BOOLEAN] BY <1>4 DEF CntPtrTo, Pointers
    <3>2. field' \in [Objects -> [m_ptr : Pointers, counts : BOOLEAN]] BY <1>6, <2>3, <3>1
    <3> QED BY <1>0, <2>3, <3>2 DEF TypeOK, RefTypeOK, ErrorTypeOK, HolderTypeOK, errorVars, holderVars, Value, Error
  <2>11. \A x \in Objects : field'[x] = field[x] \/ FieldOK(x)'
    <3> SUFFICES FieldOK(o)' BY <2>5
    <3>1. life[o] = "alive" /\ cls[o] \in Classes BY <1>5, LiveCounter DEF Live
    <3>2. cls[o].policy = "Simple" BY <1>5, <3>1, ClassFacts
    <3>3. weakRef[o] = NoObj
      <4>1. WeakRefOK(o) BY <1>4 DEF IInv, Heap
      <4> QED BY <3>2, <4>1 DEF WeakRefOK, HasWeakRef
    <3> QED BY <1>4, <1>5, <2>3, <2>5, <3>1, <3>3 DEF FieldOK
  <2> QED BY <1>2, <2>2, <2>3, <2>4, <2>9, <2>10, <2>11, CallStep
<1>8. CASE field[o] # NullField
  <2>1. PICK r \in Frames : r = Release(new) BY <1>4, FrameKinds
  <2>2. PICK p \in Seq(Frames) : p = <<r>> /\ DOMAIN p = {1} /\ p[1] = r /\ p # <<>> BY FewCalls
  <2>3. /\ Continue(th, p)
        /\ UNCHANGED <<program, cls, life, weakRef, m_refCount, m_weakRefCount, m_headMember, storage, field, strong, weak>>
    BY <1>3, <1>8, <2>1, <2>2 DEF RunPublish
  <2>4. StackStep(th, p) BY <1>0, <1>1, <2>2, <2>3, ContinueStack
  <2>5. p[1].call = "Release" /\ p[1].arg = new BY <2>1, <2>2 DEF Release
  <2>6. \A x \in StrongTokens : x \notin {<<"release", th>>, <<"publish", th>>} => Ref(x)' = Ref(x)
    BY <1>0, <2>2, <2>3, <2>4, StepRefs DEF errorVars, holderVars
  <2>7. /\ Ref(<<"release", th>>)' = new /\ Ref(<<"publish", th>>)' = NoObj
        /\ Ref(<<"release", th>>) = NoObj /\ Ref(<<"publish", th>>) = new
    BY <1>0, <1>2, <1>3, <2>2, <2>3, <2>4, <2>5, StepRefs
  <2>9. StrongExact' /\ SamePos /\ RefsOK(th)
    <3>1. PICK h, k : h = <<"publish", th>> /\ k = <<"release", th>> OBVIOUS
    <3>2. /\ h \in StrongTokens /\ k \in StrongTokens /\ Here(th, h) /\ Here(th, k)
          /\ Ref(h)' = Ref(k) /\ Ref(k)' = Ref(h)
          /\ \A x \in StrongTokens : x \notin {h, k} => Ref(x)' = Ref(x)
      BY <2>6, <2>7, <3>1, OwnPlaces, TokenKinds
    <3> QED BY <2>3, <3>2, CountSwap
  <2>10. TypeOK' BY <1>0, <2>3 DEF TypeOK, RefTypeOK, ErrorTypeOK, HolderTypeOK, errorVars, holderVars, Value, Error
  <2> QED BY <1>2, <2>2, <2>3, <2>4, <2>5, <2>9, <2>10, CallStep
<1> QED BY <1>7, <1>8

(* A reference goes, and its count with it. *)
LEMMA CountDrop ==
  ASSUME IInv, NEW th \in Threads, UNCHANGED <<cls, weakRef>>,
         NEW h \in StrongTokens, Ref(h) # NoObj, Ref(h)' = NoObj,
         \A x \in StrongTokens : x # h => Ref(x)' = Ref(x),
         IsCounted(Ref(h)) => /\ Minus1(m_refCount', m_refCount, Counter(Ref(h)))
                              /\ m_refCount[Counter(Ref(h))] # 1,
         ~IsCounted(Ref(h)) => m_refCount' = m_refCount
  PROVE  StrongExact' /\ SamePos /\ RefsOK(th)
<1>0. TypeOK /\ StrongExact BY DEF IInv, Counts
<1>1. PICK o, b : o = Ref(h) /\ b = Counter(o) OBVIOUS
<1>2. Live(o) /\ o \in Objects /\ (IsCounted(o) => b \in Objects /\ Pos(b)) BY <1>1, RefCounted
<1>3. RefsOK(th) BY DEF RefsOK, FromHere
<1>4. /\ DOMAIN StrongAt = StrongTokens /\ DOMAIN StrongAt' = StrongTokens
      /\ StrongAt[h] = b /\ StrongAt'[h] = NoObj
      /\ \A x \in StrongTokens : x # h => StrongAt'[x] = StrongAt[x]
  BY <1>1, StrongAtAfter
<1>5. PICK f, g, n, m : f = StrongAt /\ g = StrongAt' /\ n = m_refCount /\ m = m_refCount' OBVIOUS
<1>6. NoObj \notin Objects BY RefCountingAssumption
<1>7. CASE IsCounted(o)
  <2>1. Minus1(m, n, b) /\ n[b] # 1 /\ b \in Objects /\ n[b] > 0 /\ n \in [Objects -> Nat]
    BY <1>0, <1>1, <1>2, <1>5, <1>7 DEF Pos, TypeOK, RefTypeOK
  <2>2. Exact(g, m)
    <3>1. /\ DOMAIN g = DOMAIN f /\ Exact(f, n) /\ h \in DOMAIN f /\ f[h] = b /\ g[h] \notin Objects
          /\ \A k \in DOMAIN f : k # h => g[k] = f[k]
      BY <1>0, <1>4, <1>5, <1>6 DEF StrongExact
    <3> QED BY <2>1, <3>1, ExactDrop
  <2>3. SamePos
    <3> SUFFICES ASSUME NEW x \in Objects PROVE m[x] > 0 <=> n[x] > 0 BY <1>5 DEF SamePos, Pos
    <3>1. n[x] \in Nat /\ n[b] \in Nat BY <2>1
    <3> QED BY <2>1, <3>1 DEF Minus1
  <2> QED BY <1>3, <1>5, <2>2, <2>3 DEF StrongExact
<1>8. CASE ~IsCounted(o)
  <2>1. m = n BY <1>1, <1>5, <1>8
  <2>2. b = NoObj BY <1>1, <1>2, <1>8, LiveCounter
  <2>3. Exact(g, n)
    <3>1. /\ DOMAIN g = DOMAIN f /\ Exact(f, n) /\ \A k \in DOMAIN f : g[k] = f[k]
      BY <1>0, <1>4, <1>5, <2>2 DEF StrongExact
    <3> QED BY <3>1, ExactSame
  <2>4. SamePos BY <1>5, <2>1 DEF SamePos, Pos
  <2> QED BY <1>3, <1>5, <2>1, <2>3, <2>4 DEF StrongExact
<1> QED BY <1>7, <1>8

(* Release of what others refer to, or of what nobody counts. *)
LEMMA RunReleaseStep ==
  ASSUME IInv, NEW th \in Threads, RunRelease(th), UNCHANGED <<errorVars, holderVars>>,
         ~IsCounted(Arg(th)) \/ m_refCount[Counter(Arg(th))] # 1
  PROVE  IInv'
<1>0. TypeOK /\ FramesTyped(todo) /\ FramesOK BY DEF IInv
<1>1. Calling(th, "Release") BY DEF RunRelease
<1>2. PICK o, b : o = Arg(th) /\ b = Counter(o) OBVIOUS
<1>3. PICK p : p = <<>> OBVIOUS
<1>4. p \in Seq(Frames) /\ \A i \in DOMAIN p : FALSE BY <1>3
<1>5. /\ Continue(th, p)
      /\ IsCounted(o) => m_refCount' = [m_refCount EXCEPT ![b] = @ - 1]
      /\ ~IsCounted(o) => m_refCount' = m_refCount
      /\ UNCHANGED <<program, cls, life, weakRef, m_weakRefCount, m_headMember, storage, field, strong, weak>>
  BY <1>2, <1>3 DEF RunRelease
<1>6. /\ StackStep(th, p) /\ todo[th] # <<>> /\ todo[th][1] \in Frames
      /\ todo[th][1].call = "Release" /\ Arg(th) = todo[th][1].arg
  BY <1>0, <1>1, <1>4, <1>5, ContinueStack
<1>7. o \in Objects /\ o # NoObj BY <1>2, <1>6, FrameFacts, RefCountingAssumption
<1>8. /\ Ref(<<"release", th>>) = o /\ Ref(<<"release", th>>)' = NoObj /\ <<"release", th>> \in StrongTokens
      /\ \A x \in StrongTokens : x # <<"release", th>> => Ref(x)' = Ref(x)
  <2>1. /\ \A x \in StrongTokens : x \notin {<<"release", th>>, <<"publish", th>>} => Ref(x)' = Ref(x)
        /\ Ref(<<"publish", th>>) = NoObj /\ Ref(<<"publish", th>>)' = NoObj
        /\ Ref(<<"release", th>>) = o /\ Ref(<<"release", th>>)' = NoObj /\ <<"release", th>> \in StrongTokens
    BY <1>0, <1>2, <1>3, <1>4, <1>5, <1>6, StepRefs DEF errorVars, holderVars
  <2> QED BY <2>1
<1>9. IsCounted(o) => b \in Objects /\ Pos(b) BY <1>2, <1>7, <1>8, RefCounted
<1>10. /\ m_refCount' \in [Objects -> Nat] /\ (IsCounted(o) => Minus1(m_refCount', m_refCount, b))
  BY <1>0, <1>5, <1>9 DEF TypeOK, RefTypeOK, Minus1, Pos
<1>11. StrongExact' /\ SamePos /\ RefsOK(th)
  <2>1. PICK h : h = <<"release", th>> OBVIOUS
  <2>2. /\ h \in StrongTokens /\ Ref(h) = o /\ Ref(h) # NoObj /\ Ref(h)' = NoObj
        /\ \A x \in StrongTokens : x # h => Ref(x)' = Ref(x)
    BY <1>7, <1>8, <2>1
  <2>3. UNCHANGED <<cls, weakRef>> BY <1>5
  <2>4. /\ IsCounted(Ref(h)) => /\ Minus1(m_refCount', m_refCount, Counter(Ref(h)))
                                /\ m_refCount[Counter(Ref(h))] # 1
        /\ ~IsCounted(Ref(h)) => m_refCount' = m_refCount
    BY <1>2, <1>5, <1>10, <2>2
  <2> HIDE DEF RunRelease
  <2> QED BY <2>2, <2>3, <2>4, CountDrop
<1>12. TypeOK' BY <1>0, <1>5, <1>10 DEF TypeOK, RefTypeOK, ErrorTypeOK, HolderTypeOK, errorVars, holderVars, Value, Error
<1> HIDE DEF RunRelease
<1> QED BY <1>4, <1>5, <1>6, <1>11, <1>12, CallStep
-----------------------------------------------------------------------------
(* What has an owner is alive and not counted. *)
LEMMA OwnerFact ==
  ASSUME IInv, NEW x \in OwnerTokens, OwnerAt[x] \in Objects
  PROVE  cls[OwnerAt[x]] = OwnedObject /\ life[OwnerAt[x]] = "alive"
<1>1. PICK f, n, b : f = OwnerAt /\ n = OwnerCount /\ b = OwnerAt[x] OBVIOUS
<1>2. Exact(f, n) /\ b \in Objects /\ x \in DOMAIN f /\ f[x] = b BY <1>1, OwnerIs DEF IInv, Counts, OwnerExact
<1>3. n[b] # 0 BY <1>2, ExactZero
<1> QED BY <1>1, <1>2, <1>3 DEF OwnerCount

(* The owners that a step can change. *)
LEMMA OwnerPlaces ==
  ASSUME IInv, NEW th \in Threads, NEW p \in Seq(Frames), StackStep(th, p), cls' = cls
  PROVE  /\ DOMAIN OwnerAt = OwnerTokens /\ DOMAIN OwnerAt' = OwnerTokens
         /\ <<"holder", th>> \in OwnerTokens /\ <<"raw", th>> \in OwnerTokens
         /\ <<"place", th>> \in OwnerTokens /\ <<"free", th>> \in OwnerTokens
         /\ \A x \in OwnerTokens :
              \/ \E u \in Threads : x = <<"holder", u>> /\ OwnerAt[x] = holder[u] /\ OwnerAt'[x] = holder'[u]
              \/ \E u \in Threads : x = <<"raw", u>> /\ (raw'[u] = raw[u] => OwnerAt'[x] = OwnerAt[x])
              \/ x = <<"place", th>> \/ x = <<"free", th>>
              \/ OwnerAt'[x] = OwnerAt[x]
         /\ OwnerAt[<<"place", th>>] = PlaceOf(todo[th])
         /\ OwnerAt'[<<"place", th>>] = IF Len(todo[th]) > 1 THEN PlaceOf(todo[th]) ELSE PlaceOf(p)
         /\ todo[th] = <<>> \/ todo[th][1].call # "Free" => OwnerAt[<<"free", th>>] = NoObj
         /\ todo[th] # <<>> /\ todo[th][1].call = "Free" => OwnerAt[<<"free", th>>] = todo[th][1].arg
         /\ OwnerAt'[<<"free", th>>] = IF p # <<>> /\ p[1].call = "Free" THEN p[1].arg ELSE NoObj
<1>0. FramesTyped(todo) /\ FramesOK BY DEF IInv
<1>1. \A u \in Threads : u # th => todo'[u] = todo[u] BY <1>0, StackAfter
<1>2. \A x \in OwnerTokens :
         \/ \E u \in Threads : x = <<"holder", u>> /\ OwnerAt[x] = holder[u] /\ OwnerAt'[x] = holder'[u]
         \/ \E u \in Threads : x = <<"raw", u>> /\ (raw'[u] = raw[u] => OwnerAt'[x] = OwnerAt[x])
         \/ x = <<"place", th>> \/ x = <<"free", th>>
         \/ OwnerAt'[x] = OwnerAt[x]
  <2> SUFFICES ASSUME NEW x \in OwnerTokens, x # <<"place", th>>, x # <<"free", th>>
               PROVE  \/ \E u \in Threads : x = <<"holder", u>> /\ OwnerAt[x] = holder[u] /\ OwnerAt'[x] = holder'[u]
                      \/ \E u \in Threads : x = <<"raw", u>> /\ (raw'[u] = raw[u] => OwnerAt'[x] = OwnerAt[x])
                      \/ OwnerAt'[x] = OwnerAt[x]
    OBVIOUS
  <2>1. PICK u \in Threads : x \in {<<"holder", u>>, <<"raw", u>>, <<"place", u>>, <<"free", u>>} BY OwnerIs
  <2>2. CASE x = <<"holder", u>> BY <2>2, OwnerIs
  <2>a. /\ OwnerAt[<<"raw", u>>] = IF raw[u] # NoObj /\ cls[raw[u]] = OwnedObject THEN raw[u] ELSE NoObj
        /\ OwnerAt'[<<"raw", u>>] = IF raw'[u] # NoObj /\ cls'[raw'[u]] = OwnedObject THEN raw'[u] ELSE NoObj
    BY OwnerIs
  <2>b. OwnerAt[<<"place", u>>] = PlaceOf(todo[u]) /\ OwnerAt'[<<"place", u>>] = PlaceOf(todo'[u]) BY OwnerIs
  <2>c. /\ OwnerAt[<<"free", u>>] = IF todo[u] # <<>> /\ Head(todo[u]).call = "Free" THEN Head(todo[u]).arg ELSE NoObj
        /\ OwnerAt'[<<"free", u>>] = IF todo'[u] # <<>> /\ Head(todo'[u]).call = "Free" THEN Head(todo'[u]).arg ELSE NoObj
    BY OwnerIs
  <2>3. CASE x = <<"raw", u>> BY <2>3, <2>a
  <2>4. CASE x = <<"place", u>> /\ u # th BY <1>1, <2>4, <2>b
  <2>5. CASE x = <<"free", u>> /\ u # th BY <1>1, <2>5, <2>c
  <2> QED BY <2>1, <2>2, <2>3, <2>4, <2>5
<1>3. OwnerAt'[<<"place", th>>] = IF Len(todo[th]) > 1 THEN PlaceOf(todo[th]) ELSE PlaceOf(p)
  BY <1>0, OwnerIs, PlaceAfter
<1>4. todo[th] # <<>> => Head(todo[th]) = todo[th][1] BY <1>0 DEF FramesTyped
<1>5. OwnerAt'[<<"free", th>>] = IF p # <<>> /\ p[1].call = "Free" THEN p[1].arg ELSE NoObj
  <2>a. OwnerAt'[<<"free", th>>] = IF todo'[th] # <<>> /\ Head(todo'[th]).call = "Free" THEN Head(todo'[th]).arg ELSE NoObj
    BY OwnerIs
  <2>1. CASE p # <<>> BY <1>0, <2>1, <2>a, TopAfter
  <2>2. CASE p = <<>> /\ 2 \in DOMAIN todo[th]
    <3>1. Head(todo'[th]) = todo[th][2] /\ todo'[th] # <<>> BY <1>0, <2>2, TopAfter
    <3>2. todo[th][2].call # "Free" BY <1>0, <2>2, BelowTop
    <3> QED BY <2>2, <2>a, <3>1, <3>2
  <2>3. CASE p = <<>> /\ 2 \notin DOMAIN todo[th]
    <3>1. todo'[th] = <<>> BY <1>0, <2>3, TopAfter
    <3> QED BY <2>3, <2>a, <3>1
  <2> QED BY <2>1, <2>2, <2>3
<1>6. /\ todo[th] = <<>> \/ todo[th][1].call # "Free" => OwnerAt[<<"free", th>>] = NoObj
      /\ todo[th] # <<>> /\ todo[th][1].call = "Free" => OwnerAt[<<"free", th>>] = todo[th][1].arg
  <2>1. OwnerAt[<<"free", th>>] = IF todo[th] # <<>> /\ Head(todo[th]).call = "Free" THEN Head(todo[th]).arg ELSE NoObj
    BY OwnerIs
  <2> QED BY <1>4, <2>1
<1>7. OwnerAt[<<"place", th>>] = PlaceOf(todo[th]) BY OwnerIs
<1>8. DOMAIN OwnerAt = OwnerTokens /\ DOMAIN OwnerAt' = OwnerTokens BY OwnerIs
<1>9. /\ <<"holder", th>> \in OwnerTokens /\ <<"raw", th>> \in OwnerTokens
      /\ <<"place", th>> \in OwnerTokens /\ <<"free", th>> \in OwnerTokens BY OwnerIs
<1> QED BY <1>2, <1>3, <1>5, <1>6, <1>7, <1>8, <1>9

(* Two owners swap. *)
LEMMA OwnerSwap ==
  ASSUME IInv, UNCHANGED <<cls, life>>, NEW h \in OwnerTokens, NEW k \in OwnerTokens,
         OwnerAt'[h] = OwnerAt[k], OwnerAt'[k] = OwnerAt[h],
         \A x \in OwnerTokens : x \notin {h, k} => OwnerAt'[x] = OwnerAt[x]
  PROVE  OwnerExact'
<1>1. PICK f, g, n : f = OwnerAt /\ g = OwnerAt' /\ n = OwnerCount OBVIOUS
<1>2. /\ DOMAIN g = DOMAIN f /\ DOMAIN f = OwnerTokens /\ Exact(f, n)
      /\ f[h] = g[k] /\ f[k] = g[h] /\ \A l \in DOMAIN f : l \notin {h, k} => g[l] = f[l]
  BY <1>1, OwnerIs DEF IInv, Counts, OwnerExact
<1>3. Exact(g, n) BY <1>2, ExactSwap
<1>4. OwnerCount' = n BY <1>1 DEF OwnerCount
<1> QED BY <1>1, <1>3, <1>4 DEF OwnerExact

(* A step of a holder, or of a raw pointer that owns. *)
LEMMA OwnerStep ==
  ASSUME IInv, NEW th \in Threads, NEW p \in Seq(Frames), StackStep(th, p),
         todo[th] = <<>> \/ todo[th][1].call \in {"ClearHolder", "Place"},
         \A i \in DOMAIN p : p[i].call \in {"ClearHolder", "Place", "Free"},
         KeepObjects, strong' = strong, TypeOK', OwnerExact',
         \A u \in Threads : \/ raw'[u] = raw[u]
                            \/ /\ raw[u] = NoObj \/ cls[raw[u]] = OwnedObject
                               /\ raw'[u] = NoObj \/ cls[raw'[u]] = OwnedObject,
         \A u \in Threads : u # th /\ todo[u] # <<>> => holder'[u] = holder[u],
         RestLocals(th, p),
         \A i \in DOMAIN p : FrameOK(th, i)'
  PROVE  IInv'
<1>0. FramesTyped(todo) /\ FramesOK BY DEF IInv
<1>1. UNCHANGED <<program, cls, life, weakRef, m_refCount, m_weakRefCount, m_headMember, storage, field,
                  strong, weak, handled, reported, maybe>>
  BY DEF KeepObjects, errorVars
<1>2. \A x \in StrongTokens : Ref(x)' = Ref(x)
  <2>1. 1 \in DOMAIN p \/ p = <<>> OBVIOUS
  <2>2. /\ Ref(<<"release", th>>) = NoObj /\ Ref(<<"release", th>>)' = NoObj
        /\ Ref(<<"publish", th>>) = NoObj /\ Ref(<<"publish", th>>)' = NoObj
    BY <1>0, <1>1, <2>1, StepRefs
  <2> SUFFICES ASSUME NEW x \in StrongTokens PROVE Ref(x)' = Ref(x) OBVIOUS
  <2>3. CASE \E u \in Threads : x = <<"raw", u>> BY <1>1, <2>3, RefIs
  <2>4. CASE ~\E u \in Threads : x = <<"raw", u>> BY <1>0, <1>1, <2>2, <2>4, StepRefs
  <2> QED BY <2>3, <2>4
<1>3. StrongExact' /\ SamePos /\ RefsOK(th) BY <1>1, <1>2, CountSame
<1>4. WeakExact' BY <1>1, <1>3, WeakKept
<1>5. Counts' BY <1>3, <1>4 DEF Counts
<1>6. QuietStack(th, p) BY DEF QuietStack, QuietCalls
<1>7. \A u \in Threads : u # th /\ todo[u] # <<>> => SameLocals(u) BY <1>1 DEF SameLocals
<1>8. /\ \A b \in Objects : Pos(b)' <=> Pos(b)
      /\ \A h \in StrongTokens : FromHere(th, h) /\ (Ref(h)' = Ref(h) \/ Ref(h)' = NoObj \/ Live(Ref(h)'))
  BY <1>3 DEF SamePos, RefsOK
<1> QED BY <1>1, <1>5, <1>6, <1>7, <1>8, QuietStep

(* THolder::Clear empties the holder before it frees. *)
LEMMA RunClearHolderStep ==
  ASSUME IInv, NEW th \in Threads, RunClearHolder(th)
  PROVE  IInv'
<1>0. TypeOK /\ FramesTyped(todo) /\ FramesOK BY DEF IInv
<1>1. Calling(th, "ClearHolder") BY DEF RunClearHolder
<1>2. holder \in [Threads -> Pointers] /\ holder[th] \in Pointers BY <1>0 DEF TypeOK, HolderTypeOK
<1>3. PICK o : o = holder[th] OBVIOUS
<1>4. PICK p \in Seq(Frames) : /\ Continue(th, p)
                               /\ o = NoObj => p = <<>>
                               /\ o # NoObj => p # <<>> /\ DOMAIN p = {1} /\ p[1] = Free(o) /\ Len(p) = 1
                               /\ \A i \in DOMAIN p : p[i] = Free(o) /\ i = 1
  <2>1. CASE o = NoObj
    <3>1. PICK p : p = <<>> OBVIOUS
    <3>2. p \in Seq(Frames) /\ \A i \in DOMAIN p : FALSE BY <3>1
    <3>3. Continue(th, p) BY <1>3, <2>1, <3>1 DEF RunClearHolder
    <3> HIDE DEF RunClearHolder
    <3> QED BY <2>1, <3>1, <3>2, <3>3
  <2>2. CASE o # NoObj
    <3>1. o \in Objects BY <1>2, <1>3, <2>2 DEF Pointers
    <3>2. PICK f \in Frames : f = Free(o) BY <3>1, FrameKinds
    <3>3. PICK p \in Seq(Frames) : p = <<f>> /\ DOMAIN p = {1} /\ p[1] = f /\ p # <<>> /\ Len(p) = 1 BY FewCalls
    <3>4. Continue(th, p) BY <1>3, <2>2, <3>2, <3>3 DEF RunClearHolder
    <3> HIDE DEF RunClearHolder
    <3> QED BY <2>2, <3>2, <3>3, <3>4
  <2> QED BY <2>1, <2>2
<1>5. /\ StackStep(th, p) /\ todo[th] # <<>> /\ 1 \in DOMAIN todo[th] /\ todo[th][1] \in Frames
      /\ todo[th][1].call = "ClearHolder" /\ todo[th] \in Seq(Frames)
  BY <1>0, <1>1, <1>4, ContinueStack DEF FramesTyped
<1>6. /\ holder' = [holder EXCEPT ![th] = NoObj] /\ raw' = raw /\ strong' = strong /\ KeepObjects
      /\ UNCHANGED <<cls, life>>
  BY DEF RunClearHolder, KeepObjects
<1> HIDE DEF RunClearHolder
<1>7. Free(o).call = "Free" /\ Free(o).arg = o BY DEF Free
<1>8. /\ OwnerAt[<<"free", th>>] = NoObj /\ OwnerAt'[<<"free", th>>] = o
      /\ OwnerAt[<<"holder", th>>] = o /\ OwnerAt'[<<"holder", th>>] = NoObj
      /\ OwnerAt'[<<"place", th>>] = OwnerAt[<<"place", th>>]
  <2>1. OwnerAt[<<"free", th>>] = NoObj /\ OwnerAt'[<<"free", th>>] = o
    BY <1>4, <1>5, <1>6, <1>7, OwnerPlaces
  <2>2. OwnerAt[<<"holder", th>>] = o /\ OwnerAt'[<<"holder", th>>] = NoObj
    <3>1. holder'[th] = NoObj BY <1>2, <1>6
    <3>2. OwnerAt[<<"holder", th>>] = holder[th] /\ OwnerAt'[<<"holder", th>>] = holder'[th] BY OwnerIs
    <3> QED BY <1>3, <3>1, <3>2
  <2>3. PlaceOf(p) = NoObj BY <1>4, <1>7 DEF PlaceOf, Last1
  <2>4. Len(todo[th]) = 1 => PlaceOf(todo[th]) = NoObj BY <1>5 DEF PlaceOf, Last1
  <2>5. Len(todo[th]) > 1 \/ Len(todo[th]) = 1
    <3>1. PICK s \in Seq(Frames) : s = todo[th] /\ s # <<>> BY <1>5
    <3>2. PICK n \in Nat : n = Len(s) /\ n # 0 BY <3>1
    <3>3. n > 1 \/ n = 1 BY <3>2
    <3> QED BY <3>1, <3>2, <3>3, Zenon
  <2> QED BY <1>5, <1>6, <2>1, <2>2, <2>3, <2>4, <2>5, OwnerPlaces
<1>9. OwnerExact'
  <2>1. PICK h, k : h = <<"holder", th>> /\ k = <<"free", th>> OBVIOUS
  <2>2. \A x \in OwnerTokens : x \notin {h, k} => OwnerAt'[x] = OwnerAt[x]
    BY <1>2, <1>5, <1>6, <1>8, <2>1, OwnerPlaces
  <2>3. /\ h \in OwnerTokens /\ k \in OwnerTokens /\ OwnerAt'[h] = OwnerAt[k] /\ OwnerAt'[k] = OwnerAt[h]
    BY <1>8, <2>1, OwnerIs
  <2> QED BY <1>6, <2>2, <2>3, OwnerSwap
<1>10. TypeOK' BY <1>0, <1>6 DEF KeepObjects, TypeOK, RefTypeOK, ErrorTypeOK, HolderTypeOK, errorVars, Value, Error, Pointers
<1>11. RestLocals(th, p) BY <1>2, <1>5, <1>6 DEF RestLocals
<1>12. \A i \in DOMAIN p : FrameOK(th, i)'
  <2> SUFFICES ASSUME NEW i \in DOMAIN p PROVE FrameOK(th, i)' OBVIOUS
  <2>1. todo'[th][i].call = "Free" /\ i = 1 BY <1>0, <1>4, <1>5, <1>7, StackAfter DEF Stacked
  <2> QED BY <2>1, ReleaseFrame
<1>13. /\ \A i \in DOMAIN p : p[i].call \in {"ClearHolder", "Place", "Free"}
       /\ \A u \in Threads : u # th /\ todo[u] # <<>> => holder'[u] = holder[u]
  BY <1>2, <1>4, <1>6, <1>7
<1> QED BY <1>5, <1>6, <1>9, <1>10, <1>11, <1>12, <1>13, OwnerStep

(* THolder::Place *)
LEMMA RunPlaceStep ==
  ASSUME IInv, NEW th \in Threads, RunPlace(th)
  PROVE  IInv'
<1>0. TypeOK /\ FramesTyped(todo) /\ FramesOK BY DEF IInv
<1>1. Calling(th, "Place") BY DEF RunPlace
<1>2. holder \in [Threads -> Pointers] BY <1>0 DEF TypeOK, HolderTypeOK
<1>3. PICK o : o = Arg(th) OBVIOUS
<1>4. PICK p : p = <<>> OBVIOUS
<1>5. p \in Seq(Frames) /\ Continue(th, p) /\ \A i \in DOMAIN p : FALSE BY <1>4 DEF RunPlace
<1>6. /\ StackStep(th, p) /\ todo[th] # <<>> /\ 1 \in DOMAIN todo[th] /\ todo[th][1] \in Frames
      /\ todo[th][1].call = "Place" /\ todo[th] \in Seq(Frames) /\ o = todo[th][1].arg
  BY <1>0, <1>1, <1>3, <1>5, ContinueStack DEF FramesTyped
<1>7. o \in Objects BY <1>6, FrameFacts
<1>8. Len(todo[th]) = 1 /\ holder[th] = NoObj
  <2>1. FrameOK(th, 1) BY <1>0, <1>6 DEF FramesOK
  <2> QED BY <1>6, <2>1 DEF FrameOK, ClearHolder
<1>9. /\ holder' = [holder EXCEPT ![th] = o] /\ raw' = raw /\ strong' = strong /\ KeepObjects
      /\ UNCHANGED <<cls, life>>
  BY <1>3 DEF RunPlace, KeepObjects
<1> HIDE DEF RunPlace
<1>10. OwnerExact'
  <2>1. PICK h, k : h = <<"holder", th>> /\ k = <<"place", th>> OBVIOUS
  <2>2. PlaceOf(p) = NoObj /\ PlaceOf(todo[th]) = o BY <1>4, <1>6, <1>8 DEF PlaceOf, Last1
  <2>3. /\ OwnerAt[<<"place", th>>] = o /\ OwnerAt'[<<"place", th>>] = NoObj
        /\ OwnerAt[<<"free", th>>] = NoObj /\ OwnerAt'[<<"free", th>>] = NoObj
    <3>1. /\ OwnerAt[<<"place", th>>] = PlaceOf(todo[th])
          /\ OwnerAt'[<<"place", th>>] = IF Len(todo[th]) > 1 THEN PlaceOf(todo[th]) ELSE PlaceOf(p)
      BY <1>5, <1>6, <1>9, OwnerPlaces
    <3>2. OwnerAt[<<"free", th>>] = NoObj /\ OwnerAt'[<<"free", th>>] = NoObj
      BY <1>4, <1>5, <1>6, <1>9, OwnerPlaces
    <3>3. ~(Len(todo[th]) > 1) BY <1>8
    <3> QED BY <2>2, <3>1, <3>2, <3>3
  <2>4. OwnerAt[<<"holder", th>>] = NoObj /\ OwnerAt'[<<"holder", th>>] = o
    <3>1. holder'[th] = o BY <1>2, <1>9
    <3>2. OwnerAt[<<"holder", th>>] = holder[th] /\ OwnerAt'[<<"holder", th>>] = holder'[th] BY OwnerIs
    <3> QED BY <1>8, <3>1, <3>2
  <2>5. \A x \in OwnerTokens : x \notin {h, k} => OwnerAt'[x] = OwnerAt[x]
    BY <1>2, <1>5, <1>6, <1>9, <2>1, <2>3, OwnerPlaces
  <2>6. /\ h \in OwnerTokens /\ k \in OwnerTokens /\ OwnerAt'[h] = OwnerAt[k] /\ OwnerAt'[k] = OwnerAt[h]
    BY <2>1, <2>3, <2>4, OwnerIs
  <2> QED BY <1>9, <2>5, <2>6, OwnerSwap
<1>11. TypeOK'
  BY <1>0, <1>7, <1>9 DEF KeepObjects, TypeOK, RefTypeOK, ErrorTypeOK, HolderTypeOK, errorVars, Value, Error, Pointers
<1>12. RestLocals(th, p) BY <1>6 DEF RestLocals
<1>13. \A u \in Threads : u # th /\ todo[u] # <<>> => holder'[u] = holder[u] BY <1>2, <1>9
<1> QED BY <1>5, <1>6, <1>9, <1>10, <1>11, <1>12, <1>13, OwnerStep

(* THolder::Clear and reset, called by the user. *)
LEMMA ResetHolderStep ==
  ASSUME IInv, NEW th \in Threads, ResetHolder(th)
  PROVE  IInv'
<1>0. TypeOK /\ FramesTyped(todo) BY DEF IInv
<1>1. ClearHolder \in Frames /\ ClearHolder.call = "ClearHolder" BY FrameKinds DEF ClearHolder
<1>2. PICK p \in Seq(Frames) : p = <<ClearHolder>> /\ DOMAIN p = {1} /\ p[1] = ClearHolder /\ Len(p) = 1 BY <1>1, FewCalls
<1>3. /\ InUserCode(th) /\ Start(th, p) /\ UNCHANGED <<holder, raw, strong, cls, life>> /\ KeepObjects
  BY <1>2 DEF ResetHolder, holderVars, KeepObjects
<1>4. StackStep(th, p) /\ todo[th] = <<>> BY <1>3, StartStack
<1> HIDE DEF ResetHolder
<1>5. OwnerExact'
  <2>1. PICK h, k : h = <<"holder", th>> /\ k = <<"holder", th>> OBVIOUS
  <2>2. PlaceOf(p) = NoObj /\ PlaceOf(todo[th]) = NoObj BY <1>1, <1>2, <1>4 DEF PlaceOf, Last1
  <2>3. /\ OwnerAt[<<"place", th>>] = NoObj /\ OwnerAt'[<<"place", th>>] = NoObj
        /\ OwnerAt[<<"free", th>>] = NoObj /\ OwnerAt'[<<"free", th>>] = NoObj
    BY <1>1, <1>2, <1>3, <1>4, <2>2, OwnerPlaces
  <2>4. \A x \in OwnerTokens : OwnerAt'[x] = OwnerAt[x] BY <1>3, <1>4, <2>3, OwnerPlaces
  <2>5. h \in OwnerTokens /\ k \in OwnerTokens BY <2>1, OwnerIs
  <2> QED BY <1>3, <2>1, <2>4, <2>5, OwnerSwap
<1>6. TypeOK' BY <1>0, <1>3 DEF KeepObjects, TypeOK, RefTypeOK, ErrorTypeOK, HolderTypeOK, errorVars, Value, Error, Pointers
<1>7. RestLocals(th, p) BY <1>4 DEF RestLocals
<1>8. \A i \in DOMAIN p : FrameOK(th, i)'
  <2> SUFFICES ASSUME NEW i \in DOMAIN p PROVE FrameOK(th, i)' OBVIOUS
  <2>0. i = 1 /\ p[i].call = "ClearHolder" BY <1>1, <1>2
  <2>1. todo'[th][i].call = "ClearHolder" /\ i = 1 BY <1>0, <1>4, <2>0, StackAfter DEF Stacked
  <2> QED BY <2>1, ReleaseFrame
<1> QED BY <1>1, <1>2, <1>3, <1>4, <1>5, <1>6, <1>7, <1>8, OwnerStep

(* A step of user code on holders that makes no call. *)
LEMMA OwnerNoCall ==
  ASSUME IInv, NEW th \in Threads, InUserCode(th), todo' = todo, KeepObjects, strong' = strong, TypeOK',
         NEW h \in OwnerTokens, NEW k \in OwnerTokens, OwnerAt'[h] = OwnerAt[k], OwnerAt'[k] = OwnerAt[h],
         \A x \in OwnerTokens : x \in {h, k} \/ OwnerAt'[x] = OwnerAt[x],
         \A u \in Threads : \/ raw'[u] = raw[u]
                            \/ /\ raw[u] = NoObj \/ cls[raw[u]] = OwnedObject
                               /\ raw'[u] = NoObj \/ cls[raw'[u]] = OwnedObject,
         \A u \in Threads : todo[u] # <<>> => holder'[u] = holder[u]
  PROVE  IInv'
<1>0. FramesTyped(todo) BY DEF IInv
<1>1. PICK p \in Seq(Frames) : p = <<>> /\ StackStep(th, p) /\ todo[th] = <<>> /\ \A i \in DOMAIN p : FALSE
  BY <1>0, NoCallStack
<1>2. UNCHANGED <<cls, life>> BY DEF KeepObjects
<1>3. OwnerExact' BY <1>2, OwnerSwap
<1>4. RestLocals(th, p) BY <1>1 DEF RestLocals
<1> QED BY <1>1, <1>3, <1>4, OwnerStep

(* The owners around a step of user code that makes no call. *)
LEMMA NoCallOwners ==
  ASSUME IInv, NEW th \in Threads, InUserCode(th), todo' = todo, cls' = cls
  PROVE  \A x \in OwnerTokens :
            \/ \E u \in Threads : x = <<"holder", u>> /\ OwnerAt[x] = holder[u] /\ OwnerAt'[x] = holder'[u]
            \/ \E u \in Threads : x = <<"raw", u>> /\ (raw'[u] = raw[u] => OwnerAt'[x] = OwnerAt[x])
            \/ OwnerAt'[x] = OwnerAt[x]
<1>0. FramesTyped(todo) BY DEF IInv
<1>1. PICK p \in Seq(Frames) : p = <<>> /\ StackStep(th, p) /\ todo[th] = <<>> /\ \A i \in DOMAIN p : FALSE
  BY <1>0, NoCallStack
<1>2. PlaceOf(p) = NoObj /\ PlaceOf(todo[th]) = NoObj BY <1>1 DEF PlaceOf
<1>3. ~(Len(todo[th]) > 1) BY <1>1
<1>4. /\ OwnerAt[<<"place", th>>] = OwnerAt'[<<"place", th>>]
      /\ OwnerAt[<<"free", th>>] = OwnerAt'[<<"free", th>>]
  BY <1>1, <1>2, <1>3, OwnerPlaces
<1> QED BY <1>1, <1>4, OwnerPlaces

(* THolder::Detach *)
LEMMA DetachHolderStep ==
  ASSUME IInv, NEW th \in Threads, DetachHolder(th)
  PROVE  IInv'
<1>0. TypeOK BY DEF IInv
<1>1. holder \in [Threads -> Pointers] /\ raw \in [Threads -> Pointers] BY <1>0 DEF TypeOK, HolderTypeOK
<1>2. PICK o : o = holder[th] OBVIOUS
<1>3. /\ InUserCode(th) /\ o # NoObj /\ raw[th] = NoObj /\ raw' = [raw EXCEPT ![th] = o]
      /\ holder' = [holder EXCEPT ![th] = NoObj] /\ KeepObjects /\ UNCHANGED <<strong, todo>> /\ cls' = cls
  BY <1>2 DEF DetachHolder, KeepObjects
<1> HIDE DEF DetachHolder
<1>4. o \in Objects BY <1>1, <1>2, <1>3 DEF Pointers
<1>5. /\ holder'[th] = NoObj /\ \A u \in Threads : u # th => holder'[u] = holder[u]
      /\ raw'[th] = o /\ \A u \in Threads : u # th => raw'[u] = raw[u]
  BY <1>1, <1>3
<1>6. OwnerAt[<<"holder", th>>] = o /\ OwnerAt'[<<"holder", th>>] = NoObj /\ <<"holder", th>> \in OwnerTokens
  <2>1. OwnerAt[<<"holder", th>>] = holder[th] /\ OwnerAt'[<<"holder", th>>] = holder'[th]
        /\ <<"holder", th>> \in OwnerTokens BY OwnerIs
  <2> QED BY <1>2, <1>5, <2>1
<1>7. cls[o] = OwnedObject BY <1>4, <1>6, OwnerFact
<1>8. OwnerAt[<<"raw", th>>] = NoObj /\ OwnerAt'[<<"raw", th>>] = o /\ <<"raw", th>> \in OwnerTokens
  <2>1. /\ OwnerAt[<<"raw", th>>] = IF raw[th] # NoObj /\ cls[raw[th]] = OwnedObject THEN raw[th] ELSE NoObj
        /\ OwnerAt'[<<"raw", th>>] = IF raw'[th] # NoObj /\ cls'[raw'[th]] = OwnedObject THEN raw'[th] ELSE NoObj
        /\ <<"raw", th>> \in OwnerTokens
    BY OwnerIs
  <2> QED BY <1>3, <1>5, <1>7, <2>1
<1>9. TypeOK'
  BY <1>0, <1>3, <1>4 DEF KeepObjects, TypeOK, RefTypeOK, ErrorTypeOK, HolderTypeOK, errorVars, Value, Error, Pointers
<1>10. \A x \in OwnerTokens : x \in {<<"holder", th>>, <<"raw", th>>} \/ OwnerAt'[x] = OwnerAt[x]
  BY <1>3, <1>5, NoCallOwners
<1>11. PICK h, k : h = <<"holder", th>> /\ k = <<"raw", th>> OBVIOUS
<1>12. /\ h \in OwnerTokens /\ k \in OwnerTokens /\ OwnerAt'[h] = OwnerAt[k] /\ OwnerAt'[k] = OwnerAt[h]
       /\ \A x \in OwnerTokens : x \in {h, k} \/ OwnerAt'[x] = OwnerAt[x]
  BY <1>6, <1>8, <1>10, <1>11
<1>13. /\ \A u \in Threads : \/ raw'[u] = raw[u]
                             \/ /\ raw[u] = NoObj \/ cls[raw[u]] = OwnedObject
                                /\ raw'[u] = NoObj \/ cls[raw'[u]] = OwnedObject
       /\ \A u \in Threads : todo[u] # <<>> => holder'[u] = holder[u]
  BY <1>3, <1>5, <1>7 DEF InUserCode
<1>14. todo' = todo /\ strong' = strong BY <1>3
<1> QED BY <1>3, <1>9, <1>12, <1>13, <1>14, OwnerNoCall

(* THolder::Swap *)
LEMMA SwapHoldersStep ==
  ASSUME IInv, NEW th \in Threads, NEW other \in Threads, SwapHolders(th, other)
  PROVE  IInv'
<1>0. TypeOK BY DEF IInv
<1>1. holder \in [Threads -> Pointers] /\ holder[th] \in Pointers /\ holder[other] \in Pointers
  BY <1>0 DEF TypeOK, HolderTypeOK
<1>2. /\ InUserCode(th) /\ InUserCode(other) /\ raw' = raw /\ th # other
      /\ holder' = [holder EXCEPT ![th] = holder[other], ![other] = holder[th]]
      /\ KeepObjects /\ UNCHANGED <<strong, todo>> /\ cls' = cls
  BY DEF SwapHolders, KeepObjects
<1> HIDE DEF SwapHolders
<1>3. /\ holder'[th] = holder[other] /\ holder'[other] = holder[th]
      /\ \A u \in Threads : u \notin {th, other} => holder'[u] = holder[u]
  BY <1>1, <1>2
<1>4. \A u \in Threads : OwnerAt[<<"holder", u>>] = holder[u] /\ OwnerAt'[<<"holder", u>>] = holder'[u]
                         /\ <<"holder", u>> \in OwnerTokens
  BY OwnerIs
<1>5. TypeOK'
  BY <1>0, <1>1, <1>2 DEF KeepObjects, TypeOK, RefTypeOK, ErrorTypeOK, HolderTypeOK, errorVars, Value, Error
<1>6. \A x \in OwnerTokens : x \in {<<"holder", th>>, <<"holder", other>>} \/ OwnerAt'[x] = OwnerAt[x]
  BY <1>2, <1>3, NoCallOwners
<1>7. PICK h, k : h = <<"holder", th>> /\ k = <<"holder", other>> OBVIOUS
<1>8. /\ h \in OwnerTokens /\ k \in OwnerTokens /\ OwnerAt'[h] = OwnerAt[k] /\ OwnerAt'[k] = OwnerAt[h]
      /\ \A x \in OwnerTokens : x \in {h, k} \/ OwnerAt'[x] = OwnerAt[x]
  BY <1>3, <1>4, <1>6, <1>7
<1>9. \A u \in Threads : todo[u] # <<>> => holder'[u] = holder[u] BY <1>2, <1>3 DEF InUserCode
<1>10. todo' = todo /\ strong' = strong BY <1>2
<1> QED BY <1>2, <1>5, <1>8, <1>9, <1>10, OwnerNoCall

(* Attach: Clear, then Place of what the place h gave up. *)
LEMMA AttachStep ==
  ASSUME IInv, NEW th \in Threads, InUserCode(th), NEW o \in Objects, Start(th, Attach(o)),
         KeepObjects, strong' = strong, TypeOK', NEW h \in OwnerTokens,
         h[1] \in {"holder", "raw"}, OwnerAt[h] = o, OwnerAt'[h] = NoObj,
         \A x \in OwnerTokens : \/ x = h
                                \/ \E u \in Threads : x = <<"holder", u>> /\ holder'[u] = holder[u]
                                \/ \E u \in Threads : x = <<"raw", u>> /\ raw'[u] = raw[u]
                                \/ x[1] \notin {"holder", "raw"},
         \A u \in Threads : \/ raw'[u] = raw[u]
                            \/ /\ raw[u] = NoObj \/ cls[raw[u]] = OwnedObject
                               /\ raw'[u] = NoObj \/ cls[raw'[u]] = OwnedObject,
         \A u \in Threads : todo[u] # <<>> => holder'[u] = holder[u]
  PROVE  IInv'
<1>0. FramesTyped(todo) BY DEF IInv
<1>1. ClearHolder \in Frames /\ ClearHolder.call = "ClearHolder" BY FrameKinds DEF ClearHolder
<1>2. PICK f \in Frames : f = Place(o) BY FrameKinds
<1>3. PICK p \in Seq(Frames) : p = <<ClearHolder, f>> /\ p # <<>> /\ Len(p) = 2 /\ DOMAIN p = {1, 2}
                               /\ p[1] = ClearHolder /\ p[2] = f
  <2>1. PICK c \in Frames : c = ClearHolder BY <1>1
  <2>2. PICK p : p = <<c, f>> OBVIOUS
  <2>3. p \in Seq(Frames) /\ p # <<>> /\ Len(p) = 2 /\ DOMAIN p = {1, 2} /\ p[1] = c /\ p[2] = f
    BY <2>2, FewCalls
  <2> QED BY <2>1, <2>2, <2>3
<1>4. Start(th, p) BY <1>2, <1>3 DEF Attach
<1>5. StackStep(th, p) /\ todo[th] = <<>> BY <1>4, StartStack
<1>6. f.call = "Place" /\ f.arg = o BY <1>2 DEF Place
<1>7. UNCHANGED <<cls, life>> BY DEF KeepObjects
<1>8. OwnerExact'
  <2>1. PlaceOf(p) = o /\ PlaceOf(todo[th]) = NoObj BY <1>3, <1>5, <1>6 DEF PlaceOf, Last1
  <2>2. ~(Len(todo[th]) > 1) BY <1>5
  <2>3. PICK k : k = <<"place", th>> OBVIOUS
  <2>4. /\ OwnerAt[k] = NoObj /\ OwnerAt'[k] = o /\ k \in OwnerTokens
        /\ OwnerAt[<<"free", th>>] = NoObj /\ OwnerAt'[<<"free", th>>] = NoObj
    BY <1>1, <1>3, <1>5, <1>7, <2>1, <2>2, <2>3, OwnerPlaces
  <2>5. \A x \in OwnerTokens : x \notin {h, k} => OwnerAt'[x] = OwnerAt[x]
    <3> SUFFICES ASSUME NEW x \in OwnerTokens, x # h, x # k PROVE OwnerAt'[x] = OwnerAt[x] OBVIOUS
    <3>0. PICK u \in Threads : x \in {<<"holder", u>>, <<"raw", u>>, <<"place", u>>, <<"free", u>>} BY OwnerIs
    <3>1. CASE x = <<"holder", u>>
      <4>1. holder'[u] = holder[u] BY <3>1
      <4>2. OwnerAt[x] = holder[u] /\ OwnerAt'[x] = holder'[u] BY <3>1, OwnerIs
      <4> QED BY <4>1, <4>2
    <3>2. CASE x = <<"raw", u>>
      <4>1. raw'[u] = raw[u] BY <3>2
      <4>2. raw'[u] = raw[u] => OwnerAt'[x] = OwnerAt[x] BY <1>5, <1>7, <3>2, OwnerPlaces
      <4> QED BY <4>1, <4>2
    <3>3. CASE x \in {<<"place", u>>, <<"free", u>>}
      <4>1. CASE u = th BY <2>3, <2>4, <3>3, <4>1
      <4>2. CASE u # th
        <5>1. todo'[u] = todo[u] BY <1>0, <1>5, <4>2, StackAfter
        <5>2. CASE x = <<"place", u>>
          <6>1. OwnerAt[x] = PlaceOf(todo[u]) /\ OwnerAt'[x] = PlaceOf(todo'[u]) BY <5>2, OwnerIs
          <6> QED BY <5>1, <6>1
        <5>3. CASE x = <<"free", u>>
          <6>1. /\ OwnerAt[x] = IF todo[u] # <<>> /\ Head(todo[u]).call = "Free" THEN Head(todo[u]).arg ELSE NoObj
                /\ OwnerAt'[x] = IF todo'[u] # <<>> /\ Head(todo'[u]).call = "Free" THEN Head(todo'[u]).arg ELSE NoObj
            BY <5>3, OwnerIs
          <6> QED BY <5>1, <6>1
        <5> QED BY <3>3, <5>2, <5>3
      <4> QED BY <4>1, <4>2
    <3> QED BY <3>0, <3>1, <3>2, <3>3
  <2> QED BY <1>7, <2>4, <2>5, OwnerSwap
<1>9. RestLocals(th, p) BY <1>5 DEF RestLocals
<1>10. \A i \in DOMAIN p : FrameOK(th, i)'
  <2>1. /\ todo'[th][1] = ClearHolder /\ todo'[th][2] = f /\ Len(todo'[th]) = 2
    <3>1. Stacked(todo[th], p, todo'[th]) BY <1>0, <1>5, StackAfter
    <3>2. 1 \in DOMAIN p /\ 2 \in DOMAIN p BY <1>3
    <3> QED BY <1>3, <1>5, <3>1, <3>2 DEF Stacked
  <2>2. FrameOK(th, 1)' BY <1>1, <2>1, ReleaseFrame
  <2>3. FrameOK(th, 2)' BY <1>6, <2>1 DEF FrameOK
  <2> QED BY <1>3, <2>2, <2>3
<1>11. \A i \in DOMAIN p : p[i].call \in {"ClearHolder", "Place", "Free"} BY <1>1, <1>3, <1>6
<1> QED BY <1>5, <1>8, <1>9, <1>10, <1>11, OwnerStep

(* THolder::Attach *)
LEMMA AttachHolderStep ==
  ASSUME IInv, NEW th \in Threads, AttachHolder(th)
  PROVE  IInv'
<1>0. TypeOK BY DEF IInv
<1>1. raw \in [Threads -> Pointers] BY <1>0 DEF TypeOK, HolderTypeOK
<1>2. PICK o : o = raw[th] OBVIOUS
<1>3. /\ InUserCode(th) /\ o # NoObj /\ cls[o] = OwnedObject /\ raw' = [raw EXCEPT ![th] = NoObj]
      /\ Start(th, Attach(o)) /\ KeepObjects /\ strong' = strong /\ holder' = holder /\ cls' = cls
  BY <1>2 DEF AttachHolder, KeepObjects
<1> HIDE DEF AttachHolder
<1>4. o \in Objects BY <1>1, <1>2, <1>3 DEF Pointers
<1>5. raw'[th] = NoObj /\ \A u \in Threads : u # th => raw'[u] = raw[u] BY <1>1, <1>3
<1>6. TypeOK'
  BY <1>0, <1>3, <1>4 DEF KeepObjects, TypeOK, RefTypeOK, ErrorTypeOK, HolderTypeOK, errorVars, Value, Error, Pointers
<1>7. PICK h : h = <<"raw", th>> OBVIOUS
<1>8. h \in OwnerTokens /\ h[1] \in {"holder", "raw"} /\ OwnerAt[h] = o /\ OwnerAt'[h] = NoObj
  <2>1. /\ OwnerAt[h] = IF raw[th] # NoObj /\ cls[raw[th]] = OwnedObject THEN raw[th] ELSE NoObj
        /\ OwnerAt'[h] = IF raw'[th] # NoObj /\ cls'[raw'[th]] = OwnedObject THEN raw'[th] ELSE NoObj
        /\ h \in OwnerTokens
    BY <1>7, OwnerIs
  <2> QED BY <1>2, <1>3, <1>5, <1>7, <2>1
<1>9. \A x \in OwnerTokens : \/ x = h
                             \/ \E u \in Threads : x = <<"holder", u>> /\ holder'[u] = holder[u]
                             \/ \E u \in Threads : x = <<"raw", u>> /\ raw'[u] = raw[u]
                             \/ x[1] \notin {"holder", "raw"}
  BY <1>3, <1>5, <1>7, OwnerIs
<1>10. /\ \A u \in Threads : \/ raw'[u] = raw[u]
                             \/ /\ raw[u] = NoObj \/ cls[raw[u]] = OwnedObject
                                /\ raw'[u] = NoObj \/ cls[raw'[u]] = OwnedObject
       /\ \A u \in Threads : todo[u] # <<>> => holder'[u] = holder[u]
  BY <1>2, <1>3, <1>5
<1> QED BY <1>3, <1>4, <1>6, <1>8, <1>9, <1>10, AttachStep

(* THolder::TransferFrom *)
LEMMA TransferFromStep ==
  ASSUME IInv, NEW th \in Threads, NEW other \in Threads, TransferFrom(th, other)
  PROVE  IInv'
<1>0. TypeOK BY DEF IInv
<1>1. holder \in [Threads -> Pointers] BY <1>0 DEF TypeOK, HolderTypeOK
<1>2. PICK o : o = holder[other] OBVIOUS
<1>3. /\ InUserCode(th) /\ InUserCode(other) /\ o # NoObj /\ holder' = [holder EXCEPT ![other] = NoObj]
      /\ Start(th, Attach(o)) /\ KeepObjects /\ strong' = strong /\ raw' = raw /\ cls' = cls
  BY <1>2 DEF TransferFrom, KeepObjects
<1> HIDE DEF TransferFrom
<1>4. o \in Objects BY <1>1, <1>2, <1>3 DEF Pointers
<1>5. holder'[other] = NoObj /\ \A u \in Threads : u # other => holder'[u] = holder[u] BY <1>1, <1>3
<1>6. TypeOK'
  BY <1>0, <1>3, <1>4 DEF KeepObjects, TypeOK, RefTypeOK, ErrorTypeOK, HolderTypeOK, errorVars, Value, Error, Pointers
<1>7. PICK h : h = <<"holder", other>> OBVIOUS
<1>8. h \in OwnerTokens /\ h[1] \in {"holder", "raw"} /\ OwnerAt[h] = o /\ OwnerAt'[h] = NoObj
  <2>1. OwnerAt[h] = holder[other] /\ OwnerAt'[h] = holder'[other] /\ h \in OwnerTokens BY <1>7, OwnerIs
  <2> QED BY <1>2, <1>5, <1>7, <2>1
<1>9. \A x \in OwnerTokens : \/ x = h
                             \/ \E u \in Threads : x = <<"holder", u>> /\ holder'[u] = holder[u]
                             \/ \E u \in Threads : x = <<"raw", u>> /\ raw'[u] = raw[u]
                             \/ x[1] \notin {"holder", "raw"}
  BY <1>3, <1>5, <1>7, OwnerIs
<1>10. \A u \in Threads : todo[u] # <<>> => holder'[u] = holder[u] BY <1>3, <1>5 DEF InUserCode
<1> QED BY <1>3, <1>4, <1>6, <1>8, <1>9, <1>10, AttachStep
-----------------------------------------------------------------------------
(* A member waits to be added to its swarm. *)
LEMMA AddSwarmMemberFrame ==
  ASSUME IInv, NEW th \in Threads, Calling(th, "AddSwarmMember")
  PROVE  /\ Len(todo[th]) = 1 /\ todo[th] # <<>> /\ 1 \in DOMAIN todo[th] /\ todo[th][1] \in Frames
         /\ Head(todo[th]) = todo[th][1] /\ todo[th][1].call = "AddSwarmMember"
         /\ todo[th][1].arg \in Objects /\ todo[th][1].swarm \in Objects
         /\ todo[th][1].next \in Seq(Objects) /\ todo[th][1].to \in Own(th)
         /\ cls[todo[th][1].arg] \in SwarmMembers /\ life[todo[th][1].arg] = "alive" /\ ~Dying(todo[th][1].arg)
         /\ weakRef[todo[th][1].arg] = todo[th][1].swarm /\ HoldsSwarm(th, todo[th][1].swarm)
<1>0. FramesTyped(todo) /\ FramesOK BY DEF IInv
<1>1. /\ todo[th] # <<>> /\ 1 \in DOMAIN todo[th] /\ todo[th][1] \in Frames
      /\ Head(todo[th]) = todo[th][1] /\ todo[th][1].call = "AddSwarmMember"
  BY <1>0 DEF Calling, FramesTyped
<1>2. FrameOK(th, 1) BY <1>0, <1>1 DEF FramesOK
<1> QED BY <1>1, <1>2, FrameFacts DEF FrameOK

(* A member whose swarm got another head meanwhile tries again. *)
LEMMA AddSwarmMemberAgain ==
  ASSUME IInv, NEW th \in Threads, RunAddSwarmMember(th), UNCHANGED <<errorVars, holderVars>>,
         m_headMember[Head(todo[th]).swarm] # Head(todo[th]).next
  PROVE  IInv'
<1>0. /\ TypeOK /\ FramesTyped(todo) /\ Counts /\ RefsLive /\ WeaksLive /\ Heap
      /\ Onces /\ FramesOK /\ Cascades /\ Reports
  BY DEF IInv
<1>1. Calling(th, "AddSwarmMember") BY DEF RunAddSwarmMember
<1>2. PICK e : e = Head(todo[th]) OBVIOUS
<1>3. /\ Len(todo[th]) = 1 /\ todo[th] # <<>> /\ 1 \in DOMAIN todo[th] /\ todo[th][1] \in Frames
      /\ e = todo[th][1] /\ e.call = "AddSwarmMember"
      /\ e.arg \in Objects /\ e.swarm \in Objects /\ e.to \in Own(th)
      /\ cls[e.arg] \in SwarmMembers /\ life[e.arg] = "alive" /\ ~Dying(e.arg)
      /\ weakRef[e.arg] = e.swarm /\ HoldsSwarm(th, e.swarm)
  BY <1>1, <1>2, AddSwarmMemberFrame
<1>4. m_headMember[e.swarm] \in Seq(Objects) BY <1>0, <1>3 DEF TypeOK, RefTypeOK
<1>5. PICK f \in Frames : f = AddSwarmMember(e.arg, e.swarm, m_headMember[e.swarm], e.to)
  BY <1>3, <1>4, FrameKinds, OwnPlaces
<1>6. PICK p \in Seq(Frames) : p = <<f>> /\ DOMAIN p = {1} /\ p[1] = f /\ p # <<>> /\ Len(p) = 1 BY FewCalls
<1>7. /\ Continue(th, p)
      /\ UNCHANGED <<program, cls, life, weakRef, m_refCount, m_weakRefCount, m_headMember, storage, field, strong, weak>>
  BY <1>2, <1>5, <1>6 DEF RunAddSwarmMember
<1> HIDE DEF RunAddSwarmMember
<1>8. StackStep(th, p) BY <1>0, <1>1, <1>6, <1>7, ContinueStack
<1>9. f.call = "AddSwarmMember" /\ f.arg = e.arg /\ f.swarm = e.swarm /\ f.to = e.to BY <1>5 DEF AddSwarmMember
<1>10. SameCalls /\ Onces'
  <2>1. ASSUME NEW C, e \notin C, f \notin C
        PROVE  /\ OccursIn(todo', C) <=> OccursIn(todo, C)
               /\ AtMostOnceIn(todo, C) => AtMostOnceIn(todo', C)
    BY <1>0, <1>3, <1>6, <1>8, <2>1, OccursKept
  <2>2. \A o : e \notin {Delete(o)} /\ f \notin {Delete(o)} BY <1>3, <1>9 DEF Delete
  <2>3. \A o : e \notin {EndDelete(o)} /\ f \notin {EndDelete(o)} BY <1>3, <1>9 DEF EndDelete
  <2>4. \A o : e \notin DyingFrames(o) /\ f \notin DyingFrames(o) BY <2>2, <2>3 DEF DyingFrames
  <2>5. \A o : o # e.arg => e \notin MemberFrames(o) /\ f \notin MemberFrames(o) BY <1>9 DEF MemberFrames
  <2>6. e \in MemberFrames(e.arg) /\ f \in MemberFrames(e.arg) BY <1>3, <1>9 DEF MemberFrames
  <2>7. OccursIn(todo, MemberFrames(e.arg)) BY <1>3, <2>6 DEF OccursIn
  <2>8. OccursIn(todo', MemberFrames(e.arg)) /\ AtMostOnceIn(todo', MemberFrames(e.arg))
    <3>1. AtMostOnceIn(todo, MemberFrames(e.arg)) BY <1>0, <1>3 DEF Onces
    <3>2. PICK C, k : C = MemberFrames(e.arg) /\ k = 1 OBVIOUS
    <3>3. /\ AtMostOnceIn(todo, C) /\ todo[th] # <<>> /\ todo[th][1] \in C
          /\ k \in DOMAIN p /\ p[k] \in C /\ \A i \in DOMAIN p : p[i] \in C => i = k
      BY <1>3, <1>6, <2>6, <3>1, <3>2
    <3>4. OccursIn(todo', C) /\ AtMostOnceIn(todo', C) BY <1>0, <1>8, <3>3, OccursPut
    <3> QED BY <3>2, <3>4
  <2>9. \A o \in Objects : Occurs(MemberFrames(o))' <=> Occurs(MemberFrames(o))
    BY <2>1, <2>5, <2>7, <2>8 DEF Occurs
  <2>10. SameCalls
    <3> SUFFICES ASSUME NEW o \in Objects
                 PROVE /\ Occurs({Delete(o)})' <=> Occurs({Delete(o)})
                       /\ Occurs({EndDelete(o)})' <=> Occurs({EndDelete(o)})
                       /\ Dying(o)' <=> Dying(o)
      BY <2>9 DEF SameCalls
    <3>1. Occurs({Delete(o)})' <=> Occurs({Delete(o)}) BY <2>1, <2>2 DEF Occurs
    <3>2. Occurs({EndDelete(o)})' <=> Occurs({EndDelete(o)}) BY <2>1, <2>3 DEF Occurs
    <3>3. Dying(o)' <=> Dying(o) BY <2>1, <2>4 DEF Occurs, Dying
    <3> QED BY <3>1, <3>2, <3>3
  <2>11. Onces'
    <3> SUFFICES ASSUME NEW o \in Objects
                 PROVE  AtMostOnceIn(todo', DyingFrames(o)) /\ AtMostOnceIn(todo', MemberFrames(o))
      BY DEF Onces
    <3>1. AtMostOnceIn(todo', DyingFrames(o)) BY <1>0, <2>1, <2>4 DEF Onces
    <3>2. AtMostOnceIn(todo', MemberFrames(o)) BY <1>0, <2>1, <2>5, <2>8 DEF Onces
    <3> QED BY <3>1, <3>2
  <2> QED BY <2>10, <2>11
<1>11. \A x \in StrongTokens : Ref(x)' = Ref(x)
  <2>1. /\ Ref(<<"release", th>>) = NoObj /\ Ref(<<"release", th>>)' = NoObj
        /\ Ref(<<"publish", th>>) = NoObj /\ Ref(<<"publish", th>>)' = NoObj
    BY <1>0, <1>3, <1>6, <1>7, <1>8, <1>9, StepRefs
  <2> QED BY <1>0, <1>7, <1>8, <2>1, StepRefs DEF errorVars, holderVars
<1>12. StrongExact' /\ SamePos /\ RefsOK(th) BY <1>7, <1>11, CountSame
<1>13. SameHeap BY <1>7, <1>10, <1>12 DEF SameHeap, SamePos
<1>14. Heap' BY <1>0, <1>7, <1>13, SameHeapKeeps
<1>15. TypeOK' BY <1>0, <1>7 DEF TypeOK, RefTypeOK, ErrorTypeOK, HolderTypeOK, errorVars, holderVars, Value, Error
<1>16. Counts'
  <2>1. WeakExact' BY <1>3, <1>6, <1>7, <1>8, <1>9, <1>12, <1>15, WeakKept
  <2>2. OwnerExact' BY <1>3, <1>6, <1>7, <1>8, <1>9, OwnersKept DEF holderVars
  <2> QED BY <1>12, <2>1, <2>2 DEF Counts
<1>17. RefsLive'
  <2> SUFFICES ASSUME NEW h \in StrongTokens, Ref(h)' # NoObj PROVE Live(Ref(h))'
    BY DEF RefsLive, StrongTokens
  <2>1. PICK o : o = Ref(h)' OBVIOUS
  <2>2. Live(o) BY <1>0, <1>11, <2>1 DEF RefsLive
  <2>3. Live(o)' BY <1>13, <2>2, SameHeapLive
  <2> QED BY <2>1, <2>3
<1>18. WeaksLive'
  <2> SUFFICES ASSUME NEW u \in Threads PROVE WeakLive(weak[u])' BY DEF WeaksLive
  <2>1. PICK w : w = weak'[u] OBVIOUS
  <2>2. WeakLive(w) BY <1>0, <1>7, <2>1 DEF WeaksLive
  <2>3. WeakLive(w)' BY <1>13, <2>2, SameHeapLive
  <2> QED BY <2>1, <2>3
<1>19. FramesOK'
  <2> SUFFICES ASSUME NEW u \in Threads, NEW i \in DOMAIN todo'[u] PROVE FrameOK(u, i)'
    BY DEF FramesOK
  <2>1. CASE u # th
    <3>1. todo'[u] = todo[u] BY <1>0, <1>8, <2>1, StackAfter
    <3>2. SameLocals(u) BY <1>7 DEF SameLocals, holderVars
    <3>3. \A h \in StrongTokens : FromHere(th, h) BY <1>11 DEF FromHere
    <3>4. i \in DOMAIN todo[u] BY <3>1
    <3> QED BY <1>0, <1>13, <2>1, <3>1, <3>2, <3>3, <3>4, OtherFrames
  <2>2. CASE u = th
    <3>1. Stacked(todo[th], p, todo'[th]) BY <1>0, <1>8, StackAfter
    <3>2. Len(todo'[th]) = 1 /\ todo'[th][1] = f
      <4>1. 1 \in DOMAIN p BY <1>6
      <4> QED BY <1>3, <1>6, <3>1, <4>1 DEF Stacked
    <3>3. i = 1
      <4>1. todo'[th] \in Seq(Frames) BY <3>1 DEF Stacked
      <4> QED BY <2>2, <3>2, <4>1
    <3>4. ~Dying(f.arg)' BY <1>3, <1>9, <1>10 DEF SameCalls
    <3>5. HoldsSwarm(th, f.swarm)' BY <1>3, <1>7, <1>9 DEF HoldsSwarm
    <3> QED BY <1>3, <1>7, <1>9, <2>2, <3>2, <3>3, <3>4, <3>5 DEF FrameOK
  <2> QED BY <2>1, <2>2
<1>20. Reports' BY <1>0, <1>7 DEF Reports, errorVars
<1>21. FramesTyped(todo') BY <1>0, <1>8, StackAfter
<1>22. Cascades'
  <2> SUFFICES ASSUME NEW u \in Threads, NEW i \in DOMAIN todo'[u] PROVE Cascade(u, i)' BY DEF Cascades
  <2>1. CASE u # th
    <3>1. todo'[u] = todo[u] BY <1>0, <1>8, <2>1, StackAfter
    <3>2. i \in DOMAIN todo[u] BY <3>1
    <3>3. Cascade(u, i) BY <1>0, <3>2 DEF Cascades
    <3>4. CascadeStays(u, i) BY <1>7 DEF CascadeStays
    <3> QED BY <3>1, <3>2, <3>3, <3>4, CascadeOther
  <2>2. CASE u = th
    <3>1. Stacked(todo[th], p, todo'[th]) BY <1>0, <1>8, StackAfter
    <3>2. todo'[u][i] \in Frames BY <2>2, <3>1 DEF Stacked
    <3>3. Len(todo'[th]) = 1 /\ todo'[th][1] = f
      <4>1. 1 \in DOMAIN p BY <1>6
      <4> QED BY <1>3, <1>6, <3>1, <4>1 DEF Stacked
    <3>4. i = 1
      <4>1. todo'[th] \in Seq(Frames) BY <3>1 DEF Stacked
      <4> QED BY <2>2, <3>3, <4>1
    <3>5. todo'[u][i].call = "AddSwarmMember" BY <1>3, <1>9, <2>2, <3>3, <3>4
    <3> QED BY <3>5 DEF Cascade
  <2> QED BY <2>1, <2>2
<1> QED BY <1>10, <1>14, <1>15, <1>16, <1>17, <1>18, <1>19, <1>20, <1>21, <1>22 DEF IInv
-----------------------------------------------------------------------------
(* Nothing refers to free memory: no pointer, *)
LEMMA FreshRefs ==
  ASSUME IInv, NEW o \in Objects, cls[o] = NoClass
  PROVE  /\ life[o] = "raw" /\ weakRef[o] = NoObj /\ m_headMember[o] = <<>> /\ storage[o] = {}
         /\ field[o] = NullField /\ m_refCount[o] = 0 /\ m_weakRefCount[o] = 0 /\ o # NoObj
         /\ \A h \in StrongTokens : Ref(h) # o
         /\ \A s \in Slots : strong[s] # o
         /\ \A x \in Objects : field[x].counts => field[x].m_ptr # o
         /\ \A h \in StrongTokens : StrongAt[h] # o
         /\ \A h \in WeakTokens : WeakAt[h] # o
         /\ \A h \in OwnerTokens : OwnerAt[h] # o
         /\ \A x \in Objects : weakRef[x] # o
<1>0. TypeOK /\ Counts /\ RefsLive BY DEF IInv
<1>1. ClassOK(o) /\ FieldOK(o) /\ WeakRefOK(o) /\ CountsOK(o) BY DEF IInv, Heap
<1>2. NoClass \notin Swarms /\ NoClass # FixedSwarm /\ ~HasWeakRef(NoClass) /\ NoClass # OwnedObject
  BY ClassFacts DEF HasWeakRef, NoClass, Class, Swarms, SwarmObject, LinkedSwarmObject, FixedSwarm, OwnedObject
<1>3. life[o] = "raw" /\ m_headMember[o] = <<>> /\ storage[o] = {} BY <1>1, <1>2 DEF ClassOK
<1>4. weakRef[o] = NoObj BY <1>1, <1>2 DEF WeakRefOK
<1>5. field[o] = NullField BY <1>1, <1>3 DEF FieldOK
<1>6. m_refCount[o] = 0 /\ m_weakRefCount[o] = 0
  <2>1. ~(m_refCount[o] > 0) /\ ~(m_weakRefCount[o] > 0) BY <1>1, <1>2, <1>3 DEF CountsOK, Pos
  <2>2. m_refCount[o] \in Nat /\ m_weakRefCount[o] \in Nat BY <1>0 DEF TypeOK, RefTypeOK
  <2> QED BY <2>1, <2>2
<1>7. o # NoObj BY RefCountingAssumption
<1>8. \A h \in StrongTokens : Ref(h) # o BY <1>0, <1>3, <1>7 DEF RefsLive, Live
<1>9. \A s \in Slots : strong[s] # o BY <1>8, TokenKinds, RefIs
<1>10. \A x \in Objects : field[x].counts => field[x].m_ptr # o
  <2> SUFFICES ASSUME NEW x \in Objects, field[x].counts PROVE field[x].m_ptr # o OBVIOUS
  <2>1. <<"field", x>> \in StrongTokens /\ Ref(<<"field", x>>) = field[x].m_ptr BY TokenKinds, RefIs
  <2> QED BY <1>8, <2>1
<1>11. \A h \in StrongTokens : StrongAt[h] # o
  <2>1. PICK f, n : f = StrongAt /\ n = m_refCount OBVIOUS
  <2>2. Exact(f, n) /\ DOMAIN f = StrongTokens BY <1>0, <2>1 DEF Counts, StrongExact, StrongAt
  <2>3. \A h \in DOMAIN f : f[h] # o BY <1>6, <2>1, <2>2, ExactZero
  <2> QED BY <2>1, <2>2, <2>3
<1>12. \A h \in WeakTokens : WeakAt[h] # o
  <2>1. PICK f, n : f = WeakAt /\ n = m_weakRefCount OBVIOUS
  <2>2. Exact(f, n) /\ DOMAIN f = WeakTokens BY <1>0, <2>1, WeakIs DEF Counts, WeakExact
  <2>3. \A h \in DOMAIN f : f[h] # o BY <1>6, <2>1, <2>2, ExactZero
  <2> QED BY <2>1, <2>2, <2>3
<1>13. \A h \in OwnerTokens : OwnerAt[h] # o BY <1>2, OwnerFact
<1>14. \A x \in Objects : weakRef[x] # o
  <2> SUFFICES ASSUME NEW x \in Objects, weakRef[x] = o PROVE FALSE OBVIOUS
  <2>1. cls[x] = FixedSwarm => x = o \/ o = NoObj BY FixedSwarmCounter
  <2>2. cls[x] # FixedSwarm BY <1>2, <1>7, <2>1
  <2>3. <<"object", x>> \in WeakTokens /\ WeakAt[<<"object", x>>] = weakRef[x] BY <2>2, WeakIs
  <2> QED BY <1>12, <2>3
<1> QED BY <1>3, <1>4, <1>5, <1>6, <1>7, <1>8, <1>9, <1>10, <1>11, <1>12, <1>13, <1>14

(* no list, and no call. *)
LEMMA FreshCalls ==
  ASSUME IInv, NEW o \in Objects, cls[o] = NoClass
  PROVE  /\ \A x \in Objects : o \notin Range(m_headMember[x]) /\ o \notin storage[x]
         /\ ~Occurs({Delete(o)}) /\ ~Occurs({EndDelete(o)}) /\ ~Dying(o) /\ ~Occurs(MemberFrames(o))
         /\ \A u \in Threads : weak[u].m_ptr # o /\ weak[u].m_weakRef # o /\ raw[u] # o /\ holder[u] # o
         /\ o \notin reported
<1>0. TypeOK /\ FramesTyped(todo) /\ FramesOK /\ Heap /\ WeaksLive /\ Reports BY DEF IInv
<1>1. /\ NoClass \notin SwarmMembers /\ NoClass # FixedSwarmMember /\ NoClass.policy = "Free" /\ NoClass # OwnedObject
  BY ClassFacts
<1>2. \A x \in Objects : o \notin Range(m_headMember[x]) /\ o \notin storage[x] BY <1>0, <1>1 DEF Heap, ListsOK
<1>3. ~Dying(o) BY <1>1, DyingFrame
<1>4. ~Occurs({Delete(o)}) /\ ~Occurs({EndDelete(o)}) BY <1>3 DEF Dying, DyingFrames, Occurs, OccursIn
<1>5. ~Occurs(MemberFrames(o))
  <2> SUFFICES ASSUME NEW u \in Threads, NEW i \in DOMAIN todo[u], todo[u][i] \in MemberFrames(o) PROVE FALSE
    BY DEF Occurs, OccursIn
  <2>1. FrameOK(u, i) BY <1>0 DEF FramesOK
  <2>2. todo[u][i].call \in {"AddSwarmMember", "FreeMember"} /\ todo[u][i].arg = o BY DEF MemberFrames
  <2>3. SwarmMember \in SwarmMembers BY DEF SwarmMembers
  <2> QED BY <1>1, <2>1, <2>2, <2>3 DEF FrameOK
<1>6. ASSUME NEW u \in Threads PROVE weak[u].m_ptr # o /\ weak[u].m_weakRef # o /\ raw[u] # o /\ holder[u] # o
  <2>0. o # NoObj BY RefCountingAssumption
  <2>1. WeakLive(weak[u]) BY <1>0 DEF WeaksLive
  <2>2. weak[u].m_ptr # o /\ weak[u].m_weakRef # o BY <1>1, <2>0, <2>1 DEF WeakLive, EmptyWeakPtr
  <2>3. raw[u] # o
    <3>1. Ref(<<"raw", u>>) = (IF raw[u] # NoObj /\ cls[raw[u]] # OwnedObject THEN raw[u] ELSE NoObj)
          /\ <<"raw", u>> \in StrongTokens
      BY RefIs, TokenKinds
    <3>2. Ref(<<"raw", u>>) # o BY <3>1, FreshRefs
    <3> QED BY <1>1, <2>0, <3>1, <3>2
  <2>4. holder[u] # o
    <3>1. OwnerAt[<<"holder", u>>] = holder[u] /\ <<"holder", u>> \in OwnerTokens BY OwnerIs
    <3> QED BY <3>1, FreshRefs
  <2> QED BY <2>2, <2>3, <2>4
<1>7. o \notin reported
  <2>1. life[o] = "raw" BY FreshRefs
  <2> QED BY <1>0, <2>1 DEF Reports
<1> QED BY <1>2, <1>3, <1>4, <1>5, <1>6, <1>7

(* Only the objects of D change, and no container gets its first reference. *)
Unharmed(D) ==
  /\ \A x \in Objects : x \notin D => cls'[x] = cls[x] /\ life'[x] = life[x] /\ weakRef'[x] = weakRef[x]
  /\ \A b \in Objects : Pos(b)' => Pos(b) \/ \A x \in Objects : weakRef[x] # b

(* The calls that work on an object nobody refers to. *)
LastCalls == {"Delete", "EndDelete", "FreeMember", "AddSwarmMember"}

(* A call of another thread stays as it should be when it is not about D. *)
LEMMA FramesKept ==
  ASSUME IInv, NEW D, Unharmed(D), NEW th \in Threads,
         NEW u \in Threads, u # th, todo'[u] = todo[u], SameLocals(u),
         \A h \in StrongTokens : FromHere(th, h) /\ Ref(h) \notin D,
         \A j \in DOMAIN todo[u] : todo[u][j].call \in LastCalls => todo[u][j].arg \notin D,
         \A j \in DOMAIN todo[u] : todo[u][j].call = "AddSwarmMember" => ~Dying(todo[u][j].arg)',
         NEW i \in DOMAIN todo[u]
  PROVE  FrameOK(u, i)'
<1>1. TypeOK /\ Heap /\ FramesTyped(todo) /\ FramesOK BY DEF IInv
<1>2. FrameOK(u, i) BY <1>1 DEF FramesOK
<1>0. PICK f : f = todo[u][i] OBVIOUS
<1>3. f \in Frames /\ todo[u] \in Seq(Frames) BY <1>0, <1>1 DEF FramesTyped
<1>4. Own(u)' = Own(u) BY DEF Own
<1>5. \A s \in Own(u) : strong[s] \notin D /\ strong'[s] = strong[s] /\ strong[s] \in Objects \cup {NoObj}
  <2> SUFFICES ASSUME NEW s \in Own(u) PROVE strong[s] \notin D /\ strong[s] \in Objects \cup {NoObj} BY DEF SameLocals
  <2>1. <<"slot", s>> \in StrongTokens /\ Ref(<<"slot", s>>) = strong[s] BY OwnPlaces, RefIs
  <2>2. strong[s] \in Objects \cup {NoObj} BY <1>1, OwnPlaces DEF TypeOK, RefTypeOK, Pointers
  <2> QED BY <2>1, <2>2
<1>6. \A x \in Objects : x \notin D => cls'[x] = cls[x] /\ life'[x] = life[x] /\ weakRef'[x] = weakRef[x]
  BY DEF Unharmed
<1>7. \A b : HoldsSwarm(u, b) => HoldsSwarm(u, b)'
  BY <1>4, <1>5, <1>6 DEF HoldsSwarm
<1>8. ASSUME NEW o \in Objects, o \notin D, Throwing(u, o), weakRef[o] # NoObj PROVE Throwing(u, o)'
  <2>1. CASE Len(todo[u]) = 2 /\ todo[u][2] = FreeMember(o) BY <1>6, <1>8, <2>1 DEF Throwing
  <2>2. CASE Len(todo[u]) = 1 /\ cls[o] = FixedSwarmMember /\ HoldsOnly(u, weakRef[o])
    <3>1. PICK b : b = weakRef[o] OBVIOUS
    <3>2. b \in Objects /\ cls[b] = FixedSwarm BY <1>1, <1>8, <2>2, <3>1, SwarmOfMember
    <3>3. HoldsOnly(u, b)' BY <2>2, <3>1, <3>2, HoldsOnlyKept
    <3>4. weakRef'[o] = b /\ cls'[o] = cls[o] BY <1>6, <1>8, <3>1
    <3>5. HoldsOnly(u, weakRef[o])' BY <3>3, <3>4
    <3> QED BY <1>8, <2>2, <3>1, <3>4, <3>5 DEF Throwing
  <2> QED BY <1>8, <2>1, <2>2 DEF Throwing
<1>9. ASSUME NEW o \in Objects, o \notin D, DyingOK(u, i, o) PROVE DyingOK(u, i, o)'
  <2>1. cls'[o] = cls[o] /\ weakRef'[o] = weakRef[o] BY <1>6, <1>9
  <2>2. PICK b : b = weakRef[o] OBVIOUS
  <2>3. cls[o].policy = "WeakRef" => b \in Objects BY <1>1, <1>9, <2>2 DEF DyingOK, TypeOK, RefTypeOK, Pointers
  <2>4. cls[o].policy = "WeakRef" /\ Pos(b)' => Pos(b) BY <2>2, <2>3 DEF Unharmed
  <2>5. cls[o].policy = "WeakRef" /\ Pos(weakRef[o])' => Pos(weakRef[o])
    <3>1. weakRef'[o] = b BY <2>1, <2>2
    <3> QED BY <2>2, <2>4, <3>1
  <2> QED BY <1>8, <1>9, <2>1, <2>5 DEF DyingOK
<1>10. f.call \in LastCalls => f.arg \in Objects /\ f.arg \notin D BY <1>0, <1>3, FrameFacts DEF LastCalls
<1>11. f.call \in {"Delete", "EndDelete"} =>
          /\ f.call = "Delete" => /\ life'[f.arg] = "alive"
                                  /\ cls'[f.arg].policy \in {"Simple", "WeakRef"}
          /\ f.call = "EndDelete" => /\ life'[f.arg] = "dead"
                                     /\ cls'[f.arg].policy \in {"Simple", "WeakRef", "Owned"}
          /\ DyingOK(u, i, f.arg)'
  <2>1. f.call \in {"Delete", "EndDelete"} =>
          /\ f.call = "Delete" => /\ life[f.arg] = "alive"
                                  /\ cls[f.arg].policy \in {"Simple", "WeakRef"}
          /\ f.call = "EndDelete" => /\ life[f.arg] = "dead"
                                     /\ cls[f.arg].policy \in {"Simple", "WeakRef", "Owned"}
          /\ DyingOK(u, i, f.arg)
    BY <1>0, <1>2 DEF FrameOK
  <2> QED BY <1>6, <1>9, <1>10, <2>1 DEF LastCalls
<1>12. weak'[u] = weak[u] /\ holder'[u] = holder[u] BY DEF SameLocals
<1>13. todo'[u][i] = f /\ todo'[u] = todo[u] BY <1>0
<1>14. f.call \notin {"ReleaseWeakRef", "FreeMember", "AddSwarmMember", "AssignWeak", "Publish"} => FrameOK(u, i)'
  BY <1>0, <1>2, <1>4, <1>5, <1>11, <1>12, <1>13 DEF FrameOK
<1>15. f.call = "ReleaseWeakRef" => FrameOK(u, i)'
  <2> SUFFICES ASSUME f.call = "ReleaseWeakRef"
               PROVE  \A j \in 1..(i-1) : todo[u][j].call \in {"Delete", "EndDelete"} /\ cls'[todo[u][j].arg] = FixedSwarmMember
    BY <1>13 DEF FrameOK
  <2> TAKE j \in 1..(i-1)
  <2>1. todo[u][j].call \in {"Delete", "EndDelete"} /\ cls[todo[u][j].arg] = FixedSwarmMember BY <1>0, <1>2 DEF FrameOK
  <2>2. j \in DOMAIN todo[u] /\ todo[u][j] \in Frames
    <3>1. i \in 1..Len(todo[u]) /\ Len(todo[u]) \in Nat BY <1>3
    <3>2. j \in 1..Len(todo[u]) BY <3>1
    <3> QED BY <1>3, <3>2
  <2>3. todo[u][j].arg \in Objects /\ todo[u][j].arg \notin D BY <2>1, <2>2, FrameFacts DEF LastCalls
  <2> QED BY <1>6, <2>1, <2>3
<1>16. f.call = "FreeMember" => FrameOK(u, i)'
  <2> SUFFICES ASSUME f.call = "FreeMember" PROVE FrameOK(u, i)' OBVIOUS
  <2>1. f.arg \in Objects /\ f.arg \notin D BY <1>10 DEF LastCalls
  <2>2. cls'[f.arg] = cls[f.arg] /\ life'[f.arg] = life[f.arg] /\ weakRef'[f.arg] = weakRef[f.arg] BY <1>6, <2>1
  <2>3. PICK b : b = weakRef[f.arg] OBVIOUS
  <2>4. HoldsSwarm(u, b) => HoldsSwarm(u, b)' BY <1>7
  <2>5. HoldsSwarm(u, weakRef[f.arg]) => HoldsSwarm(u, weakRef[f.arg])' BY <2>2, <2>3, <2>4
  <2> QED BY <1>0, <1>2, <1>13, <2>2, <2>5 DEF FrameOK
<1>17. f.call = "AddSwarmMember" => FrameOK(u, i)'
  <2> SUFFICES ASSUME f.call = "AddSwarmMember" PROVE FrameOK(u, i)' OBVIOUS
  <2>1. f.arg \in Objects /\ f.arg \notin D /\ ~Dying(f.arg)' BY <1>0, <1>10 DEF LastCalls
  <2>2. cls'[f.arg] = cls[f.arg] /\ life'[f.arg] = life[f.arg] /\ weakRef'[f.arg] = weakRef[f.arg] BY <1>6, <2>1
  <2>4. HoldsSwarm(u, f.swarm) => HoldsSwarm(u, f.swarm)' BY <1>7
  <2> QED BY <1>0, <1>2, <1>4, <1>13, <2>1, <2>2, <2>4 DEF FrameOK
<1>18. f.call = "AssignWeak" => FrameOK(u, i)'
  <2> SUFFICES ASSUME f.call = "AssignWeak" PROVE FrameOK(u, i)' OBVIOUS
  <2>1. f.arg.m_ptr \in Objects BY <1>3, FrameFacts
  <2>2. \E s \in Own(u) : strong[s] = f.arg.m_ptr BY <1>0, <1>2 DEF FrameOK
  <2>3. f.arg.m_ptr \notin D BY <1>5, <2>2
  <2>4. cls'[f.arg.m_ptr] = cls[f.arg.m_ptr] /\ weakRef'[f.arg.m_ptr] = weakRef[f.arg.m_ptr] BY <1>6, <2>1, <2>3
  <2> QED BY <1>0, <1>2, <1>4, <1>5, <1>12, <1>13, <2>4 DEF FrameOK
<1>19. f.call = "Publish" => FrameOK(u, i)'
  <2> SUFFICES ASSUME f.call = "Publish" PROVE FrameOK(u, i)' OBVIOUS
  <2>1. f.arg \in Objects /\ f.new \in Objects BY <1>3, FrameFacts
  <2>2. (\E s \in Own(u) : strong[s] = f.arg) /\ i = 1 BY <1>0, <1>2 DEF FrameOK
  <2>3. f.arg \notin D BY <1>5, <2>2
  <2>4. f.new \notin D
    <3>1. todo[u] # <<>> /\ Head(todo[u]) = f BY <1>0, <1>3, <2>2
    <3>2. Ref(<<"publish", u>>) = f.new /\ <<"publish", u>> \in StrongTokens BY <3>1, RefIs, TokenKinds
    <3> QED BY <3>2
  <2>5. cls'[f.arg] = cls[f.arg] /\ cls'[f.new] = cls[f.new] BY <1>6, <2>1, <2>3, <2>4
  <2> QED BY <1>0, <1>2, <1>4, <1>5, <1>13, <2>5 DEF FrameOK
<1> QED BY <1>14, <1>15, <1>16, <1>17, <1>18, <1>19
-----------------------------------------------------------------------------
(* A new object o: nothing else changes, but for the storage it is made in. *)
Elsewhere(o) ==
  /\ program' = program /\ m_headMember' = m_headMember
  /\ \A x \in Objects : x # o => /\ cls'[x] = cls[x] /\ life'[x] = life[x] /\ weakRef'[x] = weakRef[x]
                                 /\ m_refCount'[x] = m_refCount[x] /\ field'[x] = field[x]
                                 /\ m_weakRefCount'[x] > 0 <=> m_weakRefCount[x] > 0
  /\ \A x \in Objects : \/ storage'[x] = storage[x]
                        \/ /\ cls[x] = FixedSwarm /\ storage'[x] = storage[x] \cup {o}
                           /\ weakRef'[o] = x /\ cls'[o] = FixedSwarmMember
CallsElsewhere(o) ==
  \A x \in Objects : x # o => /\ Occurs({Delete(x)})' <=> Occurs({Delete(x)})
                              /\ Occurs({EndDelete(x)})' <=> Occurs({EndDelete(x)})
                              /\ Dying(x)' <=> Dying(x)
                              /\ Occurs(MemberFrames(x))' <=> Occurs(MemberFrames(x))

(* The new calls are about the new object. *)
NewCalls(o, p) ==
  /\ \A i \in DOMAIN p : p[i].call \in LastCalls => p[i].arg = o
  /\ \A i, j \in DOMAIN p : p[i] \in DyingFrames(o) /\ p[j] \in DyingFrames(o) => i = j
  /\ \A i, j \in DOMAIN p : p[i] \in MemberFrames(o) /\ p[j] \in MemberFrames(o) => i = j
  /\ \A i \in DOMAIN p : p[i].call \in {"Delete", "EndDelete"} => cls'[o] # FixedSwarmMember \/ m_refCount'[weakRef'[o]] > 0

(* The calls about other objects stay on the stacks. *)
LEMMA AllocCalls ==
  ASSUME IInv, NEW o \in Objects, cls[o] = NoClass, NEW th \in Threads, NEW p \in Seq(Frames),
         StackStep(th, p), todo[th] = <<>>, NewCalls(o, p)
  PROVE  CallsElsewhere(o) /\ Onces'
<1>0. FramesTyped(todo) /\ Onces BY DEF IInv
<1>1. ASSUME NEW C, \A i \in DOMAIN p : p[i] \notin C
      PROVE  /\ OccursIn(todo', C) <=> OccursIn(todo, C)
             /\ AtMostOnceIn(todo, C) => AtMostOnceIn(todo', C)
  BY <1>0, <1>1, OccursKept
<1>2. ASSUME NEW x \in Objects, x # o
      PROVE  /\ \A i \in DOMAIN p : p[i] \notin {Delete(x)} /\ p[i] \notin {EndDelete(x)}
             /\ \A i \in DOMAIN p : p[i] \notin DyingFrames(x)
             /\ \A i \in DOMAIN p : p[i] \notin MemberFrames(x)
  BY <1>2 DEF NewCalls, LastCalls, Delete, EndDelete, DyingFrames, MemberFrames
<1>3. CallsElsewhere(o)
  <2> SUFFICES ASSUME NEW x \in Objects, x # o
               PROVE /\ Occurs({Delete(x)})' <=> Occurs({Delete(x)})
                     /\ Occurs({EndDelete(x)})' <=> Occurs({EndDelete(x)})
                     /\ Dying(x)' <=> Dying(x)
                     /\ Occurs(MemberFrames(x))' <=> Occurs(MemberFrames(x))
    BY DEF CallsElsewhere
  <2>1. Occurs({Delete(x)})' <=> Occurs({Delete(x)}) BY <1>1, <1>2 DEF Occurs
  <2>2. Occurs({EndDelete(x)})' <=> Occurs({EndDelete(x)}) BY <1>1, <1>2 DEF Occurs
  <2>3. Dying(x)' <=> Dying(x) BY <1>1, <1>2 DEF Dying, Occurs
  <2>4. Occurs(MemberFrames(x))' <=> Occurs(MemberFrames(x)) BY <1>1, <1>2 DEF Occurs
  <2> QED BY <2>1, <2>2, <2>3, <2>4
<1>4. ASSUME NEW C, ~OccursIn(todo, C), \A i, j \in DOMAIN p : p[i] \in C /\ p[j] \in C => i = j
      PROVE  AtMostOnceIn(todo', C)
  <2>1. CASE \E k \in DOMAIN p : p[k] \in C BY <1>0, <1>4, <2>1, OccursPut
  <2>2. CASE \A k \in DOMAIN p : p[k] \notin C
    <3>1. AtMostOnceIn(todo, C) BY <1>4 DEF AtMostOnceIn, OccursIn
    <3> QED BY <1>1, <2>2, <3>1
  <2> QED BY <2>1, <2>2
<1>5. Onces'
  <2> SUFFICES ASSUME NEW x \in Objects
               PROVE  AtMostOnceIn(todo', DyingFrames(x)) /\ AtMostOnceIn(todo', MemberFrames(x))
    BY DEF Onces
  <2>1. CASE x # o BY <1>0, <1>1, <1>2, <2>1 DEF Onces
  <2>2. CASE x = o
    <3>1. ~OccursIn(todo, DyingFrames(o)) /\ ~OccursIn(todo, MemberFrames(o)) BY FreshCalls DEF Dying, Occurs
    <3> QED BY <1>4, <2>2, <3>1 DEF NewCalls
  <2> QED BY <2>1, <2>2
<1> QED BY <1>3, <1>5

(* The other objects stay as they should be. *)
LEMMA AllocHeap ==
  ASSUME IInv, NEW o \in Objects, cls[o] = NoClass, Elsewhere(o), CallsElsewhere(o), NEW x \in Objects, x # o
  PROVE  ClassOK(x)' /\ FieldOK(x)' /\ WeakRefOK(x)' /\ ListsOK(x)' /\ CountsOK(x)'
<1>0. TypeOK /\ Heap BY DEF IInv
<1>1. ClassOK(x) /\ FieldOK(x) /\ WeakRefOK(x) /\ ListsOK(x) /\ CountsOK(x) BY <1>0 DEF Heap
<1>2. /\ program' = program /\ m_headMember' = m_headMember
      /\ cls'[x] = cls[x] /\ life'[x] = life[x] /\ weakRef'[x] = weakRef[x]
      /\ m_refCount'[x] = m_refCount[x] /\ field'[x] = field[x]
      /\ m_weakRefCount'[x] > 0 <=> m_weakRefCount[x] > 0
      /\ \/ storage'[x] = storage[x]
         \/ /\ cls[x] = FixedSwarm /\ storage'[x] = storage[x] \cup {o}
            /\ weakRef'[o] = x /\ cls'[o] = FixedSwarmMember
  BY DEF Elsewhere
<1>3. /\ Occurs({Delete(x)})' <=> Occurs({Delete(x)})
      /\ Occurs({EndDelete(x)})' <=> Occurs({EndDelete(x)})
      /\ Dying(x)' <=> Dying(x)
      /\ Occurs(MemberFrames(x))' <=> Occurs(MemberFrames(x))
  BY DEF CallsElsewhere
<1>4. weakRef[x] # o /\ weakRef[x] \in Objects \cup {NoObj} BY <1>0, FreshRefs DEF TypeOK, RefTypeOK, Pointers
<1>5. ClassOK(x)' BY <1>1, <1>2 DEF ClassOK, IsStatic, StaticClasses
<1>6. FieldOK(x)'
  <2>1. field[x].counts => field[x].m_ptr # o BY FreshRefs
  <2>2. field[x].counts => field[x].m_ptr \in Objects
    BY <1>0, <1>1 DEF FieldOK, TypeOK, RefTypeOK, Pointers
  <2>3. field[x].counts => weakRef'[field[x].m_ptr] = weakRef[field[x].m_ptr] BY <2>1, <2>2 DEF Elsewhere
  <2> QED BY <1>1, <1>2, <2>3 DEF FieldOK
<1>7. WeakRefOK(x)'
  <2>1. weakRef[x] # NoObj => /\ cls'[weakRef[x]] = cls[weakRef[x]]
                              /\ storage[weakRef[x]] \subseteq storage'[weakRef[x]]
    BY <1>4 DEF Elsewhere
  <2> QED BY <1>1, <1>2, <1>3, <2>1 DEF WeakRefOK
<1>8. Pos(x)' <=> Pos(x) BY <1>2 DEF Pos
<1>9. ListsOK(x)'
  <2>0. Range(m_headMember[x]) \subseteq Objects /\ storage[x] \subseteq Objects BY <1>0 DEF TypeOK, RefTypeOK, Range
  <2>1. o \notin Range(m_headMember[x]) /\ o \notin storage[x] BY FreshCalls
  <2>2. \A m \in Objects : m # o => /\ cls'[m] = cls[m] /\ life'[m] = life[m] /\ weakRef'[m] = weakRef[m]
                                    /\ Dying(m)' <=> Dying(m)
                                    /\ Occurs(MemberFrames(m))' <=> Occurs(MemberFrames(m))
    BY DEF Elsewhere, CallsElsewhere
  <2>3. \A m \in Range(m_headMember'[x]) :
         /\ cls'[m] \in SwarmMembers
         /\ weakRef'[m] = x \/ (weakRef'[m] = NoObj /\ life'[m] = "dead")
         /\ Pos(x)' => weakRef'[m] = x /\ life'[m] = "alive" /\ ~Dying(m)'
         /\ ~Occurs(MemberFrames(m))'
         /\ \A d \in Objects : m \in Range(m_headMember'[d]) => d = x
    <3> TAKE m \in Range(m_headMember'[x])
    <3>1. m \in Range(m_headMember[x]) /\ m \in Objects /\ m # o BY <1>2, <2>0, <2>1
    <3>2. /\ cls[m] \in SwarmMembers
          /\ weakRef[m] = x \/ (weakRef[m] = NoObj /\ life[m] = "dead")
          /\ Pos(x) => weakRef[m] = x /\ life[m] = "alive" /\ ~Dying(m)
          /\ ~Occurs(MemberFrames(m))
          /\ \A d \in Objects : m \in Range(m_headMember[d]) => d = x
      BY <1>1, <3>1 DEF ListsOK
    <3> QED BY <1>2, <1>8, <2>2, <3>1, <3>2
  <2>4. \A m \in storage'[x] :
         /\ cls'[m] = FixedSwarmMember
         /\ weakRef'[m] = x \/ (weakRef'[m] = NoObj /\ life'[m] = "dead")
         /\ \A d \in Objects : m \in storage'[d] => d = x
    <3> TAKE m \in storage'[x]
    <3>1. CASE m = o
      <4>1. weakRef'[o] = x /\ cls'[o] = FixedSwarmMember BY <1>2, <2>1, <3>1
      <4>2. \A d \in Objects : o \in storage'[d] => weakRef'[o] = d BY FreshCalls DEF Elsewhere
      <4> QED BY <3>1, <4>1, <4>2
    <3>2. CASE m # o
      <4>1. m \in storage[x] /\ m \in Objects BY <1>2, <2>0, <3>2
      <4>2. /\ cls[m] = FixedSwarmMember
            /\ weakRef[m] = x \/ (weakRef[m] = NoObj /\ life[m] = "dead")
            /\ \A d \in Objects : m \in storage[d] => d = x
        BY <1>1, <4>1 DEF ListsOK
      <4>3. \A d \in Objects : m \in storage'[d] => m \in storage[d] BY <3>2 DEF Elsewhere
      <4> QED BY <2>2, <3>2, <4>1, <4>2, <4>3
    <3> QED BY <3>1, <3>2
  <2>5. \A i \in DOMAIN m_headMember'[x], j \in DOMAIN m_headMember'[x] : m_headMember'[x][i] = m_headMember'[x][j] => i = j
    BY <1>1, <1>2 DEF ListsOK
  <2> QED BY <2>3, <2>4, <2>5 DEF ListsOK
<1>10. CountsOK(x)'
  <2>1. Counter(x)' = Counter(x) BY <1>2 DEF Counter
  <2>2. (Pos(x) => life[x] = "alive" /\ ~Dying(x) /\ Counter(x) = x)'
    <3>1. Pos(x) => life[x] = "alive" /\ ~Dying(x) /\ Counter(x) = x BY <1>1 DEF CountsOK
    <3> QED BY <1>2, <1>3, <1>8, <2>1, <3>1
  <2>3. (life[x] = "alive" /\ cls[x].policy \in {"Simple", "WeakRef"} /\ ~Pos(Counter(x)) => Occurs({Delete(x)}))'
    <3>1. life[x] = "alive" /\ cls[x].policy \in {"Simple", "WeakRef"} /\ ~Pos(Counter(x)) => Occurs({Delete(x)})
      BY <1>1 DEF CountsOK
    <3>2. PICK c : c = Counter(x) OBVIOUS
    <3>3. life[x] = "alive" /\ cls[x].policy \in {"Simple", "WeakRef"} => c \in Objects /\ c # o
      BY <1>1, <1>4, <3>2 DEF Counter, WeakRefOK, HasWeakRef
    <3>4. c \in Objects /\ c # o => (Pos(c)' <=> Pos(c)) BY DEF Elsewhere, Pos
    <3>5. life[x] = "alive" /\ cls[x].policy \in {"Simple", "WeakRef"} => (Pos(Counter(x))' <=> Pos(Counter(x)))
      BY <2>1, <3>2, <3>3, <3>4
    <3> QED BY <1>2, <1>3, <3>1, <3>5
  <2>4. (m_weakRefCount[x] > 0 <=> HasWeakRef(cls[x]) /\ cls[x] \notin Members)' BY <1>1, <1>2 DEF CountsOK
  <2>5. (cls[x] \in Members => \/ \E b \in Objects : x \in Range(m_headMember[b]) \cup storage[b]
                               \/ Occurs(MemberFrames(x)))'
    <3>1. cls[x] \in Members => \/ \E b \in Objects : x \in Range(m_headMember[b]) \cup storage[b]
                                \/ Occurs(MemberFrames(x))
      BY <1>1 DEF CountsOK
    <3>2. \A b \in Objects : x \in Range(m_headMember[b]) \cup storage[b] => x \in Range(m_headMember'[b]) \cup storage'[b]
      BY DEF Elsewhere
    <3> QED BY <1>2, <1>3, <3>1, <3>2
  <2> QED BY <2>2, <2>3, <2>4, <2>5 DEF CountsOK
<1> QED BY <1>5, <1>6, <1>7, <1>9, <1>10

(* And so do the references to them. *)
LEMMA AllocLive ==
  ASSUME IInv, NEW o \in Objects, cls[o] = NoClass, Elsewhere(o), CallsElsewhere(o)
  PROVE  /\ \A x : x # o /\ Live(x) => Live(x)'
         /\ \A w : w.m_ptr # o /\ w.m_weakRef # o /\ WeakLive(w) => WeakLive(w)'
<1>1. \A x \in Objects : x # o => /\ cls'[x] = cls[x] /\ life'[x] = life[x] /\ weakRef'[x] = weakRef[x]
                                  /\ m_refCount'[x] = m_refCount[x]
                                  /\ Dying(x)' <=> Dying(x)
  BY DEF Elsewhere, CallsElsewhere
<1>2. \A b \in Objects : Owned(b) \subseteq Owned(b)' BY DEF Elsewhere, Owned
<1>3. ASSUME NEW x, x # o, Live(x) PROVE Live(x)'
  <2>1. PICK b : b = weakRef[x] OBVIOUS
  <2>2. HasWeakRef(cls[x]) => b \in Objects /\ x \in Owned(b) BY <1>3, <2>1 DEF Live
  <2>3. HasWeakRef(cls[x]) => b \in Objects /\ x \in Owned(b)' BY <1>2, <2>2
  <2>4. weakRef'[x] = b /\ cls'[x] = cls[x] /\ life'[x] = life[x] /\ (Dying(x)' <=> Dying(x)) /\ x \in Objects
    BY <1>1, <1>3, <2>1 DEF Live
  <2>5. HasWeakRef(cls[x])' => weakRef'[x] \in Objects /\ x \in Owned(weakRef[x])' BY <2>3, <2>4
  <2> QED BY <1>3, <2>4, <2>5 DEF Live
<1>4. ASSUME NEW w, w.m_ptr # o, w.m_weakRef # o, WeakLive(w) PROVE WeakLive(w)'
  <2>1. CASE w = EmptyWeakPtr BY <2>1 DEF WeakLive
  <2>2. CASE w # EmptyWeakPtr
    <3>1. PICK x, b : x = w.m_ptr /\ b = w.m_weakRef OBVIOUS
    <3>2. /\ x \in Objects /\ b \in Objects /\ x # o /\ b # o
          /\ cls[x].policy = "WeakRef" /\ cls[b] # NoClass /\ x \in Owned(b)
          /\ Pos(b) => /\ life[x] = "alive" /\ weakRef[x] = b /\ ~Dying(x)
      BY <1>4, <2>2, <3>1 DEF WeakLive
    <3>3. Pos(b)' <=> Pos(b) BY <1>1, <3>2 DEF Pos
    <3>4. x \in Owned(b)' BY <1>2, <3>2
    <3>5. /\ cls'[x].policy = "WeakRef" /\ cls'[b] # NoClass
          /\ Pos(b)' => /\ life'[x] = "alive" /\ weakRef'[x] = b /\ ~Dying(x)'
      BY <1>1, <3>2, <3>3
    <3> QED BY <3>1, <3>2, <3>4, <3>5 DEF WeakLive
  <2> QED BY <2>1, <2>2
<1> QED BY <1>3, <1>4

(* A step that makes an object keeps the invariant, when the object is as  *)
(* it should be, its references are counted and the calls are in order.    *)
LEMMA AllocStep ==
  ASSUME IInv, NEW o \in Objects, cls[o] = NoClass, NEW th \in Threads, NEW p \in Seq(Frames),
         StackStep(th, p), todo[th] = <<>>, NewCalls(o, p), Elsewhere(o),
         TypeOK', Counts',
         ClassOK(o)', FieldOK(o)', WeakRefOK(o)', CountsOK(o)',
         \A h \in StrongTokens : FromHere(th, h),
         \A h \in StrongTokens : Ref(h)' = NoObj \/ Ref(h)' = Ref(h) \/ (Ref(h)' # o /\ Live(Ref(h)')) \/ (Ref(h)' = o /\ Live(o)'),
         \A u \in Threads : weak'[u] = weak[u] \/ WeakLive(weak[u])',
         \A u \in Threads : u # th => SameLocals(u),
         UNCHANGED <<handled, reported>>, life'[o] = "dead" => cls'[o] # ErrorCodeState,
         \A i \in DOMAIN p : FrameOK(th, i)'
  PROVE  IInv'
<1>0. /\ TypeOK /\ FramesTyped(todo) /\ Counts /\ RefsLive /\ WeaksLive /\ Heap
      /\ Onces /\ FramesOK /\ Cascades /\ Reports
  BY DEF IInv
<1>1. CallsElsewhere(o) /\ Onces' BY AllocCalls
<1>2. Heap'
  <2>1. ListsOK(o)'
    <3>1. m_headMember'[o] = <<>> /\ storage'[o] = {}
      <4>1. m_headMember[o] = <<>> /\ storage[o] = {} BY FreshRefs
      <4>2. cls[o] # FixedSwarm BY ClassFacts
      <4> QED BY <4>1, <4>2 DEF Elsewhere
    <3> QED BY <3>1 DEF ListsOK, Range
  <2>2. \A x \in Objects : (ClassOK(x) /\ FieldOK(x) /\ WeakRefOK(x) /\ ListsOK(x) /\ CountsOK(x))'
    BY <1>1, <2>1, AllocHeap
  <2> QED BY <2>2 DEF Heap
<1>3. RefsLive'
  <2> SUFFICES ASSUME NEW h \in StrongTokens, Ref(h)' # NoObj PROVE Live(Ref(h))'
    BY DEF RefsLive, StrongTokens
  <2>1. PICK x : x = Ref(h)' OBVIOUS
  <2>2. CASE x = o
    <3>1. Ref(h) # o BY FreshRefs
    <3>2. Live(o)' BY <2>1, <2>2, <3>1
    <3>3. Ref(h)' = o BY <2>1, <2>2
    <3> QED BY <3>2, <3>3
  <2>3. CASE x # o
    <3>1. Live(x) BY <1>0, <2>1, <2>3 DEF RefsLive
    <3>2. Live(x)' BY <1>1, <2>3, <3>1, AllocLive
    <3> QED BY <2>1, <3>2
  <2> QED BY <2>2, <2>3
<1>4. WeaksLive'
  <2> SUFFICES ASSUME NEW u \in Threads, weak'[u] = weak[u] PROVE WeakLive(weak[u])' BY DEF WeaksLive
  <2>1. PICK w : w = weak[u] OBVIOUS
  <2>2. WeakLive(w) /\ w.m_ptr # o /\ w.m_weakRef # o BY <1>0, <2>1, FreshCalls DEF WeaksLive
  <2>3. WeakLive(w)' BY <1>1, <2>2, AllocLive
  <2>4. weak'[u] = w BY <2>1
  <2> QED BY <2>3, <2>4
<1>8. \A u \in Threads : \A j \in DOMAIN todo[u] : todo[u][j].call \in LastCalls => todo[u][j].arg # o
  <2> SUFFICES ASSUME NEW u \in Threads, NEW j \in DOMAIN todo[u], todo[u][j].call \in LastCalls, todo[u][j].arg = o PROVE FALSE
  OBVIOUS
  <2>1. PICK f : f = todo[u][j] OBVIOUS
  <2>2. f \in Frames BY <1>0, <2>1 DEF FramesTyped
  <2>3. f.call \in {"Delete", "EndDelete", "FreeMember", "AddSwarmMember"} /\ f.arg = o BY <2>1 DEF LastCalls
  <2>4. ~Dying(o) /\ ~Occurs(MemberFrames(o)) BY FreshCalls
  <2>5. f \notin DyingFrames(o) /\ f \notin MemberFrames(o) BY <2>1, <2>4 DEF Dying, Occurs, OccursIn
  <2>6. f.call \notin {"FreeMember", "AddSwarmMember"} BY <2>2, <2>3, <2>5 DEF MemberFrames
  <2>7. f = [call |-> f.call, arg |-> o] BY <2>2, <2>3, <2>6, FrameFacts
  <2> QED BY <2>3, <2>5, <2>6, <2>7 DEF DyingFrames, Delete, EndDelete
<1>5. FramesOK'
  <2> SUFFICES ASSUME NEW u \in Threads, NEW i \in DOMAIN todo'[u] PROVE FrameOK(u, i)'
    BY DEF FramesOK
  <2>1. CASE u # th
    <3>1. todo'[u] = todo[u] /\ i \in DOMAIN todo[u] BY <1>0, <2>1, StackAfter
    <3>2. PICK D : D = {o} OBVIOUS
    <3>3. Unharmed(D)
      <4>1. \A b \in Objects : Pos(b)' => Pos(b) \/ \A x \in Objects : weakRef[x] # b
        BY FreshRefs DEF Elsewhere, Pos
      <4> QED BY <3>2, <4>1 DEF Unharmed, Elsewhere
    <3>4. \A h \in StrongTokens : FromHere(th, h) /\ Ref(h) \notin D BY <3>2, FreshRefs
    <3>5. \A j \in DOMAIN todo[u] : todo[u][j].call \in LastCalls => todo[u][j].arg # o BY <1>8
    <3>6. \A j \in DOMAIN todo[u] : todo[u][j].call = "AddSwarmMember" => ~Dying(todo[u][j].arg)'
      <4> SUFFICES ASSUME NEW j \in DOMAIN todo[u], todo[u][j].call = "AddSwarmMember"
                   PROVE  ~Dying(todo[u][j].arg)'
        OBVIOUS
      <4>1. PICK x : x = todo[u][j].arg OBVIOUS
      <4>2. FrameOK(u, j) /\ todo[u][j] \in Frames BY <1>0 DEF FramesOK, FramesTyped
      <4>3. ~Dying(x) /\ x \in Objects BY <4>1, <4>2, FrameFacts DEF FrameOK
      <4>4. x # o BY <3>5, <4>1 DEF LastCalls
      <4>5. ~Dying(x)' BY <1>1, <4>3, <4>4 DEF CallsElsewhere
      <4>6. todo'[u][j].arg = x BY <3>1, <4>1
      <4> QED BY <4>1, <4>5, <4>6
    <3>7. SameLocals(u) BY <2>1
    <3>8. \A j \in DOMAIN todo[u] : todo[u][j].call \in LastCalls => todo[u][j].arg \notin D BY <3>2, <3>5
    <3> QED BY <2>1, <3>1, <3>3, <3>4, <3>6, <3>7, <3>8, FramesKept
  <2>2. CASE u = th
    <3>1. Stacked(todo[th], p, todo'[th]) BY <1>0, StackAfter
    <3>2. i \in DOMAIN p BY <2>2, <3>1 DEF Stacked
    <3> QED BY <2>2, <3>2
  <2> QED BY <2>1, <2>2
<1>6. Reports'
  <2>1. o \notin reported BY FreshCalls
  <2> QED BY <1>0, <2>1 DEF Reports, Elsewhere
<1>7. FramesTyped(todo') BY <1>0, StackAfter
<1>9. Cascades'
  <2> SUFFICES ASSUME NEW u \in Threads, NEW i \in DOMAIN todo'[u] PROVE Cascade(u, i)' BY DEF Cascades
  <2>1. CASE u # th
    <3>1. todo'[u] = todo[u] /\ i \in DOMAIN todo[u] /\ Cascade(u, i) BY <1>0, <2>1, StackAfter DEF Cascades
    <3>2. CascadeStays(u, i)
      <4> SUFFICES ASSUME todo[u][i].call \in {"Delete", "EndDelete"} PROVE CascadeStays(u, i) BY DEF CascadeStays
      <4>1. PICK x : x = todo[u][i].arg OBVIOUS
      <4>2. x # o /\ x \in Objects
        <5>1. todo[u][i] \in Frames BY <1>0, <3>1 DEF FramesTyped
        <5> QED BY <1>8, <3>1, <4>1, <5>1, FrameFacts DEF LastCalls
      <4>3. cls'[x] = cls[x] /\ weakRef'[x] = weakRef[x] BY <4>2 DEF Elsewhere
      <4>4. cls[x] = FixedSwarmMember => weakRef[x] # NoObj
        <5>1. DyingOK(u, i, x) BY <1>0, <3>1, <4>1 DEF FramesOK, FrameOK
        <5> QED BY <5>1 DEF DyingOK, FixedSwarmMember, Class
      <4>5. cls[x] = FixedSwarmMember => m_refCount'[weakRef[x]] = m_refCount[weakRef[x]]
        <5>1. weakRef[x] # o /\ weakRef[x] \in Objects \cup {NoObj} BY <1>0, <4>2, FreshRefs DEF TypeOK, RefTypeOK, Pointers
        <5> QED BY <4>4, <5>1 DEF Elsewhere
      <4> QED BY <4>1, <4>3, <4>5 DEF CascadeStays
    <3> QED BY <3>1, <3>2, CascadeOther
  <2>2. CASE u = th
    <3>1. Stacked(todo[th], p, todo'[th]) BY <1>0, StackAfter
    <3>2. i \in DOMAIN p /\ todo'[th][i] = p[i] BY <2>2, <3>1 DEF Stacked
    <3>3. p[i].call \in {"Delete", "EndDelete"} => p[i].arg = o BY <3>2 DEF NewCalls, LastCalls
    <3> QED BY <2>2, <3>2, <3>3 DEF Cascade, NewCalls, Pos
  <2> QED BY <2>1, <2>2
<1> QED BY <1>1, <1>2, <1>3, <1>4, <1>5, <1>6, <1>7, <1>9 DEF IInv

(* The references around a step that makes an object. *)
LEMMA AllocRefs ==
  ASSUME IInv, NEW o \in Objects, cls[o] = NoClass, Elsewhere(o), NEW th \in Threads, NEW p \in Seq(Frames),
         StackStep(th, p), todo[th] = <<>>, UNCHANGED <<raw, maybe>>
  PROVE  /\ <<"release", th>> \in StrongTokens /\ <<"publish", th>> \in StrongTokens /\ <<"field", o>> \in StrongTokens
         /\ Ref(<<"release", th>>)' = IF p # <<>> /\ p[1].call = "Release" THEN p[1].arg ELSE NoObj
         /\ Ref(<<"publish", th>>)' = IF p # <<>> /\ p[1].call = "Publish" THEN p[1].new ELSE NoObj
         /\ Ref(<<"release", th>>) = NoObj /\ Ref(<<"publish", th>>) = NoObj /\ Ref(<<"field", o>>) = NoObj
         /\ Ref(<<"field", o>>)' = IF field'[o].counts THEN field'[o].m_ptr ELSE NoObj
         /\ \A h \in StrongTokens :
              \/ \E s \in Slots : h = <<"slot", s>> /\ Ref(h) = strong[s] /\ Ref(h)' = strong'[s]
              \/ h = <<"field", o>> \/ h = <<"release", th>> \/ h = <<"publish", th>>
              \/ Ref(h)' = Ref(h)
<1>0. FramesTyped(todo) /\ FramesOK /\ TypeOK BY DEF IInv
<1>1. /\ \A u \in Threads : u # th => /\ Ref(<<"release", u>>)' = Ref(<<"release", u>>)
                                      /\ Ref(<<"publish", u>>)' = Ref(<<"publish", u>>)
      /\ Ref(<<"release", th>>)' = IF p # <<>> /\ p[1].call = "Release" THEN p[1].arg ELSE NoObj
      /\ Ref(<<"publish", th>>)' = IF p # <<>> /\ p[1].call = "Publish" THEN p[1].new ELSE NoObj
      /\ Ref(<<"release", th>>) = NoObj /\ Ref(<<"publish", th>>) = NoObj
  BY <1>0, TopRefs
<1>2. ASSUME NEW x \in Objects, x # o PROVE Ref(<<"field", x>>)' = Ref(<<"field", x>>)
  <2>1. field'[x] = field[x] BY <1>2 DEF Elsewhere
  <2>2. /\ Ref(<<"field", x>>) = IF field[x].counts THEN field[x].m_ptr ELSE NoObj
        /\ Ref(<<"field", x>>)' = IF field'[x].counts THEN field'[x].m_ptr ELSE NoObj
    BY RefIs
  <2> QED BY <2>1, <2>2
<1>3. ASSUME NEW u \in Threads PROVE Ref(<<"raw", u>>)' = Ref(<<"raw", u>>)
  <2>1. raw[u] # o /\ raw[u] \in Objects \cup {NoObj} BY <1>0, FreshCalls DEF TypeOK, HolderTypeOK, Pointers
  <2>2. raw[u] # NoObj => cls'[raw[u]] = cls[raw[u]] BY <2>1 DEF Elsewhere
  <2>3. /\ Ref(<<"raw", u>>) = IF raw[u] # NoObj /\ cls[raw[u]] # OwnedObject THEN raw[u] ELSE NoObj
        /\ Ref(<<"raw", u>>)' = IF raw'[u] # NoObj /\ cls'[raw'[u]] # OwnedObject THEN raw'[u] ELSE NoObj
    BY RefIs
  <2> QED BY <2>2, <2>3
<1>4. \A u \in Threads : Ref(<<"maybe", u>>)' = Ref(<<"maybe", u>>) BY RefIs
<1>5. \A s \in Slots : Ref(<<"slot", s>>) = strong[s] /\ Ref(<<"slot", s>>)' = strong'[s] BY RefIs
<1>6. \A h \in StrongTokens :
              \/ \E s \in Slots : h = <<"slot", s>> /\ Ref(h) = strong[s] /\ Ref(h)' = strong'[s]
              \/ h = <<"field", o>> \/ h = <<"release", th>> \/ h = <<"publish", th>>
              \/ Ref(h)' = Ref(h)
  <2> TAKE h \in StrongTokens
  <2>1. CASE \E s \in Slots : h = <<"slot", s>> BY <1>5, <2>1
  <2>2. CASE \E x \in Objects : h = <<"field", x>> BY <1>2, <2>2
  <2>3. CASE \E u \in Threads : h = <<"maybe", u>> BY <1>4, <2>3
  <2>4. CASE \E u \in Threads : h = <<"raw", u>> BY <1>3, <2>4
  <2>5. CASE \E u \in Threads : h = <<"release", u>> BY <1>1, <2>5
  <2>6. CASE \E u \in Threads : h = <<"publish", u>> BY <1>1, <2>6
  <2> QED BY <2>1, <2>2, <2>3, <2>4, <2>5, <2>6, TokenKinds
<1>7. Ref(<<"field", o>>) = NoObj
  <2>1. field[o] = NullField BY FreshRefs
  <2>2. Ref(<<"field", o>>) = IF field[o].counts THEN field[o].m_ptr ELSE NoObj BY RefIs
  <2> QED BY <2>1, <2>2 DEF NullField
<1>8. Ref(<<"field", o>>)' = IF field'[o].counts THEN field'[o].m_ptr ELSE NoObj BY RefIs
<1> QED BY <1>1, <1>6, <1>7, <1>8, TokenKinds

(* The counters those references count at. *)
LEMMA AllocStrongAt ==
  ASSUME IInv, NEW o \in Objects, cls[o] = NoClass, Elsewhere(o)
  PROVE  /\ DOMAIN StrongAt = StrongTokens /\ DOMAIN StrongAt' = StrongTokens
         /\ \A h \in StrongTokens : Ref(h)' = Ref(h) => StrongAt'[h] = StrongAt[h]
         /\ \A h, k \in StrongTokens : Ref(k)' = Ref(h) => StrongAt'[k] = StrongAt[h]
         /\ \A h \in StrongTokens : Ref(h) = NoObj => StrongAt[h] = NoObj
         /\ \A h \in StrongTokens : Ref(h)' = NoObj => StrongAt'[h] = NoObj
         /\ \A h \in StrongTokens : Ref(h)' = o => StrongAt'[h] = Counter(o)'
<1>1. /\ DOMAIN StrongAt = StrongTokens /\ DOMAIN StrongAt' = StrongTokens
      /\ \A h \in StrongTokens :
           /\ StrongAt[h] = IF Ref(h) = NoObj THEN NoObj ELSE Counter(Ref(h))
           /\ StrongAt'[h] = IF Ref(h)' = NoObj THEN NoObj ELSE Counter(Ref(h))'
  BY DEF StrongAt, StrongTokens
<1>2. o # NoObj BY RefCountingAssumption
<1>3. ASSUME NEW h \in StrongTokens, NEW k \in StrongTokens, Ref(k)' = Ref(h) PROVE StrongAt'[k] = StrongAt[h]
  <2>1. PICK x : x = Ref(h) OBVIOUS
  <2>2. CASE x = NoObj BY <1>1, <1>3, <2>1, <2>2
  <2>3. CASE x # NoObj
    <3>1. x \in Objects /\ x # o BY <2>1, <2>3, FreshRefs, RefCounted
    <3>2. cls'[x] = cls[x] /\ weakRef'[x] = weakRef[x] BY <3>1 DEF Elsewhere
    <3>3. Counter(x)' = Counter(x) BY <3>2 DEF Counter
    <3>4. StrongAt'[k] = Counter(x)'
      <4>1. Ref(k)' = x BY <1>3, <2>1
      <4>2. StrongAt'[k] = IF Ref(k)' = NoObj THEN NoObj ELSE Counter(Ref(k))' BY <1>1
      <4> QED BY <2>3, <4>1, <4>2
    <3>5. StrongAt[h] = Counter(x) BY <1>1, <2>1, <2>3
    <3> QED BY <3>3, <3>4, <3>5
  <2> QED BY <2>2, <2>3
<1>4. ASSUME NEW h \in StrongTokens, Ref(h)' = o PROVE StrongAt'[h] = Counter(o)'
  <2>1. StrongAt'[h] = IF Ref(h)' = NoObj THEN NoObj ELSE Counter(Ref(h))' BY <1>1
  <2> QED BY <1>2, <1>4, <2>1
<1> QED BY <1>1, <1>3, <1>4

(* The weak counts around a step that makes an object. *)
LEMMA AllocWeakAt ==
  ASSUME IInv, NEW o \in Objects, cls[o] = NoClass, Elsewhere(o), NEW th \in Threads, NEW p \in Seq(Frames),
         StackStep(th, p), todo[th] = <<>>, \A i \in DOMAIN p : p[i].call # "ReleaseWeakRef"
  PROVE  /\ DOMAIN WeakAt = WeakTokens /\ DOMAIN WeakAt' = WeakTokens
         /\ <<"object", o>> \in WeakTokens /\ <<"weak", th>> \in WeakTokens
         /\ WeakAt[<<"object", o>>] = NoObj
         /\ WeakAt'[<<"object", o>>] = IF cls'[o] = FixedSwarm /\ m_refCount'[o] = 0 THEN NoObj ELSE weakRef'[o]
         /\ WeakAt[<<"weak", th>>] = weak[th].m_weakRef /\ WeakAt'[<<"weak", th>>] = weak'[th].m_weakRef
         /\ \A x \in WeakTokens :
              \/ x = <<"object", o>>
              \/ \E u \in Threads : x = <<"weak", u>> /\ weak'[u] # weak[u]
              \/ WeakAt'[x] = WeakAt[x]
<1>0. FramesTyped(todo) /\ FramesOK BY DEF IInv
<1>1. \A x \in WeakTokens :
              \/ x = <<"object", o>>
              \/ \E u \in Threads : x = <<"weak", u>> /\ weak'[u] # weak[u]
              \/ WeakAt'[x] = WeakAt[x]
  <2> TAKE x \in WeakTokens
  <2>1. CASE \E d \in Objects : x = <<"object", d>>
    <3>1. PICK d \in Objects : x = <<"object", d>> BY <2>1
    <3>2. CASE d = o BY <3>1, <3>2
    <3>3. CASE d # o
      <4>1. cls'[d] = cls[d] /\ m_refCount'[d] = m_refCount[d] /\ weakRef'[d] = weakRef[d] BY <3>3 DEF Elsewhere
      <4>2. /\ WeakAt[x] = IF cls[d] = FixedSwarm /\ m_refCount[d] = 0 THEN NoObj ELSE weakRef[d]
            /\ WeakAt'[x] = IF cls'[d] = FixedSwarm /\ m_refCount'[d] = 0 THEN NoObj ELSE weakRef'[d]
        BY <3>1, WeakIs
      <4> QED BY <4>1, <4>2
    <3> QED BY <3>2, <3>3
  <2>2. CASE \E u \in Threads : x = <<"weak", u>>
    <3>1. PICK u \in Threads : x = <<"weak", u>> BY <2>2
    <3>2. WeakAt[x] = weak[u].m_weakRef /\ WeakAt'[x] = weak'[u].m_weakRef BY <3>1, WeakIs
    <3> QED BY <3>1, <3>2
  <2>3. CASE \E u \in Threads, b \in Objects : x = <<"call", u, b>>
    <3>1. PICK u \in Threads, b \in Objects : x = <<"call", u, b>> BY <2>3
    <3>2. ReleaseWeakRef(b) \in Range(todo'[u]) <=> ReleaseWeakRef(b) \in Range(todo[u])
      <4>1. \A i \in DOMAIN p : p[i] # ReleaseWeakRef(b) BY DEF ReleaseWeakRef
      <4>2. u # th => (ReleaseWeakRef(b) \in Range(todo'[u]) <=> ReleaseWeakRef(b) \in Range(todo[u]))
        BY <1>0, CallsAfter
      <4>3. ReleaseWeakRef(b) \notin Range(todo[th]) BY DEF Range
      <4>4. ReleaseWeakRef(b) \notin Range(todo'[th]) BY <1>0, <4>1, <4>3, CallsAfter
      <4> QED BY <4>2, <4>3, <4>4
    <3>3. /\ WeakAt[x] = IF ReleaseWeakRef(b) \in Range(todo[u]) THEN b ELSE NoObj
          /\ WeakAt'[x] = IF ReleaseWeakRef(b) \in Range(todo'[u]) THEN b ELSE NoObj
      BY <3>1, WeakIs
    <3> QED BY <3>2, <3>3
  <2> QED BY <2>1, <2>2, <2>3, WeakIs
<1>2. WeakAt[<<"object", o>>] = NoObj
  <2>1. WeakAt[<<"object", o>>] = IF cls[o] = FixedSwarm /\ m_refCount[o] = 0 THEN NoObj ELSE weakRef[o] BY WeakIs
  <2>2. weakRef[o] = NoObj BY FreshRefs
  <2> QED BY <2>1, <2>2
<1>3. /\ <<"object", o>> \in WeakTokens /\ <<"weak", th>> \in WeakTokens
      /\ DOMAIN WeakAt = WeakTokens /\ DOMAIN WeakAt' = WeakTokens
      /\ WeakAt'[<<"object", o>>] = IF cls'[o] = FixedSwarm /\ m_refCount'[o] = 0 THEN NoObj ELSE weakRef'[o]
      /\ WeakAt[<<"weak", th>>] = weak[th].m_weakRef /\ WeakAt'[<<"weak", th>>] = weak'[th].m_weakRef
  BY WeakIs
<1> QED BY <1>1, <1>2, <1>3

(* The owners around a step that makes an object. *)
LEMMA AllocOwnerAt ==
  ASSUME IInv, NEW o \in Objects, cls[o] = NoClass, Elsewhere(o), NEW th \in Threads, NEW p \in Seq(Frames),
         StackStep(th, p), todo[th] = <<>>, UNCHANGED <<raw, holder>>, \A i \in DOMAIN p : p[i].call # "Free"
  PROVE  /\ DOMAIN OwnerAt = OwnerTokens /\ DOMAIN OwnerAt' = OwnerTokens /\ <<"place", th>> \in OwnerTokens
         /\ OwnerAt[<<"place", th>>] = NoObj /\ OwnerAt'[<<"place", th>>] = PlaceOf(p)
         /\ \A x \in OwnerTokens : x = <<"place", th>> \/ OwnerAt'[x] = OwnerAt[x]
         /\ \A x \in Objects : x # o => OwnerCount'[x] = OwnerCount[x]
         /\ OwnerCount[o] = 0
         /\ OwnerCount'[o] = IF cls'[o] = OwnedObject /\ life'[o] = "alive" THEN 1 ELSE 0
<1>0. FramesTyped(todo) /\ FramesOK /\ TypeOK BY DEF IInv
<1>1. \A u \in Threads : u # th => todo'[u] = todo[u] BY <1>0, StackAfter
<1>2. ASSUME NEW x \in OwnerTokens PROVE x = <<"place", th>> \/ OwnerAt'[x] = OwnerAt[x]
  <2>1. PICK u \in Threads : x \in {<<"holder", u>>, <<"raw", u>>, <<"place", u>>, <<"free", u>>} BY OwnerIs
  <2>2. CASE x = <<"holder", u>>
    <3>1. OwnerAt[x] = holder[u] /\ OwnerAt'[x] = holder'[u] BY <2>2, OwnerIs
    <3> QED BY <3>1
  <2>3. CASE x = <<"raw", u>>
    <3>1. raw[u] # o /\ raw[u] \in Objects \cup {NoObj} BY <1>0, FreshCalls DEF TypeOK, HolderTypeOK, Pointers
    <3>2. raw[u] # NoObj => cls'[raw[u]] = cls[raw[u]] BY <3>1 DEF Elsewhere
    <3>3. /\ OwnerAt[x] = IF raw[u] # NoObj /\ cls[raw[u]] = OwnedObject THEN raw[u] ELSE NoObj
          /\ OwnerAt'[x] = IF raw'[u] # NoObj /\ cls'[raw'[u]] = OwnedObject THEN raw'[u] ELSE NoObj
      BY <2>3, OwnerIs
    <3> QED BY <3>2, <3>3
  <2>4. CASE x = <<"place", u>>
    <3>1. OwnerAt[x] = PlaceOf(todo[u]) /\ OwnerAt'[x] = PlaceOf(todo'[u]) BY <2>4, OwnerIs
    <3> QED BY <1>1, <2>4, <3>1
  <2>5. CASE x = <<"free", u>>
    <3>1. /\ OwnerAt[x] = IF todo[u] # <<>> /\ Head(todo[u]).call = "Free" THEN Head(todo[u]).arg ELSE NoObj
          /\ OwnerAt'[x] = IF todo'[u] # <<>> /\ Head(todo'[u]).call = "Free" THEN Head(todo'[u]).arg ELSE NoObj
      BY <2>5, OwnerIs
    <3>2. CASE u # th BY <1>1, <3>1, <3>2
    <3>3. CASE u = th
      <4>1. p # <<>> => 1 \in DOMAIN p OBVIOUS
      <4>2. p # <<>> => Head(todo'[th]) = p[1] BY <1>0, TopAfter
      <4>3. p = <<>> => todo'[th] = <<>>
        <5>1. 2 \notin DOMAIN todo[th] OBVIOUS
        <5> QED BY <1>0, <5>1, TopAfter
      <4> QED BY <3>1, <3>3, <4>1, <4>2, <4>3
    <3> QED BY <3>2, <3>3
  <2> QED BY <2>1, <2>2, <2>3, <2>4, <2>5
<1>3. OwnerAt[<<"place", th>>] = NoObj /\ OwnerAt'[<<"place", th>>] = PlaceOf(p)
  <2>1. OwnerAt[<<"place", th>>] = PlaceOf(todo[th]) /\ OwnerAt'[<<"place", th>>] = PlaceOf(todo'[th]) BY OwnerIs
  <2>2. PlaceOf(todo'[th]) = IF Len(todo[th]) > 1 THEN PlaceOf(todo[th]) ELSE PlaceOf(p) BY <1>0, PlaceAfter
  <2>3. ~(Len(todo[th]) > 1) OBVIOUS
  <2>4. PlaceOf(todo[th]) = NoObj BY DEF PlaceOf
  <2> QED BY <2>1, <2>2, <2>3, <2>4
<1>4. /\ \A x \in Objects : x # o => OwnerCount'[x] = OwnerCount[x]
      /\ OwnerCount'[o] = IF cls'[o] = OwnedObject /\ life'[o] = "alive" THEN 1 ELSE 0
  BY DEF OwnerCount, Elsewhere
<1>5. OwnerCount[o] = 0
  <2>1. NoClass # OwnedObject BY ClassFacts
  <2> QED BY <2>1 DEF OwnerCount
<1> QED BY <1>2, <1>3, <1>4, <1>5, OwnerIs
-----------------------------------------------------------------------------
(* A reference moves on, and a third place takes a new one. *)
LEMMA ExactMoveAdd ==
  ASSUME NEW f, NEW g, DOMAIN g = DOMAIN f, NEW n, Exact(f, n),
         NEW h \in DOMAIN f, NEW k \in DOMAIN f, NEW l \in DOMAIN f, h # k, k # l, h # l,
         f[k] = g[h], f[l] \notin Objects,
         NEW b \in Objects, g[k] = f[h], g[l] = b,
         \A x \in DOMAIN f : x \notin {h, k, l} => g[x] = f[x], NEW m, Plus1(m, n, b)
  PROVE  Exact(g, m)
<1>1. PICK e : e = [x \in DOMAIN f |-> IF x = l THEN f[l] ELSE g[x]] OBVIOUS
<1>2. DOMAIN e = DOMAIN f BY <1>1
<1>3. f[h] = e[k] /\ f[k] = e[h] BY <1>1
<1>4. \A x \in DOMAIN f : x \notin {h, k} => e[x] = f[x] BY <1>1
<1>5. Exact(e, n) BY <1>2, <1>3, <1>4, ExactSwap
<1>6. DOMAIN g = DOMAIN e /\ l \in DOMAIN e /\ e[l] \notin Objects BY <1>1
<1>7. \A x \in DOMAIN e : x # l => g[x] = e[x] BY <1>1
<1> QED BY <1>5, <1>6, <1>7, ExactAdd

(* Two places more refer to b. *)
Plus2(m, n, b) == m[b] = n[b] + 2 /\ \A x \in Objects : x # b => m[x] = n[x]

(* The count goes up by two. *)
LEMMA ExactAdd2 ==
  ASSUME NEW f, NEW g, DOMAIN g = DOMAIN f, NEW n, Exact(f, n), n \in [Objects -> Nat],
         NEW h \in DOMAIN f, NEW k \in DOMAIN f, h # k, f[h] \notin Objects, f[k] \notin Objects,
         NEW b \in Objects, g[h] = b, g[k] = b,
         \A x \in DOMAIN f : x \notin {h, k} => g[x] = f[x],
         NEW m, Plus2(m, n, b)
  PROVE  Exact(g, m)
<1>1. PICK e : e = [x \in DOMAIN f |-> IF x = k THEN f[k] ELSE g[x]] OBVIOUS
<1>0. PICK o : o = [x \in Objects |-> IF x = b THEN n[b] + 1 ELSE n[x]] OBVIOUS
<1>2. DOMAIN e = DOMAIN f /\ e[h] = b BY <1>1
<1>3. \A x \in DOMAIN f : x # h => e[x] = f[x] BY <1>1
<1>4. Plus1(o, n, b) BY <1>0 DEF Plus1
<1>5. Exact(e, o) BY <1>2, <1>3, <1>4, ExactAdd
<1>6. DOMAIN g = DOMAIN e /\ k \in DOMAIN e /\ e[k] \notin Objects BY <1>1
<1>7. \A x \in DOMAIN e : x # k => g[x] = e[x] BY <1>1
<1>8. Plus1(m, o, b)
  <2>1. o[b] = n[b] + 1 /\ n[b] \in Nat BY <1>0
  <2>2. m[b] = o[b] + 1 BY <2>1 DEF Plus2
  <2> QED BY <1>0, <2>2 DEF Plus1, Plus2
<1> QED BY <1>5, <1>6, <1>7, <1>8, ExactAdd

(* The owners stay when the new object is not one that has an owner. *)
LEMMA AllocOwnersKept ==
  ASSUME IInv, NEW o \in Objects, cls[o] = NoClass, Elsewhere(o), NEW th \in Threads, NEW p \in Seq(Frames),
         StackStep(th, p), todo[th] = <<>>, UNCHANGED <<raw, holder>>, \A i \in DOMAIN p : p[i].call \notin {"Free", "Place"},
         cls'[o] # OwnedObject
  PROVE  OwnerExact'
<1>1. PICK f, g, n, m : f = OwnerAt /\ g = OwnerAt' /\ n = OwnerCount /\ m = OwnerCount' OBVIOUS
<1>2. PlaceOf(p) = NoObj
  <2>1. p # <<>> => Len(p) \in DOMAIN p
    <3>1. p # <<>> => Len(p) \in Nat /\ Len(p) # 0 OBVIOUS
    <3>2. DOMAIN p = 1..Len(p) OBVIOUS
    <3> QED BY <3>1, <3>2
  <2> QED BY <2>1 DEF PlaceOf, Last1
<1>3. DOMAIN f = OwnerTokens /\ DOMAIN g = OwnerTokens /\ \A x \in OwnerTokens : g[x] = f[x]
  BY <1>1, <1>2, AllocOwnerAt
<1>4. \A x \in Objects : m[x] = n[x]
  <2>1. OwnerCount[o] = 0 /\ OwnerCount'[o] = 0 BY AllocOwnerAt
  <2> QED BY <1>1, <2>1, AllocOwnerAt
<1>5. m = n BY <1>1, <1>4 DEF OwnerCount
<1>6. Exact(f, n) BY <1>1 DEF IInv, Counts, OwnerExact
<1>7. Exact(g, n) BY <1>3, <1>6, ExactSame
<1> QED BY <1>1, <1>5, <1>7 DEF OwnerExact, Exact, At

(* An object that is not about to be destroyed. *)
LEMMA AllocNotDying ==
  ASSUME IInv, NEW o \in Objects, cls[o] = NoClass, NEW th \in Threads, NEW p \in Seq(Frames),
         StackStep(th, p), todo[th] = <<>>, \A i \in DOMAIN p : p[i].call \notin {"Delete", "EndDelete"}
  PROVE  ~Dying(o)'
<1>1. FramesTyped(todo) BY DEF IInv
<1>2. \A i \in DOMAIN p : p[i] \notin DyingFrames(o) BY DEF DyingFrames, Delete, EndDelete
<1>3. PICK C : C = DyingFrames(o) OBVIOUS
<1>4. ~OccursIn(todo, C) BY <1>3, FreshCalls DEF Dying, Occurs
<1>5. ~OccursIn(todo', C) BY <1>1, <1>2, <1>3, <1>4, OccursKept
<1> QED BY <1>3, <1>5 DEF Dying, Occurs, DyingFrames, Delete, EndDelete

(* What Make creates by itself. *)
Makable(c) == c \in Classes /\ c \notin Members /\ c.policy \in {"Simple", "WeakRef", "FixedSwarm"}

(* The object that its constructor has finished. *)
LEMMA ConstructedObject ==
  ASSUME IInv, NEW o \in Objects, cls[o] = NoClass, NEW th \in Threads, NEW to \in Own(th), NEW c, Makable(c), NEW keep \in BOOLEAN,
         CanConstruct(th, c, to, keep), Construct(c, o, to),
         m_weakRefCount' = [m_weakRefCount EXCEPT ![o] = WeakCount(c, keep)],
         UNCHANGED <<program, m_headMember, storage>>, ~Dying(o)'
  PROVE  /\ Elsewhere(o) /\ Counter(o)' = o
         /\ ClassOK(o)' /\ FieldOK(o)' /\ WeakRefOK(o)' /\ CountsOK(o)' /\ Live(o)'
         /\ keep => WeakLive([m_ptr |-> o, m_weakRef |-> o])'
         /\ c # OwnedObject /\ c # NoClass
<1>0. TypeOK BY DEF IInv
<1>1. c \in Classes \cup {NoClass} /\ c # NoClass /\ c # OwnedObject
  BY ClassFacts DEF Makable
<1>2. /\ cls'[o] = c /\ life'[o] = "alive" /\ weakRef'[o] = IF HasWeakRef(c) THEN o ELSE NoObj
      /\ m_refCount'[o] = 1 /\ field'[o] = CntPtrTo(strong[to]) /\ m_weakRefCount'[o] = WeakCount(c, keep)
  BY <1>0 DEF Construct, TypeOK, RefTypeOK
<1>3. \A x \in Objects : x # o => /\ cls'[x] = cls[x] /\ life'[x] = life[x] /\ weakRef'[x] = weakRef[x]
                                 /\ m_refCount'[x] = m_refCount[x] /\ field'[x] = field[x]
                                 /\ m_weakRefCount'[x] = m_weakRefCount[x]
  BY <1>0 DEF Construct, TypeOK, RefTypeOK
<1>4. Elsewhere(o) BY <1>3 DEF Elsewhere
<1>5. /\ m_headMember[o] = <<>> /\ storage[o] = {} /\ o # NoObj /\ \A x \in Objects : weakRef[x] # o
      /\ strong[to] # o
  BY FreshRefs, OwnPlaces
<1>6. c.policy = "Simple" <=> ~HasWeakRef(c) BY DEF Makable, HasWeakRef
<1>7. Counter(o)' = o BY <1>2, <1>6 DEF Counter
<1>8. ClassOK(o)'
  <2>1. IsStatic(o)' <=> IsStatic(o) BY DEF IsStatic, StaticClasses
  <2>2. ~IsStatic(o)
    <3>1. NoClass.policy = "Free" BY ClassFacts
    <3> QED BY <3>1 DEF IInv, Heap, ClassOK
  <2>3. c.policy # "NoRefCount" BY DEF Makable
  <2> QED BY <1>1, <1>2, <1>5, <2>1, <2>2, <2>3 DEF ClassOK
<1>9. FieldOK(o)'
  <2>1. PICK s : s = strong[to] OBVIOUS
  <2>2. s \in Objects \cup {NoObj} BY <1>0, <2>1, OwnPlaces DEF TypeOK, RefTypeOK, Pointers
  <2>3. s # NoObj => c.takes BY <2>1 DEF CanConstruct
  <2>4. field'[o] = [m_ptr |-> s, counts |-> s # NoObj] BY <1>2, <2>1 DEF CntPtrTo
  <2>5. s = NoObj => field'[o] = NullField BY <2>4 DEF NullField
  <2>6. field'[o].m_ptr = s /\ (s = NoObj => field'[o].counts = FALSE) BY <2>4, <2>5 DEF NullField
  <2>7. s # NoObj => weakRef'[s] = weakRef[s] /\ weakRef[s] # o /\ weakRef'[s] # o BY <1>3, <1>5, <2>1, <2>2
  <2>8. s # NoObj => weakRef'[o] = NoObj \/ weakRef'[o] # weakRef'[field'[o].m_ptr] BY <1>2, <2>6, <2>7
  <2> QED BY <1>2, <2>3, <2>5, <2>6, <2>8 DEF FieldOK
<1>10. WeakRefOK(o)' BY <1>2, <1>5 DEF WeakRefOK, Makable
<1>11. CountsOK(o)'
  <2>1. Pos(o)' BY <1>2 DEF Pos
  <2>2. keep => c.policy = "WeakRef" BY <1>1, ClassFacts DEF CanConstruct, Makable
  <2>3. m_weakRefCount'[o] > 0 <=> HasWeakRef(c)
    <3>1. HasWeakRef(c) => WeakCount(c, keep) > 0 BY DEF WeakCount
    <3>2. ~HasWeakRef(c) => ~keep /\ WeakCount(c, keep) = 0 BY <2>2 DEF WeakCount, HasWeakRef
    <3> QED BY <1>2, <3>1, <3>2
  <2>4. c \notin Members BY DEF Makable
  <2>5. Pos(Counter(o))' BY <1>7, <2>1
  <2> QED BY <1>2, <1>7, <2>1, <2>3, <2>4, <2>5 DEF CountsOK
<1>12. o \in Owned(o)' BY DEF Owned
<1>13. Live(o)'
  <2>1. HasWeakRef(c) => weakRef'[o] = o BY <1>2
  <2>2. HasWeakRef(c) => o \in Owned(weakRef[o])' BY <1>12, <2>1
  <2> QED BY <1>1, <1>2, <2>1, <2>2 DEF Live
<1>14. keep => WeakLive([m_ptr |-> o, m_weakRef |-> o])'
  <2>1. keep => c.policy = "WeakRef" /\ HasWeakRef(c) BY <1>1, ClassFacts DEF CanConstruct, Makable, HasWeakRef
  <2>2. PICK w : w = [m_ptr |-> o, m_weakRef |-> o] OBVIOUS
  <2>3. w.m_ptr = o /\ w.m_weakRef = o BY <2>2
  <2>4. keep => WeakLive(w)' BY <1>1, <1>2, <1>12, <2>1, <2>3 DEF WeakLive
  <2> QED BY <2>2, <2>4
<1> QED BY <1>1, <1>4, <1>7, <1>8, <1>9, <1>10, <1>11, <1>13, <1>14

(* The counts of strong references when an object takes over one. *)
LEMMA ConstructStrong ==
  ASSUME IInv, NEW o \in Objects, cls[o] = NoClass, NEW th \in Threads, NEW to \in Own(th),
         NEW p \in Seq(Frames), StackStep(th, p), todo[th] = <<>>,
         Elsewhere(o), Counter(o)' = o, m_refCount'[o] = 1, field'[o] = CntPtrTo(strong[to]), UNCHANGED <<raw, maybe>>,
         NEW v, strong' = [strong EXCEPT ![to] = v],
         \/ v = o /\ p = <<>>
         \/ v = NoObj /\ p # <<>> /\ p[1] = Release(o), Live(o)'
  PROVE  /\ StrongExact'
         /\ \A h \in StrongTokens : FromHere(th, h)
         /\ \A h \in StrongTokens : Ref(h)' = NoObj \/ Ref(h)' = Ref(h) \/ (Ref(h)' # o /\ Live(Ref(h)')) \/ (Ref(h)' = o /\ Live(o)')
<1>0. TypeOK BY DEF IInv
<1>1. PICK h, k, l, r : h = <<"slot", to>> /\ k = <<"field", o>> /\ l = <<"release", th>> /\ r = <<"publish", th>> OBVIOUS
<1>2. /\ h \in StrongTokens /\ k \in StrongTokens /\ l \in StrongTokens /\ r \in StrongTokens
      /\ h # k /\ h # l /\ k # l /\ h # r /\ k # r /\ l # r
  BY <1>1, TokenKinds, OwnPlaces
<1>3. o # NoObj /\ to \in Slots BY RefCountingAssumption, OwnPlaces
<1>4. strong'[to] = v /\ \A s \in Slots : s # to => strong'[s] = strong[s] BY <1>0, <1>3 DEF TypeOK, RefTypeOK
<1>5. PICK s : s = strong[to] OBVIOUS
<1>6. Ref(h) = s /\ Ref(h)' = v BY <1>1, <1>4, <1>5, RefIs
<1>7. Ref(k) = NoObj /\ Ref(k)' = s
  <2>1. Ref(k) = NoObj /\ Ref(k)' = IF field'[o].counts THEN field'[o].m_ptr ELSE NoObj BY <1>1, AllocRefs
  <2>2. field'[o].m_ptr = s /\ field'[o].counts = (s # NoObj) BY <1>5 DEF CntPtrTo
  <2> QED BY <2>1, <2>2
<1>8. /\ Ref(l) = NoObj /\ Ref(l)' = IF v = o THEN NoObj ELSE o
      /\ Ref(r) = NoObj /\ Ref(r)' = NoObj
  <2>1. /\ Ref(l)' = IF p # <<>> /\ p[1].call = "Release" THEN p[1].arg ELSE NoObj
        /\ Ref(r)' = IF p # <<>> /\ p[1].call = "Publish" THEN p[1].new ELSE NoObj
        /\ Ref(l) = NoObj /\ Ref(r) = NoObj
    BY <1>1, AllocRefs
  <2>2. p # <<>> => p[1].call = "Release" /\ p[1].arg = o BY DEF Release
  <2> QED BY <1>3, <2>1, <2>2
<1>9. \A x \in StrongTokens : x \notin {h, k, l} => Ref(x)' = Ref(x)
  <2> SUFFICES ASSUME NEW x \in StrongTokens, x \notin {h, k, l, r} PROVE Ref(x)' = Ref(x) BY <1>8
  <2>1. \/ \E q \in Slots : x = <<"slot", q>> /\ Ref(x) = strong[q] /\ Ref(x)' = strong'[q]
        \/ Ref(x)' = Ref(x)
    BY <1>1, AllocRefs
  <2> QED BY <1>1, <1>4, <2>1
<1>10. StrongExact'
  <2>1. PICK f, g, n, m : f = StrongAt /\ g = StrongAt' /\ n = m_refCount /\ m = m_refCount' OBVIOUS
  <2>2. DOMAIN f = StrongTokens /\ DOMAIN g = StrongTokens BY <2>1, AllocStrongAt
  <2>3. \A x \in DOMAIN f : x \notin {h, k, l} => g[x] = f[x] BY <1>9, <2>1, <2>2, AllocStrongAt
  <2>4. f[k] = NoObj /\ f[l] = NoObj BY <1>2, <1>7, <1>8, <2>1, AllocStrongAt
  <2>5. g[k] = f[h] BY <1>2, <1>6, <1>7, <2>1, AllocStrongAt
  <2>6. Plus1(m, n, o)
    <3>1. m_refCount[o] = 0 BY FreshRefs
    <3> QED BY <2>1, <3>1 DEF Plus1, Elsewhere
  <2>7. NoObj \notin Objects BY RefCountingAssumption
  <2>8. Exact(f, n) BY <2>1 DEF IInv, Counts, StrongExact
  <2>9. CASE v = o
    <3>1. g[h] = o BY <1>2, <1>6, <2>1, <2>9, AllocStrongAt
    <3>2. g[l] = f[l] BY <1>2, <1>8, <2>1, <2>9, AllocStrongAt
    <3>3. \A x \in DOMAIN f : x \notin {h, k} => g[x] = f[x] BY <2>3, <3>2
    <3>4. Exact(g, m) BY <1>2, <2>2, <2>4, <2>5, <2>6, <2>7, <2>8, <3>1, <3>3, ExactSwapAdd
    <3> QED BY <2>1, <3>4 DEF StrongExact, Exact, At
  <2>10. CASE v = NoObj
    <3>1. g[h] = NoObj BY <1>2, <1>6, <2>1, <2>10, AllocStrongAt
    <3>2. g[l] = o
      <4>1. Ref(l)' = o BY <1>3, <1>8, <2>10
      <4> QED BY <1>2, <2>1, <4>1, AllocStrongAt
    <3>3. f[k] = g[h] /\ f[l] \notin Objects BY <2>4, <2>7, <3>1
    <3>4. Exact(g, m) BY <1>2, <2>2, <2>3, <2>5, <2>6, <2>8, <3>2, <3>3, ExactMoveAdd
    <3> QED BY <2>1, <3>4 DEF StrongExact, Exact, At
  <2> QED BY <2>9, <2>10
<1>11. ASSUME NEW x \in StrongTokens
       PROVE  /\ FromHere(th, x)
              /\ Ref(x)' = NoObj \/ Ref(x)' = Ref(x) \/ (Ref(x)' # o /\ Live(Ref(x)')) \/ (Ref(x)' = o /\ Live(o)')
  <2>1. CASE x = k
    <3>1. CASE s = NoObj BY <1>7, <2>1, <3>1 DEF FromHere
    <3>2. CASE s # NoObj
      <4>1. Live(s) BY <1>2, <1>6, <3>2, RefCounted
      <4>2. s # o BY <1>2, <1>6, FreshRefs
      <4>3. h[1] = "slot" /\ h[2] \in Own(th) BY <1>1
      <4>4. PICK y : y = Ref(x)' OBVIOUS
      <4>5. y = s BY <1>7, <2>1, <4>4
      <4>6. FromHere(th, x) BY <1>2, <1>6, <4>3, <4>4, <4>5 DEF FromHere
      <4>7. Live(y) BY <4>1, <4>5
      <4> QED BY <4>2, <4>4, <4>5, <4>6, <4>7
    <3> QED BY <3>1, <3>2
  <2>2. CASE x # k /\ Ref(x)' = o
    <3>1. cls[o] # FixedSwarm BY ClassFacts
    <3>2. PICK y : y = Ref(x)' OBVIOUS
    <3>3. FromHere(th, x) BY <2>2, <3>1, <3>2 DEF FromHere
    <3> QED BY <2>2, <3>3
  <2>3. CASE x # k /\ Ref(x)' # o
    <3>1. Ref(x)' = NoObj \/ Ref(x)' = Ref(x) BY <1>6, <1>8, <1>9, <2>3
    <3> QED BY <3>1 DEF FromHere
  <2> QED BY <2>1, <2>2, <2>3
<1> QED BY <1>10, <1>11

(* The weak counts of an object whose constructor may keep a WeakPtr to it. *)
LEMMA ConstructWeak ==
  ASSUME IInv, NEW o \in Objects, cls[o] = NoClass, NEW th \in Threads, NEW to \in Own(th), NEW c, Makable(c), NEW keep \in BOOLEAN,
         CanConstruct(th, c, to, keep), Construct(c, o, to), Elsewhere(o),
         m_weakRefCount' = [m_weakRefCount EXCEPT ![o] = WeakCount(c, keep)],
         weak' = IF keep THEN [weak EXCEPT ![th] = [m_ptr |-> o, m_weakRef |-> o]] ELSE weak,
         NEW p \in Seq(Frames), StackStep(th, p), todo[th] = <<>>, \A i \in DOMAIN p : p[i].call # "ReleaseWeakRef"
  PROVE  WeakExact'
<1>0. TypeOK BY DEF IInv
<1>1. PICK f, g, n, m, h, k : /\ f = WeakAt /\ g = WeakAt' /\ n = m_weakRefCount /\ m = m_weakRefCount'
                              /\ h = <<"object", o>> /\ k = <<"weak", th>>
  OBVIOUS
<1>2. DOMAIN f = WeakTokens /\ DOMAIN g = WeakTokens /\ h \in WeakTokens /\ k \in WeakTokens /\ h # k
  BY <1>1, AllocWeakAt
<1>3. Exact(f, n) /\ n \in [Objects -> Nat] BY <1>0, <1>1 DEF IInv, Counts, WeakExact, TypeOK, RefTypeOK
<1>4. weak \in [Threads -> [m_ptr : Pointers, m_weakRef : Pointers]] BY <1>0 DEF TypeOK, RefTypeOK
<1>5. \A u \in Threads : u # th => weak'[u] = weak[u] BY <1>4
<1>6. \A x \in WeakTokens : x \notin {h, k} => g[x] = f[x] BY <1>1, <1>5, AllocWeakAt
<1>7. f[h] = NoObj BY <1>1, AllocWeakAt
<1>8. g[h] = IF HasWeakRef(c) THEN o ELSE NoObj
  <2>1. m_refCount'[o] = 1 /\ weakRef'[o] = IF HasWeakRef(c) THEN o ELSE NoObj
    BY <1>0 DEF Construct, TypeOK, RefTypeOK
  <2>2. g[h] = IF cls'[o] = FixedSwarm /\ m_refCount'[o] = 0 THEN NoObj ELSE weakRef'[o] BY <1>1, AllocWeakAt
  <2> QED BY <2>1, <2>2
<1>9. NoObj \notin Objects BY RefCountingAssumption
<1>10. n[o] = 0 /\ m[o] = WeakCount(c, keep) /\ \A x \in Objects : x # o => m[x] = n[x]
  BY <1>0, <1>1, FreshRefs DEF TypeOK, RefTypeOK
<1>11. CASE ~keep
  <2>1. g[k] = f[k]
    <3>1. weak' = weak BY <1>11
    <3> QED BY <1>1, <3>1, AllocWeakAt
  <2>2. CASE HasWeakRef(c)
    <3>1. Plus1(m, n, o) BY <1>10, <1>11, <2>2 DEF Plus1, WeakCount
    <3>2. \A x \in DOMAIN f : x # h => g[x] = f[x] BY <1>2, <1>6, <2>1
    <3>3. g[h] = o BY <1>8, <2>2
    <3>4. Exact(g, m) BY <1>2, <1>3, <1>7, <1>9, <3>1, <3>2, <3>3, ExactAdd
    <3> QED BY <1>1, <3>4 DEF WeakExact, Exact, At
  <2>3. CASE ~HasWeakRef(c)
    <3>1. m[o] = 0 BY <1>10, <1>11, <2>3 DEF WeakCount
    <3>2. m = n BY <1>0, <1>1, <1>10, <3>1 DEF TypeOK, RefTypeOK
    <3>3. \A x \in DOMAIN f : g[x] = f[x] BY <1>2, <1>6, <1>7, <1>8, <2>1, <2>3
    <3>4. Exact(g, n) BY <1>2, <1>3, <3>3, ExactSame
    <3> QED BY <1>1, <3>2, <3>4 DEF WeakExact, Exact, At
  <2> QED BY <2>2, <2>3
<1>12. CASE keep
  <2>1. HasWeakRef(c) BY <1>12, ClassFacts DEF CanConstruct, Makable, HasWeakRef
  <2>2. f[k] = NoObj
    <3>1. weak[th].m_ptr = NoObj BY <1>12 DEF CanConstruct
    <3>2. weak[th] = EmptyWeakPtr BY <1>9, <3>1, WeakFull
    <3>3. EmptyWeakPtr.m_weakRef = NoObj BY WeakFull
    <3>4. f[k] = weak[th].m_weakRef BY <1>1, AllocWeakAt
    <3> QED BY <3>2, <3>3, <3>4
  <2>3. g[k] = o
    <3>1. weak'[th] = [m_ptr |-> o, m_weakRef |-> o] BY <1>4, <1>12
    <3>2. g[k] = weak'[th].m_weakRef BY <1>1, AllocWeakAt
    <3> QED BY <3>1, <3>2
  <2>4. g[h] = o BY <1>8, <2>1
  <2>5. m[o] = n[o] + 2 BY <1>10, <1>12, <2>1 DEF WeakCount
  <2>7. f[h] \notin Objects /\ f[k] \notin Objects BY <1>7, <1>9, <2>2
  <2>8. DOMAIN g = DOMAIN f /\ h \in DOMAIN f /\ k \in DOMAIN f BY <1>2
  <2>9. \A x \in DOMAIN f : x \notin {h, k} => g[x] = f[x] BY <1>2, <1>6
  <2>10. Plus2(m, n, o) BY <1>10, <2>5 DEF Plus2
  <2>11. h # k BY <1>2
  <2>6. Exact(g, m) BY <1>3, <2>3, <2>4, <2>7, <2>8, <2>9, <2>10, <2>11, ExactAdd2
  <2> QED BY <1>1, <2>6 DEF WeakExact, Exact, At
<1> QED BY <1>11, <1>12

(* A constructor that is done, with what follows: the caller gets the      *)
(* object, or its guard releases it.                                       *)
LEMMA ConstructStep ==
  ASSUME IInv, NEW th \in Threads, NEW to \in Own(th), NEW c \in program.classes, Makable(c), NEW keep \in BOOLEAN,
         NEW o \in Objects, cls[o] = NoClass, CanConstruct(th, c, to, keep), Construct(c, o, to),
         m_weakRefCount' = [m_weakRefCount EXCEPT ![o] = WeakCount(c, keep)],
         weak' = IF keep THEN [weak EXCEPT ![th] = [m_ptr |-> o, m_weakRef |-> o]] ELSE weak,
         UNCHANGED <<program, m_headMember, storage, errorVars, holderVars>>,
         NEW p \in Seq(Frames), StackStep(th, p), todo[th] = <<>>,
         NEW v, strong' = [strong EXCEPT ![to] = v],
         \/ v = o /\ p = <<>>
         \/ v = NoObj /\ p = <<Release(o)>>
  PROVE  IInv'
<1>0. TypeOK /\ FramesTyped(todo) /\ FramesOK BY DEF IInv
<1>1. \A i \in DOMAIN p : i = 1 /\ p[i] = Release(o) /\ p[i].call = "Release"
  <2>1. CASE p = <<>> BY <2>1
  <2>2. CASE p = <<Release(o)>>
    <3>1. PICK r \in Frames : r = Release(o) BY FrameKinds
    <3>2. p = <<r>> BY <2>2, <3>1
    <3>3. DOMAIN p = {1} /\ p[1] = r BY <3>2, FewCalls
    <3> QED BY <3>1, <3>3 DEF Release
  <2> QED BY <2>1, <2>2
<1>2. ~Dying(o)' BY <1>1, AllocNotDying
<1>3. /\ Elsewhere(o) /\ Counter(o)' = o
      /\ ClassOK(o)' /\ FieldOK(o)' /\ WeakRefOK(o)' /\ CountsOK(o)' /\ Live(o)'
      /\ keep => WeakLive([m_ptr |-> o, m_weakRef |-> o])'
      /\ c # OwnedObject /\ c # NoClass
  BY <1>2, ConstructedObject
<1>4. UNCHANGED <<raw, maybe, holder, handled, reported>> BY DEF errorVars, holderVars
<1>5. m_refCount'[o] = 1 /\ field'[o] = CntPtrTo(strong[to]) /\ cls'[o] = c /\ life'[o] = "alive"
  BY <1>0 DEF Construct, TypeOK, RefTypeOK
<1>6. /\ StrongExact'
      /\ \A h \in StrongTokens : FromHere(th, h)
      /\ \A h \in StrongTokens : Ref(h)' = NoObj \/ Ref(h)' = Ref(h) \/ (Ref(h)' # o /\ Live(Ref(h)')) \/ (Ref(h)' = o /\ Live(o)')
  <2>1. (v = o /\ p = <<>>) \/ (v = NoObj /\ p # <<>> /\ p[1] = Release(o))
    <3>1. CASE v = o /\ p = <<>> BY <3>1
    <3>2. CASE v = NoObj /\ p = <<Release(o)>>
      <4>1. Len(p) = 1 BY <3>2
      <4>2. 1 \in DOMAIN p /\ p # <<>> BY <4>1
      <4> QED BY <1>1, <3>2, <4>2
    <3> QED BY <3>1, <3>2
  <2> QED BY <1>3, <1>4, <1>5, <2>1, ConstructStrong
<1>7. WeakExact' BY <1>1, <1>3, ConstructWeak
<1>8. OwnerExact' BY <1>1, <1>3, <1>4, <1>5, AllocOwnersKept
<1>9. NewCalls(o, p) BY <1>1 DEF NewCalls, LastCalls
<1>10. to \in Slots BY OwnPlaces
<1>11. TypeOK'
  <2>1. v \in Pointers BY DEF Pointers
  <2>2. CntPtrTo(strong[to]) \in [m_ptr : Pointers, counts : BOOLEAN] BY <1>0, <1>10 DEF CntPtrTo, TypeOK, RefTypeOK
  <2>3. WeakCount(c, keep) \in Nat BY DEF WeakCount
  <2>4. [m_ptr |-> o, m_weakRef |-> o] \in [m_ptr : Pointers, m_weakRef : Pointers] BY DEF Pointers
  <2>5. (IF HasWeakRef(c) THEN o ELSE NoObj) \in Pointers BY DEF Pointers
  <2>6. RefTypeOK' BY <1>0, <2>1, <2>2, <2>3, <2>4, <2>5 DEF TypeOK, RefTypeOK, Construct
  <2> QED BY <1>0, <2>6 DEF TypeOK, ErrorTypeOK, HolderTypeOK, errorVars, holderVars, Value, Error
<1>12. \A u \in Threads : weak'[u] = weak[u] \/ WeakLive(weak[u])'
  <2> TAKE u \in Threads
  <2>1. CASE u = th /\ keep
    <3>1. PICK w : w = [m_ptr |-> o, m_weakRef |-> o] OBVIOUS
    <3>2. weak'[u] = w BY <1>0, <2>1, <3>1 DEF TypeOK, RefTypeOK
    <3>3. WeakLive(w)' BY <1>3, <2>1, <3>1
    <3> QED BY <3>2, <3>3
  <2>2. CASE ~(u = th /\ keep) BY <1>0, <2>2 DEF TypeOK, RefTypeOK
  <2> QED BY <2>1, <2>2
<1>13. \A u \in Threads : u # th => SameLocals(u)
  <2> SUFFICES ASSUME NEW u \in Threads, u # th PROVE SameLocals(u) OBVIOUS
  <2>1. weak'[u] = weak[u] BY <1>0 DEF TypeOK, RefTypeOK
  <2>2. \A s \in Own(u) : strong'[s] = strong[s]
    <3>1. \A s \in Own(u) : s # to /\ s \in Slots BY OwnPlaces
    <3> QED BY <1>0, <3>1 DEF TypeOK, RefTypeOK
  <2> QED BY <1>4, <2>1, <2>2 DEF SameLocals
<1>14. \A i \in DOMAIN p : FrameOK(th, i)'
  <2> SUFFICES ASSUME NEW i \in DOMAIN p PROVE FrameOK(th, i)' OBVIOUS
  <2>1. i = 1 /\ todo'[th][i] = p[i] BY <1>0, <1>1, StackAfter DEF Stacked
  <2>2. todo'[th][1].call \in {"Release", "ClearHolder", "Free"} BY <1>1, <2>1
  <2> QED BY <2>1, <2>2, ReleaseFrame
<1>15. Counts' BY <1>6, <1>7, <1>8 DEF Counts
<1>16. life'[o] # "dead" BY <1>5
<1> QED BY <1>3, <1>4, <1>6, <1>9, <1>11, <1>12, <1>13, <1>14, <1>15, <1>16, AllocStep

(* Make *)
LEMMA MakeStep ==
  ASSUME IInv, NEW th \in Threads, NEW c \in program.classes, Makable(c), NEW to \in Own(th), NEW keep \in BOOLEAN,
         Make(th, c, to, keep), UNCHANGED <<errorVars, holderVars>>
  PROVE  IInv'
<1>0. TypeOK /\ FramesTyped(todo) BY DEF IInv
<1>1. PICK o, p : o = Allocated /\ p = <<>> OBVIOUS
<1>2. o \in Objects /\ cls[o] = NoClass BY <1>0, <1>1, AllocatedFree DEF Make, TypeOK, RefTypeOK
<1>3. p \in Seq(Frames) BY <1>1
<1>4. StackStep(th, p) /\ todo[th] = <<>>
  <2>1. Start(th, p) /\ InUserCode(th) BY <1>0, <1>1 DEF Make, Start, InUserCode, FramesTyped
  <2> QED BY <1>3, <2>1, StartStack
<1>5. /\ CanConstruct(th, c, to, keep) /\ Construct(c, o, to)
      /\ m_weakRefCount' = [m_weakRefCount EXCEPT ![o] = WeakCount(c, keep)]
      /\ weak' = IF keep THEN [weak EXCEPT ![th] = [m_ptr |-> o, m_weakRef |-> o]] ELSE weak
      /\ strong' = [strong EXCEPT ![to] = o]
      /\ UNCHANGED <<program, m_headMember, storage>>
  BY <1>1 DEF Make
<1> QED BY <1>1, <1>2, <1>3, <1>4, <1>5, ConstructStep

(* Make, when InitializeThis throws. *)
LEMMA MakeInitializeThrowsStep ==
  ASSUME IInv, NEW th \in Threads, NEW c \in program.classes, Makable(c), NEW to \in Own(th), NEW keep \in BOOLEAN,
         MakeInitializeThrows(th, c, to, keep), UNCHANGED <<errorVars, holderVars>>
  PROVE  IInv'
<1>0. TypeOK /\ FramesTyped(todo) BY DEF IInv
<1>1. PICK o : o = Allocated OBVIOUS
<1>2. o \in Objects /\ cls[o] = NoClass BY <1>0, <1>1, AllocatedFree DEF MakeInitializeThrows, TypeOK, RefTypeOK
<1>3. PICK r \in Frames : r = Release(o) BY <1>2, FrameKinds
<1>4. PICK p, v : p = <<r>> /\ v = NoObj OBVIOUS
<1>5. p \in Seq(Frames) /\ p = <<Release(o)>> BY <1>3, <1>4, FewCalls
<1>6. StackStep(th, p) /\ todo[th] = <<>> BY <1>1, <1>5, StartStack DEF MakeInitializeThrows
<1>7. /\ CanConstruct(th, c, to, keep) /\ Construct(c, o, to)
      /\ m_weakRefCount' = [m_weakRefCount EXCEPT ![o] = WeakCount(c, keep)]
      /\ weak' = IF keep THEN [weak EXCEPT ![th] = [m_ptr |-> o, m_weakRef |-> o]] ELSE weak
      /\ strong' = [strong EXCEPT ![to] = v]
      /\ UNCHANGED <<program, m_headMember, storage>>
  BY <1>1, <1>4 DEF MakeInitializeThrows
<1> QED BY <1>2, <1>4, <1>5, <1>6, <1>7, ConstructStep

(* A new ErrorCode. *)
LEMMA MakeErrorCodeStep ==
  ASSUME IInv, NEW th \in Threads, NEW to \in Own(th), MakeErrorCode(th, to), UNCHANGED holderVars
  PROVE  IInv'
<1>1. ErrorCodeState \in program.classes BY DEF MakeErrorCode, UsesErrors
<1>2. Makable(ErrorCodeState)
  <2>1. ErrorCodeState \in Classes /\ ErrorCodeState.policy = "Simple" BY ClassFacts
  <2>2. ErrorCodeState \notin Members BY <2>1, ClassFacts
  <2> QED BY <2>1, <2>2 DEF Makable
<1> QED BY <1>1, <1>2, MakeStep DEF MakeErrorCode

(* Make, when the constructor throws after it kept a WeakPtr: a container  *)
(* without an object stays.                                                *)
LEMMA MakeThrowsKeepStep ==
  ASSUME IInv, NEW th \in Threads, NEW c \in program.classes, Makable(c), c # ErrorCodeState, NEW to \in Own(th),
         MakeThrows(th, c, to, TRUE), UNCHANGED <<errorVars, holderVars>>
  PROVE  IInv'
<1>0. TypeOK /\ FramesTyped(todo) /\ FramesOK BY DEF IInv
<1>1. PICK o, s, w : o = Allocated /\ s = strong[to] /\ w = [m_ptr |-> o, m_weakRef |-> o] OBVIOUS
<1>2. o \in Objects /\ cls[o] = NoClass BY <1>0, <1>1, AllocatedFree DEF MakeThrows, TypeOK, RefTypeOK
<1>3. /\ InUserCode(th) /\ CanConstruct(th, c, to, TRUE)
      /\ cls' = [cls EXCEPT ![o] = c] /\ life' = [life EXCEPT ![o] = "dead"]
      /\ m_weakRefCount' = [m_weakRefCount EXCEPT ![o] = 1]
      /\ weak' = [weak EXCEPT ![th] = w] /\ strong' = [strong EXCEPT ![to] = NoObj]
      /\ Start(th, ReleaseOf(s))
      /\ UNCHANGED <<program, weakRef, m_refCount, m_headMember, storage, field>>
  BY <1>1 DEF MakeThrows
<1>4. to \in Slots /\ s \in Pointers BY <1>0, <1>1, OwnPlaces DEF TypeOK, RefTypeOK
<1>5. PICK p : p = ReleaseOf(s) OBVIOUS
<1>6. /\ p \in Seq(Frames) /\ \A i \in DOMAIN p : i = 1 /\ p[i].call = "Release" /\ p[i].arg = s
      /\ s = NoObj => p = <<>>
      /\ s # NoObj => p # <<>> /\ p[1].call = "Release" /\ p[1].arg = s
  <2>1. CASE s = NoObj
    <3>1. p = <<>> BY <1>5, <2>1 DEF ReleaseOf
    <3> QED BY <2>1, <3>1
  <2>2. CASE s # NoObj
    <3>1. PICK r \in Frames : r = Release(s) BY <1>4, <2>2, FrameKinds DEF Pointers
    <3>2. p = <<r>> BY <1>5, <2>2, <3>1 DEF ReleaseOf
    <3>3. p \in Seq(Frames) /\ DOMAIN p = {1} /\ p[1] = r /\ p # <<>> BY <3>2, FewCalls
    <3> QED BY <2>2, <3>1, <3>3 DEF Release
  <2> QED BY <2>1, <2>2
<1>7. StackStep(th, p) /\ todo[th] = <<>> BY <1>3, <1>5, <1>6, StartStack
<1>8. ~Dying(o)' BY <1>2, <1>6, <1>7, AllocNotDying
<1>9. c.policy = "WeakRef" /\ HasWeakRef(c) /\ c \in Classes /\ c \notin Members /\ c # NoClass /\ c # OwnedObject
  BY <1>3, ClassFacts DEF CanConstruct, Makable, HasWeakRef
<1>10. /\ cls'[o] = c /\ life'[o] = "dead" /\ m_weakRefCount'[o] = 1 /\ weak'[th] = w /\ strong'[to] = NoObj
       /\ \A x \in Objects : x # o => cls'[x] = cls[x] /\ life'[x] = life[x] /\ m_weakRefCount'[x] = m_weakRefCount[x]
       /\ \A u \in Threads : u # th => weak'[u] = weak[u]
       /\ \A q \in Slots : q # to => strong'[q] = strong[q]
  BY <1>0, <1>2, <1>3, <1>4 DEF TypeOK, RefTypeOK
<1>11. Elsewhere(o) BY <1>3, <1>10 DEF Elsewhere
<1>12. /\ m_headMember[o] = <<>> /\ storage[o] = {} /\ o # NoObj /\ weakRef[o] = NoObj /\ field[o] = NullField
       /\ m_refCount[o] = 0 /\ m_weakRefCount[o] = 0
  BY <1>2, FreshRefs
<1>13. ClassOK(o)'
  <2>1. IsStatic(o)' <=> IsStatic(o) BY <1>3 DEF IsStatic, StaticClasses
  <2>2. ~IsStatic(o)
    <3>1. NoClass.policy = "Free" BY ClassFacts
    <3> QED BY <1>2, <3>1 DEF IInv, Heap, ClassOK
  <2> QED BY <1>3, <1>9, <1>10, <1>12, <2>1, <2>2 DEF ClassOK
<1>14. FieldOK(o)' BY <1>3, <1>12 DEF FieldOK, NullField
<1>15. WeakRefOK(o)' BY <1>3, <1>9, <1>10, <1>12 DEF WeakRefOK
<1>16. ~Pos(o)' BY <1>3, <1>12 DEF Pos
<1>17. CountsOK(o)' BY <1>9, <1>10, <1>16 DEF CountsOK
<1>18. WeakLive(w)'
  <2>1. w.m_ptr = o /\ w.m_weakRef = o BY <1>1
  <2>2. o \in Owned(o)' BY DEF Owned
  <2> QED BY <1>2, <1>9, <1>10, <1>16, <2>1, <2>2 DEF WeakLive
<1>19. UNCHANGED <<raw, maybe, holder, handled, reported>> BY DEF errorVars, holderVars
<1>20. PICK h, k, l : h = <<"slot", to>> /\ k = <<"release", th>> /\ l = <<"publish", th>> OBVIOUS
<1>21. /\ h \in StrongTokens /\ k \in StrongTokens /\ h # k /\ l # h /\ l # k
       /\ Ref(h) = s /\ Ref(h)' = NoObj /\ Ref(k) = NoObj /\ Ref(k)' = s
       /\ \A x \in StrongTokens : x \notin {h, k} => Ref(x)' = Ref(x)
  <2>1. /\ k \in StrongTokens /\ Ref(k) = NoObj /\ Ref(l) = NoObj
        /\ Ref(k)' = IF p # <<>> /\ p[1].call = "Release" THEN p[1].arg ELSE NoObj
        /\ Ref(l)' = IF p # <<>> /\ p[1].call = "Publish" THEN p[1].new ELSE NoObj
    BY <1>2, <1>6, <1>7, <1>11, <1>19, <1>20, AllocRefs
  <2>2. h \in StrongTokens /\ Ref(h) = s /\ Ref(h)' = NoObj BY <1>1, <1>4, <1>10, <1>20, RefIs, TokenKinds
  <2>3. Ref(k)' = s /\ Ref(l)' = NoObj BY <1>6, <2>1
  <2>4. Ref(<<"field", o>>)' = Ref(<<"field", o>>) BY <1>3, RefIs
  <2>5. \A x \in StrongTokens : x \notin {h, k} => Ref(x)' = Ref(x)
    <3> SUFFICES ASSUME NEW x \in StrongTokens, x \notin {h, k, l}, x # <<"field", o>> PROVE Ref(x)' = Ref(x)
      BY <2>1, <2>3, <2>4
    <3>1. \/ \E q \in Slots : x = <<"slot", q>> /\ Ref(x) = strong[q] /\ Ref(x)' = strong'[q]
          \/ Ref(x)' = Ref(x)
      BY <1>2, <1>6, <1>7, <1>11, <1>19, <1>20, AllocRefs
    <3> QED BY <1>10, <1>20, <3>1
  <2> QED BY <1>20, <2>1, <2>2, <2>3, <2>5
<1>22. StrongExact'
  <2>1. PICK f, g, n : f = StrongAt /\ g = StrongAt' /\ n = m_refCount OBVIOUS
  <2>2. DOMAIN f = StrongTokens /\ DOMAIN g = StrongTokens BY <1>2, <1>11, <2>1, AllocStrongAt
  <2>3. g[k] = f[h] /\ g[h] = f[k]
    <3>1. Ref(k)' = Ref(h) /\ Ref(h)' = Ref(k) BY <1>21
    <3> QED BY <1>2, <1>11, <1>21, <2>1, <3>1, AllocStrongAt
  <2>4. \A x \in DOMAIN f : x \notin {h, k} => g[x] = f[x] BY <1>2, <1>11, <1>21, <2>1, <2>2, AllocStrongAt
  <2>5. Exact(f, n) BY <2>1 DEF IInv, Counts, StrongExact
  <2>6. Exact(g, n) BY <1>21, <2>2, <2>3, <2>4, <2>5, ExactSwap
  <2> QED BY <1>3, <2>1, <2>6 DEF StrongExact, Exact, At
<1>23. ASSUME NEW x \in StrongTokens
       PROVE  /\ FromHere(th, x)
              /\ Ref(x)' = NoObj \/ Ref(x)' = Ref(x) \/ (Ref(x)' # o /\ Live(Ref(x)')) \/ (Ref(x)' = o /\ Live(o)')
  <2>1. CASE x = k /\ s # NoObj
    <3>1. Live(s) BY <1>21, <2>1, RefCounted
    <3>2. s # o BY <1>2, <1>21, FreshRefs
    <3>3. h[1] = "slot" /\ h[2] \in Own(th) BY <1>20
    <3>4. PICK y : y = Ref(x)' OBVIOUS
    <3>5. y = s BY <1>21, <2>1, <3>4
    <3>6. FromHere(th, x) BY <1>21, <3>3, <3>4, <3>5 DEF FromHere
    <3>7. Live(y) BY <3>1, <3>5
    <3> QED BY <3>2, <3>4, <3>5, <3>6, <3>7
  <2>2. CASE ~(x = k /\ s # NoObj)
    <3>1. Ref(x)' = NoObj \/ Ref(x)' = Ref(x) BY <1>21, <2>2
    <3> QED BY <3>1 DEF FromHere
  <2> QED BY <2>1, <2>2
<1>24. WeakExact'
  <2>1. PICK j : j = <<"weak", th>> OBVIOUS
  <2>2. weak[th] = EmptyWeakPtr
    <3>1. weak[th].m_ptr = NoObj BY <1>3 DEF CanConstruct
    <3> QED BY <3>1, WeakFull, RefCountingAssumption
  <2>3. \A i \in DOMAIN p : p[i].call # "ReleaseWeakRef" BY <1>6
  <2>4. j \in WeakTokens /\ WeakAt[j] = weak[th].m_weakRef /\ WeakAt'[j] = weak'[th].m_weakRef BY <2>1, WeakIs
  <2>5. WeakAt[j] = NoObj /\ WeakAt'[j] = o BY <1>1, <1>10, <2>2, <2>4, WeakFull
  <2>6. WeakAt'[<<"object", o>>] = WeakAt[<<"object", o>>]
    <3>1. WeakAt[<<"object", o>>] = NoObj
          /\ WeakAt'[<<"object", o>>] = IF cls'[o] = FixedSwarm /\ m_refCount'[o] = 0 THEN NoObj ELSE weakRef'[o]
      BY <1>2, <1>6, <1>7, <1>11, <2>3, AllocWeakAt
    <3> QED BY <1>3, <1>12, <3>1
  <2>7. \A x \in WeakTokens : x # j => WeakAt'[x] = WeakAt[x]
    <3> SUFFICES ASSUME NEW x \in WeakTokens, x # j, x # <<"object", o>> PROVE WeakAt'[x] = WeakAt[x] BY <2>6
    <3>1. \/ \E u \in Threads : x = <<"weak", u>> /\ weak'[u] # weak[u]
          \/ WeakAt'[x] = WeakAt[x]
      BY <1>2, <1>6, <1>7, <1>11, <2>3, AllocWeakAt
    <3> QED BY <1>10, <2>1, <3>1
  <2>8. Plus1(m_weakRefCount', m_weakRefCount, o) BY <1>10, <1>12 DEF Plus1
  <2> QED BY <1>2, <2>4, <2>5, <2>7, <2>8, WeakAdd
<1>25. OwnerExact'
  <2>1. \A i \in DOMAIN p : p[i].call \notin {"Free", "Place"} BY <1>6
  <2> QED BY <1>2, <1>6, <1>7, <1>9, <1>10, <1>11, <1>19, <2>1, AllocOwnersKept
<1>26. NewCalls(o, p) BY <1>6 DEF NewCalls, LastCalls
<1>27. TypeOK'
  <2>1. w \in [m_ptr : Pointers, m_weakRef : Pointers] /\ NoObj \in Pointers BY <1>1, <1>2 DEF Pointers
  <2>2. RefTypeOK' BY <1>0, <1>2, <1>3, <2>1 DEF TypeOK, RefTypeOK
  <2> QED BY <1>0, <2>2 DEF TypeOK, ErrorTypeOK, HolderTypeOK, errorVars, holderVars, Value, Error
<1>28. \A u \in Threads : weak'[u] = weak[u] \/ WeakLive(weak[u])'
  <2> TAKE u \in Threads
  <2>1. CASE u = th
    <3>1. weak'[u] = w BY <1>10, <2>1
    <3> QED BY <1>18, <3>1
  <2> QED BY <1>10, <2>1
<1>29. \A u \in Threads : u # th => SameLocals(u)
  <2> SUFFICES ASSUME NEW u \in Threads, u # th PROVE SameLocals(u) OBVIOUS
  <2>1. \A q \in Own(u) : q # to /\ q \in Slots BY OwnPlaces
  <2> QED BY <1>10, <1>19, <2>1 DEF SameLocals
<1>30. \A i \in DOMAIN p : FrameOK(th, i)'
  <2> SUFFICES ASSUME NEW i \in DOMAIN p PROVE FrameOK(th, i)' OBVIOUS
  <2>1. i = 1 /\ todo'[th][i] = p[i] BY <1>0, <1>6, <1>7, StackAfter DEF Stacked
  <2>2. todo'[th][1].call \in {"Release", "ClearHolder", "Free"} BY <1>6, <2>1
  <2> QED BY <2>1, <2>2, ReleaseFrame
<1>31. Counts' BY <1>22, <1>24, <1>25 DEF Counts
<1> QED BY <1>2, <1>6, <1>7, <1>10, <1>11, <1>13, <1>14, <1>15, <1>17, <1>19, <1>23, <1>26, <1>27, <1>28, <1>29,
           <1>30, <1>31, AllocStep
-----------------------------------------------------------------------------
(* No reference changes when nobody gets one to the new object. *)
LEMMA AllocStrongKept ==
  ASSUME IInv, NEW o \in Objects, cls[o] = NoClass, Elsewhere(o), NEW th \in Threads, NEW p \in Seq(Frames),
         StackStep(th, p), todo[th] = <<>>, UNCHANGED <<raw, maybe, strong, m_refCount, field>>,
         \A i \in DOMAIN p : p[i].call \notin {"Release", "Publish"}
  PROVE  StrongExact' /\ \A h \in StrongTokens : FromHere(th, h) /\ Ref(h)' = Ref(h)
<1>1. \A h \in StrongTokens : Ref(h)' = Ref(h)
  <2> TAKE h \in StrongTokens
  <2>1. p # <<>> => 1 \in DOMAIN p OBVIOUS
  <2>2. /\ Ref(<<"release", th>>)' = Ref(<<"release", th>>) /\ Ref(<<"publish", th>>)' = Ref(<<"publish", th>>)
    BY <2>1, AllocRefs
  <2>3. Ref(<<"field", o>>)' = Ref(<<"field", o>>) BY RefIs
  <2>4. \/ \E s \in Slots : h = <<"slot", s>> /\ Ref(h) = strong[s] /\ Ref(h)' = strong'[s]
        \/ h = <<"field", o>> \/ h = <<"release", th>> \/ h = <<"publish", th>>
        \/ Ref(h)' = Ref(h)
    BY AllocRefs
  <2> QED BY <2>2, <2>3, <2>4
<1>2. StrongExact'
  <2>1. PICK f, g, n : f = StrongAt /\ g = StrongAt' /\ n = m_refCount OBVIOUS
  <2>2. DOMAIN f = StrongTokens /\ DOMAIN g = StrongTokens /\ \A h \in StrongTokens : g[h] = f[h]
    BY <1>1, <2>1, AllocStrongAt
  <2>3. Exact(f, n) BY <2>1 DEF IInv, Counts, StrongExact
  <2>4. Exact(g, n) BY <2>2, <2>3, ExactSame
  <2> QED BY <2>1, <2>4 DEF StrongExact, Exact, At
<1> QED BY <1>1, <1>2 DEF FromHere

(* A member is made in the container b, which has references. *)
InSwarm(c, o, b) ==
  \/ c \in SwarmMembers /\ cls[b] \in Swarms /\ storage' = storage /\ Occurs(MemberFrames(o))'
  \/ c = FixedSwarmMember /\ cls[b] = FixedSwarm /\ storage' = [storage EXCEPT ![b] = @ \cup {o}]
MemberMade(c, o, b) ==
  /\ c \in program.classes /\ InSwarm(c, o, b)
  /\ Pos(b) /\ m_weakRefCount[b] > 0
  /\ ConstructMember(c, o, b)
  /\ UNCHANGED <<program, m_refCount, m_headMember, field, strong, weak, errorVars, holderVars>>

(* The new member. *)
LEMMA MadeMember ==
  ASSUME IInv, NEW o \in Objects, cls[o] = NoClass, NEW b \in Objects, NEW c, MemberMade(c, o, b)
  PROVE  /\ Elsewhere(o) /\ ClassOK(o)' /\ FieldOK(o)' /\ WeakRefOK(o)' /\ CountsOK(o)' /\ TypeOK'
         /\ cls'[o] = c /\ life'[o] = "alive" /\ weakRef'[o] = b /\ c \in Members /\ c.policy = "WeakRef" /\ b # o
         /\ Plus1(m_weakRefCount', m_weakRefCount, b) /\ Pos(b)'
<1>0. TypeOK BY DEF IInv
<1>1. c \in Members /\ c \in Classes BY ClassFacts DEF MemberMade, InSwarm, Members
<1>2. c \in Classes \cup {NoClass} /\ c.policy = "WeakRef" /\ HasWeakRef(c) /\ c # NoClass /\ c # FixedSwarm
  BY <1>1, ClassFacts DEF HasWeakRef
<1>3. b # o
  <2>1. m_weakRefCount[o] = 0 BY FreshRefs
  <2> QED BY <2>1 DEF MemberMade
<1>4. /\ m_headMember[o] = <<>> /\ storage[o] = {} /\ o # NoObj /\ field[o] = NullField
      /\ m_refCount[o] = 0 /\ m_weakRefCount[o] = 0 /\ b # NoObj
  BY FreshRefs, RefCountingAssumption
<1>5. /\ cls'[o] = c /\ life'[o] = "alive" /\ weakRef'[o] = b
      /\ \A x \in Objects : x # o => cls'[x] = cls[x] /\ life'[x] = life[x] /\ weakRef'[x] = weakRef[x]
  BY <1>0 DEF MemberMade, ConstructMember, TypeOK, RefTypeOK
<1>6. /\ m_weakRefCount' \in [Objects -> Nat] /\ Plus1(m_weakRefCount', m_weakRefCount, b)
      /\ \A d \in Objects : m_weakRefCount'[d] > 0 <=> m_weakRefCount[d] > 0
  BY <1>0, WeakCountUp DEF MemberMade, ConstructMember
<1>7. /\ \A x \in Objects : x # b => storage'[x] = storage[x]
      /\ storage'[b] = storage[b] \/ (storage'[b] = storage[b] \cup {o} /\ c = FixedSwarmMember /\ cls[b] = FixedSwarm)
      /\ c = FixedSwarmMember => o \in storage'[b] /\ cls[b] = FixedSwarm
      /\ storage' \in [Objects -> SUBSET Objects]
  <2>1. storage \in [Objects -> SUBSET Objects] BY <1>0 DEF TypeOK, RefTypeOK
  <2>2. c \in SwarmMembers => c # FixedSwarmMember BY ClassFacts
  <2> QED BY <2>1, <2>2 DEF MemberMade, InSwarm
<1>8. UNCHANGED <<program, m_refCount, m_headMember, field, strong, weak, errorVars, holderVars>> BY DEF MemberMade
<1>9. Elsewhere(o) BY <1>3, <1>5, <1>6, <1>7, <1>8 DEF Elsewhere
<1>10. ClassOK(o)'
  <2>1. IsStatic(o)' <=> IsStatic(o) BY <1>8 DEF IsStatic, StaticClasses
  <2>2. ~IsStatic(o)
    <3>1. NoClass.policy = "Free" BY ClassFacts
    <3> QED BY <3>1 DEF IInv, Heap, ClassOK
  <2>3. storage'[o] = {} BY <1>3, <1>4, <1>7
  <2> QED BY <1>2, <1>4, <1>5, <1>8, <2>1, <2>2, <2>3 DEF ClassOK
<1>11. FieldOK(o)' BY <1>4, <1>8 DEF FieldOK, NullField
<1>12. WeakRefOK(o)'
  <2>1. \/ cls'[b] \in Swarms /\ c \in SwarmMembers
        \/ cls'[b] = FixedSwarm /\ c = FixedSwarmMember /\ o \in storage'[b]
    BY <1>3, <1>5, <1>7 DEF MemberMade, InSwarm
  <2> QED BY <1>2, <1>3, <1>4, <1>5, <2>1 DEF WeakRefOK
<1>13. Pos(b)' /\ ~Pos(o)' BY <1>4, <1>8 DEF MemberMade, Pos
<1>14. CountsOK(o)'
  <2>1. Counter(o)' = b BY <1>2, <1>5 DEF Counter
  <2>2. Pos(Counter(o))' BY <1>13, <2>1
  <2>3. ~(m_weakRefCount'[o] > 0) BY <1>4, <1>6
  <2>4. (\E d \in Objects : o \in Range(m_headMember'[d]) \cup storage'[d]) \/ Occurs(MemberFrames(o))'
    <3>1. o \in storage'[b] \/ Occurs(MemberFrames(o))' BY <1>7 DEF MemberMade, InSwarm
    <3> QED BY <3>1
  <2> QED BY <1>1, <1>5, <1>13, <2>2, <2>3, <2>4 DEF CountsOK
<1>15. TypeOK'
  <2>1. RefTypeOK' BY <1>0, <1>6, <1>7, <1>8 DEF TypeOK, RefTypeOK, MemberMade, ConstructMember, Pointers
  <2> QED BY <1>0, <1>8, <2>1 DEF TypeOK, ErrorTypeOK, HolderTypeOK, errorVars, holderVars, Value, Error
<1> QED BY <1>1, <1>2, <1>3, <1>5, <1>6, <1>9, <1>10, <1>11, <1>12, <1>13, <1>14, <1>15

(* A step that makes a member. *)
LEMMA MemberStep ==
  ASSUME IInv, NEW o \in Objects, cls[o] = NoClass, NEW b \in Objects, NEW c, MemberMade(c, o, b),
         NEW th \in Threads, NEW p \in Seq(Frames), StackStep(th, p), todo[th] = <<>>, NewCalls(o, p),
         \A i \in DOMAIN p : p[i].call \in LastCalls, \A i \in DOMAIN p : FrameOK(th, i)'
  PROVE  IInv'
<1>1. /\ Elsewhere(o) /\ ClassOK(o)' /\ FieldOK(o)' /\ WeakRefOK(o)' /\ CountsOK(o)' /\ TypeOK'
      /\ cls'[o] = c /\ life'[o] = "alive" /\ weakRef'[o] = b /\ c \in Members /\ c.policy = "WeakRef" /\ b # o
      /\ Plus1(m_weakRefCount', m_weakRefCount, b)
  BY MadeMember
<1>2. UNCHANGED <<m_refCount, field, strong, weak, raw, maybe, holder, handled, reported>>
  BY DEF MemberMade, errorVars, holderVars
<1>3. StrongExact' /\ \A h \in StrongTokens : FromHere(th, h) /\ Ref(h)' = Ref(h)
  <2>1. \A i \in DOMAIN p : p[i].call \notin {"Release", "Publish"} BY DEF LastCalls
  <2> QED BY <1>1, <1>2, <2>1, AllocStrongKept
<1>4. WeakExact'
  <2>1. PICK j : j = <<"object", o>> OBVIOUS
  <2>2. \A i \in DOMAIN p : p[i].call # "ReleaseWeakRef" BY DEF LastCalls
  <2>3. j \in WeakTokens /\ WeakAt[j] = NoObj BY <1>1, <2>1, <2>2, AllocWeakAt
  <2>4. WeakAt'[j] = b
    <3>1. WeakAt'[j] = IF cls'[o] = FixedSwarm /\ m_refCount'[o] = 0 THEN NoObj ELSE weakRef'[o]
      BY <1>1, <2>1, <2>2, AllocWeakAt
    <3>2. c # FixedSwarm BY <1>1, ClassFacts
    <3> QED BY <1>1, <3>1, <3>2
  <2>5. \A x \in WeakTokens : x # j => WeakAt'[x] = WeakAt[x]
    <3> SUFFICES ASSUME NEW x \in WeakTokens, x # j PROVE WeakAt'[x] = WeakAt[x] OBVIOUS
    <3>1. \/ x = <<"object", o>>
          \/ \E u \in Threads : x = <<"weak", u>> /\ weak'[u] # weak[u]
          \/ WeakAt'[x] = WeakAt[x]
      BY <1>1, <2>2, AllocWeakAt
    <3> QED BY <1>2, <2>1, <3>1
  <2> QED BY <1>1, <2>3, <2>4, <2>5, WeakAdd
<1>5. OwnerExact'
  <2>1. \A i \in DOMAIN p : p[i].call \notin {"Free", "Place"} BY DEF LastCalls
  <2>2. c # OwnedObject BY <1>1, ClassFacts
  <2> QED BY <1>1, <1>2, <2>1, <2>2, AllocOwnersKept
<1>6. Counts' BY <1>3, <1>4, <1>5 DEF Counts
<1>7. \A u \in Threads : u # th => SameLocals(u) BY <1>2 DEF SameLocals
<1>8. \A u \in Threads : weak'[u] = weak[u] \/ WeakLive(weak[u])' BY <1>2
<1>9. life'[o] # "dead" BY <1>1
<1>10. UNCHANGED <<handled, reported>> BY <1>2
<1> QED BY <1>1, <1>3, <1>6, <1>7, <1>8, <1>9, <1>10, AllocStep

(* A Swarm that a thread holds. *)
LEMMA HeldSwarm ==
  ASSUME IInv, NEW th \in Threads, NEW from \in Own(th), NEW b, b = SwarmOf(strong[from]), b # NoObj
  PROVE  /\ b \in Objects /\ cls[b] \in Swarms /\ Pos(b) /\ m_weakRefCount[b] > 0
         /\ strong[from] \in Objects /\ weakRef[strong[from]] = b /\ strong[from] # NoObj
<1>1. PICK x, h : x = strong[from] /\ h = <<"slot", from>> OBVIOUS
<1>2. x # NoObj BY <1>1 DEF SwarmOf
<1>3. h \in StrongTokens /\ Ref(h) = x BY <1>1, OwnPlaces, RefIs
<1>4. Live(x) /\ x \in Objects /\ (IsCounted(x) => Counter(x) \in Objects /\ Pos(Counter(x))) BY <1>2, <1>3, RefCounted
<1>5. SwarmOf(x) = weakRef[x] /\ SwarmOf(x) \in Objects /\ cls[SwarmOf(x)] \in Swarms /\ cls[x].policy = "WeakRef"
  BY <1>1, <1>4, SwarmFacts
<1>6. IsCounted(x) /\ Counter(x) = weakRef[x] /\ HasWeakRef(cls[x]) BY <1>5 DEF IsCounted, Counter, HasWeakRef
<1>7. m_weakRefCount[weakRef[x]] > 0 BY <1>4, <1>6, LiveWeak
<1> QED BY <1>1, <1>2, <1>4, <1>5, <1>6, <1>7

(* The thread holds it after it made a member, too. *)
LEMMA StillHeld ==
  ASSUME IInv, NEW th \in Threads, NEW from \in Own(th), NEW b, NEW o, cls[o] = NoClass, o \in Objects, strong[from] \in Objects,
         weakRef[strong[from]] = b, Elsewhere(o), strong' = strong
  PROVE  HoldsSwarm(th, b)'
<1>1. PICK x : x = strong[from] OBVIOUS
<1>2. x # o BY <1>1, OwnPlaces, FreshRefs
<1>3. weakRef'[x] = b BY <1>1, <1>2 DEF Elsewhere
<1>4. strong'[from] = x /\ x # NoObj BY <1>1, RefCountingAssumption
<1>5. Own(th)' = Own(th) BY DEF Own
<1> QED BY <1>3, <1>4, <1>5 DEF HoldsSwarm

(* Swarm::MakeMember *)
LEMMA MakeMemberStep ==
  ASSUME IInv, NEW th \in Threads, NEW from \in Own(th), NEW to \in Own(th), MakeMember(th, from, to),
         UNCHANGED <<errorVars, holderVars>>
  PROVE  IInv'
<1>0. TypeOK /\ FramesTyped(todo) BY DEF IInv
<1>1. PICK o, b : o = Allocated /\ b = SwarmOf(strong[from]) OBVIOUS
<1>2. o \in Objects /\ cls[o] = NoClass BY <1>0, <1>1, AllocatedFree DEF MakeMember, TypeOK, RefTypeOK
<1>3. b # NoObj BY <1>1 DEF MakeMember
<1>4. /\ b \in Objects /\ cls[b] \in Swarms /\ Pos(b) /\ m_weakRefCount[b] > 0
      /\ strong[from] \in Objects /\ weakRef[strong[from]] = b
  BY <1>1, <1>3, HeldSwarm
<1>5. PICK c \in program.classes \cap {SwarmMember, LinkedSwarmMember} : ConstructMember(c, o, b) BY <1>1 DEF MakeMember
<1>6. to \in Slots /\ m_headMember[b] \in Seq(Objects) BY <1>0, <1>4, OwnPlaces DEF TypeOK, RefTypeOK
<1>7. PICK r \in Frames : r = AddSwarmMember(o, b, m_headMember[b], to) BY <1>2, <1>4, <1>6, FrameKinds
<1>8. PICK p : p = <<r>> OBVIOUS
<1>9. p \in Seq(Frames) /\ DOMAIN p = {1} /\ p[1] = r /\ Len(p) = 1 BY <1>7, <1>8, FewCalls
<1>10. StackStep(th, p) /\ todo[th] = <<>>
  <2>1. Start(th, p) /\ InUserCode(th) BY <1>1, <1>7, <1>8 DEF MakeMember
  <2> QED BY <1>9, <2>1, StartStack
<1>11. r.call = "AddSwarmMember" /\ r.arg = o /\ r.swarm = b /\ r.to = to BY <1>7 DEF AddSwarmMember
<1>12. r \in MemberFrames(o) /\ r \notin DyingFrames(o) BY <1>7, <1>11 DEF MemberFrames, DyingFrames, Delete, EndDelete
<1>13. NewCalls(o, p) BY <1>9, <1>11 DEF NewCalls
<1>14. todo'[th][1] = r /\ Len(todo'[th]) = 1 /\ 1 \in DOMAIN todo'[th] BY <1>0, <1>9, <1>10, StackAfter DEF Stacked
<1>15. Occurs(MemberFrames(o))'
  <2>1. OccursIn(todo', MemberFrames(o)) BY <1>12, <1>14 DEF OccursIn
  <2> QED BY <2>1 DEF Occurs, MemberFrames
<1>16. MemberMade(c, o, b) BY <1>4, <1>5, <1>15 DEF MemberMade, InSwarm, MakeMember, SwarmMembers
<1>17. Elsewhere(o) /\ cls'[o] = c /\ life'[o] = "alive" /\ weakRef'[o] = b BY <1>2, <1>4, <1>16, MadeMember
<1>18. HoldsSwarm(th, b)' BY <1>2, <1>4, <1>17, StillHeld DEF MakeMember
<1>19. ~Dying(o)' BY <1>2, <1>9, <1>10, <1>11, AllocNotDying
<1>20. FrameOK(th, 1)'
  <2>1. to \in Own(th)' BY DEF Own
  <2>2. c \in SwarmMembers BY <1>5 DEF SwarmMembers
  <2> QED BY <1>11, <1>14, <1>17, <1>18, <1>19, <2>1, <2>2 DEF FrameOK
<1>21. \A i \in DOMAIN p : p[i].call \in LastCalls BY <1>9, <1>11 DEF LastCalls
<1>22. \A i \in DOMAIN p : FrameOK(th, i)' BY <1>9, <1>20
<1> QED BY <1>2, <1>4, <1>9, <1>10, <1>13, <1>16, <1>21, <1>22, MemberStep

(* Swarm::MakeMember, when initialization throws. *)
LEMMA MakeMemberInitializeThrowsStep ==
  ASSUME IInv, NEW th \in Threads, NEW from \in Own(th), MakeMemberInitializeThrows(th, from),
         UNCHANGED <<errorVars, holderVars>>
  PROVE  IInv'
<1>0. TypeOK /\ FramesTyped(todo) BY DEF IInv
<1>1. PICK o, b, c : o = Allocated /\ b = SwarmOf(strong[from]) /\ c = SwarmMember OBVIOUS
<1>2. o \in Objects /\ cls[o] = NoClass BY <1>0, <1>1, AllocatedFree DEF MakeMemberInitializeThrows, TypeOK, RefTypeOK
<1>3. b # NoObj BY <1>1 DEF MakeMemberInitializeThrows
<1>4. /\ b \in Objects /\ cls[b] \in Swarms /\ Pos(b) /\ m_weakRefCount[b] > 0
      /\ strong[from] \in Objects /\ weakRef[strong[from]] = b
  BY <1>1, <1>3, HeldSwarm
<1>5. ConstructMember(c, o, b) /\ c \in program.classes BY <1>1 DEF MakeMemberInitializeThrows
<1>7. PICK r \in Frames, q \in Frames : r = Delete(o) /\ q = FreeMember(o) BY <1>2, FrameKinds
<1>8. PICK p : p = <<r, q>> OBVIOUS
<1>9. p \in Seq(Frames) /\ DOMAIN p = {1, 2} /\ p[1] = r /\ p[2] = q /\ Len(p) = 2 BY <1>7, <1>8, FewCalls
<1>10. StackStep(th, p) /\ todo[th] = <<>>
  <2>1. Start(th, p) /\ InUserCode(th) BY <1>1, <1>7, <1>8 DEF MakeMemberInitializeThrows
  <2> QED BY <1>9, <2>1, StartStack
<1>11. r.call = "Delete" /\ r.arg = o /\ q.call = "FreeMember" /\ q.arg = o BY <1>7 DEF Delete, FreeMember
<1>12. q \in MemberFrames(o) /\ r \notin MemberFrames(o) /\ q \notin DyingFrames(o)
  BY <1>7, <1>11 DEF MemberFrames, DyingFrames, Delete, EndDelete
<1>13. NewCalls(o, p)
  <2>1. cls'[o] # FixedSwarmMember BY <1>0, <1>1, <1>2, <1>5 DEF ConstructMember, TypeOK, RefTypeOK, SwarmMember, FixedSwarmMember, Class
  <2> QED BY <1>9, <1>11, <1>12, <2>1 DEF NewCalls
<1>14. /\ todo'[th][1] = r /\ todo'[th][2] = q /\ Len(todo'[th]) = 2 /\ 2 \in DOMAIN todo'[th]
  BY <1>0, <1>9, <1>10, StackAfter DEF Stacked
<1>15. Occurs(MemberFrames(o))'
  <2>1. OccursIn(todo', MemberFrames(o)) BY <1>12, <1>14 DEF OccursIn
  <2> QED BY <2>1 DEF Occurs, MemberFrames
<1>16. MemberMade(c, o, b)
  <2>1. c \in SwarmMembers BY <1>1 DEF SwarmMembers
  <2>2. UNCHANGED <<program, m_refCount, m_headMember, storage, field, strong, weak>> BY DEF MakeMemberInitializeThrows
  <2> QED BY <1>4, <1>5, <1>15, <2>1, <2>2 DEF MemberMade, InSwarm
<1>17. /\ Elsewhere(o) /\ cls'[o] = c /\ life'[o] = "alive" /\ weakRef'[o] = b /\ b # o /\ c.policy = "WeakRef"
  BY <1>2, <1>4, <1>16, MadeMember
<1>18. HoldsSwarm(th, b)' BY <1>2, <1>4, <1>17, StillHeld DEF MakeMemberInitializeThrows
<1>19. Throwing(th, o)'
  <2>1. todo'[th][2] = FreeMember(o) BY <1>7, <1>14
  <2> QED BY <1>14, <1>17, <2>1 DEF Throwing
<1>20. FrameOK(th, 1)'
  <2>1. DyingOK(th, 1, o)' BY <1>3, <1>17, <1>19 DEF DyingOK
  <2> QED BY <1>11, <1>14, <1>17, <2>1 DEF FrameOK
<1>21. FrameOK(th, 2)'
  <2>1. HoldsSwarm(th, weakRef[o])' BY <1>17, <1>18
  <2>2. todo'[th][1] \in {Delete(o), EndDelete(o)} BY <1>7, <1>14
  <2> QED BY <1>1, <1>11, <1>14, <1>17, <2>1, <2>2 DEF FrameOK
<1>22. \A i \in DOMAIN p : p[i].call \in LastCalls BY <1>9, <1>11 DEF LastCalls
<1>23. \A i \in DOMAIN p : FrameOK(th, i)' BY <1>9, <1>20, <1>21
<1> QED BY <1>2, <1>4, <1>9, <1>10, <1>13, <1>16, <1>22, <1>23, MemberStep

(* A thread that holds every reference to a swarm is the only holder. *)
LEMMA HoldsAloneOnly ==
  ASSUME IInv, NEW th \in Threads, NEW from \in Own(th), NEW b \in Objects, strong[from] = b, Counter(b) = b, HoldsAlone(th, b)
  PROVE  HoldsOnly(th, b)
<1>1. PICK A, B, f : /\ A = {s \in Own(th) : strong[s] # NoObj /\ Counter(strong[s]) = b}
                     /\ B = At(StrongAt, b) /\ f = [s \in A |-> <<"slot", s>>]
  OBVIOUS
<1>2. IsFiniteSet(B) /\ m_refCount[b] = Cardinality(B) BY <1>1 DEF IInv, Counts, StrongExact, Exact
<1>3. m_refCount[b] = Cardinality(A) BY <1>1 DEF HoldsAlone
<1>4. f \in Injection(A, B)
  <2>1. \A s \in A : f[s] = <<"slot", s>> /\ f[s] \in B
    <3> SUFFICES ASSUME NEW s \in A PROVE <<"slot", s>> \in B BY <1>1
    <3>1. <<"slot", s>> \in StrongTokens /\ Ref(<<"slot", s>>) = strong[s] BY <1>1, OwnPlaces, RefIs
    <3>2. StrongAt[<<"slot", s>>] = b /\ DOMAIN StrongAt = StrongTokens BY <1>1, <3>1 DEF StrongAt
    <3> QED BY <1>1, <3>1, <3>2 DEF At
  <2>2. \A s, t \in A : f[s] = f[t] => s = t BY <2>1
  <2>3. f \in [A -> B] BY <1>1, <2>1
  <2> QED BY <2>2, <2>3 DEF Injection, IsInjective
<1>5. f \in Surjection(A, B) BY <1>2, <1>3, <1>4, FS_Injection
<1>6. ASSUME NEW h \in StrongTokens, Ref(h) = b PROVE h[1] = "slot" /\ h[2] \in Own(th)
  <2>1. b # NoObj BY RefCountingAssumption
  <2>2. StrongAt[h] = b /\ DOMAIN StrongAt = StrongTokens BY <1>6, <2>1 DEF StrongAt
  <2>3. h \in B BY <1>1, <2>2 DEF At
  <2>4. PICK s \in A : f[s] = h BY <1>5, <2>3 DEF Surjection
  <2>5. h = <<"slot", s>> /\ s \in Own(th) BY <1>1, <2>4
  <2> QED BY <2>5
<1> QED BY <1>6 DEF HoldsOnly

(* FixedSwarm::MakeMember *)
LEMMA MakeFixedMemberStep ==
  ASSUME IInv, NEW th \in Threads, NEW from \in Own(th), NEW throws \in BOOLEAN, MakeFixedMember(th, from, throws),
         UNCHANGED <<errorVars, holderVars>>
  PROVE  IInv'
<1>0. TypeOK /\ FramesTyped(todo) BY DEF IInv
<1>1. PICK o, b, c, h : o = Allocated /\ b = strong[from] /\ c = FixedSwarmMember /\ h = <<"slot", from>> OBVIOUS
<1>2. o \in Objects /\ cls[o] = NoClass BY <1>0, <1>1, AllocatedFree DEF MakeFixedMember, TypeOK, RefTypeOK
<1>3. /\ b # NoObj /\ cls[b] = FixedSwarm /\ HoldsAlone(th, b) /\ ConstructMember(c, o, b) /\ c \in program.classes
      /\ storage' = [storage EXCEPT ![b] = @ \cup {o}] /\ InUserCode(th)
      /\ UNCHANGED <<program, m_refCount, m_headMember, field, strong, weak>>
      /\ Start(th, IF throws THEN <<Delete(o)>> ELSE <<>>)
  BY <1>1 DEF MakeFixedMember
<1>4. h \in StrongTokens /\ Ref(h) = b BY <1>1, OwnPlaces, RefIs
<1>5. Live(b) /\ b \in Objects /\ (IsCounted(b) => Counter(b) \in Objects /\ Pos(Counter(b))) BY <1>3, <1>4, RefCounted
<1>6. weakRef[b] \in {b, NoObj} /\ Counter(b) = weakRef[b] /\ IsCounted(b) /\ HasWeakRef(cls[b])
  BY <1>3, <1>5, FixedSwarmCounter
<1>7. Counter(b) = b /\ Pos(b) /\ weakRef[b] = b BY <1>5, <1>6, RefCountingAssumption
<1>8. m_weakRefCount[b] > 0 BY <1>5, <1>6, <1>7, LiveWeak
<1>9. HoldsOnly(th, b) BY <1>1, <1>3, <1>5, <1>7, HoldsAloneOnly
<1>10. MemberMade(c, o, b) BY <1>1, <1>3, <1>7, <1>8 DEF MemberMade, InSwarm
<1>11. /\ Elsewhere(o) /\ cls'[o] = c /\ life'[o] = "alive" /\ weakRef'[o] = b /\ b # o /\ c.policy = "WeakRef"
  BY <1>2, <1>5, <1>10, MadeMember
<1>12. CASE ~throws
  <2>1. PICK p : p = <<>> OBVIOUS
  <2>2. p \in Seq(Frames) /\ \A i \in DOMAIN p : FALSE BY <2>1
  <2>3. StackStep(th, p) /\ todo[th] = <<>> BY <1>3, <1>12, <2>1, <2>2, StartStack
  <2>4. NewCalls(o, p) BY <2>2 DEF NewCalls
  <2>5. /\ \A i \in DOMAIN p : p[i].call \in LastCalls
        /\ \A i \in DOMAIN p : FrameOK(th, i)'
    BY <2>2
  <2> QED BY <1>2, <1>5, <1>10, <2>2, <2>3, <2>4, <2>5, MemberStep
<1>13. CASE throws
  <2>1. PICK r \in Frames : r = Delete(o) BY <1>2, FrameKinds
  <2>2. PICK p : p = <<r>> OBVIOUS
  <2>3. p \in Seq(Frames) /\ DOMAIN p = {1} /\ p[1] = r /\ Len(p) = 1 BY <2>1, <2>2, FewCalls
  <2>4. Start(th, p) BY <1>3, <1>13, <2>1, <2>2
  <2>5. StackStep(th, p) /\ todo[th] = <<>> BY <1>3, <2>3, <2>4, StartStack
  <2>6. r.call = "Delete" /\ r.arg = o BY <2>1 DEF Delete
  <2>7. NewCalls(o, p)
    <3>1. m_refCount'[weakRef'[o]] > 0 BY <1>3, <1>7, <1>11 DEF Pos
    <3> QED BY <2>3, <2>6, <3>1 DEF NewCalls
  <2>8. todo'[th][1] = r /\ Len(todo'[th]) = 1 BY <1>0, <2>3, <2>5, StackAfter DEF Stacked
  <2>9. HoldsOnly(th, b)'
    <3>1. UNCHANGED <<raw, maybe, strong, m_refCount, field>> BY <1>3 DEF errorVars, holderVars
    <3>2. \A i \in DOMAIN p : p[i].call \notin {"Release", "Publish"} BY <2>3, <2>6
    <3>3. \A k \in StrongTokens : Ref(k)' = Ref(k) BY <1>2, <1>11, <2>3, <2>5, <3>1, <3>2, AllocStrongKept
    <3>4. Own(th)' = Own(th) /\ StrongTokens' = StrongTokens BY DEF Own, StrongTokens
    <3> QED BY <1>9, <3>1, <3>3, <3>4 DEF HoldsOnly
  <2>10. Throwing(th, o)'
    <3>1. HoldsOnly(th, weakRef[o])' BY <1>11, <2>9
    <3> QED BY <1>1, <1>11, <2>8, <3>1 DEF Throwing
  <2>11. FrameOK(th, 1)'
    <3>1. DyingOK(th, 1, o)' BY <1>3, <1>11, <2>10 DEF DyingOK
    <3> QED BY <1>11, <2>6, <2>8, <3>1 DEF FrameOK
  <2>12. \A i \in DOMAIN p : p[i].call \in LastCalls BY <2>3, <2>6 DEF LastCalls
  <2>13. \A i \in DOMAIN p : FrameOK(th, i)' BY <2>3, <2>11
  <2> QED BY <1>2, <1>5, <1>10, <2>3, <2>5, <2>7, <2>12, <2>13, MemberStep
<1> QED BY <1>12, <1>13

(* The weak counts stay when the new object has none. *)
LEMMA AllocWeakKept ==
  ASSUME IInv, NEW o \in Objects, cls[o] = NoClass, Elsewhere(o), NEW th \in Threads, NEW p \in Seq(Frames),
         StackStep(th, p), todo[th] = <<>>, \A i \in DOMAIN p : p[i].call # "ReleaseWeakRef",
         UNCHANGED <<weakRef, weak, m_weakRefCount>>
  PROVE  WeakExact'
<1>1. WeakAt'[<<"object", o>>] = WeakAt[<<"object", o>>]
  <2>1. WeakAt[<<"object", o>>] = NoObj
        /\ WeakAt'[<<"object", o>>] = IF cls'[o] = FixedSwarm /\ m_refCount'[o] = 0 THEN NoObj ELSE weakRef'[o]
    BY AllocWeakAt
  <2>2. weakRef[o] = NoObj BY FreshRefs
  <2> QED BY <2>1, <2>2
<1>2. \A x \in WeakTokens : WeakAt'[x] = WeakAt[x]
  <2> TAKE x \in WeakTokens
  <2>1. \/ x = <<"object", o>>
        \/ \E u \in Threads : x = <<"weak", u>> /\ weak'[u] # weak[u]
        \/ WeakAt'[x] = WeakAt[x]
    BY AllocWeakAt
  <2> QED BY <1>1, <2>1
<1> QED BY <1>2, WeakSame

(* A new object without a container of its own. *)
LEMMA PlainObject ==
  ASSUME IInv, NEW o \in Objects, cls[o] = NoClass, NEW c \in Classes, c.policy \in {"Simple", "Owned"},
         cls' = [cls EXCEPT ![o] = c], life' = [life EXCEPT ![o] = "alive"],
         UNCHANGED <<program, weakRef, m_weakRefCount, m_headMember, storage, field>>,
         \A x \in Objects : x # o => m_refCount'[x] = m_refCount[x],
         ~Dying(o)',
         (c.policy = "Simple" /\ m_refCount'[o] = 1) \/ (c = OwnedObject /\ m_refCount'[o] = 0)
  PROVE  /\ Elsewhere(o) /\ ClassOK(o)' /\ FieldOK(o)' /\ WeakRefOK(o)' /\ CountsOK(o)'
         /\ cls'[o] = c /\ life'[o] = "alive"
         /\ c.policy = "Simple" => Live(o)' /\ Counter(o)' = o
<1>0. TypeOK BY DEF IInv
<1>1. /\ cls'[o] = c /\ life'[o] = "alive"
      /\ \A x \in Objects : x # o => cls'[x] = cls[x] /\ life'[x] = life[x]
  BY <1>0 DEF TypeOK, RefTypeOK
<1>2. Elsewhere(o) BY <1>1 DEF Elsewhere
<1>3. /\ m_headMember[o] = <<>> /\ storage[o] = {} /\ o # NoObj /\ weakRef[o] = NoObj /\ field[o] = NullField
      /\ m_weakRefCount[o] = 0
  BY FreshRefs
<1>4. c \in Classes \cup {NoClass} /\ c # NoClass /\ ~HasWeakRef(c) /\ c \notin Members /\ c.policy # "NoRefCount"
      /\ (c.policy = "Simple" => c # OwnedObject) /\ (c = OwnedObject => c.policy = "Owned")
  BY ClassFacts DEF HasWeakRef
<1>5. ClassOK(o)'
  <2>1. IsStatic(o)' <=> IsStatic(o) BY DEF IsStatic, StaticClasses
  <2>2. ~IsStatic(o)
    <3>1. NoClass.policy = "Free" BY ClassFacts
    <3> QED BY <3>1 DEF IInv, Heap, ClassOK
  <2> QED BY <1>1, <1>3, <1>4, <2>1, <2>2 DEF ClassOK
<1>6. FieldOK(o)' BY <1>3 DEF FieldOK, NullField
<1>7. WeakRefOK(o)' BY <1>1, <1>3, <1>4 DEF WeakRefOK
<1>8. c.policy = "Simple" => Counter(o)' = o BY <1>1 DEF Counter
<1>9. CountsOK(o)'
  <2>1. CASE c.policy = "Simple"
    <3>1. Pos(o)' BY <1>4, <2>1 DEF Pos
    <3>2. Pos(Counter(o))' BY <1>8, <2>1, <3>1
    <3> QED BY <1>1, <1>3, <1>4, <1>8, <2>1, <3>2 DEF CountsOK
  <2>2. CASE c = OwnedObject
    <3>1. ~Pos(o)' BY <1>4, <2>2 DEF Pos
    <3> QED BY <1>1, <1>3, <1>4, <2>2, <3>1 DEF CountsOK
  <2> QED BY <2>1, <2>2
<1>10. c.policy = "Simple" => Live(o)' BY <1>1, <1>4 DEF Live
<1> QED BY <1>1, <1>2, <1>5, <1>6, <1>7, <1>8, <1>9, <1>10

(* LazyInit::Get, up to the instance the thread will try to publish. *)
LEMMA LazyGetStep ==
  ASSUME IInv, NEW th \in Threads, NEW from \in Own(th), LazyGet(th, from), UNCHANGED <<errorVars, holderVars>>
  PROVE  IInv'
<1>0. TypeOK /\ FramesTyped(todo) BY DEF IInv
<1>1. PICK o, b, c : o = Allocated /\ b = strong[from] /\ c = RefCountedObject OBVIOUS
<1>2. o \in Objects /\ cls[o] = NoClass BY <1>0, <1>1, AllocatedFree DEF LazyGet, TypeOK, RefTypeOK
<1>3. /\ b # NoObj /\ cls[b].lazy /\ InUserCode(th)
      /\ cls' = [cls EXCEPT ![o] = c] /\ life' = [life EXCEPT ![o] = "alive"]
      /\ m_refCount' = [m_refCount EXCEPT ![o] = 1]
      /\ UNCHANGED <<program, weakRef, m_weakRefCount, m_headMember, storage, field, strong, weak>>
      /\ Start(th, <<Publish(b, o)>>)
  BY <1>1 DEF LazyGet
<1>4. c \in Classes /\ c.policy = "Simple" /\ c # OwnedObject
  BY <1>1, ClassFacts
<1>5. b \in Objects /\ b # o /\ from \in Slots
  <2>1. strong[from] # o /\ from \in Slots BY <1>2, OwnPlaces, FreshRefs
  <2> QED BY <1>0, <1>1, <1>3, <2>1 DEF TypeOK, RefTypeOK, Pointers
<1>6. PICK r \in Frames : r = Publish(b, o) BY <1>2, <1>5, FrameKinds
<1>7. PICK p : p = <<r>> OBVIOUS
<1>8. p \in Seq(Frames) /\ DOMAIN p = {1} /\ p[1] = r /\ Len(p) = 1 /\ p # <<>> BY <1>6, <1>7, FewCalls
<1>9. Start(th, p) BY <1>3, <1>6, <1>7
<1>10. StackStep(th, p) /\ todo[th] = <<>> BY <1>3, <1>8, <1>9, StartStack
<1>11. r.call = "Publish" /\ r.arg = b /\ r.new = o BY <1>6 DEF Publish
<1>12. ~Dying(o)' BY <1>2, <1>8, <1>10, <1>11, AllocNotDying
<1>13. m_refCount'[o] = 1 /\ \A x \in Objects : x # o => m_refCount'[x] = m_refCount[x]
  BY <1>0, <1>2, <1>3 DEF TypeOK, RefTypeOK
<1>14. /\ Elsewhere(o) /\ ClassOK(o)' /\ FieldOK(o)' /\ WeakRefOK(o)' /\ CountsOK(o)'
       /\ cls'[o] = c /\ life'[o] = "alive" /\ Live(o)' /\ Counter(o)' = o
  BY <1>2, <1>3, <1>4, <1>12, <1>13, PlainObject
<1>15. UNCHANGED <<raw, maybe, strong, field, holder, handled, reported, weak>> BY <1>3 DEF errorVars, holderVars
<1>16. PICK h : h = <<"publish", th>> OBVIOUS
<1>17. /\ h \in StrongTokens /\ Ref(h) = NoObj /\ Ref(h)' = o
       /\ \A x \in StrongTokens : x # h => Ref(x)' = Ref(x)
  <2>1. /\ h \in StrongTokens /\ Ref(h) = NoObj
        /\ Ref(h)' = IF p # <<>> /\ p[1].call = "Publish" THEN p[1].new ELSE NoObj
        /\ Ref(<<"release", th>>)' = IF p # <<>> /\ p[1].call = "Release" THEN p[1].arg ELSE NoObj
        /\ Ref(<<"release", th>>) = NoObj
    BY <1>2, <1>8, <1>10, <1>14, <1>15, <1>16, AllocRefs
  <2>2. Ref(h)' = o /\ Ref(<<"release", th>>)' = NoObj BY <1>8, <1>11, <2>1
  <2>3. Ref(<<"field", o>>)' = Ref(<<"field", o>>) BY <1>15, RefIs
  <2>4. ASSUME NEW x \in StrongTokens, x # h PROVE Ref(x)' = Ref(x)
    <3>1. \/ \E s \in Slots : x = <<"slot", s>> /\ Ref(x) = strong[s] /\ Ref(x)' = strong'[s]
          \/ x = <<"field", o>> \/ x = <<"release", th>> \/ x = <<"publish", th>>
          \/ Ref(x)' = Ref(x)
      BY <1>2, <1>8, <1>10, <1>14, <1>15, AllocRefs
    <3> QED BY <1>15, <1>16, <2>1, <2>2, <2>3, <2>4, <3>1
  <2> QED BY <2>1, <2>2, <2>4
<1>18. StrongExact'
  <2>1. PICK f, g, n, m : f = StrongAt /\ g = StrongAt' /\ n = m_refCount /\ m = m_refCount' OBVIOUS
  <2>2. DOMAIN f = StrongTokens /\ DOMAIN g = StrongTokens BY <1>2, <1>14, <2>1, AllocStrongAt
  <2>3. f[h] = NoObj BY <1>2, <1>14, <1>17, <2>1, AllocStrongAt
  <2>4. g[h] = o BY <1>2, <1>14, <1>17, <2>1, AllocStrongAt
  <2>5. \A x \in DOMAIN f : x # h => g[x] = f[x] BY <1>2, <1>14, <1>17, <2>1, <2>2, AllocStrongAt
  <2>6. Exact(f, n) BY <2>1 DEF IInv, Counts, StrongExact
  <2>7. Plus1(m, n, o)
    <3>1. m_refCount[o] = 0 BY <1>2, FreshRefs
    <3> QED BY <1>13, <2>1, <3>1 DEF Plus1
  <2>8. Exact(g, m) BY <1>2, <1>17, <2>2, <2>3, <2>4, <2>5, <2>6, <2>7, ExactAdd, RefCountingAssumption
  <2> QED BY <2>1, <2>8 DEF StrongExact, Exact, At
<1>19. ASSUME NEW x \in StrongTokens
       PROVE  /\ FromHere(th, x)
              /\ Ref(x)' = NoObj \/ Ref(x)' = Ref(x) \/ (Ref(x)' # o /\ Live(Ref(x)')) \/ (Ref(x)' = o /\ Live(o)')
  <2>1. CASE x = h
    <3>1. cls[o] # FixedSwarm BY <1>2, ClassFacts
    <3>2. PICK y : y = Ref(x)' OBVIOUS
    <3>3. y = o BY <1>17, <2>1, <3>2
    <3>4. FromHere(th, x) BY <3>1, <3>2, <3>3 DEF FromHere
    <3> QED BY <1>14, <1>17, <2>1, <3>4
  <2>2. CASE x # h BY <1>17, <2>2 DEF FromHere
  <2> QED BY <2>1, <2>2
<1>20. WeakExact'
  <2>1. \A i \in DOMAIN p : p[i].call # "ReleaseWeakRef" BY <1>8, <1>11
  <2> QED BY <1>2, <1>3, <1>8, <1>10, <1>14, <2>1, AllocWeakKept
<1>21. OwnerExact'
  <2>1. \A i \in DOMAIN p : p[i].call \notin {"Free", "Place"} BY <1>8, <1>11
  <2> QED BY <1>2, <1>4, <1>8, <1>10, <1>14, <1>15, <2>1, AllocOwnersKept
<1>22. NewCalls(o, p)
  <2>1. r \notin DyingFrames(o) /\ r \notin MemberFrames(o) BY <1>11 DEF DyingFrames, MemberFrames, Delete, EndDelete
  <2> QED BY <1>8, <1>11, <2>1 DEF NewCalls, LastCalls
<1>23. TypeOK'
  <2>1. RefTypeOK' BY <1>0, <1>1, <1>2, <1>3 DEF TypeOK, RefTypeOK
  <2> QED BY <1>0, <2>1 DEF TypeOK, ErrorTypeOK, HolderTypeOK, errorVars, holderVars, Value, Error
<1>24. \A u \in Threads : weak'[u] = weak[u] \/ WeakLive(weak[u])' BY <1>15
<1>25. \A u \in Threads : u # th => SameLocals(u) BY <1>15 DEF SameLocals
<1>26. FrameOK(th, 1)'
  <2>1. todo'[th][1] = r /\ Len(todo'[th]) = 1 BY <1>0, <1>8, <1>10, StackAfter DEF Stacked
  <2>2. cls'[b] = cls[b] BY <1>5, <1>14 DEF Elsewhere
  <2>3. \E s \in Own(th)' : strong'[s] = b BY <1>1, <1>15 DEF Own
  <2> QED BY <1>1, <1>3, <1>11, <1>14, <2>1, <2>2, <2>3 DEF FrameOK
<1>27. \A i \in DOMAIN p : FrameOK(th, i)' BY <1>8, <1>26
<1>28. Counts' BY <1>18, <1>20, <1>21 DEF Counts
<1>29. life'[o] # "dead" BY <1>14
<1>30. UNCHANGED <<handled, reported>> BY <1>15
<1> QED BY <1>2, <1>8, <1>10, <1>14, <1>19, <1>22, <1>23, <1>24, <1>25, <1>27, <1>28, <1>29, <1>30, AllocStep

(* An object for a THolder, on its way into it. *)
LEMMA MakeOwnedStep ==
  ASSUME IInv, NEW th \in Threads, MakeOwned(th)
  PROVE  IInv'
<1>0. TypeOK /\ FramesTyped(todo) BY DEF IInv
<1>1. PICK o, c : o = Allocated /\ c = OwnedObject OBVIOUS
<1>2. o \in Objects /\ cls[o] = NoClass BY <1>0, <1>1, AllocatedFree DEF MakeOwned, TypeOK, RefTypeOK
<1>3. /\ InUserCode(th) /\ c \in program.classes
      /\ cls' = [cls EXCEPT ![o] = c] /\ life' = [life EXCEPT ![o] = "alive"]
      /\ UNCHANGED <<program, weakRef, m_refCount, m_weakRefCount, m_headMember, storage, field, strong, weak,
                     errorVars, holderVars>>
      /\ Start(th, <<ClearHolder, Place(o)>>)
  BY <1>1 DEF MakeOwned, Attach
<1>4. c \in Classes /\ c.policy = "Owned" BY <1>1, ClassFacts
<1>5. PICK r \in Frames, q \in Frames : r = ClearHolder /\ q = Place(o) BY <1>2, FrameKinds
<1>6. PICK p : p = <<r, q>> OBVIOUS
<1>7. p \in Seq(Frames) /\ DOMAIN p = {1, 2} /\ p[1] = r /\ p[2] = q /\ Len(p) = 2 /\ p # <<>> BY <1>5, <1>6, FewCalls
<1>8. Start(th, p) BY <1>3, <1>5, <1>6
<1>9. StackStep(th, p) /\ todo[th] = <<>> BY <1>3, <1>7, <1>8, StartStack
<1>10. r.call = "ClearHolder" /\ q.call = "Place" /\ q.arg = o BY <1>5 DEF ClearHolder, Place
<1>11. ~Dying(o)' BY <1>2, <1>7, <1>9, <1>10, AllocNotDying
<1>12. m_refCount'[o] = 0 BY <1>2, <1>3, FreshRefs
<1>13. /\ Elsewhere(o) /\ ClassOK(o)' /\ FieldOK(o)' /\ WeakRefOK(o)' /\ CountsOK(o)'
       /\ cls'[o] = c /\ life'[o] = "alive"
  BY <1>1, <1>2, <1>3, <1>4, <1>11, <1>12, PlainObject
<1>14. UNCHANGED <<raw, maybe, strong, m_refCount, field, holder, handled, reported, weak>>
  BY <1>3 DEF errorVars, holderVars
<1>15. StrongExact' /\ \A h \in StrongTokens : FromHere(th, h) /\ Ref(h)' = Ref(h)
  <2>1. \A i \in DOMAIN p : p[i].call \notin {"Release", "Publish"} BY <1>7, <1>10
  <2> QED BY <1>2, <1>7, <1>9, <1>13, <1>14, <2>1, AllocStrongKept
<1>16. WeakExact'
  <2>1. \A i \in DOMAIN p : p[i].call # "ReleaseWeakRef" BY <1>7, <1>10
  <2> QED BY <1>2, <1>3, <1>7, <1>9, <1>13, <2>1, AllocWeakKept
<1>17. OwnerExact'
  <2>1. PICK f, g, n, m, h : f = OwnerAt /\ g = OwnerAt' /\ n = OwnerCount /\ m = OwnerCount' /\ h = <<"place", th>>
    OBVIOUS
  <2>2. \A i \in DOMAIN p : p[i].call # "Free" BY <1>7, <1>10
  <2>3. PlaceOf(p) = o BY <1>7, <1>10 DEF PlaceOf, Last1
  <2>4. UNCHANGED <<raw, holder>> BY <1>14
  <2>5. /\ DOMAIN f = OwnerTokens /\ DOMAIN g = OwnerTokens /\ h \in OwnerTokens
        /\ f[h] = NoObj /\ g[h] = o /\ \A x \in OwnerTokens : x = h \/ g[x] = f[x]
    BY <1>2, <1>7, <1>9, <1>13, <2>1, <2>2, <2>3, <2>4, AllocOwnerAt
  <2>6. Plus1(m, n, o)
    <3>1. OwnerCount[o] = 0 /\ OwnerCount'[o] = 1 /\ \A x \in Objects : x # o => OwnerCount'[x] = OwnerCount[x]
      BY <1>1, <1>2, <1>7, <1>9, <1>13, <2>2, <2>4, AllocOwnerAt
    <3> QED BY <2>1, <3>1 DEF Plus1
  <2>7. Exact(f, n) BY <2>1 DEF IInv, Counts, OwnerExact
  <2>8. \A x \in DOMAIN f : x # h => g[x] = f[x] BY <2>5
  <2>9. Exact(g, m) BY <1>2, <2>5, <2>6, <2>7, <2>8, ExactAdd, RefCountingAssumption
  <2> QED BY <2>1, <2>9 DEF OwnerExact, Exact, At
<1>18. NewCalls(o, p)
  <2>1. /\ r \notin DyingFrames(o) /\ r \notin MemberFrames(o) /\ q \notin DyingFrames(o) /\ q \notin MemberFrames(o)
    BY <1>10 DEF DyingFrames, MemberFrames, Delete, EndDelete
  <2> QED BY <1>7, <1>10, <2>1 DEF NewCalls, LastCalls
<1>19. TypeOK'
  <2>1. RefTypeOK' BY <1>0, <1>2, <1>3 DEF TypeOK, RefTypeOK
  <2> QED BY <1>0, <1>3, <2>1 DEF TypeOK, ErrorTypeOK, HolderTypeOK, errorVars, holderVars, Value, Error
<1>20. \A u \in Threads : weak'[u] = weak[u] \/ WeakLive(weak[u])' BY <1>14
<1>21. \A u \in Threads : u # th => SameLocals(u) BY <1>14 DEF SameLocals
<1>22. \A i \in DOMAIN p : FrameOK(th, i)'
  <2>1. todo'[th][1] = r /\ todo'[th][2] = q /\ Len(todo'[th]) = 2 BY <1>0, <1>7, <1>9, StackAfter DEF Stacked
  <2>2. FrameOK(th, 1)' BY <1>10, <2>1 DEF FrameOK
  <2>3. FrameOK(th, 2)' BY <1>5, <1>10, <2>1 DEF FrameOK
  <2> QED BY <1>7, <2>2, <2>3
<1>23. Counts' BY <1>15, <1>16, <1>17 DEF Counts
<1>24. life'[o] # "dead" BY <1>13
<1>25. UNCHANGED <<handled, reported>> BY <1>14
<1> QED BY <1>2, <1>7, <1>9, <1>13, <1>15, <1>18, <1>19, <1>20, <1>21, <1>22, <1>23, <1>24, <1>25, AllocStep
=============================================================================
