----------------------------- MODULE RefCounting -----------------------------
(***************************************************************************)
(* Reference counted objects (object/*.h, smartPtr/cntPtr.h, weakPtr.h):   *)
(* the memory of an object, its counters, the CntPtr and WeakPtr that      *)
(* refer to it, and the cascade of calls the last Release sets off.        *)
(*                                                                         *)
(* An object is named by its address.  Every access to an atomic counter   *)
(* is a step of its own; what a thread still has to call before it is back *)
(* in user code is the stack todo[th], so the cascade of one thread        *)
(* interleaves with every other thread.                                    *)
(***************************************************************************)
EXTENDS Naturals, Sequences, FiniteSets, FiniteSetsExt

CONSTANTS Threads,
          Objects,    \* addresses the allocator hands out
          NoObj,      \* the null pointer
          Slots,      \* CntPtr variables: pairs of the owning thread and a name
          Programs    \* the classes a behaviour uses and the memory it has

(* A class is a base class template with its policies: policy is the       *)
(* RefCountPolicy, query tells whether QueryInterface finds interfaces,    *)
(* throws whether MakePolicy lets the constructor throw.  Of the user's    *)
(* part, takes tells whether the constructor takes over a CntPtr, keeps    *)
(* whether it may keep a WeakPtr to the object it constructs, weak whether *)
(* others take WeakPtrs to it, links whether it has a SwarmMemberPtr, lazy *)
(* whether it has a pointer that is created on first use.                  *)
Class(name, policy, traits) ==
  [name   |-> name,               policy |-> policy,
   query  |-> "query" \in traits, throws |-> "throws" \in traits,
   takes  |-> "takes" \in traits, keeps  |-> "keeps" \in traits,
   weak   |-> "weak" \in traits,  links  |-> "links" \in traits,
   lazy   |-> "lazy" \in traits]

RefCountedWrapper      == Class("RefCountedWrapper", "Simple", {"throws", "takes"})
RefCountedObject       == Class("RefCountedObject", "Simple", {})
WeakRefCountedObject   == Class("WeakRefCountedObject", "WeakRef", {"throws", "takes", "keeps", "weak"})
NoVTableObject         == Class("RefCountedObjectNoVTable", "Simple", {"throws"})
NoRefCountObject       == Class("NoRefCountObject", "NoRefCount", {})
UnknownObject          == Class("UnknownObject", "Simple", {"query", "takes"})
WeakUnknownObject      == Class("WeakUnknownObject", "WeakRef", {"query", "weak"})
NoQueryObject          == Class("NoQueryObject", "Simple", {"takes"})
AgileUnknownObject     == Class("AgileUnknownObject", "Simple", {"query", "lazy"})
SwarmObject            == Class("SwarmObject", "WeakRef", {})
SwarmMember            == Class("SwarmMember", "WeakRef", {"throws", "weak"})
LinkedSwarmObject      == Class("LinkedSwarmObject", "WeakRef", {"links"})
LinkedSwarmMember      == Class("LinkedSwarmMember", "WeakRef", {"links"})
LazyInitOwner          == Class("LazyInitOwner", "Simple", {"lazy"})
ErrorCodeState         == Class("ErrorCodeState", "Simple", {"lazy"})
FunctionObjectWrapper  == Class("FunctionObjectWrapper", "Simple", {"takes"})
FixedSwarm             == Class("FixedSwarm", "FixedSwarm", {})
FixedSwarmMember       == Class("FixedSwarmMember", "WeakRef", {"throws", "weak"})
FunctionPointerWrapper == Class("FunctionPointerWrapper", "NoRefCount", {})
FutureImpl             == Class("FutureImpl", "WeakRef", {})
OwnedObject            == Class("OwnedObject", "Owned", {})
NoClass                == Class("NoClass", "Free", {})

(* The class templates of the library; a user's class is one of these.    *)
Classes ==
  {RefCountedWrapper, RefCountedObject, WeakRefCountedObject, NoVTableObject, NoRefCountObject,
   UnknownObject, WeakUnknownObject, NoQueryObject, AgileUnknownObject, SwarmObject, SwarmMember,
   LinkedSwarmObject, LinkedSwarmMember, LazyInitOwner, ErrorCodeState, FunctionObjectWrapper,
   FixedSwarm, FixedSwarmMember, FunctionPointerWrapper, FutureImpl, OwnedObject}

ASSUME RefCountingAssumption ==
  /\ Objects \subseteq Nat /\ IsFiniteSet(Objects) /\ Objects # {}
  /\ NoObj \notin Objects
  /\ \A s \in Slots : s[1] \in Threads
  /\ \A p \in Programs : p.classes \subseteq Classes /\ p.memory \subseteq Objects

(* What Make creates by itself. *)
IsMade(c) ==
  /\ c.policy \notin {"NoRefCount", "Owned"}
  /\ c \notin {SwarmMember, LinkedSwarmMember, FixedSwarmMember, ErrorCodeState}

(* What a Functor wraps; it gives its CntPtr away, takes one over and swaps. *)
IsFunctor(c) == c \in {FunctionObjectWrapper, FunctionPointerWrapper}

HasWeakRef(c) == c.policy \in {"WeakRef", "FixedSwarm"}

VARIABLES
  program,        \* the classes and the memory of this behaviour
  cls,            \* cls[o]: class of the object at address o, NoClass when free
  life,           \* life[o]: "raw" memory, an object "alive", or "dead"
  weakRef,        \* weakRef[o]: the ObjectWeakRef o counts with (its negative space)
  m_refCount,
  m_weakRefCount,
  m_headMember,   \* m_headMember[o]: list of the members of the Swarm o, newest first
  storage,        \* storage[o]: the members inside the FixedSwarm o
  field,          \* field[o]: the one pointer member of object o
  strong,         \* strong[s]: CntPtr local variable s
  weak,           \* weak[th]: WeakPtr variable of the thread
  todo            \* todo[th]: calls the thread has yet to make, innermost first

refVars == <<program, cls, life, weakRef, m_refCount, m_weakRefCount, m_headMember,
             storage, field, strong, weak, todo>>

Pointers == Objects \cup {NoObj}
Own(th) == {s \in Slots : s[1] = th}

(* counts: a CntPtr, or a SwarmMemberPtr into a different swarm. *)
NullField == [m_ptr |-> NoObj, counts |-> FALSE]
CntPtrTo(o) == [m_ptr |-> o, counts |-> o # NoObj]

EmptyWeakPtr == [m_ptr |-> NoObj, m_weakRef |-> NoObj]

(* Calls on the stack of a thread. *)
Release(o)        == [call |-> "Release", arg |-> o]
Delete(o)         == [call |-> "Delete", arg |-> o]
EndDelete(o)      == [call |-> "EndDelete", arg |-> o]
ReleaseWeakRef(b) == [call |-> "ReleaseWeakRef", arg |-> b]
AssignWeak(w)     == [call |-> "AssignWeak", arg |-> w]
Increment(s, n)   == [call |-> "Increment", arg |-> s, count |-> n]

Calling(th, call) == todo[th] # <<>> /\ Head(todo[th]).call = call
Arg(th) == Head(todo[th]).arg
Continue(th, calls) == todo' = [todo EXCEPT ![th] = calls \o Tail(@)]
InUserCode(th) == todo[th] = <<>>
Start(th, calls) == todo' = [todo EXCEPT ![th] = calls]

(* A program with a class that is not counted has one static instance. *)
StaticClasses == {c \in program.classes : c.policy = "NoRefCount"}
IsStatic(o) == StaticClasses # {} /\ o = Max(Objects)

RefInit ==
  /\ program \in Programs
  /\ cls = [o \in Objects |-> IF IsStatic(o) THEN CHOOSE c \in StaticClasses : TRUE ELSE NoClass]
  /\ life = [o \in Objects |-> IF IsStatic(o) THEN "alive" ELSE "raw"]
  /\ weakRef = [o \in Objects |-> NoObj]
  /\ m_refCount = [o \in Objects |-> 0]
  /\ m_weakRefCount = [o \in Objects |-> 0]
  /\ m_headMember = [o \in Objects |-> <<>>]
  /\ storage = [o \in Objects |-> {}]
  /\ field = [o \in Objects |-> NullField]
  /\ strong = [s \in Slots |-> NoObj]
  /\ weak = [th \in Threads |-> EmptyWeakPtr]
  /\ todo = [th \in Threads |-> <<>>]

RefTypeOK ==
  /\ program \in Programs
  /\ cls \in [Objects -> program.classes \cup {NoClass, RefCountedObject}]
  /\ life \in [Objects -> {"raw", "alive", "dead"}]
  /\ weakRef \in [Objects -> Pointers]
  /\ m_refCount \in [Objects -> Nat]
  /\ m_weakRefCount \in [Objects -> Nat]
  /\ m_headMember \in [Objects -> Seq(Objects)]
  /\ storage \in [Objects -> SUBSET Objects]
  /\ field \in [Objects -> [m_ptr : Pointers, counts : BOOLEAN]]
  /\ strong \in [Slots -> Pointers]
  /\ weak \in [Threads -> [m_ptr : Pointers, m_weakRef : Pointers]]
-----------------------------------------------------------------------------
(* The counter of an object: a simple count is in the object itself. *)
Counter(o) == IF cls[o].policy = "Simple" THEN o ELSE weakRef[o]

IsCounted(o) == cls[o].policy \notin {"NoRefCount", "Owned"}

AddRef(o) == IF IsCounted(o) THEN [m_refCount EXCEPT ![Counter(o)] = @ + 1] ELSE m_refCount

ReleaseOf(o) == IF o = NoObj THEN <<>> ELSE <<Release(o)>>

(* DestroyObject: a Swarm deletes its members before the first object, a   *)
(* FixedSwarm in the order of its storage; a container whose object was    *)
(* never constructed has none to delete.                                   *)
Deletes(members) == [i \in 1..Len(members) |-> Delete(members[i])]

(* The members of a FixedSwarm in the order of its storage.               *)
InOrder(os) == CHOOSE f \in [1..Cardinality(os) -> os] : \A i, j \in DOMAIN f : i < j => f[i] < f[j]

DestroyObject(b) ==
  IF cls[b].policy = "FixedSwarm"
  THEN Deletes(InOrder({m \in storage[b] : weakRef[m] # NoObj})) \o <<ReleaseWeakRef(b)>>
  ELSE Deletes(m_headMember[b]) \o <<Delete(b)>>

(* Release(), the atomic decrement: who reaches zero destroys. *)
RunRelease(th) ==
  /\ Calling(th, "Release")
  /\ LET o == Arg(th)
         b == Counter(o)
     IN IF IsCounted(o)
        THEN /\ m_refCount' = [m_refCount EXCEPT ![b] = @ - 1]
             /\ Continue(th, IF m_refCount[b] = 1 THEN DestroyObject(b) ELSE <<>>)
        ELSE /\ Continue(th, <<>>)
             /\ UNCHANGED m_refCount
  /\ UNCHANGED <<program, cls, life, weakRef, m_weakRefCount, m_headMember, storage, field,
                 strong, weak>>

(* Delete(): the destructor, which ends with that of the pointer member,   *)
(* then EndDelete.                                                         *)
RunDelete(th) ==
  /\ Calling(th, "Delete")
  /\ LET o == Arg(th)
     IN /\ life' = [life EXCEPT ![o] = "dead"]
        /\ field' = [field EXCEPT ![o] = NullField]
        /\ Continue(th, (IF field[o].counts THEN <<Release(field[o].m_ptr)>> ELSE <<>>)
                        \o <<EndDelete(o)>>)
  /\ UNCHANGED <<program, cls, weakRef, m_refCount, m_weakRefCount, m_headMember, storage,
                 strong, weak>>

(* The memory at these addresses goes back to the allocator. *)
Deallocate(os) ==
  /\ cls' = [o \in Objects |-> IF o \in os THEN NoClass ELSE cls[o]]
  /\ life' = [o \in Objects |-> IF o \in os THEN "raw" ELSE life[o]]
  /\ m_headMember' = [o \in Objects |-> IF o \in os THEN <<>> ELSE m_headMember[o]]
  /\ storage' = [o \in Objects |-> IF o \in os THEN {} ELSE storage[o]]

(* DestroyContainer: with it go the member holders it owns. *)
Owned(b) == {b} \cup Range(m_headMember[b]) \cup storage[b]

(* ReleaseWeakRef(), the atomic decrement. *)
DropWeakRef(b) ==
  /\ m_weakRefCount' = [m_weakRefCount EXCEPT ![b] = @ - 1]
  /\ IF m_weakRefCount[b] = 1
     THEN Deallocate(Owned(b))
     ELSE UNCHANGED <<cls, life, m_headMember, storage>>

(* What Delete() does after the destructor: an object without a weak       *)
(* reference is freed, one with it clears it and gives up its weak count.  *)
RunEndDelete(th) ==
  /\ Calling(th, "EndDelete")
  /\ LET o == Arg(th)
     IN IF ~HasWeakRef(cls[o])
        THEN /\ Deallocate({o})
             /\ UNCHANGED <<weakRef, m_weakRefCount>>
        ELSE /\ weakRef' = [weakRef EXCEPT ![o] = NoObj]
             /\ DropWeakRef(weakRef[o])
  /\ Continue(th, <<>>)
  /\ UNCHANGED <<program, m_refCount, field, strong, weak>>

RunReleaseWeakRef(th) ==
  /\ Calling(th, "ReleaseWeakRef")
  /\ DropWeakRef(Arg(th))
  /\ weakRef' = IF m_weakRefCount[Arg(th)] = 1
                THEN [o \in Objects |-> IF o \in Owned(Arg(th)) THEN NoObj ELSE weakRef[o]]
                ELSE weakRef
  /\ Continue(th, <<>>)
  /\ UNCHANGED <<program, m_refCount, field, strong, weak>>
-----------------------------------------------------------------------------
(* CntPtr: the operations of a thread on its own variables. *)

(* Clear(), assignment of nullptr and the destructor. *)
Clear(th, to) ==
  /\ InUserCode(th)
  /\ strong[to] # NoObj
  /\ strong' = [strong EXCEPT ![to] = NoObj]
  /\ Start(th, ReleaseOf(strong[to]))
  /\ UNCHANGED <<program, cls, life, weakRef, m_refCount, m_weakRefCount, m_headMember,
                 storage, field, weak>>

(* operator=(const CntPtr&); with an empty target the copy constructor. *)
Assign(th, from, to) ==
  /\ InUserCode(th)
  /\ strong[from] \notin {NoObj, strong[to]}
  /\ m_refCount' = AddRef(strong[from])
  /\ strong' = [strong EXCEPT ![to] = strong[from]]
  /\ Start(th, ReleaseOf(strong[to]))
  /\ UNCHANGED <<program, cls, life, weakRef, m_weakRefCount, m_headMember, storage, field, weak>>

(* operator=(CntPtr&&): two pointers to one object both stay. *)
MoveAssign(th, from, to) ==
  /\ InUserCode(th)
  /\ strong[from] \notin {NoObj, strong[to]}
  /\ strong' = [strong EXCEPT ![to] = strong[from], ![from] = NoObj]
  /\ Start(th, ReleaseOf(strong[to]))
  /\ UNCHANGED <<program, cls, life, weakRef, m_refCount, m_weakRefCount, m_headMember,
                 storage, field, weak>>

(* The move constructor hands the object to a variable of another thread   *)
(* (a task that captures it).                                              *)
MoveToThread(th, from, to) ==
  /\ InUserCode(th)
  /\ to \notin Own(th) /\ InUserCode(to[1])
  /\ strong[from] # NoObj
  /\ strong[to] = NoObj
  /\ strong' = [strong EXCEPT ![to] = strong[from], ![from] = NoObj]
  /\ UNCHANGED <<program, cls, life, weakRef, m_refCount, m_weakRefCount, m_headMember,
                 storage, field, weak, todo>>

(* A CntPtr may refer to an object nobody counts. *)
PointToStatic(th, to) ==
  /\ InUserCode(th)
  /\ strong[to] = NoObj
  /\ IsStatic(Max(Objects))
  /\ strong' = [strong EXCEPT ![to] = Max(Objects)]
  /\ UNCHANGED <<program, cls, life, weakRef, m_refCount, m_weakRefCount, m_headMember,
                 storage, field, weak, todo>>

(* QueryInterface fills an empty pointer, with a reference of its own. *)
QueryInterface(th, from, to) ==
  /\ InUserCode(th)
  /\ strong[from] # NoObj
  /\ strong[to] = NoObj
  /\ cls[strong[from]].query
  /\ m_refCount' = AddRef(strong[from])
  /\ strong' = [strong EXCEPT ![to] = strong[from]]
  /\ UNCHANGED <<program, cls, life, weakRef, m_weakRefCount, m_headMember, storage, field,
                 weak, todo>>
-----------------------------------------------------------------------------
(* WeakPtr *)

WeakRefOf(w) == IF w.m_weakRef = NoObj THEN <<>> ELSE <<ReleaseWeakRef(w.m_weakRef)>>

(* Assign() gives up the old weak reference before it takes the new one. *)
ReassignWeak(th, w) ==
  /\ weak[th].m_ptr # w.m_ptr
  /\ weak' = [weak EXCEPT ![th] = EmptyWeakPtr]
  /\ Start(th, WeakRefOf(weak[th]) \o (IF w.m_ptr = NoObj THEN <<>> ELSE <<AssignWeak(w)>>))
  /\ UNCHANGED <<program, cls, life, weakRef, m_refCount, m_weakRefCount, m_headMember,
                 storage, field, strong>>

(* WeakPtr& operator=(const CntPtr&), and Reset(). *)
WeakFromStrong(th, from) ==
  /\ InUserCode(th)
  /\ strong[from] # NoObj
  /\ cls[strong[from]].weak
  /\ ReassignWeak(th, [m_ptr |-> strong[from], m_weakRef |-> weakRef[strong[from]]])

ResetWeak(th) ==
  /\ InUserCode(th)
  /\ ReassignWeak(th, EmptyWeakPtr)

(* WeakPtr<Future>, whose Assign takes the new one first. *)
WeakFromFuture(th, from) ==
  /\ InUserCode(th)
  /\ strong[from] \notin {NoObj, weak[th].m_ptr}
  /\ cls[strong[from]] = FutureImpl
  /\ weak' = [weak EXCEPT ![th] = [m_ptr |-> strong[from], m_weakRef |-> weakRef[strong[from]]]]
  /\ m_weakRefCount' = [m_weakRefCount EXCEPT ![weakRef[strong[from]]] = @ + 1]
  /\ Start(th, WeakRefOf(weak[th]))
  /\ UNCHANGED <<program, cls, life, weakRef, m_refCount, m_headMember, storage, field, strong>>

RunAssignWeak(th) ==
  /\ Calling(th, "AssignWeak")
  /\ weak' = [weak EXCEPT ![th] = Arg(th)]
  /\ m_weakRefCount' = [m_weakRefCount EXCEPT ![Arg(th).m_weakRef] = @ + 1]
  /\ Continue(th, <<>>)
  /\ UNCHANGED <<program, cls, life, weakRef, m_refCount, m_headMember, storage, field, strong>>

(* The copy constructor makes the WeakPtr of another thread. *)
CopyWeakToThread(th, other) ==
  /\ InUserCode(th)
  /\ InUserCode(other)
  /\ weak[th].m_ptr # NoObj
  /\ weak[other].m_ptr = NoObj
  /\ weak' = [weak EXCEPT ![other] = weak[th]]
  /\ m_weakRefCount' = [m_weakRefCount EXCEPT ![weak[th].m_weakRef] = @ + 1]
  /\ UNCHANGED <<program, cls, life, weakRef, m_refCount, m_headMember, storage, field,
                 strong, todo>>

(* GetStrongPtr: IncrementRefCountIfNotZero loads the count, *)
GetStrongPtr(th, to) ==
  /\ InUserCode(th)
  /\ weak[th].m_ptr # NoObj
  /\ strong[to] = NoObj
  /\ Start(th, <<Increment(to, m_refCount[weak[th].m_weakRef])>>)
  /\ UNCHANGED <<program, cls, life, weakRef, m_refCount, m_weakRefCount, m_headMember,
                 storage, field, strong, weak>>

(* Mutant: the increment does not look at the count again. *)
IncrementBlindly(th) ==
  /\ Calling(th, "Increment")
  /\ LET b == weak[th].m_weakRef
     IN IF Head(todo[th]).count = 0
        THEN UNCHANGED <<m_refCount, strong>>
        ELSE /\ m_refCount' = [m_refCount EXCEPT ![b] = @ + 1]
             /\ strong' = [strong EXCEPT ![Arg(th)] = weak[th].m_ptr]
  /\ Continue(th, <<>>)
  /\ UNCHANGED <<program, cls, life, weakRef, m_weakRefCount, m_headMember, storage, field, weak>>

(* and tries to exchange it until it is zero or the exchange succeeds; a   *)
(* failed exchange reloads the count.                                      *)
RunIncrement(th) ==
  /\ Calling(th, "Increment")
  /\ LET b == weak[th].m_weakRef
         count == Head(todo[th]).count
     IN \/ /\ count = 0
           /\ Continue(th, <<>>)
           /\ UNCHANGED <<m_refCount, strong>>
        \/ /\ count # 0 /\ count = m_refCount[b]
           /\ m_refCount' = [m_refCount EXCEPT ![b] = count + 1]
           /\ strong' = [strong EXCEPT ![Arg(th)] = weak[th].m_ptr]
           /\ Continue(th, <<>>)
        \/ /\ count # 0 /\ count # m_refCount[b]
           /\ Continue(th, <<Increment(Arg(th), m_refCount[b])>>)
           /\ UNCHANGED <<m_refCount, strong>>
  /\ UNCHANGED <<program, cls, life, weakRef, m_weakRefCount, m_headMember, storage, field, weak>>
-----------------------------------------------------------------------------
(* Make *)

(* The allocator takes the lowest free address, so memory is reused soon. *)
FreeMemory == {o \in program.memory : cls[o] = NoClass}
Allocated == Min(FreeMemory)

(* AllocateMemory and the constructor: both counts start at one.  The      *)
(* object takes over what the caller's variable to refers to.              *)
Construct(c, o, to) ==
  /\ cls' = [cls EXCEPT ![o] = c]
  /\ life' = [life EXCEPT ![o] = "alive"]
  /\ weakRef' = [weakRef EXCEPT ![o] = IF HasWeakRef(c) THEN o ELSE NoObj]
  /\ m_refCount' = [m_refCount EXCEPT ![o] = 1]
  /\ field' = [field EXCEPT ![o] = CntPtrTo(strong[to])]

CanConstruct(th, c, to, keep) ==
  /\ keep => c.keeps /\ weak[th].m_ptr = NoObj
  /\ c.takes \/ strong[to] = NoObj

WeakCount(c, keep) == (IF HasWeakRef(c) THEN 1 ELSE 0) + (IF keep THEN 1 ELSE 0)

Make(th, c, to, keep) ==
  /\ InUserCode(th)
  /\ FreeMemory # {}
  /\ CanConstruct(th, c, to, keep)
  /\ LET o == Allocated
     IN /\ Construct(c, o, to)
        /\ m_weakRefCount' = [m_weakRefCount EXCEPT ![o] = WeakCount(c, keep)]
        /\ strong' = [strong EXCEPT ![to] = o]
        /\ weak' = IF keep
                   THEN [weak EXCEPT ![th] = [m_ptr |-> o, m_weakRef |-> o]]
                   ELSE weak
  /\ UNCHANGED <<program, m_headMember, storage, todo>>

(* InitializeThis throws: the memory guard releases the finished object. *)
MakeInitializeThrows(th, c, to, keep) ==
  /\ InUserCode(th)
  /\ c.throws
  /\ FreeMemory # {}
  /\ CanConstruct(th, c, to, keep)
  /\ LET o == Allocated
     IN /\ Construct(c, o, to)
        /\ m_weakRefCount' = [m_weakRefCount EXCEPT ![o] = WeakCount(c, keep)]
        /\ weak' = IF keep
                   THEN [weak EXCEPT ![th] = [m_ptr |-> o, m_weakRef |-> o]]
                   ELSE weak
        /\ Start(th, <<Release(o)>>)
  /\ strong' = [strong EXCEPT ![to] = NoObj]
  /\ UNCHANGED <<program, m_headMember, storage>>

(* Mutant: the guard forgets the weak count of the failed object. *)
MakeThrowsLeaky(th, c, to, keep) ==
  /\ InUserCode(th)
  /\ c.throws
  /\ FreeMemory # {}
  /\ CanConstruct(th, c, to, keep)
  /\ LET o == Allocated
     IN /\ cls' = [cls EXCEPT ![o] = c]
        /\ life' = [life EXCEPT ![o] = "dead"]
        /\ m_weakRefCount' = [m_weakRefCount EXCEPT ![o] = IF keep THEN 2 ELSE 1]
        /\ weak' = IF keep
                   THEN [weak EXCEPT ![th] = [m_ptr |-> o, m_weakRef |-> o]]
                   ELSE weak
        /\ Start(th, ReleaseOf(strong[to]))
  /\ strong' = [strong EXCEPT ![to] = NoObj]
  /\ UNCHANGED <<program, weakRef, m_refCount, m_headMember, storage, field>>

(* The constructor throws: its pointer member is destroyed, and the guard  *)
(* takes both counts back without a destructor call.  A container that a   *)
(* WeakPtr refers to stays, without an object in it.                       *)
MakeThrows(th, c, to, keep) ==
  /\ InUserCode(th)
  /\ c.throws
  /\ FreeMemory # {}
  /\ CanConstruct(th, c, to, keep)
  /\ LET o == Allocated
     IN IF keep
        THEN /\ cls' = [cls EXCEPT ![o] = c]
             /\ life' = [life EXCEPT ![o] = "dead"]
             /\ m_weakRefCount' = [m_weakRefCount EXCEPT ![o] = 1]
             /\ weak' = [weak EXCEPT ![th] = [m_ptr |-> o, m_weakRef |-> o]]
        ELSE UNCHANGED <<cls, life, m_weakRefCount, weak>>
  /\ strong' = [strong EXCEPT ![to] = NoObj]
  /\ Start(th, ReleaseOf(strong[to]))
  /\ UNCHANGED <<program, weakRef, m_refCount, m_headMember, storage, field>>

RefStep(th) ==
  \/ \E from, to \in Own(th) : \/ Assign(th, from, to)
                               \/ MoveAssign(th, from, to)
                               \/ QueryInterface(th, from, to)
  \/ \E from \in Own(th), to \in Slots : MoveToThread(th, from, to)
  \/ \E from \in Own(th) : WeakFromStrong(th, from) \/ WeakFromFuture(th, from)
  \/ \E other \in Threads : CopyWeakToThread(th, other)
  \/ ResetWeak(th)
  \/ \E to \in Own(th) : Clear(th, to) \/ GetStrongPtr(th, to) \/ PointToStatic(th, to)
  \/ \E c \in program.classes, to \in Own(th), keep \in BOOLEAN :
        IsMade(c) /\ (Make(th, c, to, keep) \/ MakeInitializeThrows(th, c, to, keep)
                      \/ MakeThrows(th, c, to, keep))
  \/ RunRelease(th) \/ RunReleaseWeakRef(th)
  \/ RunAssignWeak(th) \/ RunIncrement(th)
=============================================================================
