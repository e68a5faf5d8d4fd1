-------------------------------- MODULE Swarm --------------------------------
(***************************************************************************)
(* Swarms (swarm.h, fixedSwarm.h): objects that share one ObjectWeakRef.   *)
(* Members join a Swarm through a lock-free list of holders, and those of  *)
(* a FixedSwarm live in its storage.  All of them die with the last        *)
(* reference to any of them.                                               *)
(***************************************************************************)
EXTENDS RefCounting

AddSwarmMember(o, b, next, to) ==
  [call |-> "AddSwarmMember", arg |-> o, swarm |-> b, next |-> next, to |-> to]
FreeMember(o) == [call |-> "FreeMember", arg |-> o]

(* Swarm::FromObject: the ObjectWeakRef of the object, when it is a Swarm. *)
SwarmOf(o) == IF /\ o # NoObj
                 /\ cls[o].policy = "WeakRef"
                 /\ cls[weakRef[o]] \in {SwarmObject, LinkedSwarmObject}
              THEN weakRef[o] ELSE NoObj

ConstructMember(c, o, b) ==
  /\ cls' = [cls EXCEPT ![o] = c]
  /\ life' = [life EXCEPT ![o] = "alive"]
  /\ weakRef' = [weakRef EXCEPT ![o] = b]
  /\ m_weakRefCount' = [m_weakRefCount EXCEPT ![b] = @ + 1]

(* MakeMember: the weak count, the constructor, then the push below. *)
MakeMember(th, from, to) ==
  /\ InUserCode(th)
  /\ FreeMemory # {}
  /\ LET b == SwarmOf(strong[from])
     IN /\ b # NoObj
        /\ \E c \in program.classes \cap {SwarmMember, LinkedSwarmMember} :
              ConstructMember(c, Allocated, b)
        /\ Start(th, <<AddSwarmMember(Allocated, b, m_headMember[b], to)>>)
  /\ UNCHANGED <<program, m_refCount, m_headMember, storage, field, strong, weak>>

(* Initialization throws: the guard deletes the member and its holder. *)
MakeMemberInitializeThrows(th, from) ==
  /\ InUserCode(th)
  /\ FreeMemory # {}
  /\ LET b == SwarmOf(strong[from])
     IN /\ b # NoObj
        /\ SwarmMember \in program.classes
        /\ ConstructMember(SwarmMember, Allocated, b)
        /\ Start(th, <<Delete(Allocated), FreeMember(Allocated)>>)
  /\ UNCHANGED <<program, m_refCount, m_headMember, storage, field, strong, weak>>

(* The constructor throws: the guard takes the weak count back. *)
MakeMemberThrows(th, from) ==
  /\ InUserCode(th)
  /\ \/ SwarmMember \in program.classes /\ SwarmOf(strong[from]) # NoObj
     \/ FixedSwarmMember \in program.classes /\ strong[from] # NoObj /\ cls[strong[from]] = FixedSwarm
  /\ m_weakRefCount' = [m_weakRefCount EXCEPT ![weakRef[strong[from]]] = @ + 1]
  /\ Start(th, <<ReleaseWeakRef(weakRef[strong[from]])>>)
  /\ UNCHANGED <<program, cls, life, weakRef, m_refCount, m_headMember, storage, field,
                 strong, weak>>

RunFreeMember(th) ==
  /\ Calling(th, "FreeMember")
  /\ Deallocate({Arg(th)})
  /\ Continue(th, <<>>)
  /\ UNCHANGED <<program, weakRef, m_refCount, m_weakRefCount, field, strong, weak>>

(* The member becomes the head if the head is still the one its holder     *)
(* points to, else the holder takes the new head.  The caller then assigns *)
(* the member to its variable.                                             *)
RunAddSwarmMember(th) ==
  /\ Calling(th, "AddSwarmMember")
  /\ LET call == Head(todo[th])
         head == m_headMember[call.swarm]
     IN IF head = call.next
        THEN /\ m_headMember' = [m_headMember EXCEPT ![call.swarm] = <<call.arg>> \o head]
             /\ m_refCount' = AddRef(call.arg)
             /\ strong' = [strong EXCEPT ![call.to] = call.arg]
             /\ Continue(th, ReleaseOf(strong[call.to]))
        ELSE /\ Continue(th, <<AddSwarmMember(call.arg, call.swarm, head, call.to)>>)
             /\ UNCHANGED <<m_headMember, m_refCount, strong>>
  /\ UNCHANGED <<program, cls, life, weakRef, m_weakRefCount, storage, field, weak>>

(* Only a thread that holds every reference may write to what no atomic protects. *)
HoldsAlone(th, o) ==
  m_refCount[Counter(o)] =
    Cardinality({s \in Own(th) : strong[s] # NoObj /\ Counter(strong[s]) = Counter(o)})

(* FixedSwarm::MakeMember<Index>, whose initialization may throw.  It      *)
(* stores the weak reference of the member before there is a member, so a  *)
(* swarm is filled before it is shared.                                    *)
MakeFixedMember(th, from, throws) ==
  /\ InUserCode(th)
  /\ FixedSwarmMember \in program.classes
  /\ FreeMemory # {}
  /\ strong[from] # NoObj
  /\ cls[strong[from]] = FixedSwarm
  /\ HoldsAlone(th, strong[from])
  /\ ConstructMember(FixedSwarmMember, Allocated, strong[from])
  /\ storage' = [storage EXCEPT ![strong[from]] = @ \cup {Allocated}]
  /\ Start(th, IF throws THEN <<Delete(Allocated)>> ELSE <<>>)
  /\ UNCHANGED <<program, m_refCount, m_headMember, field, strong, weak>>

(* FixedSwarm::Get<Index>: a member whose weak reference is set. *)
GetFixedMember(th, from, to) ==
  /\ InUserCode(th)
  /\ strong[to] = NoObj
  /\ strong[from] # NoObj
  /\ \E m \in storage[strong[from]] :
        /\ weakRef[m] # NoObj
        /\ m_refCount' = AddRef(m)
        /\ strong' = [strong EXCEPT ![to] = m]
  /\ UNCHANGED <<program, cls, life, weakRef, m_weakRefCount, m_headMember, storage, field,
                 weak, todo>>

(* A SwarmMemberPtr counts when it points out of its swarm.  Out of it     *)
(* goes to an object without pointers, else the swarm could own itself.    *)
LinkMember(th, from, to) ==
  /\ InUserCode(th)
  /\ strong[from] # NoObj /\ strong[to] # NoObj
  /\ cls[strong[from]].links
  /\ field[strong[from]] = NullField
  /\ HoldsAlone(th, strong[from])
  /\ LET isDifferentSwarm == SwarmOf(strong[to]) # SwarmOf(strong[from])
     IN /\ isDifferentSwarm => field[strong[to]] = NullField /\ SwarmOf(strong[to]) = NoObj
        /\ field' = [field EXCEPT ![strong[from]] = [m_ptr  |-> strong[to],
                                                     counts |-> isDifferentSwarm]]
        /\ m_refCount' = IF isDifferentSwarm THEN AddRef(strong[to]) ELSE m_refCount
  /\ UNCHANGED <<program, cls, life, weakRef, m_weakRefCount, m_headMember, storage, strong,
                 weak, todo>>

SwarmStep(th) ==
  \/ \E from, to \in Own(th) : \/ MakeMember(th, from, to)
                               \/ GetFixedMember(th, from, to)
                               \/ LinkMember(th, from, to)
  \/ \E from \in Own(th) : \/ MakeMemberInitializeThrows(th, from)
                           \/ MakeMemberThrows(th, from)
                           \/ \E throws \in BOOLEAN : MakeFixedMember(th, from, throws)
  \/ RunFreeMember(th) \/ RunAddSwarmMember(th)
=============================================================================
