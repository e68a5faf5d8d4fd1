------------------------------- MODULE LazyInit -------------------------------
(***************************************************************************)
(* An object created on first use and published with a compare-exchange:   *)
(* LazyInit (lazyInit.h), the string of an ErrorCode (errorCode.cpp) and   *)
(* the marshaler of AgileUnknownObject (unknownObject.h).  The pointer is  *)
(* the field of the object that owns it.                                   *)
(***************************************************************************)
EXTENDS Swarm

Publish(o, new) == [call |-> "Publish", arg |-> o, new |-> new]

(* Get() has loaded a null pointer and makes an instance of its own. *)
LazyGet(th, from) ==
  /\ InUserCode(th)
  /\ FreeMemory # {}
  /\ strong[from] # NoObj
  /\ cls[strong[from]].lazy
  /\ field[strong[from]] = NullField
  /\ cls' = [cls EXCEPT ![Allocated] = RefCountedObject]
  /\ life' = [life EXCEPT ![Allocated] = "alive"]
  /\ m_refCount' = [m_refCount EXCEPT ![Allocated] = 1]
  /\ Start(th, <<Publish(strong[from], Allocated)>>)
  /\ UNCHANGED <<program, weakRef, m_weakRefCount, m_headMember, storage, field, strong, weak>>

(* Mutant: a store in place of the compare-exchange. *)
StoreInstance(th) ==
  /\ Calling(th, "Publish")
  /\ field' = [field EXCEPT ![Arg(th)] = CntPtrTo(Head(todo[th]).new)]
  /\ Continue(th, <<>>)
  /\ UNCHANGED <<program, cls, life, weakRef, m_refCount, m_weakRefCount, m_headMember,
                 storage, strong, weak>>

(* Who wins publishes its instance; who loses releases it. *)
RunPublish(th) ==
  /\ Calling(th, "Publish")
  /\ LET new == Head(todo[th]).new
     IN IF field[Arg(th)] = NullField
        THEN /\ field' = [field EXCEPT ![Arg(th)] = CntPtrTo(new)]
             /\ Continue(th, <<>>)
        ELSE /\ Continue(th, <<Release(new)>>)
             /\ UNCHANGED field
  /\ UNCHANGED <<program, cls, life, weakRef, m_refCount, m_weakRefCount, m_headMember,
                 storage, strong, weak>>

(* LazyInit::Release(), when nobody else can be using the instance. *)
LazyRelease(th, from) ==
  /\ InUserCode(th)
  /\ strong[from] # NoObj
  /\ cls[strong[from]] = LazyInitOwner
  /\ field[strong[from]].counts
  /\ HoldsAlone(th, strong[from])
  /\ field' = [field EXCEPT ![strong[from]] = NullField]
  /\ Start(th, <<Release(field[strong[from]].m_ptr)>>)
  /\ UNCHANGED <<program, cls, life, weakRef, m_refCount, m_weakRefCount, m_headMember,
                 storage, strong, weak>>

LazyStep(th) ==
  \/ \E from \in Own(th) : LazyGet(th, from) \/ LazyRelease(th, from)
  \/ RunPublish(th)
=============================================================================
