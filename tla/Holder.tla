-------------------------------- MODULE Holder --------------------------------
(***************************************************************************)
(* Pointers that own without a count (THolder and its descendants in       *)
(* smartPointerBase.h and smartPointers.h), and the raw pointers that      *)
(* carry ownership between Detach and Attach.  Each thread has one holder  *)
(* and one raw pointer.                                                    *)
(***************************************************************************)
EXTENDS ErrorCode

VARIABLES
  holder,   \* holder[th]: m_pT of the THolder of th
  raw       \* raw[th]: a pointer th got from Detach

holderVars == <<holder, raw>>

HolderInit ==
  /\ holder = [th \in Threads |-> NoObj]
  /\ raw = [th \in Threads |-> NoObj]

HolderTypeOK ==
  /\ holder \in [Threads -> Pointers]
  /\ raw \in [Threads -> Pointers]

(* THolder::Clear, Place, and Free of its helper. *)
ClearHolder == [call |-> "ClearHolder", arg |-> NoObj]
Place(o)    == [call |-> "Place", arg |-> o]
Free(o)     == [call |-> "Free", arg |-> o]

(* Attach, and assignment: Clear, then Place. *)
Attach(o) == <<ClearHolder, Place(o)>>

KeepObjects == UNCHANGED <<program, cls, life, weakRef, m_refCount, m_weakRefCount,
                           m_headMember, storage, field, weak, errorVars>>
-----------------------------------------------------------------------------
(* Mutant: the holder is emptied after the object is freed. *)
ClearAfterFree(th) ==
  /\ Calling(th, "ClearHolder")
  /\ Continue(th, IF holder[th] = NoObj THEN <<>> ELSE <<Free(holder[th]), Place(NoObj)>>)
  /\ KeepObjects
  /\ UNCHANGED <<strong, holderVars>>

(* Detach first, so that a destructor that comes back finds it empty. *)
RunClearHolder(th) ==
  /\ Calling(th, "ClearHolder")
  /\ Continue(th, IF holder[th] = NoObj THEN <<>> ELSE <<Free(holder[th])>>)
  /\ holder' = [holder EXCEPT ![th] = NoObj]
  /\ KeepObjects
  /\ UNCHANGED <<strong, raw>>

(* The destructor, which may clear the holder that held its object. *)
RunFree(th) ==
  /\ Calling(th, "Free")
  /\ life' = [life EXCEPT ![Arg(th)] = "dead"]
  /\ \E comesBack \in BOOLEAN :
        Continue(th, (IF comesBack THEN <<ClearHolder>> ELSE <<>>) \o <<EndDelete(Arg(th))>>)
  /\ UNCHANGED <<program, cls, weakRef, m_refCount, m_weakRefCount, m_headMember, storage,
                 field, strong, weak, errorVars, holderVars>>

RunPlace(th) ==
  /\ Calling(th, "Place")
  /\ holder' = [holder EXCEPT ![th] = Arg(th)]
  /\ Continue(th, <<>>)
  /\ KeepObjects
  /\ UNCHANGED <<strong, raw>>
-----------------------------------------------------------------------------
MakeOwned(th) ==
  /\ InUserCode(th)
  /\ OwnedObject \in program.classes
  /\ FreeMemory # {}
  /\ cls' = [cls EXCEPT ![Allocated] = OwnedObject]
  /\ life' = [life EXCEPT ![Allocated] = "alive"]
  /\ Start(th, Attach(Allocated))
  /\ UNCHANGED <<program, weakRef, m_refCount, m_weakRefCount, m_headMember, storage,
                 field, strong, weak, errorVars, holderVars>>

(* Clear(), reset() and the destructor. *)
ResetHolder(th) ==
  /\ InUserCode(th)
  /\ holder[th] # NoObj
  /\ Start(th, <<ClearHolder>>)
  /\ KeepObjects
  /\ UNCHANGED <<strong, holderVars>>

DetachHolder(th) ==
  /\ InUserCode(th)
  /\ holder[th] # NoObj
  /\ raw[th] = NoObj
  /\ raw' = [raw EXCEPT ![th] = holder[th]]
  /\ holder' = [holder EXCEPT ![th] = NoObj]
  /\ KeepObjects
  /\ UNCHANGED <<strong, todo>>

AttachHolder(th) ==
  /\ InUserCode(th)
  /\ raw[th] # NoObj
  /\ cls[raw[th]] = OwnedObject
  /\ raw' = [raw EXCEPT ![th] = NoObj]
  /\ Start(th, Attach(raw[th]))
  /\ KeepObjects
  /\ UNCHANGED <<strong, holder>>

(* TransferFrom, which move assignment calls, from itself too. *)
TransferFrom(th, other) ==
  /\ InUserCode(th) /\ InUserCode(other)
  /\ holder[other] # NoObj
  /\ holder' = [holder EXCEPT ![other] = NoObj]
  /\ Start(th, Attach(holder[other]))
  /\ KeepObjects
  /\ UNCHANGED <<strong, raw>>

SwapHolders(th, other) ==
  /\ InUserCode(th) /\ InUserCode(other)
  /\ holder[th] # holder[other]
  /\ holder' = [holder EXCEPT ![th] = holder[other], ![other] = holder[th]]
  /\ KeepObjects
  /\ UNCHANGED <<strong, raw, todo>>
-----------------------------------------------------------------------------
(* CntPtr::Detach hands its reference out, *)
DetachPtr(th, from) ==
  /\ InUserCode(th)
  /\ \E c \in program.classes : IsFunctor(c)
  /\ strong[from] # NoObj
  /\ raw[th] = NoObj
  /\ raw' = [raw EXCEPT ![th] = strong[from]]
  /\ strong' = [strong EXCEPT ![from] = NoObj]
  /\ KeepObjects
  /\ UNCHANGED <<holder, todo>>

(* and Attach takes one over.  Callers must not attach the pointer that is *)
(* already there: Attach would ignore it and its reference be lost.        *)
AttachPtr(th, to) ==
  /\ InUserCode(th)
  /\ raw[th] \notin {NoObj, strong[to]}
  /\ cls[raw[th]] # OwnedObject
  /\ strong' = [strong EXCEPT ![to] = raw[th]]
  /\ raw' = [raw EXCEPT ![th] = NoObj]
  /\ Start(th, ReleaseOf(strong[to]))
  /\ KeepObjects
  /\ UNCHANGED holder

SwapPtrs(th, left, right) ==
  /\ InUserCode(th)
  /\ \E c \in program.classes : IsFunctor(c)
  /\ strong[left] # strong[right]
  /\ strong' = [strong EXCEPT ![left] = strong[right], ![right] = strong[left]]
  /\ KeepObjects
  /\ UNCHANGED <<holderVars, todo>>

HolderStep(th) ==
  \/ RunClearHolder(th) \/ RunFree(th) \/ RunPlace(th)
  \/ MakeOwned(th) \/ ResetHolder(th) \/ DetachHolder(th) \/ AttachHolder(th)
  \/ \E other \in Threads : TransferFrom(th, other) \/ SwapHolders(th, other)
  \/ \E s \in Own(th) : DetachPtr(th, s) \/ AttachPtr(th, s)
  \/ \E left, right \in Own(th) : SwapPtrs(th, left, right)
=============================================================================
