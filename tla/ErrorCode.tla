------------------------------ MODULE ErrorCode ------------------------------
(***************************************************************************)
(* ErrorCode and Maybe (errorCode.h, errorProvider.h, maybe.h).  An        *)
(* ErrorCode is a CntPtr to an ErrorCodeState; a Maybe is either a value   *)
(* or an ErrorCode, in the same storage.  Each thread has one Maybe.       *)
(***************************************************************************)
EXTENDS LazyInit

VARIABLES
  handled,    \* errors whose m_isHandled is set
  reported,   \* errors OnUnhandledError was called for, until they are freed
  maybe       \* maybe[th]: m_kind, and m_error when it is an error

errorVars == <<handled, reported, maybe>>

Value == [m_kind |-> "Value", m_error |-> NoObj]
Error(e) == [m_kind |-> "Error", m_error |-> e]

ErrorInit ==
  /\ handled = {}
  /\ reported = {}
  /\ maybe = [th \in Threads |-> Value]

ErrorTypeOK ==
  /\ handled \in SUBSET Objects
  /\ reported \in SUBSET Objects
  /\ maybe \in [Threads -> {Value} \cup {Error(e) : e \in Pointers}]

UsesErrors == ErrorCodeState \in program.classes
-----------------------------------------------------------------------------
(* Mutant: the provider does not look at m_isHandled. *)
DeleteReportsAll(th) ==
  /\ RunDelete(th)
  /\ reported' = IF cls[Arg(th)] = ErrorCodeState THEN reported \cup {Arg(th)} ELSE reported
  /\ UNCHANGED <<handled, maybe>>

(* IErrorProvider::Destroy: an error nobody handled is reported, *)
DeleteObject(th) ==
  /\ RunDelete(th)
  /\ reported' = IF cls[Arg(th)] = ErrorCodeState /\ Arg(th) \notin handled
                 THEN reported \cup {Arg(th)}
                 ELSE reported
  /\ UNCHANGED <<handled, maybe>>

(* and goes with its flag. *)
EndDeleteObject(th) ==
  /\ RunEndDelete(th)
  /\ handled' = handled \ {Arg(th)}
  /\ reported' = reported \ {Arg(th)}
  /\ UNCHANGED maybe

MakeErrorCode(th, to) ==
  /\ UsesErrors
  /\ Make(th, ErrorCodeState, to, FALSE)
  /\ UNCHANGED errorVars

(* Handle(), and HandleAs() with the provider of the error. *)
Handle(th, from) ==
  /\ InUserCode(th)
  /\ strong[from] # NoObj
  /\ cls[strong[from]] = ErrorCodeState
  /\ handled' = handled \cup {strong[from]}
  /\ UNCHANGED <<refVars, reported, maybe>>
-----------------------------------------------------------------------------
(* Assignment to the Maybe of a thread destroys what it held. *)
AssignMaybe(th, owner, new) ==
  /\ maybe' = [maybe EXCEPT ![owner] = new]
  /\ Start(th, ReleaseOf(maybe[owner].m_error))

KeepHeap == UNCHANGED <<program, cls, life, weakRef, m_weakRefCount, m_headMember, storage,
                        field, weak, handled, reported>>

MaybeFromValue(th) ==
  /\ InUserCode(th)
  /\ UsesErrors
  /\ maybe[th] # Value
  /\ AssignMaybe(th, th, Value)
  /\ KeepHeap
  /\ UNCHANGED <<m_refCount, strong>>

(* Maybe(ErrorCode&&), of an empty ErrorCode too. *)
MaybeFromError(th, from) ==
  /\ InUserCode(th)
  /\ UsesErrors
  /\ strong[from] # NoObj => cls[strong[from]] = ErrorCodeState
  /\ AssignMaybe(th, th, Error(strong[from]))
  /\ strong' = [strong EXCEPT ![from] = NoObj]
  /\ KeepHeap
  /\ UNCHANGED m_refCount

(* Mutant: the copy takes no reference of its own. *)
CopyMaybeUncounted(th, other) ==
  /\ InUserCode(th) /\ InUserCode(other)
  /\ th # other
  /\ UsesErrors
  /\ AssignMaybe(th, other, maybe[th])
  /\ KeepHeap
  /\ UNCHANGED <<m_refCount, strong>>

(* operator=(const Maybe&) *)
CopyMaybe(th, other) ==
  /\ InUserCode(th) /\ InUserCode(other)
  /\ th # other
  /\ UsesErrors
  /\ LET e == maybe[th].m_error
     IN m_refCount' = IF e # NoObj THEN AddRef(e) ELSE m_refCount
  /\ AssignMaybe(th, other, maybe[th])
  /\ KeepHeap
  /\ UNCHANGED strong

(* operator=(Maybe&&): the source keeps its kind and an empty error. *)
MoveMaybe(th, other) ==
  /\ InUserCode(th) /\ InUserCode(other)
  /\ th # other
  /\ UsesErrors
  /\ maybe' = [maybe EXCEPT ![other] = maybe[th], ![th].m_error = NoObj]
  /\ Start(th, ReleaseOf(maybe[other].m_error))
  /\ KeepHeap
  /\ UNCHANGED <<m_refCount, strong>>

(* TakeError leaves an error without ErrorCodeState. *)
TakeError(th, to) ==
  /\ InUserCode(th)
  /\ maybe[th].m_kind = "Error"
  /\ strong[to] = NoObj
  /\ strong' = [strong EXCEPT ![to] = maybe[th].m_error]
  /\ maybe' = [maybe EXCEPT ![th].m_error = NoObj]
  /\ KeepHeap
  /\ UNCHANGED <<m_refCount, todo>>

(* GetValueElseThrow, TakeValueElseThrow: ErrorCode::Throw of an error     *)
(* without state throws nothing, and the caller goes on.                   *)
GetValueElseThrow(th, catch) ==
  /\ InUserCode(th)
  /\ maybe[th].m_kind = "Error"
  /\ strong[catch] = NoObj
  /\ LET e == maybe[th].m_error
     IN /\ m_refCount' = IF e # NoObj THEN AddRef(e) ELSE m_refCount
        /\ strong' = [strong EXCEPT ![catch] = e]
  /\ KeepHeap
  /\ UNCHANGED <<todo, maybe>>

(* ThrowOnError handles the error it throws. *)
ThrowOnError(th, catch) ==
  /\ InUserCode(th)
  /\ maybe[th].m_error # NoObj
  /\ strong[catch] = NoObj
  /\ m_refCount' = AddRef(maybe[th].m_error)
  /\ strong' = [strong EXCEPT ![catch] = maybe[th].m_error]
  /\ handled' = handled \cup {maybe[th].m_error}
  /\ UNCHANGED <<program, cls, life, weakRef, m_weakRefCount, m_headMember, storage, field,
                 weak, todo, reported, maybe>>

ErrorStep(th) ==
  \/ DeleteObject(th) \/ EndDeleteObject(th)
  \/ MaybeFromValue(th)
  \/ \E s \in Own(th) : \/ MakeErrorCode(th, s) \/ Handle(th, s) \/ MaybeFromError(th, s)
                        \/ TakeError(th, s) \/ GetValueElseThrow(th, s) \/ ThrowOnError(th, s)
  \/ \E other \in Threads : CopyMaybe(th, other) \/ MoveMaybe(th, other)
=============================================================================
