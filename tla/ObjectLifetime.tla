---------------------------- MODULE ObjectLifetime ----------------------------
(***************************************************************************)
(* The composition: threads that share reference counted objects, swarms,  *)
(* lazily created instances, errors and owned objects, and what makes that *)
(* safe.                                                                   *)
(***************************************************************************)
EXTENDS Holder

vars == <<refVars, errorVars, holderVars>>

Init == RefInit /\ ErrorInit /\ HolderInit

Next ==
  \E th \in Threads :
    \/ (RefStep(th) \/ SwarmStep(th) \/ LazyStep(th)) /\ UNCHANGED <<errorVars, holderVars>>
    \/ ErrorStep(th) /\ UNCHANGED holderVars
    \/ HolderStep(th)

Spec == Init /\ [][Next]_vars
-----------------------------------------------------------------------------
TypeOK == RefTypeOK /\ ErrorTypeOK /\ HolderTypeOK

(* Pending calls of one kind, by thread and position on its stack. *)
Pending(call) == {p \in UNION {{th} \X DOMAIN todo[th] : th \in Threads} :
                    todo[p[1]][p[2]].call = call}
CallAt(p) == todo[p[1]][p[2]]

(* Who holds a reference that counts: a variable, a field, a Maybe, the    *)
(* caller of Detach, of a pending Release, and the maker of an instance    *)
(* not yet published.                                                      *)
StrongHolders(o) ==
  {<<"slot", s>> : s \in {s \in Slots : strong[s] = o}}
  \cup {<<"field", f>> : f \in {f \in Objects : field[f] = CntPtrTo(o)}}
  \cup {<<"maybe", th>> : th \in {th \in Threads : maybe[th].m_error = o}}
  \cup {<<"raw", th>> : th \in {th \in Threads : raw[th] = o}}
  \cup {<<"release", p>> : p \in {p \in Pending("Release") : CallAt(p).arg = o}}
  \cup {<<"publish", p>> : p \in {p \in Pending("Publish") : CallAt(p).new = o}}

(* Who owns an object that is not counted. *)
Owners(o) ==
  {<<"holder", th>> : th \in {th \in Threads : holder[th] = o}}
  \cup {<<"raw", th>> : th \in {th \in Threads : raw[th] = o}}
  \cup {<<"place", p>> : p \in {p \in Pending("Place") : CallAt(p).arg = o}}

CountedBy(b) == {o \in Objects : cls[o] # NoClass /\ IsCounted(o) /\ Counter(o) = b}

(* The counters of RefCounting never drift: whatever the interleaving of   *)
(* AddRef, Release, IncrementRefCountIfNotZero, ReleaseWeakRef and failed  *)
(* construction, m_refCount is the number of strong holders of the objects *)
(* it counts.                                                              *)
StrongCountExact ==
  \A b \in Objects :
    cls[b] # NoClass /\ (cls[b].policy = "Simple" \/ weakRef[b] = b) =>
      m_refCount[b] = Cardinality(UNION {StrongHolders(o) : o \in CountedBy(b)})

(* No pointer dangles: what a CntPtr, a field, a Maybe or a THolder refers *)
(* to has not been destroyed, and a WeakPtr's ObjectWeakRef not been freed.*)
NoDanglingPointer ==
  /\ \A s \in Slots : strong[s] # NoObj => life[strong[s]] = "alive"
  /\ \A o \in Objects : field[o].counts => life[field[o].m_ptr] = "alive"
  /\ \A th \in Threads : /\ maybe[th].m_error # NoObj => life[maybe[th].m_error] = "alive"
                         /\ weak[th].m_weakRef # NoObj => cls[weak[th].m_weakRef] # NoClass
                         /\ \A o \in {holder[th], raw[th]} \ {NoObj} : life[o] = "alive"

(* Every object is destroyed once, after its last reference, and memory is *)
(* not touched after DestroyContainer: a pending Delete has an object to   *)
(* destroy that nothing holds, a pending Free one that nobody owns, a      *)
(* pending EndDelete a dead one, a pending Release a live one, a pending   *)
(* ReleaseWeakRef a container.                                             *)
DestroyedOnce ==
  /\ \A p \in Pending("Delete") \cup Pending("Free") :
       /\ life[CallAt(p).arg] = "alive"
       /\ \A q \in Pending("Delete") \cup Pending("Free") : CallAt(q).arg = CallAt(p).arg => q = p
       /\ StrongHolders(CallAt(p).arg) \cup Owners(CallAt(p).arg) = {}
  /\ \A p \in Pending("EndDelete") : life[CallAt(p).arg] = "dead"
  /\ \A p \in Pending("Release") : life[CallAt(p).arg] = "alive"
  /\ \A p \in Pending("ReleaseWeakRef") : cls[CallAt(p).arg] # NoClass

(* Nothing leaks: when no thread is inside a call, a live object is held   *)
(* from outside its swarm, so SwarmMemberPtr cycles and lost races of the  *)
(* member list or of LazyInit keep nothing alive, an object that is not    *)
(* counted has one owner, and memory without a live object is held by a    *)
(* WeakPtr.                                                                *)
NoLeak ==
  (\A th \in Threads : todo[th] = <<>>) =>
    \A o \in Objects :
      /\ life[o] = "alive" /\ IsCounted(o) =>
           \/ \E h \in UNION {StrongHolders(x) : x \in CountedBy(Counter(o))} :
                 h[1] # "field" \/ ~(weakRef[h[2]] # NoObj /\ weakRef[h[2]] = weakRef[o])
           \/ cls[o] = FixedSwarm /\ \E th \in Threads : weak[th].m_weakRef = o
      /\ life[o] = "alive" /\ cls[o] = OwnedObject => Cardinality(Owners(o)) = 1
      /\ life[o] = "dead" =>
           \E b \in Objects : /\ o \in Owned(b)
                              /\ m_weakRefCount[b] > 0
                              /\ \/ \E th \in Threads : weak[th].m_weakRef = b
                                 \/ \E x \in Owned(b) : life[x] = "alive"

(* Everybody who calls Get() on a LazyInit, or ToString() on one error,    *)
(* gets the same instance as long as the owner lives and does not release  *)
(* it: a published instance is not replaced.                               *)
PublishedOnce ==
  [][\A o \in Objects : cls[o].lazy /\ field[o].counts /\ field'[o].counts
                        => field'[o] = field[o]]_vars

(* OnUnhandledError is called for the errors no holder handled, whichever  *)
(* thread handled or dropped them last, and not before they are destroyed. *)
ReportedUnhandled ==
  /\ \A e \in Objects : cls[e] = ErrorCodeState /\ life[e] = "dead" =>
                          (e \in reported <=> e \notin handled)
  /\ \A e \in reported : life[e] = "dead"
=============================================================================
