--------------------------- MODULE MCObjectLifetime ---------------------------
(* Two threads, and one small program per kind of object. *)
EXTENDS ObjectLifetime

CONSTANTS t1, t2

MCProgram(classes, n) == [classes |-> classes, memory |-> 1..n]

MCPrograms == {MCProgram({WeakRefCountedObject}, 3),
               MCProgram({FutureImpl}, 2),
               MCProgram({RefCountedWrapper, NoRefCountObject}, 2),
               MCProgram({NoQueryObject}, 2),
               MCProgram({NoVTableObject}, 2),
               MCProgram({FunctionObjectWrapper, FunctionPointerWrapper}, 2),
               MCProgram({UnknownObject, WeakUnknownObject}, 2),
               MCProgram({SwarmObject, SwarmMember}, 3),
               MCProgram({LinkedSwarmObject, LinkedSwarmMember, RefCountedObject}, 3),
               MCProgram({FixedSwarm, FixedSwarmMember}, 3),
               MCProgram({LazyInitOwner}, 3),
               MCProgram({AgileUnknownObject}, 3),
               MCProgram({ErrorCodeState}, 2),
               MCProgram({OwnedObject}, 3)}

MCSlots == {<<t1, "p">>, <<t1, "q">>, <<t2, "p">>}
=============================================================================
