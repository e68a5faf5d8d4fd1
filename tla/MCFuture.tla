------------------------------ MODULE MCFuture ------------------------------
(* Instances of Future for TLC. *)
EXTENDS Future, TLC

CONSTANTS u1, u2, e1, fp, fq, fr, fs, fa, fb, fc, fk, fw, fx, fy

NoTarget == [f \in Futures |-> NoFuture]

(* A promise group, a future added to it, with a unique continuation and a *)
(* shared one, and a unique future behind the shared one or the group.     *)
ShareFutures == {fp, fc, fa, fs, fk, fb}
ShareKind == fp :> "group" @@ fc :> "copy" @@ fa :> "then" @@ fs :> "shared"
             @@ fk :> "copy" @@ fb :> "maybe"
ShareInputs == fp :> <<>> @@ fc :> <<fp>> @@ fa :> <<fc>> @@ fs :> <<fc>> @@ fk :> <<fp, fs>> @@ fb :> <<fk>>

(* A callback that returns a future, a Catch behind it and a FutureWait.   *)
AwaitFutures == {fp, fa, fk, fb, fw}
AwaitKind == fp :> "promise" @@ fa :> "then" @@ fk :> "completion" @@ fb :> "catch" @@ fw :> "wait"
AwaitInputs == fp :> <<>> @@ fa :> <<>> @@ fk :> <<fp>> @@ fb :> <<fa>> @@ fw :> <<fb>>
AwaitTarget == [f \in AwaitFutures |-> IF f = fk THEN fa ELSE NoFuture]

(* WhenAny over a token and a WhenAll over the callback of the token and a *)
(* promise.                                                                *)
WhenFutures == {fp, fr, fs, fa, fx, fy}
WhenKind == fp :> "promise" @@ fr :> "source" @@ fs :> "token" @@ fa :> "then"
            @@ fx :> "whenAll" @@ fy :> "whenAny"
WhenInputs == fp :> <<>> @@ fr :> <<>> @@ fs :> <<fr>> @@ fa :> <<fs>>
              @@ fx :> <<fp, fa>> @@ fy :> <<fx, fs>>

(* A promise that is one of the futures of a WhenAll. *)
PairFutures == {fp, fx}
PairKind == fp :> "promise" @@ fx :> "whenAll"
PairInputs == fp :> <<>> @@ fx :> <<fp>>

(* A cancellation token with an action and a WhenAny behind it. *)
LostFutures == {fr, fs, fa, fy}
LostKind == fr :> "source" @@ fs :> "token" @@ fa :> "then" @@ fy :> "whenAny"
LostInputs == fr :> <<>> @@ fs :> <<fr>> @@ fa :> <<fs>> @@ fy :> <<fs>>

(* A cancellation token and its source. *)
TokenFutures == {fr, fs}
TokenKind == fr :> "source" @@ fs :> "token"
TokenInputs == fr :> <<>> @@ fs :> <<fr>>

(* The users are interchangeable. *)
Symmetry == Permutations(Users)
=============================================================================
