----------------------------- MODULE FutureGraph -----------------------------
(***************************************************************************)
(* What futures promise, without states, lists of continuations, threads   *)
(* or executors: a graph of futures that each wait, become active and get  *)
(* one final result, in the order the links between them allow.            *)
(***************************************************************************)
EXTENDS Sequences

CONSTANTS Futures, NoFuture, Kind, Inputs

VARIABLES
  status,  \* waiting, active, Succeeded or Failed
  links    \* <<p, c>>: c continues p; <<NoFuture, c>>: c was posted on its own

vars == <<status, links>>

Final == {"Succeeded", "Failed"}

Parents(c) == {p \in Futures : <<p, c>> \in links}

Sources == {f \in Futures : Kind[f] \in {"promise", "group", "source"}}
Posted == {f \in Futures : <<NoFuture, f>> \in links}

(* The parents of c let it go on. *)
Ready(c) ==
  \/ c \in Sources \cup Posted
  \/ /\ Parents(c) # {}
     /\ IF Kind[c] = "whenAll"
        THEN \/ \A p \in Parents(c) : status[p] = "Succeeded"
             \/ \E p \in Parents(c) : status[p] = "Failed"
        ELSE \E p \in Parents(c) : status[p] \in Final

(* The results c may have, given those of its parents.  A callback can     *)
(* fail, and an executor can cancel it; a token succeeds, with true or     *)
(* false, whatever became of its source.                                   *)
Result(c, r) ==
  CASE Kind[c] \in {"shared", "copy", "wait", "completion", "whenAny"} ->
         \E p \in Parents(c) : status[p] = r
    [] Kind[c] = "whenAll" ->
         IF r = "Succeeded" THEN \A p \in Parents(c) : status[p] = r
         ELSE \E p \in Parents(c) : status[p] = r
    [] Kind[c] = "then" ->
         r = "Succeeded" => \A p \in Parents(c) : status[p] = r
    [] Kind[c] = "token" -> r = "Succeeded"
    [] OTHER -> TRUE

Init ==
  /\ status = [f \in Futures |-> "waiting"]
  /\ links = {<<Inputs[c][1], c>> : c \in {c \in Futures : Kind[c] = "token"}}

(* c becomes a continuation of one of its inputs, or is posted; WhenAll    *)
(* and WhenAny continue all of them.                                       *)
InputsOf(c) == {Inputs[c][i] : i \in DOMAIN Inputs[c]}
ParentSets(c) ==
  IF Kind[c] \in {"whenAll", "whenAny"} THEN {InputsOf(c)}
  ELSE {{p} : p \in InputsOf(c) \cup {NoFuture}}

Link(c, parents) ==
  /\ c \notin Sources \cup Posted
  /\ Parents(c) = {}
  /\ status[c] = "waiting"
  /\ links' = links \cup (parents \X {c})
  /\ UNCHANGED status

Activate(c) ==
  /\ status[c] = "waiting"
  /\ Ready(c)
  /\ status' = [status EXCEPT ![c] = "active"]
  /\ UNCHANGED links

Finish(c, r) ==
  /\ status[c] \in {"waiting", "active"}
  /\ Ready(c)
  /\ Result(c, r)
  /\ status' = [status EXCEPT ![c] = r]
  /\ UNCHANGED links

Next ==
  \E c \in Futures :
    \/ \E parents \in ParentSets(c) : Link(c, parents)
    \/ Activate(c)
    \/ \E r \in Final : Finish(c, r)

Spec == Init /\ [][Next]_vars
=============================================================================
