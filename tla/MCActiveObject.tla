---------------------------- MODULE MCActiveObject ----------------------------
(* A client, the thread of the queue, and an object. *)
EXTENDS ActiveObject

CONSTANTS c1, q, o1
=============================================================================
