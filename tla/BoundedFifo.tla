----------------------------- MODULE BoundedFifo -----------------------------
(***************************************************************************)
(* What the keyboard's ring buffer promises: a queue of at most Capacity   *)
(* items that drops a new item when it is full and hands the others over   *)
(* one by one, in order, each exactly once.                                *)
(***************************************************************************)
EXTENDS Naturals, Sequences

CONSTANTS Item, Capacity

VARIABLES
  q,             (* items waiting                                          *)
  out            (* the item handed over last                              *)

vars == <<q, out>>

Init == q = <<>> /\ out \in Item

Put(x) ==
  /\ Len(q) < Capacity
  /\ q' = Append(q, x)
  /\ UNCHANGED out

(* An item that arrives at a full queue is lost. *)
Drop ==
  /\ Len(q) = Capacity
  /\ UNCHANGED vars

Get ==
  /\ q # <<>>
  /\ out' = Head(q)
  /\ q' = Tail(q)

Next == (\E x \in Item : Put(x)) \/ Drop \/ Get

Spec == Init /\ [][Next]_vars
==============================================================================
