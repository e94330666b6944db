----------------------------- MODULE BoundedFifo -----------------------------
(***************************************************************************)
(* What block_queue promises its users: a first-in first-out queue of at   *)
(* most Capacity elements.  Operations that fail (a push into a full       *)
(* queue, a pop that times out) change nothing.                            *)
(***************************************************************************)
EXTENDS Naturals, Sequences

CONSTANTS Threads, Items, Capacity, NoItem

VARIABLES q,   \* the queued elements, oldest first
          got  \* the element each thread obtained last

Init == q = <<>> /\ got = [t \in Threads |-> NoItem]

Push(x) ==
    /\ Len(q) < Capacity
    /\ q' = Append(q, x)
    /\ UNCHANGED got

Pop(t) ==
    /\ q # <<>>
    /\ q' = Tail(q)
    /\ got' = [got EXCEPT ![t] = Head(q)]

Clear == q' = <<>> /\ UNCHANGED got

Next == \/ \E x \in Items : Push(x)
        \/ \E t \in Threads : Pop(t)
        \/ Clear

Spec == Init /\ [][Next]_<<q, got>>
=============================================================================
