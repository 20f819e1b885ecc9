--------------------------------- MODULE Fifo ---------------------------------
(***************************************************************************)
(* What a FIFO queue whose head may be rewritten promises.                 *)
(***************************************************************************)
EXTENDS Sequences

CONSTANT Items

VARIABLE items

Init == items = <<>>

Push(v) == items' = Append(items, v)

Pop == items # <<>> /\ items' = Tail(items)

SetHead(v) == items # <<>> /\ items' = <<v>> \o Tail(items)

Next == \/ \E v \in Items : Push(v) \/ SetHead(v)
        \/ Pop

Spec == Init /\ [][Next]_items
===============================================================================
