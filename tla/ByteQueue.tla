----------------------------- MODULE ByteQueue -----------------------------
(***************************************************************************)
(* What struct buffer (squeezelite.h:266) promises to the thread that      *)
(* fills it and to the thread that drains it: a bounded first-in first-out *)
(* queue of bytes that can be emptied at any time.  StreamBuffer shows     *)
(* that the pointer arithmetic of buffer.c implements it.                  *)
(***************************************************************************)
EXTENDS Naturals, Sequences

CONSTANTS
  Byte,      \* the values a byte takes
  Capacity   \* the most bytes the queue ever holds

VARIABLE queue

Init == queue = << >>

(* A chunk of bytes goes to the end of the queue, all of it. *)
Put ==
  \E n \in 1..Capacity - Len(queue) : \E chunk \in [1..n -> Byte] :
    queue' = queue \o chunk

(* The first n bytes leave the queue. *)
Take ==
  \E n \in 1..Len(queue) : queue' = SubSeq(queue, n + 1, Len(queue))

Clear == queue' = << >>

Next == Put \/ Take \/ Clear

Spec == Init /\ [][Next]_queue
=============================================================================
