---------------------------- MODULE BoundedFifo ----------------------------
(***************************************************************************)
(* What SpscRingBuffer promises its two threads: a first-in first-out      *)
(* queue of at most Capacity values.  An accepted value is handed out      *)
(* exactly once, in order, whatever the threads' interleaving; reset()     *)
(* empties the queue.  A refused push and a pop from an empty queue leave  *)
(* it alone, so they are stuttering steps here.                            *)
(***************************************************************************)
EXTENDS Naturals, Sequences

CONSTANTS Capacity,  \* most values held at once
          Values,    \* payloads
          Nil        \* "nothing popped yet"

VARIABLES queue,     \* accepted and not yet handed out, oldest first
          delivered  \* the value the last successful pop handed out

vars == <<queue, delivered>>

Init ==
  /\ queue = <<>>
  /\ delivered = Nil

Enqueue(v) ==
  /\ Len(queue) < Capacity
  /\ queue' = Append(queue, v)
  /\ UNCHANGED delivered

Dequeue ==
  /\ queue # <<>>
  /\ delivered' = Head(queue)
  /\ queue' = Tail(queue)

Clear ==
  /\ queue' = <<>>
  /\ UNCHANGED delivered

Next ==
  \/ \E v \in Values : Enqueue(v)
  \/ Dequeue
  \/ Clear

Spec == Init /\ [][Next]_vars
=============================================================================
