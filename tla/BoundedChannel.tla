---------------------------- MODULE BoundedChannel ----------------------------
(***************************************************************************)
(* What gateway/src/buffer.rs promises to its callers (the comments on     *)
(* SensorBufferManager, lines 72-77, and on shutdown, lines 133-135),      *)
(* without locks, condition variables or waiting: a bounded FIFO channel   *)
(* that can be closed.  Nothing accepted is lost, duplicated or reordered, *)
(* nothing is accepted once the channel is closed, a producer is refused   *)
(* only by a closed channel, and a consumer is told "no more" only when    *)
(* the channel is closed and everything accepted has been delivered.       *)
(***************************************************************************)
EXTENDS Naturals, Sequences

CONSTANTS Producers, Consumers, Items, Capacity

VARIABLES
  accepted,    \* every item a push took, in order
  delivered,   \* every item a pop returned, in order
  closed,      \* shutdown() was called
  refused,     \* producers whose push returned Err(Shutdown)
  ended        \* consumers told that the stream is over

chanVars == <<accepted, delivered, closed, refused, ended>>

Init == /\ accepted = <<>>
        /\ delivered = <<>>
        /\ closed = FALSE
        /\ refused = {}
        /\ ended = {}

Accept(i) == /\ ~closed
             /\ Len(accepted) - Len(delivered) < Capacity
             /\ accepted' = Append(accepted, i)
             /\ UNCHANGED <<delivered, closed, refused, ended>>

Deliver == /\ Len(delivered) < Len(accepted)
           /\ delivered' = Append(delivered, accepted[Len(delivered) + 1])
           /\ UNCHANGED <<accepted, closed, refused, ended>>

Close == /\ closed' = TRUE
         /\ UNCHANGED <<accepted, delivered, refused, ended>>

Refuse(p) == /\ closed
             /\ refused' = refused \cup {p}
             /\ UNCHANGED <<accepted, delivered, closed, ended>>

End(c) == /\ closed
          /\ accepted = delivered
          /\ ended' = ended \cup {c}
          /\ UNCHANGED <<accepted, delivered, closed, refused>>

Next == \/ \E i \in Items : Accept(i)
        \/ Deliver
        \/ Close
        \/ \E p \in Producers : Refuse(p)
        \/ \E c \in Consumers : End(c)

Spec == Init /\ [][Next]_chanVars
=============================================================================
