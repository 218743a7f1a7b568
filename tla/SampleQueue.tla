------------------------------ MODULE SampleQueue ------------------------------
(***************************************************************************)
(* What os_lib/src/queue.rs promises (lines 10-14 and 439-441): one reader *)
(* takes the values one writer writes, in the order they were written; a   *)
(* queue that is full gives up its oldest value for a new one, and only    *)
(* then is a value lost.                                                   *)
(***************************************************************************)
EXTENDS Naturals, Sequences

CONSTANTS Values, Usable     \* Usable: how many values fit

VARIABLES items,   \* values written and not yet read or given up
          got      \* values returned to the reader, in order

queueVars == <<items, got>>

Init == items = <<>> /\ got = <<>>

Write(v) == /\ Len(items) < Usable
            /\ items' = Append(items, v)
            /\ UNCHANGED got

GiveUpOldest == /\ Len(items) = Usable
                /\ items' = Tail(items)
                /\ UNCHANGED got

Read == /\ items # <<>>
        /\ items' = Tail(items)
        /\ got' = Append(got, Head(items))

Next == (\E v \in Values : Write(v)) \/ GiveUpOldest \/ Read

Spec == Init /\ [][Next]_queueVars
=============================================================================
