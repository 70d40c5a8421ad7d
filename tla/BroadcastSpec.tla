--------------------------- MODULE BroadcastSpec ---------------------------
(***************************************************************************)
(* What a MessageQueue promises: one writer broadcasts messages 1, 2, ...   *)
(* and every reader's dequeue returns them one at a time, in that order,    *)
(* each exactly once. A bounded reader holds the writer back when it is     *)
(* Capacity messages behind.                                                *)
(***************************************************************************)
EXTENDS Naturals, Sequences

CONSTANTS AllReaders, Bounded, Capacity

VARIABLES published,  \* messages broadcast so far
          got         \* the messages each reader's dequeue has returned

Init == published = 0 /\ got = [r \in AllReaders |-> << >>]

Broadcast ==
  /\ \A r \in Bounded : published - Len(got[r]) < Capacity
  /\ published' = published + 1
  /\ UNCHANGED got

Deliver(r) ==
  /\ Len(got[r]) < published
  /\ got' = [got EXCEPT ![r] = Append(@, Len(@) + 1)]
  /\ UNCHANGED published

Next == Broadcast \/ \E r \in AllReaders : Deliver(r)

Spec == Init /\ [][Next]_<<published, got>>
=============================================================================
