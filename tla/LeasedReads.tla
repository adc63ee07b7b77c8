---------------------------- MODULE LeasedReads -----------------------------
(***************************************************************************)
(* What a cache of blocks that are read in place promises its callers: a   *)
(* caller is lent a block, sees that block's bytes and nothing else while   *)
(* it holds the lease, and gives it back when it likes.                     *)
(***************************************************************************)
CONSTANTS Threads, PinIds, Blocks, Nothing

VARIABLE lease    \* what each caller sees through each lease it may hold

NoLease == [blk |-> Nothing, bytes |-> Nothing]
Lent(b) == [blk |-> b, bytes |-> b]

Init == lease = [t \in Threads |-> [k \in PinIds |-> NoLease]]

Lend(t, k, b) ==
  /\ lease[t][k] = NoLease
  /\ lease' = [lease EXCEPT ![t][k] = Lent(b)]

Return(t, k) ==
  /\ lease[t][k] # NoLease
  /\ lease' = [lease EXCEPT ![t][k] = NoLease]

Next ==
  \E t \in Threads, k \in PinIds :
    Return(t, k) \/ \E b \in Blocks : Lend(t, k, b)

Spec == Init /\ [][Next]_lease
=============================================================================
