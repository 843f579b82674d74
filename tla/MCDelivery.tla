----------------------------- MODULE MCDelivery -----------------------------
(* Model values for Delivery. *)
EXTENDS Delivery, TLC

CONSTANTS p1, p2, q1, q2

TwoHands == {p1, p2}
TwoItems == {q1, q2}
Deployed == [i \in Items |-> "C"]

OneAtWork == \A p, q \in Hands : p = q \/ hand[p] = Idle \/ hand[q] = Idle
OneItem == \A i, j \in Items : i = j \/ item[i] = "ready" \/ item[j] = "ready"

(* Two stories in one run: two commits delivered by one process at a time    *)
(* for one item at most, or one commit by two processes.  A goal of version *)
(* 1 is followed for one item where two processes work, and without faults  *)
(* where there are two commits.                                              *)
Within ==
  \/ head = 1 /\ (governed \/ OneItem)
  \/ OneAtWork /\ OneItem /\ (governed \/ faults = 0)

(* The processes are alike, and so are the items. *)
Alike == Permutations(Hands) \cup Permutations(Items)
=============================================================================
