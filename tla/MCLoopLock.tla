----------------------------- MODULE MCLoopLock -----------------------------
(* The lock of the loop between two processes, and one call of the engine    *)
(* with the timers of its parent.  A behaviour is about one of them, and    *)
(* each fairness is of the part it is about.                                *)
EXTENDS LoopLock, Headless

CONSTANTS p1, p2

TwoProcs == {p1, p2}

VARIABLE about

MCInit ==
  /\ about \in {"loop", "call"}
  /\ LockInit /\ CallInit /\ (about = "call" \/ ~call.tree)

MCNext ==
  /\ UNCHANGED about
  /\ \/ about = "loop" /\ LockNext /\ UNCHANGED callVars
     \/ about = "call" /\ CallNext /\ UNCHANGED lockVars

MCSpec ==
  /\ MCInit /\ [][MCNext]_<<about, lockVars, callVars>>
  /\ about = "loop" => Fairness
  /\ about = "call" => CallFairness
=============================================================================
