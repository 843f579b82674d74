----------------------------- MODULE GoalPromise -----------------------------
(***************************************************************************)
(* What the goal loop promises to whoever reads its files: a goal moves     *)
(* forward through its states, a change of plan while it runs opens the     *)
(* next attempt, and "done" is said of an attempt and its plan only after   *)
(* their proof (the final attestation) is on disk.  GoalLoop implements     *)
(* this with several files that are written one after the other.            *)
(***************************************************************************)
EXTENDS Naturals

CONSTANTS Slugs, Plans, None

VARIABLES
  goal,     \* None, or the slug, status, attempt and plan of the registered goal
  proved    \* the <<slug, attempt, plan>> an attestation exists for

vars == <<goal, proved>>

Init == goal = None /\ proved = {}

Current == <<goal.slug, goal.attempt, goal.plan>>

(* Under an attempt number that nothing was proved of yet. *)
Register ==
  /\ goal = None
  /\ goal' \in [slug : Slugs, status : {"planning"}, attempt : Nat \ {0}, plan : {None}]
  /\ \A p \in Plans : <<goal'.slug, goal'.attempt, p>> \notin proved
  /\ UNCHANGED proved

(* While it is planned its plan may change. *)
Adopt ==
  /\ goal # None /\ goal.status = "planning"
  /\ \E p \in Plans : goal' = [goal EXCEPT !.plan = p]
  /\ UNCHANGED proved

Start ==
  /\ goal # None /\ goal.status = "planning" /\ goal.plan # None
  /\ goal' = [goal EXCEPT !.status = "executing"]
  /\ UNCHANGED proved

(* While it runs, only together with its attempt. *)
Supersede ==
  /\ goal # None /\ goal.status = "executing"
  /\ \E p \in Plans : goal' = [goal EXCEPT !.attempt = @ + 1, !.plan = p]
  /\ UNCHANGED proved

Prove ==
  /\ goal # None /\ goal.status \in {"executing", "done"}
  /\ proved' = proved \cup {Current}
  /\ UNCHANGED goal

Finish ==
  /\ goal # None /\ goal.status = "executing"
  /\ Current \in proved
  /\ goal' = [goal EXCEPT !.status = "done"]
  /\ UNCHANGED proved

Abandon ==
  /\ goal # None
  /\ goal' = [goal EXCEPT !.status = "abandoned"]
  /\ UNCHANGED proved

Reset ==
  /\ goal # None
  /\ goal' = None
  /\ UNCHANGED proved

Next == Register \/ Adopt \/ Start \/ Supersede \/ Prove \/ Finish \/ Abandon \/ Reset

Spec == Init /\ [][Next]_vars
=============================================================================
