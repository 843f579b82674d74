------------------------------ MODULE MCDrive ------------------------------
(* The drive on three steps, the third waiting for the second, and two      *)
(* workers: the first run is explored in full; a second one for two waves   *)
(* after a run without a fault, and for one wave after a fault or for       *)
(* another goal.  A goal registered again under its name is followed to the *)
(* end of the first run, without faults.  Beside it the graphs of four      *)
(* items: every plan whose names are items of it, and every plan with a     *)
(* strange name or an item that names itself on the lines of three of them. *)
EXTENDS Drive, Graph

CONSTANTS a, b, c, n1, n2, n3, n4, odd

VARIABLE about

PlanOfThree == <<a, b, c>>
LastWaits == [s \in {a, b, c} |-> IF s = c THEN {b} ELSE {}]
FourItems == <<n1, n2, n3, n4>>

WellNamed == \A x \in Items : declares[x] \subseteq Items \ {x}
OfThree == declares[n4] = {} /\ \A x \in Items : n4 \notin declares[x]
NoPlan == declares = [x \in Items |-> {}]

MCInit ==
  /\ about \in {"drive", "graph"}
  /\ Init
  /\ GraphInit
  /\ IF about = "graph" THEN WellNamed \/ OfThree ELSE NoPlan

MCNext ==
  /\ UNCHANGED about
  /\ \/ about = "drive" /\ Next /\ UNCHANGED graphVars
     \/ about = "graph" /\ GraphNext /\ UNCHANGED vars

MCSpec == MCInit /\ [][MCNext]_<<about, vars, graphVars>>

BeforeRenewal ==
  \/ d.run <= 1
  \/ Fast /\ goal.id = 1 /\ d.wave + faults <= 2
  \/ d.wave + faults <= 1

Within ==
  \/ about = "graph"
  \/ d.renewed /\ d.run <= 1 /\ d.pc # "idle" /\ goal.id = 1 /\ faults = 0
  \/ ~d.renewed /\ BeforeRenewal
=============================================================================
