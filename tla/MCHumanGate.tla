----------------------------- MODULE MCHumanGate -----------------------------
(* The gates on a small instance: two names, two plans, of which one is     *)
(* within the contract, and contracts that may be exchanged.                *)
EXTENDS HumanGate, TLC

CONSTANTS a1, a2, b1, b2, c1, p1, p2, s1, s2

Files == "own" :> a1 @@ "B" :> b1 @@ "C" :> c1
EndpointOf == a1 :> "A" @@ a2 :> "A" @@ b1 :> "B" @@ b2 :> "B" @@ c1 :> "C"
Wide == {<<a1, p1>>, <<a2, p1>>, <<a2, p2>>}

(* A behaviour is about plans, about the contract of goals, about a          *)
(* delivery, about a queue item, or about an item and the goal before it.   *)
NoDelivery == (goal # Nil => goal.bound = [ep \in Eps |-> Nil]) /\ item = Nil
NoContract == goal # Nil => goal.own = Nil

OneName ==
  /\ goal # Nil => goal.slug = s1
  /\ item # Nil => item.slug = s1
  /\ \A s \in Sessions : cmd[s].op = "register" => goal = Nil /\ cmd[s].slug = s1
OneMessage == Cardinality({k \in Hooks : hook[k] # Nil}) <= 1 /\ stamp \in {Words, Words - 1}

OnPlans == NoContract /\ NoDelivery /\ auth = <<>> /\ file = Files /\ stamp = 0
OnContracts ==
  /\ OneName /\ (OneMessage \/ edits = 0) /\ (goal # Nil => goal.own # Nil) /\ NoDelivery
  /\ approvals = {} /\ Words <= 3 /\ stamp <= 3 /\ goals <= 1
  /\ file["own"] \in {a1, a2} /\ file["B"] = b1 /\ file["C"] = c1
  /\ goal = Nil => auth = <<>>
OnDelivery ==
  /\ OneName /\ OneMessage /\ NoContract /\ item = Nil /\ goals <= 1
  /\ plan = p1 /\ (goal # Nil => goal.planAsked # p2)
  /\ file["own"] = a1 /\ file["B"] # Nil /\ file["C"] = c1
  /\ goal = Nil => auth = <<>>
OnQueue ==
  /\ OneName /\ OneMessage /\ approvals = {} /\ plan = p1
  /\ item = Nil => goal = Nil
  /\ file["own"] \in {a1, a2} /\ file["B"] \in {b1, b2} /\ file["C"] = c1
  /\ \A i \in DOMAIN auth : i <= 3 => auth[i].hash = <<a1, b1, c1>>[i]
  /\ edits = 0 \/ Len(auth) >= 3
  /\ goal # Nil /\ goals = 1 => goal.bound = [ep \in Eps |-> Nil]
  /\ \A s \in Sessions : cmd[s].op \notin {"request", "act"}
OnSlot ==
  /\ item # Nil /\ item.slug = s1 /\ item.own = a1 /\ Declared(item) = {}
  /\ OneMessage /\ approvals = {} /\ edits = 0 /\ plan = p1 /\ file = Files
  /\ \A i \in DOMAIN auth : auth[i].slug = s1 /\ Len(auth) <= 1
  /\ goal # Nil => IF goal.slug = s2 THEN goals = 2 /\ goal.own = Nil ELSE goals = 1
  /\ \A s \in Sessions :
       \/ cmd[s].op \in {"none", "queue"}
       \/ cmd[s].op = "register" /\ cmd[s].slug = s2 /\ cmd[s].own = Nil /\ goals = 1
Scenarios == OnPlans \/ OnContracts \/ OnDelivery \/ OnQueue \/ OnSlot

Alike == Permutations(Sessions) \cup Permutations(Hooks)

=============================================================================
