----------------------------- MODULE MCGoalLoop -----------------------------
(* Model values for GoalLoop. *)
EXTENDS GoalLoop, TLC

CONSTANTS sa, sb, pa, pb, n1, f1, t1, t2, h1, h2

TwoSlugs == {sa, sb}
TwoPlans == {pa, pb}
OneWork == {n1}
OneFinal == {f1}
TwoTrees == {t1, t2}
BothTiers == {"light", "heavy"}
AnyHarness == {None, h1, h2}
RedHalf == {"red"}
BothHalves == {"red", "waived"}
BothVerdicts == BOOLEAN

(* Two stories in one run.  Instances: two names, no comparisons, capture    *)
(* programs undeclared.  Proofs: one name, heavy goals, every program        *)
(* declared, the N step out of the way before the F step.                    *)
Kinds == {dag.nodes[i].kind : i \in DOMAIN dag.nodes}
Declared == {dag.nodes[i].harness : i \in Nodes({"green", "red"})}

Instances ==
  /\ Kinds \subseteq {"plan", "green", "red"} /\ Declared \subseteq {None}
  /\ Len(dag.nodes) <= 4 /\ (Len(dag.nodes) = 4 => pending.dag = None)

Proofs ==
  /\ era <= 2 /\ None \notin Declared
  /\ Cardinality({dag.nodes[i].slug : i \in DOMAIN dag.nodes}) <= 1
  /\ lineage # None => \A i \in DOMAIN dag.nodes : dag.nodes[i].slug = lineage.slug
  /\ goal = None => era = 0
  /\ goal # None => /\ goal.tier = "heavy" /\ goal.status # "abandoned"
                    /\ \/ Works \subseteq goal.done
                       \/ \A i \in Nodes({"green", "red", "waived"}) : dag.nodes[i].attempt # goal.attempt

Within == Instances \/ Proofs

(* Names, hashes and captured values are interchangeable. *)
Symmetry ==
  Permutations(Slugs) \cup Permutations(Plans) \cup Permutations(Trees)
    \cup Permutations(Harnesses \ {None})
=============================================================================
