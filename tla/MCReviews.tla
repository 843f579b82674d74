----------------------------- MODULE MCReviews -----------------------------
(* Reviews on a small instance: what they cost with two reviewers, what they *)
(* find, under two names of a goal, with one, or what one of them leaves    *)
(* behind for two cleaners; and the words of people at the gates.           *)
EXTENDS ReviewBudget, Findings, ReviewSandbox, MCHumanGate

VARIABLE about

review_vars == <<run_vars, use_vars, findings_vars, sandboxVars>>

(* What stands still while a behaviour is about something else. *)
AnyHost == CHOOSE h \in Host : TRUE

MCInit ==
  /\ about \in {"cost", "findings", "sandbox", "gates"}
  /\ BudgetInit /\ FindingsInit /\ SandboxInit /\ Init
  /\ about # "sandbox" => host = AnyHost
  /\ about # "gates" => plan = p1

MCNext ==
  /\ UNCHANGED about
  /\ \/ about = "cost" /\ BudgetNext /\ UNCHANGED <<findings_vars, sandboxVars, vars>>
     \/ about = "findings" /\ FindingsNext /\ UNCHANGED <<use_vars, sandboxVars, vars>>
     \/ about = "sandbox" /\ SandboxNext /\ UNCHANGED <<all_budget, findings_vars, vars>>
     \/ about = "gates" /\ Next /\ UNCHANGED review_vars

(* The two instances by themselves, for the runs that look for a violation.   *)
DiagnosisSpec == MCInit /\ about = "findings" /\ [][MCNext]_<<about, review_vars, vars>>

MCSpec == MCInit /\ [][MCNext]_<<about, review_vars, vars>>

(* Two reviewers and three runs where the cost is counted, one reviewer where *)
(* findings are kept, with two runs, or with three on one commit when the   *)
(* first two reported; a fault in one attempt on one commit, and a ledger is *)
(* linked from another in one attempt without a fault.                      *)
Unlinked == \A s \in Slugs : ledger[s].aliases = {}

SeenTwice ==
  /\ Unlinked /\ head = 1 /\ slot.attempt = 1 /\ faults = 0 /\ \A i \in dirs : i.slug = slot.slug
  /\ Cardinality({n \in runs : n.valid /\ n.purpose = "review" /\ n.reported # {}}) >= 2

Small ==
  /\ faults > 0 => slot.attempt = 1 /\ head = 1
  /\ about = "findings" =>
       /\ Cardinality({r \in Reviewers : rv[r] # Idle}) <= 1
       /\ Cardinality(dirs) <= 2 \/ SeenTwice
       /\ Unlinked \/ (slot.attempt = 1 /\ faults = 0)
  /\ Scenarios

Symmetry == Permutations(Slugs) \cup Permutations(Reviewers) \cup Permutations(Hooks)

=============================================================================
