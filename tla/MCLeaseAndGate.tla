--------------------------- MODULE MCLeaseAndGate ---------------------------
(* Four parts that share no state, on small instances: the lease of two      *)
(* drives and a run by hand; the gate over a source file, a text and a lock *)
(* file, and two candidates; the statistics of the rate limit over every    *)
(* log of a few lines; and the walk that draws the hours off the peaks.  A  *)
(* behaviour is about one of them, and one about the gate makes much of the *)
(* reviews or of the receipts, and little of the other.                     *)
EXTENDS RuntimeLease, Gate, RateScan, OffPeak, TLC

CONSTANTS d1, d2, m1, sa, sb, src, doc, lock, one, h1, h2, t1, p1, p2

TwoDrives == {d1, d2}
OneManual == {m1}
TwoSlugs == {sa, sb}

AllPaths == {src, doc, lock}
NameOrder == doc :> 1 @@ lock :> 2 @@ src :> 3
OneContent == {one}
SourceOnly == {src}
LockOnly == {lock}
SomeScopes ==
  {[about |-> {src}, unrelated |-> {doc}, shared |-> {lock}],
   [about |-> {src}, unrelated |-> {doc, lock}, shared |-> {}],
   [about |-> {src}, unrelated |-> {doc, lock}, shared |-> {lock}]}
ByManifest == {"checks", "ci"}

TwoSessions == {h1, h2}
OneTurn == {t1}
TwoProviders == {p1, p2}
Labelled(at, sid, of, n) == [at |-> at, sid |-> sid, turn |-> of, attempt |-> n]
SomeLines ==
  {[kind |-> "started", at |-> 0, sid |-> h1], [kind |-> "started", at |-> 0, sid |-> h2],
   [kind |-> "started", at |-> 1, sid |-> h1], [kind |-> "started", at |-> 3, sid |-> h1],
   [kind |-> "completed", at |-> 0, sid |-> h1, pid |-> p1],
   [kind |-> "completed", at |-> 1, sid |-> h2, pid |-> p2],
   [kind |-> "limited", failed |-> TRUE, pid |-> p1, line |-> Labelled(0, h1, t1, 1)],
   [kind |-> "limited", failed |-> FALSE, pid |-> p1, line |-> Labelled(1, h1, t1, 2)],
   [kind |-> "limited", failed |-> TRUE, pid |-> p2, line |-> Labelled(3, h2, NoTurn, 1)],
   [kind |-> "transport", line |-> Labelled(3, h2, t1, 1)],
   [kind |-> "kill", at |-> 0, sid |-> h1], [kind |-> "kill", at |-> 3, sid |-> h2],
   [kind |-> "half"]}

AllHours == 0..167
AllStarts == 0..23

VARIABLE about

(* The tree to begin with is whole. *)
Begun == \A p \in Paths : trees[1][p] = one

(* Reviews that are of no interest pass, in an order. *)
Order == <<"general", "external", "verification", "recovery">>

FewReviews ==
  /\ scoping = Nil /\ \A p \in Paths : finding[p] = Nil
  /\ \A d \in Duties : review[d] # Nil => /\ review[d].verdict = "pass"
                                            /\ review[d].qualified = Nil
  /\ \A i \in 1..3 : review[Order[i + 1]] # Nil =>
                      review[Order[i]] # Nil /\ review[Order[i]].head <= review[Order[i + 1]].head

FewChecks == receipts = <<>> /\ checking = Nil /\ judged = Nil

MuchOfReviews ==
  /\ FewChecks /\ ci = Nil /\ cancelled = {} /\ drifts <= 1 /\ surface \subseteq {"checks"}
  /\ review["general"] # Nil => review["general"].verdict = "pass"
  /\ review["verification"] = Nil
  /\ Cardinality({p \in Paths : finding[p] # Nil}) <= 1

(* Reviews and receipts do not touch: the reviews come when the last receipt *)
(* is there.                                                                *)
MuchOfChecks ==
  /\ FewReviews /\ ci = Nil /\ cancelled = {} /\ drifts <= 1
  /\ receipts = <<>> \/ checking # Nil \/ judged # Nil => \A d \in Duties : review[d] = Nil

MuchOfPolicy == FewReviews /\ FewChecks

(* One question of the walk, where a behaviour is about something else. *)
WalkIdle == shift = 0 /\ asked = 0 /\ window = WindowOf(0)

MCInit ==
  /\ about \in {"lease", "gate", "statistics", "hours"}
  /\ Init /\ ScanInit
  /\ GateInit /\ Begun /\ (about = "gate" \/ surface = {})
  /\ WalkInit /\ (about = "hours" \/ WalkIdle)

MCNext ==
  /\ UNCHANGED about
  /\ \/ about = "lease" /\ Next /\ UNCHANGED <<gateVars, scanVars, walkVars>>
     \/ about = "gate" /\ GateNext /\ UNCHANGED <<vars, scanVars, walkVars>>
     \/ about = "statistics" /\ ScanNext /\ UNCHANGED <<vars, gateVars, walkVars>>
     \/ about = "hours" /\ WalkNext /\ UNCHANGED <<vars, gateVars, scanVars>>

MCSpec == MCInit /\ [][MCNext]_<<about, vars, gateVars, scanVars, walkVars>>

Within ==
  \/ about # "gate"
  \/ /\ MuchOfReviews \/ MuchOfChecks \/ MuchOfPolicy
     /\ status = "planning" => MuchOfPolicy /\ ci = Nil /\ \A d \in Duties : review[d] = Nil
=============================================================================
