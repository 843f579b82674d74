------------------------------ MODULE GoalLoop ------------------------------
(***************************************************************************)
(* The life of a goal and the evidence it is finished on: core/loop.js with *)
(* the files it keeps, goal.json, the evidence ledger dag.json (core/dag.js *)
(* and core/attest.js), the lineage attempt.json (core/attempt.js) and the  *)
(* final attestations.                                                      *)
(*                                                                         *)
(* A command holds the loop lock (LoopLock) from its first read to its last *)
(* write, so no other command runs meanwhile.  What does run meanwhile is   *)
(* git: commits and checkouts change the tree without the lock.  And the    *)
(* process can be killed between two of its writes.  A command is therefore *)
(* one step that reads and decides, and one step per file it then writes    *)
(* (pending); finish takes a step for each of its samples of the tree.      *)
(*                                                                         *)
(* "Tree" is the composite fingerprint of the host and the subject roots.   *)
(* Review verdicts, undecided markers and the syntax of a plan decide       *)
(* whether Adopt is taken; they leave no other trace here.                  *)
(***************************************************************************)
EXTENDS Naturals, Sequences, FiniteSets

CONSTANTS
  Slugs,      \* goal names
  Plans,      \* plan hashes
  Works,      \* N steps of a plan
  Finals,     \* F steps of a plan, each finished on evidence
  Trees,      \* values of the composite fingerprint
  Tiers,      \* tiers a goal is registered with
  Harnesses,  \* declared capture programs; None is "not declared"
  HalfKinds,  \* the halves recorded beside green evidence
  Verdicts,   \* what comparisons come out as: TRUE is MATCH
  MaxNodes,   \* bound: nodes in the ledger
  MaxEras,    \* bound: registrations and supersedes
  MaxAttempts,\* bound: the number of an attempt
  None

ASSUME SetsAssumption == Finals # {} /\ Works \cap Finals = {} /\ Trees # {}
ASSUME InputsAssumption ==
  /\ Tiers \subseteq {"light", "heavy"}
  /\ HalfKinds \subseteq {"red", "waived"}
  /\ Verdicts \subseteq BOOLEAN
ASSUME BoundsAssumption == {MaxNodes, MaxEras, MaxAttempts} \subseteq Nat

VARIABLES
  goal,       \* goal.json, or None
  dag,        \* dag.json: nodes in order of id, and the red_of edges
  lineage,    \* attempt.json: one slug and the status of each attempt, or None
  attests,    \* the final attestations
  tree,       \* what the roots' HEADs hold now
  finish,     \* a finish between its samples of the tree, or None
  pending,    \* what the command under the lock still has to write
  era         \* history: instances (a registration or a supersede) so far

vars == <<goal, dag, lineage, attests, tree, finish, pending, era>>

-----------------------------------------------------------------------------
(* The files. *)

Steps == Works \cup Finals
Attempts == 1..MaxAttempts

GoalFile ==
  [slug : Slugs, status : {"planning", "executing", "done", "abandoned"},
   tier : {"light", "heavy"}, attempt : Attempts, plan : Plans \cup {None},
   done : SUBSET Steps,
   gen : [Finals -> Nat],                 \* evidence captures so far
   fp : [Finals -> Trees \cup {None}]]    \* the tree of the last one

Node ==
  [kind : {"plan"}, slug : Slugs, plan : Plans, attempt : Attempts]
    \cup [kind : {"green"}, slug : Slugs, step : Finals, gen : Nat \ {0},
          attempt : Attempts, tree : Trees, harness : Harnesses, era : Nat]
    \cup [kind : {"red", "waived"}, slug : Slugs, step : Finals, attempt : Attempts,
          harness : Harnesses \cup {None}, era : Nat]
    \cup [kind : {"comparator"}, slug : Slugs, plan : Plans \cup {None},
          match : BOOLEAN, tree : Trees, items : [Finals -> Nat \ {0}]]

DagFile ==
  {d \in [nodes : Seq(Node), redOf : SUBSET (Nat \X Nat)] :
     d.redOf \subseteq (DOMAIN d.nodes) \X (DOMAIN d.nodes)}

LineageFile ==
  [slug : Slugs,
   status : UNION {[D -> {"active", "superseded", "completed", "abandoned"}] :
                     D \in SUBSET Attempts}]

Attestation ==
  [slug : Slugs, attempt : Attempts, plan : Plans \cup {None},
   tier : {"light", "heavy"}, fp : Trees, head : Trees \cup {None},
   evidence : [Finals -> Nat], comparator : Nat, era : Nat]

FinishStage ==
  [stage : {"integrity", "resample", "gate"}, fp : Trees, head : Trees \cup {None}]

(* What of goal.json the promise of GoalPromise speaks of. *)
PromisedFile ==
  [slug : Slugs, status : {"planning", "executing", "done", "abandoned"},
   attempt : Attempts, plan : Plans \cup {None}]

ASSUME NoneAssumption ==
  None \notin GoalFile \cup DagFile \cup LineageFile \cup Attestation \cup FinishStage
               \cup PromisedFile

Nothing == [dag |-> None, attest |-> None, lineage |-> None, goal |-> None]
Idle == pending = Nothing /\ finish = None

Init ==
  /\ goal = None
  /\ dag = [nodes |-> <<>>, redOf |-> {}]
  /\ lineage = None
  /\ attests = {}
  /\ tree \in Trees
  /\ finish = None
  /\ pending = Nothing
  /\ era = 0

-----------------------------------------------------------------------------
(* Looking things up in the ledger.  Nodes are numbered from 1; 0 is "none". *)

Latest(ids) == IF ids = {} THEN 0 ELSE CHOOSE i \in ids : \A j \in ids : j <= i

Nodes(kinds) == {i \in DOMAIN dag.nodes : dag.nodes[i].kind \in kinds}

(* Green nodes of a final step in the goal's own attempt. *)
Greens(f) ==
  {i \in Nodes({"green"}) : /\ dag.nodes[i].slug = goal.slug
                            /\ dag.nodes[i].step = f
                            /\ dag.nodes[i].attempt = goal.attempt}

(* Mutant: the newest green node is the valid one. *)
Anchor_newest(f) == Latest(Greens(f))

(* The green node of the generation goal.json records, the latest of them   *)
(* when a retry after a crash left two (findGreenByGeneration).             *)
Anchor(f) ==
  LET gen == IF goal.gen[f] = 0 THEN 1 ELSE goal.gen[f]
  IN  Latest({i \in Greens(f) : dag.nodes[i].gen = gen})

Halves(f) ==
  {i \in Nodes({"red", "waived"}) : /\ dag.nodes[i].slug = goal.slug
                                    /\ dag.nodes[i].step = f
                                    /\ dag.nodes[i].attempt = goal.attempt}

Comparator ==
  Latest({i \in Nodes({"comparator"}) : /\ dag.nodes[i].slug = goal.slug
                                        /\ dag.nodes[i].plan = goal.plan})

WithNode(node, edges) ==
  [nodes |-> Append(dag.nodes, node), redOf |-> dag.redOf \cup edges]
NewId == Len(dag.nodes) + 1
Room == Len(dag.nodes) < MaxNodes

-----------------------------------------------------------------------------
(* Writing files, and losing the rest of them.                              *)

(* Mutant: finish says "done" first and proves it after.                    *)
Ready_doneFirst(file) ==
  /\ pending[file] # None
  /\ file # "dag" => pending.dag = None
  /\ file = "attest" => pending.goal = None
  /\ file = "goal" => pending.attest # None \/ pending.lineage = None

(* A command writes the ledger first, then the attestation, then the        *)
(* lineage, then goal.json.                                                 *)
Ready(file) ==
  /\ pending[file] # None
  /\ file # "dag" => pending.dag = None
  /\ file \in {"lineage", "goal"} => pending.attest = None
  /\ file = "goal" => pending.lineage = None

Written(file) == pending' = [pending EXCEPT ![file] = None]

WriteDag ==
  /\ Ready("dag") /\ Written("dag")
  /\ dag' = pending.dag
  /\ UNCHANGED <<goal, lineage, attests, tree, finish, era>>

WriteAttestation ==
  /\ Ready("attest") /\ Written("attest")
  /\ attests' = attests \cup {pending.attest}
  /\ UNCHANGED <<goal, dag, lineage, tree, finish, era>>

WriteLineage ==
  /\ Ready("lineage") /\ Written("lineage")
  /\ lineage' = pending.lineage
  /\ UNCHANGED <<goal, dag, attests, tree, finish, era>>

NewInstance == goal = None \/ pending.goal.attempt # goal.attempt

WriteGoal ==
  /\ Ready("goal") /\ Written("goal")
  /\ goal' = pending.goal
  /\ era' = IF NewInstance THEN era + 1 ELSE era
  /\ UNCHANGED <<dag, lineage, attests, tree, finish>>

(* The process is killed, or one of its writes fails: nothing more is       *)
(* written and the lock becomes free.                                       *)
Crash ==
  /\ ~Idle
  /\ finish' = None
  /\ pending' = Nothing
  /\ UNCHANGED <<goal, dag, lineage, attests, tree, era>>

(* git, at any time. *)
Commit(t) ==
  /\ t # tree
  /\ tree' = t
  /\ UNCHANGED <<goal, dag, lineage, attests, finish, pending, era>>

-----------------------------------------------------------------------------
(* Attempts. *)

StampsOf(s) == {dag.nodes[i].attempt : i \in {j \in Nodes({"plan", "green", "red", "waived"}) :
                                               dag.nodes[j].slug = s}}
AttemptsOf(s) == IF lineage # None /\ lineage.slug = s THEN DOMAIN lineage.status ELSE {}

(* Mutant: only the lineage is asked, which another goal's registration     *)
(* resets.                                                                  *)
NextAttempt_lineageOnly(s) == Latest(AttemptsOf(s)) + 1

(* Mutant: the highest number is taken again. *)
NextAttempt_again(s) ==
  LET n == Latest(StampsOf(s) \cup AttemptsOf(s)) IN IF n = 0 THEN 1 ELSE n

(* deriveAttempt: above every number the ledger or the lineage knows. *)
NextAttempt(s) == Latest(StampsOf(s) \cup AttemptsOf(s)) + 1

WithStatus(status, n, value) ==
  [k \in DOMAIN status \cup {n} |-> IF k = n THEN value ELSE status[k]]

(* Mutant: the attempt a reset left active is not retired. *)
Retired_not(status) == status

Retired(status) ==
  [k \in DOMAIN status |-> IF status[k] = "active" THEN "superseded" ELSE status[k]]

(* initLineageAtRegister *)
Registered(s, n) ==
  [slug   |-> s,
   status |-> IF AttemptsOf(s) # {}
              THEN WithStatus(Retired(lineage.status), n, "active")
              ELSE [k \in {n} |-> "active"]]

LineageWith(n, value) == [lineage EXCEPT !.status = WithStatus(@, n, value)]

(* supersedeAttempt: both entries in one write. *)
SupersededBy(to) ==
  [lineage EXCEPT !.status =
     WithStatus(WithStatus(@, goal.attempt, "superseded"), to, "active")]

-----------------------------------------------------------------------------
(* The commands. *)

Untouched == UNCHANGED <<goal, dag, lineage, attests, tree, finish, era>>

(* Commands that write one file only need no pending write. *)
SaveGoal(new) ==
  /\ goal' = new
  /\ UNCHANGED <<dag, lineage, attests, tree, finish, pending, era>>
SaveDag(new) ==
  /\ dag' = new
  /\ UNCHANGED <<goal, lineage, attests, tree, finish, pending, era>>

Fresh == [done |-> {}, gen |-> [f \in Finals |-> 0], fp |-> [f \in Finals |-> None]]

(* registerGoal: no goal of any status may be there. *)
Register(s, tier) ==
  /\ Idle /\ goal = None /\ era < MaxEras
  /\ LET n == NextAttempt(s)
     IN  /\ n <= MaxAttempts
         /\ pending' = [Nothing EXCEPT
              !.lineage = Registered(s, n),
              !.goal = [slug |-> s, status |-> "planning", tier |-> tier, attempt |-> n,
                        plan |-> None, done |-> {},
                        gen |-> Fresh.gen, fp |-> Fresh.fp]]
  /\ Untouched

(* The parts of goal.json an adopted plan replaces. *)
Adopted(p, n) ==
  [goal EXCEPT !.plan = p, !.attempt = n,
               !.done = Fresh.done, !.gen = Fresh.gen, !.fp = Fresh.fp]

PlanNode(p, n) == [kind |-> "plan", slug |-> goal.slug, plan |-> p, attempt |-> n]

(* lzy loop plan, while planning. *)
Adopt(p) ==
  /\ Idle /\ goal # None /\ goal.status = "planning" /\ Room
  /\ pending' = [Nothing EXCEPT
       !.dag = WithNode(PlanNode(p, goal.attempt), {}),
       !.lineage = IF goal.attempt \in DOMAIN lineage.status
                   THEN lineage ELSE LineageWith(goal.attempt, "active"),
       !.goal = Adopted(p, goal.attempt)]
  /\ Untouched

(* Mutant: the plan changes under the running attempt. *)
NextOf_same(attempt) == attempt

NextOf(attempt) == attempt + 1

(* lzy loop supersede: a changed plan while executing opens a new attempt.  *)
Supersede(p) ==
  /\ Idle /\ goal # None /\ goal.status = "executing"
  /\ p # goal.plan
  /\ Room /\ era < MaxEras /\ goal.attempt < MaxAttempts
  /\ pending' = [Nothing EXCEPT
       !.dag = WithNode(PlanNode(p, NextOf(goal.attempt)), {}),
       !.lineage = SupersededBy(NextOf(goal.attempt)),
       !.goal = Adopted(p, NextOf(goal.attempt))]
  /\ Untouched

RaiseTier ==
  /\ Idle /\ goal # None /\ goal.status \in {"planning", "executing"}
  /\ goal.tier = "light" /\ goal.plan # None /\ "heavy" \in Tiers
  /\ SaveGoal([goal EXCEPT !.tier = "heavy"])

Start ==
  /\ Idle /\ goal # None /\ goal.status = "planning" /\ goal.plan # None
  /\ SaveGoal([goal EXCEPT !.status = "executing"])

Open == Idle /\ goal # None /\ goal.status \in {"executing", "done"}

(* step done of an N step. *)
CompleteWork(s) ==
  /\ Open
  /\ SaveGoal([goal EXCEPT !.done = @ \cup {s}])

(* Mutant: a capture takes the number of the one before. *)
CaptureGen_previous(f) == goal.gen[f]

CaptureGen(f) == goal.gen[f] + 1

(* step done of an F step: the evidence is a green node on the tree of now, *)
(* paired with every red half of its attempt; again after a first time too. *)
CompleteFinal(f, h) ==
  /\ Open /\ Room
  /\ pending' = [Nothing EXCEPT
       !.dag = WithNode([kind |-> "green", slug |-> goal.slug, step |-> f,
                         gen |-> CaptureGen(f), attempt |-> goal.attempt,
                         tree |-> tree, harness |-> h, era |-> era],
                        {<<r, NewId>> : r \in Halves(f)}),
       !.goal = [goal EXCEPT !.done = @ \cup {f}, !.gen[f] = CaptureGen(f),
                             !.fp[f] = tree]]
  /\ Untouched

(* evidence red, evidence waive-red: a half recorded after its green is     *)
(* paired at once.                                                          *)
RecordHalf(f, half, h) ==
  /\ Open /\ Room
  /\ SaveDag(WithNode(
       [kind |-> half, slug |-> goal.slug, step |-> f, attempt |-> goal.attempt,
        harness |-> IF half = "red" THEN h ELSE None, era |-> era],
       IF goal.gen[f] > 0 /\ Anchor(f) # 0 THEN {<<NewId, Anchor(f)>>} ELSE {}))

(* attest comparator: a verdict per F step, each bound to some green node   *)
(* of that step.                                                            *)
GreensOfStep(f) ==
  {i \in Nodes({"green"}) : dag.nodes[i].slug = goal.slug /\ dag.nodes[i].step = f}

Compare(items, match) ==
  /\ Open /\ Room
  /\ \A f \in Finals : items[f] \in GreensOfStep(f)
  /\ SaveDag(WithNode(
       [kind |-> "comparator", slug |-> goal.slug, plan |-> goal.plan,
        match |-> match, tree |-> tree, items |-> items], {}))

-----------------------------------------------------------------------------
(* lzy loop finish. *)

(* verifyEvidence: every piece of evidence was captured on the tree of now. *)
EvidenceFresh ==
  \A f \in Finals : Anchor(f) # 0 /\ dag.nodes[Anchor(f)].tree = tree

PairedHalves(f) == {r \in Nodes({"red", "waived"}) : <<r, Anchor(f)>> \in dag.redOf}
LatestRed(f) == Latest({r \in PairedHalves(f) : dag.nodes[r].kind = "red"})

(* INV-08: the latest red half and the green were captured by one program,  *)
(* as far as both declare theirs.                                           *)
SameHarness(f) ==
  LatestRed(f) # 0 =>
    \/ None \in {dag.nodes[LatestRed(f)].harness, dag.nodes[Anchor(f)].harness}
    \/ dag.nodes[LatestRed(f)].harness = dag.nodes[Anchor(f)].harness

(* Mutant: the comparison is not tied to the evidence of now. *)
Compared_anyEvidence ==
  Comparator # 0 /\ dag.nodes[Comparator].match /\ dag.nodes[Comparator].tree = tree

(* A comparison on the tree of now, of exactly the anchored evidence.       *)
Compared ==
  /\ Comparator # 0
  /\ dag.nodes[Comparator].match
  /\ dag.nodes[Comparator].tree = tree
  /\ \A f \in Finals : dag.nodes[Comparator].items[f] = Anchor(f)

HeavyGate == Compared /\ \A f \in Finals : PairedHalves(f) # {} /\ SameHarness(f)

FinishVerify ==
  /\ Open
  /\ goal.done = Steps
  /\ EvidenceFresh
  /\ goal.tier = "heavy" => HeavyGate
  /\ finish' = [stage |-> "integrity", fp |-> tree, head |-> None]
  /\ UNCHANGED <<goal, dag, lineage, attests, tree, pending, era>>

FinishTo(next) ==
  /\ finish' = next
  /\ UNCHANGED <<goal, dag, lineage, attests, tree, pending, era>>

(* The integrity gate: every root clean; it notes the head trees it saw.    *)
FinishIntegrity(clean) ==
  /\ finish # None /\ finish.stage = "integrity"
  /\ FinishTo(IF clean THEN [finish EXCEPT !.stage = "resample", !.head = tree] ELSE None)

FinishResample ==
  /\ finish # None /\ finish.stage = "resample"
  /\ FinishTo(IF tree = finish.fp THEN [finish EXCEPT !.stage = "gate"] ELSE None)

(* The unified gate refuses. *)
FinishBlocked ==
  /\ finish # None /\ finish.stage = "gate"
  /\ FinishTo(None)

(* writeFinalAttestation *)
FinalAttestation ==
  [slug |-> goal.slug, attempt |-> goal.attempt, plan |-> goal.plan,
   tier |-> goal.tier, fp |-> finish.fp, head |-> finish.head,
   evidence |-> [f \in Finals |-> Anchor(f)],
   comparator |-> IF goal.tier = "heavy" THEN Comparator ELSE 0,
   era |-> era]

(* It passes, and the tree is sampled a last time. *)
FinishGate ==
  /\ finish # None /\ finish.stage = "gate"
  /\ tree = finish.fp
  /\ finish' = None
  /\ pending' = [Nothing EXCEPT
       !.attest = FinalAttestation,
       !.lineage = LineageWith(goal.attempt, "completed"),
       !.goal = [goal EXCEPT !.status = "done"]]
  /\ UNCHANGED <<goal, dag, lineage, attests, tree, era>>

Abandon ==
  /\ Idle /\ goal # None
  /\ pending' = [Nothing EXCEPT
       !.lineage = LineageWith(goal.attempt, "abandoned"),
       !.goal = [goal EXCEPT !.status = "abandoned"]]
  /\ Untouched

(* resetLoop: goal.json goes, the ledger, the lineage and the attestations   *)
(* stay.                                                                    *)
Reset ==
  /\ Idle /\ goal # None
  /\ goal' = None
  /\ UNCHANGED <<dag, lineage, attests, tree, finish, pending, era>>

Command ==
  \/ \E s \in Slugs, tier \in Tiers : Register(s, tier)
  \/ \E p \in Plans : Adopt(p) \/ Supersede(p)
  \/ \E s \in Works : CompleteWork(s)
  \/ \E f \in Finals, h \in Harnesses : CompleteFinal(f, h)
  \/ \E f \in Finals, half \in HalfKinds, h \in Harnesses : RecordHalf(f, half, h)
  \/ \E items \in [Finals -> DOMAIN dag.nodes], match \in Verdicts : Compare(items, match)
  \/ RaiseTier \/ Start \/ Abandon \/ Reset
  \/ FinishVerify \/ (\E clean \in BOOLEAN : FinishIntegrity(clean)) \/ FinishResample \/ FinishBlocked \/ FinishGate

Write == WriteDag \/ WriteAttestation \/ WriteLineage \/ WriteGoal

Next ==
  \/ Command \/ Write \/ Crash
  \/ \E t \in Trees : Commit(t)

Spec == Init /\ [][Next]_vars

-----------------------------------------------------------------------------
(* The files, and what a command has yet to write of them, keep their shapes. *)
TypeOK ==
  /\ goal \in GoalFile \cup {None}
  /\ dag \in DagFile
  /\ lineage \in LineageFile \cup {None}
  /\ attests \subseteq Attestation
  /\ tree \in Trees /\ era \in Nat
  /\ finish \in FinishStage \cup {None}
  /\ pending \in [dag : DagFile \cup {None}, attest : Attestation \cup {None},
                  lineage : LineageFile \cup {None}, goal : GoalFile \cup {None}]

(* goal.json and the ledger agree on every piece of evidence, whatever the  *)
(* writes a crash lost: the anchored green node exists and holds the tree   *)
(* goal.json says.  verifyEvidence refuses when they do not.                *)
LedgerAgrees ==
  goal # None =>
    \A f \in goal.done \cap Finals :
      Anchor(f) # 0 /\ dag.nodes[Anchor(f)].tree = goal.fp[f]

(* An attestation cites evidence of its own instance of the goal, captured  *)
(* on the very tree it certifies, and the halves paired with that evidence  *)
(* are of the instance too: never those of an earlier attempt or of an      *)
(* earlier goal of the same name.                                           *)
AttestedOnOwnEvidence ==
  \A a \in attests : \A f \in Finals :
    LET n == dag.nodes[a.evidence[f]]
    IN  /\ n.kind = "green" /\ n.step = f /\ n.tree = a.fp /\ n.era = a.era
        /\ \A e \in dag.redOf : e[2] = a.evidence[f] => dag.nodes[e[1]].era = a.era

(* A goal that says "done" has its attestation on disk and its attempt is   *)
(* closed in the lineage, at whichever write a crash struck.                *)
DoneIsAttested ==
  goal # None /\ goal.status = "done" =>
    /\ \E a \in attests :
         a.slug = goal.slug /\ a.attempt = goal.attempt /\ a.plan = goal.plan
    /\ lineage.status[goal.attempt] \in {"completed", "abandoned"}

(* The lineage never shows two attempts as active. *)
Actives(l) == IF l = None THEN {} ELSE {n \in DOMAIN l.status : l.status[n] = "active"}
OneActive == \A m, n \in Actives(lineage) : m = n

(* Once it is superseded, completed or abandoned an attempt is not active   *)
(* again: neither a retry after a crash nor a registration revives it.      *)
NeverRevived ==
  [][lineage # None /\ lineage'.slug = lineage.slug =>
       \A n \in Actives(lineage') \cap DOMAIN lineage.status : n \in Actives(lineage)]_lineage

(* A heavy goal is attested on a comparison that was recorded after the     *)
(* evidence, found it matching on the same tree and covers exactly it, and  *)
(* on a red half or a waiver for each step.                                 *)
HeavyProof(a) ==
  /\ a.comparator # 0
  /\ LET c == dag.nodes[a.comparator]
     IN  c.match /\ c.tree = a.fp /\ c.plan = a.plan /\ c.items = a.evidence
  /\ \A f \in Finals :
       /\ a.evidence[f] < a.comparator
       /\ \E e \in dag.redOf : e[2] = a.evidence[f]
HeavyIsProved ==
  [][\A a \in attests' \ attests : a.tier = "heavy" => HeavyProof(a)']_attests

(* The files together keep the promise of GoalPromise. *)
PromisedGoal ==
  IF goal = None THEN None
  ELSE [slug |-> goal.slug, status |-> goal.status,
        attempt |-> goal.attempt, plan |-> goal.plan]
Promise == INSTANCE GoalPromise
  WITH goal <- PromisedGoal, proved <- {<<a.slug, a.attempt, a.plan>> : a \in attests}
KeepsPromise == Promise!Spec
=============================================================================
