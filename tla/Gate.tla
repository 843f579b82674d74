-------------------------------- MODULE Gate --------------------------------
(***************************************************************************)
(* The unified gate a goal passes before it is finished (core/gate.js) and  *)
(* what it weighs: the obligations of the policy record (core/policy.js),   *)
(* the reviews and how far one may be reused for a later candidate          *)
(* (core/review.js, scopes), the receipts of checks and CI (core/verify.js) *)
(* and the findings.                                                        *)
(*                                                                         *)
(* Everything it weighs is made by commands that run apart from each other, *)
(* without the lock, while the worker commits and edits the manifest and    *)
(* the contract file.  Only what is latest of its kind counts at the gate,  *)
(* so that of reviews, scopes and CI answers the latest is kept; receipts   *)
(* of checks are kept all, for their order is what is in question.          *)
(*                                                                         *)
(* How a review or a ledger of findings comes about is in ReviewRun and     *)
(* Findings; the intents of deliveries, an obligation of endpoints B and C, *)
(* are in Delivery.  Left out: the contract clause, which does not change   *)
(* while a goal runs, several subjects, and records that cannot be read,    *)
(* which all block.                                                         *)
(***************************************************************************)
EXTENDS Naturals, Sequences, FiniteSets

CONSTANTS
  Paths,        \* files of the tree
  Contents,     \* what a file may hold
  Absent,
  Rank,         \* the order of their names
  Inputs,       \* inputPaths the check declares
  Hinted,       \* files the challenges of a duty take for dependencies, ...
  Locks,        \* ... for lock files, ...
  Scripts,      \* ... for scripts of checks
  Scopes,       \* scopes that are declared
  Features,     \* what the manifest and the contract file may declare
  Risk,         \* the goal was registered with a risk of med or more
  Written,      \* receipts written before
  MaxHead,      \* bound: commits
  MaxDrifts,    \* bound: edits of manifest and contract
  MaxRuns,      \* bound: checks run
  MaxReceipts,  \* bound: receipts written
  Nil

ASSUME GateAssumption ==
  /\ Absent \notin Contents /\ Nil \notin Nat /\ Rank \in [Paths -> Nat]
  /\ \A S \in {Inputs, Hinted, Locks, Scripts} : S \subseteq Paths
  /\ Scopes \subseteq [about : SUBSET Paths, unrelated : SUBSET Paths, shared : SUBSET Paths]
  /\ \A scope \in Scopes : scope.about \cap scope.unrelated = {}
  /\ Features \subseteq {"checks", "ci", "endpoint"} /\ Risk \in BOOLEAN
  /\ Written \in Nat /\ MaxHead \in Nat \ {0} /\ MaxDrifts \in Nat
  /\ MaxRuns \in Nat /\ MaxReceipts \in Nat

VARIABLES
  status,     \* of the goal: planning, executing, done
  head,       \* the candidate: the commit checked out; one left does not come back
  trees,      \* the files of each commit
  surface,    \* what policy inputs declare now
  drifts,
  policy,     \* the policy record: the inputs it was derived from, and what it obliges to
  cancelled,  \* history: obligations cancelled, with the inputs at that time
  review,     \* the latest run of each review duty, with its latest scope
  scoping,    \* a reuse of a review under way
  receipts,   \* receipts of checks, in the order they were written
  checking,   \* the check under way
  judged,     \* a reuse of a run under way
  ended,      \* checks that ended and left their receipt
  ci,         \* the latest receipt of CI
  finding     \* blocking findings, one per file

policy_vars == <<surface, drifts, policy, cancelled>>
review_vars == <<review, scoping>>
check_vars == <<receipts, checking, judged, ended>>
gateVars == <<status, head, trees, policy_vars, review_vars, check_vars, ci, finding>>

-----------------------------------------------------------------------------
Trees == [Paths -> Contents \cup {Absent}]
Heads == 1..MaxHead
Surfaces == SUBSET Features

(* An open finding; a closed one is named by the candidate of its recheck. *)
Opened == 0

Duties == {"general", "verification", "external", "recovery"}
Obligations == Duties \cup {"check", "ci"}

(* What the inputs oblige to (deriveObligations). *)
Derived(s) ==
  {"general"}
    \cup (IF s \cap {"checks", "ci"} # {} THEN {"verification"} ELSE {})
    \cup (IF Risk \/ "endpoint" \in s THEN {"external"} ELSE {})
    \cup (IF "endpoint" \in s THEN {"recovery"} ELSE {})
    \cup (IF "checks" \in s THEN {"check"} ELSE {})
    \cup (IF "ci" \in s THEN {"ci"} ELSE {})

(* The part of the inputs receipts and scopes are bound to: the manifest.   *)
(* The contract they are bound to is the goal's, not what its file says now.*)
Manifest == surface \cap {"checks", "ci"}

(* A scope names files a duty is about, files it is not about (what the     *)
(* first rule says that names them), and files that count for every duty;   *)
(* a file it does not name is unknown.                                      *)
Qualification == [scope : Scopes, granted : BOOLEAN, manifest : Surfaces]

(* A judgement that a review still applies; the commit the difference was   *)
(* read at is history.                                                      *)
Applicability == [by : Qualification, target : Heads, read : Heads, applies : BOOLEAN]

Run == [head : Heads, verdict : {"pass", "blocked", "invalid"},
        qualified : Qualification \cup {Nil}, reused : Applicability \cup {Nil}]

(* A receipt of a check: the candidate it names, the commit whose inputs it *)
(* holds the hashes of, and of a reuse the run it stands for (base).        *)
Receipt == [kind : {"run", "reuse", "qualification"}, head : Heads, inputs : Heads,
            manifest : Surfaces, ok : BOOLEAN, at : 1..MaxRuns, base : Nat]

(* A check runs, notes the candidate, hashes the inputs and leaves its      *)
(* receipt; one asked for by a qualification goes on to try out changes.    *)
Check == [purpose : {"run", "qualification"}, manifest : Surfaces,
          stage : {"runs", "noted", "tries"}, noted : Heads]

GateTypeOK ==
  /\ status \in {"planning", "executing", "done"}
  /\ head \in Heads /\ trees \in [Heads -> Trees]
  /\ surface \in Surfaces /\ drifts \in 0..MaxDrifts
  /\ policy \in {Nil} \cup [inputs : Surfaces, obligations : SUBSET Obligations]
  /\ cancelled \subseteq Obligations \X Surfaces
  /\ review \in [Duties -> Run \cup {Nil}]
  /\ scoping \in {Nil} \cup [duty : Duties, by : Qualification, read : Heads, manifest : Surfaces]
  /\ receipts \in Seq(Receipt) /\ ended \in 0..MaxRuns
  /\ checking \in {Nil} \cup Check /\ judged \in {Nil} \cup [base : Nat, inputs : Heads]
  /\ ci \in {Nil} \cup [head : Heads, sha : Heads, green : BOOLEAN]
  /\ finding \in [Paths -> {Nil, Opened} \cup Heads]

GateInit ==
  /\ status = "planning" /\ head = 1
  /\ \E t \in Trees : trees = [h \in Heads |-> t]
  /\ surface \in Surfaces /\ drifts = 0 /\ policy = Nil /\ cancelled = {}
  /\ review = [d \in Duties |-> Nil] /\ scoping = Nil
  /\ receipts = <<>> /\ checking = Nil /\ judged = Nil /\ ended = 0
  /\ ci = Nil /\ finding = [p \in Paths |-> Nil]

-----------------------------------------------------------------------------
(* The worker. *)

Commit(t) ==
  /\ status = "executing" /\ head < MaxHead /\ t # trees[head]
  /\ head' = head + 1 /\ trees' = [trees EXCEPT ![head + 1] = t]
  /\ UNCHANGED <<status, policy_vars, review_vars, check_vars, ci, finding>>

Drift(f) ==
  /\ status # "done" /\ drifts < MaxDrifts /\ drifts' = drifts + 1
  /\ surface' = IF f \in surface THEN surface \ {f} ELSE surface \cup {f}
  /\ UNCHANGED <<status, head, trees, policy, cancelled, review_vars, check_vars, ci, finding>>

-----------------------------------------------------------------------------
(* The policy record. *)

(* A plan is adopted, which may widen the record and never narrows it       *)
(* (ensurePolicyRecord with expand).                                        *)
Record(inputs) == [inputs |-> inputs, obligations |-> Derived(inputs)]

Adopt ==
  /\ status = "planning"
  /\ policy # Nil => policy.inputs = surface \/ policy.obligations \subseteq Derived(surface)
  /\ policy' = IF policy # Nil /\ policy.inputs = surface THEN policy ELSE Record(surface)
  /\ UNCHANGED <<status, head, trees, surface, drifts, cancelled, review_vars, check_vars, ci, finding>>

StartGoal ==
  /\ status = "planning" /\ policy # Nil /\ status' = "executing"
  /\ UNCHANGED <<head, trees, policy_vars, review_vars, check_vars, ci, finding>>

(* An obligation the inputs no longer oblige to is cancelled for a stated   *)
(* reason; the inputs the record was derived from stay as they are.         *)
Open == {p \in Paths : finding[p] = Opened}

Cancel(o) ==
  /\ policy' = [policy EXCEPT !.obligations = @ \ {o}]
  /\ cancelled' = cancelled \cup {<<o, surface>>}
  /\ UNCHANGED <<status, head, trees, surface, drifts, review_vars, check_vars, ci, finding>>

(* Mutant: nobody looks whether it is still obliged to. *)
ReassessUnasked(o) ==
  /\ status # "done" /\ policy # Nil
  /\ o \in policy.obligations \ {"general"}
  /\ o \in Duties => Open = {}
  /\ Cancel(o)

Reassess(o) ==
  /\ status # "done" /\ policy # Nil
  /\ o \in policy.obligations \ {"general"} /\ o \notin Derived(surface)
  /\ o \in Duties => Open = {}
  /\ Cancel(o)

-----------------------------------------------------------------------------
(* Reviews.  A valid run is about the candidate it began at, and may end    *)
(* some commits later; a scope declared for it says which later changes     *)
(* leave it standing.  What is judged of a run that is no longer the latest *)
(* of its duty, or of a duty nobody is obliged to, is of no effect.         *)

Reviewed(d, h, verdict, reported) ==
  /\ status # "done" /\ policy # Nil /\ d \in policy.obligations /\ h <= head
  /\ (verdict = "blocked") = (reported # {})
  /\ review' = [review EXCEPT ![d] =
       [head |-> h, verdict |-> verdict, qualified |-> Nil, reused |-> Nil]]
  /\ scoping' = IF scoping # Nil /\ scoping.duty = d THEN Nil ELSE scoping
  /\ finding' = [p \in Paths |-> IF p \in reported THEN Opened ELSE finding[p]]
  /\ UNCHANGED <<status, head, trees, policy_vars, check_vars, ci>>

(* A recheck of a finding passed on the candidate of commit h (Findings).   *)
Closes(p, h) ==
  /\ status # "done" /\ finding[p] = Opened /\ h <= head
  /\ finding' = [finding EXCEPT ![p] = h]
  /\ UNCHANGED <<status, head, trees, policy_vars, review_vars, check_vars, ci>>

(* Does a change of a file leave a review standing?  What every duty shares *)
(* decides before the rules do, and what no rule names does not.            *)
Keeps(p, scope) == p \in scope.unrelated \ scope.shared

Changed(t, u) == {p \in Paths : t[p] # u[p]}

(* Which additions and deletions are one renaming only changes how they are *)
(* listed: a renaming is judged by both its names.                          *)
Applies(t, u, scope) == \A p \in Changed(t, u) : Keeps(p, scope)

Present(t, S) == {p \in S : t[p] # Absent}

First(S) == CHOOSE p \in S : \A q \in S : Rank[p] <= Rank[q]

(* The challenges (runChallengeSuite), each a change of one file of the     *)
(* tree the run saw: the first the duty is about must count, the first      *)
(* called unrelated must not, of the hinted files every one must, and the   *)
(* first script, and a shared file or else the first lock file.             *)
Challenged(t, scope) ==
  /\ Present(t, scope.about) # {}
  /\ Present(t, scope.unrelated) # {} /\ Keeps(First(Present(t, scope.unrelated)), scope)
  /\ Present(t, Hinted) # {} /\ \A p \in Present(t, Hinted) : ~Keeps(p, scope)
  /\ Present(t, Scripts) # {} /\ ~Keeps(First(Present(t, Scripts)), scope)
  /\ \/ Present(t, scope.shared) # {}
     \/ Present(t, Locks) # {} /\ ~Keeps(First(Present(t, Locks)), scope)

Sound(d) == review[d] # Nil /\ review[d].verdict = "pass" /\ d # "general"

Qualify(d, scope) ==
  /\ status # "done" /\ Sound(d)
  /\ review' = [review EXCEPT ![d].qualified =
       [scope |-> scope, granted |-> Challenged(trees[review[d].head], scope),
        manifest |-> Manifest]]
  /\ UNCHANGED <<status, head, trees, policy_vars, scoping, check_vars, ci, finding>>

(* The tree is unpacked and compared first; what candidate that was is read *)
(* afterwards.                                                              *)
ReuseRead(d) ==
  /\ status # "done" /\ scoping = Nil /\ Sound(d)
  /\ review[d].qualified # Nil /\ review[d].qualified.granted
  /\ scoping' = [duty |-> d, by |-> review[d].qualified, read |-> head, manifest |-> Manifest]
  /\ UNCHANGED <<status, head, trees, policy_vars, review, check_vars, ci, finding>>

ReuseWrite ==
  /\ scoping # Nil /\ status # "done" /\ scoping' = Nil
  /\ LET d == scoping.duty
     IN  review' = [review EXCEPT ![d].reused =
           [by |-> scoping.by, target |-> head, read |-> scoping.read,
            applies |-> /\ scoping.manifest = scoping.by.manifest
                        /\ Applies(trees[review[d].head], trees[scoping.read], scoping.by.scope)]]
  /\ UNCHANGED <<status, head, trees, policy_vars, check_vars, ci, finding>>

-----------------------------------------------------------------------------
(* Receipts of checks.  One check is run at a time, and one run reused.     *)

CheckStart(purpose) ==
  /\ status # "done" /\ checking = Nil /\ ended < MaxRuns
  /\ "checks" \in surface
  /\ checking' = [purpose |-> purpose, manifest |-> Manifest, stage |-> "runs", noted |-> head]
  /\ UNCHANGED <<status, head, trees, policy_vars, review_vars, receipts, judged, ended, ci,
                 finding>>

(* The candidate is noted when the run is over, ... *)
CheckNoted ==
  /\ checking # Nil /\ checking.stage = "runs" /\ status # "done"
  /\ checking' = [checking EXCEPT !.stage = "noted", !.noted = head]
  /\ UNCHANGED <<status, head, trees, policy_vars, review_vars, receipts, judged, ended, ci,
                 finding>>

Leave(receipt) == Len(receipts) < MaxReceipts /\ receipts' = Append(receipts, receipt)

Made(kind, noted, ok, at) ==
  [kind |-> kind, head |-> noted, inputs |-> head, manifest |-> checking.manifest, ok |-> ok,
   at |-> at, base |-> 0]

(* ... and the inputs are hashed after that: a commit may come between.     *)
CheckEnd(ok) ==
  /\ checking # Nil /\ checking.stage = "noted" /\ status # "done"
  /\ Leave(Made("run", checking.noted, ok, ended + 1)) /\ ended' = ended + 1
  /\ checking' = IF checking.purpose = "qualification" /\ ok
                 THEN [checking EXCEPT !.stage = "tries"] ELSE Nil
  /\ UNCHANGED <<status, head, trees, policy_vars, review_vars, judged, ci, finding>>

(* Every change of an input that was tried out showed in the hashes; what   *)
(* the tree holds meanwhile is left out, and only the manifest of the       *)
(* receipt is of use.                                                       *)
Qualified ==
  /\ checking # Nil /\ checking.stage = "tries" /\ status # "done"
  /\ Leave(Made("qualification", head, TRUE, ended)) /\ checking' = Nil
  /\ UNCHANGED <<status, head, trees, policy_vars, review_vars, judged, ended, ci, finding>>

CheckKilled ==
  /\ checking # Nil /\ status # "done" /\ checking' = Nil
  /\ UNCHANGED <<status, head, trees, policy_vars, review_vars, receipts, judged, ended, ci,
                 finding>>

SameInputs(h, k) == \A p \in Inputs : trees[h][p] = trees[k][p]

(* May the run of receipt n stand for the candidate of now (judgeReuse)?    *)
Reusable(n) ==
  /\ receipts[n].kind = "run" /\ receipts[n].manifest = Manifest
  /\ \E q \in 1..Len(receipts) :
       receipts[q].kind = "qualification" /\ receipts[q].manifest = Manifest
  /\ Inputs # {} /\ SameInputs(receipts[n].inputs, head)

(* A reuse that was judged and not written was killed. *)
ReuseJudge(n) ==
  /\ status # "done" /\ "checks" \in surface
  /\ n \in 1..Len(receipts) /\ Reusable(n)
  /\ judged' = [base |-> n, inputs |-> head]
  /\ UNCHANGED <<status, head, trees, policy_vars, review_vars, receipts, checking, ended, ci,
                 finding>>

Reused == [receipts[judged.base] EXCEPT !.kind = "reuse", !.head = head,
                                        !.inputs = judged.inputs, !.base = judged.base]

(* Mutant: a reused run counts as of now. *)
ReuseRunNow ==
  /\ judged # Nil /\ status # "done" /\ ended < MaxRuns
  /\ Leave([Reused EXCEPT !.at = ended + 1]) /\ judged' = Nil /\ ended' = ended + 1
  /\ UNCHANGED <<status, head, trees, policy_vars, review_vars, checking, ci, finding>>

(* The candidate is noted when the receipt is written. *)
ReuseRun ==
  /\ judged # Nil /\ status # "done"
  /\ Leave(Reused) /\ judged' = Nil
  /\ UNCHANGED <<status, head, trees, policy_vars, review_vars, checking, ended, ci, finding>>

(* CI is asked about any commit; the receipt names the candidate of now.    *)
QueryCi(sha, green) ==
  /\ status # "done" /\ sha <= head
  /\ ci' = [head |-> head, sha |-> sha, green |-> green]
  /\ UNCHANGED <<status, head, trees, policy_vars, review_vars, check_vars, finding>>

-----------------------------------------------------------------------------
(* The gate (evaluateGate). *)

PolicyCurrent == policy # Nil /\ policy.inputs = surface

(* Mutant: the candidate the reuse was judged for is not compared. *)
ReuseHoldsForAny(run) ==
  /\ run.reused # Nil /\ run.reused.applies
  /\ run.reused.by.granted /\ run.reused.by.manifest = Manifest

(* The leg a review passes by when only the candidate has moved             *)
(* (judgeReuseLeg).                                                         *)
ReuseHolds(run) ==
  /\ run.reused # Nil /\ run.reused.applies /\ run.reused.target = head
  /\ run.reused.by.granted /\ run.reused.by.manifest = Manifest

ReviewSatisfied(d) ==
  /\ review[d] # Nil /\ review[d].verdict = "pass"
  /\ review[d].head = head \/ ReuseHolds(review[d])

(* Receipts are listed by the names of their files, which begin with their  *)
(* number, and a number of two digits comes before one of one digit that is *)
(* greater than its first.                                                  *)
ListedBefore(m, n) ==
  LET a == Written + m  b == Written + n IN
    CASE a < 10 /\ b >= 10 -> a <= b \div 10
      [] a >= 10 /\ b < 10 -> a \div 10 < b
      [] OTHER -> a < b

Served == {n \in 1..Len(receipts) : receipts[n].kind # "qualification"}

(* The receipt that decides (latestReceipt): the one of the run that ended  *)
(* last, and of several for that run the first listed.                      *)
Decides(n) ==
  /\ n \in Served
  /\ \A m \in Served \ {n} :
       \/ receipts[m].at < receipts[n].at
       \/ receipts[m].at = receipts[n].at /\ ListedBefore(n, m)

CheckSatisfied ==
  \E n \in Served : /\ Decides(n) /\ receipts[n].ok
                    /\ receipts[n].head = head /\ receipts[n].manifest = Manifest

CiSatisfied == ci # Nil /\ ci.green /\ ci.head = head

(* Mutant: closed is closed. *)
FindingsShut == \A p \in Paths : finding[p] # Opened

(* A closed finding must be found again when its file has changed since the *)
(* recheck that closed it (auditClosedFindingsApplicability).               *)
FindingsClear ==
  \A p \in Paths :
    /\ finding[p] # Opened
    /\ finding[p] \in Heads =>
         finding[p] = head \/ trees[finding[p]][p] = trees[head][p]

GateOpen ==
  /\ PolicyCurrent /\ FindingsClear
  /\ \A d \in policy.obligations \cap Duties : ReviewSatisfied(d)
  /\ "check" \in policy.obligations => CheckSatisfied
  /\ "ci" \in policy.obligations => CiSatisfied

(* The worker's tree is compared before and after the gate; a commit in     *)
(* between refuses the finish.                                              *)
Finish ==
  /\ status = "executing" /\ GateOpen /\ status' = "done"
  /\ UNCHANGED <<head, trees, policy_vars, review_vars, check_vars, ci, finding>>

-----------------------------------------------------------------------------
PolicyStep == Adopt \/ StartGoal \/ \E f \in Features : Drift(f)
                \/ \E o \in Obligations : Reassess(o)

(* One finding to a run. *)
Reports == {{}} \cup {{p} : p \in Paths}

ReviewStep ==
  \/ \E d \in Duties :
       \/ \E h \in Heads, v \in {"pass", "blocked", "invalid"}, S \in Reports :
            Reviewed(d, h, v, S)
       \/ \E scope \in Scopes : Qualify(d, scope)
       \/ ReuseRead(d)
  \/ ReuseWrite
  \/ \E p \in Paths, h \in Heads : Closes(p, h)

CheckStep ==
  \/ \E purpose \in {"run", "qualification"} : CheckStart(purpose)
  \/ CheckNoted \/ \E ok \in BOOLEAN : CheckEnd(ok)
  \/ Qualified \/ CheckKilled
  \/ \E n \in 1..MaxReceipts : ReuseJudge(n)
  \/ ReuseRun
  \/ \E sha \in Heads, green \in BOOLEAN : QueryCi(sha, green)

GateNext == PolicyStep \/ ReviewStep \/ CheckStep \/ Finish \/ \E t \in Trees : Commit(t)

GateSpec == GateInit /\ [][GateNext]_gateVars

-----------------------------------------------------------------------------
(* What a finished goal was finished on. *)

(* Every review it was obliged to passed on the candidate finished, or on   *)
(* one that differs from it only in files that a declaration, found good by *)
(* the challenges, calls unrelated and not shared, none of them a hinted    *)
(* file the review saw; but for a commit made between the reading of the    *)
(* tree and the note of what candidate it was.                              *)
ReviewedUpTo ==
  status = "done" =>
    \A d \in policy.obligations \cap Duties :
      LET run == review[d] IN
        /\ run # Nil /\ run.verdict = "pass"
        /\ \/ run.head = head
           \/ LET scope == run.reused.by.scope
                  seen == IF run.reused.read = run.reused.target THEN head ELSE run.reused.read
              IN  \A p \in Changed(trees[run.head], trees[seen]) :
                    /\ p \in scope.unrelated /\ p \notin scope.shared
                    /\ p \in Hinted => trees[run.head][p] = Absent

(* The receipt that decided is one of the check really run last, by when it *)
(* ended, or reuses that one: no earlier green run stands past a later red  *)
(* one.  It was green under the manifest in force, and the inputs it was    *)
(* last judged on are those of its run; they are the inputs finished, but   *)
(* for a commit made between the hashing of the inputs and the note of what *)
(* candidate it was.                                                        *)
LastRunDecides ==
  status = "done" /\ "check" \in policy.obligations =>
    \E m, n \in 1..Len(receipts) :
      /\ Decides(m) /\ receipts[m].head = head
      /\ n = IF receipts[m].kind = "reuse" THEN receipts[m].base ELSE m
      /\ receipts[n].kind = "run" /\ receipts[n].ok /\ receipts[n].at = ended
      /\ receipts[n].manifest = Manifest
      /\ LET seen == IF receipts[m].inputs = receipts[m].head THEN head ELSE receipts[m].inputs
         IN  SameInputs(receipts[n].inputs, seen)

(* What the inputs oblige to and the record does not was cancelled at a     *)
(* time when the inputs did not.                                            *)
MissingWasCancelled ==
  status = "done" =>
    /\ "general" \in policy.obligations
    /\ \A o \in Derived(surface) \ policy.obligations :
         \E s \in Surfaces : <<o, s>> \in cancelled /\ o \notin Derived(s)

(* No finding is open, and the file of a closed one is as it was when the   *)
(* recheck that closed it looked.                                           *)
ClosedHere ==
  status = "done" =>
    \A p \in Paths :
      /\ finding[p] # Opened
      /\ finding[p] \in Heads => trees[finding[p]][p] = trees[head][p]

(* What a finished goal rests on is the latest of its kind, of checks, of    *)
(* the policy record and of findings.                                       *)
FinishedOnTheLatest == LastRunDecides /\ MissingWasCancelled /\ ClosedHere
=============================================================================
