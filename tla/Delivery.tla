------------------------------ MODULE Delivery ------------------------------
(***************************************************************************)
(* The external actions of a goal (src/core/delivery.js): endpoint B pushes *)
(* the branch, opens and merges a pull request; endpoint C verifies the     *)
(* deployed pages.  Each action is declared as an intent before anything is *)
(* sent, and an outcome nobody saw is classified by a readback.  The queue  *)
(* runs the same commands for an item (runDeliveryChain, queue.js) and      *)
(* decides from the intents whether the item is completed.                  *)
(*                                                                         *)
(* A withLock section is one step (LoopLock); so is every call of git, gh   *)
(* or curl.  The goal is executing, or done with both contracts bound; a new *)
(* commit, another user and the services move at any time.  One repository, *)
(* one branch and one base, so the anchor of an intent never drifts.  Where *)
(* goals are governed (version 2) an act passes the unified gate first, of   *)
(* which the audit of the intents is here and the rest in Gate.  Left out:  *)
(* the pending-approval slot a passed gate clears, the attempt log and C's   *)
(* observation parameters.                                                  *)
(***************************************************************************)
EXTENDS Integers, Sequences

CONSTANTS
  Hands,     \* processes that run delivery commands or a queue chain
  Items,     \* queue items that declare a delivery
  Endpoint,  \* the endpoint of each item
  MaxHeads,  \* bound: commits of the branch
  MaxPulls,  \* bound: pull requests of the branch
  MaxFaults, \* bound: kills, timeouts, failed queries, chains over their time
  None

ASSUME EndpointAssumption == Endpoint \in [Items -> {"B", "C"}]
ASSUME NoneAssumption == None \notin Items \cup {"act", "other"}
ASSUME BoundsAssumption ==
  MaxHeads \in Nat \ {0} /\ MaxPulls \in Nat \ {0} /\ MaxFaults \in Nat

VARIABLES
  head,     \* the commit the workspace is at
  intents,  \* intents.json
  item,     \* the state of each queue item
  hand,     \* what each process is doing
  tip,      \* the pushed tip of the branch, 0 when it was never pushed
  pulls,    \* the pull requests of the branch, in order
  green,    \* the commits whose check runs are green
  site,     \* the pull request whose merge the pages show, 0 for none
  inflight, \* merge requests sent by a process that did not see the answer
  governed, \* the goals are of version 2; it does not change
  faults    \* history: faults so far

ledger == <<intents, item>>
service == <<tip, pulls, green, site, inflight>>
vars == <<head, ledger, hand, service, governed, faults>>

Eps == {"B", "C"}
Heads == 1..MaxHeads
Shas == 0..MaxPulls   \* a merge commit is named by its pull request

(* Checks are green or not: pending, failed and unknown are all told apart   *)
(* from green only.                                                         *)
Pulls == [head : Heads, state : {"OPEN", "MERGED", "CLOSED"}, by : {"act", "other", None},
          green : BOOLEAN]
Statuses == {"intended", "acting", "unknown", "done", "failed", "refused"}

(* A B intent delivers the commit "of" and records the merge commit; a C    *)
(* intent verifies the merge commit "of" and records whether it was shown.  *)
Intents == [ep : Eps, of : Nat, status : Statuses, sha : Shas,
            green : BOOLEAN, shown : BOOLEAN, origin : Items \cup {None}]

ActStages == {"push", "list", "view", "create", "created", "ci", "merge",
              "merged", "rejected", "settle", "poll", "fetch"}
ReadStages == {"sawMerged", "sawOpen", "sawClosed", "aligned"}
ChainStages == {"begin", "back", "judge", "reached", "missed", "abort"}

Idle == [at |-> "idle"]
Busy == [at : ActStages \cup ReadStages \cup ChainStages, ep : Eps,
         item : Items \cup {None}, n : Nat, pr : Shas, seen : Statuses \cup {None}]

Init ==
  /\ head = 1
  /\ intents = <<>>
  /\ item = [i \in Items |-> "ready"]
  /\ hand = [p \in Hands |-> Idle]
  /\ tip = 0 /\ pulls = <<>> /\ site = 0 /\ inflight = {}
  /\ green = {}
  /\ governed \in BOOLEAN
  /\ faults = 0

At(p, stages) == hand[p].at \in stages
Go(p, at) == hand' = [hand EXCEPT ![p].at = at]

Fault == faults < MaxFaults /\ faults' = faults + 1 /\ UNCHANGED governed
NoFault == UNCHANGED <<governed, faults>>

----------------------------------------------------------------------------
(* The ledger of intents.                                                   *)

IndexesOf(ep, of) == {n \in DOMAIN intents : intents[n].ep = ep /\ intents[n].of = of}

(* The last of a set of indexes; 0 when there is none. *)
Last(S) == IF S = {} THEN 0 ELSE CHOOSE n \in S : \A m \in S : m <= n

LatestOf(ep) == Last({n \in DOMAIN intents : intents[n].ep = ep})
LatestMine(i, ep) ==
  Last({n \in DOMAIN intents : intents[n].ep = ep /\ intents[n].origin = i})

(* The merge commit C verifies: that of the latest B intent done. *)
MergedB ==
  LET n == Last({m \in DOMAIN intents : /\ intents[m].ep = "B" /\ intents[m].status = "done"
                                        /\ intents[m].sha # 0})
  IN  IF n = 0 THEN 0 ELSE intents[n].sha

Actable == {"intended", "failed", "refused"}
Unsettled == {"acting", "unknown"}

(* Mutant: a readback may open a finished intent again. *)
Transitions_reopened(from) ==
  CASE from = "intended" -> {"acting", "done", "failed"}
    [] from = "acting" -> {"done", "failed", "refused", "unknown", "intended"}
    [] from = "unknown" -> {"done", "intended", "failed"}
    [] from \in {"failed", "refused", "done"} -> {"acting", "intended", "done"}

Transitions(from) ==
  CASE from = "intended" -> {"acting", "done", "failed"}
    [] from = "acting" -> {"done", "failed", "refused", "unknown", "intended"}
    [] from = "unknown" -> {"done", "intended", "failed"}
    [] from \in {"failed", "refused"} -> {"acting", "intended", "done"}
    [] from = "done" -> {}

(* settleAct and failAct: the transition is checked against the status on   *)
(* disk now; a refused one throws and writes nothing.                       *)
Settle(n, to) ==
  intents' = IF to \in Transitions(intents[n].status)
             THEN [intents EXCEPT ![n].status = to] ELSE intents

SettleMerged(n, sha, ok) ==
  intents' = IF "done" \in Transitions(intents[n].status)
             THEN [intents EXCEPT ![n].status = "done", ![n].sha = sha, ![n].green = ok]
             ELSE intents

SettleShown(n) ==
  intents' = IF "done" \in Transitions(intents[n].status)
             THEN [intents EXCEPT ![n].status = "done", ![n].shown = TRUE] ELSE intents

----------------------------------------------------------------------------
(* deliveryResultVerdict for one endpoint of an item. *)

(* Mutant: a merged pull request is enough. *)
Reached_unverified(i, ep) ==
  LET n == LatestMine(i, ep)
  IN  n # 0 /\ intents[n].status = "done" /\ (ep = "C" => intents[n].shown)

Reached(i, ep) ==
  LET n == LatestMine(i, ep)
  IN  /\ n # 0 /\ intents[n].status = "done"
      /\ IF ep = "B" THEN intents[n].sha # 0 /\ intents[n].green ELSE intents[n].shown

Required(i) == IF Endpoint[i] = "C" THEN Eps ELSE {"B"}
AllReached(i) == \A ep \in Required(i) : Reached(i, ep)

----------------------------------------------------------------------------
(* Commands.  A command run by the chain of an item returns to the chain.   *)

Doing(at, ep, i, n) == [at |-> at, ep |-> ep, item |-> i, n |-> n, pr |-> 0, seen |-> None]

(* A command of a person ends; one of a chain goes on at the given stage.    *)
Return(p, at) ==
  hand' = [hand EXCEPT ![p] = IF hand[p].item = None THEN Idle
                              ELSE Doing(at, hand[p].ep, hand[p].item, 0)]

Succeeded(p) == Return(p, "back")

(* A chain whose act threw reads back, unless the act ran on an intent the   *)
(* item does not own: the whole chain is then given up.                      *)
Threw(p) == Return(p, IF LatestMine(hand[p].item, hand[p].ep) = 0 THEN "abort" ELSE "back")

(* What an act does is declared before it is done: beginAct under the lock. *)
(* A person grants and withdraws the delivery contract at any time, so that  *)
(* an act may find it granted or not.                                       *)
Declared(ep, of, i) ==
  LET n == Last(IndexesOf(ep, of)) IN
  IF n = 0
  THEN intents' = Append(intents, [ep |-> ep, of |-> of, status |-> "acting", sha |-> 0,
                                   green |-> FALSE, shown |-> FALSE, origin |-> i])
  ELSE intents' = [intents EXCEPT ![n].status = "acting"]

Free(ep, of) == \A n \in IndexesOf(ep, of) : intents[n].status \in Actable

(* Mutant: only intents of the endpoint to be acted on are asked about. *)
Audited_own(ep) ==
  \A n \in DOMAIN intents : intents[n].ep = ep => intents[n].status \notin Unsettled

(* auditDeliveryIntents: nothing is under way or unknown, and what was merged is green. *)
Audited(ep) ==
  \A n \in DOMAIN intents :
    /\ intents[n].status \notin Unsettled
    /\ intents[n].ep = "B" /\ intents[n].status = "done" => intents[n].green

Target(ep) == IF ep = "B" THEN head ELSE MergedB

Begin(p, ep, i) ==
  LET of == Target(ep)
      n == IF IndexesOf(ep, of) = {} THEN Len(intents) + 1 ELSE Last(IndexesOf(ep, of))
  IN  /\ of # 0 /\ Free(ep, of)
      /\ governed => Audited(ep)
      /\ Declared(ep, of, i)
      /\ hand' = [hand EXCEPT ![p] = Doing(IF ep = "B" THEN "push" ELSE "poll", ep, i, n)]
      /\ UNCHANGED <<head, item, service, governed, faults>>

ActCommand(p) == At(p, {"idle"}) /\ \E ep \in Eps : Begin(p, ep, None)

(* An act that fails settles its intent and throws.                         *)
Fail(p, to) ==
  /\ Settle(hand[p].n, to)
  /\ Threw(p)
  /\ UNCHANGED <<head, item>>

Step(p, at) == Go(p, at) /\ UNCHANGED <<head, ledger>>

----------------------------------------------------------------------------
(* The services.                                                            *)

OpenPulls == {k \in DOMAIN pulls : pulls[k].state = "OPEN"}

(* gh pr view <branch>: the open request of the branch, else its last one.   *)
Viewed == IF OpenPulls # {} THEN Last(OpenPulls) ELSE Len(pulls)

(* git push: the branch moves, and an open request with it. *)
Pushed ==
  /\ tip' = head
  /\ pulls' = [k \in DOMAIN pulls |-> IF k \in OpenPulls THEN [pulls[k] EXCEPT !.head = head]
                                      ELSE pulls[k]]

Creatable ==
  /\ tip # 0 /\ OpenPulls = {} /\ Len(pulls) < MaxPulls
  /\ \A k \in DOMAIN pulls : pulls[k].head = tip => pulls[k].state # "MERGED"

Created == pulls' = Append(pulls, [head |-> tip, state |-> "OPEN", by |-> None, green |-> FALSE])

Merged(k, who) == pulls' = [pulls EXCEPT ![k].state = "MERGED", ![k].by = who]

(* Mutant: gh pr merge without --match-head-commit. *)
Mergeable_any(k, h) == pulls[k].state = "OPEN"

Mergeable(k, h) == pulls[k].state = "OPEN" /\ pulls[k].head = h

Commit ==
  /\ head < MaxHeads /\ head' = head + 1
  /\ UNCHANGED <<ledger, hand, service, governed, faults>>

Report(h) ==
  /\ h <= tip /\ h \notin green /\ green' = green \cup {h}
  /\ UNCHANGED <<head, ledger, hand, tip, pulls, site, inflight, governed, faults>>

ReportMerge(k) ==
  /\ pulls[k].state = "MERGED" /\ ~pulls[k].green
  /\ pulls' = [pulls EXCEPT ![k].green = TRUE]
  /\ UNCHANGED <<head, ledger, hand, tip, green, site, inflight, governed, faults>>

(* Another user merges the request or closes it. *)
Other(k) ==
  /\ pulls[k].state = "OPEN"
  /\ \/ Merged(k, "other")
     \/ pulls' = [pulls EXCEPT ![k].state = "CLOSED"]
  /\ UNCHANGED <<head, ledger, hand, tip, green, site, inflight, governed, faults>>

(* The pages of a merge replace those of an earlier one. *)
Deploy(k) ==
  /\ pulls[k].state = "MERGED" /\ site < k
  /\ site' = k
  /\ UNCHANGED <<head, ledger, hand, tip, pulls, green, inflight, governed, faults>>

(* A merge request nobody waits for any more is carried out, or is lost. *)
Arrive(m) ==
  /\ inflight' = inflight \ {m}
  /\ \/ Mergeable(m.pr, m.head) /\ Merged(m.pr, "act")
     \/ UNCHANGED pulls
  /\ UNCHANGED <<head, ledger, hand, tip, green, site, governed, faults>>

----------------------------------------------------------------------------
(* Act B.                                                                   *)

(* git push: accepted, refused, or without an answer in time. *)
Push(p) ==
  /\ At(p, {"push"})
  /\ \/ Pushed /\ NoFault /\ Step(p, "list")
     \/ UNCHANGED <<tip, pulls>> /\ NoFault /\ Fail(p, "failed")
     \/ (Pushed \/ UNCHANGED <<tip, pulls>>) /\ Fault /\ Fail(p, "unknown")
  /\ UNCHANGED <<green, site, inflight>>

(* gh pr list --state open; a list that fails counts as empty. *)
List(p) ==
  /\ At(p, {"list"})
  /\ \/ /\ OpenPulls # {} /\ NoFault
        /\ hand' = [hand EXCEPT ![p].at = "view", ![p].pr = Last(OpenPulls)]
     \/ OpenPulls = {} /\ NoFault /\ Go(p, "view")
     \/ OpenPulls # {} /\ Fault /\ Go(p, "view")
  /\ UNCHANGED <<head, ledger, service>>

(* The drift check, on what the view returned.                              *)
Drifted(k, h) == pulls[k].state # "OPEN" \/ pulls[k].head # h

Checked(p, k) ==
  IF Drifted(k, intents[hand[p].n].of) THEN Fail(p, "refused")
  ELSE /\ hand' = [hand EXCEPT ![p].at = "ci", ![p].pr = k]
       /\ UNCHANGED <<head, ledger>>

ViewOpen(p) ==
  /\ At(p, {"view"}) /\ hand[p].pr # 0
  /\ \/ NoFault /\ Checked(p, hand[p].pr)
     \/ Fault /\ Fail(p, "unknown")
  /\ UNCHANGED service

(* The act ends with the intent done, and what the checks of the merge say. *)
Close(p, k) ==
  LET n == hand[p].n IN
  /\ \/ NoFault /\ SettleMerged(n, k, pulls[k].green)
     \/ Fault /\ SettleMerged(n, k, FALSE)
  /\ IF "done" \in Transitions(intents[n].status) THEN Succeeded(p) ELSE Threw(p)
  /\ UNCHANGED <<head, item>>

(* Without an open request: one that already merged this very commit is the *)
(* outcome of the intent; otherwise a new one is created.                   *)
ViewBranch(p) ==
  LET k == Viewed
      n == hand[p].n
      already == k # 0 /\ pulls[k].state = "MERGED" /\ pulls[k].head = intents[n].of
  IN  /\ At(p, {"view"}) /\ hand[p].pr = 0
      /\ \/ /\ already
            /\ \/ NoFault /\ SettleMerged(n, k, pulls[k].green)
               \/ Fault /\ SettleMerged(n, k, FALSE)
            /\ Succeeded(p) /\ UNCHANGED <<head, item>>
         \/ ~already /\ NoFault /\ Step(p, "create")
         \/ Fault /\ Step(p, "create")   \* the view fails
         \/ Fault /\ Fail(p, "failed")   \* gh is missing
      /\ UNCHANGED service

Create(p) ==
  /\ At(p, {"create"})
  /\ \/ Creatable /\ Created /\ NoFault /\ Step(p, "created")
     \/ UNCHANGED pulls /\ NoFault /\ Step(p, "created")
     \/ ((Creatable /\ Created) \/ UNCHANGED pulls) /\ Fault /\ Fail(p, "unknown")
  /\ UNCHANGED <<tip, green, site, inflight>>

ViewCreated(p) ==
  /\ At(p, {"created"})
  /\ \/ pulls # <<>> /\ NoFault /\ Checked(p, Viewed)
     \/ pulls = <<>> /\ NoFault /\ Fail(p, "unknown")
     \/ pulls # <<>> /\ Fault /\ Fail(p, "unknown")
  /\ UNCHANGED service

(* pollCi on the commit of the intent; anything but green refuses.          *)
PollHead(p) ==
  LET passed == intents[hand[p].n].of \in green IN
  /\ At(p, {"ci"})
  /\ \/ passed /\ NoFault /\ Step(p, "merge")
     \/ ~passed /\ NoFault /\ Fail(p, "refused")
     \/ passed /\ Fault /\ Fail(p, "refused")
  /\ UNCHANGED service

Asked(p) == [pr |-> hand[p].pr, head |-> intents[hand[p].n].of]

Merge(p) ==
  /\ At(p, {"merge"})
  /\ \/ /\ Mergeable(hand[p].pr, Asked(p).head) /\ Merged(hand[p].pr, "act")
        /\ NoFault /\ Step(p, "merged") /\ UNCHANGED inflight
     \/ UNCHANGED <<pulls, inflight>> /\ NoFault /\ Step(p, "rejected")
     \/ /\ inflight' = inflight \cup {Asked(p)} /\ UNCHANGED pulls
        /\ Fault /\ Fail(p, "unknown")
  /\ UNCHANGED <<tip, green, site>>

(* The request is viewed again: merged by anybody counts as merged. *)
ViewMerged(p) ==
  LET merged == pulls[hand[p].pr].state = "MERGED" IN
  /\ At(p, {"merged", "rejected"})
  /\ \/ merged /\ NoFault /\ Step(p, "settle")
     \/ ~merged /\ NoFault /\ Fail(p, "failed")
     \/ Fault /\ Fail(p, IF At(p, {"rejected"}) THEN "failed" ELSE "unknown")
  /\ UNCHANGED service

SettleB(p) == At(p, {"settle"}) /\ Close(p, hand[p].pr) /\ UNCHANGED service

----------------------------------------------------------------------------
(* Readback B: the latest B intent, and the request of the branch.          *)

MayRead(p, ep) == At(p, {"idle"}) \/ (At(p, {"back"}) /\ hand[p].ep = ep)
Reader(p) == IF At(p, {"idle"}) THEN None ELSE hand[p].item

(* A readback that learns nothing: the chain judges what the ledger says.    *)
Unanswered(p) ==
  /\ hand' = [hand EXCEPT ![p] = IF Reader(p) = None THEN Idle
                                 ELSE Doing("judge", hand[p].ep, hand[p].item, 0)]
  /\ UNCHANGED <<head, ledger, service>>

Saw(state) == CASE state = "MERGED" -> "sawMerged" [] state = "OPEN" -> "sawOpen"
                [] state = "CLOSED" -> "sawClosed"

ReadB(p) ==
  LET n == LatestOf("B") IN
  /\ MayRead(p, "B") /\ n # 0
  /\ \/ /\ pulls # <<>> /\ NoFault
        /\ hand' = [hand EXCEPT ![p] = [at |-> Saw(pulls[Viewed].state), ep |-> "B",
                                        item |-> Reader(p), n |-> n, pr |-> Viewed,
                                        seen |-> intents[n].status]]
        /\ UNCHANGED <<head, ledger, service>>
     \/ pulls = <<>> /\ NoFault /\ Unanswered(p)
     \/ pulls # <<>> /\ Fault /\ Unanswered(p)

Annotate(n, sha, ok) == intents' = [intents EXCEPT ![n].sha = sha, ![n].green = ok]

ReadMerged(p) ==
  LET n == hand[p].n
      k == hand[p].pr
      Recorded(ok) == IF hand[p].seen = "done" THEN Annotate(n, k, ok) ELSE SettleMerged(n, k, ok)
  IN  /\ At(p, {"sawMerged"})
      /\ \/ NoFault /\ Recorded(pulls[k].green)
         \/ Fault /\ Recorded(FALSE)
      /\ Return(p, "judge")
      /\ UNCHANGED <<head, item, service>>

ReadOther(p) ==
  LET to == IF At(p, {"sawOpen"}) THEN "intended" ELSE "failed" IN
  /\ At(p, {"sawOpen", "sawClosed"})
  /\ IF hand[p].seen # to THEN Settle(hand[p].n, to) ELSE UNCHANGED intents
  /\ Return(p, "judge")
  /\ UNCHANGED <<head, item, service, governed, faults>>

----------------------------------------------------------------------------
(* Act C and its readback.                                                  *)

(* Mutant: any finished build of the pages will do. *)
Aligned_any(of) == site # 0

Aligned(of) == site = of

(* The build of the merge in time, or not: still an older one, a failed     *)
(* build, a failed query.                                                   *)
Poll(p) ==
  /\ At(p, {"poll"}) /\ NoFault
  /\ \/ Aligned(intents[hand[p].n].of) /\ Step(p, "fetch")
     \/ Fail(p, "failed")
  /\ UNCHANGED service

(* Every page answers and shows the marker, or not. *)
Fetch(p) ==
  LET n == hand[p].n IN
  /\ At(p, {"fetch"}) /\ NoFault
  /\ \/ /\ SettleShown(n)
        /\ IF "done" \in Transitions(intents[n].status) THEN Succeeded(p) ELSE Threw(p)
        /\ UNCHANGED <<head, item>>
     \/ Fail(p, "failed")
  /\ UNCHANGED service

ReadC(p) ==
  LET n == LatestOf("C") IN
  /\ MayRead(p, "C") /\ n # 0
  /\ \/ /\ Aligned(intents[n].of) /\ NoFault
        /\ hand' = [hand EXCEPT ![p] = [at |-> "aligned", ep |-> "C", item |-> Reader(p),
                                        n |-> n, pr |-> 0, seen |-> intents[n].status]]
        /\ UNCHANGED <<head, ledger, service>>
     \/ ~Aligned(intents[n].of) /\ NoFault /\ Unanswered(p)
     \/ Aligned(intents[n].of) /\ Fault /\ Unanswered(p)

ReadPages(p) ==
  LET n == hand[p].n IN
  /\ At(p, {"aligned"})
  /\ \E shown \in BOOLEAN :
       IF hand[p].seen = "done" THEN intents' = [intents EXCEPT ![n].shown = shown]
       ELSE IF shown THEN SettleShown(n) ELSE UNCHANGED intents
  /\ Return(p, "judge")
  /\ UNCHANGED <<head, item, service, governed, faults>>

----------------------------------------------------------------------------
(* The chain of a queue item.                                               *)

(* The item's goal is done: the queue starts the chain, one item at a time. *)
Dispatch(p, i) ==
  /\ At(p, {"idle"})
  /\ item[i] = "ready" /\ \A j \in Items : item[j] # "running"
  /\ item' = [item EXCEPT ![i] = "running"]
  /\ hand' = [hand EXCEPT ![p] = Doing("begin", "B", i, 0)]
  /\ UNCHANGED <<head, intents, service, governed, faults>>

(* A refused act leaves no intent of the item: a missing grant is reported   *)
(* as a failed delivery, any other refusal, the gate's among them, gives the *)
(* chain up.                                                                *)
ChainAct(p) ==
  LET ep == hand[p].ep IN
  /\ At(p, {"begin"})
  /\ \/ Begin(p, ep, hand[p].item)
     \/ /\ NoFault /\ Step(p, "missed") /\ UNCHANGED service
     \/ /\ Target(ep) = 0 \/ ~Free(ep, Target(ep)) \/ governed
        /\ NoFault /\ Step(p, "abort") /\ UNCHANGED service

Judge(p) ==
  LET i == hand[p].item
      ep == hand[p].ep
  IN  /\ At(p, {"judge"})
      /\ hand' = [hand EXCEPT ![p] =
           IF ~Reached(i, ep) THEN Doing("missed", ep, i, 0)
           ELSE IF ep = "B" /\ "C" \in Required(i) THEN Doing("begin", "C", i, 0)
           ELSE Doing("reached", ep, i, 0)]
      /\ UNCHANGED <<head, ledger, service, governed, faults>>

Terminal == {"completed", "failed"}

(* Mutant: the verdict of the chain is written as the state of the item. *)
Conclude_verbatim(p) ==
  /\ At(p, {"reached", "missed", "abort"})
  /\ item' = [item EXCEPT ![hand[p].item] = hand[p].at]
  /\ hand' = [hand EXCEPT ![p] = Idle]
  /\ UNCHANGED <<head, intents, service, governed, faults>>

(* The last section of the dispatch, or abortDelivery, writes the item. *)
Conclude(p) ==
  LET i == hand[p].item IN
  /\ At(p, {"reached", "missed", "abort"})
  /\ item' = [item EXCEPT ![i] = CASE At(p, {"reached"}) -> "completed"
                                   [] At(p, {"missed"}) -> "failed"
                                   [] At(p, {"abort"}) -> IF @ \in Terminal THEN @ ELSE "failed"]
  /\ hand' = [hand EXCEPT ![p] = Idle]
  /\ UNCHANGED <<head, intents, service, governed, faults>>

Chained(i) == \E p \in Hands : ~At(p, {"idle"}) /\ hand[p].item = i

(* reconcileDispatch: an item whose chain is dead, or over its time, is      *)
(* closed by what the intents say; a failed delivery that has been repaired  *)
(* is completed.                                                            *)
Reconcile ==
  /\ \E late \in BOOLEAN :
       LET Judged(i) == IF AllReached(i) THEN "completed" ELSE "failed" IN
       /\ IF late THEN Fault /\ (\E i \in Items : item[i] = "running" /\ Chained(i)) ELSE NoFault
       /\ item' = [i \in Items |->
            IF item[i] = "running" /\ (late \/ ~Chained(i)) THEN Judged(i)
            ELSE IF item[i] = "failed" THEN Judged(i) ELSE item[i]]
  /\ UNCHANGED <<head, intents, hand, service>>

(* A process is killed; the merge it was waiting for is on its way.         *)
Kill(p) ==
  /\ ~At(p, {"idle"}) /\ Fault
  /\ hand' = [hand EXCEPT ![p] = Idle]
  /\ inflight' = IF At(p, {"merge"}) THEN inflight \cup {Asked(p)} ELSE inflight
  /\ UNCHANGED <<head, ledger, tip, pulls, green, site>>

----------------------------------------------------------------------------
Act(p) ==
  \/ Push(p) \/ List(p) \/ ViewOpen(p) \/ ViewBranch(p) \/ Create(p) \/ ViewCreated(p)
  \/ PollHead(p) \/ Merge(p) \/ ViewMerged(p) \/ SettleB(p) \/ Poll(p) \/ Fetch(p)

Readback(p) == ReadB(p) \/ ReadMerged(p) \/ ReadOther(p) \/ ReadC(p) \/ ReadPages(p)

Chain(p) == ChainAct(p) \/ Judge(p) \/ Conclude(p)

World ==
  \/ Commit
  \/ \E h \in Heads : Report(h)
  \/ \E k \in DOMAIN pulls : ReportMerge(k) \/ Other(k) \/ Deploy(k)
  \/ \E m \in inflight : Arrive(m)

Next ==
  \/ \E p \in Hands :
       \/ ActCommand(p) \/ Act(p) \/ Readback(p) \/ Chain(p) \/ Kill(p)
       \/ \E i \in Items : Dispatch(p, i)
  \/ Reconcile
  \/ World

Spec == Init /\ [][Next]_vars

----------------------------------------------------------------------------
(* Every file, process and service has its type. *)
TypeOK ==
  /\ head \in Heads
  /\ intents \in Seq(Intents)
  /\ item \in [Items -> {"ready", "running"} \cup Terminal]
  /\ hand \in [Hands -> {Idle} \cup Busy]
  /\ tip \in 0..MaxHeads /\ pulls \in Seq(Pulls) /\ Len(pulls) <= MaxPulls
  /\ green \subseteq Heads /\ site \in Shas
  /\ inflight \subseteq [pr : Shas, head : Heads] /\ governed \in BOOLEAN
  /\ faults \in 0..MaxFaults

(* What an act merged, whenever its request was carried out, is the commit   *)
(* of an intent, with green checks: however the branch moved between the     *)
(* checks and the merge (actDeliveryB, steps 3 to 5).                       *)
MergedIsChecked ==
  \A k \in DOMAIN pulls :
    pulls[k].by = "act" =>
      /\ pulls[k].head \in green
      /\ \E n \in DOMAIN intents : intents[n].ep = "B" /\ intents[n].of = pulls[k].head

(* Of governed goals one intent at most is under way or of unknown outcome,  *)
(* over both endpoints and every process, and after a kill: no act begins    *)
(* before a readback has settled the one before it (beginAct).  A readback   *)
(* that saw the request open settles the intent of an act that still runs.   *)
OneActAtATime ==
  governed =>
    \A m, n \in DOMAIN intents :
      intents[m].status \in Unsettled /\ intents[n].status \in Unsettled => m = n

(* What is sent is sent one at a time, and only when it was checked. *)
SentOneByOne == MergedIsChecked /\ OneActAtATime

(* done is final: no act that is late, no readback that saw the past and no  *)
(* second command takes an intent out of it (assertTransition).             *)
DoneStays ==
  [][\A n \in DOMAIN intents :
       intents[n].status = "done" => intents'[n].status = "done"]_vars

(* A verified endpoint C means the pages of that merge were deployed, and    *)
(* its commit was merged: an older deployment is never taken for it.        *)
ShownIsDeployed ==
  \A n \in DOMAIN intents :
    intents[n].ep = "C" /\ intents[n].status = "done" =>
      intents[n].of <= site /\ pulls[intents[n].of].state = "MERGED"

(* An item is written completed, by its chain or by a reconcile, only when   *)
(* every endpoint it requires is done in its own name: endpoint B with a     *)
(* merge that happened, and one of the branch whose checks are green,        *)
(* endpoint C with the pages of its merge deployed (deliveryResultVerdict).  *)
(* That the two merges of B are one the intent need not say any more when    *)
(* the item is written: a readback may replace the merge it records between  *)
(* the verdict and the write.                                               *)
Delivered(i, ep) ==
  \E n \in DOMAIN intents :
    /\ intents[n].ep = ep /\ intents[n].origin = i /\ intents[n].status = "done"
    /\ IF ep = "B" THEN /\ intents[n].sha \in DOMAIN pulls
                        /\ pulls[intents[n].sha].state = "MERGED"
                        /\ \E k \in DOMAIN pulls : pulls[k].state = "MERGED" /\ pulls[k].green
       ELSE intents[n].of <= site
CompletedIsDelivered ==
  [][\A i \in Items :
       item[i] # "completed" /\ item'[i] = "completed" =>
         \A ep \in Required(i) : Delivered(i, ep)]_vars
=============================================================================
