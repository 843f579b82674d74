---------------------------- MODULE ReviewBudget ----------------------------
(***************************************************************************)
(* What reviews cost: the preflight of core/review.js, the use a run is     *)
(* recorded with, its charge in the ledger of core/queue.js, and the        *)
(* acknowledgement of use that is not known (metering-ack.json).            *)
(*                                                                         *)
(* A run uses one point.  Its use is read from the database of its sandbox: *)
(* known, known in part, or not at all.  The cap is one goal's, so that the *)
(* goal keeps its name here.                                                *)
(***************************************************************************)
EXTENDS ReviewRun

CONSTANT Cap   \* the contract's budget-ref, in points of review

ASSUME CapAssumption == Cap \in Nat

VARIABLES
  use,       \* metering of the runs under way and recorded
  charged,   \* ids with a review entry in the ledger
  acks,      \* metering-ack.json: for every slug, when --ack-metering was given
  burnt      \* history: sessions started, by slug

use_vars == <<use, charged, acks, burnt>>
all_budget == <<run_vars, use_vars>>

Metering == {"metered", "partial", "unknown", "unspawned"}

BudgetTypeOK ==
  /\ ReviewTypeOK
  /\ use \in [Id -> Metering] /\ charged \subseteq Id
  /\ acks \in [Slugs -> Times] /\ burnt \in [Slugs -> 0..MaxRuns]

BudgetInit ==
  /\ ReviewInit
  /\ use = [i \in Id |-> "unspawned"] /\ charged = {}
  /\ acks = [s \in Slugs |-> 0] /\ burnt = [s \in Slugs |-> 0]

-----------------------------------------------------------------------------
Used(slug) == Cardinality({i \in charged : i.slug = slug})

(* A run whose use is not fully known stops every later start, until it is  *)
(* acknowledged; so does one that failed before it used anything.           *)
NotKnown(run) == use[run.id] \in {"partial", "unknown"} /\ run.at > acks[run.id.slug]

Gaps(slug, attempt) ==
  {n \in runs : n.id.slug = slug /\ n.id.attempt <= attempt /\ NotKnown(n)}

(* Mutant: a run more when the cap is just reached. *)
PreflightLast(slug, attempt) == Used(slug) <= Cap /\ Gaps(slug, attempt) = {}

Preflight(slug, attempt) == Used(slug) < Cap /\ Gaps(slug, attempt) = {}

(* An acknowledgement that waves nothing through is left out. *)
AckMetering ==
  /\ Unlocked
  /\ \/ Gaps(slot.slug, slot.attempt) # {}
     \/ \E r \in Reviewers : /\ rv[r].pc \in {"ended", "interrupted", "saved"}
                             /\ rv[r].run.id.slug = slot.slug /\ NotKnown(rv[r].run)
  /\ acks' = [acks EXCEPT ![slot.slug] = clock]
  /\ UNCHANGED <<run_vars, use, charged, burnt>>

Start(r) ==
  /\ Preflight(slot.slug, slot.attempt)
  /\ \E duty \in Duties : Admit(r, duty, "review")
  /\ UNCHANGED use_vars

Spawn(r, leaks) ==
  /\ Prepare(r, leaks)
  /\ LET id == rv'[r].run.id IN
       /\ use' = IF leaks THEN use ELSE [use EXCEPT ![id] = "unknown"]
       /\ burnt' = IF leaks THEN burnt ELSE [burnt EXCEPT ![id.slug] = @ + 1]
  /\ UNCHANGED <<charged, acks>>

(* A run whose use cannot be read at all is no review. *)
End(r, metering) ==
  /\ \E sound \in Soundness : Judge(r, sound /\ metering # "unknown", {})
  /\ use' = [use EXCEPT ![rv[r].run.id] = metering]
  /\ UNCHANGED <<charged, acks, burnt>>

(* Mutant: only what is wholly known is charged. *)
ChargeKnown(r) ==
  /\ Leave(r)
  /\ LET id == rv[r].run.id IN
       charged' = IF use[id] = "metered" THEN charged \cup {id} ELSE charged
  /\ UNCHANGED <<use, acks, burnt>>

(* Known points are charged, also those of a run that is partly unknown. *)
Charge(r) ==
  /\ Leave(r)
  /\ LET id == rv[r].run.id IN
       charged' = IF use[id] \in {"metered", "partial"} THEN charged \cup {id} ELSE charged
  /\ UNCHANGED <<use, acks, burnt>>

(* A run recorded as interrupted says nothing of its use. *)
Refused(r) ==
  /\ LockRefused(r) \/ PrepareFailed(r)
  /\ use' = IF rv'[r].pc = "interrupted" THEN [use EXCEPT ![rv[r].run.id] = "unknown"] ELSE use
  /\ UNCHANGED <<charged, acks, burnt>>

-----------------------------------------------------------------------------
ReviewerStep(r) ==
  \/ Start(r) \/ Charge(r) \/ Refused(r) \/ \E leaks \in BOOLEAN : Spawn(r, leaks)
  \/ \E metering \in {"metered", "partial", "unknown"} : End(r, metering)
  \/ /\ Pack(r) \/ Wire(r) \/ SaveRun(r) \/ PrepareRefused(r) \/ ReviewerKilled(r)
     /\ UNCHANGED use_vars

BudgetNext ==
  \/ \E r \in Reviewers : ReviewerStep(r)
  \/ AckMetering
  \/ (Reattempt \/ Commit) /\ UNCHANGED use_vars

BudgetSpec == BudgetInit /\ [][BudgetNext]_all_budget

-----------------------------------------------------------------------------
(* Reviews are bought at most Cap points deep, plus what was under way when *)
(* the cap was reached, what the user waved through unread, and what a kill *)
(* or a busy lock kept out of the books (preflight reads the ledger before  *)
(* any of them is charged).                                                 *)
WavedThrough(slug) ==
  {n \in runs : n.id.slug = slug /\ use[n.id] = "unknown" /\ n.at <= acks[slug]}

ReviewsBounded ==
  \A s \in Slugs :
    burnt[s] <= Cap + (Cardinality(Reviewers) - 1) + Cardinality(WavedThrough(s)) + faults

=============================================================================
