---------------------------- MODULE RuntimeLease ----------------------------
(***************************************************************************)
(* The runtime ledger .lazyzcode/runtime.json (src/core/runtime.js): one    *)
(* active lease with a fence number, the counter fences are issued from,    *)
(* and the budget of the current run; with the runs that use it: the        *)
(* segment loop of lzy loop drive (src/core/drive.js) and leases taken by   *)
(* hand (lzy loop lease).  Segment workers carry their run's fence in the   *)
(* environment, and every write of theirs to the goal passes guardFence.    *)
(*                                                                         *)
(* Every ledger operation runs inside withLock, so it is one step here;     *)
(* LoopLock models the lock itself.  A lease carries an "expired" flag      *)
(* that the clock sets (Expire) instead of a deadline.  The two budget      *)
(* dimensions (wall clock, points) have the same rule and are one here.     *)
(***************************************************************************)
EXTENDS Integers, FiniteSets

CONSTANTS
  Drives,       \* runs of lzy loop drive
  Manual,       \* runs that take their lease with lzy loop lease acquire
  Slugs,        \* goal names
  Cap,          \* the budget of a run
  MaxSpend,     \* bound: what one segment costs at most
  MaxWrites,    \* bound: guarded writes per run
  MaxGoals,     \* bound: goals registered
  MaxDeletes,   \* bound: times runtime.json is deleted by hand
  Minute,       \* floor(Date.now() / 60000) when the counter is rebased
  None

Runs == Drives \cup Manual

ASSUME RunsAssumption == IsFiniteSet(Runs) /\ Drives \cap Manual = {}
ASSUME BudgetAssumption == Cap \in Nat \ {0} /\ MaxSpend \in Nat \ {0}
ASSUME BoundsAssumption ==
  /\ MaxWrites \in Nat /\ MaxGoals \in Nat /\ MaxDeletes \in Nat
  /\ Minute \in Nat \ {0}

VARIABLES
  ledger,     \* runtime.json: a record of Ledgers, or None when absent
  goal,       \* slug of the registered goal, or None
  mark,       \* fence of the segment marker segment.json, or 0 when absent
  pc,         \* where each run stands
  fence,      \* the fence each run's processes declare, 0 before it has one
  bound,      \* the slug each run read before it took its lease
  written,    \* guarded writes of each run that were accepted
  turn,       \* history: the how-manieth lease each run took
  acquired,   \* history: leases taken
  opener,     \* history: the run that last opened the budget
  stray,      \* history: spends of each run into a budget another opened, up to 2
  goals,      \* history: goals registered
  deletes     \* history: hand deletions of runtime.json

vars == <<ledger, goal, mark, pc, fence, bound, written, turn, acquired,
          opener, stray, goals, deletes>>

Leases == [fence : Nat, slug : Slugs \cup {None}, host : Runs, expired : BOOLEAN]
Ledgers == [counter : Nat, lease : Leases \cup {None}, spent : Nat \cup {-1}]
Stages == {"idle", "starting", "gate", "segment", "winding", "manual", "ended", "dead"}

ASSUME NoneAssumption == None \notin Leases \cup Ledgers \cup Slugs \cup Runs

(* freshState(): what an absent file reads as; spent = -1 is "no budget".   *)
FreshState == [counter |-> 0, lease |-> None, spent |-> -1]
Loaded == IF ledger = None THEN FreshState ELSE ledger

LeaseActive(l) == l # None /\ ~l.expired

Init ==
  /\ ledger = None
  /\ goal = None
  /\ mark = 0
  /\ pc = [r \in Runs |-> "idle"]
  /\ fence = [r \in Runs |-> 0]
  /\ bound = [r \in Runs |-> None]
  /\ written = [r \in Runs |-> 0]
  /\ turn = [r \in Runs |-> 0]
  /\ acquired = 0
  /\ opener = None
  /\ stray = [r \in Runs |-> 0]
  /\ goals = 0
  /\ deletes = 0

Goto(r, stage) == pc' = [pc EXCEPT ![r] = stage]

-----------------------------------------------------------------------------
(* The goal, as far as leases depend on it. *)

(* registerGoal: only over an absent goal. *)
Register(s) ==
  /\ goal = None
  /\ goals < MaxGoals
  /\ goal' = s
  /\ goals' = goals + 1
  /\ UNCHANGED <<ledger, mark, pc, fence, bound, written, turn, acquired,
                 opener, stray, deletes>>

(* resetLoop: the goal and its residue go, runtime.json stays. *)
Reset ==
  /\ goal # None
  /\ goal' = None
  /\ mark' = 0
  /\ UNCHANGED <<ledger, pc, fence, bound, written, turn, acquired, opener,
                 stray, goals, deletes>>

(* The recovery the error texts document: delete runtime.json by hand. *)
DeleteLedger ==
  /\ ledger # None
  /\ deletes < MaxDeletes
  /\ ledger' = None
  /\ deletes' = deletes + 1
  /\ UNCHANGED <<goal, mark, pc, fence, bound, written, turn, acquired, opener,
                 stray, goals>>

-----------------------------------------------------------------------------
(* Taking and losing the lease. *)

(* Mutant: fences count down. *)
NextFence_down == Loaded.counter - 1

(* Mutant: the counter is lost with a released lease. *)
NextFence_afterRelease ==
  IF Loaded.lease = None THEN 1 ELSE Loaded.counter + 1

(* Mutant: the counter is not rebased over a marker that was left behind. *)
NextFence_noRebase == Loaded.counter + 1

(* The fence acquireLease issues: the counter plus one, over a counter      *)
(* rebased to the clock when it restarts from 0 with a marker left behind.  *)
NextFence ==
  (IF Loaded.counter = 0 /\ mark # 0 THEN Minute ELSE Loaded.counter) + 1

(* acquireLease: refused while a lease is active. *)
Acquire(r, slug, spent) ==
  /\ ~LeaseActive(Loaded.lease)
  /\ ledger' = [counter |-> NextFence,
                lease   |-> [fence |-> NextFence, slug |-> slug, host |-> r,
                             expired |-> FALSE],
                spent   |-> spent]
  /\ fence' = [fence EXCEPT ![r] = NextFence]
  /\ acquired' = acquired + 1
  /\ turn' = [turn EXCEPT ![r] = acquired + 1]

(* drive reads the goal before it takes the lock. *)
StartDrive(r) ==
  /\ pc[r] = "idle"
  /\ r \in Drives
  /\ goal # None
  /\ bound' = [bound EXCEPT ![r] = goal]
  /\ Goto(r, "starting")
  /\ UNCHANGED <<ledger, goal, mark, fence, written, turn, acquired, opener,
                 stray, goals, deletes>>

(* Mutant: a budget that exists is not opened again for the new run. *)
OpenedBudget_kept == IF Loaded.spent = -1 THEN 0 ELSE Loaded.spent

OpenedBudget == 0

(* Lease and budget of the run, in one critical section. *)
AcquireDrive(r) ==
  /\ pc[r] = "starting"
  /\ Acquire(r, bound[r], OpenedBudget)
  /\ opener' = r
  /\ Goto(r, "gate")
  /\ UNCHANGED <<goal, mark, bound, written, stray, goals, deletes>>

(* A lease is active: drive fails and has nothing to release. *)
RefuseDrive(r) ==
  /\ pc[r] = "starting"
  /\ LeaseActive(Loaded.lease)
  /\ Goto(r, "ended")
  /\ UNCHANGED <<ledger, goal, mark, fence, bound, written, turn, acquired,
                 opener, stray, goals, deletes>>

(* lzy loop lease acquire: bound to no goal, and its process is gone when   *)
(* it returns.                                                              *)
AcquireManual(r) ==
  /\ pc[r] = "idle"
  /\ r \in Manual
  /\ goal # None
  /\ Acquire(r, None, Loaded.spent)
  /\ Goto(r, "manual")
  /\ UNCHANGED <<goal, mark, bound, written, opener, stray, goals, deletes>>

(* The lease's time is up with no heartbeat. *)
Expire ==
  /\ LeaseActive(Loaded.lease)
  /\ ledger' = [ledger EXCEPT !.lease.expired = TRUE]
  /\ UNCHANGED <<goal, mark, pc, fence, bound, written, turn, acquired,
                 opener, stray, goals, deletes>>

HostGone(r) == r \in Manual \/ pc[r] \in {"ended", "dead"}

(* reclaimLease: without --force only when the host process is gone. *)
Reclaim(force) ==
  /\ LeaseActive(Loaded.lease)
  /\ force \/ HostGone(ledger.lease.host)
  /\ ledger' = [ledger EXCEPT !.lease = None]
  /\ UNCHANGED <<goal, mark, pc, fence, bound, written, turn, acquired,
                 opener, stray, goals, deletes>>

(* SIGKILL of the drive process; its workers may live on. *)
Kill(r) ==
  /\ pc[r] \in {"gate", "segment", "winding"}
  /\ Goto(r, "dead")
  /\ UNCHANGED <<ledger, goal, mark, fence, bound, written, turn, acquired,
                 opener, stray, goals, deletes>>

-----------------------------------------------------------------------------
(* The segment loop. *)

(* Mutant: any active lease will do for a heartbeat. *)
LeaseHeld_anyFence(r) == LeaseActive(Loaded.lease)

LeaseHeld(r) == LeaseActive(Loaded.lease) /\ ledger.lease.fence = fence[r]

(* heartbeatLease at the head of a segment; a refusal is LEASE_TAKEN and    *)
(* ends the loop.                                                          *)
Heartbeat(r) ==
  /\ pc[r] = "gate"
  /\ Goto(r, IF LeaseHeld(r) THEN "segment" ELSE "winding")
  /\ UNCHANGED <<ledger, goal, mark, fence, bound, written, turn, acquired,
                 opener, stray, goals, deletes>>

(* BUDGET_OVER winds the loop down; a spend within the cap goes on.         *)
AfterSpend(total) == IF total > Cap THEN "winding" ELSE "gate"

(* recordSpend at the end of a segment.  It asks for no fence: a budget     *)
(* that another run opened takes the spend too.  Without a budget it throws *)
(* and the loop ends.                                                       *)
Spend(r, n) ==
  /\ pc[r] = "segment"
  /\ IF Loaded.spent = -1
     THEN Goto(r, "winding") /\ UNCHANGED <<ledger, stray>>
     ELSE /\ ledger' = [ledger EXCEPT !.spent = @ + n]
          /\ stray' = IF opener = r \/ stray[r] = 2
                      THEN stray ELSE [stray EXCEPT ![r] = @ + 1]
          /\ Goto(r, AfterSpend(Loaded.spent + n))
  /\ UNCHANGED <<goal, mark, fence, bound, written, turn, acquired, opener,
                 goals, deletes>>

(* The loop stops for another reason: done, no progress, segments used up,  *)
(* a failed segment.                                                        *)
WindDown(r) ==
  /\ pc[r] \in {"gate", "segment"}
  /\ Goto(r, "winding")
  /\ UNCHANGED <<ledger, goal, mark, fence, bound, written, turn, acquired,
                 opener, stray, goals, deletes>>

(* releaseLease, in the finally block of drive or by hand (which needs a     *)
(* goal); a lease that is not ours is left.                                 *)
Release(r) ==
  /\ pc[r] = "winding" \/ (pc[r] = "manual" /\ goal # None)
  /\ ledger' = IF LeaseHeld(r) THEN [ledger EXCEPT !.lease = None] ELSE ledger
  /\ Goto(r, "ended")
  /\ UNCHANGED <<goal, mark, fence, bound, written, turn, acquired, opener,
                 stray, goals, deletes>>

(* Mutant: the guard looks at the lease but not at the goal it is bound to. *)
FenceAccepted_anyGoal(r) == LeaseHeld(r)

(* assertFenceIfPresent with the slug of the goal on disk.                  *)
FenceAccepted(r) ==
  /\ LeaseHeld(r)
  /\ ledger.lease.slug # None => ledger.lease.slug = goal

(* A write to the goal by a process that declares r's fence: a worker of    *)
(* its segments, perhaps one that outlived the drive process.  In the       *)
(* one-step mode a finished step leaves the segment marker.                 *)
GuardedWrite(r, leavesMark) ==
  /\ fence[r] # 0
  /\ goal # None
  /\ written[r] < MaxWrites
  /\ FenceAccepted(r)
  /\ written' = [written EXCEPT ![r] = @ + 1]
  /\ mark' = IF leavesMark THEN fence[r] ELSE mark
  /\ UNCHANGED <<ledger, goal, pc, fence, bound, turn, acquired, opener, stray,
                 goals, deletes>>

RunStep(r) ==
  \/ StartDrive(r) \/ AcquireDrive(r) \/ RefuseDrive(r) \/ AcquireManual(r)
  \/ Kill(r) \/ Heartbeat(r) \/ WindDown(r) \/ Release(r)
  \/ \E n \in 1..MaxSpend : Spend(r, n)
  \/ \E leavesMark \in BOOLEAN : GuardedWrite(r, leavesMark)

Next ==
  \/ \E r \in Runs : RunStep(r)
  \/ \E s \in Slugs : Register(s)
  \/ Reset \/ DeleteLedger \/ Expire
  \/ \E force \in BOOLEAN : Reclaim(force)

Spec == Init /\ [][Next]_vars

-----------------------------------------------------------------------------
(* The state components keep their shapes. *)
TypeOK ==
  /\ ledger \in Ledgers \cup {None}
  /\ goal \in Slugs \cup {None}
  /\ mark \in Nat
  /\ pc \in [Runs -> Stages]
  /\ fence \in [Runs -> Nat]
  /\ bound \in [Runs -> Slugs \cup {None}]
  /\ written \in [Runs -> 0..MaxWrites]
  /\ turn \in [Runs -> Nat]
  /\ acquired \in Nat
  /\ opener \in Runs \cup {None}
  /\ stray \in [Runs -> 0..2]
  /\ goals \in 0..MaxGoals
  /\ deletes \in 0..MaxDeletes

(* A fence never names two runs (runtime.js: the counter only goes up).     *)
FencesUnique ==
  \A r, s \in Runs : fence[r] # 0 /\ fence[r] = fence[s] => r = s

(* Writes are accepted from one run at a time: never from a worker of a run *)
(* that was taken over beside those of its successor.                      *)
CanWrite(r) == fence[r] # 0 /\ goal # None /\ FenceAccepted(r)
OneWriter == \A r, s \in Runs : CanWrite(r) /\ CanWrite(s) => r = s

(* The same, as long as nobody deleted the ledger. *)
OneWriterWhileKept == deletes = 0 => FencesUnique /\ OneWriter

(* No zombie write: a guarded write is accepted only from the run that took *)
(* its lease last, so never from workers of a run that was taken over.      *)
WritesFenced ==
  [][\A r \in Runs :
       written'[r] # written[r] /\ deletes = 0 => turn[r] = acquired]_vars

(* A drive's workers write only to the goal the drive was started for: not  *)
(* to one registered under another name after a reset.                      *)
WritesStayOnGoal ==
  [][\A r \in Drives : written'[r] # written[r] => goal = bound[r] \/ deletes # 0]_vars

(* recordSpend asks for no fence, but a run that lost its lease charges the *)
(* budget of its successor once at most: the next heartbeat stops it.       *)
StraySpendOnce == deletes = 0 => \A r \in Runs : stray[r] <= 1

(* The overrun of a budget stays within one segment of the run itself and   *)
(* one of each run that was taken over.                                     *)
OverrunBounded ==
  (ledger # None /\ deletes = 0) =>
    ledger.spent <= Cap + MaxSpend * (1 + Cardinality({r \in Runs : stray[r] > 0}))
=============================================================================
