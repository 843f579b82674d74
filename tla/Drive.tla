------------------------------- MODULE Drive -------------------------------
(***************************************************************************)
(* lzy loop drive (src/core/drive.js): the unattended loop that sends       *)
(* headless sessions at the goal, one after another in the host tree        *)
(* (runDrive) or in waves of several workers, each in a sibling worktree    *)
(* with a branch of its own, merged into the host after the wave            *)
(* (runDriveWorkers).  The lease, its fences and the budget arithmetic are  *)
(* RuntimeLease's; here a run holds its lease or has lost it, and a budget  *)
(* either lasts or is over.                                                 *)
(*                                                                         *)
(* A commit is <<run, worker, step>>: the work of a step, by whom.  What    *)
(* sessions do is free within their prompt: claim a step, write, commit,    *)
(* mark the step done, stop at any point, well or badly.                    *)
(***************************************************************************)
EXTENDS Integers, Sequences, FiniteSets, FiniteSetsExt, SequencesExt

CONSTANTS
  Plan,        \* the steps of a goal, in plan order
  Deps,        \* the steps each step waits for
  Workers,     \* workers of a run with --workers
  Solo,        \* whether runs without --workers are made as well
  MaxSegments, \* segments or waves of a run
  StuckLimit,  \* STUCK_STREAK_LIMIT
  MaxRuns,     \* bound: runs of the drive
  MaxFaults,   \* bound: kills, lost leases and failed commands together
  MaxGoals     \* bound: goals registered

Steps == ToSet(Plan)
Team == 1..Workers
Trees == (1..MaxRuns) \X Team        \* worktree w<i> of run k
Commits == (1..MaxRuns) \X (0..Workers) \X Steps

ASSUME PlanAssumption ==
  /\ Plan \in Seq(Steps) /\ Deps \in [Steps -> SUBSET Steps]
  /\ Workers \in Nat \ {0, 1} /\ Solo \in BOOLEAN
ASSUME BoundsAssumption ==
  /\ MaxSegments \in Nat \ {0} /\ StuckLimit \in Nat \ {0} /\ MaxRuns \in Nat \ {0}
  /\ MaxFaults \in Nat /\ MaxGoals \in Nat \ {0}

VARIABLES
  goal,     \* goal.json: which goal, its status, steps done, claims, subjects, marker
  host,     \* commits reachable from the host's HEAD
  dirty,    \* trees with uncommitted work, {} \subseteq {Host} \cup Trees
  tree,     \* the worktrees and branches of the runs
  d,        \* the process of the latest run
  idle,     \* history: segments begun since a commit or a step done
  credit,   \* history: by which run and worker each step was marked done
  faults    \* history: faults so far

vars == <<goal, host, dirty, tree, d, idle, credit, faults>>

Host == <<0, 0>>
Nobody == <<0, 0>>
Stages == {"idle", "acquire", "assemble", "subject", "gate", "running", "settled",
           "merge", "spend", "release", "judge", "cleanup", "end"}
Outcomes == {"none", "ok", "stuck", "bad", "conflict", "taken"}
Clean == {"ok", "stuck"}

TypeOK ==
  /\ goal \in [id : 1..MaxGoals, status : {"executing", "done"}, done : SUBSET Steps,
               claim : [Steps -> 0..MaxRuns], subjects : SUBSET Trees]
  /\ host \subseteq Commits
  /\ dirty \subseteq Trees \cup {Host}
  /\ tree \in [Trees -> [on : BOOLEAN, branch : BOOLEAN, commits : SUBSET Commits]]
  /\ d.run \in 0..MaxRuns /\ d.pc \in Stages /\ d.out \in Outcomes
  /\ d.n \in 0..Workers /\ d.at \in 1..Workers + 1 /\ d.wave \in 0..MaxSegments
  /\ d.ready \subseteq Team
  /\ DOMAIN d.group = Team /\ \A i \in Team : d.group[i] \subseteq Steps
  /\ d.sess \in [Team -> {"off", "on", "ok", "bad"}]
  /\ idle \in Nat /\ faults \in 0..MaxFaults
  /\ credit \in [Steps -> (0..MaxRuns) \X (0..Workers)]
  /\ d.renewed \in BOOLEAN

NoTree == [on |-> FALSE, branch |-> FALSE, commits |-> {}]
FreshGoal(k) == [id |-> k, status |-> "executing", done |-> {},
                 claim |-> [s \in Steps |-> 0], subjects |-> {}]

(* progressSignature: steps done and the head trees of the host and the    *)
(* goal's subjects (the other three sources do not move here).             *)
Heads(subjects) ==
  <<host, [t \in subjects |-> IF tree[t].on THEN tree[t].commits ELSE {<<0, 0>>}]>>
Signature(g) == <<Cardinality(g.done), Heads(g.subjects)>>

(* The process of a run, with nothing read or begun; renewed is history:    *)
(* the goal was registered again under its name meanwhile.                  *)
Process(run, n, id, stage) ==
  [run |-> run, n |-> n, id |-> id, pc |-> stage, lease |-> FALSE, wave |-> 0,
   at |-> 1, ready |-> {}, group |-> [i \in Team |-> {}],
   sess |-> [i \in Team |-> "off"], release |-> {}, streak |-> 0,
   seen |-> FreshGoal(1), sig |-> <<>>, out |-> "none", renewed |-> FALSE]

Init ==
  /\ goal = FreshGoal(1)
  /\ host = {}
  /\ dirty = {}
  /\ tree = [t \in Trees |-> NoTree]
  /\ d = Process(0, 0, 0, "idle")
  /\ idle = 0
  /\ credit = [s \in Steps |-> Nobody]
  /\ faults = 0

Fast == d.n > 1
Tree(i) == <<d.run, i>>
Author(i) == IF Fast THEN i ELSE 0

(* guardFence of a command the run or its sessions give: the lease is still *)
(* the run's and bound to the name of the goal in the slot.                 *)
Fenced == d.lease /\ goal.id = d.id

Fault == faults < MaxFaults /\ faults' = faults + 1

-----------------------------------------------------------------------------
(* Ending: windDown, the clean-up inside the lease, the release. *)

(* windDown(W) re-reads the goal and hands it off when it is executing (the *)
(* marker is StopHook's); what follows depends on the kind of outcome.      *)
Stop(kind) ==
  d' = [Process(d.run, d.n, d.id, IF kind \in Clean /\ Fast THEN "cleanup" ELSE "end")
        EXCEPT !.out = kind, !.lease = d.lease, !.ready = d.ready, !.renewed = d.renewed]

(* The clean-up leaves a worktree with uncommitted work, or one git cannot  *)
(* judge, where it is.                                                      *)
Removable(t) == t \notin dirty

(* git branch -d: only a branch the host contains. *)
Unmerged(t) == ~(tree[t].commits \subseteq host)

Dropped(t) == [on |-> FALSE, branch |-> tree[t].branch /\ Unmerged(t),
               commits |-> tree[t].commits]

(* cleanupPhase, one worker: its subject is taken out of an executing goal  *)
(* (a fenced command that may fail), then its tree and branch go.           *)
Cleanup ==
  /\ d.pc = "cleanup"
  /\ d.at \in d.ready
  /\ LET t == Tree(d.at) IN
     /\ \/ /\ goal.status = "executing" /\ Fenced
           /\ goal' = [goal EXCEPT !.subjects = @ \ {t}]
           /\ UNCHANGED faults
        \/ /\ ~(goal.status = "executing" /\ Fenced)
           /\ UNCHANGED <<goal, faults>>
        \/ goal.status = "executing" /\ Fenced /\ Fault /\ UNCHANGED goal
     /\ tree' = IF Removable(t) THEN [tree EXCEPT ![t] = Dropped(t)] ELSE tree
  /\ dirty' = {t \in dirty : t = Host \/ tree'[t].on}
  /\ d' = [d EXCEPT !.at = d.at + 1]
  /\ UNCHANGED <<host, idle, credit>>

CleanedUp ==
  /\ d.pc = "cleanup"
  /\ d.at \notin d.ready
  /\ d' = [d EXCEPT !.pc = "end"]
  /\ UNCHANGED <<goal, host, dirty, tree, idle, credit, faults>>

(* finally: the lease is released and the process returns its outcome. *)
Return ==
  /\ d.pc = "end"
  /\ d' = [d EXCEPT !.pc = "idle", !.lease = FALSE, !.ready = {}]
  /\ UNCHANGED <<goal, host, dirty, tree, idle, credit, faults>>

-----------------------------------------------------------------------------
(* Starting. *)

(* The goal is read, and checked, before the lease is taken. *)
Start(n) ==
  /\ d.pc = "idle"
  /\ d.run < MaxRuns
  /\ goal.status = "executing"
  /\ n = Workers \/ (Solo /\ n = 1)
  /\ d' = [Process(d.run + 1, n, goal.id, "acquire") EXCEPT !.seen = goal]
  /\ idle' = 0
  /\ UNCHANGED <<goal, host, dirty, tree, credit, faults>>

(* Mutant: the sentinel alone decides. *)
Stale_any(k) == TRUE

(* reclaim: the worktrees of an earlier run go when none of them has         *)
(* uncommitted work.                                                        *)
Stale(k) == \A t \in dirty : t[1] # k

Reclaimed(t) == IF t[1] # d.run /\ tree[t].on /\ Stale(t[1])
                THEN [tree[t] EXCEPT !.on = FALSE] ELSE tree[t]
(* git branch -d on every merged branch no worktree holds. *)
Pruned(t) == [Reclaimed(t) EXCEPT !.branch = @ /\ (Reclaimed(t).on \/ Unmerged(t))]

(* acquireLease and initBudget under one lock; with --workers the stale run *)
(* directories are reclaimed then.  Without, the first signature is taken.  *)
Acquire ==
  /\ d.pc = "acquire"
  /\ tree' = IF Fast THEN [t \in Trees |-> Pruned(t)] ELSE tree
  /\ dirty' = {t \in dirty : t = Host \/ tree'[t].on}
  /\ d' = [d EXCEPT !.lease = TRUE, !.pc = IF Fast THEN "assemble" ELSE "gate",
                    !.wave = 1, !.sig = IF Fast THEN <<>> ELSE Signature(d.seen)]
  /\ UNCHANGED <<goal, host, idle, credit, faults>>

(* git worktree add -b. *)
AddTree ==
  /\ d.pc = "assemble"
  /\ d.at \in Team
  /\ tree' = [tree EXCEPT ![Tree(d.at)] = [on |-> TRUE, branch |-> TRUE, commits |-> host]]
  /\ d' = [d EXCEPT !.pc = "subject"]
  /\ UNCHANGED <<goal, host, dirty, idle, credit, faults>>

(* lzy loop subject add, a fenced command of an executing goal. *)
AddSubject ==
  /\ d.pc = "subject"
  /\ Fenced /\ goal.status = "executing"
  /\ goal' = [goal EXCEPT !.subjects = @ \cup {Tree(d.at)}]
  /\ d' = [d EXCEPT !.pc = "assemble", !.ready = @ \cup {d.at}, !.at = d.at + 1]
  /\ UNCHANGED <<host, dirty, tree, idle, credit, faults>>

(* A command that fails: the workers built so far are taken down again, the *)
(* one it failed for is not among them.                                     *)
AssembleFails ==
  /\ d.pc = "subject"
  /\ \/ ~(Fenced /\ goal.status = "executing") /\ UNCHANGED faults
     \/ Fenced /\ goal.status = "executing" /\ Fault
  /\ goal' = IF Fenced /\ goal.status = "executing"
             THEN [goal EXCEPT !.subjects = @ \ {Tree(i) : i \in d.ready}] ELSE goal
  /\ tree' = [t \in Trees |-> IF t \in {Tree(i) : i \in d.ready}
                              THEN [tree[t] EXCEPT !.on = FALSE] ELSE tree[t]]
  /\ Stop("bad")
  /\ UNCHANGED <<host, dirty, idle, credit>>

(* All workers stand.  The first signature is taken of the goal as it was   *)
(* read before the lease: without the subjects this run added.              *)
Assembled ==
  /\ d.pc = "assemble"
  /\ d.at \notin Team
  /\ d' = [d EXCEPT !.pc = "gate", !.sig = Signature(d.seen)]
  /\ UNCHANGED <<goal, host, dirty, tree, idle, credit, faults>>

-----------------------------------------------------------------------------
(* A segment, or a wave. *)

(* graph.js: the steps that may be taken up, and the length of the longest  *)
(* chain each step unlocks.                                                 *)
Claimable(g) == {s \in Steps \ g.done : g.claim[s] = 0 /\ Deps[s] \subseteq g.done}
Depth[s \in Steps] == 1 + Max({0} \cup {Depth[x] : x \in {y \in Steps : s \in Deps[y]}})

Position(s) == CHOOSE k \in DOMAIN Plan : Plan[k] = s
Before(x, s) == Depth[x] > Depth[s] \/ (Depth[x] = Depth[s] /\ Position(x) < Position(s))
(* waveSplit: deepest first, dealt out in turn. *)
Share(g, i) ==
  LET pool == Claimable(g) IN
  {s \in pool : Cardinality({x \in pool : Before(x, s)}) % Workers = i - 1}

(* The gates before a segment that end the run: risk, an unreadable state,  *)
(* a failed heartbeat; or, cleanly, a high-risk step or no time left.       *)
Refuse ==
  /\ d.pc = "gate"
  /\ \/ d.lease /\ (Stop("bad") \/ Stop("ok"))
     \/ ~d.lease /\ Stop("taken")
  /\ UNCHANGED <<goal, host, dirty, tree, idle, credit, faults>>

(* With --workers the goal is looked at before a wave: replaced or done, or *)
(* all its steps done, which makes the drive finish it.                     *)
NotMine ==
  /\ d.pc = "gate" /\ d.lease /\ Fast
  /\ goal.id # d.id \/ goal.status = "done"
  /\ Stop(IF goal.id = d.id THEN "ok" ELSE "bad")
  /\ UNCHANGED <<goal, host, dirty, tree, idle, credit, faults>>

(* loop finish, as far as trees decide: host and subjects there and clean.  *)
Finishable ==
  /\ goal.status = "executing" /\ goal.done = Steps
  /\ \A t \in goal.subjects : tree[t].on
  /\ dirty \cap ({Host} \cup goal.subjects) = {}

Finish ==
  /\ d.pc = "gate" /\ d.lease /\ Fast
  /\ goal.id = d.id /\ goal.status = "executing" /\ goal.done = Steps
  /\ \/ /\ Finishable
        /\ goal' = [goal EXCEPT !.status = "done"]
        /\ Stop("ok")
     \/ Stop("bad") /\ UNCHANGED goal
  /\ UNCHANGED <<host, dirty, tree, idle, credit, faults>>

(* The sessions of the wave start; a run without workers starts its one     *)
(* session on whatever goal there is.                                       *)
Dispatch ==
  /\ d.pc = "gate" /\ d.lease
  /\ Fast => goal.id = d.id /\ goal.status = "executing" /\ goal.done # Steps
  /\ LET group == IF Fast THEN [i \in Team |-> Share(goal, i)]
                  ELSE [i \in Team |-> IF i = 1 THEN Steps ELSE {}] IN
     d' = [d EXCEPT !.pc = "running", !.group = group,
                    !.sess = [i \in Team |-> IF group[i] = {} THEN "ok" ELSE "on"]]
  /\ idle' = idle + 1
  /\ UNCHANGED <<goal, host, dirty, tree, credit, faults>>

Working(i) == d.pc = "running" /\ d.sess[i] = "on"
Place(i) == IF Fast THEN Tree(i) ELSE Host
Work(i, s) == <<d.run, Author(i), s>>
Committed(i) == IF Fast THEN tree[Tree(i)].commits ELSE host
Writable == Fenced /\ goal.status = "executing"
Holds(i, s) == s \in d.group[i] \ goal.done /\ (Fast => goal.claim[s] = d.run)

(* lzy loop claim. *)
Claim(i, s) ==
  /\ Fast /\ Working(i) /\ Writable
  /\ s \in d.group[i] \cap Claimable(goal)
  /\ goal' = [goal EXCEPT !.claim[s] = d.run]
  /\ UNCHANGED <<host, dirty, tree, d, idle, credit, faults>>

Write(i) ==
  /\ Working(i)
  /\ Place(i) \notin dirty
  /\ \E s \in Steps : Holds(i, s)
  /\ dirty' = dirty \cup {Place(i)}
  /\ UNCHANGED <<goal, host, tree, d, idle, credit, faults>>

Commit(i, s) ==
  /\ Working(i)
  /\ Place(i) \in dirty /\ s \in d.group[i]
  /\ Work(i, s) \notin Committed(i)
  /\ dirty' = dirty \ {Place(i)}
  /\ IF Fast THEN /\ tree' = [tree EXCEPT ![Tree(i)].commits = @ \cup {Work(i, s)}]
                  /\ UNCHANGED host
             ELSE host' = host \cup {Work(i, s)} /\ UNCHANGED tree
  /\ idle' = 0
  /\ UNCHANGED <<goal, d, credit, faults>>

(* lzy step done, after the commit as the prompt says. *)
StepDone(i, s) ==
  /\ Working(i) /\ Writable
  /\ s \in d.group[i] \ goal.done
  /\ Work(i, s) \in Committed(i)
  /\ goal' = [goal EXCEPT !.done = @ \cup {s}, !.claim[s] = 0]
  /\ credit' = [credit EXCEPT ![s] = <<d.run, Author(i)>>]
  /\ idle' = 0
  /\ UNCHANGED <<host, dirty, tree, d, faults>>

(* A session without workers may finish the goal; workers must not. *)
SessionFinishes ==
  /\ ~Fast /\ Working(1) /\ Fenced /\ Finishable
  /\ goal' = [goal EXCEPT !.status = "done"]
  /\ UNCHANGED <<host, dirty, tree, d, idle, credit, faults>>

SessionEnds(i) ==
  /\ Working(i)
  /\ \E r \in {"ok", "bad"} : d' = [d EXCEPT !.sess[i] = r]
  /\ UNCHANGED <<goal, host, dirty, tree, idle, credit, faults>>

-----------------------------------------------------------------------------
(* After a segment, or a wave. *)

Failed == \E i \in Team : d.sess[i] = "bad"

Settled(stage) ==
  d' = [d EXCEPT !.pc = stage, !.at = 1, !.sess = [i \in Team |-> "off"],
                 !.release = IF Fast THEN {s \in Steps \ goal.done : goal.claim[s] >= d.run}
                                     ELSE {}]

(* All sessions are back.  A failed one ends the run; with workers the goal *)
(* is read again before anything is merged.                                 *)
Settle ==
  /\ d.pc = "running"
  /\ \A i \in Team : d.sess[i] # "on"
  /\ \/ Failed /\ Stop("bad")
     \/ ~Failed /\ ~Fast /\ Settled("spend")
     \/ ~Failed /\ Fast /\ goal.id # d.id /\ Stop("bad")
     \/ ~Failed /\ Fast /\ goal.id = d.id /\ goal.status = "done" /\ Stop("ok")
     \/ ~Failed /\ Fast /\ goal.id = d.id /\ goal.status # "done" /\ Settled("merge")
  /\ UNCHANGED <<goal, host, dirty, tree, idle, credit, faults>>

(* Mutant: the last worker's branch is left out. *)
LastMerged_early == Workers - 1
LastMerged == Workers

(* git merge --no-ff of each branch that had steps, in order.  A conflict   *)
(* is undone for that branch and ends the run; what was merged stays.       *)
Merge ==
  /\ d.pc = "merge"
  /\ d.at <= LastMerged
  /\ LET new == IF d.group[d.at] = {} THEN {} ELSE tree[Tree(d.at)].commits IN
     \/ /\ host' = host \cup new
        /\ d' = [d EXCEPT !.at = d.at + 1]
     \/ ~(new \subseteq host) /\ Stop("conflict") /\ UNCHANGED host
  /\ UNCHANGED <<goal, dirty, tree, idle, credit, faults>>

Merged ==
  /\ d.pc = "merge"
  /\ d.at > LastMerged
  /\ d' = [d EXCEPT !.pc = "spend", !.at = 1, !.group = [i \in Team |-> {}]]
  /\ UNCHANGED <<goal, host, dirty, tree, idle, credit, faults>>

(* recordSpend, after the merges: BUDGET_OVER ends the run cleanly. *)
Spend ==
  /\ d.pc = "spend"
  /\ \/ Stop("ok")
     \/ d' = [d EXCEPT !.pc = IF Fast THEN "release" ELSE "judge"]
  /\ UNCHANGED <<goal, host, dirty, tree, idle, credit, faults>>

(* Claims of this run on steps that are not done are given back, one fenced *)
(* command each.                                                            *)
ReleaseClaims ==
  /\ d.pc = "release"
  /\ \/ /\ Writable
        /\ goal' = [goal EXCEPT !.claim = [s \in Steps |-> IF s \in d.release THEN 0 ELSE @[s]]]
        /\ UNCHANGED faults
     \/ ~Writable /\ UNCHANGED <<goal, faults>>
     \/ Writable /\ d.release # {} /\ Fault /\ UNCHANGED goal
  /\ d' = [d EXCEPT !.pc = "judge", !.release = {}]
  /\ UNCHANGED <<host, dirty, tree, idle, credit>>

Streak == IF Signature(goal) = d.sig THEN d.streak + 1 ELSE 0

(* The goal is read again.  A finished one ends the run well; another one   *)
(* ends a run without workers, while one with workers meets it at the next  *)
(* wave.  Then the project's checks (workers, changed trees), the streak,   *)
(* the points and the number of segments are looked at.                     *)
Judge ==
  /\ d.pc = "judge"
  /\ \/ goal.status = "done" /\ goal.id = d.id /\ Stop("ok")
     \/ goal.id # d.id /\ ~Fast /\ Stop("bad")
     \/ /\ IF goal.id = d.id THEN goal.status # "done" ELSE Fast
        /\ \/ Fast /\ Heads(goal.subjects) # d.sig[2] /\ Stop("bad")
           \/ Streak >= StuckLimit /\ Stop("stuck")
           \/ Streak < StuckLimit /\ Stop("ok")
           \/ /\ Streak < StuckLimit /\ d.wave < MaxSegments
              /\ d' = [d EXCEPT !.pc = "gate", !.wave = @ + 1, !.streak = Streak,
                                !.sig = Signature(goal)]
  /\ UNCHANGED <<goal, host, dirty, tree, idle, credit, faults>>

-----------------------------------------------------------------------------
(* The surroundings. *)

(* The process is killed with its sessions; its lease runs out. *)
Kill ==
  /\ d.pc # "idle"
  /\ Fault
  /\ d' = [Process(d.run, d.n, d.id, "idle") EXCEPT !.renewed = d.renewed]
  /\ UNCHANGED <<goal, host, dirty, tree, idle, credit>>

(* The lease runs out during a long check, or is reclaimed by force. *)
LoseLease ==
  /\ d.lease
  /\ Fault
  /\ d' = [d EXCEPT !.lease = FALSE]
  /\ UNCHANGED <<goal, host, dirty, tree, idle, credit>>

(* A person resets the loop and registers the next goal. *)
Replace ==
  /\ goal.id < MaxGoals
  /\ goal' = FreshGoal(goal.id + 1)
  /\ credit' = [s \in Steps |-> Nobody]
  /\ UNCHANGED <<host, dirty, tree, d, idle, faults>>

(* A person resets the loop and registers the goal again under its name:    *)
(* the lease and every comparison of names still pass, so the run goes on   *)
(* with the new goal.  Its subjects are gone; the signature need not tell,  *)
(* for the stub a reset leaves has the name's file.                         *)
Renew ==
  /\ ~d.renewed
  /\ goal' = FreshGoal(goal.id)
  /\ credit' = [s \in Steps |-> Nobody]
  /\ d' = [d EXCEPT !.renewed = TRUE]
  /\ UNCHANGED <<host, dirty, tree, idle, faults>>

Session(i) ==
  \/ \E s \in Steps : Claim(i, s) \/ Commit(i, s) \/ StepDone(i, s)
  \/ Write(i) \/ SessionEnds(i)

Own ==
  \/ Acquire \/ AddTree \/ AddSubject \/ AssembleFails \/ Assembled
  \/ Refuse \/ NotMine \/ Finish \/ Dispatch \/ Settle \/ Merge \/ Merged
  \/ Spend \/ ReleaseClaims \/ Judge \/ Cleanup \/ CleanedUp \/ Return

Next ==
  \/ Start(1) \/ Start(Workers)
  \/ Own
  \/ \E i \in Team : Session(i)
  \/ SessionFinishes
  \/ Kill \/ LoseLease \/ Replace \/ Renew

Spec == Init /\ [][Next]_vars

-----------------------------------------------------------------------------
(* What must hold. *)

(* Work is never lost: a commit of a session stays reachable from the host  *)
(* or from a branch, and uncommitted work stays in a worktree that exists,  *)
(* through failed waves, conflicts, clean-up and the next run's reclaim     *)
(* (ADR-0026: what is not committed is never deleted).                      *)
WorkKept ==
  [][/\ host \subseteq host'
     /\ \A t \in Trees :
          /\ tree[t].branch => tree'[t].branch \/ tree[t].commits \subseteq host'
          /\ t \in dirty /\ d.pc # "running" => t \in dirty' /\ tree'[t].on]_vars

(* A goal the drive finishes has in the host the work of every step the     *)
(* finishing run did: no worker's branch was left out, also when the goal   *)
(* is another registration of the name than the one the run was started on. *)
FinishIsWhole ==
  goal.status = "done" =>
    \A s \in Steps : credit[s][1] = d.run => <<d.run, credit[s][2], s>> \in host

(* A run that ends as stuck had StuckLimit segments in a row without a      *)
(* commit or a step done, unless the goal was registered again meanwhile:   *)
(* its count of steps done then starts anew, and may meet an older one.     *)
StuckIsIdle == d.out = "stuck" /\ ~d.renewed => idle >= StuckLimit

(* What a run leaves behind is what it ends with. *)
EndIsTrue == FinishIsWhole /\ StuckIsIdle

(* What the ADR says of removing worktrees: the subject goes first, because *)
(* a subject without its tree makes every later finish of the goal fail.    *)
NoDangling == goal.status = "executing" => \A t \in goal.subjects : tree[t].on
=============================================================================
