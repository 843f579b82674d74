# Verification of the lazyzcode loop

lazyzcode is a plugin and a command line (`lzy`) that make an AI coding engine
work on a *goal*: register it, adopt a plan, work its steps, finish it on
recorded evidence, deliver it. There is no server and no daemon. The system is a
set of short processes (commands, hooks the engine starts, an unattended drive,
a queue dispatcher) that share the files below `.lazyzcode/`, may run at the same
time, and may be killed between any two writes. What it promises therefore
depends on order: who writes which file when, what was read before and used
after, and what a process that died leaves behind. That is what is modelled here.

Paths are relative to the repository (`core/loop.js` is `src/core/loop.js` in
`PROJECT.json`, whose `map` names the source lines of every definition).

## Inventory

| Component | State | Operations | Interacts through | Hard parts | Correct when |
|---|---|---|---|---|---|
| Loop lock, `core/loop.js` `withLock` | `.lazyzcode/loop/.lock/` with `owner.json` | take, wait, remove a stale lock, release | every command that writes a loop file | two waiters, killed holders, age by file time | the section is exclusive; no acknowledged change is lost; an orphan is taken down |
| Goal loop, `core/loop.js` | `goal.json` | register, review, adopt (again), start, step done, evidence, finish, abandon, reset, handoff | lock, DAG, lineage, attestations, git | several files per command, a kill in between, commits during finish | `done` only on evidence of this attempt and plan, attested on disk |
| Invalidation DAG, `core/dag.js`, `core/attest.js` | `dag.json`, across resets | add a node, select the anchor, find the comparator | called by the goal loop | generations, attempts and goals of one name | nothing old proves anything new |
| Attempt lineage, `core/attempt.js` | `attempt.json`, across resets | bind, supersede, complete, abandon | called by the goal loop | written before the goal | one active attempt; a closed one stays closed |
| Runtime ledger, `core/runtime.js` | `runtime.json`: fence counter, lease, budget | acquire, heartbeat, release, reclaim, restart, spend | drive, queue, `guardFence` in every goal write | expiry, zombies, hand deletion | one writer; bounded overrun |
| Drive, `core/drive.js`, `core/progress.js` | `segment.json`, worktrees and branches, in memory | run segments, gates between them, wind down, parallel workers | runtime ledger, headless sessions, handoff | reads before the lease, two strikes, killed segments | ends with what it says; no work is lost |
| Stop hook, `plugin/hooks/stop.js`, `hook-lib.js`, claims in `trigger.js` | `sessions/<id>.json` and its lock, `handoff.json` | pull back, let go, consume a handoff, claim, stand down | reads `goal.json` without the loop lock | concurrent hooks, a lock that gives up, resets in between | bounded pull-backs; one marker releases one stop |
| Delivery, `core/delivery.js` | `delivery/intents.json` | act and readback of B (push, request, merge) and C (verify pages) | git, gh, curl; authorizations; gate; queue | lost answers, late merges, other users | nothing unchecked is merged; one act at a time; an item is completed for its own delivery |
| Queue, `core/queue.js`, `core/statedb.js` | `queue.json`, `dispatch.json`, budget ledger (or SQLite) | add, authorize, dispatch, settle, reconcile, acknowledge | owns the goal slot, drive, delivery | crash between two files, stale reads, double settlement | an item is run once, charged once, completed only when delivered |
| Human gates, `core/contract.js`, `trigger.js` | `approvals/`, `authorizations/` | request, approve, withdraw | `contractPending` of the goal, hooks | one pending slot, withdrawal in flight | nothing runs on a contract nobody approved |
| Reviews, `core/review.js` | run directories, records `review/*.json`, `metering-ack.json`, ledger entries | preflight, reserve, snapshot, session, revalidate, record, charge, acknowledge | goal, findings, budget, sandbox | the candidate moves while it is reviewed; overlapping runs; kills | a valid run looked at what it names; the cap holds |
| Review sandbox, `core/review-sandbox.js` | the isolated home, `sandbox-cleanup.json` | provision, mark, burn, warn, clean up | reviews, doctor, cleanup command | a kill between any two files, reused process numbers, torn marker | credentials never stay behind unseen |
| Usage ledger, `core/cost.js`, `core/sandbox-usage-lock.js` | `lzy-usage/*.jsonl` | append at a run's end, harvest | review, harvest script, the engine's database | overlapping totals, rebuilt directories, torn lines | what was used is in it once |
| Findings, `core/findings.js` | `findings/<slug>.json` | report, claim, contest, recheck, close, reopen | reviews, gate | two writers, two names of one goal | closed only by a recheck of what was claimed |
| Policy, checks, gate: `core/policy.js`, `verify.js`, `gate.js`, scopes in `review.js` | policy record, receipts, scopes, CI answers | derive, expand, cancel; run, reuse; qualify; weigh | finish and the act of a governed delivery | identity drift, order of receipts, reuse across candidates | finished only on what holds for the candidate |
| Migrations, `core/migrate.js`, `core/sqlite-migrate.js` | journal, backup, staged store | preview, apply, resume | loop lock | a kill in every phase | either the old or the new store, whole |
| Execution graph, `core/graph.js` | none | cycles, layers, critical path, claimable steps | plan adoption, workers | pure | agrees with its definition |
| Headless call, `core/headless.js` | in memory | spawn, timeout, cancel, kill the group | drive, reviews | events in any order, descendants that hold streams | comes back, and says what is left alive |
| Rate-limit statistics, `core/ratelimit.js` | none | scan logs, count, bands, quiet window | cost report | lines in any order, half-written lines, midnight | numbers drawn from the right lines |
| The rest | none or reports | installer, update, status, doctor, git queries, manifest, high-risk gate, tripwire, proxy relay, other hooks, argument parsing | | input and output | not a question of order |

`PROJECT.json` lists every component with its status and every hazard at its line.

## Modules

| Module | Stands for | Model-checked in | Proved in |
|---|---|---|---|
| `LoopLock` | `withLock`, one action per step, around a read-modify-write of the goal | `MCLoopLock` | `LoopGuards_proof` |
| `Headless` | one call of the engine, with its timers, signals and events | `MCLoopLock` | `LoopGuards_proof` |
| `RuntimeLease` | the ledger of runs, their leases and the guarded writes of their workers | `MCLeaseAndGate` | `LoopGuards_proof` |
| `Gate` | policy record, scopes, receipts, CI and the gate of finish | `MCLeaseAndGate` | `LoopGuards_proof` |
| `RateScan`, `OffPeak` | the scan of the logs; the walk over the quiet window | `MCLeaseAndGate` | |
| `GoalPromise` | abstract specification: what a reader of the goal may rely on | instantiated by `GoalLoop` | `GoalLoop_proof` |
| `GoalLoop` | the loop commands, the four files they write, kills between writes | `MCGoalLoop` | `GoalLoop_proof` |
| `StopHook` | the Stop and trigger hooks, each file access a step | `MCStopHook` | `StopHook_proof` |
| `Delivery` | acts, readbacks, the delivery chain of an item, the services and their other users | `MCDelivery` | `Delivery_proof` |
| `Queue` | items, transactions, ledger, goal slot, over both stores | `MCQueue` | `Queue_proof` |
| `UsageLedger` | what reviews and harvests append, over sessions, models, rebuilt runs | `MCQueue` | `Queue_proof` |
| `ReviewRun` | a review and its record | extended by the next two | `Judgement_proof` |
| `ReviewBudget` | what reviews cost: preflight, charge, acknowledgement | `MCReviews` | `Judgement_proof` |
| `Findings` | the ledger of findings under a goal's name and the name before it | `MCReviews` | `Judgement_proof` |
| `ReviewSandbox` | credentials of a review, the marker, burning and cleaning | `MCReviews` | `Judgement_proof` |
| `Drive` | the unattended loop, solo and in waves over worktrees | `MCDrive` | `Drive_proof` |
| `Graph` | `validateDeps`, ranks, critical path, layers | `MCDrive` | `Drive_proof` |
| `Migrate` | the queue moved from JSON to SQLite, next to its writers | `MCMigrate` | `Migrate_proof` |
| `OldRecords` | `lzy migrate apply` over the records of an older version | `MCMigrate` | `Migrate_proof` |
| `HumanGate` | approvals of plans, contracts, deliveries and queue items | `MCReviews`, `MCHumanGate` | `Judgement_proof` |

How they fit together: `LoopLock` justifies what the others assume, that a
`withLock` section is one step. Each of the others takes its own files as state
and the part of the goal that it reads; what a neighbour does with that part is
an action of the environment there and the subject of a module of its own. So the
fence guard is in `RuntimeLease` and the drive that holds the lease in `Drive`;
the goal's own commands are in `GoalLoop` and the slot that the queue moves goals
through in `Queue`; what a merge does is in `Delivery` and the word it needs in
`HumanGate`. Where two modules share state they are composed: `ReviewBudget` and
`Findings` extend `ReviewRun`, `GoalLoop` instantiates `GoalPromise`.

Parts that share no state are checked side by side in one run: the `MC` module
extends both, has a variable `about` that is chosen in the initial state and
never changes, and lets only that part move. The state space is the sum, not the
product, of the two.

### LoopLock

`lock` is the directory with the token of `owner.json` and whether its file time
has passed `LOCK_STALE_MS`; `at[p]` is the place of process `p` in `withLock`.
`MkdirLock`, `SeeStale`, `RemoveStale`, `GiveUp`, `WriteOwner`, `ReadGoal`,
`WriteGoal`, `CheckOwner` and `RemoveOwn` are the file operations in their order;
`Crash` kills a process at any of them. `Age` is the clock. It is enabled only
when the process that last touched the lock is out of its section, which is the
assumption stated at the constants (`loop.js:241-242`).

### Headless

`defaultRun` is one thread: each handler of `error`, `exit`, `close`, of the
deadline, the drain and the abort signal is one action over `call`, what the
function keeps. `engine` and `kin` are the child and its descendants, which may
hold its streams and outlive it. The operating system may refuse to kill the
group. `result` is what `spawnHeadless` resolves with.

### RuntimeLease

`ledger` is `runtime.json`; every operation is one `withLock` section. `pc`,
`fence` and `bound` are a run: where it stands, the fence its processes declare,
and the goal name it read before it took its lease. `mark` is the fence in
`segment.json`. Expiry is a flag the clock sets, at any time after an acquire or a
heartbeat. The history variables (`turn`, `acquired`, `opener`, `stray`) say who
took which lease and who charged whose budget.

### GoalLoop and GoalPromise

A command decides in one step and then writes its files one per step, in the
order of the code (`pending`: ledger, attestation, lineage, goal); `Kill` drops
what is not yet written. `finish` is three samples of the tree, outside the lock,
before its writes; `Commit` moves the tree at any time. Evidence nodes carry the
step, generation, attempt and tree they were captured on, so a green node of
another goal instance can be told from the right one (`era` is that instance, and
is known to the properties only).

`GoalPromise` has the goal and the set of what has been proved. `GoalLoop`
implements it with the mapping `goal <- (slug, status, attempt, plan)` and
`proved <- what the attestations on disk cover`.

### StopHook

`hook[h]` is a running hook: the stage it is at and the local copies it made. A
stop runs gate, verdict, (consume marker), then a locked section of read, merge
and write of the session file. `withSessionLock` is modelled as it is: a lock
older than its limit is stolen, a waiter out of patience goes on without it, and
the release is unconditional. `breach` notes that two hooks may have been in one
section, which only a fault can cause; the counting properties are stated until
then. Loop commands are one step each, except reset, which clears the residue
first and the goal later.

### Delivery

`intents` is `intents.json`; `hand[p]` is a process inside an act, a readback or
the queue chain of an item. Each `git`, `gh` and `curl` call is one step with the
outcomes the code tells apart: done, refused, no answer. `tip`, `pulls`, `green`
and `site` are the remote branch, its pull requests, the commits whose checks are
green and the merge the pages show. `inflight` holds merge requests whose sender
is gone: they are carried out, or not, at any later time. Other users merge and
close requests; commits are made at any time. `governed` says that the goal is one
the unified gate applies to; the gate's audit of intents is then a guard of `Begin`,
and the chain of an item may be refused there.

### Gate

`trees` are the commits, `surface` what the manifest and the contract file declare.
`policy` is the record and `Derived` the obligations it follows from; `Adopt` and
`Reassess` are its commands. `review[d]` is the latest review of a
duty, with how far a scope carries it on: `Qualify` runs the challenges, `ReuseRead`
and `ReuseWrite` are the two moments in which `reuseReviewScope` reads the tree and
notes the candidate. `receipts` keeps all checks in the order of their ids, since
`latestReceipt` picks by end time among those that `listReceipts` returns. Nothing
locks the tree while a receipt is made: `runCheck` runs the recipe, notes the candidate
and hashes the inputs (`CheckStart`, `CheckNoted`, `CheckEnd`), a qualification then
tries out its changes (`Qualified`), and `reuseRun` judges the inputs before it notes
the candidate (`ReuseJudge`, `ReuseRun`); a commit, an edit or a kill may come between
any two. So a receipt names two commits: `head`, the candidate it stands for, and
`inputs`, the one whose files it holds the hashes of. `Finish`
is guarded by `GateOpen`, whose conjuncts are the clauses of `evaluateGate`.

### RateScan and OffPeak

`Scan` takes any line next, as files are read newest first and cut at a budget;
`tally` is what the code keeps per family. `report` is drawn from it at the end.
`OffPeak` is the loop of `overlapSegments`, one hour of the window a step, with the
arc that is open and the arcs closed so far.

### Queue and UsageLedger

A locked command reads and decides in one step and writes one file a step: `script`
is who holds the lock, the writes still to come, each with the files it replaces, and
for a reconciliation the transactions still to be judged (`left`) and the queue in
memory (`q`). With SQLite a write may replace several files at once. `job[p]` is a
dispatcher: pick, open, place the goal in the slot, drive, record, settle, empty the
slot. `Kill` drops it anywhere, with what it has not written. `ReconcileTx` is the
recovery table for one open transaction, whose writes reach the disk before the next
is looked at, and `Reconciled` writes the queue at the end; the code reads the goal
once for all of them, which is the same as long as one process dispatches. A
transaction the gate refused stays open with a note (`refused`), and the dispatcher
goes on. A drive ends well or badly in any state of the slot: out of time, points or
segments, stuck or before a risky step it ends well with the goal still executing, and
`Finish` then completes the goal or is refused, which sends the item back and closes
the transaction as killed; or it throws (`DriveThrows`). The ledger is a set of entries: an entry that is there already is not added
again, and its kind, transaction and session are what the code compares. `shown` is
the delivery account of an item and `finished` (history) the goals that were done
indeed. People approve, cancel, withdraw, acknowledge, and use the slot.

`model_usage` is the engine's database, per directory of a run and session. A
reader takes its queries one by one; the append under the mutex is one step, and
may be cut halfway through a line. What a line has of each model, and the sums over
lines and sessions, are folds of the community modules.

### ReviewRun, ReviewBudget, Findings, ReviewSandbox

`rv[p]` is `lzy review` in its stages: identity noted, number reserved, package
written, snapshot taken, session, candidate compared again, record written under
the lock. Commits, attempts and kills fall between any two. `ReviewBudget` adds the
preflight before the start and the charge after the record, which are outside that
lock; `Findings` adds what a review writes into the ledger under the lock and the
commands that read and write it without (`hand`): such a command writes the whole file
back, over what a review wrote meanwhile. Three history variables tell what the file
then no longer says: how often a fix of a finding failed since it was diagnosed or came
back (`failures`), which of that a command under way has not seen (`missed`), and which
findings were saved over (`forgotten`). `ReviewSandbox` is the
isolated home alone: one step per file that is copied, marked or burnt, and the
cleaners that judge a process by its number.

### Drive and Graph

`d` is the process of the latest run, `tree[t]` a worktree with its branch, `host`
the commits the host reaches, `goal` what the loop commands make of the goal. A
segment is free within its prompt: it may claim, write, commit, mark done and stop
anywhere. Gates between segments, the strike rule, merges in the order of workers,
reclaim of what the run before left, finish and clean-up are steps of their own. At any
time a person may put another goal into the slot (`Replace`), or the same one again,
reset and registered anew under its name (`Renew`): the fence, the lease and the gates
compare names, so the run and its sessions go on with the new one.

`Graph` walks with explicit frames, as the code does, and follows the edges of an
item in any order. The same state serves `validateDeps`, the depth map and the
layers; the definitions they are compared with are recursive functions.

### Migrate and OldRecords

A migration is a step per phase: backup, import into a staged database, reconcile,
install by rename, commit, each journalled when done. `mig[p]` holds the view of the
journal that was read before the lock was taken. Next to it commands write the three
families under the lock, and a dispatch patches and settles its transaction and charges
the ledger without it. With JSON such a save has four steps (`save[w]`): the store is
looked up (`SaveBegin`), looked up again for the list (`SaveRead`) and once more to save
it, and the list replaces the rows of a database that was installed in between (`SaveDb`)
or lands in the file (`SaveFile`, `SaveLands`), also of a store that has moved by then.
`savedOver` collects what such a list was saved over. `OldRecords` is the
unlocked apply over one draft per task and one state file.

### HumanGate

`auth` is the sequence of records the hook wrote, `approvals` those of plans.
`hook[k]` is a message between its reading of the goal and its write. `cmd[s]` is a
command between what it read before the lock and the section itself. A contract is
its hash, and a person or the agent may replace a contract file by another.

## Runs

| Run | Model | Asks |
|---|---|---|
| `loop_lock` | 2 processes, 3 commands each, 1 kill; a call with descendants | is a change lost (`NoLostUpdate`, without a kill), does an orphan lock go away (`OrphanReclaimed`), does the call come back and say what is left (`CallComesBack`) |
| `lease_and_gate` | 2 drives, 1 manual lease, 2 goals, 1 deletion; 3 files, 2 commits, 2 edits, 2 checks, 4 receipts; 4 log lines of 13; every hour of the week | fences and overrun (`OneWriterWhileKept`, `WritesFenced`, `OverrunBounded`); what a finished goal rests on (`ReviewedUpTo`, `FinishedOnTheLatest`); statistics (`MeasuredApart`, `ArcsAreThePeaks`) |
| `goal` | 2 names, 2 plans, both tiers, 3 instances; or a heavy goal with halves, verdicts and capture programs | files agree after any kill (`LedgerAgrees`, `DoneIsAttested`), evidence is one's own (`AttestedOnOwnEvidence`, `HeavyIsProved`), attempts (`NeverRevived`), the abstract specification (`KeepsPromise`) |
| `stop_hook` | 1 session, 2 hooks, 2 goals, 1 marker, 1 fault | pull-backs (`PullsInOrder`), standdown (`StanddownKept`), markers (`ReleasedByMarker`) |
| `delivery` | 2 commits by 1 process for 1 item, or 1 commit by 2 for 2; 2 requests, 1 fault; governed or not | nothing unchecked is merged, one act at a time (`SentOneByOne`), no older deployment passes (`ShownIsDeployed`), an item is completed for its own delivery (`CompletedIsDelivered`) |
| `queue` | 2 items in a chain, both stores, 1 dispatcher, 1 kill, 3 transactions, 2 turns of people; 2 models, 2 sessions, 2 directories, 2 harvests, 1 torn line | completed is done (`CompletedIsDone`), what a killed dispatcher left is reconciled before the next dispatch and nothing goes before what it waits for (`DispatchedInOrder`), what is on record is charged (`RecordedIsCharged`), use counted once (`UseCountedOnce`) |
| `reviews` | 2 reviewers, 3 runs, 2 attempts, 2 commits; 1 reviewer, 2 names, a diagnosis after 1 failed fix; 1 sandbox, 2 cleaners; 2 messages at a time, 4 in all, 2 plans, 5 contracts, 1 edit | cost (`ReviewsBounded`), identity (`ReviewedWhatItNames`), findings (`ClosedInOrder`), credentials (`NothingLeftUnsaid`); what is open was approved and asked for (`OpenedOnAWord`), what is adopted is what was approved (`AdoptedAsApproved`) |
| `reviews_diagnosis` | the findings of `reviews`, a diagnosis after 2 failed fixes | expects a violation of `DiagnosisIsTheExit` |
| `drive` | 3 steps, 2 workers, 2 runs, 1 fault; every plan of 4 items | the end of a run, also over other goals and other registrations of its own (`EndIsTrue`), work (`WorkKept`), plans (`AcceptsJustOrders`, `RanksAreLongest`) |
| `migrate` | 2 processes, 3 runs, 2 kills, 3 writes, 2 late saves; the same for old records, with 2 tasks | lost writes are flagged (`LostIsFlagged`), converted tasks have a draft (`ConvertedHasDraft`), nothing in place is taken back (`KeptByBoth`) |
| `human_gate_target` | the words of people alone, as in `reviews` | expects a violation of `ActsAsApproved` |
| `drive_dangling` | as `drive` | expects a violation of `NoDangling` |

**Bounds.** Two of a kind are enough to interleave, overtake and confuse (two
processes, goals, plans, commits, items, names). `goal` has three instances so that
a name is used, left and used again; ledgers are as long as one such history
needs. One fault a behaviour finds what one kill, timeout or failed query can do at
any place; two faults at once are covered for the migrations only, where the second
migration is the repair of the first. A limit on a history (`MaxRuns`, `MaxWrites`,
`MaxEras`, ...) is a guard, named in its module, and deadlock is off where the
model may then simply stop.

Some `MC` modules cut the product of two stories with a state constraint, because
the cases they are about do not need both at once: `Within` of `MCGoalLoop`
(many instances of plain goals, or one heavy goal with every kind of proof), of
`MCDelivery` (more commits, or more processes), of `MCDrive` (a second run after a
quiet first one, or after a fault; a renewed goal in the first run, without a fault) and of `MCLeaseAndGate` (much of reviews, of
checks or of the policy record); `Scenarios` of `MCHumanGate` (plans, contracts,
delivery, an item, an item that takes the slot); `Small` of `MCReviews`. The code asks
for a diagnosis after two failed fixes (`DIAGNOSIS_REQUIRED_THRESHOLD`); the passing run
has one, so that claim, failure, closure and return fit into three reviews, the run that
looks for a violation has the code's two, and the theorem has any. `Retried`
of `MCQueue` has one dispatch closed as killed or as an orphan and its item dispatched
again, and lets usage be missing where a limit of points asks for it; `FirstModel` only
fixes which of two like models is used first. `Stories` of `MCMigrate` has one late save
over a migration that is killed once and run again, or two over one that is not killed,
and no late charge where there are two kills. What the product of two stories does is not
checked.

**Symmetry** is used for names, plans, trees, hooks, processes, cleaners and items,
which nothing orders, and only in runs without liveness.

**Fairness.** Only `loop_lock` has liveness. For the lock, a process that is neither
dead nor at the end of its commands takes its next step (its waits are a timed loop)
and the clock goes on; nothing is assumed of kills. For the call, a handler of
the event loop that can run from some time on is run in the end; nothing is assumed
of the child, which need never end by itself, and a kill of its group is denied or
takes effect at once.

## What the runs show that the code does not intend

- `human_gate_target`: a contract that is edited after it was approved is acted on.
  `contractOpts` reads the file again when an act begins (`delivery.js:346`), and
  the gate asks for the word on the hash that was bound.
- `reviews_diagnosis`: the code calls diagnosing a finding the only way out of
  `diagnosis-required` (`findings.js:515`, `lzy.js:1095`). A finding command reads the
  ledger without the lock and saves the whole file (`findings.js:563` and the others), so
  the failed fix a review reports in between is taken back, with its count, and the
  finding is claimed and closed without a diagnosis. `ClosedInOrder` excepts the findings
  that were saved over.
- `drive_dangling`: a run that ends badly leaves its worktrees as subjects of the
  goal; the next run removes the worktrees and leaves the subjects
  (`drive.js:888`), so that every later finish is refused.

Observations no run is about, found with stronger properties that were tried and
do not hold; the properties that are checked are stated around them.

- Lock: `rmSync` of a stale lock is not bound to the lock that was judged. With
  three processes and a kill, two waiters remove one after the other, and the second
  removes the new lock of the first (`loop.js:288-289`). `NoLostUpdate` is checked
  without a kill.
- Goal: the head trees listed in a final attestation can be of another commit than
  the fingerprint it is bound to (`loop.js:2021`).
- Stop hook: `handoff.json.consuming` is one name for all hooks (`stop.js:155-160`),
  so a hook may read a marker another one renamed. The early give-up (two strikes
  without progress) never fires before the budget of two pull-backs is spent.
- Lease: after `runtime.json` was deleted by hand with no segment marker on disk,
  fence 1 is issued again; the properties are stated for a ledger nobody deleted.
- Delivery: a readback does not compare the head of the request with the commit of
  the intent (`delivery.js:747`), which the act does. Without a pull request no
  readback settles an intent (`delivery.js:743`). A readback that saw the request
  open settles the intent of an act that is still running.
- Queue: a drive resumes one session across segments, and the ledger keeps one entry
  per session, so later segments are not charged. An orphan transaction is closed
  without charging; reconciling closes a killed one before it is declared; with JSON
  a failed drive is settled first and charged second. `RecordedIsCharged` says what
  is left when these are taken out. A transaction whose goal is done and that the gate
  refuses when it is reconciled stays open, and with JSON the next dispatch opens a second one behind it; with SQLite the item
  is refused as taken. Two dispatchers at once, or a person who uses the slot while
  one works, break `CompletedIsDone` and `DispatchedInOrder`: the goal is read
  outside the lock (`queue.js:1389`) before the slot is reset. If a drive stops early and
  the slot is emptied before `queue.js:1493` reads it, nothing is asked and the item is
  completed with a goal that was never done. The code names that as
  its boundary ("serial dispatch by a single worker", `queue.js:13`), and the run and
  the theorems are stated inside it.
- Reviews: a kill between record and charge loses the charge; a killed session leaves
  no record; the cap is read before it is charged, so `ReviewsBounded` grants every
  other reviewer one run.
- Sandbox: a dead review whose process number is in use shows as active and is never
  warned of. A torn marker is reported, but cleaning parses it and refuses.
- Findings: after a goal went on under another name, two ledgers may hold one
  fingerprint, and no command can name the finding then.
- Gate: an obligation that was cancelled while an edit took its reason away stays
  cancelled when the edit is taken back (`policy.js:399`). A reuse receipt copies the
  end time of the receipt it rests on. It is judged on the inputs as they are and names
  the candidate of a moment later (`verify.js:454`, `557`), and a run names the candidate
  before it hashes the inputs (`verify.js:357`, `359`): a commit in between leaves a
  receipt that names a commit whose inputs nobody looked at, and the gate takes it.
  `FinishedOnTheLatest` excepts that commit, as `ReviewedUpTo` does for reviews.
  A check that was running while a commit was made names the later commit.
- Drive: the text of a merge conflict says that nothing was merged, which is false
  when earlier branches were; a step marked done in a wave that failed before its
  merge is not sent again; merges are not fenced. A goal that is reset and registered
  again under its name while a run works is taken for the one before: fence, lease and
  gates compare the name, so steps are marked done and the goal is finished on work of the
  earlier one; and since its count of steps starts anew, its signature may meet an older
  one and the run ends as stuck too early, which `EndIsTrue` excepts.
- Migration: a list of transactions or charges that was read before the switch and is
  saved after it replaces the rows of the new database (`queue.js:756`–`763`, `324`–`333`,
  `statedb.js:568`, `586`): what was accepted since is deleted, the JSON files are as they
  were frozen, and nothing flags it. `LostIsFlagged` excepts exactly that (`savedOver`).
  A source that changed after the import makes every rerun resume the same
  run and refuse. A view of the journal that was read outside the lock may be stale
  (`overtaken`).
- Old records: applies that cross lose a task's record or replace a draft a person
  revised; `state.json` may record a plan hash the draft is not of.
- Call: an aborted call whose group kill was denied is reported as reclaimed
  (`headless.js:218`); `CallComesBack` is stated for calls that were not aborted.
- Statistics: the session named as killed last is the one scanned last
  (`ratelimit.js:115`, `275`).
- Gates of people: there is one slot for the contract that waits for approval, and a
  second request overwrites it; an approval survives a reset (ADR-0018).

## What is proved

For every value of the constants, from the assumptions named in each module (and,
for two theorems, the bound in their statement). *In a run* names the property as the
runs check it; where there is none, the theorem says something no run asks.

| Theorem | Says | In a run |
|---|---|---|
| `LoopGuards_proof!LockTypeCorrect` | types of the lock | |
| `LoopGuards_proof!ExclusiveWithoutCrash` | with no kill (`MaxCrashes = 0`), any number of processes and commands lose no change | `NoLostUpdate` |
| `LoopGuards_proof!TypeCorrect` | types of the lease | |
| `LoopGuards_proof!SingleWriter` | while the ledger is kept, fences are unique and one run passes `guardFence` | `OneWriterWhileKept` |
| `LoopGuards_proof!NoZombieWrites` | an accepted write comes from the run that took its lease last | `WritesFenced` |
| `LoopGuards_proof!StraysBounded` | a run that was overtaken charges its successor at most once | |
| `LoopGuards_proof!OverrunWithinSegments` | a budget is overrun by one segment of its own run and one of each run overtaken | `OverrunBounded` |
| `LoopGuards_proof!OwnGoalWrites` | a drive's workers write to the goal the drive was started for | |
| `LoopGuards_proof!CallTypeCorrect` | types of an engine call | |
| `LoopGuards_proof!LeftoversOfACallAreSaid` | a call that came back and was not aborted says when somebody of its group is alive | safety half of `CallComesBack` |
| `GoalLoop_proof!TypeCorrect` | every file and every half-written command keeps its shape | |
| `GoalLoop_proof!DoneOnlyWhenProved` | a goal that says `done` has its attestation and a closed attempt | `DoneIsAttested` |
| `GoalLoop_proof!NeverTwoActive` | at most one attempt is active | |
| `GoalLoop_proof!AttemptsStayClosed` | a closed attempt is never active again | `NeverRevived` |
| `GoalLoop_proof!EvidenceIsFound` | goal file and ledger agree on every piece of evidence | `LedgerAgrees` |
| `GoalLoop_proof!AttestedOnOwn` | an attestation cites evidence of its own instance of the goal | `AttestedOnOwnEvidence` |
| `GoalLoop_proof!HeavyGoalsAreProved` | a heavy goal is attested on a later, matching, exact comparison and on red halves | `HeavyIsProved` |
| `GoalLoop_proof!FilesKeepPromise` | the files and their half-written commands implement `GoalPromise` | `KeepsPromise` |
| `StopHook_proof!TypeCorrect` | types | |
| `StopHook_proof!OneReleaseEach` | a registered handoff releases at most one stop | `ReleasedByMarker` |
| `StopHook_proof!MarkersOfTheGoal` | a marker on disk is of the goal on disk | |
| `StopHook_proof!EveryPullCounted` | the session file accounts for every pull-back, `MaxContinues` at most | |
| `StopHook_proof!PulledBeforeLetGo` | `MaxContinues <= 2`: a session is given up only when its pull-backs are spent | `PullsInOrder` |
| `StopHook_proof!LastWordKept` | the standdown flag is the session's last word | `StanddownKept` |
| `Delivery_proof!TypeCorrect` | types | |
| `Delivery_proof!SentSingly` | what an act merged was checked and declared; one unsettled intent of a governed goal | `SentOneByOne` |
| `Delivery_proof!PagesWereDeployed` | no older deployment passes for endpoint C | `ShownIsDeployed` |
| `Delivery_proof!FinishedIntentsStay` | `done` is final | |
| `Delivery_proof!CompletedWasDelivered` | an item is completed only when every endpoint it requires is done in its name | `CompletedIsDelivered` |
| `Judgement_proof!SandboxTypeCorrect` | types of the sandbox | |
| `Judgement_proof!LeftoversAreWarnedOf` | credentials left behind are warned of | `NothingLeftUnsaid` |
| `Judgement_proof!CostedReviewsLooked`, `FindingReviewsLooked` | a valid run looked at the candidate it names, in both compositions | `ReviewedWhatItNames` |
| `Judgement_proof!FindingsCloseInOrder` | a finding is closed for what was claimed, and diagnosed when that fails, but for failed fixes that were saved over | `ClosedInOrder` |
| `Judgement_proof!ReviewsStayBounded` | a goal buys at most its cap and one review less than there are reviewers, but for what was waved through or lost | `ReviewsBounded` |
| `LoopGuards_proof!GateTypeCorrect` | types of the gate | |
| `LoopGuards_proof!FinishedAsReviewed` | what a finished goal was reviewed on is its last commit, or differs from it in unrelated files only | `ReviewedUpTo` |
| `LoopGuards_proof!FinishedOnLatest` | a finished goal rests on the latest real check or a reuse of it, on the inputs last judged, and on every duty not cancelled in time | `FinishedOnTheLatest` |
| `Drive_proof!JustOrders` | a plan is adopted only when its items can be put in order, and a refusal shows a cycle of the plan | `AcceptsJustOrders` |
| `Drive_proof!RanksAreRight` | depths, critical path and layers are the longest chains and waits of the plan | `RanksAreLongest` |
| `Drive_proof!TypeCorrect` | types | |
| `Drive_proof!EndsTruly` | a run that finished a goal, even registered anew under its name, left its work in the host; one that gave up as stuck did stand still, but for a goal registered anew | `EndIsTrue` |
| `Drive_proof!WorkStays` | commits stay reachable, uncommitted work stays in a tree that stands | `WorkKept` |
| `Judgement_proof!HumanTypeCorrect` | types | |
| `Judgement_proof!OpenOnWord` | what is open was asked for, approved under its name, and the approval not withdrawn | `OpenedOnAWord` |
| `Judgement_proof!AdoptOnWord` | what is adopted on a word is what was approved | `AdoptedAsApproved` |
| `Migrate_proof!MigrateTypeCorrect` | types | |
| `Migrate_proof!LossIsFlagged` | a change that is not in the store stops every dispatch, unless a list was saved over it | `LostIsFlagged` |
| `Migrate_proof!DatabaseStays` | an installed database stays, with its queue | |
| `Migrate_proof!OldTypeCorrect` | types of the old records | |
| `Migrate_proof!ConvertedKeepsDraft` | a converted task has its draft | `ConvertedHasDraft` |
| `Migrate_proof!NothingUnconverted` | an apply that runs alone undoes nothing | |
| `Migrate_proof!BothKeep` | the two of them side by side take nothing back | `KeptByBoth` |
| `Queue_proof!TypesHold` | types of the queue, its scripts and dispatchers | |
| `Queue_proof!CompletedItemsAreDone` | a completed item has a goal that was done and every declared endpoint delivered, however its drive ended | `CompletedIsDone` |
| `Queue_proof!DispatchIsInOrder` | with one dispatcher at a time: of two open transactions the gate refused the older; a drive runs under its own; what it depends on is completed for good | `DispatchedInOrder` |
| `Queue_proof!RecordedSessionsAreCharged` | what a settled transaction recorded is in the ledger, but for a failed drive with JSON | `RecordedIsCharged` |
| `Queue_proof!TerminalStatesAreFinal` | a terminal state stays, but for two exceptions that are named | |
| `Queue_proof!UseIsCountedOnce` | what was used is in the ledger no more than once, and what was reported as there is there | `UseCountedOnce` |

*The lock.* `NoLostUpdate` is about the goal and says nothing of who is inside.
`LockInv` adds: nobody is dead or about to steal (no kill, so no lock turns stale),
the lock belongs to the one process in its section and carries its token, and the
copy a writer holds is the goal on disk. The last part is what the write needs,
and it needs the exclusion.

*Fences.* `OneWriter` is not inductive: a run that holds an old fence must be known
to have been overtaken. `IInv` says that every fence issued is at most the counter
and belongs to one run (`Issued`), that the lease on disk carries the newest one
(`LeaseNewest`), and that a run which finds the budget opened by another has a
fence below the counter, so that its next heartbeat fails and it charges that
budget once at most (`Overtaken`). All of it holds while nobody deletes the ledger.
For the overrun, `Charged` keeps one segment in reserve: as long as the run that
opened the budget may still charge it, what is spent is a segment below the bound.

*The goal.* Type correctness is proved with `Linked`, which says what exists
together: a goal, or one about to be written, has its lineage, and a finish works
on an open goal with nothing left to write. Without it the status of an attempt
could be looked up in a file that is not there. All the other invariants of this
module speak of the files *as they will be* when the pending writes are through as
well as of those on disk (`Promised`, `LineageToBe`, `DagToBe`). A kill drops a
suffix of the pending writes, so each prefix of them has to be consistent, and that
is where the order of the writes in the code matters. `ActiveInv` says which
attempts a lineage may show as active beside a goal: the goal's own and, when a
supersede was killed before it wrote the goal, the next one; `RevivalInv` that
nothing beyond that one exists, so that binding it again revives nothing.
`EvidenceInv` needs that green nodes of the generation in force are of the instance
in force: `era` is a history variable, and what a later goal of the same name finds
is told apart by attempt and generation only. `FinishInv` is the point of the three
samples of `finish`: what the first has verified, the later ones may still cite,
since the ledger is written under the lock and a commit does not touch it.
`AttestInv` and `PromiseInv` carry that across the pending writes, and `PromiseInv`
lists the goals a pending write may lead to, each a step `GoalPromise` allows.

*The Stop hook.* One name, `handoff.json.consuming`, serves all hooks, so "the hook
that renamed the marker reads it" does not hold. What holds is a count (`TokenInv`):
hooks that won a rename, stops released and the marker on disk are together no more
than the handoffs registered. For the session file, `Section` says of a section that
was entered once at a time that the copy a hook decides on and the one it is about
to write over are still what the file holds. `PulledBeforeLetGo` has the hypothesis
`MaxContinues <= 2`, which is the constant of the code (`hook-lib.js:22`): with three
pull-backs the second strike would come before the last of them.

*Delivery.* `Good` says what each process has seen on its way: who is about to merge
holds a green head that was declared, so does every request whose sender is gone,
and a readback that saw a merge saw one that stays. That intents are declared one by
one is the guard of `Begin`; that unsettled ones stay alone needs that every other
step only settles. The proof corrected the model: that an item completed for endpoint
B rests on a green merge *its intent records* is false, since a readback by a second
process may replace that merge between the verdict and the write. The constraint
of the run had hidden it. `Delivered` now says what holds.

*Reviews.* A reviewer's candidate can only have moved on since each time it was
read (`ReviewerOk`), so the two comparisons of identity pin everything between them.
Numbers are given out without a gap, so none is used twice (`OwnNumbers`, `NoGap`).
In the ledger of findings an entry is sound on disk *and in the hand of a command
that read it without the lock* (`LedgerOk` of both), and what made it sound lasts:
reviews are never taken back. `FailInv` says of the count of failed fixes that the file
has it, and the hand too but for what it missed; only such a miss is ever forgotten. The cap is a count of sets: who was let through and
has not been charged, with what is charged, exceeds the cap by one less than there
are reviewers (`Bounded`), and every session started is one of those, recorded as
unknown, or lost to a fault (`Traced`). The sandbox needs to know of each
stage which files can be in the home (`HomeOk`) and that no cleaner was let near a
review that runs (`Undisturbed`).

*Gate.* Commits do not change, so what was once judged of a review stays judged
(`RunOk`, of the trees up to the head), and a scope that is being reused is of the
review it was begun for, since a review that comes between ends it (`ScopingOk`).
A receipt of a reuse repeats a real run: its time, verdict and manifest, and the hashes
of its inputs, which is so of a reuse that is judged and not yet written too
(`JudgedOk`); and every run that ended left a receipt, so the latest one on record is
the latest there was (`ReceiptsOk`). A duty that the record lacks although its inputs oblige to it was
cancelled while they did not (`PolicyOk`). The gate reads all of this at one moment,
and when the goal is done nothing moves any more.

*Plans.* What the three-colour walk of `validateDeps` leaves behind when it ends
without a cycle is a plan in which no non-empty set of items waits for each other
all round. The invariant behind `JustOrders` (`WalkShape`, `WalkEdges`, `WalkDone`):
the stack holds exactly the grey items, each once and each waiting for the next;
what a frame has followed so far is black, but for the frame above it; and black
items wait for black items only. When the walk is over everything is black, and a
set that waits all round would have had a first member to turn black.
The ranks are defined by recursion over the plan, and what a recursive definition
computes takes an induction the provers do not have. `RanksAreRight` goes round it:
`RankInv` says that a black item has the rank its definition asks for, given the
ranks of what it follows. So when the walk is over its own result is a function that
satisfies the definition; and since a plan without a cycle leaves every set of items
with one that waits for none of them, two such functions cannot differ anywhere.
The critical path is followed from a deepest item one rank down at a time
(`Descends`), which is what makes it as long as the depth.

*The call.* A call strikes its group once. `StruckFirst` says that whatever brings a
call to its end (the timers behind exit and error, the grace period) struck the group
before, `Cleaned` that unless it was denied nobody of the group is left, or comes
back, after that, and `DenialIsSaid` that a denial is in the result. Each of the
handlers keeps all three in whatever order they run.

*Drives.* Credit is given before the work is safe, so `CreditOk` says of every step
a run has to its name that it is in the host, or in the branch of a worker that is
still to be merged (`Awaited`); with workers, the goal cannot be done while a wave is
under way. For the standstill, what set the count of idle segments back shows in the
signature from then on (`IdleOk`): a commit of the run, a branch of its workers, or a
step. That takes that the host has a worker's commits only from the worker's own tree
(`CommitsOk`), and that a signature taken later still shows it: it lists the subjects
of the run, of which a goal that takes the slot has none (`SubjectsOk`,
`SignatureOk`). Work that is not committed lies in trees that stand, and none of it is
there before the run starts (`TreesOk`).

*Words of people.* Asking and approving cross. `Spoken` says that what a goal, an
item or a dispatch asks for was shown under its name before any record can answer
it (`GoalAsked`, `Shown`), and that this is so of the message a hook is still
writing (`HookOk`). A withdrawal has no earlier a time than any approval it takes
back, while it is being written as after (`TakenBack`); that is why it is enough for
the code to compare the last approval with the last withdrawal.

*Migrations.* Until something went on from an outdated view, at most one run is
unfinished, and what its journal says is true of the files, the staged database and
the installed one (`Straight`, of `RunOk` and of the process inside, `HolderOk`).
Changes carry the number of their turn (`DatesOk`), so one that came after the import
is in no frozen file: the file shows it, and dispatches stop (`Kept`). A list that is
saved, early or late, takes out of the file or of the database only what it is saved
over, so all of this is said of the changes that still stand (`Standing`); a list on its
way to a file was read from one and has no number to come (`SavesOk`). That a database
is only replaced by one with the same queue needs none of it (`PlaceOk`): the drift
check is made each time, of what is there. The theorem uses `NoneAssumption`, that
`None` is none of the values it stands beside. The model has the order of the journals
by file time as a relation (`newer`), of which `Newest` says that it has a maximum.

*Old records.* An apply writes the draft before it records the task, and only a person
takes a draft away (`revised`), so what it read as converted or is about to record was
drafted (`ApplyOk`); the theorems use `AbsentAssumption`, as above. Of two applies under way each has crossed the other, so one that did not
still finds what it read (`AloneOk`).

*The queue.* A kill may come before any write of a script, so the invariant speaks of
the files as they are and of *every* write to come: each queue that will be written is
right and may follow the one before it (`QueuesFit`), each list of transactions extends
the one on disk (`TxsFit`), each ledger contains it (`LedgersFit`), and a settlement is
written only behind the entries it stands for (`SettledFit`, `Backed`). What a
dispatcher relies on is said of the files as its script will leave them: `Owns`, that
its transaction is the one that is open and not refused; and until `Finish` a drive that
ended well only means that the slot has its goal, executing or done (`JobOk`). Where the JSON store settles
a failed drive before it is charged, `Over` says that the item is at its end and
that nothing to come changes that, which is how far `RecordedIsCharged` reaches. The
theorems take `Serial`: one process dispatches at a time, and people use the slot
between dispatches. Without it two of the properties are false, as told above.

*The ledger of use.* Two totals can be compared only if the sessions they count are
known to be nested. `BeginInOrder` and `Tied` say so: sessions begin in their order, so
that any two sets of them that were ever read share the first and one lies in the
other (`Earliest`), and a line that nothing speaks against is weighed against all the
lines of its build and no others. `Modest` is the bound on a reader between its
queries: it carries no more than was burnt in the sessions it has read. For the sums,
the recursive function behind `SumFunctionOnSet` is shown to have exactly one solution
on a finite set, by a smallest counterexample, and then to add up in any order. The
theorem takes finitely many models (`UsageAssumption`) and nothing else.

**Only model-checked.** `OrphanReclaimed` and the other half of `CallComesBack`, that a
call comes back at all, are liveness: the prover has no `ENABLED`. `MeasuredApart` says
what a fold over a sorted sequence of log lines computes, which takes induction over
sequences. `ArcsAreThePeaks` has no parameter: its run covers every hour and every start
there is. Every other property of a passing run is a theorem.

## What is not modelled

- Text: messages, plans, contracts, review verdicts and page contents are values
  or choices. Parsing decides whether an action is taken.
- Time, but for its order: a lease or a lock "gets old" in a step of its own. A
  clock that goes backwards is left out.
- Disk faults. A write is `tmp` and `rename`, so a file is old or new, never half;
  the two exceptions, a ledger that is appended to and the marker of a sandbox, are
  modelled as they are.
- The engine: a segment, a review or a headless call ends with one of the
  outcomes the caller tells apart.
- Budget writers carry no fence (the boundary ADR-0020 draws); the model has them
  so, which is why `StraySpendOnce` bounds what it cannot exclude.
- Machine facts of a sandbox (is there a keychain, a helper, a personal file) do not
  change during a run. Pending receipts of the usage ledger only wait for a harvest.
- Undo of a step, the acceptance coverage of a goal's contract, the guard of one step
  a segment (`segment.json`), the attempt log of deliveries: each is a check in a
  command whose order is modelled without it.
- Installer, update, status, doctor, command line, git queries, project manifest,
  high-risk gate, tripwire, the proxy relay and the other hooks: input and output of
  single processes, or words matched in a text.

## Plan

Every part whose correctness depends on order has its module, and every safety property
is a theorem, but for the one that folds over log lines and the one without parameters.
What is left:

1. `Queue` with two dispatchers: the model has them (`Procs`, `"any time"`); a property
   of what they still keep would replace the hypothesis `Serial`.
2. The hazards no property covers, because the code gives way to them as it stands: a
   second waiter that removes a new lock, the tree moving between the checks of finish and
   its completion, `runtime.json` deleted by hand, hooks that go on without the session
   lock, and the slot used while a dispatcher works. Each is in the model or noted with
   what it takes; a fix in the code would come with a property.
