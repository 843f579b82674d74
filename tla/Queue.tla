------------------------------- MODULE Queue -------------------------------
(***************************************************************************)
(* The queue of authorised goals and their budget: core/queue.js over its   *)
(* two stores, the JSON files queue.json, dispatch.json and ledger.json, or *)
(* state.sqlite (core/statedb.js).                                          *)
(*                                                                         *)
(* A dispatcher picks an item, opens a dispatch transaction, moves the goal *)
(* into the one slot (GoalLoop), drives it, settles what was spent and      *)
(* empties the slot.  It can be killed between any two writes; the next     *)
(* dispatcher reconciles the transactions left open first.  With JSON every *)
(* file is one write; with SQLite a transaction of the database is one.     *)
(*                                                                         *)
(* A locked command is a step that reads and decides, and a step for each   *)
(* of its writes (script); what is killed with the script is not written.   *)
(* Durations are counted in wall entries and points in reservations; who    *)
(* drives the goal is abstracted to the sessions it ran and to whether the  *)
(* goal was done, by a gate or a finish that may refuse, and delivery to    *)
(* the outcome of its chain (Delivery).                                     *)
(***************************************************************************)
EXTENDS Naturals, Sequences, FiniteSets, FiniteSetsExt

CONSTANTS
  Items,         \* queue items 1..n in order of adding; each has a goal of its own
  DepsOf,        \* the items each one depends on
  Delivered,     \* items with delivery contracts (endpoint B or C)
  Procs,         \* processes that dispatch
  Stores,        \* the stores to start with: "json", "sqlite"
  WallLimits,    \* limits of the wall budget, in entries; 0 is none
  People,        \* what people do: "cancel" items, use the "slot" between dispatches,
                 \* use it "any time", "pick one" item to dispatch
  MaxSegments,   \* bound: segments of a drive
  MaxTx,         \* bound: dispatch transactions
  MaxKills,      \* bound: dispatchers killed
  MaxTurns,      \* bound: approvals, withdrawals and acknowledgements
  Other,         \* a goal that is not the queue's
  None

ASSUME DepsAssumption ==
  /\ Items \subseteq Nat \ {0} /\ Delivered \subseteq Items
  /\ DepsOf \in [Items -> SUBSET Items] /\ \A i \in Items : \A d \in DepsOf[i] : d < i
ASSUME OtherAssumption ==
  /\ Other \notin Items /\ None \notin Items \cup Procs \cup {Other} /\ "dead" \notin Procs
ASSUME StoreAssumption == Stores \subseteq {"json", "sqlite"} /\ WallLimits \subseteq Nat
ASSUME BoundAssumption == MaxSegments \in Nat /\ MaxTx \in Nat

VARIABLES
  store,     \* which store; it does not change
  limits,    \* [wall: the wall limit, points: is there a points limit]
  items,     \* queue.json: state and reason of every item
  approved,  \* items whose contracts are all approved
  txs,       \* dispatch.json: the dispatch transactions in order
  ledger,    \* ledger.json: the entries
  acked,     \* the entries --resume-points acknowledged
  slot,      \* goal.json: the goal in the slot, or None
  lease,     \* the workspace lease: its holder, "dead", or None
  shown,     \* items whose delivery account says that every endpoint is done
  job,       \* what each process is doing
  script,    \* what the holder of the lock still has to do
  finished,  \* history: goals that were done once
  kills, turns

store_vars == <<items, txs, ledger, lease>>
env_vars == <<store, limits, approved, acked, kills, turns>>
vars == <<store, limits, items, approved, txs, ledger, acked, slot, lease, shown,
          job, script, finished, kills, turns>>

-----------------------------------------------------------------------------
(* Types. *)

TERMINAL_STATES == {"completed", "failed", "cancelled"}
ITEM_STATES == {"absent", "proposed", "authorized", "ready", "running", "blocked"}
                 \cup TERMINAL_STATES
Reasons == {"none", "dep", "auth", "delivery", "other"}
Item == [state : ITEM_STATES, why : Reasons]

Sessions == 1..MaxSegments
Phases == {"open", "settled", "killed", "reconciled-orphan"}
Tx == [item : Items, phase : Phases,
       wall : Nat,                       \* reserved; 0 without a limit
       segs : SUBSET Sessions,           \* recorded after the drive
       sender : Procs \cup {None},       \* who runs the delivery chain
       refused : BOOLEAN,                \* its note says that the gate refused it
       ran : SUBSET Sessions]            \* history: sessions that really ran

(* The sid of a delivery chain's wall entry is 0. *)
Entry == [kind : {"wall", "points", "metering-absent", "killed-inflight"},
          tx : 1..MaxTx, sid : 0..MaxSegments]
STOP_KINDS == {"metering-absent", "killed-inflight"}

Job == [at : {"idle", "reconcile", "pick", "slot", "yield", "reset", "register", "start", "bind",
              "driving", "record", "failing", "fail-settle", "fail-charge", "finish",
              "mark", "deliver", "abort", "conclude", "final", "clear", "catch"},
        item : Items \cup {None}, tx : 0..MaxTx, only : Items \cup {None},
        drives : Items \cup {Other, None}, ran : SUBSET Sessions, ok : BOOLEAN,
        sent : {"ok", "unmet", "none"}]

Slots == [goal : Items \cup {Other}, status : {"planning", "executing", "done"}]
ASSUME NoneAssumption == None \notin Slots \cup {"dead"}

Idle == [at |-> "idle", item |-> None, tx |-> 0, only |-> None, drives |-> None,
         ran |-> {}, ok |-> FALSE, sent |-> "none"]

(* The queue and the transactions, as a file has them. *)
Queues == [Items -> Item]

TxLists == {t \in Seq(Tx) : Len(t) <= MaxTx}

(* The fields of a write are the files it replaces; lease says that a dead lease is
   reclaimed.  left and q are of a reconciliation: the transactions still to be looked
   at, and the queue in memory. *)
Write == [items : Queues] \cup [txs : TxLists] \cup [ledger : SUBSET Entry]
           \cup [lease : {None}] \cup [items : Queues, txs : TxLists]
           \cup [items : Queues, txs : TxLists, ledger : SUBSET Entry]
Scripts == [by : Procs \cup {None}, writes : Seq(Write), left : SUBSET (1..MaxTx), q : Queues]

NoQueue == [i \in Items |-> [state |-> "absent", why |-> "none"]]
NoScript == [by |-> None, writes |-> <<>>, left |-> {}, q |-> NoQueue]

TypeOK ==
  /\ store \in {"json", "sqlite"} /\ limits \in [wall : WallLimits, points : BOOLEAN]
  /\ items \in Queues /\ approved \subseteq Items
  /\ txs \in TxLists
  /\ ledger \subseteq Entry /\ acked \subseteq ledger
  /\ slot \in {None} \cup Slots
  /\ lease \in Procs \cup {None, "dead"}
  /\ shown \subseteq Delivered
  /\ job \in [Procs -> Job]
  /\ script \in Scripts
  /\ finished \subseteq Items

Init ==
  /\ store \in Stores
  /\ limits \in [wall : WallLimits, points : BOOLEAN]
  /\ items = NoQueue
  /\ approved = {} /\ txs = <<>> /\ ledger = {} /\ acked = {}
  /\ slot = None /\ lease = None /\ shown = {} /\ finished = {}
  /\ job = [p \in Procs |-> Idle]
  /\ script = NoScript
  /\ kills = 0 /\ turns = 0

-----------------------------------------------------------------------------
(* The lock, and the writes of a command under it. *)

Free == script.by = None

WItems(q) == [items |-> q]
WTxs(t) == [txs |-> t]
WLedger(l) == [ledger |-> l]
WLease == [lease |-> None]

Script(p, writes) ==
  script' = IF writes = <<>> THEN NoScript ELSE [NoScript EXCEPT !.by = p, !.writes = writes]

Is(p, at) == job[p].at = at /\ Free
To(p, at) == job' = [job EXCEPT ![p].at = at]
Quit(p) == job' = [job EXCEPT ![p] = Idle]

(* The next write of the command under the lock reaches the disk; behind the last one
   the lock is given back, unless it is of a reconciliation that goes on. *)
DiskWrite ==
  /\ script.writes # <<>>
  /\ LET w == Head(script.writes)
         rest == Tail(script.writes)
     IN  /\ items' = IF "items" \in DOMAIN w THEN w.items ELSE items
         /\ txs' = IF "txs" \in DOMAIN w THEN w.txs ELSE txs
         /\ ledger' = IF "ledger" \in DOMAIN w THEN w.ledger ELSE ledger
         /\ lease' = IF "lease" \in DOMAIN w /\ lease = "dead" THEN None ELSE lease
         /\ script' = IF rest = <<>> /\ job[script.by].at # "reconcile" THEN NoScript
                      ELSE [script EXCEPT !.writes = rest]
  /\ UNCHANGED <<env_vars, slot, shown, job, finished>>

-----------------------------------------------------------------------------
(* Budget and readiness, as the files stand after some writes. *)

After(t, l) == [txs |-> t, ledger |-> l, free |-> lease = None]
Disk == After(txs, ledger)

OpenIn(t) == {n \in DOMAIN t : t[n].phase = "open"}
OpenTxs == OpenIn(txs)

(* budgetView; "but" is the transaction about to be settled, or 0 *)
WallLeft(f, but) ==
  LET used == Cardinality({e \in f.ledger : e.kind = "wall"})
                + MapThenSumSet(LAMBDA n : f.txs[n].wall, OpenIn(f.txs) \ {but})
  IN  IF used >= limits.wall THEN 0 ELSE limits.wall - used
PointsStopped(f) ==
  limits.points /\ \E e \in f.ledger \ acked : e.kind \in STOP_KINDS
Exhausted(f, but) ==
  \/ limits.wall > 0 /\ WallLeft(f, but) = 0
  \/ limits.points /\ OpenIn(f.txs) \ {but} # {}
  \/ PointsStopped(f)

(* Mutant: a dependency that was cancelled counts as out of the way. *)
ReadyPastCancelled(i, f, but) ==
  /\ \A d \in DepsOf[i] : items[d].state \in {"completed", "cancelled"}
  /\ ~Exhausted(f, but)
  /\ f.free

(* describeReadiness of an approved item: its dependencies are looked up on disk. *)
Ready(i, f, but) ==
  /\ \A d \in DepsOf[i] : items[d].state = "completed"
  /\ ~Exhausted(f, but)
  /\ f.free

Refreshed(q, i, f, but) ==
  LET it == q[i]
      settled == it.state \in TERMINAL_STATES \cup {"absent"}
      depFailed == \E d \in DepsOf[i] : q[d].state = "failed"
      stuck == it.state = "blocked" /\ it.why = "dep"
  IN  CASE settled -> it
        [] ~settled /\ depFailed -> [state |-> "blocked", why |-> "dep"]
        [] ~settled /\ ~depFailed /\ (stuck \/ it.state = "running") -> it
        [] ~settled /\ ~depFailed /\ ~stuck /\ i \notin approved ->
             IF it.state \in {"authorized", "ready"}
             THEN [state |-> "blocked", why |-> "auth"] ELSE it
        [] OTHER ->
             [state |-> IF Ready(i, f, but) THEN "ready" ELSE "authorized",
              why |-> IF it.state = "blocked" THEN "none" ELSE it.why]

(* refreshStates *)
Refresh(q, f, but) == [i \in Items |-> Refreshed(q, i, f, but)]
Now(q) == Refresh(q, Disk, 0)

-----------------------------------------------------------------------------
(* Settling a transaction. *)

(* appendLedgerEntry, for the entries of a settlement: one that is there already is not
   added again. *)
Charge(l, es) == l \cup es

(* Mutant: a session without usage on record is not charged its time either. *)
SpentWhenMetered(n, absent) ==
  {[kind |-> IF s \in absent THEN "metering-absent" ELSE "wall", tx |-> n, sid |-> s] :
     s \in txs[n].segs}

(* settleTxLedger: the sessions recorded; for those in "absent" no usage is known *)
Spent(n, absent) ==
  {[kind |-> "wall", tx |-> n, sid |-> s] : s \in txs[n].segs}
    \cup {[kind |-> IF s \in absent THEN "metering-absent" ELSE "points",
           tx |-> n, sid |-> s] : s \in txs[n].segs}
DeliveryWall(n) == {[kind |-> "wall", tx |-> n, sid |-> 0]}
Declared(n) == {[kind |-> "killed-inflight", tx |-> n, sid |-> 0]}

(* Mutant: killed transactions are left open. *)
ClosedUnlessKilled(t, n, phase) == IF phase = "killed" THEN t ELSE [t EXCEPT ![n].phase = phase]

Closed(t, n, phase) == [t EXCEPT ![n].phase = phase]

(* One transaction of the database writes the item and the row it is dispatched under;
   at a settlement, what the sessions spent as well. *)
patchDispatchTx(q, t) == [items |-> q, txs |-> t]
settleDispatch(q, n, phase, l) == [items |-> q, txs |-> Closed(txs, n, phase), ledger |-> l]

SetItem(q, i, state, why) == [q EXCEPT ![i] = [state |-> state, why |-> why]]
Completed(q, i) == [q EXCEPT ![i].state = "completed"]

(* acknowledgeDeliveries: what failed only at its delivery and is delivered since *)
Acknowledged(q) ==
  [i \in Items |-> IF q[i].state = "failed" /\ q[i].why = "delivery" /\ i \in shown
                   THEN [q[i] EXCEPT !.state = "completed"] ELSE q[i]]

-----------------------------------------------------------------------------
(* reconcileDispatch *)

(* The delivery chain of a transaction still runs, and within its bound. *)
ChainAlive(n, late) ==
  /\ txs[n].sender # None /\ ~late
  /\ job[txs[n].sender].at \in {"deliver", "abort"} /\ job[txs[n].sender].tx = n

(* The verdict on one open transaction, by what the slot holds. *)
Verdict(n, late, blocked) ==
  LET i == txs[n].item
      In(status) == slot = [goal |-> i, status |-> status]
  IN  CASE In("executing") -> IF lease \in Procs THEN "busy-live" ELSE "killed"
        [] In("done") /\ i \in Delivered ->
             IF ChainAlive(n, late) THEN "delivering" ELSE "delivery"
        [] In("done") /\ i \notin Delivered -> IF blocked THEN "blocked" ELSE "settled"
        [] OTHER -> "orphan"

(* What it does to the queue in memory ... *)
ItemAfter(q, i, verdict) ==
  CASE verdict = "killed" /\ q[i].state = "running" -> [q EXCEPT ![i].state = "ready"]
    [] verdict = "delivery" -> IF i \in shown THEN Completed(q, i)
                               ELSE SetItem(q, i, "failed", "delivery")
    [] verdict = "blocked" -> [q EXCEPT ![i].why = "other"]
    [] verdict = "settled" -> Completed(q, i)
    [] verdict = "orphan" /\ q[i].state \notin TERMINAL_STATES ->
         SetItem(q, i, "failed", "other")
    [] OTHER -> q

(* ... and what it writes at once. *)
WritesFor(n, verdict, absent) ==
  LET charged == Charge(ledger, Spent(n, absent))
      all == IF txs[n].sender = None THEN charged ELSE Charge(charged, DeliveryWall(n))
  IN  CASE verdict = "killed" ->
             <<WTxs(Closed(txs, n, "killed")), WLedger(Charge(ledger, Declared(n))), WLease>>
        [] verdict = "delivery" -> <<WLedger(charged), WLedger(all), WTxs(Closed(txs, n, "settled"))>>
        [] verdict = "settled" -> <<WLedger(charged), WTxs(Closed(txs, n, "settled"))>>
        [] verdict = "blocked" -> <<WTxs([txs EXCEPT ![n].refused = TRUE])>>
        [] verdict = "orphan" -> <<WTxs(Closed(txs, n, "reconciled-orphan"))>>
        [] OTHER -> <<>>

(* lzy queue dispatch [--item]: it takes the lock and reconciles first.  Without an open
   transaction the queue is written only if a delivery is acknowledged. *)
Dispatch(p) ==
  /\ Is(p, "idle") /\ \E i \in Items : items[i].state # "absent"
  /\ \E only \in {None} \cup (IF "pick one" \in People THEN Items ELSE {}) :
       job' = [job EXCEPT ![p].at = IF OpenTxs = {} THEN "pick" ELSE "reconcile", ![p].only = only]
  /\ LET q == Acknowledged(items)
     IN  IF OpenTxs = {}
         THEN Script(p, IF q = items THEN <<>> ELSE <<WItems(Now(q))>>)
         ELSE script' = [by |-> p, writes |-> <<>>, left |-> OpenTxs, q |-> items]
  /\ UNCHANGED <<env_vars, store_vars, slot, shown, finished>>

Reconciles(p) == job[p].at = "reconcile" /\ script.by = p /\ script.writes = <<>>

(* The next open transaction, under the lock. *)
ReconcileTx(p, n) ==
  /\ Reconciles(p) /\ n \in script.left /\ \A m \in script.left : n <= m
  /\ \E late, blocked \in BOOLEAN, absent \in SUBSET txs[n].segs :
       LET v == Verdict(n, late, blocked)
       IN  /\ late => ChainAlive(n, FALSE)
           /\ blocked => v = "blocked"
           /\ script' = [by |-> p, writes |-> WritesFor(n, v, absent), left |-> script.left \ {n},
                         q |-> ItemAfter(script.q, txs[n].item, v)]
  /\ UNCHANGED <<env_vars, store_vars, slot, shown, job, finished>>

(* Behind the last one the queue is written, with the deliveries acknowledged. *)
Reconciled(p) ==
  /\ Reconciles(p) /\ script.left = {}
  /\ Script(p, <<WItems(Now(Acknowledged(script.q)))>>) /\ To(p, "pick")
  /\ UNCHANGED <<env_vars, store_vars, slot, shown, finished>>

-----------------------------------------------------------------------------
(* Picking the item that was added first, and opening its transaction. *)

Candidates(p) == IF job[p].only = None THEN Items ELSE {job[p].only}

(* All the wall time that is left is reserved. *)
Opened(i, wall) ==
  Append(txs, [item |-> i, phase |-> "open", wall |-> wall, segs |-> {}, sender |-> None,
               refused |-> FALSE, ran |-> {}])

(* Nothing to dispatch: an item runs, none is ready, or the budget is spent. *)
PickNothing(p, q) ==
  /\ \/ \E i \in Candidates(p) : q[i].state = "running"
     \/ \A i \in Candidates(p) : q[i].state # "ready"
     \/ Exhausted(Disk, 0)
  /\ Script(p, <<WItems(q)>>) /\ Quit(p)

(* preDispatchCheck: a contract or a HEAVY plan is no longer what was queued. *)
PickRejected(p, q, i) ==
  /\ Script(p, <<WItems(q), WItems(SetItem(q, i, "failed", "other"))>>) /\ Quit(p)

(* SQLite refuses an item that has an open transaction; JSON does not look. *)
Occupied(i) == store = "sqlite" /\ \E n \in OpenTxs : txs[n].item = i

(* The row of the transaction and the item that runs, at once. *)
occupyDispatch(i, wall, running) == patchDispatchTx(running, Opened(i, wall))

PickRefused(p, q, i) ==
  /\ Occupied(i)
  /\ Script(p, <<WItems(q)>>) /\ Quit(p)

PickOpened(p, q, i) ==
  LET running == [q EXCEPT ![i].state = "running"]
  IN  /\ Len(txs) < MaxTx
      /\ \E wall \in 0..limits.wall :
           /\ wall = WallLeft(Disk, 0)
           /\ IF store = "sqlite"
              THEN ~Occupied(i) /\ Script(p, <<WItems(q), occupyDispatch(i, wall, running)>>)
              ELSE Script(p, <<WItems(q), WTxs(Opened(i, wall)), WItems(running)>>)
      /\ job' = [job EXCEPT ![p].at = "slot", ![p].item = i, ![p].tx = Len(txs) + 1,
                            ![p].ran = {}, ![p].ok = FALSE, ![p].sent = "none"]

Pick(p) ==
  /\ Is(p, "pick")
  /\ LET q == Now(items)
         ready == {i \in Candidates(p) : q[i].state = "ready"}
     IN  \/ PickNothing(p, q)
         \/ /\ \A i \in Candidates(p) : q[i].state # "running"
            /\ \E i \in ready :
                 /\ \A j \in ready : i <= j
                 /\ \/ PickRejected(p, q, i)
                    \/ ~Exhausted(Disk, 0) /\ (PickRefused(p, q, i) \/ PickOpened(p, q, i))
  /\ UNCHANGED <<env_vars, store_vars, slot, shown, finished>>

-----------------------------------------------------------------------------
(* Moving the goal into the slot. *)

(* The goal in the slot is read outside the lock. *)
ReadSlot(p) ==
  /\ Is(p, "slot")
  /\ To(p, CASE slot = None -> "register"
             [] slot # None /\ slot.goal = job[p].item -> "bind"
             [] slot # None /\ slot.goal # job[p].item ->
                  IF slot.status = "executing" THEN "yield" ELSE "reset")
  /\ UNCHANGED <<env_vars, store_vars, slot, shown, script, finished>>

(* Another goal executes there: the transaction is closed and the item fails.
   JSON patches dispatch.json outside the lock first. *)
Yield(p) ==
  LET t == Closed(txs, job[p].tx, "reconciled-orphan")
      q == SetItem(items, job[p].item, "failed", "other")
  IN  /\ Is(p, "yield") /\ Quit(p)
      /\ Script(p, IF store = "sqlite" THEN <<patchDispatchTx(q, t)>>
                   ELSE <<WTxs(t), WItems(q)>>)
      /\ UNCHANGED <<env_vars, store_vars, slot, shown, finished>>

(* resetLoop: whatever the slot holds by now is archived. *)
ResetSlot(p) ==
  /\ Is(p, "reset") /\ To(p, "register")
  /\ slot' = None
  /\ UNCHANGED <<env_vars, store_vars, shown, script, finished>>

(* registerGoal and adoptPlan; startLoop.  Each may refuse. *)
Register(p) ==
  /\ Is(p, "register")
  /\ \/ /\ slot = None /\ To(p, "start")
        /\ slot' = [goal |-> job[p].item, status |-> "planning"]
     \/ /\ To(p, "catch") /\ UNCHANGED slot
  /\ UNCHANGED <<env_vars, store_vars, shown, script, finished>>

Start(p) ==
  /\ Is(p, "start")
  /\ \/ /\ slot # None /\ slot.status = "planning" /\ To(p, "bind")
        /\ slot' = [slot EXCEPT !.status = "executing"]
     \/ /\ To(p, "catch") /\ UNCHANGED slot
  /\ UNCHANGED <<env_vars, store_vars, shown, script, finished>>

(* bindDeliveryContract and the start of runDrive: both want an executing goal, the
   drive a free lease too. *)
BindAndDrive(p) ==
  /\ Is(p, "bind")
  /\ \/ /\ slot # None /\ slot.status = "executing" /\ lease = None
        /\ job' = [job EXCEPT ![p].at = "driving", ![p].drives = slot.goal]
        /\ lease' = p
     \/ To(p, "catch") /\ UNCHANGED lease
  /\ UNCHANGED <<env_vars, items, txs, ledger, slot, shown, script, finished>>

-----------------------------------------------------------------------------
(* The drive. *)

Done(g) ==
  /\ slot' = [slot EXCEPT !.status = "done"]
  /\ finished' = finished \cup ({g} \cap Items)

(* A segment runs, in a new session or one resumed; its agent may finish the goal. *)
Segment(p, s) ==
  /\ job[p].at = "driving"
  /\ \A r \in Sessions : r < s => r \in job[p].ran
  /\ job' = [job EXCEPT ![p].ran = @ \cup {s}]
  /\ txs' = [txs EXCEPT ![job[p].tx].ran = @ \cup {s}]
  /\ \/ /\ slot # None /\ slot.status = "executing" /\ slot.goal = job[p].drives
        /\ Free /\ Done(slot.goal)
     \/ UNCHANGED <<slot, finished>>
  /\ s \notin job[p].ran \/ slot' # slot
  /\ UNCHANGED <<env_vars, items, ledger, lease, shown, script>>

(* The drive ends and gives the lease back.  It ends well not only when its goal is done:
   out of time, points or segments, stuck, blocked by an obligation or before a step too
   risky it stops as well, before its first segment too, and may not have looked at the
   goal since. *)
DriveEnds(p) ==
  /\ job[p].at = "driving"
  /\ \E ok \in BOOLEAN : job' = [job EXCEPT ![p].at = "record", ![p].ok = ok]
  /\ lease' = None
  /\ UNCHANGED <<env_vars, items, txs, ledger, slot, shown, script, finished>>

(* It throws (its spending cannot be written): the lease is given back all the same, and
   what it ran is not recorded. *)
DriveThrows(p) ==
  /\ job[p].at = "driving" /\ To(p, "catch")
  /\ lease' = None
  /\ UNCHANGED <<env_vars, items, txs, ledger, slot, shown, script, finished>>

(* A write outside the lock: SQLite waits for the transaction of another process. *)
Patch(p, t) == (store = "json" \/ Free) /\ txs' = t

(* What the drive ran is recorded, outside the lock. *)
Record(p) ==
  /\ job[p].at = "record"
  /\ Patch(p, [txs EXCEPT ![job[p].tx].segs = job[p].ran])
  /\ To(p, IF job[p].ok THEN "finish" ELSE "failing")
  /\ UNCHANGED <<env_vars, items, ledger, lease, slot, shown, script, finished>>

-----------------------------------------------------------------------------
(* The drive failed: item first, then the transaction, then what it spent; SQLite
   does it all at once. *)

Failing(p) ==
  LET n == job[p].tx
      q == Now(SetItem(items, job[p].item, "failed", "other"))
  IN  /\ Is(p, "failing")
      /\ \E absent \in SUBSET txs[n].segs :
           IF store = "sqlite"
           THEN /\ To(p, "clear")
                /\ Script(p, <<settleDispatch(q, n, "settled", Charge(ledger, Spent(n, absent)))>>)
           ELSE absent = {} /\ To(p, "fail-settle") /\ Script(p, <<WItems(q)>>)
      /\ UNCHANGED <<env_vars, store_vars, slot, shown, finished>>

(* JSON: the two later writes are outside the lock. *)
FailSettle(p) ==
  /\ job[p].at = "fail-settle" /\ script.by # p
  /\ To(p, "fail-charge")
  /\ Patch(p, Closed(txs, job[p].tx, "settled"))
  /\ UNCHANGED <<env_vars, items, ledger, lease, slot, shown, script, finished>>

FailCharge(p) ==
  /\ job[p].at = "fail-charge" /\ To(p, "clear")
  /\ \E absent \in SUBSET txs[job[p].tx].segs :
       ledger' = Charge(ledger, Spent(job[p].tx, absent))
  /\ UNCHANGED <<env_vars, items, txs, lease, slot, shown, script, finished>>

-----------------------------------------------------------------------------
(* The drive ended well: finish, deliver, conclude. *)

(* finishLoop if the goal still executes; a goal that is done passes the gate again;
   if it is neither nothing is asked. *)
Finish(p) ==
  /\ Is(p, "finish")
  /\ LET status == IF slot = None THEN "none" ELSE slot.status
     IN  \/ /\ status \in {"executing", "done"}
            /\ job' = [job EXCEPT ![p].at = "conclude", ![p].ok = FALSE]
            /\ UNCHANGED <<slot, finished>>
         \/ /\ To(p, IF job[p].item \in Delivered THEN "mark" ELSE "conclude")
            /\ IF status = "executing" THEN Done(slot.goal) ELSE UNCHANGED <<slot, finished>>
  /\ UNCHANGED <<env_vars, store_vars, shown, script>>

(* The transaction is marked as delivering, outside the lock. *)
Mark(p) ==
  /\ job[p].at = "mark" /\ To(p, "deliver")
  /\ Patch(p, [txs EXCEPT ![job[p].tx].sender = p])
  /\ UNCHANGED <<env_vars, items, ledger, lease, slot, shown, script, finished>>

(* runDeliveryChain: every endpoint done, some not, or broken off. *)
Deliver(p) ==
  /\ job[p].at = "deliver"
  /\ \/ /\ job' = [job EXCEPT ![p].at = "conclude", ![p].sent = "ok"]
        /\ shown' = shown \cup {job[p].item}
     \/ /\ job[p].item \notin shown
        /\ job' = [job EXCEPT ![p].at = "conclude", ![p].sent = "unmet"]
        /\ UNCHANGED shown
     \/ /\ job[p].item \notin shown
        /\ To(p, "abort") /\ UNCHANGED shown
  /\ UNCHANGED <<env_vars, store_vars, slot, script, finished>>

(* abortDelivery: with either store a write each. *)
AbortDelivery(p) ==
  LET n == job[p].tx
      i == job[p].item
  IN  /\ Is(p, "abort") /\ Quit(p)
      /\ \E absent \in SUBSET txs[n].segs :
           LET charged == Charge(ledger, Spent(n, absent))
               all == Charge(charged, DeliveryWall(n))
               closed == Closed(txs, n, "killed")
           IN  Script(p, IF items[i].state \in TERMINAL_STATES
                         THEN <<WLedger(charged), WLedger(all), WTxs(closed)>>
                         ELSE <<WItems(SetItem(items, i, "failed", "delivery")),
                                WLedger(charged), WLedger(all), WTxs(closed)>>)
      /\ UNCHANGED <<env_vars, store_vars, slot, shown, finished>>

(* Mutant: the goal is done, so the item is, delivered or not. *)
OutcomeUndelivered(p) ==
  IF job[p].ok THEN Completed(items, job[p].item)
  ELSE [items EXCEPT ![job[p].item].state = "ready"]

(* The item as the run left it, whatever became of it meanwhile. *)
Outcome(p) ==
  LET i == job[p].item
  IN  CASE job[p].ok /\ job[p].sent # "unmet" -> Completed(items, i)
        [] job[p].ok /\ job[p].sent = "unmet" -> SetItem(items, i, "failed", "delivery")
        [] ~job[p].ok -> [items EXCEPT ![i].state = "ready"]

Conclude(p) ==
  LET n == job[p].tx
      phase == IF job[p].ok THEN "settled" ELSE "killed"
  IN  /\ Is(p, "conclude") /\ To(p, "final")
      /\ \E absent \in SUBSET txs[n].segs :
           LET charged == Charge(ledger, Spent(n, absent))
               all == IF job[p].item \in Delivered THEN Charge(charged, DeliveryWall(n))
                      ELSE charged
               closed == Closed(txs, n, phase)
           IN  Script(p, IF store = "sqlite"
                         THEN <<settleDispatch(Refresh(Outcome(p), Disk, n), n, phase, all)>>
                         ELSE <<WLedger(charged), WLedger(all), WTxs(closed),
                                WItems(Refresh(Outcome(p), After(closed, all), 0))>>)
      /\ UNCHANGED <<env_vars, store_vars, slot, shown, finished>>

(* The item is read again: the slot is emptied only behind a completed one. *)
Final(p) ==
  /\ Is(p, "final")
  /\ IF items[job[p].item].state = "completed" THEN To(p, "clear") ELSE Quit(p)
  /\ UNCHANGED <<env_vars, store_vars, slot, shown, script, finished>>

(* resetLoop behind a failed or a completed run; after a completed one the next item
   is picked, without reconciling. *)
Clear(p) ==
  /\ Is(p, "clear")
  /\ slot' = None
  /\ IF job[p].ok /\ job[p].only = None
     THEN job' = [job EXCEPT ![p] = [Idle EXCEPT !.at = "pick"]]
     ELSE Quit(p)
  /\ UNCHANGED <<env_vars, store_vars, shown, script, finished>>

(* Something threw: the item goes back to ready, its transaction stays open. *)
Catch(p) ==
  /\ Is(p, "catch") /\ Quit(p)
  /\ Script(p, IF items[job[p].item].state # "running" THEN <<>>
               ELSE <<WItems([items EXCEPT ![job[p].item].state = "ready"])>>)
  /\ UNCHANGED <<env_vars, store_vars, slot, shown, finished>>

Kill(p) ==
  /\ (job[p].at # "idle" \/ script.by = p) /\ kills < MaxKills
  /\ kills' = kills + 1
  /\ Quit(p)
  /\ script' = IF script.by = p THEN NoScript ELSE script
  /\ lease' = IF lease = p THEN "dead" ELSE lease
  /\ UNCHANGED <<store, limits, items, approved, txs, ledger, acked, slot, shown,
                 finished, turns>>

-----------------------------------------------------------------------------
(* People. *)

(* lzy queue add: the items it depends on are there already *)
AddQueueItem(i) ==
  /\ Free /\ items[i].state = "absent" /\ \A j \in Items : j < i => items[j].state # "absent"
  /\ items' = [items EXCEPT ![i].state = "proposed"]
  /\ UNCHANGED <<env_vars, txs, ledger, lease, slot, shown, job, script, finished>>

(* lzy queue cancel: anything but what is terminal *)
CancelQueueItem(i) ==
  /\ "cancel" \in People /\ Free
  /\ items[i].state \notin TERMINAL_STATES \cup {"absent"}
  /\ items' = Now([items EXCEPT ![i] = [state |-> "cancelled", why |-> "other"]])
  /\ UNCHANGED <<env_vars, txs, ledger, lease, slot, shown, job, script, finished>>

(* lzy queue list: refreshQueue *)
RefreshQueue ==
  /\ Free /\ items # Now(items)
  /\ items' = Now(items)
  /\ UNCHANGED <<env_vars, txs, ledger, lease, slot, shown, job, script, finished>>

(* The contracts of an item are approved, or an approval is withdrawn. *)
Authorize(i) ==
  /\ turns < MaxTurns /\ turns' = turns + 1
  /\ approved' = IF i \in approved THEN approved \ {i} ELSE approved \cup {i}
  /\ UNCHANGED <<store, limits, store_vars, acked, slot, shown, job, script, finished, kills>>

(* lzy queue budget --resume-points *)
ResumePoints ==
  /\ Free /\ PointsStopped(Disk)
  /\ acked' = ledger
  /\ UNCHANGED <<store, limits, store_vars, approved, slot, shown, job, script, finished,
                 kills, turns>>

(* A lease nobody renews expires. *)
LeaseExpires ==
  /\ lease = "dead" /\ lease' = None
  /\ UNCHANGED <<env_vars, items, txs, ledger, slot, shown, job, script, finished>>

(* A delivery that was not met is completed by hand. *)
DeliverByHand(i) ==
  /\ i \in finished \cap Delivered /\ i \notin shown
  /\ items[i].state = "failed"
  /\ shown' = shown \cup {i}
  /\ UNCHANGED <<env_vars, store_vars, slot, job, script, finished>>

(* Somebody resets the loop, or starts and finishes a goal of his own. *)
PersonUsesSlot ==
  /\ \/ "any time" \in People
     \/ "slot" \in People /\ \A p \in Procs : job[p].at \in {"idle", "pick", "slot"}
  /\ Free /\ turns < MaxTurns /\ turns' = turns + 1
  /\ \/ slot # None /\ slot' = None
     \/ slot = None /\ slot' = [goal |-> Other, status |-> "executing"]
     \/ slot = [goal |-> Other, status |-> "executing"] /\ slot' = [slot EXCEPT !.status = "done"]
  /\ UNCHANGED <<store, limits, store_vars, approved, acked, shown, job, script, finished, kills>>

Work(p) ==
  \/ Dispatch(p) \/ (\E n \in 1..MaxTx : ReconcileTx(p, n)) \/ Reconciled(p) \/ Pick(p) \/ ReadSlot(p) \/ Yield(p)
  \/ ResetSlot(p) \/ Register(p)
  \/ Start(p) \/ BindAndDrive(p) \/ DriveEnds(p) \/ DriveThrows(p) \/ Record(p)
  \/ \E s \in Sessions : Segment(p, s)
  \/ Failing(p) \/ FailSettle(p) \/ FailCharge(p)
  \/ Finish(p) \/ Mark(p) \/ Deliver(p) \/ AbortDelivery(p) \/ Conclude(p) \/ Final(p)
  \/ Clear(p) \/ Catch(p)

Next ==
  \/ DiskWrite
  \/ \E p \in Procs : Work(p) \/ Kill(p)
  \/ \E i \in Items : AddQueueItem(i) \/ CancelQueueItem(i) \/ Authorize(i) \/ DeliverByHand(i)
  \/ RefreshQueue \/ ResumePoints \/ LeaseExpires \/ PersonUsesSlot

Spec == Init /\ [][Next]_vars

-----------------------------------------------------------------------------
(* Properties. *)

(* An item counts as completed only if its own goal was done and, where delivery is
   declared, every endpoint is done: whatever order kills, reconciliations and people
   put between the finish of the goal and the record of the item. *)
CompletedIsDone ==
  \A i \in Items : items[i].state = "completed" =>
    i \in finished /\ (i \in Delivered => i \in shown)

(* What a killed dispatcher left open is dealt with before anything new is dispatched: of
   two open transactions the older is one that the gate refused when it was reconciled, with
   SQLite they are of different items; and a drive runs only under its own open one, so that
   what it spends is reserved.  Of dispatchers one after the other: two at a time are
   excluded by the code ("serial dispatch by a single worker") and do not keep it. *)
ReconciledFirst ==
  /\ \A m, n \in OpenTxs : m < n =>
       txs[m].refused /\ (store = "sqlite" => txs[m].item # txs[n].item)
  /\ \A p \in Procs : job[p].at = "driving" => job[p].tx \in OpenTxs

(* Nothing is driven before everything it depends on is completed for good. *)
DepsFirst ==
  \A n \in DOMAIN txs : \A d \in DepsOf[txs[n].item] : items[d].state = "completed"

DispatchedInOrder == ReconciledFirst /\ DepsFirst

(* The wall entry of session s under transaction n is in the ledger. *)
HasWall(n, s) == [kind |-> "wall", tx |-> n, sid |-> s] \in ledger

(* What a transaction recorded is charged before it is closed, however its settlement is
   interrupted and repeated.  Three paths do not keep this and are left out: an orphan is
   closed without charging, reconciling closes a killed transaction before it declares it,
   and with JSON a failed drive is settled first and charged second. *)
RecordedIsCharged ==
  \A n \in DOMAIN txs :
    txs[n].phase = "settled" /\ (store = "sqlite" \/ items[txs[n].item].why # "other") =>
      \A s \in txs[n].segs : HasWall(n, s)

(* Terminal states are final, with two exceptions: reconciling or a delivery made later
   completes a failed item whose goal was done after all, and an item cancelled after it
   was dispatched is overwritten by its dispatch or by the reconciliation of it. *)
FinalKept ==
  [][\A i \in Items :
       items[i].state \in TERMINAL_STATES /\ items'[i].state # items[i].state =>
         \/ items[i].state = "failed" /\ items'[i].state = "completed" /\ i \in finished
         \/ items[i].state = "cancelled" /\ \E n \in DOMAIN txs : txs[n].item = i]_vars

=============================================================================
