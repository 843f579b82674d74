----------------------------- MODULE Queue_proof -----------------------------
(***************************************************************************)
(* What the queue promises (Queue), proved for any items, dependencies and  *)
(* bounds, either store, and people who approve, cancel and use the slot    *)
(* between dispatches.  One dispatcher works at a time (Serial).            *)
(*                                                                         *)
(* The inductive invariant speaks of the files as they are and of every     *)
(* write still to come, since a kill may come before any of them: whatever  *)
(* part of a script has reached the disk, the files agree.  What the        *)
(* dispatcher relies on is said of the files as its script will leave them. *)
(*                                                                         *)
(* Last, the ledger of use (UsageLedger), for any models, sessions, builds  *)
(* and harvests: the sums that are compared are shown to add up, and no     *)
(* reader ever carries more than was burnt in the sessions it has read.     *)
(***************************************************************************)
EXTENDS Queue, UsageLedger, FiniteSetTheorems, TLAPS

(* Items are dispatched by one process at a time, and while it works nobody else uses the
   slot ("serial dispatch by a single worker", src/core/queue.js:13). *)
Serial == (\A p, q \in Procs : p = q) /\ "any time" \notin People

-----------------------------------------------------------------------------
(* The writes to come. *)

QueuesOf(ws) == {ws[k].items : k \in {k \in DOMAIN ws : "items" \in DOMAIN ws[k]}}
TxsOf(ws) == {ws[k].txs : k \in {k \in DOMAIN ws : "txs" \in DOMAIN ws[k]}}
LedgersOf(ws) == {ws[k].ledger : k \in {k \in DOMAIN ws : "ledger" \in DOMAIN ws[k]}}

QueuesToCome == QueuesOf(script.writes)
TxsToCome == TxsOf(script.writes)

(* The transactions as the script will leave them; none is in two writes of a script. *)
TxsAtLast == IF TxsToCome = {} THEN {txs} ELSE TxsToCome
QueuesAtLast == IF QueuesToCome = {} THEN {items} ELSE QueuesToCome

(* The dispatcher has a transaction of its own, which is open. *)
Owning == {"slot", "yield", "reset", "register", "start", "bind", "driving", "record", "failing",
           "finish", "mark", "deliver", "abort", "conclude", "catch"}

-----------------------------------------------------------------------------
(* The parts of the invariant.  What is said of the writes to come is an operator on     *)
(* scripts, as it is shown of a script before it is taken up.                            *)

LockOk ==
  /\ script.by = None => script.writes = <<>>
  /\ \A p \in Procs :
       /\ job[p].at = "reconcile" => script.by = p
       /\ script.by = p /\ script.writes = <<>> => job[p].at = "reconcile"
       /\ script.by = p => job[p].at \in {"idle", "reconcile", "pick", "slot", "fail-settle",
                                         "clear", "final"}

GoalsOk ==
  /\ shown \subseteq finished
  /\ slot # None /\ slot.status = "done" => slot.goal \in finished \cup {Other}

LeaseOk == \A p \in Procs : lease = p => job[p].at = "driving"

JobOk(p) ==
  /\ job[p].at \in Owning \cup {"fail-settle", "fail-charge", "clear", "final"} =>
       job[p].item \in Items /\ job[p].tx \in 1..MaxTx
  /\ job[p].at = "fail-charge" => job[p].tx \in DOMAIN txs
  /\ job[p].at \in {"start", "bind", "driving"} => slot # None /\ slot.goal = job[p].item
  /\ job[p].at = "driving" => job[p].drives = job[p].item
  /\ job[p].at \in {"driving", "record", "finish"} =>
       slot # None /\ slot.goal = job[p].item /\ slot.status \in {"executing", "done"}
  /\ job[p].ok /\ job[p].at \notin {"record", "finish"} => job[p].item \in finished
  /\ job[p].sent = "ok" => job[p].item \in shown
  /\ job[p].at \in {"finish", "mark", "deliver", "abort"} => job[p].ok
  /\ job[p].at \in {"mark", "deliver", "abort"} => job[p].item \in Delivered
  /\ job[p].at = "conclude" /\ job[p].ok /\ job[p].item \in Delivered => job[p].sent # "none"

(* A queue is right if what it has as completed is, and it may follow another one if what
   was over there still is. *)
Right(q) ==
  \A i \in Items : q[i].state = "completed" => i \in finished /\ (i \in Delivered => i \in shown)
MayFollow(q, r) ==
  \A i \in Items : q[i].state \in TERMINAL_STATES /\ r[i].state # q[i].state =>
    \/ q[i].state = "failed" /\ r[i].state = "completed" /\ i \in finished
    \/ q[i].state = "cancelled" /\ \E n \in DOMAIN txs : txs[n].item = i

QueuesFit(ws) ==
  /\ \A q \in QueuesOf(ws) : Right(q) /\ MayFollow(items, q)
  /\ \A m, k \in DOMAIN ws :
       m < k /\ "items" \in DOMAIN ws[m] /\ "items" \in DOMAIN ws[k] =>
         MayFollow(ws[m].items, ws[k].items)
QueuesOk == Right(items) /\ QueuesFit(script.writes)

MemoryOk ==
  \A p \in Procs : job[p].at = "reconcile" =>
    Right(script.q) /\ MayFollow(items, script.q) /\ QueuesToCome = {}

(* An item that is over for another reason than its delivery. *)
OverIn(q, i) == q[i].state \in TERMINAL_STATES /\ q[i].why = "other"

(* Everything a list of transactions dispatched was ready; of two open ones the gate
   refused the older; and a list never forgets. *)
WereReady(t) == \A n \in DOMAIN t : \A d \in DepsOf[t[n].item] : items[d].state = "completed"
Once(t) ==
  /\ \A m, n \in OpenIn(t) : m < n => t[m].refused /\ (store = "sqlite" => t[m].item # t[n].item)
  /\ \A n \in DOMAIN t : t[n].refused => t[n].item \notin Delivered
Extends(t) == \A n \in DOMAIN txs : n \in DOMAIN t /\ t[n].item = txs[n].item

TxsFit(ws) ==
  /\ \A t \in TxsOf(ws) : WereReady(t) /\ Once(t) /\ Extends(t)
  /\ \A t, u \in TxsOf(ws) : t = u
TxsOk == WereReady(txs) /\ Once(txs) /\ TxsFit(script.writes)

(* What a dispatcher knows of the transactions. *)
AllRefused(t, but) == \A n \in OpenIn(t) : n \in but \/ t[n].refused
Owns(p, t) == /\ job[p].tx \in OpenIn(t) /\ t[job[p].tx].item = job[p].item
              /\ AllRefused(t, {job[p].tx})

Past == {"pick", "fail-charge", "clear", "final"}

OwnOk(p) ==
  /\ job[p].at = "reconcile" =>
       \A t \in TxsAtLast : script.left \subseteq OpenIn(t) /\ AllRefused(t, script.left)
  /\ job[p].at \in Past => \A t \in TxsAtLast : AllRefused(t, {})
  /\ job[p].at \in Owning \cup {"fail-settle"} => \A t \in TxsAtLast : Owns(p, t)
  /\ job[p].at \in Owning =>
       \A q \in {items} \cup QueuesToCome :
         q[job[p].item].state \notin {"completed", "failed", "absent"}
  /\ job[p].at = "fail-settle" =>
       store = "json" /\ \A q \in QueuesAtLast : OverIn(q, job[p].item)

(* It stays so: nothing to come changes it. *)
KeptIn(ws, i) ==
  /\ \A q \in QueuesOf(ws) : OverIn(q, i)
  /\ \A t \in TxsOf(ws) : \A n \in OpenIn(t) : t[n].item = i => t[n].refused
Over(i) ==
  /\ store = "json" /\ OverIn(items, i) /\ KeptIn(script.writes, i)
  /\ \A n \in OpenTxs : txs[n].item = i => txs[n].refused
  /\ \A p \in Procs :
       /\ job[p].at = "reconcile" => OverIn(script.q, i)
       /\ job[p].at \in Owning => job[p].item # i

(* A transaction is settled behind the entries of all it recorded, unless its item is over. *)
Wall(n, s) == [kind |-> "wall", tx |-> n, sid |-> s]
Backed(ws, k, e) ==
  e \in ledger \/ \E m \in 1..k : "ledger" \in DOMAIN ws[m] /\ e \in ws[m].ledger

SettledFit(ws) ==
  \A k \in DOMAIN ws : "txs" \in DOMAIN ws[k] =>
    \A n \in DOMAIN ws[k].txs : ws[k].txs[n].phase = "settled" =>
      (\A s \in ws[k].txs[n].segs : Backed(ws, k, Wall(n, s))) \/ Over(ws[k].txs[n].item)
ChargeOk ==
  /\ \A n \in DOMAIN txs : txs[n].phase = "settled" =>
       (\A s \in txs[n].segs : Wall(n, s) \in ledger) \/ Over(txs[n].item)
  /\ SettledFit(script.writes)

LedgersFit(ws) ==
  /\ \A l \in LedgersOf(ws) : ledger \subseteq l
  /\ \A m, k \in DOMAIN ws :
       m < k /\ "ledger" \in DOMAIN ws[m] /\ "ledger" \in DOMAIN ws[k] =>
         ws[m].ledger \subseteq ws[k].ledger

QueueInv ==
  /\ Serial /\ TypeOK /\ LockOk /\ GoalsOk /\ LeaseOk
  /\ QueuesOk /\ MemoryOk /\ TxsOk /\ ChargeOk /\ LedgersFit(script.writes)
  /\ \A p \in Procs : JobOk(p) /\ OwnOk(p)


-----------------------------------------------------------------------------
(* What the operators do. *)

LEMMA RefreshLaw ==
  ASSUME NEW q \in Queues, NEW f, NEW but
  PROVE  /\ Refresh(q, f, but) \in Queues
         /\ \A i \in Items :
              /\ q[i].state \in TERMINAL_STATES => Refresh(q, f, but)[i] = q[i]
              /\ Refresh(q, f, but)[i].state \in TERMINAL_STATES => Refresh(q, f, but)[i] = q[i]
              /\ Refresh(q, f, but)[i].state = "ready" => Ready(i, f, but)
              /\ Refresh(q, f, but)[i].state = "absent" => q[i].state = "absent"
              /\ Refresh(q, f, but)[i].state = "ready" => q[i].state \notin TERMINAL_STATES \cup {"absent"}
<1>1. \A i \in Items :
        /\ Refreshed(q, i, f, but) \in Item
        /\ q[i].state \in TERMINAL_STATES => Refreshed(q, i, f, but) = q[i]
        /\ Refreshed(q, i, f, but).state \in TERMINAL_STATES => Refreshed(q, i, f, but) = q[i]
        /\ Refreshed(q, i, f, but).state = "ready" => Ready(i, f, but)
        /\ Refreshed(q, i, f, but).state = "absent" => q[i].state = "absent"
        /\ Refreshed(q, i, f, but).state = "ready" => q[i].state \notin TERMINAL_STATES \cup {"absent"}
  <2> SUFFICES ASSUME NEW i \in Items
               PROVE  /\ Refreshed(q, i, f, but) \in Item
                      /\ q[i].state \in TERMINAL_STATES => Refreshed(q, i, f, but) = q[i]
                      /\ Refreshed(q, i, f, but).state \in TERMINAL_STATES => Refreshed(q, i, f, but) = q[i]
                      /\ Refreshed(q, i, f, but).state = "ready" => Ready(i, f, but)
                      /\ Refreshed(q, i, f, but).state = "absent" => q[i].state = "absent"
                      /\ Refreshed(q, i, f, but).state = "ready" =>
                           q[i].state \notin TERMINAL_STATES \cup {"absent"}
    OBVIOUS
  <2>1. q[i] \in Item
    BY DEF Queues
  <2> DEFINE settled == q[i].state \in TERMINAL_STATES \cup {"absent"}
             depFailed == \E d \in DepsOf[i] : q[d].state = "failed"
             stuck == q[i].state = "blocked" /\ q[i].why = "dep"
             new == [state |-> IF Ready(i, f, but) THEN "ready" ELSE "authorized",
                     why |-> IF q[i].state = "blocked" THEN "none" ELSE q[i].why]
  <2>2. Refreshed(q, i, f, but) =
          CASE settled -> q[i]
            [] ~settled /\ depFailed -> [state |-> "blocked", why |-> "dep"]
            [] ~settled /\ ~depFailed /\ (stuck \/ q[i].state = "running") -> q[i]
            [] ~settled /\ ~depFailed /\ ~stuck /\ i \notin approved ->
                 IF q[i].state \in {"authorized", "ready"}
                 THEN [state |-> "blocked", why |-> "auth"] ELSE q[i]
            [] OTHER -> new
    BY DEF Refreshed
  <2>3. CASE settled
    BY <2>1, <2>2, <2>3 DEF Item, TERMINAL_STATES
  <2>4. CASE ~settled /\ depFailed
    <3>1. Refreshed(q, i, f, but) = [state |-> "blocked", why |-> "dep"]
      BY <2>2, <2>4
    <3>2. QED
      BY <2>4, <3>1 DEF Item, TERMINAL_STATES, ITEM_STATES, Reasons
  <2>5. CASE ~settled /\ ~depFailed /\ (stuck \/ q[i].state = "running")
    <3>1. Refreshed(q, i, f, but) = q[i]
      BY <2>2, <2>5
    <3>2. QED
      BY <2>1, <2>5, <3>1 DEF Item, TERMINAL_STATES
  <2>6. CASE ~settled /\ ~depFailed /\ ~(stuck \/ q[i].state = "running") /\ i \notin approved
    <3>1. Refreshed(q, i, f, but) = IF q[i].state \in {"authorized", "ready"}
                                    THEN [state |-> "blocked", why |-> "auth"] ELSE q[i]
      BY <2>2, <2>6
    <3>2. QED
      BY <2>1, <2>6, <3>1 DEF Item, TERMINAL_STATES, ITEM_STATES, Reasons
  <2>7. CASE ~settled /\ ~depFailed /\ ~(stuck \/ q[i].state = "running") /\ i \in approved
    <3>1. Refreshed(q, i, f, but) = new
      BY <2>2, <2>7
    <3> HIDE DEF settled, depFailed, stuck
    <3>2. new \in Item
      BY <2>1 DEF Item, ITEM_STATES, Reasons
    <3>3. ~(q[i].state \in TERMINAL_STATES \cup {"absent"})
      BY <2>7 DEF settled
    <3>4. QED
      BY <3>1, <3>2, <3>3 DEF TERMINAL_STATES
  <2>8. QED
    BY <2>3, <2>4, <2>5, <2>6, <2>7
<1>2. \A i \in Items : Refresh(q, f, but)[i] = Refreshed(q, i, f, but)
  BY DEF Refresh
<1>3. Refresh(q, f, but) \in Queues
  BY <1>1 DEF Refresh, Queues
<1>4. QED
  BY <1>1, <1>2, <1>3

(* A queue that was refreshed is right and may follow what the queue before it may. *)
LEMMA RefreshKeeps ==
  ASSUME NEW q \in Queues, NEW f, NEW but
  PROVE  /\ Right(q) => Right(Refresh(q, f, but))
         /\ \A r : MayFollow(r, q) => MayFollow(r, Refresh(q, f, but))
         /\ \A i \in Items : OverIn(q, i) => OverIn(Refresh(q, f, but), i)
<1>1. \A i \in Items : q[i].state \in TERMINAL_STATES \/ Refresh(q, f, but)[i].state \in TERMINAL_STATES
                         => Refresh(q, f, but)[i] = q[i]
  BY RefreshLaw
<1>2. PICK r : r = Refresh(q, f, but)
  OBVIOUS
<1>3. \A i \in Items : q[i].state \in TERMINAL_STATES \/ r[i].state \in TERMINAL_STATES => r[i] = q[i]
  BY <1>1, <1>2
<1>4. Right(q) => Right(r)
  BY <1>3 DEF Right, TERMINAL_STATES
<1>5. ASSUME NEW u, MayFollow(u, q) PROVE MayFollow(u, r)
  <2> SUFFICES ASSUME NEW i \in Items, u[i].state \in TERMINAL_STATES, r[i].state # u[i].state
               PROVE  \/ u[i].state = "failed" /\ r[i].state = "completed" /\ i \in finished
                      \/ u[i].state = "cancelled" /\ \E n \in DOMAIN txs : txs[n].item = i
    BY DEF MayFollow
  <2>1. CASE q[i].state = u[i].state
    BY <1>3, <2>1
  <2>2. CASE q[i].state # u[i].state
    <3>1. \/ u[i].state = "failed" /\ q[i].state = "completed" /\ i \in finished
          \/ u[i].state = "cancelled" /\ \E n \in DOMAIN txs : txs[n].item = i
      BY <1>5, <2>2 DEF MayFollow
    <3>2. QED
      BY <1>3, <3>1 DEF TERMINAL_STATES
  <2>3. QED
    BY <2>1, <2>2
<1>6. \A i \in Items : OverIn(q, i) => OverIn(r, i)
  BY <1>3 DEF OverIn
<1>7. QED
  BY <1>2, <1>4, <1>5, <1>6

LEMMA WriteLaw ==
  /\ \A q \in Queues :
       WItems(q) \in Write /\ DOMAIN WItems(q) = {"items"} /\ WItems(q).items = q
  /\ \A t \in TxLists : WTxs(t) \in Write /\ DOMAIN WTxs(t) = {"txs"} /\ WTxs(t).txs = t
  /\ \A l \in SUBSET Entry :
       WLedger(l) \in Write /\ DOMAIN WLedger(l) = {"ledger"} /\ WLedger(l).ledger = l
  /\ WLease \in Write /\ DOMAIN WLease = {"lease"}
  /\ \A q \in Queues, t \in TxLists :
       /\ patchDispatchTx(q, t) \in Write /\ DOMAIN patchDispatchTx(q, t) = {"items", "txs"}
       /\ patchDispatchTx(q, t).items = q /\ patchDispatchTx(q, t).txs = t
<1>1. \A q \in Queues :
        WItems(q) \in Write /\ DOMAIN WItems(q) = {"items"} /\ WItems(q).items = q
  BY DEF WItems, Write
<1>2. \A t \in TxLists : WTxs(t) \in Write /\ DOMAIN WTxs(t) = {"txs"} /\ WTxs(t).txs = t
  BY DEF WTxs, Write
<1>3. \A l \in SUBSET Entry :
        WLedger(l) \in Write /\ DOMAIN WLedger(l) = {"ledger"} /\ WLedger(l).ledger = l
  BY DEF WLedger, Write
<1>4. WLease \in Write /\ DOMAIN WLease = {"lease"}
  BY DEF WLease, Write
<1>5. \A q \in Queues, t \in TxLists :
        /\ patchDispatchTx(q, t) \in Write /\ DOMAIN patchDispatchTx(q, t) = {"items", "txs"}
        /\ patchDispatchTx(q, t).items = q /\ patchDispatchTx(q, t).txs = t
  BY DEF patchDispatchTx, Write
<1>6. QED
  BY <1>1, <1>2, <1>3, <1>4, <1>5

LEMMA WriteType ==
  ASSUME NEW w \in Write
  PROVE  /\ "items" \in DOMAIN w => w.items \in Queues
         /\ "txs" \in DOMAIN w => w.txs \in TxLists
         /\ "ledger" \in DOMAIN w => w.ledger \in SUBSET Entry
  BY DEF Write

LEMMA TxListLaw ==
  ASSUME NEW t \in TxLists
  PROVE  /\ DOMAIN t = 1..Len(t) /\ Len(t) \in 0..MaxTx /\ t \in Seq(Tx)
         /\ \A n \in DOMAIN t : n \in 1..MaxTx /\ t[n] \in Tx
  BY BoundAssumption DEF TxLists

(* A transaction is changed in place, which never opens it again. *)
LEMMA EditLaw ==
  ASSUME NEW t \in TxLists, NEW n \in DOMAIN t, NEW x \in Tx,
         x.item = t[n].item, x.refused = t[n].refused \/ (x.refused = TRUE /\ x.item \notin Delivered),
         x.phase = "open" => t[n].phase = "open"
  PROVE  LET u == [t EXCEPT ![n] = x] IN
         /\ u \in TxLists /\ DOMAIN u = DOMAIN t /\ u[n] = x
         /\ \A m \in DOMAIN t : u[m].item = t[m].item /\ (m # n => u[m] = t[m])
         /\ \A m \in DOMAIN t : t[m].refused => u[m].refused
         /\ OpenIn(u) \subseteq OpenIn(t)
         /\ x.phase = "open" => OpenIn(u) = OpenIn(t)
         /\ x.phase # "open" => OpenIn(u) = OpenIn(t) \ {n}
         /\ Once(t) => Once(u)
         /\ WereReady(t) => WereReady(u)
         /\ Extends(t) => Extends(u)
<1> DEFINE u == [t EXCEPT ![n] = x]
<1>1. u \in TxLists /\ DOMAIN u = DOMAIN t /\ u[n] = x
  BY TxListLaw DEF TxLists
<1>2. \A m \in DOMAIN t : u[m].item = t[m].item /\ (m # n => u[m] = t[m])
  BY <1>1
<1>3. \A m \in DOMAIN t : t[m].refused => u[m].refused
  BY <1>1, <1>2
<1> HIDE DEF u
<1>4. OpenIn(u) \subseteq OpenIn(t)
  BY <1>1, <1>2 DEF OpenIn
<1>5. x.phase = "open" => OpenIn(u) = OpenIn(t)
  BY <1>1, <1>2 DEF OpenIn
<1>6. x.phase # "open" => OpenIn(u) = OpenIn(t) \ {n}
  BY <1>1, <1>2 DEF OpenIn
<1>7. ASSUME Once(t) PROVE Once(u)
  <2>1. \A k, m \in OpenIn(u) : k < m => u[k].refused /\ (store = "sqlite" => u[k].item # u[m].item)
    <3> SUFFICES ASSUME NEW k \in OpenIn(u), NEW m \in OpenIn(u), k < m
                 PROVE  u[k].refused /\ (store = "sqlite" => u[k].item # u[m].item)
      OBVIOUS
    <3>1. k \in OpenIn(t) /\ m \in OpenIn(t)
      BY <1>4
    <3>2. t[k].refused /\ (store = "sqlite" => t[k].item # t[m].item)
      BY <1>7, <3>1 DEF Once
    <3>3. k \in DOMAIN t /\ m \in DOMAIN t
      BY <3>1 DEF OpenIn
    <3>4. QED
      BY <1>2, <1>3, <3>2, <3>3
  <2>2. \A m \in DOMAIN u : u[m].refused => u[m].item \notin Delivered
    BY <1>1, <1>2, <1>7 DEF Once
  <2>3. QED
    BY <2>1, <2>2 DEF Once
<1>8. WereReady(t) => WereReady(u)
  BY <1>1, <1>2 DEF WereReady
<1>9. Extends(t) => Extends(u)
  BY <1>1, <1>2 DEF Extends
<1>10. QED
  BY <1>1, <1>2, <1>3, <1>4, <1>5, <1>6, <1>7, <1>8, <1>9 DEF u

LEMMA ClosedLaw ==
  ASSUME NEW n \in DOMAIN txs, NEW phase \in Phases, phase # "open", txs \in TxLists
  PROVE  /\ Closed(txs, n, phase) \in TxLists /\ DOMAIN Closed(txs, n, phase) = DOMAIN txs
         /\ Closed(txs, n, phase)[n].phase = phase
         /\ \A m \in DOMAIN txs :
              /\ Closed(txs, n, phase)[m].item = txs[m].item
              /\ Closed(txs, n, phase)[m].segs = txs[m].segs
              /\ Closed(txs, n, phase)[m].refused = txs[m].refused
              /\ m # n => Closed(txs, n, phase)[m] = txs[m]
         /\ OpenIn(Closed(txs, n, phase)) = OpenIn(txs) \ {n}
         /\ Once(txs) => Once(Closed(txs, n, phase))
         /\ WereReady(txs) => WereReady(Closed(txs, n, phase))
         /\ Extends(Closed(txs, n, phase))
<1>1. txs[n] \in Tx
  BY TxListLaw
<1>2. PICK x : x = [txs[n] EXCEPT !.phase = phase]
  OBVIOUS
<1>3. /\ x \in Tx /\ x.phase = phase /\ x.item = txs[n].item
      /\ x.segs = txs[n].segs /\ x.refused = txs[n].refused
  BY <1>1, <1>2 DEF Tx
<1>4. Closed(txs, n, phase) = [txs EXCEPT ![n] = x]
  BY <1>2 DEF Closed
<1>5. Extends(txs)
  BY DEF Extends
<1>6. PICK u : u = [txs EXCEPT ![n] = x]
  OBVIOUS
<1>7. /\ u \in TxLists /\ DOMAIN u = DOMAIN txs /\ u[n] = x
      /\ \A m \in DOMAIN txs : u[m].item = txs[m].item /\ (m # n => u[m] = txs[m])
      /\ Once(txs) => Once(u)
      /\ WereReady(txs) => WereReady(u)
      /\ Extends(txs) => Extends(u)
  <2>1. x.phase # "open"
    BY <1>3
  <2>2. QED
    BY <1>3, <1>6, <2>1, EditLaw
<1>8. OpenIn(u) = OpenIn(txs) \ {n}
  BY <1>3, <1>7 DEF OpenIn
<1>9. QED
  BY <1>3, <1>4, <1>5, <1>6, <1>7, <1>8

(* The note of the gate. *)
LEMMA RefusedLaw ==
  ASSUME NEW n \in DOMAIN txs, txs \in TxLists, txs[n].item \notin Delivered
  PROVE  LET u == [txs EXCEPT ![n].refused = TRUE] IN
         /\ u \in TxLists /\ DOMAIN u = DOMAIN txs
         /\ u[n].refused
         /\ \A m \in DOMAIN txs :
              /\ u[m].item = txs[m].item /\ u[m].segs = txs[m].segs /\ u[m].phase = txs[m].phase
              /\ m # n => u[m] = txs[m]
         /\ OpenIn(u) = OpenIn(txs)
         /\ Once(txs) => Once(u)
         /\ WereReady(txs) => WereReady(u)
         /\ Extends(u)
<1>1. txs[n] \in Tx
  BY TxListLaw
<1>2. PICK x : x = [txs[n] EXCEPT !.refused = TRUE]
  OBVIOUS
<1>3. /\ x \in Tx /\ x.phase = txs[n].phase /\ x.item = txs[n].item
      /\ x.segs = txs[n].segs /\ x.refused
  BY <1>1, <1>2 DEF Tx
<1>4. [txs EXCEPT ![n].refused = TRUE] = [txs EXCEPT ![n] = x]
  BY <1>2
<1>5. Extends(txs)
  BY DEF Extends
<1>6. PICK u : u = [txs EXCEPT ![n] = x]
  OBVIOUS
<1>7. /\ u \in TxLists /\ DOMAIN u = DOMAIN txs /\ u[n] = x
      /\ \A m \in DOMAIN txs : u[m].item = txs[m].item /\ (m # n => u[m] = txs[m])
      /\ Once(txs) => Once(u)
      /\ WereReady(txs) => WereReady(u)
      /\ Extends(txs) => Extends(u)
  BY <1>3, <1>6, EditLaw
<1>8. \A m \in DOMAIN txs : u[m].segs = txs[m].segs /\ u[m].phase = txs[m].phase
  BY <1>3, <1>7
<1>9. OpenIn(u) = OpenIn(txs)
  BY <1>7, <1>8 DEF OpenIn
<1>10. QED
  BY <1>3, <1>4, <1>5, <1>6, <1>7, <1>8, <1>9

-----------------------------------------------------------------------------
(* The lock. *)

LEMMA FreeLaw ==
  ASSUME LockOk, Free
  PROVE  /\ script.writes = <<>> /\ QueuesToCome = {} /\ TxsToCome = {}
         /\ TxsAtLast = {txs} /\ QueuesAtLast = {items}
  BY DEF LockOk, Free, QueuesToCome, TxsToCome, QueuesOf, TxsOf, TxsAtLast, QueuesAtLast

LEMMA ScriptLaw ==
  ASSUME NEW p \in Procs, NEW ws \in Seq(Write), ws # <<>>, Script(p, ws)
  PROVE  script' \in Scripts /\ script'.by = p /\ script'.writes = ws
<1>1. NoScript \in Scripts
  BY DEF NoScript, Scripts, NoQueue, Queues, Item, ITEM_STATES, Reasons
<1>2. script' = [NoScript EXCEPT !.by = p, !.writes = ws]
  BY DEF Script
<1>3. QED
  BY <1>1, <1>2 DEF Scripts

LEMMA NoScriptLaw ==
  /\ NoScript \in Scripts /\ NoScript.by = None /\ NoScript.writes = <<>>
  /\ NoQueue \in Queues
  BY DEF NoScript, Scripts, NoQueue, Queues, Item, ITEM_STATES, Reasons

LEMMA NoWritesLaw ==
  QueuesOf(<<>>) = {} /\ TxsOf(<<>>) = {} /\ LedgersOf(<<>>) = {}
  BY DEF QueuesOf, TxsOf, LedgersOf
-----------------------------------------------------------------------------
(* The scripts there are.  A script fits when whatever part of it is written, the files
   agree. *)

FitQ(q) == q \in Queues /\ Right(q) /\ MayFollow(items, q)
FitT(t) == t \in TxLists /\ WereReady(t) /\ Once(t) /\ Extends(t)
FitL(l) == l \in SUBSET Entry /\ ledger \subseteq l
Settles(t, l) ==
  \A n \in DOMAIN t : t[n].phase = "settled" =>
    (\A s \in t[n].segs : Wall(n, s) \in l) \/ Over(t[n].item)
Fits(ws) ==
  ws \in Seq(Write) /\ QueuesFit(ws) /\ TxsFit(ws) /\ LedgersFit(ws) /\ SettledFit(ws)

LEMMA SettleLaw ==
  ASSUME NEW q \in Queues, NEW n, NEW phase, NEW l \in SUBSET Entry, Closed(txs, n, phase) \in TxLists
  PROVE  /\ settleDispatch(q, n, phase, l) \in Write
         /\ DOMAIN settleDispatch(q, n, phase, l) = {"items", "txs", "ledger"}
         /\ settleDispatch(q, n, phase, l).items = q
         /\ settleDispatch(q, n, phase, l).txs = Closed(txs, n, phase)
         /\ settleDispatch(q, n, phase, l).ledger = l
  BY DEF settleDispatch, Write

LEMMA ItemsScript ==
  ASSUME NEW q,
         FitQ(q)
  PROVE  LET ws == <<WItems(q)>> IN
         Fits(ws) /\ ws # <<>> /\ QueuesOf(ws) = {q} /\ TxsOf(ws) = {}
<1>1. PICK a : a = WItems(q)
  OBVIOUS
<1>2. a \in Write /\ DOMAIN a = {"items"} /\ a.items = q
  BY <1>1, WriteLaw DEF FitQ, FitT, FitL
<1>3. PICK ws : ws = <<a>>
  OBVIOUS
<1>4. /\ ws \in Seq(Write) /\ ws # <<>> /\ DOMAIN ws = {1}
      /\ ws[1] = a
  BY <1>2, <1>3
<1>5. QueuesOf(ws) = {q}
  BY <1>2, <1>4 DEF QueuesOf
<1>6. TxsOf(ws) = {}
  BY <1>2, <1>4 DEF TxsOf
<1>7. LedgersOf(ws) = {}
  BY <1>2, <1>4 DEF LedgersOf
<1>8. QueuesFit(ws)
  BY <1>2, <1>4, <1>5 DEF QueuesFit, FitQ
<1>9. TxsFit(ws)
  BY <1>6 DEF TxsFit, FitT
<1>10. LedgersFit(ws)
  BY <1>2, <1>4, <1>7 DEF LedgersFit, FitL
<1>11. SettledFit(ws)
  BY <1>2, <1>4 DEF SettledFit, Settles, Backed
<1>12. QED
  BY <1>1, <1>3, <1>4, <1>5, <1>6, <1>7, <1>8, <1>9, <1>10, <1>11 DEF Fits

LEMMA RejectScript ==
  ASSUME NEW q, NEW r,
         FitQ(q), FitQ(r), MayFollow(q, r)
  PROVE  LET ws == <<WItems(q), WItems(r)>> IN
         Fits(ws) /\ ws # <<>> /\ QueuesOf(ws) = {q, r} /\ TxsOf(ws) = {}
<1>1. PICK a : a = WItems(q)
  OBVIOUS
<1>2. PICK b : b = WItems(r)
  OBVIOUS
<1>3. /\ a \in Write /\ DOMAIN a = {"items"} /\ a.items = q
      /\ b \in Write /\ DOMAIN b = {"items"} /\ b.items = r
  BY <1>1, <1>2, WriteLaw DEF FitQ, FitT, FitL
<1>4. PICK ws : ws = <<a, b>>
  OBVIOUS
<1>5. /\ ws \in Seq(Write) /\ ws # <<>> /\ DOMAIN ws = {1, 2}
      /\ ws[1] = a /\ ws[2] = b
  BY <1>3, <1>4
<1>6. QueuesOf(ws) = {q, r}
  BY <1>3, <1>5 DEF QueuesOf
<1>7. TxsOf(ws) = {}
  BY <1>3, <1>5 DEF TxsOf
<1>8. LedgersOf(ws) = {}
  BY <1>3, <1>5 DEF LedgersOf
<1>9. QueuesFit(ws)
  BY <1>3, <1>5, <1>6 DEF QueuesFit, FitQ
<1>10. TxsFit(ws)
  BY <1>7 DEF TxsFit, FitT
<1>11. LedgersFit(ws)
  BY <1>3, <1>5, <1>8 DEF LedgersFit, FitL
<1>12. SettledFit(ws)
  BY <1>3, <1>5 DEF SettledFit, Settles, Backed
<1>13. QED
  BY <1>1, <1>2, <1>4, <1>5, <1>6, <1>7, <1>8, <1>9, <1>10, <1>11, <1>12 DEF Fits

LEMMA OccupyScript ==
  ASSUME NEW q, NEW r, NEW t,
         FitQ(q), FitQ(r), MayFollow(q, r), FitT(t), Settles(t, ledger)
  PROVE  LET ws == <<WItems(q), patchDispatchTx(r, t)>> IN
         Fits(ws) /\ ws # <<>> /\ QueuesOf(ws) = {q, r} /\ TxsOf(ws) = {t}
<1>1. PICK a : a = WItems(q)
  OBVIOUS
<1>2. PICK b : b = patchDispatchTx(r, t)
  OBVIOUS
<1>3. /\ a \in Write /\ DOMAIN a = {"items"} /\ a.items = q
      /\ b \in Write /\ DOMAIN b = {"items", "txs"} /\ b.items = r /\ b.txs = t
  BY <1>1, <1>2, WriteLaw DEF FitQ, FitT, FitL
<1>4. PICK ws : ws = <<a, b>>
  OBVIOUS
<1>5. /\ ws \in Seq(Write) /\ ws # <<>> /\ DOMAIN ws = {1, 2}
      /\ ws[1] = a /\ ws[2] = b
  BY <1>3, <1>4
<1>6. QueuesOf(ws) = {q, r}
  BY <1>3, <1>5 DEF QueuesOf
<1>7. TxsOf(ws) = {t}
  BY <1>3, <1>5 DEF TxsOf
<1>8. LedgersOf(ws) = {}
  BY <1>3, <1>5 DEF LedgersOf
<1>9. QueuesFit(ws)
  BY <1>3, <1>5, <1>6 DEF QueuesFit, FitQ
<1>10. TxsFit(ws)
  BY <1>7 DEF TxsFit, FitT
<1>11. LedgersFit(ws)
  BY <1>3, <1>5, <1>8 DEF LedgersFit, FitL
<1>12. SettledFit(ws)
  BY <1>3, <1>5 DEF SettledFit, Settles, Backed
<1>13. QED
  BY <1>1, <1>2, <1>4, <1>5, <1>6, <1>7, <1>8, <1>9, <1>10, <1>11, <1>12 DEF Fits

LEMMA OpenScript ==
  ASSUME NEW q, NEW r, NEW t,
         FitQ(q), FitQ(r), MayFollow(q, r), FitT(t), Settles(t, ledger)
  PROVE  LET ws == <<WItems(q), WTxs(t), WItems(r)>> IN
         Fits(ws) /\ ws # <<>> /\ QueuesOf(ws) = {q, r} /\ TxsOf(ws) = {t}
<1>1. PICK a : a = WItems(q)
  OBVIOUS
<1>2. PICK b : b = WTxs(t)
  OBVIOUS
<1>3. PICK c : c = WItems(r)
  OBVIOUS
<1>4. /\ a \in Write /\ DOMAIN a = {"items"} /\ a.items = q
      /\ b \in Write /\ DOMAIN b = {"txs"} /\ b.txs = t
      /\ c \in Write /\ DOMAIN c = {"items"} /\ c.items = r
  BY <1>1, <1>2, <1>3, WriteLaw DEF FitQ, FitT, FitL
<1>5. PICK ws : ws = <<a, b, c>>
  OBVIOUS
<1>6. /\ ws \in Seq(Write) /\ ws # <<>> /\ DOMAIN ws = {1, 2, 3}
      /\ ws[1] = a /\ ws[2] = b /\ ws[3] = c
  BY <1>4, <1>5
<1>7. QueuesOf(ws) = {q, r}
  BY <1>4, <1>6 DEF QueuesOf
<1>8. TxsOf(ws) = {t}
  BY <1>4, <1>6 DEF TxsOf
<1>9. LedgersOf(ws) = {}
  BY <1>4, <1>6 DEF LedgersOf
<1>10. QueuesFit(ws)
  BY <1>4, <1>6, <1>7 DEF QueuesFit, FitQ
<1>11. TxsFit(ws)
  BY <1>8 DEF TxsFit, FitT
<1>12. LedgersFit(ws)
  BY <1>4, <1>6, <1>9 DEF LedgersFit, FitL
<1>13. SettledFit(ws)
  BY <1>4, <1>6 DEF SettledFit, Settles, Backed
<1>14. QED
  BY <1>1, <1>2, <1>3, <1>5, <1>6, <1>7, <1>8, <1>9, <1>10, <1>11, <1>12, <1>13 DEF Fits

LEMMA YieldScript ==
  ASSUME NEW q, NEW t,
         FitQ(q), FitT(t), Settles(t, ledger)
  PROVE  LET ws == <<WTxs(t), WItems(q)>> IN
         Fits(ws) /\ ws # <<>> /\ QueuesOf(ws) = {q} /\ TxsOf(ws) = {t}
<1>1. PICK a : a = WTxs(t)
  OBVIOUS
<1>2. PICK b : b = WItems(q)
  OBVIOUS
<1>3. /\ a \in Write /\ DOMAIN a = {"txs"} /\ a.txs = t
      /\ b \in Write /\ DOMAIN b = {"items"} /\ b.items = q
  BY <1>1, <1>2, WriteLaw DEF FitQ, FitT, FitL
<1>4. PICK ws : ws = <<a, b>>
  OBVIOUS
<1>5. /\ ws \in Seq(Write) /\ ws # <<>> /\ DOMAIN ws = {1, 2}
      /\ ws[1] = a /\ ws[2] = b
  BY <1>3, <1>4
<1>6. QueuesOf(ws) = {q}
  BY <1>3, <1>5 DEF QueuesOf
<1>7. TxsOf(ws) = {t}
  BY <1>3, <1>5 DEF TxsOf
<1>8. LedgersOf(ws) = {}
  BY <1>3, <1>5 DEF LedgersOf
<1>9. QueuesFit(ws)
  BY <1>3, <1>5, <1>6 DEF QueuesFit, FitQ
<1>10. TxsFit(ws)
  BY <1>7 DEF TxsFit, FitT
<1>11. LedgersFit(ws)
  BY <1>3, <1>5, <1>8 DEF LedgersFit, FitL
<1>12. SettledFit(ws)
  BY <1>3, <1>5 DEF SettledFit, Settles, Backed
<1>13. QED
  BY <1>1, <1>2, <1>4, <1>5, <1>6, <1>7, <1>8, <1>9, <1>10, <1>11, <1>12 DEF Fits

LEMMA PatchScript ==
  ASSUME NEW q, NEW t,
         FitQ(q), FitT(t), Settles(t, ledger)
  PROVE  LET ws == <<patchDispatchTx(q, t)>> IN
         Fits(ws) /\ ws # <<>> /\ QueuesOf(ws) = {q} /\ TxsOf(ws) = {t}
<1>1. PICK a : a = patchDispatchTx(q, t)
  OBVIOUS
<1>2. a \in Write /\ DOMAIN a = {"items", "txs"} /\ a.items = q /\ a.txs = t
  BY <1>1, WriteLaw DEF FitQ, FitT, FitL
<1>3. PICK ws : ws = <<a>>
  OBVIOUS
<1>4. /\ ws \in Seq(Write) /\ ws # <<>> /\ DOMAIN ws = {1}
      /\ ws[1] = a
  BY <1>2, <1>3
<1>5. QueuesOf(ws) = {q}
  BY <1>2, <1>4 DEF QueuesOf
<1>6. TxsOf(ws) = {t}
  BY <1>2, <1>4 DEF TxsOf
<1>7. LedgersOf(ws) = {}
  BY <1>2, <1>4 DEF LedgersOf
<1>8. QueuesFit(ws)
  BY <1>2, <1>4, <1>5 DEF QueuesFit, FitQ
<1>9. TxsFit(ws)
  BY <1>6 DEF TxsFit, FitT
<1>10. LedgersFit(ws)
  BY <1>2, <1>4, <1>7 DEF LedgersFit, FitL
<1>11. SettledFit(ws)
  BY <1>2, <1>4 DEF SettledFit, Settles, Backed
<1>12. QED
  BY <1>1, <1>3, <1>4, <1>5, <1>6, <1>7, <1>8, <1>9, <1>10, <1>11 DEF Fits

LEMMA SettleScript ==
  ASSUME NEW q, NEW n, NEW phase, NEW l,
         FitQ(q), FitT(Closed(txs, n, phase)), FitL(l), Settles(Closed(txs, n, phase), l)
  PROVE  LET ws == <<settleDispatch(q, n, phase, l)>> IN
         Fits(ws) /\ ws # <<>> /\ QueuesOf(ws) = {q} /\ TxsOf(ws) = {Closed(txs, n, phase)}
<1>0. PICK t : t = Closed(txs, n, phase)
  OBVIOUS
<1>1. PICK a : a = settleDispatch(q, n, phase, l)
  OBVIOUS
<1>2. a \in Write /\ DOMAIN a = {"items", "txs", "ledger"} /\ a.items = q /\ a.txs = t /\ a.ledger = l
  BY <1>0, <1>1, SettleLaw DEF FitQ, FitT, FitL
<1>3. PICK ws : ws = <<a>>
  OBVIOUS
<1>4. /\ ws \in Seq(Write) /\ ws # <<>> /\ DOMAIN ws = {1}
      /\ ws[1] = a
  BY <1>2, <1>3
<1>5. QueuesOf(ws) = {q}
  BY <1>2, <1>4 DEF QueuesOf
<1>6. TxsOf(ws) = {t}
  BY <1>2, <1>4 DEF TxsOf
<1>7. LedgersOf(ws) = {l}
  BY <1>2, <1>4 DEF LedgersOf
<1>8. QueuesFit(ws)
  BY <1>2, <1>4, <1>5 DEF QueuesFit, FitQ
<1>9. TxsFit(ws)
  BY <1>0, <1>6 DEF TxsFit, FitT
<1>10. LedgersFit(ws)
  BY <1>2, <1>4, <1>7 DEF LedgersFit, FitL
<1>11. SettledFit(ws)
  BY <1>0, <1>2, <1>4 DEF SettledFit, Settles, Backed
<1>12. QED
  BY <1>0, <1>1, <1>3, <1>4, <1>5, <1>6, <1>7, <1>8, <1>9, <1>10, <1>11 DEF Fits

LEMMA KilledScript ==
  ASSUME NEW t, NEW l,
         FitT(t), FitL(l), Settles(t, ledger)
  PROVE  LET ws == <<WTxs(t), WLedger(l), WLease>> IN
         Fits(ws) /\ ws # <<>> /\ QueuesOf(ws) = {} /\ TxsOf(ws) = {t}
<1>1. PICK a : a = WTxs(t)
  OBVIOUS
<1>2. PICK b : b = WLedger(l)
  OBVIOUS
<1>3. PICK c : c = WLease
  OBVIOUS
<1>4. /\ a \in Write /\ DOMAIN a = {"txs"} /\ a.txs = t
      /\ b \in Write /\ DOMAIN b = {"ledger"} /\ b.ledger = l
      /\ c \in Write /\ DOMAIN c = {"lease"}
  BY <1>1, <1>2, <1>3, WriteLaw DEF FitQ, FitT, FitL
<1>5. PICK ws : ws = <<a, b, c>>
  OBVIOUS
<1>6. /\ ws \in Seq(Write) /\ ws # <<>> /\ DOMAIN ws = {1, 2, 3}
      /\ ws[1] = a /\ ws[2] = b /\ ws[3] = c
  BY <1>4, <1>5
<1>7. QueuesOf(ws) = {}
  BY <1>4, <1>6 DEF QueuesOf
<1>8. TxsOf(ws) = {t}
  BY <1>4, <1>6 DEF TxsOf
<1>9. LedgersOf(ws) = {l}
  BY <1>4, <1>6 DEF LedgersOf
<1>10. QueuesFit(ws)
  BY <1>4, <1>6, <1>7 DEF QueuesFit, FitQ
<1>11. TxsFit(ws)
  BY <1>8 DEF TxsFit, FitT
<1>12. LedgersFit(ws)
  BY <1>4, <1>6, <1>9 DEF LedgersFit, FitL
<1>13. SettledFit(ws)
  BY <1>4, <1>6 DEF SettledFit, Settles, Backed
<1>14. QED
  BY <1>1, <1>2, <1>3, <1>5, <1>6, <1>7, <1>8, <1>9, <1>10, <1>11, <1>12, <1>13 DEF Fits

LEMMA DeliveryScript ==
  ASSUME NEW t, NEW l, NEW e,
         FitT(t), FitL(l), FitL(e), l \subseteq e, Settles(t, e)
  PROVE  LET ws == <<WLedger(l), WLedger(e), WTxs(t)>> IN
         Fits(ws) /\ ws # <<>> /\ QueuesOf(ws) = {} /\ TxsOf(ws) = {t}
<1>1. PICK a : a = WLedger(l)
  OBVIOUS
<1>2. PICK b : b = WLedger(e)
  OBVIOUS
<1>3. PICK c : c = WTxs(t)
  OBVIOUS
<1>4. /\ a \in Write /\ DOMAIN a = {"ledger"} /\ a.ledger = l
      /\ b \in Write /\ DOMAIN b = {"ledger"} /\ b.ledger = e
      /\ c \in Write /\ DOMAIN c = {"txs"} /\ c.txs = t
  BY <1>1, <1>2, <1>3, WriteLaw DEF FitQ, FitT, FitL
<1>5. PICK ws : ws = <<a, b, c>>
  OBVIOUS
<1>6. /\ ws \in Seq(Write) /\ ws # <<>> /\ DOMAIN ws = {1, 2, 3}
      /\ ws[1] = a /\ ws[2] = b /\ ws[3] = c
  BY <1>4, <1>5
<1>7. QueuesOf(ws) = {}
  BY <1>4, <1>6 DEF QueuesOf
<1>8. TxsOf(ws) = {t}
  BY <1>4, <1>6 DEF TxsOf
<1>9. LedgersOf(ws) = {l, e}
  BY <1>4, <1>6 DEF LedgersOf
<1>10. QueuesFit(ws)
  BY <1>4, <1>6, <1>7 DEF QueuesFit, FitQ
<1>11. TxsFit(ws)
  BY <1>8 DEF TxsFit, FitT
<1>12. LedgersFit(ws)
  BY <1>4, <1>6, <1>9 DEF LedgersFit, FitL
<1>13. SettledFit(ws)
  BY <1>4, <1>6 DEF SettledFit, Settles, Backed
<1>14. QED
  BY <1>1, <1>2, <1>3, <1>5, <1>6, <1>7, <1>8, <1>9, <1>10, <1>11, <1>12, <1>13 DEF Fits

LEMMA SettledScript ==
  ASSUME NEW t, NEW l,
         FitT(t), FitL(l), Settles(t, l)
  PROVE  LET ws == <<WLedger(l), WTxs(t)>> IN
         Fits(ws) /\ ws # <<>> /\ QueuesOf(ws) = {} /\ TxsOf(ws) = {t}
<1>1. PICK a : a = WLedger(l)
  OBVIOUS
<1>2. PICK b : b = WTxs(t)
  OBVIOUS
<1>3. /\ a \in Write /\ DOMAIN a = {"ledger"} /\ a.ledger = l
      /\ b \in Write /\ DOMAIN b = {"txs"} /\ b.txs = t
  BY <1>1, <1>2, WriteLaw DEF FitQ, FitT, FitL
<1>4. PICK ws : ws = <<a, b>>
  OBVIOUS
<1>5. /\ ws \in Seq(Write) /\ ws # <<>> /\ DOMAIN ws = {1, 2}
      /\ ws[1] = a /\ ws[2] = b
  BY <1>3, <1>4
<1>6. QueuesOf(ws) = {}
  BY <1>3, <1>5 DEF QueuesOf
<1>7. TxsOf(ws) = {t}
  BY <1>3, <1>5 DEF TxsOf
<1>8. LedgersOf(ws) = {l}
  BY <1>3, <1>5 DEF LedgersOf
<1>9. QueuesFit(ws)
  BY <1>3, <1>5, <1>6 DEF QueuesFit, FitQ
<1>10. TxsFit(ws)
  BY <1>7 DEF TxsFit, FitT
<1>11. LedgersFit(ws)
  BY <1>3, <1>5, <1>8 DEF LedgersFit, FitL
<1>12. SettledFit(ws)
  BY <1>3, <1>5 DEF SettledFit, Settles, Backed
<1>13. QED
  BY <1>1, <1>2, <1>4, <1>5, <1>6, <1>7, <1>8, <1>9, <1>10, <1>11, <1>12 DEF Fits

LEMMA TxsScript ==
  ASSUME NEW t,
         FitT(t), Settles(t, ledger)
  PROVE  LET ws == <<WTxs(t)>> IN
         Fits(ws) /\ ws # <<>> /\ QueuesOf(ws) = {} /\ TxsOf(ws) = {t}
<1>1. PICK a : a = WTxs(t)
  OBVIOUS
<1>2. a \in Write /\ DOMAIN a = {"txs"} /\ a.txs = t
  BY <1>1, WriteLaw DEF FitQ, FitT, FitL
<1>3. PICK ws : ws = <<a>>
  OBVIOUS
<1>4. /\ ws \in Seq(Write) /\ ws # <<>> /\ DOMAIN ws = {1}
      /\ ws[1] = a
  BY <1>2, <1>3
<1>5. QueuesOf(ws) = {}
  BY <1>2, <1>4 DEF QueuesOf
<1>6. TxsOf(ws) = {t}
  BY <1>2, <1>4 DEF TxsOf
<1>7. LedgersOf(ws) = {}
  BY <1>2, <1>4 DEF LedgersOf
<1>8. QueuesFit(ws)
  BY <1>2, <1>4, <1>5 DEF QueuesFit, FitQ
<1>9. TxsFit(ws)
  BY <1>6 DEF TxsFit, FitT
<1>10. LedgersFit(ws)
  BY <1>2, <1>4, <1>7 DEF LedgersFit, FitL
<1>11. SettledFit(ws)
  BY <1>2, <1>4 DEF SettledFit, Settles, Backed
<1>12. QED
  BY <1>1, <1>3, <1>4, <1>5, <1>6, <1>7, <1>8, <1>9, <1>10, <1>11 DEF Fits

LEMMA AbortScript ==
  ASSUME NEW q, NEW t, NEW l, NEW e,
         FitQ(q), FitT(t), FitL(l), FitL(e), l \subseteq e, Settles(t, e)
  PROVE  LET ws == <<WItems(q), WLedger(l), WLedger(e), WTxs(t)>> IN
         Fits(ws) /\ ws # <<>> /\ QueuesOf(ws) = {q} /\ TxsOf(ws) = {t}
<1>1. PICK a : a = WItems(q)
  OBVIOUS
<1>2. PICK b : b = WLedger(l)
  OBVIOUS
<1>3. PICK c : c = WLedger(e)
  OBVIOUS
<1>4. PICK d : d = WTxs(t)
  OBVIOUS
<1>5. /\ a \in Write /\ DOMAIN a = {"items"} /\ a.items = q
      /\ b \in Write /\ DOMAIN b = {"ledger"} /\ b.ledger = l
      /\ c \in Write /\ DOMAIN c = {"ledger"} /\ c.ledger = e
      /\ d \in Write /\ DOMAIN d = {"txs"} /\ d.txs = t
  BY <1>1, <1>2, <1>3, <1>4, WriteLaw DEF FitQ, FitT, FitL
<1>6. PICK ws : ws = <<a, b, c, d>>
  OBVIOUS
<1>7. /\ ws \in Seq(Write) /\ ws # <<>> /\ DOMAIN ws = {1, 2, 3, 4}
      /\ ws[1] = a /\ ws[2] = b /\ ws[3] = c /\ ws[4] = d
  BY <1>5, <1>6
<1>8. QueuesOf(ws) = {q}
  BY <1>5, <1>7 DEF QueuesOf
<1>9. TxsOf(ws) = {t}
  BY <1>5, <1>7 DEF TxsOf
<1>10. LedgersOf(ws) = {l, e}
  BY <1>5, <1>7 DEF LedgersOf
<1>11. QueuesFit(ws)
  BY <1>5, <1>7, <1>8 DEF QueuesFit, FitQ
<1>12. TxsFit(ws)
  BY <1>9 DEF TxsFit, FitT
<1>13. LedgersFit(ws)
  BY <1>5, <1>7, <1>10 DEF LedgersFit, FitL
<1>14. SettledFit(ws)
  BY <1>5, <1>7 DEF SettledFit, Settles, Backed
<1>15. QED
  BY <1>1, <1>2, <1>3, <1>4, <1>6, <1>7, <1>8, <1>9, <1>10, <1>11, <1>12, <1>13, <1>14 DEF Fits

LEMMA ConcludeScript ==
  ASSUME NEW q, NEW t, NEW l, NEW e,
         FitQ(q), FitT(t), FitL(l), FitL(e), l \subseteq e, Settles(t, e)
  PROVE  LET ws == <<WLedger(l), WLedger(e), WTxs(t), WItems(q)>> IN
         Fits(ws) /\ ws # <<>> /\ QueuesOf(ws) = {q} /\ TxsOf(ws) = {t}
<1>1. PICK a : a = WLedger(l)
  OBVIOUS
<1>2. PICK b : b = WLedger(e)
  OBVIOUS
<1>3. PICK c : c = WTxs(t)
  OBVIOUS
<1>4. PICK d : d = WItems(q)
  OBVIOUS
<1>5. /\ a \in Write /\ DOMAIN a = {"ledger"} /\ a.ledger = l
      /\ b \in Write /\ DOMAIN b = {"ledger"} /\ b.ledger = e
      /\ c \in Write /\ DOMAIN c = {"txs"} /\ c.txs = t
      /\ d \in Write /\ DOMAIN d = {"items"} /\ d.items = q
  BY <1>1, <1>2, <1>3, <1>4, WriteLaw DEF FitQ, FitT, FitL
<1>6. PICK ws : ws = <<a, b, c, d>>
  OBVIOUS
<1>7. /\ ws \in Seq(Write) /\ ws # <<>> /\ DOMAIN ws = {1, 2, 3, 4}
      /\ ws[1] = a /\ ws[2] = b /\ ws[3] = c /\ ws[4] = d
  BY <1>5, <1>6
<1>8. QueuesOf(ws) = {q}
  BY <1>5, <1>7 DEF QueuesOf
<1>9. TxsOf(ws) = {t}
  BY <1>5, <1>7 DEF TxsOf
<1>10. LedgersOf(ws) = {l, e}
  BY <1>5, <1>7 DEF LedgersOf
<1>11. QueuesFit(ws)
  BY <1>5, <1>7, <1>8 DEF QueuesFit, FitQ
<1>12. TxsFit(ws)
  BY <1>9 DEF TxsFit, FitT
<1>13. LedgersFit(ws)
  BY <1>5, <1>7, <1>10 DEF LedgersFit, FitL
<1>14. SettledFit(ws)
  BY <1>5, <1>7 DEF SettledFit, Settles, Backed
<1>15. QED
  BY <1>1, <1>2, <1>3, <1>4, <1>6, <1>7, <1>8, <1>9, <1>10, <1>11, <1>12, <1>13, <1>14 DEF Fits

LEMMA NoneScript ==
  /\ Fits(<<>>) /\ QueuesOf(<<>>) = {} /\ TxsOf(<<>>) = {}
  /\ \A i : KeptIn(<<>>, i)
<1>1. <<>> \in Seq(Write) /\ DOMAIN <<>> = {}
  OBVIOUS
<1>2. QED
  BY <1>1, NoWritesLaw DEF Fits, QueuesFit, TxsFit, LedgersFit, SettledFit, KeptIn

-----------------------------------------------------------------------------
(* Steps that write no file: a script that fits is taken up, or the one under way stays. *)

LEMMA MayFollowStays ==
  ASSUME UNCHANGED txs, finished \subseteq finished'
  PROVE  \A q, r : MayFollow(q, r) => MayFollow(q, r)'
  BY DEF MayFollow

LEMMA RightStays ==
  ASSUME finished \subseteq finished', shown \subseteq shown'
  PROVE  \A q : Right(q) => Right(q)'
  BY DEF Right

(* What is over stays so, unless the step undoes it. *)
LEMMA OverStays ==
  ASSUME NEW i, Over(i), UNCHANGED <<store, items, txs>>,
         KeptIn(script'.writes, i),
         \A p \in Procs : /\ job'[p].at \in Owning => job'[p].item # i
                          /\ job'[p].at = "reconcile" => OverIn(script'.q, i)
  PROVE  Over(i)'
<1>1. OverIn(items, i)' /\ (KeptIn(script.writes, i))' /\ UNCHANGED OpenTxs
  BY DEF Over, OverIn, KeptIn, OpenTxs, OpenIn, QueuesOf, TxsOf
<1>2. QED
  BY <1>1 DEF Over, OverIn

LEMMA Carry ==
  ASSUME QueueInv, UNCHANGED <<store, items, txs, ledger>>,
         finished \subseteq finished', shown \subseteq shown',
         Fits(script'.writes),
         \A i \in Items : Over(i) =>
           /\ KeptIn(script'.writes, i)
           /\ \A p \in Procs : /\ job'[p].at \in Owning => job'[p].item # i
                               /\ job'[p].at = "reconcile" => OverIn(script'.q, i)
  PROVE  QueuesOk' /\ TxsOk' /\ ChargeOk' /\ LedgersFit(script.writes)'
<1>1. PICK ws : ws = script'.writes
  OBVIOUS
<1>2. ws \in Seq(Write) /\ QueuesFit(ws) /\ TxsFit(ws) /\ LedgersFit(ws) /\ SettledFit(ws)
  BY <1>1 DEF Fits
<1>3. Right(items) /\ WereReady(txs) /\ Once(txs)
  BY DEF QueueInv, QueuesOk, TxsOk
<1>4. QueuesFit(ws)'
  <2>1. \A q \in QueuesOf(ws) : Right(q)' /\ MayFollow(items, q)'
    BY <1>2, MayFollowStays, RightStays DEF QueuesFit
  <2>2. \A m, k \in DOMAIN ws :
          m < k /\ "items" \in DOMAIN ws[m] /\ "items" \in DOMAIN ws[k] =>
            MayFollow(ws[m].items, ws[k].items)'
    BY <1>2, MayFollowStays DEF QueuesFit
  <2>3. QED
    BY <2>1, <2>2 DEF QueuesFit, QueuesOf
<1>5. QueuesOk'
  <2>1. Right(items)'
    BY <1>3 DEF Right
  <2>2. QED
    BY <1>1, <1>4, <2>1 DEF QueuesOk
<1>6. TxsOk'
  <2>1. WereReady(txs)' /\ Once(txs)'
    BY <1>3 DEF WereReady, Once, OpenIn
  <2>2. TxsFit(ws)'
    BY <1>2 DEF TxsFit, TxsOf, WereReady, Once, OpenIn, Extends
  <2>3. QED
    BY <1>1, <2>1, <2>2 DEF TxsOk
<1>7. LedgersFit(script.writes)'
  BY <1>1, <1>2 DEF LedgersFit, LedgersOf
<1>8. \A i \in Items : Over(i) => Over(i)'
  BY OverStays
<1>9. ChargeOk'
  <2>1. \A n \in DOMAIN txs : txs[n].item \in Items
    BY TxListLaw DEF QueueInv, TypeOK, Tx
  <2>2. \A n \in DOMAIN txs : txs[n].phase = "settled" =>
          (\A s \in txs[n].segs : Wall(n, s) \in ledger) \/ Over(txs[n].item)'
    BY <1>8, <2>1 DEF QueueInv, ChargeOk
  <2>3. \A k \in DOMAIN ws : "txs" \in DOMAIN ws[k] =>
          \A n \in DOMAIN ws[k].txs : ws[k].txs[n].item \in Items
    <3> SUFFICES ASSUME NEW k \in DOMAIN ws, "txs" \in DOMAIN ws[k], NEW n \in DOMAIN ws[k].txs
                 PROVE  ws[k].txs[n].item \in Items
      OBVIOUS
    <3>1. ws[k] \in Write
      BY <1>2
    <3>2. ws[k].txs \in TxLists
      BY <3>1, WriteType
    <3>3. QED
      BY <3>2, TxListLaw DEF Tx
  <2>4. \A k, e : Backed(ws, k, e) => Backed(ws, k, e)'
    BY DEF Backed
  <2>5. SettledFit(ws)'
    <3> SUFFICES ASSUME NEW k \in DOMAIN ws, "txs" \in DOMAIN ws[k], NEW n \in DOMAIN ws[k].txs,
                        ws[k].txs[n].phase = "settled"
                 PROVE  \/ \A s \in ws[k].txs[n].segs : Backed(ws, k, Wall(n, s))'
                        \/ Over(ws[k].txs[n].item)'
      BY DEF SettledFit, Wall
    <3>1. \/ \A s \in ws[k].txs[n].segs : Backed(ws, k, Wall(n, s))
          \/ Over(ws[k].txs[n].item)
      BY <1>2 DEF SettledFit
    <3>2. ws[k].txs[n].item \in Items
      BY <2>3
    <3>3. QED
      BY <1>8, <2>4, <3>1, <3>2
  <2>6. QED
    BY <1>1, <2>2, <2>5 DEF ChargeOk, Wall
<1>10. QED
  BY <1>5, <1>6, <1>7, <1>9

(* The files and the script stay, and nobody owns more than before. *)
GoesOn(p) ==
  /\ job'[p].at \in Owning =>
       job[p].at \in Owning /\ job'[p].item = job[p].item /\ job'[p].tx = job[p].tx
  /\ job'[p].at \in Past => job[p].at \in Past
  /\ job'[p].at = "reconcile" => job[p].at = "reconcile"
  /\ job'[p].at = "fail-settle" =>
       job[p].at = "fail-settle" /\ job'[p].item = job[p].item /\ job'[p].tx = job[p].tx

LEMMA Quiet ==
  ASSUME QueueInv, UNCHANGED <<store, items, txs, ledger, script>>,
         finished \subseteq finished', shown \subseteq shown', \A p \in Procs : GoesOn(p)
  PROVE  /\ QueuesOk' /\ TxsOk' /\ ChargeOk' /\ LedgersFit(script.writes)'
         /\ MemoryOk' /\ \A p \in Procs : OwnOk(p)'
<1>1. QueuesOk' /\ TxsOk' /\ ChargeOk' /\ LedgersFit(script.writes)'
  <2>1. Fits(script'.writes)
    BY DEF QueueInv, QueuesOk, TxsOk, ChargeOk, Fits, TypeOK, Scripts
  <2>2. \A i \in Items : Over(i) =>
           /\ KeptIn(script'.writes, i)
           /\ \A p \in Procs : /\ job'[p].at \in Owning => job'[p].item # i
                               /\ job'[p].at = "reconcile" => OverIn(script'.q, i)
    BY DEF Over, GoesOn
  <2>3. QED
    BY <2>1, <2>2, Carry
<1>2. MemoryOk'
  <2> SUFFICES ASSUME NEW p \in Procs, job'[p].at = "reconcile"
               PROVE  Right(script.q)' /\ MayFollow(items, script.q)' /\ QueuesToCome' = {}
    BY DEF MemoryOk
  <2>1. Right(script.q) /\ MayFollow(items, script.q) /\ QueuesToCome = {}
    BY DEF GoesOn, QueueInv, MemoryOk
  <2>2. Right(script.q)' /\ MayFollow(items, script.q)'
    BY <2>1 DEF Right, MayFollow
  <2>3. QED
    BY <2>1, <2>2 DEF QueuesToCome, QueuesOf
<1>3. ASSUME NEW p \in Procs PROVE OwnOk(p)'
  <2>1. UNCHANGED <<QueuesToCome, TxsAtLast, QueuesAtLast>>
    BY DEF QueuesToCome, QueuesOf, TxsAtLast, TxsToCome, TxsOf, QueuesAtLast
  <2>2. OwnOk(p) /\ GoesOn(p)
    BY DEF QueueInv
  <2>3. job'[p].at = "reconcile" =>
          \A t \in TxsAtLast : script.left \subseteq OpenIn(t) /\ AllRefused(t, script.left)
    BY <2>2 DEF OwnOk, GoesOn
  <2>4. job'[p].at \in Past => \A t \in TxsAtLast : AllRefused(t, {})
    BY <2>2 DEF OwnOk, GoesOn
  <2>5. job'[p].at \in Owning \cup {"fail-settle"} => \A t \in TxsAtLast : Owns(p, t)'
    BY <2>2 DEF OwnOk, GoesOn, Owns, OpenIn, AllRefused
  <2>6. job'[p].at \in Owning =>
          \A q \in {items} \cup QueuesToCome :
            q[job'[p].item].state \notin {"completed", "failed", "absent"}
    BY <2>2 DEF OwnOk, GoesOn
  <2>7. job'[p].at = "fail-settle" =>
          store = "json" /\ \A q \in QueuesAtLast : OverIn(q, job'[p].item)
    BY <2>2 DEF OwnOk, GoesOn
  <2>8. QED
    BY <2>1, <2>3, <2>4, <2>5, <2>6, <2>7 DEF OwnOk, OpenIn, AllRefused, OverIn
<1>4. QED
  BY <1>1, <1>2, <1>3

-----------------------------------------------------------------------------
(* A write reaches the disk. *)

LEMMA TailLaw ==
  ASSUME NEW ws \in Seq(Write), ws # <<>>
  PROVE  /\ Head(ws) = ws[1] /\ Head(ws) \in Write /\ 1 \in DOMAIN ws /\ Tail(ws) \in Seq(Write)
         /\ \A k \in DOMAIN Tail(ws) :
              k \in Nat \ {0} /\ k + 1 \in DOMAIN ws /\ Tail(ws)[k] = ws[k + 1]
         /\ \A k \in DOMAIN ws : k # 1 => k - 1 \in DOMAIN Tail(ws) /\ Tail(ws)[k - 1] = ws[k]
         /\ QueuesOf(Tail(ws)) \subseteq QueuesOf(ws) /\ TxsOf(Tail(ws)) \subseteq TxsOf(ws)
         /\ LedgersOf(Tail(ws)) \subseteq LedgersOf(ws)
         /\ "items" \in DOMAIN ws[1] => QueuesOf(ws) = QueuesOf(Tail(ws)) \cup {ws[1].items}
         /\ "items" \notin DOMAIN ws[1] => QueuesOf(ws) = QueuesOf(Tail(ws))
         /\ "txs" \in DOMAIN ws[1] => TxsOf(ws) = TxsOf(Tail(ws)) \cup {ws[1].txs}
         /\ "txs" \notin DOMAIN ws[1] => TxsOf(ws) = TxsOf(Tail(ws))
         /\ "ledger" \in DOMAIN ws[1] => ws[1].ledger \in LedgersOf(ws)
<1>1. PICK rest : rest = Tail(ws)
  OBVIOUS
<1>2. /\ Len(ws) \in Nat \ {0} /\ DOMAIN ws = 1..Len(ws) /\ Head(ws) = ws[1]
      /\ rest \in Seq(Write) /\ Len(rest) = Len(ws) - 1 /\ DOMAIN rest = 1..(Len(ws) - 1)
      /\ \A k \in 1..(Len(ws) - 1) : rest[k] = ws[k + 1]
  BY <1>1
<1>3. ws[1] \in Write /\ 1 \in DOMAIN ws
  BY <1>2
<1>4. \A k \in DOMAIN rest : k \in Nat \ {0} /\ k + 1 \in DOMAIN ws /\ rest[k] = ws[k + 1]
  BY <1>2
<1>5. \A k \in DOMAIN ws : k # 1 => k - 1 \in DOMAIN rest /\ rest[k - 1] = ws[k]
  <2> SUFFICES ASSUME NEW k \in DOMAIN ws, k # 1
               PROVE  k - 1 \in DOMAIN rest /\ rest[k - 1] = ws[k]
    OBVIOUS
  <2>1. k - 1 \in 1..(Len(ws) - 1) /\ (k - 1) + 1 = k
    BY <1>2
  <2>2. QED
    BY <1>2, <2>1
<1>6. QueuesOf(rest) \subseteq QueuesOf(ws)
  BY <1>4 DEF QueuesOf
<1>7. TxsOf(rest) \subseteq TxsOf(ws)
  BY <1>4 DEF TxsOf
<1>8. LedgersOf(rest) \subseteq LedgersOf(ws)
  BY <1>4 DEF LedgersOf
<1>9. /\ "items" \in DOMAIN ws[1] => QueuesOf(ws) = QueuesOf(rest) \cup {ws[1].items}
      /\ "items" \notin DOMAIN ws[1] => QueuesOf(ws) = QueuesOf(rest)
  BY <1>3, <1>4, <1>5 DEF QueuesOf
<1>10. /\ "txs" \in DOMAIN ws[1] => TxsOf(ws) = TxsOf(rest) \cup {ws[1].txs}
       /\ "txs" \notin DOMAIN ws[1] => TxsOf(ws) = TxsOf(rest)
  BY <1>3, <1>4, <1>5 DEF TxsOf
<1>11. "ledger" \in DOMAIN ws[1] => ws[1].ledger \in LedgersOf(ws)
  BY <1>3 DEF LedgersOf
<1>12. QED
  BY <1>1, <1>2, <1>3, <1>4, <1>5, <1>6, <1>7, <1>8, <1>9, <1>10, <1>11

(* Whatever is written next, the files agree, and the rest of the script still fits. *)
LEMMA WriteStep ==
  ASSUME QueueInv, DiskWrite
  PROVE  QueueInv' /\ MayFollow(items, items') /\ ledger \subseteq ledger'
<1>1. PICK ws : ws = script.writes
  OBVIOUS
<1>2. PICK w : w = Head(ws)
  OBVIOUS
<1>3. PICK rest : rest = Tail(ws)
  OBVIOUS
<1>4. ws \in Seq(Write) /\ ws # <<>> /\ script \in Scripts
  BY <1>1 DEF DiskWrite, QueueInv, TypeOK, Scripts
<1>5. /\ w = ws[1] /\ w \in Write /\ 1 \in DOMAIN ws /\ rest \in Seq(Write)
      /\ \A k \in DOMAIN rest : k \in Nat \ {0} /\ k + 1 \in DOMAIN ws /\ rest[k] = ws[k + 1]
      /\ QueuesOf(rest) \subseteq QueuesOf(ws) /\ TxsOf(rest) \subseteq TxsOf(ws)
      /\ LedgersOf(rest) \subseteq LedgersOf(ws)
  BY <1>2, <1>3, <1>4, TailLaw
<1>6. /\ items' = IF "items" \in DOMAIN w THEN w.items ELSE items
      /\ txs' = IF "txs" \in DOMAIN w THEN w.txs ELSE txs
      /\ ledger' = IF "ledger" \in DOMAIN w THEN w.ledger ELSE ledger
      /\ lease' = IF "lease" \in DOMAIN w /\ lease = "dead" THEN None ELSE lease
      /\ script' = IF rest = <<>> /\ job[script.by].at # "reconcile" THEN NoScript
                   ELSE [script EXCEPT !.writes = rest]
      /\ UNCHANGED <<env_vars, slot, shown, job, finished>>
  BY <1>1, <1>2, <1>3 DEF DiskWrite
<1>7. script'.writes = rest /\ script' \in Scripts
  BY <1>4, <1>5, <1>6, NoScriptLaw DEF Scripts
<1>8. /\ QueuesFit(ws) /\ TxsFit(ws) /\ LedgersFit(ws) /\ SettledFit(ws) /\ Right(items)
      /\ WereReady(txs) /\ Once(txs)
  BY <1>1 DEF QueueInv, QueuesOk, TxsOk, ChargeOk
<1>9. "items" \in DOMAIN w => items' \in QueuesOf(ws)
  BY <1>5, <1>6 DEF QueuesOf
<1>10. "txs" \in DOMAIN w => txs' \in TxsOf(ws)
  BY <1>5, <1>6 DEF TxsOf
<1>11. "ledger" \in DOMAIN w => ledger' \in LedgersOf(ws)
  BY <1>5, <1>6 DEF LedgersOf
<1>12. MayFollow(items, items') /\ Right(items')
  <2>1. CASE "items" \in DOMAIN w
    BY <1>8, <1>9, <2>1 DEF QueuesFit
  <2>2. CASE "items" \notin DOMAIN w
    <3>1. items' = items
      BY <1>6, <2>2
    <3>2. QED
      BY <1>8, <3>1 DEF MayFollow
  <2>3. QED
    BY <2>1, <2>2
<1>13. ledger \subseteq ledger'
  BY <1>6, <1>8, <1>11 DEF LedgersFit
<1>14. Extends(txs')
  <2>1. CASE "txs" \in DOMAIN w
    BY <1>8, <1>10, <2>1 DEF TxsFit
  <2>2. CASE "txs" \notin DOMAIN w
    BY <1>6, <2>2 DEF Extends
  <2>3. QED
    BY <2>1, <2>2
<1>15. \A q, r : MayFollow(q, r) => MayFollow(q, r)'
  BY <1>6, <1>14 DEF MayFollow, Extends
<1>16. \A q : Right(q) => Right(q)'
  BY <1>6 DEF Right
<1>17. \A t \in TxLists : WereReady(t) => WereReady(t)'
  <2>1. \A d \in Items : items[d].state = "completed" => items'[d].state = "completed"
    BY <1>12 DEF MayFollow, TERMINAL_STATES
  <2> SUFFICES ASSUME NEW t \in TxLists, WereReady(t), NEW n \in DOMAIN t, NEW d \in DepsOf[t[n].item]
               PROVE  items'[d].state = "completed"
    BY DEF WereReady
  <2>2. t[n].item \in Items
    BY TxListLaw DEF Tx
  <2>3. d \in Items
    BY <2>2, DepsAssumption
  <2>4. QED
    BY <2>1, <2>3 DEF WereReady
<1>18. \A t \in TxsOf(ws) : t \in TxLists
  BY <1>4, WriteType DEF TxsOf
<1>19. txs \in TxLists /\ items \in Queues /\ ledger \subseteq Entry
  BY DEF QueueInv, TypeOK
<1>20. txs' \in TxLists /\ items' \in Queues /\ ledger' \subseteq Entry
  BY <1>5, <1>6, <1>19, WriteType
<1>21. QueuesOk'
  <2>1. \A q \in QueuesOf(rest) : MayFollow(items', q)
    <3> SUFFICES ASSUME NEW q \in QueuesOf(rest) PROVE MayFollow(items', q)
      OBVIOUS
    <3>1. CASE "items" \in DOMAIN w
      <4>1. PICK k \in DOMAIN rest : "items" \in DOMAIN rest[k] /\ q = rest[k].items
        BY DEF QueuesOf
      <4>2. 1 < k + 1 /\ k + 1 \in DOMAIN ws /\ q = ws[k + 1].items /\ "items" \in DOMAIN ws[k + 1]
        BY <1>5, <4>1
      <4>3. MayFollow(ws[1].items, ws[k + 1].items)
        BY <1>5, <1>8, <3>1, <4>2 DEF QueuesFit
      <4>4. QED
        BY <1>5, <1>6, <3>1, <4>2, <4>3
    <3>2. CASE "items" \notin DOMAIN w
      BY <1>5, <1>6, <1>8, <3>2 DEF QueuesFit
    <3>3. QED
      BY <3>1, <3>2
  <2>2. \A q \in QueuesOf(rest) : Right(q)
    BY <1>5, <1>8 DEF QueuesFit
  <2>3. ASSUME NEW m \in DOMAIN rest, NEW k \in DOMAIN rest, m < k,
               "items" \in DOMAIN rest[m], "items" \in DOMAIN rest[k]
        PROVE  MayFollow(rest[m].items, rest[k].items)
    <3>1. m + 1 < k + 1 /\ m + 1 \in DOMAIN ws /\ k + 1 \in DOMAIN ws
      BY <1>5, <2>3
    <3>2. QED
      BY <1>5, <1>8, <2>3, <3>1 DEF QueuesFit
  <2>4. \A q \in QueuesOf(rest) : Right(q)' /\ MayFollow(items, q)'
    <3>1. \A q : MayFollow(items', q) => MayFollow(items, q)'
      BY <1>6, <1>14 DEF MayFollow, Extends
    <3>2. QED
      BY <1>16, <2>1, <2>2, <3>1
  <2>5. \A m, k \in DOMAIN rest :
          m < k /\ "items" \in DOMAIN rest[m] /\ "items" \in DOMAIN rest[k] =>
            MayFollow(rest[m].items, rest[k].items)'
    BY <1>15, <2>3
  <2>6. QueuesFit(rest)'
    BY <2>4, <2>5 DEF QueuesFit, QueuesOf
  <2>7. Right(items)'
    BY <1>6, <1>12 DEF Right
  <2>8. QED
    BY <1>7, <2>6, <2>7 DEF QueuesOk
<1>22. TxsOk'
  <2>1. WereReady(txs') /\ Once(txs')
    <3>1. CASE "txs" \in DOMAIN w
      BY <1>8, <1>10, <3>1 DEF TxsFit
    <3>2. CASE "txs" \notin DOMAIN w
      BY <1>6, <1>8, <3>2
    <3>3. QED
      BY <3>1, <3>2
  <2>2. WereReady(txs)' /\ Once(txs)'
    <3>1. PICK t : t = txs'
      OBVIOUS
    <3>2. WereReady(t)'
      BY <1>17, <1>20, <2>1, <3>1
    <3>3. WereReady(txs)'
      BY <3>1, <3>2 DEF WereReady
    <3>4. Once(txs)'
      BY <1>6, <2>1 DEF Once, OpenIn, env_vars
    <3>5. QED
      BY <3>3, <3>4
  <2>3. ASSUME NEW t \in TxsOf(rest) PROVE WereReady(t)' /\ Once(t)' /\ Extends(t)'
    <3>1. t \in TxsOf(ws) /\ t \in TxLists /\ WereReady(t) /\ Once(t) /\ Extends(t)
      BY <1>5, <1>8, <1>18 DEF TxsFit
    <3>2. Extends(t)'
      <4>1. CASE "txs" \in DOMAIN w
        <5>1. t = txs'
          BY <1>8, <1>10, <3>1, <4>1 DEF TxsFit
        <5>2. QED
          BY <5>1 DEF Extends
      <4>2. CASE "txs" \notin DOMAIN w
        BY <1>6, <3>1, <4>2 DEF Extends
      <4>3. QED
        BY <4>1, <4>2
    <3>3. WereReady(t)'
      BY <1>17, <3>1
    <3>4. Once(t)'
      BY <1>6, <3>1 DEF Once, OpenIn, env_vars
    <3>5. QED
      BY <3>2, <3>3, <3>4
  <2>4. \A t, u \in TxsOf(rest) : t = u
    BY <1>5, <1>8 DEF TxsFit
  <2>5. TxsFit(rest)'
    BY <2>3, <2>4 DEF TxsFit, TxsOf
  <2>6. QED
    BY <1>7, <2>2, <2>5 DEF TxsOk
<1>23. LedgersFit(script.writes)'
  <2>1. \A l \in LedgersOf(rest) : ledger' \subseteq l
    <3> SUFFICES ASSUME NEW l \in LedgersOf(rest) PROVE ledger' \subseteq l
      OBVIOUS
    <3>1. CASE "ledger" \in DOMAIN w
      <4>1. PICK k \in DOMAIN rest : "ledger" \in DOMAIN rest[k] /\ l = rest[k].ledger
        BY DEF LedgersOf
      <4>2. 1 < k + 1 /\ k + 1 \in DOMAIN ws /\ l = ws[k + 1].ledger /\ "ledger" \in DOMAIN ws[k + 1]
        BY <1>5, <4>1
      <4>3. ws[1].ledger \subseteq ws[k + 1].ledger
        BY <1>5, <1>8, <3>1, <4>2 DEF LedgersFit
      <4>4. QED
        BY <1>5, <1>6, <3>1, <4>2, <4>3
    <3>2. CASE "ledger" \notin DOMAIN w
      BY <1>5, <1>6, <1>8, <3>2 DEF LedgersFit
    <3>3. QED
      BY <3>1, <3>2
  <2>2. ASSUME NEW m \in DOMAIN rest, NEW k \in DOMAIN rest, m < k,
               "ledger" \in DOMAIN rest[m], "ledger" \in DOMAIN rest[k]
        PROVE  rest[m].ledger \subseteq rest[k].ledger
    <3>1. m + 1 < k + 1 /\ m + 1 \in DOMAIN ws /\ k + 1 \in DOMAIN ws
      BY <1>5, <2>2
    <3>2. QED
      BY <1>5, <1>8, <2>2, <3>1 DEF LedgersFit
  <2>3. LedgersFit(rest)'
    BY <2>1, <2>2 DEF LedgersFit, LedgersOf
  <2>4. QED
    BY <1>7, <2>3
<1>24. \A p \in Procs : job[p].at = "reconcile" => script'.q = script.q /\ script'.left = script.left
                                                  /\ script'.by = script.by
  BY <1>4, <1>6 DEF QueueInv, LockOk, Scripts
<1>25. ASSUME NEW i \in Items, Over(i) PROVE Over(i)'
  <2>1. OverIn(items', i)
    BY <1>1, <1>6, <1>9, <1>25 DEF Over, KeptIn
  <2>2. KeptIn(rest, i)
    BY <1>1, <1>5, <1>25 DEF Over, KeptIn
  <2>3. \A n \in OpenIn(txs') : txs'[n].item = i => txs'[n].refused
    BY <1>1, <1>6, <1>10, <1>25 DEF Over, KeptIn, OpenTxs
  <2>4. \A p \in Procs : /\ job[p].at = "reconcile" => OverIn(script'.q, i)
                         /\ job[p].at \in Owning => job[p].item # i
    BY <1>24, <1>25 DEF Over
  <2>5. (KeptIn(script.writes, i))'
    BY <1>7, <2>2 DEF KeptIn, QueuesOf, TxsOf, OpenIn, OverIn
  <2>6. store' = "json" /\ UNCHANGED job
    BY <1>6, <1>25 DEF Over, env_vars
  <2>7. QED
    BY <2>1, <2>3, <2>4, <2>5, <2>6 DEF Over, OverIn, OpenTxs, OpenIn
<1>26. ChargeOk'
  <2>1. \A n \in DOMAIN txs' : txs'[n].phase = "settled" =>
          (\A s \in txs'[n].segs : Wall(n, s) \in ledger') \/ (Over(txs[n].item))'
    <3> SUFFICES ASSUME NEW n \in DOMAIN txs', txs'[n].phase = "settled"
                 PROVE  (\A s \in txs'[n].segs : Wall(n, s) \in ledger') \/ (Over(txs[n].item))'
      OBVIOUS
    <3>1. PICK i \in Items : i = txs'[n].item
      BY <1>20, TxListLaw DEF Tx
    <3>2. (\A s \in txs'[n].segs : Wall(n, s) \in ledger') \/ Over(i)
      <4>1. CASE "txs" \in DOMAIN w
        <5>1. \/ \A s \in ws[1].txs[n].segs : Backed(ws, 1, Wall(n, s))
              \/ Over(ws[1].txs[n].item)
          BY <1>5, <1>6, <1>8, <4>1 DEF SettledFit
        <5>2. \A e : Backed(ws, 1, e) => e \in ledger'
          BY <1>5, <1>6, <1>13 DEF Backed
        <5>3. QED
          BY <1>5, <1>6, <3>1, <4>1, <5>1, <5>2
      <4>2. CASE "txs" \notin DOMAIN w
        <5>1. (\A s \in txs[n].segs : Wall(n, s) \in ledger) \/ Over(txs[n].item)
          BY <1>6, <4>2 DEF QueueInv, ChargeOk
        <5>2. QED
          BY <1>6, <1>13, <3>1, <4>2, <5>1
      <4>3. QED
        BY <4>1, <4>2
    <3>3. Over(i) => Over(i)'
      BY <1>25
    <3>4. Over(i)' => (Over(txs[n].item))'
      BY <3>1 DEF Over
    <3>5. QED
      BY <3>2, <3>3, <3>4
  <2>2. ASSUME NEW k \in DOMAIN rest, "txs" \in DOMAIN rest[k], NEW n \in DOMAIN rest[k].txs,
               rest[k].txs[n].phase = "settled"
        PROVE  (\A s \in rest[k].txs[n].segs : Backed(rest, k, Wall(n, s))') \/ Over(rest[k].txs[n].item)'
    <3>1. k \in Nat \ {0} /\ k + 1 \in DOMAIN ws /\ rest[k] = ws[k + 1]
      BY <1>5
    <3>2. rest[k] \in Write
      BY <1>5
    <3>3. rest[k].txs[n].item \in Items
      BY <2>2, <3>2, WriteType, TxListLaw DEF Tx
    <3>4. \/ \A s \in rest[k].txs[n].segs : Backed(ws, k + 1, Wall(n, s))
          \/ Over(rest[k].txs[n].item)
      BY <1>8, <2>2, <3>1 DEF SettledFit
    <3>5. ASSUME NEW e, Backed(ws, k + 1, e) PROVE Backed(rest, k, e)'
      <4>1. CASE e \in ledger
        BY <1>13, <4>1 DEF Backed
      <4>2. ASSUME NEW m \in 1..(k + 1), "ledger" \in DOMAIN ws[m], e \in ws[m].ledger
            PROVE  Backed(rest, k, e)'
        <5>1. CASE m = 1
          BY <1>5, <1>6, <4>2, <5>1 DEF Backed
        <5>2. CASE m # 1
          <6>1. m - 1 \in 1..k
            BY <3>1, <5>2
          <6>2. m - 1 \in DOMAIN rest /\ rest[m - 1] = ws[m]
            <7>1. DOMAIN ws = 1..Len(ws) /\ Len(ws) \in Nat
              BY <1>4
            <7>2. m \in DOMAIN ws
              BY <3>1, <7>1
            <7>3. QED
              BY <1>3, <1>4, <5>2, <7>2, TailLaw
          <6>3. QED
            BY <4>2, <6>1, <6>2 DEF Backed
        <5>3. QED
          BY <5>1, <5>2
      <4>3. QED
        BY <3>5, <4>1, <4>2 DEF Backed
    <3>6. QED
      BY <1>25, <3>3, <3>4, <3>5
  <2>3. SettledFit(rest)'
    BY <2>2 DEF SettledFit, Wall
  <2>4. QED
    BY <1>7, <2>1, <2>3 DEF ChargeOk, Wall
<1>27. TypeOK'
  BY <1>6, <1>7, <1>13, <1>20 DEF QueueInv, TypeOK, env_vars
<1>28. LockOk'
  <2>1. script.by \in Procs
    BY <1>1, <1>4 DEF QueueInv, LockOk, Scripts
  <2>2. CASE rest = <<>> /\ job[script.by].at # "reconcile"
    <3>1. script' = NoScript
      BY <1>6, <2>2
    <3>2. \A p \in Procs : job[p].at # "reconcile"
      BY <2>2 DEF QueueInv, LockOk
    <3>3. QED
      BY <1>6, <3>1, <3>2, NoScriptLaw, OtherAssumption DEF LockOk
  <2>3. CASE ~(rest = <<>> /\ job[script.by].at # "reconcile")
    <3>1. script'.by = script.by
      BY <1>4, <1>6, <2>3 DEF Scripts
    <3>2. rest = <<>> => job[script.by].at = "reconcile"
      BY <2>3
    <3>3. QED
      BY <1>6, <1>7, <2>1, <3>1, <3>2, OtherAssumption DEF QueueInv, LockOk
  <2>4. QED
    BY <2>2, <2>3
<1>29. GoalsOk' /\ LeaseOk'
  BY <1>6, OtherAssumption DEF QueueInv, GoalsOk, LeaseOk
<1>30. MemoryOk'
  <2> SUFFICES ASSUME NEW p \in Procs, job[p].at = "reconcile"
               PROVE  Right(script.q)' /\ MayFollow(items, script.q)' /\ QueuesToCome' = {}
    BY <1>6 DEF MemoryOk
  <2>1. Right(script.q) /\ MayFollow(items, script.q) /\ QueuesOf(ws) = {}
    BY <1>1 DEF QueueInv, MemoryOk, QueuesToCome
  <2>2. "items" \notin DOMAIN w
    BY <1>9, <2>1
  <2>3. items' = items /\ script'.q = script.q
    BY <1>6, <1>24, <2>2
  <2>4. Right(script.q)' /\ MayFollow(items, script.q)'
    BY <1>6, <1>14, <2>1, <2>3 DEF Right, MayFollow, Extends
  <2>5. QueuesOf(rest) = {}
    BY <1>5, <2>1
  <2>6. QED
    BY <1>7, <2>4, <2>5 DEF QueuesToCome, QueuesOf
<1>31. ASSUME NEW p \in Procs PROVE JobOk(p)'
  BY <1>6, <1>14 DEF QueueInv, JobOk, Extends
<1>32. TxsAtLast' = TxsAtLast
  <2>1. TxsOf(script.writes)' = TxsOf(rest)
    BY <1>7 DEF TxsOf
  <2>2. CASE "txs" \in DOMAIN w
    <3>1. TxsOf(ws) = TxsOf(rest) \cup {txs'}
      BY <1>3, <1>4, <1>5, <1>6, <2>2, TailLaw
    <3>2. \A t \in TxsOf(ws) : t = txs'
      BY <1>8, <1>10, <2>2 DEF TxsFit
    <3>3. QED
      BY <1>1, <2>1, <3>1, <3>2 DEF TxsAtLast, TxsToCome
  <2>3. CASE "txs" \notin DOMAIN w
    <3>1. TxsOf(ws) = TxsOf(rest) /\ txs' = txs
      BY <1>3, <1>4, <1>5, <1>6, <2>3, TailLaw
    <3>2. QED
      BY <1>1, <2>1, <3>1 DEF TxsAtLast, TxsToCome
  <2>4. QED
    BY <2>2, <2>3
<1>33. QueuesAtLast' \subseteq QueuesAtLast /\ ({items} \cup QueuesToCome)' \subseteq {items} \cup QueuesToCome
  <2>1. QueuesOf(script.writes)' = QueuesOf(rest)
    BY <1>7 DEF QueuesOf
  <2>2. CASE "items" \in DOMAIN w
    <3>1. QueuesOf(ws) = QueuesOf(rest) \cup {items'}
      BY <1>3, <1>4, <1>5, <1>6, <2>2, TailLaw
    <3>2. QED
      BY <1>1, <2>1, <3>1 DEF QueuesAtLast, QueuesToCome
  <2>3. CASE "items" \notin DOMAIN w
    <3>1. QueuesOf(ws) = QueuesOf(rest) /\ items' = items
      BY <1>3, <1>4, <1>5, <1>6, <2>3, TailLaw
    <3>2. QED
      BY <1>1, <2>1, <3>1 DEF QueuesAtLast, QueuesToCome
  <2>4. QED
    BY <2>2, <2>3
<1>34. ASSUME NEW p \in Procs PROVE OwnOk(p)'
  <2>1. OwnOk(p) /\ job' = job /\ store' = store
    BY <1>6 DEF QueueInv, env_vars
  <2>2. job[p].at = "reconcile" =>
          \A t \in TxsAtLast : script'.left \subseteq OpenIn(t) /\ AllRefused(t, script'.left)
    BY <1>24, <2>1 DEF OwnOk
  <2>3. job[p].at \in Past => \A t \in TxsAtLast : AllRefused(t, {})
    BY <2>1 DEF OwnOk
  <2>4. job[p].at \in Owning \cup {"fail-settle"} => \A t \in TxsAtLast : Owns(p, t)
    BY <2>1 DEF OwnOk
  <2>5. job[p].at \in Owning =>
          \A q \in ({items} \cup QueuesToCome)' :
            q[job[p].item].state \notin {"completed", "failed", "absent"}
    BY <1>33, <2>1 DEF OwnOk
  <2>6. job[p].at = "fail-settle" =>
          store = "json" /\ \A q \in QueuesAtLast' : OverIn(q, job[p].item)
    BY <1>33, <2>1 DEF OwnOk
  <2>7. \A t : /\ Owns(p, t) => Owns(p, t)'
               /\ \A but : AllRefused(t, but) => AllRefused(t, but)'
    BY <2>1 DEF Owns, AllRefused, OpenIn
  <2>8. \A q : OverIn(q, job[p].item) => OverIn(q, job[p].item)'
    BY <2>1 DEF OverIn
  <2>9. /\ (job[p].at = "reconcile" =>
              \A t \in TxsAtLast : script.left \subseteq OpenIn(t) /\ AllRefused(t, script.left))'
        /\ (job[p].at \in Past => \A t \in TxsAtLast : AllRefused(t, {}))'
    BY <1>32, <2>1, <2>2, <2>3 DEF AllRefused, OpenIn
  <2>10. (job[p].at \in Owning \cup {"fail-settle"} => \A t \in TxsAtLast : Owns(p, t))'
    BY <1>32, <2>1, <2>4, <2>7 DEF Owns, AllRefused, OpenIn
  <2>11. (job[p].at = "fail-settle" => store = "json" /\ \A q \in QueuesAtLast : OverIn(q, job[p].item))'
    BY <2>1, <2>6 DEF OverIn
  <2>12. QED
    BY <2>1, <2>5, <2>9, <2>10, <2>11 DEF OwnOk
<1>35. Serial'
  BY DEF QueueInv, Serial
<1>36. QED
  BY <1>12, <1>13, <1>21, <1>22, <1>23, <1>26, <1>27, <1>28, <1>29, <1>30, <1>31, <1>34, <1>35 DEF QueueInv
-----------------------------------------------------------------------------
(* Steps that leave the files and the lock alone. *)

LEMMA ToLaw ==
  ASSUME QueueInv, NEW p \in Procs, NEW at, To(p, at), [job[p] EXCEPT !.at = at] \in Job
  PROVE  /\ job' \in [Procs -> Job] /\ job'[p].at = at
         /\ job'[p].item = job[p].item /\ job'[p].tx = job[p].tx /\ job'[p].only = job[p].only
         /\ job'[p].drives = job[p].drives /\ job'[p].ran = job[p].ran
         /\ job'[p].ok = job[p].ok /\ job'[p].sent = job[p].sent
<1>1. job \in [Procs -> Job]
  BY DEF QueueInv, TypeOK
<1>2. PICK x : x = [job[p] EXCEPT !.at = at]
  OBVIOUS
<1>3. job' = [job EXCEPT ![p] = x]
  BY <1>2 DEF To
<1>4. job[p] \in Job /\ x \in Job
  BY <1>1, <1>2
<1>5. /\ x.at = at /\ x.item = job[p].item /\ x.tx = job[p].tx /\ x.only = job[p].only
      /\ x.drives = job[p].drives /\ x.ran = job[p].ran /\ x.ok = job[p].ok /\ x.sent = job[p].sent
  BY <1>2, <1>4 DEF Job
<1>6. job' \in [Procs -> Job] /\ job'[p] = x
  BY <1>1, <1>3, <1>4
<1>7. QED
  BY <1>5, <1>6

LEMMA JobLaw ==
  ASSUME QueueInv, NEW p \in Procs
  PROVE  /\ job[p] \in Job
         /\ \A at \in {"idle", "reconcile", "pick", "slot", "yield", "reset", "register", "start",
                       "bind", "driving", "record", "failing", "fail-settle", "fail-charge",
                       "finish", "mark", "deliver", "abort", "conclude", "final", "clear", "catch"} :
              [job[p] EXCEPT !.at = at] \in Job
         /\ \A r \in Procs : r = p
         /\ JobOk(p) /\ OwnOk(p)
<1>1. job[p] \in Job
  BY DEF QueueInv, TypeOK
<1>2. \A at \in {"idle", "reconcile", "pick", "slot", "yield", "reset", "register", "start",
                  "bind", "driving", "record", "failing", "fail-settle", "fail-charge",
                  "finish", "mark", "deliver", "abort", "conclude", "final", "clear", "catch"} :
        [job[p] EXCEPT !.at = at] \in Job
  BY <1>1 DEF Job
<1>3. QED
  BY <1>1, <1>2 DEF QueueInv, Serial

LEMMA QuitLaw ==
  ASSUME QueueInv, NEW p \in Procs, Quit(p)
  PROVE  job' \in [Procs -> Job] /\ job'[p] = Idle /\ job'[p].at = "idle" /\ ~job'[p].ok
         /\ job'[p].sent = "none" /\ job'[p].item = None
<1>1. Idle \in Job
  BY BoundAssumption DEF Idle, Job
<1>2. QED
  BY <1>1 DEF QueueInv, TypeOK, Quit, Idle

(* Who works without having the lock found it free: nobody else works. *)
LEMMA WorksFree ==
  ASSUME QueueInv, NEW p \in Procs,
         job[p].at \notin {"idle", "reconcile", "pick", "slot", "fail-settle", "clear", "final"}
  PROVE  Free
  BY JobLaw DEF QueueInv, LockOk, Free, TypeOK, Scripts

LEMMA QuietStep ==
  ASSUME QueueInv, NEW p \in Procs, Free, UNCHANGED <<store, items, txs, ledger, script>>,
         finished \subseteq finished', shown \subseteq shown', GoesOn(p),
         TypeOK', GoalsOk', LeaseOk', JobOk(p)'
  PROVE  QueueInv'
<1>1. \A r \in Procs : r = p
  BY JobLaw
<1>2. /\ QueuesOk' /\ TxsOk' /\ ChargeOk' /\ LedgersFit(script.writes)'
      /\ MemoryOk' /\ \A r \in Procs : OwnOk(r)'
  BY <1>1, Quiet
<1>3. LockOk'
  BY <1>1, OtherAssumption DEF QueueInv, LockOk, Free, GoesOn
<1>4. Serial' /\ \A r \in Procs : JobOk(r)'
  BY <1>1 DEF QueueInv, Serial
<1>5. QED
  BY <1>2, <1>3, <1>4 DEF QueueInv

LEMMA OthersStep ==
  ASSUME QueueInv, UNCHANGED <<store, items, txs, ledger, script, job, finished>>,
         shown \subseteq shown', TypeOK', GoalsOk', LeaseOk', \A p \in Procs : JobOk(p)'
  PROVE  QueueInv'
<1>1. \A p \in Procs : GoesOn(p)
  BY DEF GoesOn
<1>2. /\ QueuesOk' /\ TxsOk' /\ ChargeOk' /\ LedgersFit(script.writes)'
      /\ MemoryOk' /\ \A r \in Procs : OwnOk(r)'
  BY <1>1, Quiet
<1>3. LockOk' /\ Serial'
  BY DEF QueueInv, LockOk, Serial
<1>4. QED
  BY <1>2, <1>3 DEF QueueInv

LEMMA ReadSlotStep ==
  ASSUME QueueInv, NEW p \in Procs, ReadSlot(p)
  PROVE  QueueInv'
<1>1. PICK at \in {"register", "bind", "yield", "reset"} :
        To(p, at) /\ (at = "bind" => slot # None /\ slot.goal = job[p].item)
  BY DEF ReadSlot
<1>2. /\ job' \in [Procs -> Job] /\ job'[p].at = at
      /\ job'[p].item = job[p].item /\ job'[p].tx = job[p].tx
      /\ job'[p].drives = job[p].drives /\ job'[p].ok = job[p].ok /\ job'[p].sent = job[p].sent
  BY <1>1, JobLaw, ToLaw
<1>3. job[p].at = "slot" /\ Free /\ UNCHANGED <<env_vars, store_vars, slot, shown, script, finished>>
  BY DEF ReadSlot, Is
<1>4. GoesOn(p)
  BY <1>2, <1>3 DEF GoesOn, Owning, Past
<1>5. TypeOK'
  BY <1>2, <1>3 DEF QueueInv, TypeOK, env_vars, store_vars
<1>6. GoalsOk' /\ LeaseOk'
  BY <1>3, JobLaw DEF QueueInv, GoalsOk, LeaseOk, store_vars
<1>7. JobOk(p)'
  BY <1>1, <1>2, <1>3, JobLaw DEF JobOk, Owning
<1>8. QED
  BY <1>3, <1>4, <1>5, <1>6, <1>7, QuietStep DEF env_vars, store_vars

LEMMA ResetSlotStep ==
  ASSUME QueueInv, NEW p \in Procs, ResetSlot(p)
  PROVE  QueueInv'
<1>1. /\ job' \in [Procs -> Job] /\ job'[p].at = "register"
      /\ job'[p].item = job[p].item /\ job'[p].tx = job[p].tx
      /\ job'[p].drives = job[p].drives /\ job'[p].ok = job[p].ok /\ job'[p].sent = job[p].sent
  BY JobLaw, ToLaw DEF ResetSlot
<1>2. /\ job[p].at = "reset" /\ Free /\ slot' = None
      /\ UNCHANGED <<env_vars, store_vars, shown, script, finished>>
  BY DEF ResetSlot, Is
<1>3. GoesOn(p)
  BY <1>1, <1>2 DEF GoesOn, Owning, Past
<1>4. TypeOK'
  BY <1>1, <1>2 DEF QueueInv, TypeOK, env_vars, store_vars
<1>5. GoalsOk' /\ LeaseOk'
  BY <1>2, JobLaw DEF QueueInv, GoalsOk, LeaseOk, store_vars
<1>6. JobOk(p)'
  BY <1>1, <1>2, JobLaw DEF JobOk, Owning
<1>7. QED
  BY <1>2, <1>3, <1>4, <1>5, <1>6, QuietStep DEF env_vars, store_vars

LEMMA RegisterStep ==
  ASSUME QueueInv, NEW p \in Procs, Register(p)
  PROVE  QueueInv'
<1>1. PICK at \in {"start", "catch"} :
        To(p, at) /\ (\/ at = "start" /\ slot' = [goal |-> job[p].item, status |-> "planning"]
                      \/ at = "catch" /\ UNCHANGED slot)
  BY DEF Register
<1>2. /\ job' \in [Procs -> Job] /\ job'[p].at = at
      /\ job'[p].item = job[p].item /\ job'[p].tx = job[p].tx
      /\ job'[p].drives = job[p].drives /\ job'[p].ok = job[p].ok /\ job'[p].sent = job[p].sent
  BY <1>1, JobLaw, ToLaw
<1>3. job[p].at = "register" /\ Free /\ UNCHANGED <<env_vars, store_vars, shown, script, finished>>
  BY DEF Register, Is
<1>4. GoesOn(p)
  BY <1>1, <1>2, <1>3 DEF GoesOn, Owning, Past
<1>5. job[p].item \in Items
  BY <1>3, JobLaw DEF JobOk, Owning
<1>6. slot' \in {None} \cup Slots
  BY <1>1, <1>5 DEF QueueInv, TypeOK, Slots
<1>7. TypeOK'
  BY <1>2, <1>3, <1>6 DEF QueueInv, TypeOK, env_vars, store_vars
<1>8. LeaseOk'
  BY <1>3, JobLaw DEF QueueInv, LeaseOk, store_vars
<1>9. GoalsOk'
  BY <1>1, <1>3 DEF QueueInv, GoalsOk
<1>10. at = "start" => slot' \in Slots /\ slot'.goal = job[p].item
  BY <1>1, <1>5 DEF Slots
<1>11. JobOk(p)'
  BY <1>1, <1>2, <1>3, <1>10, NoneAssumption, JobLaw DEF JobOk, Owning
<1>12. QED
  BY <1>3, <1>4, <1>7, <1>8, <1>9, <1>11, QuietStep DEF env_vars, store_vars

LEMMA SlotLaw ==
  ASSUME QueueInv, slot # None, NEW s \in {"planning", "executing", "done"}
  PROVE  /\ slot \in Slots /\ slot.goal \in Items \cup {Other}
         /\ [slot EXCEPT !.status = s] \in Slots /\ [slot EXCEPT !.status = s].goal = slot.goal
         /\ [slot EXCEPT !.status = s].status = s /\ [slot EXCEPT !.status = s] # None
  BY NoneAssumption DEF QueueInv, TypeOK, Slots

LEMMA StartStep ==
  ASSUME QueueInv, NEW p \in Procs, Start(p)
  PROVE  QueueInv'
<1>1. PICK at \in {"bind", "catch"} :
        To(p, at) /\ (\/ at = "bind" /\ slot # None /\ slot' = [slot EXCEPT !.status = "executing"]
                      \/ at = "catch" /\ UNCHANGED slot)
  BY DEF Start
<1>2. /\ job' \in [Procs -> Job] /\ job'[p].at = at
      /\ job'[p].item = job[p].item /\ job'[p].tx = job[p].tx
      /\ job'[p].drives = job[p].drives /\ job'[p].ok = job[p].ok /\ job'[p].sent = job[p].sent
  BY <1>1, JobLaw, ToLaw
<1>3. job[p].at = "start" /\ Free /\ UNCHANGED <<env_vars, store_vars, shown, script, finished>>
  BY DEF Start, Is
<1>4. GoesOn(p)
  BY <1>1, <1>2, <1>3 DEF GoesOn, Owning, Past
<1>5. at = "bind" => slot' \in Slots /\ slot'.goal = slot.goal /\ slot'.status = "executing" /\ slot' # None
  BY <1>1, SlotLaw
<1>6. TypeOK'
  BY <1>1, <1>2, <1>3, <1>5 DEF QueueInv, TypeOK, env_vars, store_vars
<1>7. LeaseOk'
  BY <1>3, JobLaw DEF QueueInv, LeaseOk, store_vars
<1>8. GoalsOk'
  BY <1>1, <1>3, <1>5 DEF QueueInv, GoalsOk
<1>9. JobOk(p)'
  BY <1>1, <1>2, <1>3, <1>5, JobLaw DEF JobOk, Owning
<1>10. QED
  BY <1>3, <1>4, <1>6, <1>7, <1>8, <1>9, QuietStep DEF env_vars, store_vars

LEMMA BindAndDriveStep ==
  ASSUME QueueInv, NEW p \in Procs, BindAndDrive(p)
  PROVE  QueueInv'
<1>1. job[p].at = "bind" /\ Free /\ UNCHANGED <<env_vars, items, txs, ledger, slot, shown, script, finished>>
  BY DEF BindAndDrive, Is
<1>2. job[p].item \in Items /\ slot # None /\ slot.goal = job[p].item
  BY <1>1, JobLaw DEF JobOk, Owning
<1>3. PICK at \in {"driving", "catch"} :
        /\ job' \in [Procs -> Job] /\ job'[p].at = at
        /\ job'[p].item = job[p].item /\ job'[p].tx = job[p].tx
        /\ job'[p].ok = job[p].ok /\ job'[p].sent = job[p].sent
        /\ at = "driving" => /\ job'[p].drives = job[p].item /\ lease' = p
                              /\ slot.status = "executing"
        /\ at = "catch" => UNCHANGED lease
  <2>1. CASE To(p, "catch") /\ UNCHANGED lease
    BY <2>1, JobLaw, ToLaw
  <2>2. CASE /\ job' = [job EXCEPT ![p].at = "driving", ![p].drives = slot.goal]
             /\ lease' = p /\ slot.status = "executing"
    <3>1. PICK x : x = [job[p] EXCEPT !.at = "driving", !.drives = slot.goal]
      OBVIOUS
    <3>2. job' = [job EXCEPT ![p] = x]
      BY <2>2, <3>1
    <3>3. /\ x \in Job /\ x.at = "driving" /\ x.drives = job[p].item /\ x.item = job[p].item
          /\ x.tx = job[p].tx /\ x.ok = job[p].ok /\ x.sent = job[p].sent
      <4>1. job[p] \in Job
        BY JobLaw
      <4>2. QED
        BY <1>2, <3>1, <4>1 DEF Job
    <3>4. job' \in [Procs -> Job] /\ job'[p] = x
      BY <3>2, <3>3 DEF QueueInv, TypeOK
    <3>5. QED
      BY <2>2, <3>3, <3>4
  <2>3. QED
    BY <2>1, <2>2 DEF BindAndDrive
<1>4. GoesOn(p)
  BY <1>1, <1>3 DEF GoesOn, Owning, Past
<1>5. lease' \in Procs \cup {None, "dead"}
  BY <1>3 DEF QueueInv, TypeOK
<1>6. TypeOK'
  BY <1>1, <1>3, <1>5 DEF QueueInv, TypeOK, env_vars
<1>7. LeaseOk'
  BY <1>1, <1>3, JobLaw DEF QueueInv, LeaseOk
<1>8. GoalsOk'
  BY <1>1 DEF QueueInv, GoalsOk
<1>9. JobOk(p)'
  BY <1>1, <1>2, <1>3, JobLaw DEF JobOk, Owning
<1>10. QED
  BY <1>1, <1>4, <1>6, <1>7, <1>8, <1>9, QuietStep DEF env_vars

LEMMA DriveEndsStep ==
  ASSUME QueueInv, NEW p \in Procs, DriveEnds(p)
  PROVE  QueueInv'
<1>1. /\ job[p].at = "driving" /\ lease' = None
      /\ UNCHANGED <<env_vars, items, txs, ledger, slot, shown, script, finished>>
  BY DEF DriveEnds
<1>2. PICK ok \in BOOLEAN : job' = [job EXCEPT ![p].at = "record", ![p].ok = ok]
  BY DEF DriveEnds
<1>3. PICK x : x = [job[p] EXCEPT !.at = "record", !.ok = ok]
  OBVIOUS
<1>4. /\ x \in Job /\ x.at = "record" /\ x.item = job[p].item
      /\ x.tx = job[p].tx /\ x.ok = ok /\ x.sent = job[p].sent
  <2>1. job[p] \in Job
    BY JobLaw
  <2>2. QED
    BY <1>3, <2>1 DEF Job
<1>5. job' \in [Procs -> Job] /\ job'[p] = x
  BY <1>2, <1>3, <1>4 DEF QueueInv, TypeOK
<1>6. Free
  BY <1>1, WorksFree
<1>7. GoesOn(p)
  BY <1>1, <1>4, <1>5 DEF GoesOn, Owning, Past
<1>8. TypeOK'
  BY <1>1, <1>5 DEF QueueInv, TypeOK, env_vars
<1>9. LeaseOk' /\ GoalsOk'
  BY <1>1, OtherAssumption DEF QueueInv, GoalsOk, LeaseOk
<1>10. JobOk(p)'
  BY <1>1, <1>4, <1>5, JobLaw DEF JobOk, Owning
<1>11. QED
  BY <1>1, <1>6, <1>7, <1>8, <1>9, <1>10, QuietStep DEF env_vars

LEMMA DriveThrowsStep ==
  ASSUME QueueInv, NEW p \in Procs, DriveThrows(p)
  PROVE  QueueInv'
<1>1. /\ job[p].at = "driving" /\ To(p, "catch") /\ lease' = None
      /\ UNCHANGED <<env_vars, items, txs, ledger, slot, shown, script, finished>>
  BY DEF DriveThrows
<1>2. /\ job' \in [Procs -> Job] /\ job'[p].at = "catch"
      /\ job'[p].item = job[p].item /\ job'[p].tx = job[p].tx
      /\ job'[p].ok = job[p].ok /\ job'[p].sent = job[p].sent
  BY <1>1, JobLaw, ToLaw
<1>3. Free
  BY <1>1, WorksFree
<1>4. GoesOn(p)
  BY <1>1, <1>2 DEF GoesOn, Owning, Past
<1>5. TypeOK'
  BY <1>1, <1>2 DEF QueueInv, TypeOK, env_vars
<1>6. LeaseOk' /\ GoalsOk'
  BY <1>1, OtherAssumption DEF QueueInv, GoalsOk, LeaseOk
<1>7. JobOk(p)'
  BY <1>1, <1>2, JobLaw DEF JobOk, Owning
<1>8. QED
  BY <1>1, <1>3, <1>4, <1>5, <1>6, <1>7, QuietStep DEF env_vars

LEMMA FinishStep ==
  ASSUME QueueInv, NEW p \in Procs, Finish(p)
  PROVE  QueueInv'
<1>1. job[p].at = "finish" /\ Free /\ UNCHANGED <<env_vars, store_vars, shown, script>>
  BY DEF Finish, Is
<1>2. /\ job[p].item \in Items /\ job[p].ok
      /\ slot # None /\ slot.goal = job[p].item /\ slot.status \in {"executing", "done"}
  BY <1>1, JobLaw DEF JobOk, Owning
<1>3. PICK at \in {"conclude", "mark"} :
        /\ job' \in [Procs -> Job] /\ job'[p].at = at
        /\ job'[p].item = job[p].item /\ job'[p].tx = job[p].tx /\ job'[p].sent = job[p].sent
        /\ at = "mark" => job'[p].ok /\ job[p].item \in Delivered
        /\ job'[p].ok => IF slot.status = "executing" THEN Done(slot.goal) ELSE UNCHANGED <<slot, finished>>
        /\ at = "conclude" => ~job'[p].ok \/ job[p].item \notin Delivered
  <2>1. CASE job' = [job EXCEPT ![p].at = "conclude", ![p].ok = FALSE]
    <3>1. PICK x : x = [job[p] EXCEPT !.at = "conclude", !.ok = FALSE]
      OBVIOUS
    <3>2. job[p] \in Job
      BY JobLaw
    <3>3. /\ x \in Job /\ x.at = "conclude" /\ ~x.ok /\ x.item = job[p].item
          /\ x.tx = job[p].tx /\ x.sent = job[p].sent
      BY <3>1, <3>2 DEF Job
    <3>4. job' \in [Procs -> Job] /\ job'[p] = x
      BY <2>1, <3>1, <3>3 DEF QueueInv, TypeOK
    <3>5. QED
      BY <3>3, <3>4
  <2>2. CASE /\ To(p, IF job[p].item \in Delivered THEN "mark" ELSE "conclude")
             /\ IF slot.status = "executing" THEN Done(slot.goal) ELSE UNCHANGED <<slot, finished>>
    <3>1. CASE job[p].item \in Delivered
      <4>1. To(p, "mark")
        BY <2>2, <3>1
      <4>2. QED
        BY <1>2, <2>2, <3>1, <4>1, JobLaw, ToLaw
    <3>2. CASE job[p].item \notin Delivered
      <4>1. To(p, "conclude")
        BY <2>2, <3>2
      <4>2. QED
        BY <2>2, <3>2, <4>1, JobLaw, ToLaw
    <3>3. QED
      BY <3>1, <3>2
  <2>3. QED
    BY <1>2, <2>1, <2>2 DEF Finish
<1>4. /\ finished \subseteq finished' /\ finished' \subseteq Items /\ slot' \in {None} \cup Slots
      /\ slot' # None /\ slot'.status = "done" => slot'.goal \in finished' \cup {Other}
  <2>1. CASE UNCHANGED <<slot, finished>>
    BY <2>1 DEF QueueInv, TypeOK, GoalsOk
  <2>2. CASE slot # None /\ Done(slot.goal)
    <3>1. /\ slot.goal \in Items \cup {Other} /\ slot' \in Slots /\ slot'.goal = slot.goal
      BY <2>2, SlotLaw DEF Done
    <3>2. finished' = finished \cup ({slot.goal} \cap Items)
      BY <2>2 DEF Done
    <3>3. QED
      BY <3>1, <3>2 DEF QueueInv, TypeOK
  <2>3. UNCHANGED <<slot, finished>> \/ (slot # None /\ Done(slot.goal))
    BY DEF Finish
  <2>4. QED
    BY <2>1, <2>2, <2>3
<1>5. job'[p].ok => job[p].item \in finished'
  <2>1. CASE slot.status = "executing" /\ Done(slot.goal)
    BY <1>2, <2>1 DEF Done
  <2>2. CASE slot.status = "done"
    BY <1>2, <1>4, <2>2, OtherAssumption DEF QueueInv, GoalsOk
  <2>3. QED
    BY <1>2, <1>3, <2>1, <2>2
<1>6. GoesOn(p)
  BY <1>1, <1>3 DEF GoesOn, Owning, Past
<1>7. TypeOK'
  BY <1>1, <1>3, <1>4 DEF QueueInv, TypeOK, env_vars, store_vars
<1>8. LeaseOk' /\ GoalsOk'
  BY <1>1, <1>4, JobLaw DEF QueueInv, GoalsOk, LeaseOk, store_vars
<1>9. JobOk(p)'
  BY <1>1, <1>2, <1>3, <1>5, JobLaw DEF JobOk, Owning
<1>10. QED
  BY <1>1, <1>4, <1>6, <1>7, <1>8, <1>9, QuietStep DEF env_vars, store_vars

LEMMA DeliverStep ==
  ASSUME QueueInv, NEW p \in Procs, Deliver(p)
  PROVE  QueueInv'
<1>1. job[p].at = "deliver" /\ UNCHANGED <<env_vars, store_vars, slot, script, finished>>
  BY DEF Deliver
<1>2. Free
  BY <1>1, WorksFree
<1>3. job[p].item \in Items /\ job[p].ok /\ job[p].item \in finished /\ job[p].item \in Delivered
  BY <1>1, JobLaw DEF JobOk, Owning
<1>4. shown \subseteq shown' /\ shown' \subseteq Delivered /\ shown' \subseteq finished
  BY <1>3 DEF QueueInv, TypeOK, GoalsOk, Deliver
<1>5. PICK at \in {"conclude", "abort"} :
        /\ job' \in [Procs -> Job] /\ job'[p].at = at
        /\ job'[p].item = job[p].item /\ job'[p].tx = job[p].tx /\ job'[p].ok = job[p].ok
        /\ job'[p].sent = "ok" => job[p].item \in shown'
        /\ at = "conclude" => job'[p].sent # "none"
  <2>1. ASSUME NEW sent \in {"ok", "unmet"},
               job' = [job EXCEPT ![p].at = "conclude", ![p].sent = sent],
               sent = "ok" => shown' = shown \cup {job[p].item}
        PROVE  /\ job' \in [Procs -> Job] /\ job'[p].at = "conclude"
               /\ job'[p].item = job[p].item /\ job'[p].tx = job[p].tx /\ job'[p].ok = job[p].ok
               /\ job'[p].sent = "ok" => job[p].item \in shown'
               /\ job'[p].sent # "none"
    <3>1. PICK x : x = [job[p] EXCEPT !.at = "conclude", !.sent = sent]
      OBVIOUS
    <3>2. job[p] \in Job
      BY JobLaw
    <3>3. /\ x \in Job /\ x.at = "conclude" /\ x.sent = sent /\ x.item = job[p].item
          /\ x.tx = job[p].tx /\ x.ok = job[p].ok
      BY <3>1, <3>2 DEF Job
    <3>4. job' \in [Procs -> Job] /\ job'[p] = x
      BY <2>1, <3>1, <3>3 DEF QueueInv, TypeOK
    <3>5. QED
      BY <2>1, <3>3, <3>4
  <2>2. CASE To(p, "abort")
    <3>1. /\ job' \in [Procs -> Job] /\ job'[p].at = "abort"
          /\ job'[p].item = job[p].item /\ job'[p].tx = job[p].tx /\ job'[p].ok = job[p].ok
          /\ job'[p].sent = job[p].sent
      BY <2>2, JobLaw, ToLaw
    <3>2. job[p].sent = "ok" => job[p].item \in shown
      BY JobLaw DEF JobOk
    <3>3. QED
      BY <1>4, <3>1, <3>2
  <2>3. QED
    BY <2>1, <2>2 DEF Deliver
<1>6. GoesOn(p)
  BY <1>1, <1>5 DEF GoesOn, Owning, Past
<1>7. TypeOK'
  BY <1>1, <1>4, <1>5 DEF QueueInv, TypeOK, env_vars, store_vars
<1>8. LeaseOk' /\ GoalsOk'
  BY <1>1, <1>4, JobLaw DEF QueueInv, GoalsOk, LeaseOk, store_vars
<1>9. JobOk(p)'
  BY <1>1, <1>3, <1>5, JobLaw DEF JobOk, Owning
<1>10. QED
  BY <1>1, <1>2, <1>4, <1>6, <1>7, <1>8, <1>9, QuietStep DEF env_vars, store_vars

(* A process that gives up its job knows nothing any more. *)
LEMMA IdleOk ==
  ASSUME NEW p \in Procs, job'[p] = Idle
  PROVE  JobOk(p)' /\ OwnOk(p)' /\ GoesOn(p)
  BY DEF JobOk, OwnOk, GoesOn, Idle, Owning, Past

LEMMA FinalStep ==
  ASSUME QueueInv, NEW p \in Procs, Final(p)
  PROVE  QueueInv'
<1>1. job[p].at = "final" /\ Free /\ UNCHANGED <<env_vars, store_vars, slot, shown, script, finished>>
  BY DEF Final, Is
<1>2. LeaseOk' /\ GoalsOk'
  BY <1>1, JobLaw DEF QueueInv, GoalsOk, LeaseOk, store_vars
<1>3. CASE To(p, "clear")
  <2>1. /\ job' \in [Procs -> Job] /\ job'[p].at = "clear"
        /\ job'[p].item = job[p].item /\ job'[p].tx = job[p].tx
        /\ job'[p].ok = job[p].ok /\ job'[p].sent = job[p].sent
    BY <1>3, JobLaw, ToLaw
  <2>2. GoesOn(p)
    BY <1>1, <2>1 DEF GoesOn, Owning, Past
  <2>3. TypeOK'
    BY <1>1, <2>1 DEF QueueInv, TypeOK, env_vars, store_vars
  <2>4. JobOk(p)'
    BY <1>1, <2>1, JobLaw DEF JobOk, Owning
  <2>5. QED
    BY <1>1, <1>2, <2>2, <2>3, <2>4, QuietStep DEF env_vars, store_vars
<1>4. CASE Quit(p)
  <2>1. job' \in [Procs -> Job] /\ job'[p] = Idle
    BY <1>4, QuitLaw
  <2>2. TypeOK'
    BY <1>1, <2>1 DEF QueueInv, TypeOK, env_vars, store_vars
  <2>3. QED
    BY <1>1, <1>2, <2>1, <2>2, IdleOk, QuietStep DEF env_vars, store_vars
<1>5. QED
  BY <1>3, <1>4 DEF Final

LEMMA ClearStep ==
  ASSUME QueueInv, NEW p \in Procs, Clear(p)
  PROVE  QueueInv'
<1>1. /\ job[p].at = "clear" /\ Free /\ slot' = None
      /\ UNCHANGED <<env_vars, store_vars, shown, script, finished>>
  BY DEF Clear, Is
<1>2. LeaseOk' /\ GoalsOk'
  BY <1>1, JobLaw DEF QueueInv, GoalsOk, LeaseOk, store_vars
<1>3. CASE job' = [job EXCEPT ![p] = [Idle EXCEPT !.at = "pick"]]
  <2>1. PICK x : x = [Idle EXCEPT !.at = "pick"]
    OBVIOUS
  <2>2. x \in Job /\ x.at = "pick" /\ ~x.ok /\ x.sent = "none"
    <3>1. Idle \in Job /\ ~Idle.ok /\ Idle.sent = "none"
      BY BoundAssumption DEF Idle, Job
    <3>2. QED
      BY <2>1, <3>1 DEF Job
  <2>3. job' \in [Procs -> Job] /\ job'[p] = x
    BY <1>3, <2>1, <2>2 DEF QueueInv, TypeOK
  <2>4. GoesOn(p)
    BY <1>1, <2>2, <2>3 DEF GoesOn, Owning, Past
  <2>5. TypeOK'
    BY <1>1, <2>3 DEF QueueInv, TypeOK, env_vars, store_vars
  <2>6. JobOk(p)'
    BY <2>2, <2>3 DEF JobOk, Owning
  <2>7. QED
    BY <1>1, <1>2, <2>4, <2>5, <2>6, QuietStep DEF env_vars, store_vars
<1>4. CASE Quit(p)
  <2>1. job' \in [Procs -> Job] /\ job'[p] = Idle
    BY <1>4, QuitLaw
  <2>2. TypeOK'
    BY <1>1, <2>1 DEF QueueInv, TypeOK, env_vars, store_vars
  <2>3. QED
    BY <1>1, <1>2, <2>1, <2>2, IdleOk, QuietStep DEF env_vars, store_vars
<1>5. QED
  BY <1>3, <1>4 DEF Clear

LEMMA PeopleStep ==
  ASSUME QueueInv,
         \/ \E i \in Items : Authorize(i) \/ DeliverByHand(i)
         \/ ResumePoints \/ LeaseExpires \/ PersonUsesSlot
  PROVE  QueueInv'
<1>1. CASE \E i \in Items : Authorize(i)
  <2>1. PICK i \in Items : Authorize(i)
    BY <1>1
  <2>2. TypeOK'
    BY <2>1 DEF QueueInv, TypeOK, Authorize, store_vars
  <2>3. GoalsOk' /\ LeaseOk' /\ \A p \in Procs : JobOk(p)'
    BY <2>1 DEF QueueInv, GoalsOk, LeaseOk, JobOk, Authorize, store_vars
  <2>4. QED
    BY <2>1, <2>2, <2>3, OthersStep DEF Authorize, store_vars
<1>2. CASE \E i \in Items : DeliverByHand(i)
  <2>1. PICK i \in Items : DeliverByHand(i)
    BY <1>2
  <2>2. /\ i \in finished \cap Delivered /\ shown' = shown \cup {i}
        /\ UNCHANGED <<env_vars, store_vars, slot, job, script, finished>>
    BY <2>1 DEF DeliverByHand
  <2>3. TypeOK'
    BY <2>2 DEF QueueInv, TypeOK, env_vars, store_vars
  <2>4. GoalsOk' /\ LeaseOk' /\ \A p \in Procs : JobOk(p)'
    BY <2>2 DEF QueueInv, GoalsOk, LeaseOk, JobOk, store_vars
  <2>5. QED
    BY <2>2, <2>3, <2>4, OthersStep DEF env_vars, store_vars
<1>3. CASE ResumePoints
  <2>1. TypeOK'
    BY <1>3 DEF QueueInv, TypeOK, ResumePoints, store_vars
  <2>2. GoalsOk' /\ LeaseOk' /\ \A p \in Procs : JobOk(p)'
    BY <1>3 DEF QueueInv, GoalsOk, LeaseOk, JobOk, ResumePoints, store_vars
  <2>3. QED
    BY <1>3, <2>1, <2>2, OthersStep DEF ResumePoints, store_vars
<1>4. CASE LeaseExpires
  <2>1. TypeOK'
    BY <1>4 DEF QueueInv, TypeOK, LeaseExpires, env_vars
  <2>2. GoalsOk' /\ LeaseOk' /\ \A p \in Procs : JobOk(p)'
    BY <1>4, OtherAssumption DEF QueueInv, GoalsOk, LeaseOk, JobOk, LeaseExpires
  <2>3. QED
    BY <1>4, <2>1, <2>2, OthersStep DEF LeaseExpires, env_vars
<1>5. CASE PersonUsesSlot
  <2>1. /\ \A p \in Procs : job[p].at \in {"idle", "pick", "slot"}
        /\ UNCHANGED <<store, limits, store_vars, approved, acked, shown, job, script, finished>>
    BY <1>5 DEF PersonUsesSlot, QueueInv, Serial
  <2>2. slot' = None \/ (slot' \in Slots /\ slot'.goal = Other)
    <3>1. CASE slot' = None
      BY <3>1
    <3>2. CASE slot' = [goal |-> Other, status |-> "executing"]
      BY <3>2 DEF Slots
    <3>3. CASE /\ slot = [goal |-> Other, status |-> "executing"]
               /\ slot' = [slot EXCEPT !.status = "done"]
      <4>1. slot \in Slots /\ slot.goal = Other
        BY <3>3 DEF Slots
      <4>2. QED
        BY <3>3, <4>1 DEF Slots
    <3>4. QED
      BY <1>5, <3>1, <3>2, <3>3 DEF PersonUsesSlot
  <2>3. TypeOK'
    BY <2>1, <2>2 DEF QueueInv, TypeOK, store_vars
  <2>4. GoalsOk' /\ LeaseOk'
    BY <2>1, <2>2 DEF QueueInv, GoalsOk, LeaseOk, store_vars
  <2>5. ASSUME NEW p \in Procs PROVE JobOk(p)'
    BY <2>1 DEF QueueInv, JobOk
  <2>6. QED
    BY <2>1, <2>3, <2>4, <2>5, OthersStep DEF store_vars
<1>6. QED
  BY <1>1, <1>2, <1>3, <1>4, <1>5

-----------------------------------------------------------------------------
(* Single writes, which find the lock free. *)

LEMMA FreeAgain ==
  ASSUME QueueInv, Free, UNCHANGED script
  PROVE  /\ script'.writes = <<>> /\ script'.by = None
         /\ QueuesToCome' = {} /\ TxsToCome' = {} /\ TxsAtLast' = {txs'} /\ QueuesAtLast' = {items'}
         /\ \A i : (KeptIn(script.writes, i))'
<1>1. script'.writes = <<>> /\ script'.by = None
  BY DEF QueueInv, LockOk, Free
<1>2. QueuesToCome' = {} /\ TxsToCome' = {}
  BY <1>1 DEF QueuesToCome, QueuesOf, TxsToCome, TxsOf
<1>3. \A i : (KeptIn(script.writes, i))'
  BY <1>1 DEF KeptIn, QueuesOf, TxsOf
<1>4. QED
  BY <1>1, <1>2, <1>3 DEF TxsAtLast, QueuesAtLast

LEMMA NothingToCome ==
  ASSUME QueueInv, Free, UNCHANGED script
  PROVE  (QueuesFit(script.writes) /\ TxsFit(script.writes) /\ LedgersFit(script.writes)
            /\ SettledFit(script.writes))'
<1>1. script'.writes = <<>>
  BY FreeAgain
<1>2. QED
  BY <1>1 DEF QueuesFit, QueuesOf, TxsFit, TxsOf, LedgersFit, LedgersOf, SettledFit

(* A transaction is changed in place. *)
LEMMA EditStep ==
  ASSUME QueueInv, NEW p \in Procs, Free, UNCHANGED script,
         NEW n \in DOMAIN txs, NEW x \in Tx,
         x.item = txs[n].item, x.refused = txs[n].refused,
         x.phase = "open" => txs[n].phase = "open",
         txs' = [txs EXCEPT ![n] = x],
         UNCHANGED <<store, items, ledger>>, finished \subseteq finished', shown \subseteq shown',
         x.phase = "settled" => OverIn(items, x.item) /\ store = "json" /\ AllRefused(txs, {n}),
         job'[p].at \in Owning =>
           job[p].at \in Owning /\ job'[p].item = job[p].item /\ x.phase = "open",
         job'[p].at # "reconcile"
  PROVE  /\ QueuesOk' /\ TxsOk' /\ ChargeOk' /\ LedgersFit(script.writes)' /\ MemoryOk'
         /\ LockOk' /\ Serial' /\ txs' \in TxLists
<1>1. txs \in TxLists /\ \A r \in Procs : r = p
  BY JobLaw DEF QueueInv, TypeOK
<1>2. /\ txs' \in TxLists /\ DOMAIN txs' = DOMAIN txs /\ txs'[n] = x
      /\ \A m \in DOMAIN txs : txs'[m].item = txs[m].item /\ (m # n => txs'[m] = txs[m])
      /\ \A m \in DOMAIN txs : txs[m].refused => txs'[m].refused
      /\ OpenIn(txs') \subseteq OpenIn(txs)
      /\ Once(txs) => Once(txs')
      /\ WereReady(txs) => WereReady(txs')
  BY <1>1, EditLaw
<1>3. Right(items) /\ WereReady(txs) /\ Once(txs)
  BY DEF QueueInv, QueuesOk, TxsOk
<1>4. QueuesOk'
  <2>1. Right(items)'
    BY <1>3 DEF Right
  <2>2. QED
    BY <2>1, NothingToCome DEF QueuesOk
<1>5. TxsOk'
  <2>1. WereReady(txs)'
    BY <1>2, <1>3 DEF WereReady
  <2>2. Once(txs)'
    BY <1>2, <1>3 DEF Once, OpenIn
  <2>3. QED
    BY <2>1, <2>2, NothingToCome DEF TxsOk
<1>6. LockOk'
  BY <1>1, FreeAgain, OtherAssumption DEF LockOk
<1>7. MemoryOk'
  BY <1>1 DEF MemoryOk
<1>8. ASSUME NEW i \in Items, Over(i) PROVE Over(i)'
  <2>1. store' = "json" /\ OverIn(items, i)'
    BY <1>8 DEF Over, OverIn
  <2>2. \A m \in OpenIn(txs') : txs'[m].item = i => txs'[m].refused
    BY <1>2, <1>8 DEF Over, OpenTxs, OpenIn
  <2>3. \A r \in Procs : /\ job'[r].at = "reconcile" => OverIn(script'.q, i)
                         /\ job'[r].at \in Owning => job'[r].item # i
    BY <1>1, <1>8 DEF Over
  <2>4. QED
    BY <2>1, <2>2, <2>3, FreeAgain DEF Over, OverIn, OpenTxs, OpenIn
<1>9. x.phase = "settled" => Over(x.item)'
  <2> SUFFICES ASSUME x.phase = "settled" PROVE Over(x.item)'
    OBVIOUS
  <2>1. PICK i : i = x.item
    OBVIOUS
  <2>2. store' = "json" /\ OverIn(items, i)'
    BY <2>1 DEF OverIn
  <2>3. \A m \in OpenIn(txs') : txs'[m].refused
    <3> SUFFICES ASSUME NEW m \in OpenIn(txs') PROVE txs'[m].refused
      OBVIOUS
    <3>1. m \in OpenIn(txs) /\ m # n
      BY <1>2 DEF OpenIn
    <3>2. txs[m].refused
      BY <3>1 DEF AllRefused
    <3>3. QED
      BY <1>2, <3>1, <3>2 DEF OpenIn
  <2>4. \A r \in Procs : job'[r].at \notin Owning \cup {"reconcile"}
    BY <1>1
  <2>5. Over(i)'
    BY <2>2, <2>3, <2>4, FreeAgain DEF Over, OverIn, OpenTxs, OpenIn
  <2>6. QED
    BY <2>1, <2>5
<1>10. ChargeOk'
  <2>1. \A m \in DOMAIN txs' : txs'[m].phase = "settled" =>
          (\A s \in txs'[m].segs : Wall(m, s) \in ledger') \/ (Over(txs[m].item))'
    <3> SUFFICES ASSUME NEW m \in DOMAIN txs', txs'[m].phase = "settled"
                 PROVE  (\A s \in txs'[m].segs : Wall(m, s) \in ledger') \/ (Over(txs[m].item))'
      OBVIOUS
    <3>1. PICK i \in Items : i = txs'[m].item
      BY <1>2, TxListLaw DEF Tx
    <3>2. (\A s \in txs'[m].segs : Wall(m, s) \in ledger') \/ Over(i)'
      <4>1. CASE m = n
        BY <1>2, <1>9, <3>1, <4>1
      <4>2. CASE m # n
        <5>1. (\A s \in txs[m].segs : Wall(m, s) \in ledger) \/ Over(txs[m].item)
          BY <1>2, <4>2 DEF QueueInv, ChargeOk
        <5>2. QED
          BY <1>2, <1>8, <3>1, <4>2, <5>1
      <4>3. QED
        BY <4>1, <4>2
    <3>3. Over(i)' => (Over(txs[m].item))'
      BY <3>1 DEF Over
    <3>4. QED
      BY <3>2, <3>3
  <2>2. QED
    BY <2>1, NothingToCome DEF ChargeOk, Wall
<1>11. QED
  BY <1>2, <1>4, <1>5, <1>6, <1>7, <1>10, NothingToCome DEF QueueInv, Serial

(* A process that owns a transaction, and the lock is free. *)
LEMMA OwnLaw ==
  ASSUME QueueInv, NEW p \in Procs, Free, job[p].at \in Owning \cup {"fail-settle"}
  PROVE  /\ job[p].tx \in DOMAIN txs /\ txs[job[p].tx].phase = "open"
         /\ txs[job[p].tx].item = job[p].item /\ job[p].item \in Items
         /\ AllRefused(txs, {job[p].tx}) /\ txs \in TxLists /\ txs[job[p].tx] \in Tx
<1>1. TxsAtLast = {txs} /\ txs \in TxLists
  BY FreeLaw DEF QueueInv, TypeOK
<1>2. Owns(p, txs)
  BY <1>1, JobLaw DEF OwnOk
<1>3. job[p].item \in Items
  BY JobLaw DEF JobOk
<1>4. QED
  BY <1>1, <1>2, <1>3, TxListLaw DEF Owns, OpenIn

LEMMA OwnEditOk ==
  ASSUME QueueInv, NEW p \in Procs, Free, UNCHANGED <<script, items>>,
         job[p].at \in Owning, job'[p].at \in Owning,
         job'[p].item = job[p].item, job'[p].tx = job[p].tx,
         NEW x \in Tx, x.item = job[p].item, x.refused = txs[job[p].tx].refused, x.phase = "open",
         txs' = [txs EXCEPT ![job[p].tx] = x]
  PROVE  OwnOk(p)'
<1>1. /\ job[p].tx \in DOMAIN txs /\ AllRefused(txs, {job[p].tx}) /\ txs \in TxLists
      /\ txs[job[p].tx].phase = "open"
  BY OwnLaw
<1>2. DOMAIN txs' = DOMAIN txs /\ txs'[job[p].tx] = x
      /\ \A m \in DOMAIN txs : m # job[p].tx => txs'[m] = txs[m]
  BY <1>1
<1>3. Owns(p, txs)'
  BY <1>1, <1>2 DEF Owns, AllRefused, OpenIn
<1>4. QueuesToCome = {} /\ QueuesToCome' = {} /\ TxsAtLast' = {txs'}
  BY FreeLaw, FreeAgain DEF QueueInv
<1>5. items'[job'[p].item].state \notin {"completed", "failed", "absent"}
  BY JobLaw DEF OwnOk
<1>6. (\A t \in TxsAtLast : Owns(p, t))'
  BY <1>3, <1>4 DEF Owns, AllRefused, OpenIn
<1>7. job'[p].at \notin Past \cup {"reconcile", "fail-settle"}
  BY DEF Past, Owning
<1>8. QED
  BY <1>4, <1>5, <1>6, <1>7 DEF OwnOk

LEMMA SegmentStep ==
  ASSUME QueueInv, NEW p \in Procs, NEW s \in Sessions, Segment(p, s)
  PROVE  QueueInv'
<1>1. /\ job[p].at = "driving" /\ job' = [job EXCEPT ![p].ran = @ \cup {s}]
      /\ txs' = [txs EXCEPT ![job[p].tx].ran = @ \cup {s}]
      /\ UNCHANGED <<env_vars, items, ledger, lease, shown, script>>
  BY DEF Segment
<1>2. Free
  BY <1>1, WorksFree
<1>3. PICK n : n = job[p].tx
  OBVIOUS
<1>4. /\ n \in DOMAIN txs /\ txs[n].phase = "open" /\ txs[n].item = job[p].item
      /\ job[p].item \in Items /\ txs[n] \in Tx
  BY <1>1, <1>2, <1>3, OwnLaw DEF Owning
<1>5. PICK x : x = [txs[n] EXCEPT !.ran = txs[n].ran \cup {s}]
  OBVIOUS
<1>6. /\ x \in Tx /\ x.item = txs[n].item /\ x.refused = txs[n].refused /\ x.phase = "open"
  BY <1>4, <1>5 DEF Tx
<1>7. txs' = [txs EXCEPT ![n] = x]
  BY <1>1, <1>3, <1>5
<1>8. PICK y : y = [job[p] EXCEPT !.ran = job[p].ran \cup {s}]
  OBVIOUS
<1>9. job[p] \in Job
  BY JobLaw
<1>10. /\ y \in Job /\ y.at = "driving" /\ y.item = job[p].item /\ y.tx = job[p].tx
       /\ y.drives = job[p].drives /\ y.ok = job[p].ok /\ y.sent = job[p].sent
  BY <1>1, <1>8, <1>9 DEF Job
<1>11. job' \in [Procs -> Job] /\ job'[p] = y
  BY <1>1, <1>8, <1>10 DEF QueueInv, TypeOK
<1>12. /\ finished \subseteq finished' /\ finished' \subseteq Items /\ slot' \in {None} \cup Slots
       /\ slot' # None /\ slot'.status = "done" => slot'.goal \in finished' \cup {Other}
       /\ slot' # None /\ slot'.goal = job[p].item /\ slot'.status \in {"executing", "done"}
  <2>1. slot # None /\ slot.goal = job[p].item /\ slot.status \in {"executing", "done"}
    BY <1>1, JobLaw DEF JobOk
  <2>2. CASE UNCHANGED <<slot, finished>>
    BY <2>1, <2>2 DEF QueueInv, TypeOK, GoalsOk
  <2>3. CASE Done(slot.goal)
    <3>1. /\ slot.goal \in Items \cup {Other} /\ slot' \in Slots /\ slot'.goal = slot.goal /\ slot' # None
          /\ slot'.status = "done"
      BY <2>1, <2>3, SlotLaw DEF Done
    <3>2. finished' = finished \cup ({slot.goal} \cap Items)
      BY <2>3 DEF Done
    <3>3. QED
      BY <2>1, <3>1, <3>2 DEF QueueInv, TypeOK
  <2>4. UNCHANGED <<slot, finished>> \/ Done(slot.goal)
    BY DEF Segment
  <2>5. QED
    BY <2>2, <2>3, <2>4
<1>13. /\ QueuesOk' /\ TxsOk' /\ ChargeOk' /\ LedgersFit(script.writes)' /\ MemoryOk'
       /\ LockOk' /\ Serial' /\ txs' \in TxLists
  BY <1>1, <1>2, <1>4, <1>6, <1>7, <1>10, <1>11, <1>12, EditStep DEF env_vars, Owning
<1>14. OwnOk(p)'
  <2>1. job[p].at \in Owning /\ job'[p].at \in Owning
    BY <1>1, <1>10, <1>11 DEF Owning
  <2>2. job'[p].item = job[p].item /\ job'[p].tx = job[p].tx
    BY <1>10, <1>11
  <2>3. UNCHANGED <<script, items>>
    BY <1>1
  <2>4. QED
    BY <1>2, <1>3, <1>4, <1>6, <1>7, <2>1, <2>2, <2>3, OwnEditOk
<1>15. TypeOK'
  BY <1>1, <1>11, <1>12, <1>13 DEF QueueInv, TypeOK, env_vars
<1>16. GoalsOk' /\ LeaseOk'
  <2>1. \A r \in Procs : r = p
    BY JobLaw
  <2>2. QED
    BY <1>1, <1>10, <1>11, <1>12, <2>1 DEF QueueInv, GoalsOk, LeaseOk
<1>17. JobOk(p)'
  <2>1. JobOk(p)
    BY JobLaw
  <2>2. /\ job'[p].at = "driving" /\ job'[p].item = job[p].item /\ job'[p].tx = job[p].tx
        /\ job'[p].drives = job[p].drives /\ job'[p].ok = job[p].ok /\ job'[p].sent = job[p].sent
        /\ shown' = shown
    BY <1>1, <1>10, <1>11
  <2>3. QED
    BY <1>1, <1>12, <2>1, <2>2 DEF JobOk, Owning
<1>18. QED
  <2>1. \A r \in Procs : r = p
    BY JobLaw
  <2>2. QED
    BY <1>13, <1>14, <1>15, <1>16, <1>17, <2>1 DEF QueueInv

LEMMA RecordStep ==
  ASSUME QueueInv, NEW p \in Procs, Record(p)
  PROVE  QueueInv'
<1>1. /\ job[p].at = "record" /\ txs' = [txs EXCEPT ![job[p].tx].segs = job[p].ran]
      /\ UNCHANGED <<env_vars, items, ledger, lease, slot, shown, script, finished>>
  BY DEF Record, Patch
<1>2. Free
  BY <1>1, WorksFree
<1>3. PICK n : n = job[p].tx
  OBVIOUS
<1>4. /\ n \in DOMAIN txs /\ txs[n].phase = "open" /\ txs[n].item = job[p].item
      /\ job[p].item \in Items /\ txs[n] \in Tx
  BY <1>1, <1>2, <1>3, OwnLaw DEF Owning
<1>5. PICK x : x = [txs[n] EXCEPT !.segs = job[p].ran]
  OBVIOUS
<1>6. job[p] \in Job
  BY JobLaw
<1>7. /\ x \in Tx /\ x.item = txs[n].item /\ x.refused = txs[n].refused /\ x.phase = "open"
  BY <1>4, <1>5, <1>6 DEF Tx, Job
<1>8. txs' = [txs EXCEPT ![n] = x]
  BY <1>1, <1>3, <1>5
<1>9. PICK at \in {"finish", "failing"} : To(p, at) /\ (at = "finish" <=> job[p].ok)
  BY DEF Record
<1>10. /\ job' \in [Procs -> Job] /\ job'[p].at = at
       /\ job'[p].item = job[p].item /\ job'[p].tx = job[p].tx
       /\ job'[p].drives = job[p].drives /\ job'[p].ok = job[p].ok /\ job'[p].sent = job[p].sent
  BY <1>9, JobLaw, ToLaw
<1>11. /\ QueuesOk' /\ TxsOk' /\ ChargeOk' /\ LedgersFit(script.writes)' /\ MemoryOk'
       /\ LockOk' /\ Serial' /\ txs' \in TxLists
  BY <1>1, <1>2, <1>4, <1>7, <1>8, <1>10, EditStep DEF env_vars, Owning
<1>12. OwnOk(p)'
  BY <1>1, <1>2, <1>3, <1>4, <1>7, <1>8, <1>10, OwnEditOk DEF Owning
<1>13. TypeOK'
  BY <1>1, <1>10, <1>11 DEF QueueInv, TypeOK, env_vars
<1>14. \A r \in Procs : r = p
  BY JobLaw
<1>15. GoalsOk' /\ LeaseOk'
  BY <1>1, <1>10, <1>14 DEF QueueInv, GoalsOk, LeaseOk
<1>16. JobOk(p)'
  BY <1>1, <1>9, <1>10, JobLaw DEF JobOk, Owning
<1>17. QED
  BY <1>11, <1>12, <1>13, <1>14, <1>15, <1>16 DEF QueueInv

LEMMA MarkStep ==
  ASSUME QueueInv, NEW p \in Procs, Mark(p)
  PROVE  QueueInv'
<1>1. /\ job[p].at = "mark" /\ To(p, "deliver") /\ txs' = [txs EXCEPT ![job[p].tx].sender = p]
      /\ UNCHANGED <<env_vars, items, ledger, lease, slot, shown, script, finished>>
  BY DEF Mark, Patch
<1>2. Free
  BY <1>1, WorksFree
<1>3. PICK n : n = job[p].tx
  OBVIOUS
<1>4. /\ n \in DOMAIN txs /\ txs[n].phase = "open" /\ txs[n].item = job[p].item
      /\ job[p].item \in Items /\ txs[n] \in Tx
  BY <1>1, <1>2, <1>3, OwnLaw DEF Owning
<1>5. PICK x : x = [txs[n] EXCEPT !.sender = p]
  OBVIOUS
<1>6. /\ x \in Tx /\ x.item = txs[n].item /\ x.refused = txs[n].refused /\ x.phase = "open"
  BY <1>4, <1>5 DEF Tx
<1>7. txs' = [txs EXCEPT ![n] = x]
  BY <1>1, <1>3, <1>5
<1>8. /\ job' \in [Procs -> Job] /\ job'[p].at = "deliver"
      /\ job'[p].item = job[p].item /\ job'[p].tx = job[p].tx
      /\ job'[p].drives = job[p].drives /\ job'[p].ok = job[p].ok /\ job'[p].sent = job[p].sent
  BY <1>1, JobLaw, ToLaw
<1>9. /\ QueuesOk' /\ TxsOk' /\ ChargeOk' /\ LedgersFit(script.writes)' /\ MemoryOk'
      /\ LockOk' /\ Serial' /\ txs' \in TxLists
  BY <1>1, <1>2, <1>4, <1>6, <1>7, <1>8, EditStep DEF env_vars, Owning
<1>10. OwnOk(p)'
  BY <1>1, <1>2, <1>3, <1>4, <1>6, <1>7, <1>8, OwnEditOk DEF Owning
<1>11. TypeOK'
  BY <1>1, <1>8, <1>9 DEF QueueInv, TypeOK, env_vars
<1>12. \A r \in Procs : r = p
  BY JobLaw
<1>13. GoalsOk' /\ LeaseOk'
  BY <1>1, <1>8, <1>12 DEF QueueInv, GoalsOk, LeaseOk
<1>14. JobOk(p)'
  BY <1>1, <1>8, JobLaw DEF JobOk, Owning
<1>15. QED
  BY <1>9, <1>10, <1>11, <1>12, <1>13, <1>14 DEF QueueInv

(* The transaction of a drive that failed is closed before it is charged: its item is over. *)
LEMMA FailSettleStep ==
  ASSUME QueueInv, NEW p \in Procs, FailSettle(p)
  PROVE  QueueInv'
<1>1. /\ job[p].at = "fail-settle" /\ To(p, "fail-charge") /\ script.by # p
      /\ txs' = Closed(txs, job[p].tx, "settled")
      /\ UNCHANGED <<env_vars, items, ledger, lease, slot, shown, script, finished>>
  BY DEF FailSettle, Patch
<1>2. Free
  BY <1>1, JobLaw DEF QueueInv, TypeOK, Scripts, Free
<1>3. PICK n : n = job[p].tx
  OBVIOUS
<1>4. /\ n \in DOMAIN txs /\ txs[n].phase = "open" /\ txs[n].item = job[p].item
      /\ job[p].item \in Items /\ txs[n] \in Tx /\ AllRefused(txs, {n}) /\ txs \in TxLists
  BY <1>1, <1>2, <1>3, OwnLaw
<1>5. PICK x : x = [txs[n] EXCEPT !.phase = "settled"]
  OBVIOUS
<1>6. /\ x \in Tx /\ x.item = txs[n].item /\ x.refused = txs[n].refused /\ x.phase = "settled"
  BY <1>4, <1>5 DEF Tx, Phases
<1>7. txs' = [txs EXCEPT ![n] = x]
  BY <1>1, <1>3, <1>5 DEF Closed
<1>8. /\ job' \in [Procs -> Job] /\ job'[p].at = "fail-charge"
      /\ job'[p].item = job[p].item /\ job'[p].tx = job[p].tx
      /\ job'[p].drives = job[p].drives /\ job'[p].ok = job[p].ok /\ job'[p].sent = job[p].sent
  BY <1>1, JobLaw, ToLaw
<1>9. store = "json" /\ OverIn(items, job[p].item)
  <2>1. QueuesAtLast = {items}
    BY <1>2, FreeLaw DEF QueueInv
  <2>2. QED
    BY <1>1, <2>1, JobLaw DEF OwnOk
<1>10. /\ QueuesOk' /\ TxsOk' /\ ChargeOk' /\ LedgersFit(script.writes)' /\ MemoryOk'
       /\ LockOk' /\ Serial' /\ txs' \in TxLists
  BY <1>1, <1>2, <1>4, <1>6, <1>7, <1>8, <1>9, EditStep DEF env_vars, Owning
<1>11. OwnOk(p)'
  <2>1. AllRefused(txs', {})
    <3> SUFFICES ASSUME NEW m \in OpenIn(txs') PROVE txs'[m].refused
      BY DEF AllRefused
    <3>1. m \in OpenIn(txs) /\ m # n /\ txs'[m] = txs[m]
      BY <1>4, <1>6, <1>7 DEF OpenIn
    <3>2. QED
      BY <1>4, <3>1 DEF AllRefused
  <2>2. TxsAtLast' = {txs'}
    BY <1>1, <1>2, FreeAgain
  <2>3. (\A t \in TxsAtLast : AllRefused(t, {}))'
    BY <2>1, <2>2 DEF AllRefused, OpenIn
  <2>4. QED
    BY <1>8, <2>3 DEF OwnOk, Owning, Past
<1>12. TypeOK'
  BY <1>1, <1>8, <1>10 DEF QueueInv, TypeOK, env_vars
<1>13. \A r \in Procs : r = p
  BY JobLaw
<1>14. GoalsOk' /\ LeaseOk'
  BY <1>1, <1>8, <1>13 DEF QueueInv, GoalsOk, LeaseOk
<1>15. JobOk(p)'
  <2>1. n \in DOMAIN txs'
    BY <1>4, <1>7
  <2>2. QED
    BY <1>1, <1>3, <1>8, <2>1, JobLaw DEF JobOk, Owning
<1>16. QED
  BY <1>10, <1>11, <1>12, <1>13, <1>14, <1>15 DEF QueueInv

LEMMA SpentLaw ==
  ASSUME QueueInv, NEW n \in DOMAIN txs, NEW absent
  PROVE  /\ Spent(n, absent) \subseteq Entry
         /\ DeliveryWall(n) \subseteq Entry /\ Declared(n) \subseteq Entry
         /\ \A s \in txs[n].segs : Wall(n, s) \in Spent(n, absent)
<1>1. n \in 1..MaxTx /\ txs[n].segs \subseteq Sessions
  BY TxListLaw DEF QueueInv, TypeOK, Tx
<1>2. Sessions \subseteq 0..MaxSegments /\ 0 \in 0..MaxSegments
  BY BoundAssumption DEF Sessions
<1>3. DeliveryWall(n) \subseteq Entry /\ Declared(n) \subseteq Entry
  BY <1>1, <1>2 DEF DeliveryWall, Declared, Entry
<1>4. \A s \in txs[n].segs : Wall(n, s) \in Spent(n, absent)
  BY DEF Spent, Wall
<1>5. \A s \in txs[n].segs :
        /\ [kind |-> "wall", tx |-> n, sid |-> s] \in Entry
        /\ [kind |-> "metering-absent", tx |-> n, sid |-> s] \in Entry
        /\ [kind |-> "points", tx |-> n, sid |-> s] \in Entry
  <2> SUFFICES ASSUME NEW s \in txs[n].segs
               PROVE  /\ [kind |-> "wall", tx |-> n, sid |-> s] \in Entry
                      /\ [kind |-> "metering-absent", tx |-> n, sid |-> s] \in Entry
                      /\ [kind |-> "points", tx |-> n, sid |-> s] \in Entry
    OBVIOUS
  <2>1. s \in 0..MaxSegments
    BY <1>1, <1>2
  <2>2. QED
    BY <1>1, <2>1 DEF Entry
<1>6. Spent(n, absent) \subseteq Entry
  BY <1>5 DEF Spent
<1>7. QED
  BY <1>3, <1>4, <1>6

(* A queue or a ledger is written. *)
LEMMA OtherWrite ==
  ASSUME QueueInv, Free, UNCHANGED <<script, store, txs, finished, shown>>,
         ledger \subseteq ledger', items' \in Queues, Right(items'), MayFollow(items, items'),
         \A i \in Items : OverIn(items, i) => OverIn(items', i),
         \A i \in Items : items[i].state \notin {"completed", "failed", "absent"} =>
                         items'[i].state \notin {"completed", "failed", "absent"},
         \A p \in Procs : GoesOn(p)
  PROVE  /\ QueuesOk' /\ TxsOk' /\ ChargeOk' /\ LedgersFit(script.writes)' /\ MemoryOk'
         /\ LockOk' /\ Serial' /\ \A p \in Procs : OwnOk(p)'
<1>1. \A p \in Procs : job[p].at # "reconcile" /\ job'[p].at # "reconcile"
  BY OtherAssumption DEF QueueInv, LockOk, Free, GoesOn
<1>2. QueuesOk'
  <2>1. Right(items)'
    BY DEF Right
  <2>2. QED
    BY <2>1, NothingToCome DEF QueuesOk
<1>3. TxsOk'
  <2>1. txs \in TxLists /\ WereReady(txs) /\ Once(txs)
    BY DEF QueueInv, TypeOK, TxsOk
  <2>2. WereReady(txs)'
    <3>1. \A d \in Items : items[d].state = "completed" => items'[d].state = "completed"
      BY DEF MayFollow, TERMINAL_STATES
    <3>2. \A n \in DOMAIN txs : DepsOf[txs[n].item] \subseteq Items
      BY <2>1, TxListLaw, DepsAssumption DEF Tx
    <3>3. QED
      BY <2>1, <3>1, <3>2 DEF WereReady
  <2>3. Once(txs)'
    BY <2>1 DEF Once, OpenIn
  <2>4. QED
    BY <2>2, <2>3, NothingToCome DEF TxsOk
<1>4. MemoryOk'
  BY <1>1 DEF MemoryOk
<1>5. LockOk'
  BY <1>1, FreeAgain, OtherAssumption DEF LockOk
<1>6. ASSUME NEW i \in Items, Over(i) PROVE Over(i)'
  <2>1. store' = "json" /\ OverIn(items, i)'
    BY <1>6 DEF Over, OverIn
  <2>2. \A m \in OpenIn(txs') : txs'[m].item = i => txs'[m].refused
    BY <1>6 DEF Over, OpenTxs
  <2>3. \A r \in Procs : job'[r].at \in Owning => job'[r].item # i
    BY <1>6 DEF Over, GoesOn
  <2>4. QED
    BY <1>1, <2>1, <2>2, <2>3, FreeAgain DEF Over, OverIn, OpenTxs, OpenIn
<1>7. ChargeOk'
  <2>1. \A m \in DOMAIN txs : txs[m].item \in Items
    BY TxListLaw DEF QueueInv, TypeOK, Tx
  <2>2. \A m \in DOMAIN txs : txs[m].phase = "settled" =>
          (\A s \in txs[m].segs : Wall(m, s) \in ledger') \/ Over(txs[m].item)'
    BY <1>6, <2>1 DEF QueueInv, ChargeOk
  <2>3. QED
    BY <2>2, NothingToCome DEF ChargeOk, Wall
<1>8. ASSUME NEW p \in Procs PROVE OwnOk(p)'
  <2>1. TxsAtLast = {txs} /\ QueuesToCome = {} /\ QueuesAtLast = {items}
    BY FreeLaw DEF QueueInv
  <2>2. TxsAtLast' = {txs} /\ QueuesToCome' = {} /\ QueuesAtLast' = {items'}
    BY FreeAgain
  <2>3. OwnOk(p) /\ GoesOn(p) /\ JobOk(p)
    BY DEF QueueInv
  <2>4. job'[p].at \in Past => AllRefused(txs, {})
    BY <2>1, <2>3 DEF OwnOk, GoesOn
  <2>5. job'[p].at \in Owning \cup {"fail-settle"} => Owns(p, txs)'
    BY <2>1, <2>3 DEF OwnOk, GoesOn, Owns, OpenIn, AllRefused
  <2>6. job'[p].at \in Owning => items'[job'[p].item].state \notin {"completed", "failed", "absent"}
    BY <2>3 DEF OwnOk, GoesOn, JobOk
  <2>7. job'[p].at = "fail-settle" => store = "json" /\ OverIn(items', job'[p].item)
    BY <2>1, <2>3 DEF OwnOk, GoesOn, JobOk
  <2>8. (\A t \in TxsAtLast : job[p].at \in Past => AllRefused(t, {}))'
    BY <2>2, <2>4 DEF AllRefused, OpenIn
  <2>9. (\A t \in TxsAtLast : job[p].at \in Owning \cup {"fail-settle"} => Owns(p, t))'
    BY <2>2, <2>5 DEF Owns, AllRefused, OpenIn
  <2>10. (\A q \in QueuesAtLast : job[p].at = "fail-settle" => OverIn(q, job[p].item))'
    BY <2>2, <2>7 DEF OverIn
  <2>11. QED
    BY <1>1, <2>2, <2>6, <2>7, <2>8, <2>9, <2>10 DEF OwnOk
<1>9. QED
  BY <1>2, <1>3, <1>4, <1>5, <1>7, <1>8, NothingToCome DEF QueueInv, Serial

LEMMA FailChargeStep ==
  ASSUME QueueInv, NEW p \in Procs, FailCharge(p)
  PROVE  QueueInv'
<1>1. /\ job[p].at = "fail-charge" /\ To(p, "clear")
      /\ UNCHANGED <<env_vars, items, txs, lease, slot, shown, script, finished>>
  BY DEF FailCharge
<1>2. Free
  BY <1>1, WorksFree
<1>3. job[p].item \in Items /\ job[p].tx \in 1..MaxTx /\ job[p].tx \in DOMAIN txs
  BY <1>1, JobLaw DEF JobOk
<1>4. ledger \subseteq ledger' /\ ledger' \subseteq Entry
  <2>1. PICK absent : ledger' = ledger \cup Spent(job[p].tx, absent)
    BY DEF FailCharge, Charge
  <2>2. QED
    BY <1>3, <2>1, SpentLaw DEF QueueInv, TypeOK
<1>5. /\ job' \in [Procs -> Job] /\ job'[p].at = "clear"
      /\ job'[p].item = job[p].item /\ job'[p].tx = job[p].tx
      /\ job'[p].drives = job[p].drives /\ job'[p].ok = job[p].ok /\ job'[p].sent = job[p].sent
  BY <1>1, JobLaw, ToLaw
<1>6. \A r \in Procs : r = p
  BY JobLaw
<1>7. GoesOn(p)
  BY <1>1, <1>5 DEF GoesOn, Owning, Past
<1>8. items' \in Queues /\ Right(items') /\ MayFollow(items, items')
  BY <1>1 DEF QueueInv, TypeOK, QueuesOk, MayFollow
<1>9. /\ QueuesOk' /\ TxsOk' /\ ChargeOk' /\ LedgersFit(script.writes)' /\ MemoryOk'
      /\ LockOk' /\ Serial' /\ \A r \in Procs : OwnOk(r)'
  BY <1>1, <1>2, <1>4, <1>6, <1>7, <1>8, OtherWrite DEF env_vars
<1>10. TypeOK'
  BY <1>1, <1>4, <1>5 DEF QueueInv, TypeOK, env_vars
<1>11. GoalsOk' /\ LeaseOk'
  BY <1>1, <1>5, <1>6 DEF QueueInv, GoalsOk, LeaseOk
<1>12. JobOk(p)'
  BY <1>1, <1>5, JobLaw DEF JobOk, Owning
<1>13. QED
  BY <1>6, <1>9, <1>10, <1>11, <1>12 DEF QueueInv

(* A person writes the queue. *)
LEMMA QueueWrite ==
  ASSUME QueueInv, Free,
         UNCHANGED <<env_vars, txs, ledger, lease, slot, shown, job, script, finished>>,
         items' \in Queues, Right(items'), MayFollow(items, items'),
         \A i \in Items : OverIn(items, i) => OverIn(items', i),
         \A i \in Items : items[i].state \notin {"completed", "failed", "absent"} =>
                         items'[i].state \notin {"completed", "failed", "absent"}
  PROVE  QueueInv'
<1>1. \A p \in Procs : GoesOn(p)
  BY DEF GoesOn
<1>2. /\ QueuesOk' /\ TxsOk' /\ ChargeOk' /\ LedgersFit(script.writes)' /\ MemoryOk'
      /\ LockOk' /\ Serial' /\ \A p \in Procs : OwnOk(p)'
  BY <1>1, OtherWrite DEF env_vars
<1>3. TypeOK'
  BY DEF QueueInv, TypeOK, env_vars
<1>4. GoalsOk' /\ LeaseOk' /\ \A p \in Procs : JobOk(p)'
  BY DEF QueueInv, GoalsOk, LeaseOk, JobOk
<1>5. QED
  BY <1>2, <1>3, <1>4 DEF QueueInv

(* Refreshing a queue keeps what such a write must. *)
LEMMA RefreshFits ==
  ASSUME NEW q \in Queues, NEW f, NEW but
  PROVE  LET r == Refresh(q, f, but) IN
         /\ r \in Queues
         /\ \A i \in Items : OverIn(q, i) => OverIn(r, i)
         /\ \A i \in Items : q[i].state \notin {"completed", "failed", "absent"} =>
                             r[i].state \notin {"completed", "failed", "absent"}
<1>1. PICK r : r = Refresh(q, f, but)
  OBVIOUS
<1>2. r \in Queues /\ \A i \in Items : OverIn(q, i) => OverIn(r, i)
  BY <1>1, RefreshLaw, RefreshKeeps
<1>3. \A i \in Items : /\ r[i].state \in TERMINAL_STATES => r[i] = q[i]
                       /\ r[i].state = "absent" => q[i].state = "absent"
  BY <1>1, RefreshLaw
<1>4. QED
  BY <1>1, <1>2, <1>3 DEF TERMINAL_STATES

LEMMA QueueStep ==
  ASSUME QueueInv,
         (\E i \in Items : AddQueueItem(i) \/ CancelQueueItem(i)) \/ RefreshQueue
  PROVE  QueueInv' /\ MayFollow(items, items')
<1>1. items \in Queues /\ Right(items)
  BY DEF QueueInv, TypeOK, QueuesOk
<1>2. CASE \E i \in Items : AddQueueItem(i)
  <2>1. PICK i \in Items : AddQueueItem(i)
    BY <1>2
  <2>2. PICK x : x = [items[i] EXCEPT !.state = "proposed"]
    OBVIOUS
  <2>3. items[i] \in Item /\ items[i].state = "absent"
    BY <1>1, <2>1 DEF Queues, AddQueueItem
  <2>4. x \in Item /\ x.state = "proposed"
    BY <2>2, <2>3 DEF Item, ITEM_STATES
  <2>5. items' = [items EXCEPT ![i] = x]
    BY <2>1, <2>2 DEF AddQueueItem
  <2>6. items' \in Queues /\ items'[i] = x /\ \A j \in Items : j # i => items'[j] = items[j]
    BY <1>1, <2>4, <2>5 DEF Queues
  <2>7. Right(items') /\ MayFollow(items, items')
    BY <1>1, <2>3, <2>4, <2>6 DEF Right, MayFollow, TERMINAL_STATES
  <2>8. /\ \A j \in Items : OverIn(items, j) => OverIn(items', j)
        /\ \A j \in Items : items[j].state \notin {"completed", "failed", "absent"} =>
                            items'[j].state \notin {"completed", "failed", "absent"}
    BY <2>3, <2>4, <2>6 DEF OverIn, TERMINAL_STATES
  <2>9. QED
    BY <2>1, <2>6, <2>7, <2>8, QueueWrite DEF AddQueueItem
<1>3. CASE \E i \in Items : CancelQueueItem(i)
  <2>1. PICK i \in Items : CancelQueueItem(i)
    BY <1>3
  <2>2. PICK q : q = [items EXCEPT ![i] = [state |-> "cancelled", why |-> "other"]]
    OBVIOUS
  <2>3. items[i].state \notin TERMINAL_STATES \cup {"absent"} /\ items' = Refresh(q, Disk, 0)
    BY <2>1, <2>2 DEF CancelQueueItem, Now
  <2>4. [state |-> "cancelled", why |-> "other"] \in Item
    BY DEF Item, ITEM_STATES, TERMINAL_STATES, Reasons
  <2>5. /\ q \in Queues /\ q[i].state = "cancelled" /\ q[i].why = "other"
        /\ \A j \in Items : j # i => q[j] = items[j]
    BY <1>1, <2>2, <2>4 DEF Queues
  <2>6. Right(q) /\ MayFollow(items, q)
    BY <1>1, <2>3, <2>5 DEF Right, MayFollow
  <2>7. /\ \A j \in Items : OverIn(items, j) => OverIn(q, j)
        /\ \A j \in Items : items[j].state \notin {"completed", "failed", "absent"} =>
                            q[j].state \notin {"completed", "failed", "absent"}
    BY <2>3, <2>5 DEF OverIn
  <2>8. Right(items') /\ MayFollow(items, items')
    BY <2>3, <2>5, <2>6, RefreshKeeps
  <2>9. /\ items' \in Queues
        /\ \A j \in Items : OverIn(items, j) => OverIn(items', j)
        /\ \A j \in Items : items[j].state \notin {"completed", "failed", "absent"} =>
                            items'[j].state \notin {"completed", "failed", "absent"}
    BY <2>3, <2>5, <2>7, RefreshFits
  <2>10. QED
    BY <2>1, <2>8, <2>9, QueueWrite DEF CancelQueueItem
<1>4. CASE RefreshQueue
  <2>1. items' = Refresh(items, Disk, 0)
    BY <1>4 DEF RefreshQueue, Now
  <2>2. Right(items') /\ MayFollow(items, items')
    <3>1. MayFollow(items, items)
      BY DEF MayFollow
    <3>2. QED
      BY <1>1, <2>1, <3>1, RefreshKeeps
  <2>3. /\ items' \in Queues
        /\ \A j \in Items : OverIn(items, j) => OverIn(items', j)
        /\ \A j \in Items : items[j].state \notin {"completed", "failed", "absent"} =>
                            items'[j].state \notin {"completed", "failed", "absent"}
    BY <1>1, <2>1, RefreshFits
  <2>4. QED
    BY <1>4, <2>2, <2>3, QueueWrite DEF RefreshQueue
<1>5. QED
  BY <1>2, <1>3, <1>4

(* Whatever of its script a killed process has not written, the files agree. *)
LEMMA KillStep ==
  ASSUME QueueInv, NEW p \in Procs, Kill(p)
  PROVE  QueueInv'
<1>1. /\ Quit(p) /\ script' = (IF script.by = p THEN NoScript ELSE script)
      /\ lease' = (IF lease = p THEN "dead" ELSE lease)
      /\ UNCHANGED <<store, limits, items, approved, txs, ledger, acked, slot, shown, finished>>
  BY DEF Kill
<1>2. job' \in [Procs -> Job] /\ job'[p] = Idle /\ \A r \in Procs : r = p
  BY <1>1, QuitLaw, JobLaw
<1>3. script' \in Scripts /\ script'.by = None /\ script'.writes = <<>>
  <2>1. CASE script.by = p
    BY <1>1, <2>1, NoScriptLaw
  <2>2. CASE script.by # p
    BY <1>1, <1>2, <2>2 DEF QueueInv, TypeOK, LockOk, Scripts
  <2>3. QED
    BY <2>1, <2>2
<1>4. /\ QueuesOk' /\ TxsOk' /\ ChargeOk' /\ LedgersFit(script.writes)'
  <2>1. Fits(script'.writes)
    BY <1>3, NoneScript
  <2>2. \A i \in Items : Over(i) =>
           /\ KeptIn(script'.writes, i)
           /\ \A r \in Procs : /\ job'[r].at \in Owning => job'[r].item # i
                               /\ job'[r].at = "reconcile" => OverIn(script'.q, i)
    BY <1>2, <1>3, NoneScript DEF Idle, Owning
  <2>3. QED
    BY <1>1, <2>1, <2>2, Carry
<1>5. TypeOK'
  BY <1>1, <1>2, <1>3 DEF QueueInv, TypeOK
<1>6. LockOk' /\ MemoryOk'
  BY <1>2, <1>3, OtherAssumption DEF LockOk, MemoryOk, Idle
<1>7. GoalsOk' /\ LeaseOk'
  BY <1>1, <1>2, OtherAssumption DEF QueueInv, GoalsOk, LeaseOk
<1>8. QED
  BY <1>2, <1>4, <1>5, <1>6, <1>7, IdleOk DEF QueueInv, Serial

-----------------------------------------------------------------------------
(* A command is taken up under the lock. *)

LastTxs(ws) == IF TxsOf(ws) = {} THEN {txs} ELSE TxsOf(ws)

LEMMA ScriptStep ==
  ASSUME QueueInv, NEW p \in Procs, script.writes = <<>>, job[p].at # "driving",
         NEW ws, Script(p, ws), Fits(ws),
         UNCHANGED <<env_vars, store_vars, slot, shown, finished>>,
         job' \in [Procs -> Job], JobOk(p)',
         job'[p].at \in {"idle", "pick", "slot", "fail-settle", "clear", "final"},
         \A i \in Items : Over(i) => KeptIn(ws, i) /\ (job'[p].at = "slot" => job'[p].item # i),
         job'[p].at \in {"pick", "clear", "final"} => \A t \in LastTxs(ws) : AllRefused(t, {}),
         job'[p].at \in {"slot", "fail-settle"} =>
           \A t \in LastTxs(ws) : /\ job'[p].tx \in OpenIn(t) /\ t[job'[p].tx].item = job'[p].item
                                  /\ AllRefused(t, {job'[p].tx}),
         job'[p].at = "slot" =>
           \A q \in {items} \cup QueuesOf(ws) :
             q[job'[p].item].state \notin {"completed", "failed", "absent"},
         job'[p].at = "fail-settle" =>
           /\ store = "json" /\ QueuesOf(ws) # {}
           /\ \A q \in QueuesOf(ws) : OverIn(q, job'[p].item)
  PROVE  QueueInv'
<1>1. ws \in Seq(Write)
  BY DEF Fits
<1>2. /\ script' \in Scripts /\ script'.writes = ws
      /\ script'.by \in {None, p} /\ (script'.by = None <=> ws = <<>>)
  <2>1. CASE ws = <<>>
    BY <2>1, NoScriptLaw DEF Script
  <2>2. CASE ws # <<>>
    BY <1>1, <2>2, ScriptLaw, OtherAssumption
  <2>3. QED
    BY <2>1, <2>2
<1>3. \A r \in Procs : r = p
  BY JobLaw
<1>4. job'[p].at \notin {"reconcile", "fail-charge"}
  OBVIOUS
<1>5. job'[p].at \in Owning <=> job'[p].at = "slot"
  BY DEF Owning
<1>6. job'[p].at \in Past <=> job'[p].at \in {"pick", "clear", "final"}
  BY DEF Past
<1>7. QueuesOk' /\ TxsOk' /\ ChargeOk' /\ LedgersFit(script.writes)'
  BY <1>2, <1>3, <1>4, <1>5, Carry DEF env_vars, store_vars
<1>8. TypeOK'
  BY <1>2 DEF QueueInv, TypeOK, env_vars, store_vars
<1>9. LockOk'
  BY <1>2, <1>3, <1>4, OtherAssumption DEF LockOk
<1>10. MemoryOk'
  BY <1>3, <1>4 DEF MemoryOk
<1>11. GoalsOk' /\ LeaseOk'
  BY <1>3 DEF QueueInv, GoalsOk, LeaseOk, store_vars
<1>12. OwnOk(p)'
  <2>1. TxsAtLast' = LastTxs(ws) /\ QueuesToCome' = QueuesOf(ws)
    BY <1>2 DEF TxsAtLast, TxsToCome, TxsOf, LastTxs, QueuesToCome, QueuesOf, store_vars
  <2>2. items' = items /\ store' = store
    BY DEF env_vars, store_vars
  <2>3. QueuesOf(ws) # {} => QueuesAtLast' = QueuesOf(ws)
    BY <2>1 DEF QueuesAtLast
  <2>4. (job[p].at \in Past => \A t \in TxsAtLast : AllRefused(t, {}))'
    BY <1>6, <2>1 DEF AllRefused, OpenIn
  <2>5. (job[p].at \in Owning \cup {"fail-settle"} => \A t \in TxsAtLast : Owns(p, t))'
    BY <1>5, <2>1 DEF Owns, AllRefused, OpenIn
  <2>6. (job[p].at = "fail-settle" =>
           store = "json" /\ \A q \in QueuesAtLast : OverIn(q, job[p].item))'
    BY <2>2, <2>3 DEF OverIn
  <2>7. QED
    BY <1>4, <1>5, <2>1, <2>2, <2>4, <2>5, <2>6 DEF OwnOk
<1>13. QED
  BY <1>3, <1>7, <1>8, <1>9, <1>10, <1>11, <1>12 DEF QueueInv, Serial

(* Deliveries that were completed by hand. *)
LEMMA AckLaw ==
  ASSUME QueueInv, NEW q \in Queues, Right(q)
  PROVE  /\ Acknowledged(q) \in Queues /\ Right(Acknowledged(q))
         /\ \A r : MayFollow(r, q) => MayFollow(r, Acknowledged(q))
         /\ \A i \in Items : OverIn(q, i) => OverIn(Acknowledged(q), i)
<1>1. PICK a : a = Acknowledged(q)
  OBVIOUS
<1>2. \A i \in Items : q[i] \in Item /\ [q[i] EXCEPT !.state = "completed"] \in Item
                       /\ [q[i] EXCEPT !.state = "completed"].state = "completed"
  BY DEF Queues, Item, ITEM_STATES, TERMINAL_STATES
<1>3. a = [i \in Items |-> IF q[i].state = "failed" /\ q[i].why = "delivery" /\ i \in shown
                           THEN [q[i] EXCEPT !.state = "completed"] ELSE q[i]]
  BY <1>1 DEF Acknowledged
<1>4. a \in Queues
  BY <1>2, <1>3 DEF Queues
<1>5. \A i \in Items :
        \/ a[i] = q[i]
        \/ /\ q[i].state = "failed" /\ q[i].why = "delivery" /\ i \in shown
           /\ a[i].state = "completed"
  BY <1>2, <1>3
<1>6. shown \subseteq finished
  BY DEF QueueInv, GoalsOk
<1>7. Right(a)
  BY <1>5, <1>6 DEF Right
<1>8. \A r : MayFollow(r, q) => MayFollow(r, a)
  BY <1>5, <1>6 DEF MayFollow
<1>9. \A i \in Items : OverIn(q, i) => OverIn(a, i)
  BY <1>5 DEF OverIn
<1>10. QED
  BY <1>1, <1>4, <1>7, <1>8, <1>9

LEMMA DispatchStep ==
  ASSUME QueueInv, NEW p \in Procs, Dispatch(p)
  PROVE  QueueInv'
<1>1. /\ job[p].at = "idle" /\ Free /\ UNCHANGED <<env_vars, store_vars, slot, shown, finished>>
  BY DEF Dispatch, Is
<1>0. PICK at : at = IF OpenTxs = {} THEN "pick" ELSE "reconcile"
  OBVIOUS
<1>2. PICK only \in Items \cup {None} : job' = [job EXCEPT ![p].at = at, ![p].only = only]
  BY <1>0 DEF Dispatch
<1>3. PICK x : x = [job[p] EXCEPT !.at = at, !.only = only]
  OBVIOUS
<1>4. job[p] \in Job /\ at \in {"pick", "reconcile"}
  BY <1>0, JobLaw
<1>5. /\ x \in Job /\ x.at = at /\ x.item = job[p].item /\ x.ok = job[p].ok /\ x.sent = job[p].sent
  BY <1>3, <1>4 DEF Job
<1>6. job' \in [Procs -> Job] /\ job'[p] = x
  BY <1>2, <1>3, <1>5 DEF QueueInv, TypeOK
<1>7. JobOk(p)'
  BY <1>1, <1>4, <1>5, <1>6, JobLaw DEF JobOk, Owning
<1>8. /\ script.writes = <<>> /\ items \in Queues /\ Right(items) /\ MayFollow(items, items)
      /\ txs \in TxLists
  BY <1>1, FreeLaw DEF QueueInv, TypeOK, QueuesOk, MayFollow
<1>9. CASE OpenTxs = {}
  <2>1. AllRefused(txs, {})
    BY <1>9 DEF AllRefused, OpenTxs
  <2>2. PICK q : q = Acknowledged(items)
    OBVIOUS
  <2>3. /\ q \in Queues /\ Right(q) /\ MayFollow(items, q)
        /\ \A i \in Items : OverIn(items, i) => OverIn(q, i)
    BY <1>8, <2>2, AckLaw
  <2>4. PICK r : r = Refresh(q, Disk, 0)
    OBVIOUS
  <2>5. /\ FitQ(r) /\ \A i \in Items : OverIn(items, i) => OverIn(r, i)
    BY <2>3, <2>4, RefreshLaw, RefreshKeeps DEF FitQ
  <2>6. PICK ws : Script(p, ws) /\ (ws = <<>> \/ ws = <<WItems(r)>>)
    BY <1>9, <2>2, <2>4 DEF Dispatch, Now
  <2>7. /\ Fits(ws) /\ TxsOf(ws) = {} /\ \A q1 \in QueuesOf(ws) : q1 = r
    BY <2>5, <2>6, ItemsScript, NoneScript
  <2>8. \A i \in Items : Over(i) => KeptIn(ws, i)
    BY <2>5, <2>7 DEF Over, KeptIn
  <2>9. \A t \in LastTxs(ws) : AllRefused(t, {})
    BY <2>1, <2>7 DEF LastTxs
  <2>10. job'[p].at = "pick"
    BY <1>0, <1>5, <1>6, <1>9
  <2>11. QED
    BY <1>1, <1>6, <1>7, <1>8, <2>6, <2>7, <2>8, <2>9, <2>10, ScriptStep
<1>10. CASE OpenTxs # {}
  <2>1. script' = [by |-> p, writes |-> <<>>, left |-> OpenTxs, q |-> items]
    BY <1>10 DEF Dispatch
  <2>2. job'[p].at = "reconcile"
    BY <1>0, <1>5, <1>6, <1>10
  <2>3. OpenTxs \subseteq 1..MaxTx
    BY <1>8, TxListLaw DEF OpenTxs, OpenIn
  <2>4. script' \in Scripts /\ script'.by = p /\ script'.writes = <<>> /\ script'.left = OpenTxs
        /\ script'.q = items
    BY <1>8, <2>1, <2>3 DEF Scripts
  <2>5. \A r \in Procs : r = p
    BY JobLaw
  <2>6. QueuesOk' /\ TxsOk' /\ ChargeOk' /\ LedgersFit(script.writes)'
    <3>1. Fits(script'.writes)
      BY <2>4, NoneScript
    <3>2. \A i \in Items : Over(i) =>
             /\ KeptIn(script'.writes, i)
             /\ \A r \in Procs : /\ job'[r].at \in Owning => job'[r].item # i
                                 /\ job'[r].at = "reconcile" => OverIn(script'.q, i)
      BY <2>2, <2>4, <2>5, NoneScript DEF Owning, Over
    <3>3. QED
      BY <1>1, <3>1, <3>2, Carry DEF env_vars, store_vars
  <2>7. TypeOK'
    BY <1>1, <1>6, <2>4 DEF QueueInv, TypeOK, env_vars, store_vars
  <2>8. LockOk'
    BY <2>2, <2>4, <2>5, OtherAssumption DEF LockOk
  <2>9. MemoryOk'
    <3>1. Right(items)' /\ MayFollow(items, items)'
      BY <1>1, <1>8 DEF Right, MayFollow, store_vars
    <3>2. QueuesToCome' = {}
      BY <2>4 DEF QueuesToCome, QueuesOf
    <3>3. Right(script.q)' /\ MayFollow(items, script.q)'
      BY <1>1, <2>4, <3>1 DEF Right, MayFollow, store_vars
    <3>4. QED
      BY <3>2, <3>3 DEF MemoryOk
  <2>10. GoalsOk' /\ LeaseOk'
    BY <1>1, <2>5 DEF QueueInv, GoalsOk, LeaseOk, store_vars
  <2>11. OwnOk(p)'
    <3>1. TxsAtLast' = {txs}
      BY <1>1, <2>4 DEF TxsAtLast, TxsToCome, TxsOf, store_vars
    <3>2. (\A t \in TxsAtLast : script.left \subseteq OpenIn(t) /\ AllRefused(t, script.left))'
      BY <2>4, <3>1 DEF AllRefused, OpenIn, OpenTxs
    <3>3. QED
      BY <2>2, <3>2 DEF OwnOk, Owning, Past
  <2>12. QED
    BY <1>7, <2>5, <2>6, <2>7, <2>8, <2>9, <2>10, <2>11 DEF QueueInv, Serial
<1>11. QED
  BY <1>9, <1>10

-----------------------------------------------------------------------------
(* Reconciling. *)

(* Closing a transaction is right behind the entries of all it recorded. *)
LEMMA CloseLaw ==
  ASSUME QueueInv, NEW n \in DOMAIN txs, NEW phase \in Phases, phase # "open",
         NEW l, ledger \subseteq l,
         phase = "settled" => \A s \in txs[n].segs : Wall(n, s) \in l
  PROVE  /\ FitT(Closed(txs, n, phase)) /\ Settles(Closed(txs, n, phase), l)
         /\ OpenIn(Closed(txs, n, phase)) = OpenIn(txs) \ {n}
         /\ \A m \in DOMAIN txs :
              /\ Closed(txs, n, phase)[m].item = txs[m].item
              /\ Closed(txs, n, phase)[m].refused = txs[m].refused
         /\ \A i : Over(i) => \A m \in OpenIn(Closed(txs, n, phase)) :
              Closed(txs, n, phase)[m].item = i => Closed(txs, n, phase)[m].refused
<1>1. txs \in TxLists /\ WereReady(txs) /\ Once(txs)
  BY DEF QueueInv, TypeOK, TxsOk
<1>2. PICK t : t = Closed(txs, n, phase)
  OBVIOUS
<1>3. /\ t \in TxLists /\ DOMAIN t = DOMAIN txs /\ t[n].phase = phase
      /\ \A m \in DOMAIN txs :
           /\ t[m].item = txs[m].item /\ t[m].segs = txs[m].segs /\ t[m].refused = txs[m].refused
           /\ m # n => t[m] = txs[m]
      /\ OpenIn(t) = OpenIn(txs) \ {n}
      /\ Once(t) /\ WereReady(t) /\ Extends(t)
  BY <1>1, <1>2, ClosedLaw
<1>4. Settles(t, l)
  <2> SUFFICES ASSUME NEW m \in DOMAIN t, t[m].phase = "settled"
               PROVE  (\A s \in t[m].segs : Wall(m, s) \in l) \/ Over(t[m].item)
    BY DEF Settles
  <2>1. CASE m = n
    BY <1>3, <2>1
  <2>2. CASE m # n
    BY <1>3, <2>2 DEF QueueInv, ChargeOk
  <2>3. QED
    BY <2>1, <2>2
<1>5. ASSUME NEW i, Over(i), NEW m \in OpenIn(t), t[m].item = i PROVE t[m].refused
  <2>1. m \in OpenIn(txs) /\ m \in DOMAIN txs
    BY <1>3 DEF OpenIn
  <2>2. QED
    BY <1>3, <1>5, <2>1 DEF Over, OpenTxs
<1>6. QED
  BY <1>2, <1>3, <1>4, <1>5 DEF FitT

(* The verdict on an open transaction: the dispatcher is alone, so nothing is live. *)
LEMMA VerdictLaw ==
  ASSUME QueueInv, NEW p \in Procs, Reconciles(p), NEW n \in DOMAIN txs,
         NEW late \in BOOLEAN, NEW blocked \in BOOLEAN
  PROVE  LET v == Verdict(n, late, blocked)
             i == txs[n].item
         IN  /\ v \in {"killed", "delivery", "blocked", "settled", "orphan"}
             /\ v = "delivery" => i \in Delivered /\ i \in finished
             /\ v \in {"blocked", "settled"} => i \notin Delivered /\ i \in finished
<1>1. job[p].at = "reconcile" /\ \A r \in Procs : r = p
  BY JobLaw DEF Reconciles
<1>2. lease \notin Procs /\ ~ChainAlive(n, late)
  <2>1. lease \notin Procs
    BY <1>1 DEF QueueInv, LeaseOk
  <2>2. txs[n].sender \in Procs \cup {None}
    BY TxListLaw DEF QueueInv, TypeOK, Tx
  <2>3. QED
    BY <1>1, <2>1, <2>2 DEF ChainAlive
<1>3. PICK i \in Items : i = txs[n].item
  BY TxListLaw DEF QueueInv, TypeOK, Tx
<1>4. slot = [goal |-> i, status |-> "done"] => i \in finished
  <2> SUFFICES ASSUME slot = [goal |-> i, status |-> "done"] PROVE i \in finished
    OBVIOUS
  <2>1. slot \in Slots /\ slot.goal = i /\ slot.status = "done"
    BY DEF Slots
  <2>2. QED
    BY <2>1, NoneAssumption, OtherAssumption DEF QueueInv, GoalsOk
<1>5. PICK v : v = Verdict(n, late, blocked)
  OBVIOUS
<1>6. v = CASE slot = [goal |-> i, status |-> "executing"] ->
                 IF lease \in Procs THEN "busy-live" ELSE "killed"
            [] slot = [goal |-> i, status |-> "done"] /\ i \in Delivered ->
                 IF ChainAlive(n, late) THEN "delivering" ELSE "delivery"
            [] slot = [goal |-> i, status |-> "done"] /\ i \notin Delivered ->
                 IF blocked THEN "blocked" ELSE "settled"
            [] OTHER -> "orphan"
  BY <1>3, <1>5 DEF Verdict
<1>7. [goal |-> i, status |-> "done"] # [goal |-> i, status |-> "executing"]
  <2>1. [goal |-> i, status |-> "done"].status # [goal |-> i, status |-> "executing"].status
    OBVIOUS
  <2>2. QED
    BY <2>1
<1>8. CASE slot = [goal |-> i, status |-> "executing"]
  <2>1. v = "killed"
    BY <1>2, <1>6, <1>7, <1>8
  <2>2. QED
    BY <1>5, <2>1
<1>9. CASE slot = [goal |-> i, status |-> "done"] /\ i \in Delivered
  <2>1. v = "delivery"
    BY <1>2, <1>6, <1>7, <1>9
  <2>2. QED
    BY <1>3, <1>4, <1>5, <1>9, <2>1
<1>10. CASE slot = [goal |-> i, status |-> "done"] /\ i \notin Delivered
  <2>1. v = IF blocked THEN "blocked" ELSE "settled"
    BY <1>6, <1>7, <1>10
  <2>2. QED
    BY <1>3, <1>4, <1>5, <1>10, <2>1
<1>11. CASE slot # [goal |-> i, status |-> "executing"] /\ slot # [goal |-> i, status |-> "done"]
  <2>1. v = "orphan"
    BY <1>6, <1>11
  <2>2. QED
    BY <1>5, <2>1
<1>12. QED
  BY <1>8, <1>9, <1>10, <1>11

(* An item whose transaction is on record is changed. *)
LEMMA ChangeLaw ==
  ASSUME QueueInv, NEW q \in Queues, Right(q), MayFollow(items, q),
         NEW i \in Items, NEW x \in Item, \E n \in DOMAIN txs : txs[n].item = i,
         x.state = "completed" => i \in finished /\ (i \in Delivered => i \in shown),
         items[i].state = "completed" => x.state = "completed",
         items[i].state = "failed" => x.state \in {"failed", "completed"}
  PROVE  FitQ([q EXCEPT ![i] = x])
<1>1. PICK r : r = [q EXCEPT ![i] = x]
  OBVIOUS
<1>2. r \in Queues /\ r[i] = x /\ \A j \in Items : j # i => r[j] = q[j]
  BY <1>1 DEF Queues
<1>3. Right(r)
  BY <1>2 DEF Right
<1>4. MayFollow(items, r)
  BY <1>2 DEF MayFollow, TERMINAL_STATES
<1>5. QED
  BY <1>1, <1>2, <1>3, <1>4 DEF FitQ

LEMMA ItemAfterLaw ==
  ASSUME QueueInv, NEW p \in Procs, Reconciles(p), NEW n \in OpenTxs,
         NEW late \in BOOLEAN, NEW blocked \in BOOLEAN
  PROVE  LET q == ItemAfter(script.q, txs[n].item, Verdict(n, late, blocked)) IN
         FitQ(q) /\ \A i \in Items : Over(i) => OverIn(q, i)
<1>1. PICK i \in Items : i = txs[n].item
  BY TxListLaw DEF QueueInv, TypeOK, Tx, OpenTxs, OpenIn
<1>2. PICK v : v = Verdict(n, late, blocked)
  OBVIOUS
<1>3. n \in DOMAIN txs
  BY DEF OpenTxs, OpenIn
<1>4. /\ v \in {"killed", "delivery", "blocked", "settled", "orphan"}
      /\ v = "delivery" => i \in Delivered /\ i \in finished
      /\ v \in {"blocked", "settled"} => i \notin Delivered /\ i \in finished
  BY <1>1, <1>2, <1>3, VerdictLaw
<1>5. PICK q : q = script.q
  OBVIOUS
<1>6. q \in Queues /\ Right(q) /\ MayFollow(items, q)
  BY <1>5 DEF QueueInv, TypeOK, Scripts, MemoryOk, Reconciles
<1>7. q[i] \in Item /\ items[i] \in Item
  BY <1>6 DEF Queues, QueueInv, TypeOK
<1>8. \A j \in Items : Over(j) => OverIn(q, j)
  BY <1>5 DEF Over, Reconciles
<1>9. Over(i) => i \notin Delivered
  <2>1. Once(txs)
    BY DEF QueueInv, TxsOk
  <2>2. QED
    BY <1>1, <1>3, <2>1 DEF Over, Once
<1>10. Right(items)
  BY DEF QueueInv, QueuesOk
<1>11. \E m \in DOMAIN txs : txs[m].item = i
  BY <1>1, <1>3
<1>12. ASSUME NEW x \in Item, FitQ([q EXCEPT ![i] = x]), Over(i) => x.state \in TERMINAL_STATES /\ x.why = "other",
              ItemAfter(q, i, v) = [q EXCEPT ![i] = x]
       PROVE  FitQ(ItemAfter(q, i, v)) /\ \A j \in Items : Over(j) => OverIn(ItemAfter(q, i, v), j)
  <2>1. PICK r : r = [q EXCEPT ![i] = x]
    OBVIOUS
  <2>2. r[i] = x /\ \A j \in Items : j # i => r[j] = q[j]
    BY <1>6, <2>1 DEF Queues
  <2>3. \A j \in Items : Over(j) => OverIn(r, j)
    BY <1>8, <1>12, <2>2 DEF OverIn
  <2>4. QED
    BY <1>12, <2>1, <2>3
<1>13. CASE ItemAfter(q, i, v) = q
  BY <1>1, <1>2, <1>5, <1>6, <1>8, <1>13 DEF FitQ
<1>14. CASE v = "killed" /\ q[i].state = "running"
  <2>1. PICK x : x = [q[i] EXCEPT !.state = "ready"]
    OBVIOUS
  <2>2. x \in Item /\ x.state = "ready"
    BY <1>7, <2>1 DEF Item, ITEM_STATES
  <2>3. ItemAfter(q, i, v) = [q EXCEPT ![i] = x]
    BY <1>14, <2>1 DEF ItemAfter
  <2>4. items[i].state \notin {"completed", "failed"}
    BY <1>6, <1>14 DEF MayFollow, TERMINAL_STATES
  <2>5. FitQ([q EXCEPT ![i] = x])
    BY <1>6, <1>11, <2>2, <2>4, ChangeLaw
  <2>6. ~Over(i)
    BY <1>8, <1>14 DEF OverIn, TERMINAL_STATES
  <2>7. QED
    BY <1>1, <1>2, <1>5, <1>12, <2>2, <2>3, <2>5, <2>6
<1>15. CASE v = "delivery" /\ i \in shown
  <2>1. PICK x : x = [q[i] EXCEPT !.state = "completed"]
    OBVIOUS
  <2>2. x \in Item /\ x.state = "completed"
    BY <1>7, <2>1 DEF Item, ITEM_STATES, TERMINAL_STATES
  <2>3. ItemAfter(q, i, v) = [q EXCEPT ![i] = x]
    BY <1>15, <2>1 DEF ItemAfter, Completed
  <2>4. FitQ([q EXCEPT ![i] = x])
    BY <1>4, <1>6, <1>11, <1>15, <2>2, ChangeLaw
  <2>5. ~Over(i)
    BY <1>4, <1>9, <1>15
  <2>6. QED
    BY <1>1, <1>2, <1>5, <1>12, <2>2, <2>3, <2>4, <2>5
<1>16. CASE v = "delivery" /\ i \notin shown
  <2>1. PICK x : x = [state |-> "failed", why |-> "delivery"]
    OBVIOUS
  <2>2. x \in Item /\ x.state = "failed"
    BY <2>1 DEF Item, ITEM_STATES, TERMINAL_STATES, Reasons
  <2>3. ItemAfter(q, i, v) = [q EXCEPT ![i] = x]
    BY <1>16, <2>1 DEF ItemAfter, SetItem
  <2>4. items[i].state # "completed"
    BY <1>4, <1>10, <1>16 DEF Right
  <2>5. FitQ([q EXCEPT ![i] = x])
    BY <1>6, <1>11, <2>2, <2>4, ChangeLaw
  <2>6. ~Over(i)
    BY <1>4, <1>9, <1>16
  <2>7. QED
    BY <1>1, <1>2, <1>5, <1>12, <2>2, <2>3, <2>5, <2>6
<1>17. CASE v = "blocked"
  <2>1. PICK x : x = [q[i] EXCEPT !.why = "other"]
    OBVIOUS
  <2>2. x \in Item /\ x.state = q[i].state /\ x.why = "other"
    BY <1>7, <2>1 DEF Item, Reasons
  <2>3. ItemAfter(q, i, v) = [q EXCEPT ![i] = x]
    BY <1>17, <2>1 DEF ItemAfter
  <2>4. FitQ([q EXCEPT ![i] = x])
    <3>1. x.state = "completed" => i \in finished /\ (i \in Delivered => i \in shown)
      BY <1>6, <2>2 DEF Right
    <3>2. items[i].state \in {"completed", "failed"} => x.state \in {items[i].state, "completed"}
      BY <1>6, <2>2 DEF MayFollow, TERMINAL_STATES
    <3>3. QED
      BY <1>6, <1>11, <2>2, <3>1, <3>2, ChangeLaw
  <2>5. Over(i) => x.state \in TERMINAL_STATES /\ x.why = "other"
    BY <1>8, <2>2 DEF OverIn
  <2>6. QED
    BY <1>1, <1>2, <1>5, <1>12, <2>2, <2>3, <2>4, <2>5
<1>18. CASE v = "settled"
  <2>1. PICK x : x = [q[i] EXCEPT !.state = "completed"]
    OBVIOUS
  <2>2. x \in Item /\ x.state = "completed" /\ x.why = q[i].why
    BY <1>7, <2>1 DEF Item, ITEM_STATES, TERMINAL_STATES
  <2>3. ItemAfter(q, i, v) = [q EXCEPT ![i] = x]
    BY <1>18, <2>1 DEF ItemAfter, Completed
  <2>4. FitQ([q EXCEPT ![i] = x])
    BY <1>4, <1>6, <1>11, <1>18, <2>2, ChangeLaw
  <2>5. Over(i) => x.state \in TERMINAL_STATES /\ x.why = "other"
    BY <1>8, <2>2 DEF OverIn, TERMINAL_STATES
  <2>6. QED
    BY <1>1, <1>2, <1>5, <1>12, <2>2, <2>3, <2>4, <2>5
<1>19. CASE v = "orphan" /\ q[i].state \notin TERMINAL_STATES
  <2>1. PICK x : x = [state |-> "failed", why |-> "other"]
    OBVIOUS
  <2>2. x \in Item /\ x.state = "failed"
    BY <2>1 DEF Item, ITEM_STATES, TERMINAL_STATES, Reasons
  <2>3. ItemAfter(q, i, v) = [q EXCEPT ![i] = x]
    BY <1>19, <2>1 DEF ItemAfter, SetItem
  <2>4. items[i].state # "completed"
    BY <1>6, <1>19 DEF MayFollow, TERMINAL_STATES
  <2>5. FitQ([q EXCEPT ![i] = x])
    BY <1>6, <1>11, <2>2, <2>4, ChangeLaw
  <2>6. ~Over(i)
    BY <1>8, <1>19 DEF OverIn
  <2>7. QED
    BY <1>1, <1>2, <1>5, <1>12, <2>2, <2>3, <2>5, <2>6
<1>20. CASE \/ v = "killed" /\ q[i].state # "running"
            \/ v = "orphan" /\ q[i].state \in TERMINAL_STATES
  <2>1. ItemAfter(q, i, v) = q
    BY <1>20 DEF ItemAfter
  <2>2. QED
    BY <1>1, <1>2, <1>5, <1>13, <2>1
<1>21. QED
  BY <1>4, <1>14, <1>15, <1>16, <1>17, <1>18, <1>19, <1>20

LEMMA ReconcileTxStep ==
  ASSUME QueueInv, NEW p \in Procs, NEW n \in 1..MaxTx, ReconcileTx(p, n)
  PROVE  QueueInv'
<1>1. /\ Reconciles(p) /\ n \in script.left
      /\ UNCHANGED <<env_vars, store_vars, slot, shown, job, finished>>
  BY DEF ReconcileTx
<1>2. /\ job[p].at = "reconcile" /\ script.by = p /\ script.writes = <<>> /\ \A r \in Procs : r = p
      /\ txs \in TxLists /\ script \in Scripts
  BY <1>1, JobLaw DEF Reconciles, QueueInv, TypeOK
<1>3. TxsAtLast = {txs} /\ QueuesToCome = {}
  BY <1>2 DEF TxsAtLast, TxsToCome, TxsOf, QueuesToCome, QueuesOf
<1>4. script.left \subseteq OpenIn(txs) /\ AllRefused(txs, script.left)
  BY <1>2, <1>3, JobLaw DEF OwnOk
<1>5. n \in OpenTxs /\ n \in DOMAIN txs
  BY <1>1, <1>4 DEF OpenTxs, OpenIn
<1>6. PICK late \in BOOLEAN, blocked \in BOOLEAN, absent \in SUBSET txs[n].segs :
        script' = [by |-> p, writes |-> WritesFor(n, Verdict(n, late, blocked), absent),
                   left |-> script.left \ {n},
                   q |-> ItemAfter(script.q, txs[n].item, Verdict(n, late, blocked))]
  BY DEF ReconcileTx
<1>7. PICK v : v = Verdict(n, late, blocked)
  OBVIOUS
<1>8. PICK q : q = ItemAfter(script.q, txs[n].item, v)
  OBVIOUS
<1>9. FitQ(q) /\ \A i \in Items : Over(i) => OverIn(q, i)
  BY <1>1, <1>5, <1>7, <1>8, ItemAfterLaw
<1>10. /\ v \in {"killed", "delivery", "blocked", "settled", "orphan"}
       /\ v = "blocked" => txs[n].item \notin Delivered
  BY <1>1, <1>5, <1>7, VerdictLaw
<1>11. PICK ws : ws = WritesFor(n, v, absent)
  OBVIOUS
<1>12. PICK t : /\ Fits(ws) /\ QueuesOf(ws) = {} /\ TxsOf(ws) = {t} /\ t \in TxLists
                /\ \/ OpenIn(t) = OpenIn(txs) \ {n}
                   \/ OpenIn(t) = OpenIn(txs) /\ t[n].refused
                /\ \A m \in DOMAIN txs : txs[m].refused => t[m].refused
                /\ \A i \in Items : Over(i) => \A m \in OpenIn(t) : t[m].item = i => t[m].refused
  <2> DEFINE charged == Charge(ledger, Spent(n, absent))
             all == IF txs[n].sender = None THEN charged ELSE Charge(charged, DeliveryWall(n))
  <2>1. /\ FitL(charged) /\ FitL(all) /\ charged \subseteq all
        /\ \A s \in txs[n].segs : Wall(n, s) \in charged /\ Wall(n, s) \in all
    BY <1>5, SpentLaw DEF QueueInv, TypeOK, FitL, Charge
  <2> HIDE DEF charged, all
  <2>2. FitL(Charge(ledger, Declared(n)))
    BY <1>5, SpentLaw DEF QueueInv, TypeOK, FitL, Charge
  <2>3. ASSUME NEW phase \in Phases, phase # "open", NEW l, ledger \subseteq l,
               phase = "settled" => \A s \in txs[n].segs : Wall(n, s) \in l
        PROVE  /\ FitT(Closed(txs, n, phase)) /\ Settles(Closed(txs, n, phase), l)
               /\ Closed(txs, n, phase) \in TxLists
               /\ OpenIn(Closed(txs, n, phase)) = OpenIn(txs) \ {n}
               /\ \A m \in DOMAIN txs : txs[m].refused => Closed(txs, n, phase)[m].refused
               /\ \A i \in Items : Over(i) => \A m \in OpenIn(Closed(txs, n, phase)) :
                    Closed(txs, n, phase)[m].item = i => Closed(txs, n, phase)[m].refused
    <3>1. /\ FitT(Closed(txs, n, phase)) /\ Settles(Closed(txs, n, phase), l)
          /\ OpenIn(Closed(txs, n, phase)) = OpenIn(txs) \ {n}
          /\ \A m \in DOMAIN txs :
               /\ Closed(txs, n, phase)[m].item = txs[m].item
               /\ Closed(txs, n, phase)[m].refused = txs[m].refused
          /\ \A i : Over(i) => \A m \in OpenIn(Closed(txs, n, phase)) :
               Closed(txs, n, phase)[m].item = i => Closed(txs, n, phase)[m].refused
      BY <1>5, <2>3, CloseLaw
    <3>2. QED
      BY <3>1 DEF FitT
  <2>4. CASE v = "killed"
    <3>1. ws = <<WTxs(Closed(txs, n, "killed")), WLedger(Charge(ledger, Declared(n))), WLease>>
      BY <1>11, <2>4 DEF WritesFor
    <3>2. PICK t : t = Closed(txs, n, "killed")
      OBVIOUS
    <3>3. /\ FitT(t) /\ Settles(t, ledger) /\ t \in TxLists /\ OpenIn(t) = OpenIn(txs) \ {n}
          /\ \A m \in DOMAIN txs : txs[m].refused => t[m].refused
          /\ \A i \in Items : Over(i) => \A m \in OpenIn(t) : t[m].item = i => t[m].refused
      BY <2>3, <3>2 DEF Phases
    <3>4. Fits(ws) /\ QueuesOf(ws) = {} /\ TxsOf(ws) = {t}
      BY <2>2, <3>1, <3>2, <3>3, KilledScript
    <3>5. QED
      BY <3>3, <3>4
  <2>5. CASE v = "delivery"
    <3>1. ws = <<WLedger(charged), WLedger(all), WTxs(Closed(txs, n, "settled"))>>
      BY <1>11, <2>5 DEF WritesFor, charged, all
    <3>2. PICK t : t = Closed(txs, n, "settled")
      OBVIOUS
    <3>3. /\ FitT(t) /\ Settles(t, all) /\ t \in TxLists /\ OpenIn(t) = OpenIn(txs) \ {n}
          /\ \A m \in DOMAIN txs : txs[m].refused => t[m].refused
          /\ \A i \in Items : Over(i) => \A m \in OpenIn(t) : t[m].item = i => t[m].refused
      BY <2>1, <2>3, <3>2 DEF Phases, FitL
    <3>4. Fits(ws) /\ QueuesOf(ws) = {} /\ TxsOf(ws) = {t}
      BY <2>1, <3>1, <3>2, <3>3, DeliveryScript
    <3>5. QED
      BY <3>3, <3>4
  <2>6. CASE v = "settled"
    <3>1. ws = <<WLedger(charged), WTxs(Closed(txs, n, "settled"))>>
      BY <1>11, <2>6 DEF WritesFor, charged
    <3>2. PICK t : t = Closed(txs, n, "settled")
      OBVIOUS
    <3>3. /\ FitT(t) /\ Settles(t, charged) /\ t \in TxLists /\ OpenIn(t) = OpenIn(txs) \ {n}
          /\ \A m \in DOMAIN txs : txs[m].refused => t[m].refused
          /\ \A i \in Items : Over(i) => \A m \in OpenIn(t) : t[m].item = i => t[m].refused
      BY <2>1, <2>3, <3>2 DEF Phases, FitL
    <3>4. Fits(ws) /\ QueuesOf(ws) = {} /\ TxsOf(ws) = {t}
      BY <2>1, <3>1, <3>2, <3>3, SettledScript
    <3>5. QED
      BY <3>3, <3>4
  <2>7. CASE v = "orphan"
    <3>1. ws = <<WTxs(Closed(txs, n, "reconciled-orphan"))>>
      BY <1>11, <2>7 DEF WritesFor
    <3>2. PICK t : t = Closed(txs, n, "reconciled-orphan")
      OBVIOUS
    <3>3. /\ FitT(t) /\ Settles(t, ledger) /\ t \in TxLists /\ OpenIn(t) = OpenIn(txs) \ {n}
          /\ \A m \in DOMAIN txs : txs[m].refused => t[m].refused
          /\ \A i \in Items : Over(i) => \A m \in OpenIn(t) : t[m].item = i => t[m].refused
      BY <2>3, <3>2 DEF Phases
    <3>4. Fits(ws) /\ QueuesOf(ws) = {} /\ TxsOf(ws) = {t}
      BY <3>1, <3>2, <3>3, TxsScript
    <3>5. QED
      BY <3>3, <3>4
  <2>8. CASE v = "blocked"
    <3>1. ws = <<WTxs([txs EXCEPT ![n].refused = TRUE])>>
      BY <1>11, <2>8 DEF WritesFor
    <3>2. PICK t : t = [txs EXCEPT ![n].refused = TRUE]
      OBVIOUS
    <3>3. /\ t \in TxLists /\ DOMAIN t = DOMAIN txs /\ t[n].refused
          /\ \A m \in DOMAIN txs :
               /\ t[m].item = txs[m].item /\ t[m].segs = txs[m].segs /\ t[m].phase = txs[m].phase
               /\ m # n => t[m] = txs[m]
          /\ OpenIn(t) = OpenIn(txs) /\ Extends(t)
          /\ Once(txs) => Once(t)
          /\ WereReady(txs) => WereReady(t)
      BY <1>2, <1>5, <1>10, <2>8, <3>2, RefusedLaw
    <3>4. FitT(t)
      BY <3>3 DEF FitT, QueueInv, TxsOk
    <3>5. Settles(t, ledger)
      BY <3>3 DEF Settles, QueueInv, ChargeOk
    <3>6. \A m \in DOMAIN txs : txs[m].refused => t[m].refused
      BY <3>3
    <3>7. \A i \in Items : Over(i) => \A m \in OpenIn(t) : t[m].item = i => t[m].refused
      BY <3>3, <3>6 DEF Over, OpenTxs, OpenIn
    <3>8. Fits(ws) /\ QueuesOf(ws) = {} /\ TxsOf(ws) = {t}
      BY <3>1, <3>2, <3>4, <3>5, TxsScript
    <3>9. QED
      BY <3>3, <3>6, <3>7, <3>8
  <2>9. QED
    BY <1>10, <2>4, <2>5, <2>6, <2>7, <2>8
<1>13. /\ script' \in Scripts /\ script'.by = p /\ script'.writes = ws /\ script'.q = q
       /\ script'.left = script.left \ {n}
  BY <1>2, <1>6, <1>7, <1>8, <1>9, <1>11, <1>12 DEF Scripts, Fits, FitQ
<1>14. QueuesOk' /\ TxsOk' /\ ChargeOk' /\ LedgersFit(script.writes)'
  <2>1. \A i \in Items : Over(i) =>
           /\ KeptIn(script'.writes, i)
           /\ \A r \in Procs : /\ job'[r].at \in Owning => job'[r].item # i
                               /\ job'[r].at = "reconcile" => OverIn(script'.q, i)
    BY <1>1, <1>2, <1>9, <1>12, <1>13 DEF KeptIn, Owning
  <2>2. QED
    BY <1>1, <1>12, <1>13, <2>1, Carry DEF env_vars, store_vars
<1>15. TypeOK'
  BY <1>1, <1>13 DEF QueueInv, TypeOK, env_vars, store_vars
<1>16. LockOk'
  BY <1>1, <1>2, <1>13, OtherAssumption DEF LockOk
<1>17. MemoryOk'
  <2>1. Right(script.q)' /\ MayFollow(items, script.q)'
    BY <1>1, <1>9, <1>13 DEF FitQ, Right, MayFollow, store_vars
  <2>2. QueuesToCome' = {}
    BY <1>12, <1>13 DEF QueuesToCome, QueuesOf
  <2>3. QED
    BY <2>1, <2>2 DEF MemoryOk
<1>18. GoalsOk' /\ LeaseOk'
  BY <1>1 DEF QueueInv, GoalsOk, LeaseOk, store_vars
<1>19. JobOk(p)'
  BY <1>1, JobLaw DEF JobOk, store_vars
<1>20. OwnOk(p)'
  <2>1. TxsAtLast' = {t}
    BY <1>12, <1>13 DEF TxsAtLast, TxsToCome, TxsOf
  <2>2. script'.left \subseteq OpenIn(t) /\ AllRefused(t, script'.left)
    <3>1. \A m \in OpenIn(t) : m \in DOMAIN txs /\ m \in OpenIn(txs)
      BY <1>12 DEF OpenIn
    <3>2. script'.left \subseteq OpenIn(t)
      BY <1>4, <1>12, <1>13
    <3>3. \A m \in OpenIn(t) : m \in script'.left \/ t[m].refused
      BY <1>4, <1>12, <1>13, <3>1 DEF AllRefused
    <3>4. QED
      BY <3>2, <3>3 DEF AllRefused
  <2>3. (\A u \in TxsAtLast : script.left \subseteq OpenIn(u) /\ AllRefused(u, script.left))'
    BY <2>1, <2>2 DEF AllRefused, OpenIn
  <2>4. job'[p].at = "reconcile"
    BY <1>1, <1>2
  <2>5. QED
    BY <2>3, <2>4 DEF OwnOk, Owning, Past
<1>21. QED
  BY <1>2, <1>14, <1>15, <1>16, <1>17, <1>18, <1>19, <1>20 DEF QueueInv, Serial

LEMMA ReconciledStep ==
  ASSUME QueueInv, NEW p \in Procs, Reconciled(p)
  PROVE  QueueInv'
<1>1. /\ job[p].at = "reconcile" /\ script.by = p /\ script.writes = <<>> /\ script.left = {}
      /\ UNCHANGED <<env_vars, store_vars, slot, shown, finished>>
  BY DEF Reconciled, Reconciles
<1>2. /\ script.q \in Queues /\ Right(script.q) /\ MayFollow(items, script.q)
      /\ \A i \in Items : Over(i) => OverIn(script.q, i)
  BY <1>1 DEF QueueInv, TypeOK, Scripts, MemoryOk, Over
<1>3. AllRefused(txs, {})
  <2>1. TxsAtLast = {txs}
    BY <1>1 DEF TxsAtLast, TxsToCome, TxsOf
  <2>2. AllRefused(txs, script.left)
    BY <1>1, <2>1, JobLaw DEF OwnOk
  <2>3. QED
    BY <1>1, <2>2
<1>4. PICK q : q = Acknowledged(script.q)
  OBVIOUS
<1>5. /\ q \in Queues /\ Right(q) /\ MayFollow(items, q)
      /\ \A i \in Items : Over(i) => OverIn(q, i)
  BY <1>2, <1>4, AckLaw
<1>6. PICK r : r = Refresh(q, Disk, 0)
  OBVIOUS
<1>7. FitQ(r) /\ \A i \in Items : Over(i) => OverIn(r, i)
  BY <1>5, <1>6, RefreshLaw, RefreshKeeps DEF FitQ
<1>8. PICK ws : ws = <<WItems(r)>>
  OBVIOUS
<1>9. Fits(ws) /\ TxsOf(ws) = {} /\ QueuesOf(ws) = {r}
  BY <1>7, <1>8, ItemsScript
<1>10. Script(p, ws)
  BY <1>4, <1>6, <1>8 DEF Reconciled, Now
<1>11. /\ job' \in [Procs -> Job] /\ job'[p].at = "pick"
       /\ job'[p].item = job[p].item /\ job'[p].tx = job[p].tx
       /\ job'[p].ok = job[p].ok /\ job'[p].sent = job[p].sent
  BY JobLaw, ToLaw DEF Reconciled
<1>12. JobOk(p)'
  BY <1>1, <1>11, JobLaw DEF JobOk, Owning
<1>13. \A i \in Items : Over(i) => KeptIn(ws, i)
  BY <1>7, <1>9 DEF KeptIn
<1>14. \A t \in LastTxs(ws) : AllRefused(t, {})
  BY <1>3, <1>9 DEF LastTxs
<1>15. QED
  BY <1>1, <1>9, <1>10, <1>11, <1>12, <1>13, <1>14, ScriptStep

-----------------------------------------------------------------------------
(* Picking an item. *)

LEMMA OpenLaw ==
  ASSUME QueueInv, NEW i \in Items, NEW wall \in Nat, Len(txs) < MaxTx, AllRefused(txs, {}),
         \A d \in DepsOf[i] : items[d].state = "completed",
         store = "sqlite" => \A n \in OpenTxs : txs[n].item # i
  PROVE  LET t == Opened(i, wall)
             n == Len(txs) + 1
         IN  /\ FitT(t) /\ Settles(t, ledger) /\ n \in 1..MaxTx
             /\ n \in OpenIn(t) /\ t[n].item = i /\ AllRefused(t, {n})
             /\ \A j : Over(j) /\ j # i => \A m \in OpenIn(t) : t[m].item = j => t[m].refused
<1>1. txs \in TxLists /\ txs \in Seq(Tx) /\ Len(txs) \in Nat /\ DOMAIN txs = 1..Len(txs)
  BY DEF QueueInv, TypeOK, TxLists
<1>2. PICK x : x = [item |-> i, phase |-> "open", wall |-> wall, segs |-> {}, sender |-> None,
                    refused |-> FALSE, ran |-> {}]
  OBVIOUS
<1>3. x \in Tx /\ x.item = i /\ x.phase = "open" /\ ~x.refused
  BY <1>2 DEF Tx, Phases
<1>4. PICK t : t = Append(txs, x)
  OBVIOUS
<1>5. PICK n : n = Len(txs) + 1
  OBVIOUS
<1>6. /\ t \in Seq(Tx) /\ Len(t) = n /\ DOMAIN t = 1..n /\ t[n] = x
      /\ \A m \in 1..Len(txs) : t[m] = txs[m]
  BY <1>1, <1>3, <1>4, <1>5
<1>7. n \in 1..MaxTx /\ n \in Nat
  BY <1>1, <1>5, BoundAssumption
<1>8. t \in TxLists
  BY <1>6, <1>7 DEF TxLists
<1>9. \A m \in DOMAIN t : m = n \/ (m \in DOMAIN txs /\ m < n /\ t[m] = txs[m])
  BY <1>1, <1>5, <1>6
<1>10. \A m \in OpenIn(t) : m = n \/ (m \in OpenIn(txs) /\ m < n /\ t[m] = txs[m] /\ t[m].refused)
  BY <1>9 DEF OpenIn, AllRefused
<1>11. WereReady(t)
  BY <1>3, <1>6, <1>9 DEF WereReady, QueueInv, TxsOk
<1>12. Once(t)
  <2>1. Once(txs)
    BY DEF QueueInv, TxsOk
  <2>2. ASSUME NEW k \in OpenIn(t), NEW m \in OpenIn(t), k < m
        PROVE  t[k].refused /\ (store = "sqlite" => t[k].item # t[m].item)
    <3>1. k \in 1..n /\ m \in 1..n
      BY <1>6 DEF OpenIn
    <3>2. k # n
      BY <1>7, <2>2, <3>1
    <3>3. k \in OpenIn(txs) /\ t[k] = txs[k] /\ t[k].refused
      BY <1>10, <3>2
    <3>4. CASE m = n
      BY <1>3, <1>6, <3>3, <3>4 DEF OpenTxs
    <3>5. CASE m # n
      <4>1. m \in OpenIn(txs) /\ t[m] = txs[m]
        BY <1>10, <3>5
      <4>2. store = "sqlite" => txs[k].item # txs[m].item
        BY <2>1, <2>2, <3>3, <4>1 DEF Once
      <4>3. QED
        BY <3>3, <4>1, <4>2
    <3>6. QED
      BY <3>4, <3>5
  <2>3. \A m \in DOMAIN t : t[m].refused => t[m].item \notin Delivered
    BY <1>3, <1>6, <1>9, <2>1 DEF Once
  <2>4. QED
    BY <2>2, <2>3 DEF Once
<1>13. Extends(t)
  BY <1>1, <1>5, <1>6, <1>7 DEF Extends
<1>14. Settles(t, ledger)
  BY <1>3, <1>6, <1>9 DEF Settles, QueueInv, ChargeOk
<1>15. n \in OpenIn(t) /\ t[n].item = i
  BY <1>3, <1>6, <1>7 DEF OpenIn
<1>16. AllRefused(t, {n})
  BY <1>10 DEF AllRefused
<1>17. \A j : Over(j) /\ j # i => \A m \in OpenIn(t) : t[m].item = j => t[m].refused
  BY <1>10, <1>15
<1>18. t = Opened(i, wall)
  BY <1>2, <1>4 DEF Opened
<1>19. QED
  BY <1>5, <1>7, <1>8, <1>11, <1>12, <1>13, <1>14, <1>15, <1>16, <1>17, <1>18 DEF FitT

(* The queue a pick starts from. *)
LEMMA PickLaw ==
  ASSUME QueueInv, NEW p \in Procs, Is(p, "pick")
  PROVE  LET q == Now(items) IN
         /\ FitQ(q) /\ AllRefused(txs, {}) /\ script.writes = <<>>
         /\ \A i \in Items : Over(i) => OverIn(q, i)
         /\ \A i \in Items : q[i].state = "ready" =>
              /\ ~Over(i) /\ items[i].state \notin {"completed", "failed", "absent"}
              /\ \A d \in DepsOf[i] : items[d].state = "completed"
<1>1. /\ job[p].at = "pick" /\ Free /\ script.writes = <<>> /\ TxsAtLast = {txs}
      /\ items \in Queues /\ Right(items) /\ MayFollow(items, items)
  BY FreeLaw DEF Is, QueueInv, TypeOK, QueuesOk, MayFollow
<1>2. PICK q : q = Refresh(items, Disk, 0)
  OBVIOUS
<1>3. FitQ(q) /\ \A i \in Items : OverIn(items, i) => OverIn(q, i)
  BY <1>1, <1>2, RefreshLaw, RefreshKeeps DEF FitQ
<1>4. AllRefused(txs, {})
  BY <1>1, JobLaw DEF OwnOk, Past
<1>5. ASSUME NEW i \in Items, q[i].state = "ready"
      PROVE  /\ ~Over(i) /\ items[i].state \notin {"completed", "failed", "absent"}
             /\ \A d \in DepsOf[i] : items[d].state = "completed"
  <2>1. Ready(i, Disk, 0) /\ items[i].state \notin TERMINAL_STATES \cup {"absent"}
    BY <1>1, <1>2, <1>5, RefreshLaw
  <2>2. QED
    BY <2>1 DEF Ready, Over, OverIn, TERMINAL_STATES
<1>6. QED
  BY <1>1, <1>2, <1>3, <1>4, <1>5 DEF Now, Over

LEMMA PickStep ==
  ASSUME QueueInv, NEW p \in Procs, Pick(p)
  PROVE  QueueInv'
<1>1. Is(p, "pick") /\ UNCHANGED <<env_vars, store_vars, slot, shown, finished>>
  BY DEF Pick
<1>2. PICK q : q = Now(items)
  OBVIOUS
<1>3. /\ FitQ(q) /\ AllRefused(txs, {}) /\ script.writes = <<>> /\ job[p].at = "pick"
      /\ \A i \in Items : Over(i) => OverIn(q, i)
      /\ \A i \in Items : q[i].state = "ready" =>
           /\ ~Over(i) /\ items[i].state \notin {"completed", "failed", "absent"}
           /\ \A d \in DepsOf[i] : items[d].state = "completed"
  BY <1>1, <1>2, PickLaw DEF Is
<1>4. Candidates(p) \subseteq Items
  <2>1. job[p] \in Job
    BY JobLaw
  <2>2. QED
    BY <2>1 DEF Candidates, Job
<1>5. ASSUME Script(p, <<WItems(q)>>), Quit(p) PROVE QueueInv'
  <2>1. PICK ws : ws = <<WItems(q)>>
    OBVIOUS
  <2>2. Fits(ws) /\ QueuesOf(ws) = {q} /\ TxsOf(ws) = {}
    BY <1>3, <2>1, ItemsScript
  <2>3. \A i \in Items : Over(i) => KeptIn(ws, i)
    BY <1>3, <2>2 DEF KeptIn
  <2>4. job' \in [Procs -> Job] /\ job'[p] = Idle /\ job'[p].at = "idle"
    BY <1>5, QuitLaw
  <2>5. QED
    BY <1>1, <1>3, <1>5, <2>1, <2>2, <2>3, <2>4, IdleOk, ScriptStep
<1>6. ASSUME NEW i \in Items, q[i].state = "ready", PickRejected(p, q, i) PROVE QueueInv'
  <2>1. PICK r : r = [q EXCEPT ![i] = [state |-> "failed", why |-> "other"]]
    OBVIOUS
  <2>2. [state |-> "failed", why |-> "other"] \in Item
    BY DEF Item, ITEM_STATES, TERMINAL_STATES, Reasons
  <2>3. /\ r \in Queues /\ r[i].state = "failed" /\ r[i].why = "other"
        /\ \A j \in Items : j # i => r[j] = q[j]
    BY <1>3, <2>1, <2>2 DEF FitQ, Queues
  <2>4. FitQ(r) /\ MayFollow(q, r)
    <3>1. Right(q) /\ MayFollow(items, q)
      BY <1>3 DEF FitQ
    <3>2. items[i].state \notin {"completed", "failed"}
      BY <1>3, <1>6
    <3>3. MayFollow(q, r)
      BY <1>6, <2>3 DEF MayFollow, TERMINAL_STATES
    <3>4. Right(r)
      BY <2>3, <3>1 DEF Right
    <3>5. MayFollow(items, r)
      <4> SUFFICES ASSUME NEW j \in Items, items[j].state \in TERMINAL_STATES, r[j].state # items[j].state
                   PROVE  \/ items[j].state = "failed" /\ r[j].state = "completed" /\ j \in finished
                          \/ items[j].state = "cancelled" /\ \E n \in DOMAIN txs : txs[n].item = j
        BY DEF MayFollow
      <4>1. CASE j = i
        <5>1. q[i].state # items[i].state
          BY <1>6, <4>1 DEF TERMINAL_STATES
        <5>2. QED
          BY <1>6, <3>1, <4>1, <5>1 DEF MayFollow
      <4>2. CASE j # i
        BY <2>3, <3>1, <4>2 DEF MayFollow
      <4>3. QED
        BY <4>1, <4>2
    <3>6. QED
      BY <2>3, <3>3, <3>4, <3>5 DEF FitQ
  <2>5. PICK ws : ws = <<WItems(q), WItems(r)>>
    OBVIOUS
  <2>6. Fits(ws) /\ QueuesOf(ws) = {q, r} /\ TxsOf(ws) = {}
    BY <1>3, <2>4, <2>5, RejectScript
  <2>7. \A j \in Items : Over(j) => KeptIn(ws, j)
    BY <1>3, <1>6, <2>3, <2>6 DEF KeptIn, OverIn
  <2>8. job' \in [Procs -> Job] /\ job'[p] = Idle /\ job'[p].at = "idle"
    BY <1>6, QuitLaw DEF PickRejected
  <2>9. Script(p, ws)
    BY <1>6, <2>1, <2>5 DEF PickRejected, SetItem
  <2>10. QED
    BY <1>1, <1>3, <2>6, <2>7, <2>8, <2>9, IdleOk, ScriptStep
<1>7. ASSUME NEW i \in Items, q[i].state = "ready", PickOpened(p, q, i) PROVE QueueInv'
  <2>1. PICK wall \in 0..limits.wall :
          IF store = "sqlite"
          THEN ~Occupied(i) /\ Script(p, <<WItems(q), occupyDispatch(i, wall, [q EXCEPT ![i].state = "running"])>>)
          ELSE Script(p, <<WItems(q), WTxs(Opened(i, wall)), WItems([q EXCEPT ![i].state = "running"])>>)
    BY <1>7 DEF PickOpened
  <2>2. wall \in Nat
    BY <2>1, StoreAssumption DEF QueueInv, TypeOK
  <2>3. PICK n : n = Len(txs) + 1
    OBVIOUS
  <2>4. PICK t : t = Opened(i, wall)
    OBVIOUS
  <2>5. store = "sqlite" => \A m \in OpenTxs : txs[m].item # i
    BY <2>1 DEF Occupied
  <2>6. /\ FitT(t) /\ Settles(t, ledger) /\ n \in 1..MaxTx
        /\ n \in OpenIn(t) /\ t[n].item = i /\ AllRefused(t, {n})
        /\ \A j : Over(j) /\ j # i => \A m \in OpenIn(t) : t[m].item = j => t[m].refused
    <3>1. Len(txs) < MaxTx
      BY <1>7 DEF PickOpened
    <3>2. \A d \in DepsOf[i] : items[d].state = "completed"
      BY <1>3, <1>7
    <3>3. AllRefused(txs, {})
      BY <1>3
    <3>4. QED
      BY <2>2, <2>3, <2>4, <2>5, <3>1, <3>2, <3>3, OpenLaw
  <2>7. PICK x : x = [q[i] EXCEPT !.state = "running"]
    OBVIOUS
  <2>8. q[i] \in Item
    BY <1>3 DEF FitQ, Queues
  <2>9. x \in Item /\ x.state = "running"
    BY <2>7, <2>8 DEF Item, ITEM_STATES
  <2>10. PICK r : r = [q EXCEPT ![i] = x]
    OBVIOUS
  <2>11. r = [q EXCEPT ![i].state = "running"]
    BY <2>7, <2>10
  <2>12. r \in Queues /\ r[i] = x /\ \A j \in Items : j # i => r[j] = q[j]
    BY <1>3, <2>9, <2>10 DEF FitQ, Queues
  <2>13. FitQ(r) /\ MayFollow(q, r)
    <3>1. Right(q) /\ MayFollow(items, q)
      BY <1>3 DEF FitQ
    <3>2. MayFollow(q, r)
      BY <1>7, <2>12 DEF MayFollow, TERMINAL_STATES
    <3>3. Right(r)
      BY <2>9, <2>12, <3>1 DEF Right
    <3>4. MayFollow(items, r)
      <4> SUFFICES ASSUME NEW j \in Items, items[j].state \in TERMINAL_STATES, r[j].state # items[j].state
                   PROVE  \/ items[j].state = "failed" /\ r[j].state = "completed" /\ j \in finished
                          \/ items[j].state = "cancelled" /\ \E m \in DOMAIN txs : txs[m].item = j
        BY DEF MayFollow
      <4>1. CASE j = i
        <5>1. q[i].state # items[i].state
          BY <1>7, <4>1 DEF TERMINAL_STATES
        <5>2. QED
          BY <1>7, <3>1, <4>1, <5>1 DEF MayFollow
      <4>2. CASE j # i
        BY <2>12, <3>1, <4>2 DEF MayFollow
      <4>3. QED
        BY <4>1, <4>2
    <3>5. QED
      BY <2>12, <3>2, <3>3, <3>4 DEF FitQ
  <2>14. PICK ws : Script(p, ws) /\ (\/ ws = <<WItems(q), patchDispatchTx(r, t)>>
                                     \/ ws = <<WItems(q), WTxs(t), WItems(r)>>)
    BY <2>1, <2>4, <2>11 DEF occupyDispatch
  <2>15. Fits(ws) /\ QueuesOf(ws) = {q, r} /\ TxsOf(ws) = {t}
    <3>1. CASE ws = <<WItems(q), patchDispatchTx(r, t)>>
      BY <1>3, <2>6, <2>13, <3>1, OccupyScript
    <3>2. CASE ws = <<WItems(q), WTxs(t), WItems(r)>>
      BY <1>3, <2>6, <2>13, <3>2, OpenScript
    <3>3. QED
      BY <2>14, <3>1, <3>2
  <2>16. PICK y : y = [job[p] EXCEPT !.at = "slot", !.item = i, !.tx = n, !.ran = {}, !.ok = FALSE,
                                     !.sent = "none"]
    OBVIOUS
  <2>17. job' = [job EXCEPT ![p] = y]
    BY <1>7, <2>3, <2>16 DEF PickOpened
  <2>18. y \in Job /\ y.at = "slot" /\ y.item = i /\ y.tx = n /\ ~y.ok /\ y.sent = "none"
    <3>1. job[p] \in Job
      BY JobLaw
    <3>2. n \in 0..MaxTx
      BY <2>6, BoundAssumption
    <3>3. QED
      BY <2>16, <3>1, <3>2 DEF Job
  <2>19. job' \in [Procs -> Job] /\ job'[p] = y
    BY <2>17, <2>18 DEF QueueInv, TypeOK
  <2>20. JobOk(p)'
    BY <2>6, <2>18, <2>19 DEF JobOk, Owning
  <2>21. \A j \in Items : Over(j) => KeptIn(ws, j) /\ j # i
    <3> SUFFICES ASSUME NEW j \in Items, Over(j) PROVE KeptIn(ws, j) /\ j # i
      OBVIOUS
    <3>1. j # i
      BY <1>3, <1>7
    <3>2. OverIn(q, j) /\ OverIn(r, j)
      BY <1>3, <2>12, <3>1 DEF OverIn
    <3>3. QED
      BY <2>6, <2>15, <3>1, <3>2 DEF KeptIn
  <2>22. \A u \in LastTxs(ws) : n \in OpenIn(u) /\ u[n].item = i /\ AllRefused(u, {n})
    BY <2>6, <2>15 DEF LastTxs
  <2>23. \A u \in {items} \cup QueuesOf(ws) : u[i].state \notin {"completed", "failed", "absent"}
    BY <1>3, <1>7, <2>9, <2>12, <2>15
  <2>24. QED
    BY <1>1, <1>3, <2>14, <2>15, <2>18, <2>19, <2>20, <2>21, <2>22, <2>23, ScriptStep
<1>8. \/ PickNothing(p, q)
      \/ \E i \in Candidates(p) :
           /\ q[i].state = "ready"
           /\ PickRejected(p, q, i) \/ PickRefused(p, q, i) \/ PickOpened(p, q, i)
  BY <1>2 DEF Pick
<1>9. QED
  BY <1>4, <1>5, <1>6, <1>7, <1>8 DEF PickNothing, PickRefused

-----------------------------------------------------------------------------
(* The end of a dispatch. *)

(* A process changes the state of its own item: nothing that is over is touched. *)
LEMMA OwnItemLaw ==
  ASSUME QueueInv, NEW p \in Procs, Free, job[p].at \in Owning, NEW x \in Item,
         x.state = "completed" =>
           job[p].item \in finished /\ (job[p].item \in Delivered => job[p].item \in shown)
  PROVE  LET q == [items EXCEPT ![job[p].item] = x] IN
         /\ FitQ(q) /\ q[job[p].item] = x
         /\ \A i \in Items : Over(i) => OverIn(q, i)
<1>1. items \in Queues /\ Right(items) /\ MayFollow(items, items)
  BY DEF QueueInv, TypeOK, QueuesOk, MayFollow
<1>2. PICK i \in Items : i = job[p].item
  BY OwnLaw
<1>3. \E n \in DOMAIN txs : txs[n].item = i
  BY <1>2, OwnLaw
<1>4. items[i].state \notin {"completed", "failed", "absent"}
  BY <1>2, JobLaw DEF OwnOk
<1>5. PICK q : q = [items EXCEPT ![i] = x]
  OBVIOUS
<1>6. FitQ(q)
  BY <1>1, <1>2, <1>3, <1>4, <1>5, ChangeLaw
<1>7. q[i] = x /\ \A j \in Items : j # i => q[j] = items[j]
  BY <1>1, <1>5 DEF Queues
<1>8. \A j \in Items : Over(j) => OverIn(q, j)
  <2> SUFFICES ASSUME NEW j \in Items, Over(j) PROVE OverIn(q, j)
    OBVIOUS
  <2>1. OverIn(items, j) /\ j # i
    BY <1>2 DEF Over
  <2>2. QED
    BY <1>7, <2>1 DEF OverIn
<1>9. QED
  BY <1>2, <1>5, <1>6, <1>7, <1>8

(* It closes its transaction, and leaves none behind that was not refused. *)
LEMMA OwnCloseLaw ==
  ASSUME QueueInv, NEW p \in Procs, Free, job[p].at \in Owning,
         NEW phase \in {"settled", "killed", "reconciled-orphan"},
         NEW l, ledger \subseteq l,
         phase = "settled" => \A s \in txs[job[p].tx].segs : Wall(job[p].tx, s) \in l
  PROVE  LET t == Closed(txs, job[p].tx, phase) IN
         /\ FitT(t) /\ Settles(t, l) /\ AllRefused(t, {})
         /\ \A i : Over(i) => \A m \in OpenIn(t) : t[m].item = i => t[m].refused
<1>1. PICK n : n = job[p].tx
  OBVIOUS
<1>2. n \in DOMAIN txs /\ AllRefused(txs, {n})
  BY <1>1, OwnLaw
<1>3. PICK t : t = Closed(txs, n, phase)
  OBVIOUS
<1>4. /\ FitT(t) /\ Settles(t, l) /\ OpenIn(t) = OpenIn(txs) \ {n}
      /\ \A m \in DOMAIN txs : t[m].refused = txs[m].refused
      /\ \A i : Over(i) => \A m \in OpenIn(t) : t[m].item = i => t[m].refused
  <2>1. phase \in Phases /\ phase # "open"
    BY DEF Phases
  <2>2. phase = "settled" => \A s \in txs[n].segs : Wall(n, s) \in l
    BY <1>1
  <2>3. QED
    BY <1>2, <1>3, <2>1, <2>2, CloseLaw
<1>5. AllRefused(t, {})
  BY <1>2, <1>4 DEF AllRefused, OpenIn
<1>6. QED
  BY <1>1, <1>3, <1>4, <1>5

(* What a script of one queue and one list keeps. *)
LEMMA KeepsLaw ==
  ASSUME NEW ws,
         \A q \in QueuesOf(ws) : \A i \in Items : Over(i) => OverIn(q, i),
         \A t \in TxsOf(ws) :
           \A i : Over(i) => \A m \in OpenIn(t) : t[m].item = i => t[m].refused
  PROVE  \A i \in Items : Over(i) => KeptIn(ws, i)
  BY DEF KeptIn

LEMMA FailedItem ==
  /\ [state |-> "failed", why |-> "other"] \in Item
  /\ [state |-> "failed", why |-> "delivery"] \in Item
  BY DEF Item, ITEM_STATES, TERMINAL_STATES, Reasons

LEMMA YieldStep ==
  ASSUME QueueInv, NEW p \in Procs, Yield(p)
  PROVE  QueueInv'
<1>1. /\ Is(p, "yield") /\ Quit(p)
      /\ UNCHANGED <<env_vars, store_vars, slot, shown, finished>>
  BY DEF Yield
<1>2. Free /\ job[p].at \in Owning /\ job[p].at # "driving"
  BY <1>1 DEF Is, Owning
<1>3. PICK t : t = Closed(txs, job[p].tx, "reconciled-orphan")
  OBVIOUS
<1>4. /\ FitT(t) /\ Settles(t, ledger)
      /\ \A i : Over(i) => \A m \in OpenIn(t) : t[m].item = i => t[m].refused
  BY <1>2, <1>3, OwnCloseLaw
<1>5. PICK q : q = SetItem(items, job[p].item, "failed", "other")
  OBVIOUS
<1>6. FitQ(q) /\ \A i \in Items : Over(i) => OverIn(q, i)
  BY <1>2, <1>5, FailedItem, OwnItemLaw DEF SetItem
<1>7. PICK ws : Script(p, ws) /\ (ws = <<patchDispatchTx(q, t)>> \/ ws = <<WTxs(t), WItems(q)>>)
  BY <1>3, <1>5 DEF Yield
<1>8. Fits(ws) /\ QueuesOf(ws) = {q} /\ TxsOf(ws) = {t}
  BY <1>4, <1>6, <1>7, PatchScript, YieldScript
<1>9. \A i \in Items : Over(i) => KeptIn(ws, i)
  BY <1>4, <1>6, <1>8, KeepsLaw
<1>10. job' \in [Procs -> Job] /\ job'[p] = Idle /\ job'[p].at = "idle"
  BY <1>1, QuitLaw
<1>11. script.writes = <<>>
  BY <1>2, FreeLaw DEF QueueInv
<1>12. QED
  BY <1>1, <1>2, <1>7, <1>8, <1>9, <1>10, <1>11, IdleOk, ScriptStep

LEMMA FailingStep ==
  ASSUME QueueInv, NEW p \in Procs, Failing(p)
  PROVE  QueueInv'
<1>1. /\ Is(p, "failing") /\ UNCHANGED <<env_vars, store_vars, slot, shown, finished>>
  BY DEF Failing
<1>2. Free /\ job[p].at \in Owning /\ job[p].at # "driving" /\ script.writes = <<>>
  BY <1>1, FreeLaw DEF Is, Owning, QueueInv
<1>3. PICK n : n = job[p].tx
  OBVIOUS
<1>4. n \in DOMAIN txs /\ n \in OpenIn(txs) /\ txs[n].item = job[p].item /\ job[p].item \in Items
      /\ AllRefused(txs, {n})
  BY <1>2, <1>3, OwnLaw DEF OpenIn
<1>5. PICK r : r = SetItem(items, job[p].item, "failed", "other")
  OBVIOUS
<1>6. FitQ(r) /\ OverIn(r, job[p].item) /\ \A i \in Items : Over(i) => OverIn(r, i)
  <2>1. /\ FitQ(r) /\ r[job[p].item] = [state |-> "failed", why |-> "other"]
        /\ \A i \in Items : Over(i) => OverIn(r, i)
    BY <1>2, <1>5, FailedItem, OwnItemLaw DEF SetItem
  <2>2. QED
    BY <2>1 DEF OverIn, TERMINAL_STATES
<1>7. PICK q : q = Now(r)
  OBVIOUS
<1>8. FitQ(q) /\ OverIn(q, job[p].item) /\ \A i \in Items : Over(i) => OverIn(q, i)
  <2>1. r \in Queues /\ Right(r) /\ MayFollow(items, r) /\ q = Refresh(r, Disk, 0)
    BY <1>6, <1>7 DEF FitQ, Now
  <2>2. q \in Queues /\ Right(q) /\ MayFollow(items, q)
    BY <2>1, RefreshLaw, RefreshKeeps
  <2>3. \A i \in Items : OverIn(r, i) => OverIn(q, i)
    BY <2>1, RefreshFits
  <2>4. QED
    BY <1>4, <1>6, <2>2, <2>3 DEF FitQ
<1>9. ASSUME store = "sqlite" PROVE QueueInv'
  <2>1. PICK absent \in SUBSET txs[n].segs :
          Script(p, <<settleDispatch(q, n, "settled", Charge(ledger, Spent(n, absent)))>>)
    BY <1>3, <1>5, <1>7, <1>9 DEF Failing
  <2>2. PICK l : l = Charge(ledger, Spent(n, absent))
    OBVIOUS
  <2>3. FitL(l) /\ ledger \subseteq l /\ \A s \in txs[n].segs : Wall(n, s) \in l
    BY <1>4, <2>2, SpentLaw DEF FitL, Charge, QueueInv, TypeOK
  <2>4. PICK t : t = Closed(txs, n, "settled")
    OBVIOUS
  <2>5. /\ FitT(t) /\ Settles(t, l) /\ AllRefused(t, {})
        /\ \A i : Over(i) => \A m \in OpenIn(t) : t[m].item = i => t[m].refused
    BY <1>2, <1>3, <2>3, <2>4, OwnCloseLaw
  <2>6. PICK ws : ws = <<settleDispatch(q, n, "settled", l)>>
    OBVIOUS
  <2>7. Fits(ws) /\ QueuesOf(ws) = {q} /\ TxsOf(ws) = {t}
    BY <1>8, <2>3, <2>4, <2>5, <2>6, SettleScript
  <2>8. \A i \in Items : Over(i) => KeptIn(ws, i)
    BY <1>8, <2>5, <2>7, KeepsLaw
  <2>9. To(p, "clear")
    BY <1>9 DEF Failing
  <2>10. /\ job' \in [Procs -> Job] /\ job'[p].at = "clear"
         /\ job'[p].item = job[p].item /\ job'[p].tx = job[p].tx
         /\ job'[p].ok = job[p].ok /\ job'[p].sent = job[p].sent
    BY <2>9, JobLaw, ToLaw
  <2>11. JobOk(p)'
    BY <1>1, <1>2, <2>10, JobLaw DEF Is, JobOk, Owning
  <2>12. \A u \in LastTxs(ws) : AllRefused(u, {})
    BY <2>5, <2>7 DEF LastTxs
  <2>13. QED
    BY <1>1, <1>2, <2>1, <2>2, <2>6, <2>7, <2>8, <2>10, <2>11, <2>12, ScriptStep
<1>10. ASSUME store # "sqlite" PROVE QueueInv'
  <2>1. To(p, "fail-settle") /\ Script(p, <<WItems(q)>>) /\ store = "json"
    BY <1>5, <1>7, <1>10 DEF Failing, QueueInv, TypeOK
  <2>2. PICK ws : ws = <<WItems(q)>>
    OBVIOUS
  <2>3. Fits(ws) /\ QueuesOf(ws) = {q} /\ TxsOf(ws) = {}
    BY <1>8, <2>2, ItemsScript
  <2>4. \A i \in Items : Over(i) => KeptIn(ws, i)
    BY <1>8, <2>3, KeepsLaw
  <2>5. /\ job' \in [Procs -> Job] /\ job'[p].at = "fail-settle"
        /\ job'[p].item = job[p].item /\ job'[p].tx = job[p].tx
        /\ job'[p].ok = job[p].ok /\ job'[p].sent = job[p].sent
    BY <2>1, JobLaw, ToLaw
  <2>6. JobOk(p)'
    BY <1>1, <1>2, <2>5, JobLaw DEF Is, JobOk, Owning
  <2>7. \A u \in LastTxs(ws) : /\ job'[p].tx \in OpenIn(u) /\ u[job'[p].tx].item = job'[p].item
                               /\ AllRefused(u, {job'[p].tx})
    BY <1>3, <1>4, <2>3, <2>5 DEF LastTxs
  <2>8. QueuesOf(ws) # {} /\ \A u \in QueuesOf(ws) : OverIn(u, job'[p].item)
    BY <1>8, <2>3, <2>5
  <2>9. QED
    BY <1>1, <1>2, <2>1, <2>2, <2>3, <2>4, <2>5, <2>6, <2>7, <2>8, ScriptStep
<1>11. QED
  BY <1>9, <1>10

LEMMA AbortStep ==
  ASSUME QueueInv, NEW p \in Procs, AbortDelivery(p)
  PROVE  QueueInv'
<1>1. /\ Is(p, "abort") /\ Quit(p) /\ UNCHANGED <<env_vars, store_vars, slot, shown, finished>>
  BY DEF AbortDelivery
<1>2. Free /\ job[p].at \in Owning /\ job[p].at # "driving" /\ script.writes = <<>>
  BY <1>1, FreeLaw DEF Is, Owning, QueueInv
<1>3. PICK n : n = job[p].tx
  OBVIOUS
<1>4. n \in DOMAIN txs
  BY <1>2, <1>3, OwnLaw
<1>5. PICK q : q = SetItem(items, job[p].item, "failed", "delivery")
  OBVIOUS
<1>6. FitQ(q) /\ \A i \in Items : Over(i) => OverIn(q, i)
  BY <1>2, <1>5, FailedItem, OwnItemLaw DEF SetItem
<1>7. PICK absent \in SUBSET txs[n].segs :
        LET charged == Charge(ledger, Spent(n, absent))
            all == Charge(charged, DeliveryWall(n))
            closed == Closed(txs, n, "killed")
        IN  Script(p, IF items[job[p].item].state \in TERMINAL_STATES
                      THEN <<WLedger(charged), WLedger(all), WTxs(closed)>>
                      ELSE <<WItems(SetItem(items, job[p].item, "failed", "delivery")),
                             WLedger(charged), WLedger(all), WTxs(closed)>>)
  BY <1>3 DEF AbortDelivery
<1>8. PICK l, e : l = Charge(ledger, Spent(n, absent)) /\ e = Charge(l, DeliveryWall(n))
  OBVIOUS
<1>9. FitL(l) /\ FitL(e) /\ l \subseteq e /\ ledger \subseteq e
  BY <1>4, <1>8, SpentLaw DEF FitL, Charge, QueueInv, TypeOK
<1>10. PICK t : t = Closed(txs, n, "killed")
  OBVIOUS
<1>11. /\ FitT(t) /\ Settles(t, e)
       /\ \A i : Over(i) => \A m \in OpenIn(t) : t[m].item = i => t[m].refused
  BY <1>2, <1>3, <1>9, <1>10, OwnCloseLaw
<1>12. PICK ws : Script(p, ws) /\ (\/ ws = <<WLedger(l), WLedger(e), WTxs(t)>>
                                   \/ ws = <<WItems(q), WLedger(l), WLedger(e), WTxs(t)>>)
  BY <1>5, <1>7, <1>8, <1>10
<1>13. Fits(ws) /\ QueuesOf(ws) \subseteq {q} /\ TxsOf(ws) = {t}
  <2>1. CASE ws = <<WLedger(l), WLedger(e), WTxs(t)>>
    BY <1>9, <1>11, <2>1, DeliveryScript
  <2>2. CASE ws = <<WItems(q), WLedger(l), WLedger(e), WTxs(t)>>
    BY <1>6, <1>9, <1>11, <2>2, AbortScript
  <2>3. QED
    BY <1>12, <2>1, <2>2
<1>14. \A i \in Items : Over(i) => KeptIn(ws, i)
  BY <1>6, <1>11, <1>13, KeepsLaw
<1>15. job' \in [Procs -> Job] /\ job'[p] = Idle /\ job'[p].at = "idle"
  BY <1>1, QuitLaw
<1>16. QED
  BY <1>1, <1>2, <1>12, <1>13, <1>14, <1>15, IdleOk, ScriptStep

(* What the run makes of its item. *)
LEMMA OutcomeLaw ==
  ASSUME QueueInv, NEW p \in Procs, Is(p, "conclude")
  PROVE  FitQ(Outcome(p)) /\ \A i \in Items : Over(i) => OverIn(Outcome(p), i)
<1>1. Free /\ job[p].at \in Owning /\ job[p].at = "conclude"
  BY DEF Is, Owning
<1>2. PICK i \in Items : i = job[p].item
  BY <1>1, OwnLaw
<1>3. items \in Queues /\ items[i] \in Item /\ job[p] \in Job
  BY JobLaw DEF QueueInv, TypeOK, Queues
<1>4. CASE job[p].ok /\ job[p].sent # "unmet"
  <2>1. PICK x : x = [items[i] EXCEPT !.state = "completed"]
    OBVIOUS
  <2>2. x \in Item /\ x.state = "completed"
    BY <1>3, <2>1 DEF Item, ITEM_STATES, TERMINAL_STATES
  <2>3. i \in finished /\ (i \in Delivered => i \in shown)
    <3>1. job[p].sent \in {"ok", "unmet", "none"}
      BY <1>3 DEF Job
    <3>2. /\ job[p].ok => i \in finished
          /\ job[p].sent = "ok" => i \in shown
          /\ job[p].ok /\ i \in Delivered => job[p].sent # "none"
      BY <1>1, <1>2, JobLaw DEF JobOk
    <3>3. QED
      BY <1>4, <3>1, <3>2
  <2>4. PICK q : q = [items EXCEPT ![i] = x]
    OBVIOUS
  <2>5. FitQ(q) /\ \A j \in Items : Over(j) => OverIn(q, j)
    BY <1>1, <1>2, <2>2, <2>3, <2>4, OwnItemLaw
  <2>6. Outcome(p) = q
    BY <1>2, <1>4, <2>1, <2>4 DEF Outcome, Completed
  <2>7. QED
    BY <2>5, <2>6
<1>5. CASE job[p].ok /\ job[p].sent = "unmet"
  <2>1. PICK q : q = [items EXCEPT ![i] = [state |-> "failed", why |-> "delivery"]]
    OBVIOUS
  <2>2. FitQ(q) /\ \A j \in Items : Over(j) => OverIn(q, j)
    BY <1>1, <1>2, <2>1, FailedItem, OwnItemLaw
  <2>3. Outcome(p) = q
    BY <1>2, <1>5, <2>1 DEF Outcome, SetItem
  <2>4. QED
    BY <2>2, <2>3
<1>6. CASE ~job[p].ok
  <2>1. PICK x : x = [items[i] EXCEPT !.state = "ready"]
    OBVIOUS
  <2>2. x \in Item /\ x.state = "ready"
    BY <1>3, <2>1 DEF Item, ITEM_STATES
  <2>3. PICK q : q = [items EXCEPT ![i] = x]
    OBVIOUS
  <2>4. FitQ(q) /\ \A j \in Items : Over(j) => OverIn(q, j)
    BY <1>1, <1>2, <2>2, <2>3, OwnItemLaw
  <2>5. Outcome(p) = q
    BY <1>2, <1>6, <2>1, <2>3 DEF Outcome
  <2>6. QED
    BY <2>4, <2>5
<1>7. QED
  BY <1>4, <1>5, <1>6

LEMMA ConcludeStep ==
  ASSUME QueueInv, NEW p \in Procs, Conclude(p)
  PROVE  QueueInv'
<1>1. /\ Is(p, "conclude") /\ To(p, "final")
      /\ UNCHANGED <<env_vars, store_vars, slot, shown, finished>>
  BY DEF Conclude
<1>2. Free /\ job[p].at \in Owning /\ job[p].at # "driving" /\ script.writes = <<>>
  BY <1>1, FreeLaw DEF Is, Owning, QueueInv
<1>3. PICK n : n = job[p].tx
  OBVIOUS
<1>4. n \in DOMAIN txs
  BY <1>2, <1>3, OwnLaw
<1>5. PICK phase \in {"settled", "killed"} : phase = IF job[p].ok THEN "settled" ELSE "killed"
  OBVIOUS
<1>6. PICK absent \in SUBSET txs[n].segs :
        LET charged == Charge(ledger, Spent(n, absent))
            all == IF job[p].item \in Delivered THEN Charge(charged, DeliveryWall(n)) ELSE charged
            closed == Closed(txs, n, phase)
        IN  Script(p, IF store = "sqlite"
                      THEN <<settleDispatch(Refresh(Outcome(p), Disk, n), n, phase, all)>>
                      ELSE <<WLedger(charged), WLedger(all), WTxs(closed),
                             WItems(Refresh(Outcome(p), After(closed, all), 0))>>)
  BY <1>3, <1>5 DEF Conclude
<1>7. PICK l : l = Charge(ledger, Spent(n, absent))
  OBVIOUS
<1>8. PICK e : e = IF job[p].item \in Delivered THEN Charge(l, DeliveryWall(n)) ELSE l
  OBVIOUS
<1>9. /\ FitL(l) /\ FitL(e) /\ l \subseteq e /\ ledger \subseteq e
      /\ \A s \in txs[n].segs : Wall(n, s) \in e
  BY <1>4, <1>7, <1>8, SpentLaw DEF FitL, Charge, QueueInv, TypeOK
<1>10. PICK t : t = Closed(txs, n, phase)
  OBVIOUS
<1>11. /\ FitT(t) /\ Settles(t, e) /\ AllRefused(t, {})
       /\ \A i : Over(i) => \A m \in OpenIn(t) : t[m].item = i => t[m].refused
  BY <1>2, <1>3, <1>5, <1>9, <1>10, OwnCloseLaw
<1>12. PICK f, but : Script(p, IF store = "sqlite"
                              THEN <<settleDispatch(Refresh(Outcome(p), f, but), n, phase, e)>>
                              ELSE <<WLedger(l), WLedger(e), WTxs(t),
                                     WItems(Refresh(Outcome(p), f, but))>>)
  <2>1. CASE store = "sqlite"
    BY <1>6, <1>7, <1>8, <1>10, <2>1
  <2>2. CASE store # "sqlite"
    BY <1>6, <1>7, <1>8, <1>10, <2>2
  <2>3. QED
    BY <2>1, <2>2
<1>13. PICK q : q = Refresh(Outcome(p), f, but)
  OBVIOUS
<1>14. FitQ(q) /\ \A i \in Items : Over(i) => OverIn(q, i)
  <2>1. PICK r : r = Outcome(p)
    OBVIOUS
  <2>2. FitQ(r) /\ \A i \in Items : Over(i) => OverIn(r, i)
    BY <1>1, <2>1, OutcomeLaw
  <2>3. r \in Queues /\ Right(r) /\ MayFollow(items, r) /\ q = Refresh(r, f, but)
    BY <1>13, <2>1, <2>2 DEF FitQ
  <2>4. q \in Queues /\ Right(q) /\ MayFollow(items, q) /\ \A i \in Items : OverIn(r, i) => OverIn(q, i)
    BY <2>3, RefreshLaw, RefreshKeeps
  <2>5. QED
    BY <2>2, <2>4 DEF FitQ
<1>15. PICK ws : Script(p, ws) /\ (\/ ws = <<settleDispatch(q, n, phase, e)>>
                                   \/ ws = <<WLedger(l), WLedger(e), WTxs(t), WItems(q)>>)
  BY <1>12, <1>13
<1>16. Fits(ws) /\ QueuesOf(ws) = {q} /\ TxsOf(ws) = {t}
  <2>1. CASE ws = <<settleDispatch(q, n, phase, e)>>
    BY <1>9, <1>10, <1>11, <1>14, <2>1, SettleScript
  <2>2. CASE ws = <<WLedger(l), WLedger(e), WTxs(t), WItems(q)>>
    BY <1>9, <1>11, <1>14, <2>2, ConcludeScript
  <2>3. QED
    BY <1>15, <2>1, <2>2
<1>17. \A i \in Items : Over(i) => KeptIn(ws, i)
  BY <1>11, <1>14, <1>16, KeepsLaw
<1>18. /\ job' \in [Procs -> Job] /\ job'[p].at = "final"
       /\ job'[p].item = job[p].item /\ job'[p].tx = job[p].tx
       /\ job'[p].ok = job[p].ok /\ job'[p].sent = job[p].sent
  BY <1>1, JobLaw, ToLaw
<1>19. JobOk(p)'
  BY <1>1, <1>2, <1>18, JobLaw DEF Is, JobOk, Owning
<1>20. \A u \in LastTxs(ws) : AllRefused(u, {})
  BY <1>11, <1>16 DEF LastTxs
<1>21. QED
  BY <1>1, <1>2, <1>15, <1>16, <1>17, <1>18, <1>19, <1>20, ScriptStep

LEMMA CatchStep ==
  ASSUME QueueInv, NEW p \in Procs, Catch(p)
  PROVE  QueueInv'
<1>1. /\ Is(p, "catch") /\ Quit(p) /\ UNCHANGED <<env_vars, store_vars, slot, shown, finished>>
  BY DEF Catch
<1>2. Free /\ job[p].at \in Owning /\ job[p].at # "driving" /\ script.writes = <<>>
  BY <1>1, FreeLaw DEF Is, Owning, QueueInv
<1>3. PICK i \in Items : i = job[p].item
  BY <1>2, OwnLaw
<1>4. PICK x : x = [items[i] EXCEPT !.state = "ready"]
  OBVIOUS
<1>5. x \in Item /\ x.state = "ready"
  <2>1. items[i] \in Item
    BY DEF QueueInv, TypeOK, Queues
  <2>2. QED
    BY <1>4, <2>1 DEF Item, ITEM_STATES
<1>6. PICK q : q = [items EXCEPT ![i] = x]
  OBVIOUS
<1>7. FitQ(q) /\ \A j \in Items : Over(j) => OverIn(q, j)
  BY <1>2, <1>3, <1>5, <1>6, OwnItemLaw
<1>8. PICK ws : Script(p, ws) /\ (ws = <<>> \/ ws = <<WItems(q)>>)
  BY <1>3, <1>4, <1>6 DEF Catch
<1>9. Fits(ws) /\ QueuesOf(ws) \subseteq {q} /\ TxsOf(ws) = {}
  BY <1>7, <1>8, ItemsScript, NoneScript
<1>10. \A j \in Items : Over(j) => KeptIn(ws, j)
  BY <1>7, <1>9, KeepsLaw
<1>11. job' \in [Procs -> Job] /\ job'[p] = Idle /\ job'[p].at = "idle"
  BY <1>1, QuitLaw
<1>12. QED
  BY <1>1, <1>2, <1>8, <1>9, <1>10, <1>11, IdleOk, ScriptStep
-----------------------------------------------------------------------------
(* Every step, and the theorems. *)

LEMMA WorkStep ==
  ASSUME QueueInv, NEW p \in Procs, Work(p)
  PROVE  QueueInv'
  BY AbortStep, BindAndDriveStep, CatchStep, ClearStep, ConcludeStep, DeliverStep, DispatchStep,
     DriveEndsStep, DriveThrowsStep, FailChargeStep, FailSettleStep, FailingStep, FinalStep, FinishStep, MarkStep,
     PickStep, ReadSlotStep, ReconcileTxStep, ReconciledStep, RecordStep, RegisterStep,
     ResetSlotStep, SegmentStep, StartStep, YieldStep DEF Work

LEMMA InitLaw == Init /\ Serial => QueueInv
<1> SUFFICES ASSUME Init, Serial PROVE QueueInv
  OBVIOUS
<1>1. /\ items = NoQueue /\ txs = <<>> /\ ledger = {} /\ slot = None /\ lease = None /\ shown = {}
      /\ finished = {} /\ script = NoScript /\ \A p \in Procs : job[p] = Idle
  BY DEF Init
<1>2. NoScript \in Scripts /\ script.by = None /\ script.writes = <<>> /\ NoQueue \in Queues
  BY <1>1, NoScriptLaw
<1>3. TypeOK
  <2>1. Idle \in Job
    BY BoundAssumption DEF Idle, Job
  <2>2. job \in [Procs -> Job]
    BY <2>1 DEF Init
  <2>3. <<>> \in TxLists
    BY BoundAssumption DEF TxLists
  <2>4. store \in {"json", "sqlite"} /\ limits \in [wall : WallLimits, points : BOOLEAN]
        /\ approved = {} /\ acked = {}
    BY StoreAssumption DEF Init
  <2>5. QED
    BY <1>1, <1>2, <2>2, <2>3, <2>4 DEF TypeOK
<1>4. QueuesOf(script.writes) = {} /\ TxsOf(script.writes) = {} /\ LedgersOf(script.writes) = {}
  BY <1>2, NoWritesLaw
<1>5. LockOk
  BY <1>1, <1>2, OtherAssumption DEF LockOk, Idle
<1>6. GoalsOk /\ LeaseOk
  BY <1>1, OtherAssumption DEF GoalsOk, LeaseOk
<1>7. QueuesOk
  BY <1>1, <1>2, <1>4 DEF QueuesOk, QueuesFit, Right, NoQueue
<1>8. TxsOk
  BY <1>1, <1>4 DEF TxsOk, TxsFit, WereReady, Once, OpenIn
<1>9. ChargeOk /\ LedgersFit(script.writes)
  BY <1>1, <1>2, <1>4 DEF ChargeOk, SettledFit, LedgersFit
<1>10. MemoryOk
  BY <1>1 DEF MemoryOk, Idle
<1>11. \A p \in Procs : JobOk(p) /\ OwnOk(p)
  BY <1>1 DEF JobOk, OwnOk, Idle, Owning, Past
<1>12. QED
  BY <1>3, <1>5, <1>6, <1>7, <1>8, <1>9, <1>10, <1>11 DEF QueueInv

LEMMA StutterStep ==
  ASSUME QueueInv, UNCHANGED vars
  PROVE  QueueInv'
<1>1. UNCHANGED <<store, items, txs, ledger, script, job, finished>> /\ shown \subseteq shown'
  BY DEF vars
<1>2. TypeOK'
  BY DEF vars, QueueInv, TypeOK
<1>3. GoalsOk' /\ LeaseOk'
  BY DEF vars, QueueInv, GoalsOk, LeaseOk
<1>4. \A p \in Procs : JobOk(p)'
  BY DEF vars, QueueInv, JobOk
<1>5. QED
  BY <1>1, <1>2, <1>3, <1>4, OthersStep

LEMMA StepLaw == QueueInv /\ [Next]_vars => QueueInv'
<1> SUFFICES ASSUME QueueInv, [Next]_vars PROVE QueueInv'
  OBVIOUS
<1>1. CASE UNCHANGED vars
  BY <1>1, StutterStep
<1>2. CASE DiskWrite
  BY <1>2, WriteStep
<1>3. ASSUME NEW p \in Procs, Work(p) \/ Kill(p) PROVE QueueInv'
  BY <1>3, WorkStep, KillStep
<1>4. ASSUME NEW i \in Items,
             AddQueueItem(i) \/ CancelQueueItem(i) \/ Authorize(i) \/ DeliverByHand(i)
      PROVE  QueueInv'
  BY <1>4, PeopleStep, QueueStep
<1>5. CASE RefreshQueue \/ ResumePoints \/ LeaseExpires \/ PersonUsesSlot
  BY <1>5, PeopleStep, QueueStep
<1>6. QED
  BY <1>1, <1>2, <1>3, <1>4, <1>5 DEF Next

(* The invariant holds in every run in which one process dispatches. *)
THEOREM InvariantHolds == ASSUME Serial PROVE Spec => []QueueInv
<1>1. Serial /\ Init => QueueInv
  BY InitLaw
<1>2. QueueInv /\ [Next]_vars => QueueInv'
  BY StepLaw
<1>3. Serial
  OBVIOUS
<1>4. QED
  BY <1>1, <1>2, <1>3, PTL DEF Spec

(* The files and the processes have their types, whatever is killed and however far its
   script has been written (src/core/queue.js:170, src/core/statedb.js). *)
THEOREM TypesHold == ASSUME Serial PROVE Spec => []TypeOK
<1>1. QueueInv => TypeOK
  BY DEF QueueInv
<1>2. QED
  BY <1>1, InvariantHolds, PTL

(* An item counts as completed only if its goal was done and every endpoint it declares was
   delivered, however its drive ended and whatever is killed or reconciled in between, with
   one dispatcher at a time (src/core/queue.js:1534). *)
THEOREM CompletedItemsAreDone == ASSUME Serial PROVE Spec => []CompletedIsDone
<1>1. QueueInv => CompletedIsDone
  BY DEF QueueInv, QueuesOk, Right, CompletedIsDone
<1>2. QED
  BY <1>1, InvariantHolds, PTL

(* Of two open transactions the gate refused the older, a drive runs under its own open one,
   and everything it depends on is completed for good: with one dispatcher at a time, each
   of which takes over what a killed one left (src/core/queue.js:1313). *)
THEOREM DispatchIsInOrder == ASSUME Serial PROVE Spec => []DispatchedInOrder
<1>1. QueueInv => DispatchedInOrder
  <2> SUFFICES ASSUME QueueInv PROVE DispatchedInOrder
    OBVIOUS
  <2>1. Once(txs) /\ WereReady(txs)
    BY DEF QueueInv, TxsOk
  <2>2. DepsFirst
    BY <2>1 DEF WereReady, DepsFirst
  <2>3. ASSUME NEW p \in Procs, job[p].at = "driving" PROVE job[p].tx \in OpenTxs
    <3>1. Free
      BY <2>3, WorksFree
    <3>2. job[p].tx \in DOMAIN txs /\ txs[job[p].tx].phase = "open"
      BY <2>3, <3>1, OwnLaw DEF Owning
    <3>3. QED
      BY <3>2 DEF OpenTxs, OpenIn
  <2>4. QED
    BY <2>1, <2>2, <2>3 DEF Once, OpenTxs, ReconciledFirst, DispatchedInOrder
<1>2. QED
  BY <1>1, InvariantHolds, PTL

(* What a transaction recorded is in the ledger by the time it is settled, wherever its
   settlement was interrupted (src/core/queue.js:868). *)
THEOREM RecordedSessionsAreCharged == ASSUME Serial PROVE Spec => []RecordedIsCharged
<1>1. QueueInv => RecordedIsCharged
  <2> SUFFICES ASSUME QueueInv,
                      NEW n \in DOMAIN txs, txs[n].phase = "settled",
                      store = "sqlite" \/ items[txs[n].item].why # "other",
                      NEW s \in txs[n].segs
               PROVE  HasWall(n, s)
    BY DEF RecordedIsCharged
  <2>1. ~Over(txs[n].item)
    BY DEF Over, OverIn
  <2>2. QED
    BY <2>1 DEF QueueInv, ChargeOk, Wall, HasWall
<1>2. QED
  BY <1>1, InvariantHolds, PTL

(* An item that is over stays what it is, but for a failed one whose goal was done after all
   and a cancelled one that was dispatched (src/core/queue.js:723, 1534). *)
THEOREM TerminalStatesAreFinal == ASSUME Serial PROVE Spec => FinalKept
<1>1. QueueInv /\ [Next]_vars => [MayFollow(items, items')]_vars
  <2> SUFFICES ASSUME QueueInv, Next PROVE MayFollow(items, items')
    OBVIOUS
  <2>1. CASE DiskWrite
    BY <2>1, WriteStep
  <2>2. CASE (\E i \in Items : AddQueueItem(i) \/ CancelQueueItem(i)) \/ RefreshQueue
    BY <2>2, QueueStep
  <2>3. ASSUME NEW p \in Procs, Work(p) \/ Kill(p) PROVE items' = items
    BY <2>3 DEF Work, Kill, Dispatch, ReconcileTx, Reconciled, Pick, ReadSlot, Yield, ResetSlot,
         Register, Start, BindAndDrive, DriveEnds, DriveThrows, Record, Segment, Failing, FailSettle,
         FailCharge, Finish, Mark, Deliver, AbortDelivery, Conclude, Final, Clear, Catch, store_vars
  <2>4. ASSUME NEW i \in Items, Authorize(i) \/ DeliverByHand(i) PROVE items' = items
    BY <2>4 DEF Authorize, DeliverByHand, store_vars
  <2>5. ResumePoints \/ LeaseExpires \/ PersonUsesSlot => items' = items
    BY DEF ResumePoints, LeaseExpires, PersonUsesSlot, store_vars
  <2>6. items' = items => MayFollow(items, items')
    BY DEF MayFollow
  <2>7. QED
    BY <2>1, <2>2, <2>3, <2>4, <2>5, <2>6 DEF Next
<1>2. MayFollow(items, items') =>
        \A i \in Items :
          items[i].state \in TERMINAL_STATES /\ items'[i].state # items[i].state =>
            \/ items[i].state = "failed" /\ items'[i].state = "completed" /\ i \in finished
            \/ items[i].state = "cancelled" /\ \E n \in DOMAIN txs : txs[n].item = i
  BY DEF MayFollow
<1>3. QED
  BY <1>1, <1>2, InvariantHolds, PTL DEF Spec, FinalKept

-----------------------------------------------------------------------------
(* Sums over finite sets: the recursive function behind SumFunctionOnSet has *)
(* one solution, so that it adds up, in whatever order.                      *)

First(s) == CHOOSE x \in s : TRUE
Adds(g, f, S) == g = [s \in SUBSET S |-> IF s = {} THEN 0 ELSE f[First(s)] + g[s \ {First(s)}]]
Measures(f, S) == IsFiniteSet(S) /\ \A x \in S : f[x] \in Nat

LEMMA SumIs == ASSUME NEW f, NEW S PROVE SumFunctionOnSet(f, S) = (CHOOSE g : Adds(g, f, S))[S]
  BY DEF SumFunctionOnSet, FoldFunctionOnSet, MapThenFoldSet, Adds, First

(* In a finite set every set of sets has a smallest one. *)
LEMMA SmallestPart ==
  ASSUME NEW S, IsFiniteSet(S), NEW T, T \subseteq SUBSET S, T # {}
  PROVE  \E U \in T : \A V \in T : V \subseteq U => V = U
<1>1. IsWellFoundedOn(StrictSubsetOrdering(S), FiniteSubsetsOf(S))
  BY FS_StrictSubsetOrderingWellFounded
<1>2. T \subseteq FiniteSubsetsOf(S)
  BY FS_FiniteSubsetsOfFinite
<1>3. PICK U \in T : \A V \in T : ~(<<V, U>> \in StrictSubsetOrdering(S))
  BY <1>1, <1>2, WFMin
<1>4. \A V \in T : V \subseteq U => V = U
  <2> SUFFICES ASSUME NEW V \in T, V \subseteq U, V # U PROVE FALSE
    OBVIOUS
  <2>1. <<V, U>> \in (SUBSET S) \X (SUBSET S)
    OBVIOUS
  <2>2. <<V, U>> \in StrictSubsetOrdering(S)
    BY <2>1 DEF StrictSubsetOrdering
  <2> QED  BY <1>3, <2>2
<1> QED  BY <1>4

LEMMA FirstIn == ASSUME NEW S, S # {} PROVE First(S) \in S
  BY DEF First

LEMMA AddsAt ==
  ASSUME NEW g, NEW f, NEW S, Adds(g, f, S), NEW U \in SUBSET S
  PROVE  g[U] = IF U = {} THEN 0 ELSE f[First(U)] + g[U \ {First(U)}]
<1>1. g = [s \in SUBSET S |-> IF s = {} THEN 0 ELSE f[First(s)] + g[s \ {First(s)}]]
  BY DEF Adds
<1> QED  BY <1>1

LEMMA AddsUnique ==
  ASSUME NEW f, NEW S, IsFiniteSet(S), NEW g, NEW h, Adds(g, f, S), Adds(h, f, S)
  PROVE  g = h
<1> DEFINE T == {s \in SUBSET S : g[s] # h[s]}
<1>1. ASSUME T # {} PROVE FALSE
  <2>1. PICK U \in T : \A V \in T : V \subseteq U => V = U
    <3>1. T \subseteq SUBSET S
      OBVIOUS
    <3> HIDE DEF T
    <3> QED  BY <1>1, <3>1, SmallestPart
  <2>2. /\ g[U] = IF U = {} THEN 0 ELSE f[First(U)] + g[U \ {First(U)}]
        /\ h[U] = IF U = {} THEN 0 ELSE f[First(U)] + h[U \ {First(U)}]
    BY AddsAt
  <2>3. U # {} /\ First(U) \in U
    BY <2>2, FirstIn
  <2>4. U \ {First(U)} \notin T
    BY <2>1, <2>3
  <2>5. g[U \ {First(U)}] = h[U \ {First(U)}]
    BY <2>4
  <2> QED  BY <2>2, <2>3, <2>5
<1>2. \A s \in SUBSET S : g[s] = h[s]
  BY <1>1
<1>3. g = [s \in SUBSET S |-> g[s]] /\ h = [s \in SUBSET S |-> h[s]]
  BY DEF Adds
<1> QED  BY <1>2, <1>3

LEMMA AddsPart ==
  ASSUME NEW g, NEW f, NEW S, Adds(g, f, S), NEW U \in SUBSET S
  PROVE  Adds([s \in SUBSET U |-> g[s]], f, U)
<1> DEFINE h == [s \in SUBSET U |-> g[s]]
<1>1. \A s \in SUBSET U : g[s] = IF s = {} THEN 0 ELSE f[First(s)] + g[s \ {First(s)}]
  BY AddsAt
<1>2. \A s \in SUBSET U : h[s] = IF s = {} THEN 0 ELSE f[First(s)] + h[s \ {First(s)}]
  BY <1>1
<1>3. h = [s \in SUBSET U |-> IF s = {} THEN 0 ELSE f[First(s)] + h[s \ {First(s)}]]
  BY <1>2
<1> HIDE DEF h
<1>4. Adds(h, f, U)
  BY <1>3 DEF Adds
<1> QED  BY <1>4 DEF h

(* Where there is a solution, the sums of all parts are its values. *)
LEMMA SumsOf ==
  ASSUME NEW f, NEW S, IsFiniteSet(S), NEW g, Adds(g, f, S), NEW U \in SUBSET S
  PROVE  SumFunctionOnSet(f, U) = g[U]
<1> DEFINE h == [s \in SUBSET U |-> g[s]]
           k == CHOOSE e : Adds(e, f, U)
<1>1. Adds(h, f, U)
  BY AddsPart
<1>2. IsFiniteSet(U)
  BY FS_Subset
<1>3. h[U] = g[U]
  OBVIOUS
<1> HIDE DEF h
<1>4. Adds(k, f, U)
  BY <1>1
<1>5. SumFunctionOnSet(f, U) = k[U]
  BY SumIs
<1> HIDE DEF k
<1>6. k = h
  BY <1>1, <1>2, <1>4, AddsUnique
<1> QED  BY <1>3, <1>5, <1>6

LEMMA AddsExists ==
  ASSUME NEW f, NEW S, Measures(f, S)
  PROVE  \E g \in [SUBSET S -> Nat] : Adds(g, f, S)
<1> DEFINE Solved(U) == \E g \in [SUBSET U -> Nat] : Adds(g, f, U)
           T == {U \in SUBSET S : ~Solved(U)}
<1>0. IsFiniteSet(S) /\ \A x \in S : f[x] \in Nat
  BY DEF Measures
<1>1. ASSUME T # {} PROVE FALSE
  <2>1. PICK U \in T : \A V \in T : V \subseteq U => V = U
    <3>1. T \subseteq SUBSET S
      OBVIOUS
    <3> HIDE DEF T
    <3> QED  BY <1>0, <1>1, <3>1, SmallestPart
  <2> DEFINE Sum(s) == SumFunctionOnSet(f, s)
             G == [s \in SUBSET U |-> IF s = {} THEN 0 ELSE f[First(s)] + Sum(s \ {First(s)})]
  <2>2. U \in SUBSET S /\ ~Solved(U)
    BY <2>1
  <2>3. \A V \in SUBSET U : V # U => Solved(V)
    BY <2>1, <2>2
  <2>4. ASSUME NEW V \in SUBSET U, V # U
        PROVE  Sum(V) \in Nat /\ Sum(V) = IF V = {} THEN 0 ELSE f[First(V)] + Sum(V \ {First(V)})
    <3>1. PICK g \in [SUBSET V -> Nat] : Adds(g, f, V)
      BY <2>3, <2>4
    <3>2. IsFiniteSet(V)
      BY <1>0, <2>2, FS_Subset
    <3>3. \A W \in SUBSET V : Sum(W) = g[W]
      BY <3>1, <3>2, SumsOf
    <3>4. g[V] = IF V = {} THEN 0 ELSE f[First(V)] + g[V \ {First(V)}]
      BY <3>1, AddsAt
    <3>5. g[V] \in Nat /\ V \in SUBSET V /\ V \ {First(V)} \in SUBSET V
      BY <3>1
    <3> HIDE DEF Sum
    <3> QED  BY <3>3, <3>4, <3>5
  <2> HIDE DEF Sum
  <2>5. ASSUME NEW s \in SUBSET U, s # {}
        PROVE  s \ {First(s)} \in SUBSET U /\ s \ {First(s)} # U /\ f[First(s)] \in Nat
    BY <1>0, <2>2, <2>5, FirstIn
  <2>6. \A s \in SUBSET U : s # U => G[s] = Sum(s)
    BY <2>4
  <2>7. \A s \in SUBSET U : G[s] = IF s = {} THEN 0 ELSE f[First(s)] + G[s \ {First(s)}]
    BY <2>5, <2>6
  <2>8. ASSUME NEW s \in SUBSET U PROVE G[s] \in Nat
    <3>1. CASE s = {}
      BY <3>1
    <3>2. CASE s # {}
      <4>1. Sum(s \ {First(s)}) \in Nat /\ f[First(s)] \in Nat
        BY <2>4, <2>5, <3>2
      <4>2. \A a, b \in Nat : a + b \in Nat
        OBVIOUS
      <4> QED  BY <3>2, <4>1, <4>2
    <3> QED  BY <3>1, <3>2
  <2>9. G = [s \in SUBSET U |-> IF s = {} THEN 0 ELSE f[First(s)] + G[s \ {First(s)}]]
    BY <2>7
  <2>10. G \in [SUBSET U -> Nat]
    BY <2>8
  <2> HIDE DEF G
  <2>11. Adds(G, f, U)
    BY <2>9 DEF Adds
  <2> QED  BY <2>2, <2>10, <2>11
<1> QED  BY <1>1

LEMMA SumFirst ==
  ASSUME NEW f, NEW S, Measures(f, S)
  PROVE  /\ SumFunctionOnSet(f, S) \in Nat
         /\ S = {} => SumFunctionOnSet(f, S) = 0
         /\ S # {} => SumFunctionOnSet(f, S)
                        = f[First(S)] + SumFunctionOnSet(f, S \ {First(S)})
<1>1. PICK g \in [SUBSET S -> Nat] : Adds(g, f, S)
  BY AddsExists
<1>2. \A U \in SUBSET S : SumFunctionOnSet(f, U) = g[U]
  BY <1>1, SumsOf DEF Measures
<1>3. g[S] = IF S = {} THEN 0 ELSE f[First(S)] + g[S \ {First(S)}]
  BY <1>1, AddsAt
<1>4. g[S] \in Nat /\ S \in SUBSET S /\ S \ {First(S)} \in SUBSET S
  BY <1>1
<1> QED  BY <1>2, <1>3, <1>4

LEMMA MeasuresPart ==
  ASSUME NEW f, NEW S, Measures(f, S), NEW U \in SUBSET S
  PROVE  Measures(f, U)
  BY FS_Subset DEF Measures

(* Whichever is taken first. *)
LEMMA SumAny ==
  ASSUME NEW f, NEW S, Measures(f, S), NEW x \in S
  PROVE  SumFunctionOnSet(f, S) = f[x] + SumFunctionOnSet(f, S \ {x})
<1> DEFINE Sum(s) == SumFunctionOnSet(f, s)
           Any(U) == \A y \in U : Sum(U) = f[y] + Sum(U \ {y})
           T == {U \in SUBSET S : ~Any(U)}
<1>0. \A U \in SUBSET S : /\ Sum(U) \in Nat
                          /\ U # {} => Sum(U) = f[First(U)] + Sum(U \ {First(U)})
  BY SumFirst, MeasuresPart
<1>1. \A y \in S : f[y] \in Nat
  BY DEF Measures
<1> HIDE DEF Sum
<1>2. ASSUME T # {} PROVE FALSE
  <2>1. PICK U \in T : \A V \in T : V \subseteq U => V = U
    <3>1. T \subseteq SUBSET S
      OBVIOUS
    <3> HIDE DEF T
    <3> QED  BY <1>2, <3>1, SmallestPart DEF Measures
  <2>2. U \in SUBSET S /\ ~Any(U) /\ \A V \in SUBSET U : V # U => Any(V)
    BY <2>1
  <2>3. PICK y \in U : Sum(U) # f[y] + Sum(U \ {y})
    BY <2>2
  <2> DEFINE c == First(U)
  <2>4. c \in U /\ Sum(U) = f[c] + Sum(U \ {c})
    BY <1>0, <2>2, <2>3, FirstIn
  <2> HIDE DEF c
  <2>5. c # y
    BY <2>3, <2>4
  <2>6. Sum(U \ {c}) = f[y] + Sum((U \ {c}) \ {y})
    BY <2>2, <2>4, <2>5
  <2>7. Sum(U \ {y}) = f[c] + Sum((U \ {y}) \ {c})
    BY <2>2, <2>3, <2>4, <2>5
  <2>8. (U \ {c}) \ {y} = (U \ {y}) \ {c}
    OBVIOUS
  <2>9. f[y] \in Nat /\ f[c] \in Nat /\ Sum((U \ {c}) \ {y}) \in Nat
    BY <1>0, <1>1, <2>2, <2>4
  <2>10. \A a, b, e \in Nat : a + (b + e) = b + (a + e)
    OBVIOUS
  <2>11. PICK k \in Nat : k = Sum((U \ {c}) \ {y}) /\ k = Sum((U \ {y}) \ {c})
    BY <2>8, <2>9
  <2>12. Sum(U) = f[c] + (f[y] + k) /\ f[y] + Sum(U \ {y}) = f[y] + (f[c] + k)
    BY <2>4, <2>6, <2>7, <2>11
  <2> QED  BY <2>3, <2>9, <2>10, <2>11, <2>12
<1>3. Any(S)
  BY <1>2
<1> QED  BY <1>3 DEF Sum

(* More of each is more in all; a part is not more than the whole. *)
LEMMA SumGrows ==
  ASSUME NEW f, NEW g, NEW S, Measures(f, S), Measures(g, S), \A x \in S : f[x] <= g[x]
  PROVE  SumFunctionOnSet(f, S) <= SumFunctionOnSet(g, S)
<1> DEFINE F(s) == SumFunctionOnSet(f, s)
           G(s) == SumFunctionOnSet(g, s)
           T == {U \in SUBSET S : ~(F(U) <= G(U))}
<1>0. \A U \in SUBSET S :
        /\ F(U) \in Nat /\ G(U) \in Nat
        /\ U = {} => F(U) = 0 /\ G(U) = 0
        /\ U # {} => /\ F(U) = f[First(U)] + F(U \ {First(U)})
                     /\ G(U) = g[First(U)] + G(U \ {First(U)})
  BY SumFirst, MeasuresPart
<1>1. \A y \in S : f[y] \in Nat /\ g[y] \in Nat
  BY DEF Measures
<1> HIDE DEF F, G
<1>2. ASSUME T # {} PROVE FALSE
  <2>1. PICK U \in T : \A V \in T : V \subseteq U => V = U
    <3>1. T \subseteq SUBSET S
      OBVIOUS
    <3> HIDE DEF T
    <3> QED  BY <1>2, <3>1, SmallestPart DEF Measures
  <2>2. U \in SUBSET S /\ ~(F(U) <= G(U)) /\ \A V \in SUBSET U : V # U => F(V) <= G(V)
    BY <2>1
  <2>3. U # {}
    <3>1. U = {} => F(U) = 0 /\ G(U) = 0
      BY <1>0, <2>2
    <3>2. 0 <= 0
      OBVIOUS
    <3> QED  BY <2>2, <3>1, <3>2
  <2> DEFINE c == First(U)
             W == U \ {c}
  <2>4. c \in U /\ F(U) = f[c] + F(W) /\ G(U) = g[c] + G(W)
    BY <1>0, <2>2, <2>3, FirstIn
  <2>5. W \in SUBSET U /\ W # U /\ c \in S
    BY <2>2, <2>4
  <2>6. F(W) <= G(W) /\ F(W) \in Nat /\ G(W) \in Nat /\ f[c] \in Nat /\ g[c] \in Nat /\ f[c] <= g[c]
    BY <1>0, <1>1, <2>2, <2>5
  <2> HIDE DEF c, W
  <2> QED  BY <2>2, <2>4, <2>6
<1> QED  BY <1>2 DEF F, G

LEMMA SumSame ==
  ASSUME NEW f, NEW g, NEW S, Measures(f, S), \A x \in S : f[x] = g[x]
  PROVE  SumFunctionOnSet(f, S) = SumFunctionOnSet(g, S)
<1>1. Measures(g, S)
  BY DEF Measures
<1>2. \A x \in S : f[x] <= g[x] /\ g[x] <= f[x]
  BY <1>1 DEF Measures
<1>3. SumFunctionOnSet(f, S) <= SumFunctionOnSet(g, S)
  BY <1>1, <1>2, SumGrows
<1>4. SumFunctionOnSet(g, S) <= SumFunctionOnSet(f, S)
  BY <1>1, <1>2, SumGrows
<1>5. SumFunctionOnSet(f, S) \in Nat /\ SumFunctionOnSet(g, S) \in Nat
  BY <1>1, SumFirst
<1> QED  BY <1>3, <1>4, <1>5

LEMMA SumOfPart ==
  ASSUME NEW f, NEW S, Measures(f, S), NEW P \in SUBSET S
  PROVE  SumFunctionOnSet(f, P) <= SumFunctionOnSet(f, S)
<1> DEFINE F(s) == SumFunctionOnSet(f, s)
           T == {U \in SUBSET S : P \subseteq U /\ ~(F(P) <= F(U))}
<1>0. ASSUME NEW U \in SUBSET S PROVE F(U) \in Nat /\ \A x \in U : F(U) = f[x] + F(U \ {x})
  <2>1. Measures(f, U)
    BY MeasuresPart
  <2>2. F(U) \in Nat
    BY <2>1, SumFirst
  <2>3. \A x \in U : F(U) = f[x] + F(U \ {x})
    BY <2>1, SumAny
  <2> QED  BY <2>2, <2>3
<1>1. \A y \in S : f[y] \in Nat
  BY DEF Measures
<1> HIDE DEF F
<1>2. ASSUME T # {} PROVE FALSE
  <2>1. PICK U \in T : \A V \in T : V \subseteq U => V = U
    <3>1. T \subseteq SUBSET S
      OBVIOUS
    <3> HIDE DEF T
    <3> QED  BY <1>2, <3>1, SmallestPart DEF Measures
  <2>2. U \in SUBSET S /\ P \subseteq U /\ ~(F(P) <= F(U)) /\ F(P) \in Nat
    BY <1>0, <2>1
  <2>3. PICK x \in U : x \notin P
    BY <2>2
  <2> DEFINE W == U \ {x}
  <2>4. W \in SUBSET S /\ P \subseteq W /\ W \notin T
    BY <2>1, <2>2, <2>3
  <2>5. F(P) <= F(W) /\ F(W) \in Nat /\ f[x] \in Nat /\ F(U) = f[x] + F(W)
    BY <1>0, <1>1, <2>2, <2>3, <2>4
  <2>6. \A a, b, e \in Nat : a <= b => a <= e + b
    OBVIOUS
  <2>7. F(P) <= f[x] + F(W)
    BY <2>2, <2>5, <2>6
  <2> HIDE DEF W
  <2> QED  BY <2>2, <2>5, <2>7
<1> QED  BY <1>2 DEF F

-----------------------------------------------------------------------------
(* The ledger of use: its inductive invariant. *)

AnyLine == [instance : Instance, watermark : Nat \cup {Unknown}, usage : [Models -> Nat],
            build : Builds]
Reads == [at : {"use", "ids", "plan", "append"}, todo : SUBSET Sids, line : AnyLine]
Read(p) == reading[p].at \in {"use", "ids", "plan", "append"}

UsageTypes ==
  /\ model_usage \in [Builds -> [Sids -> [Models -> Nat]]]
  /\ build \in Builds /\ usage_lines \in Seq(AnyLine) /\ torn \in BOOLEAN
  /\ reading \in [UsageReaders -> {AtRest, [at |-> "begin"]} \cup Reads]
  /\ told \in [Builds -> [Models -> Nat]]

(* Sessions begin in their order: any two sets of sessions that were there  *)
(* at some time have one within the other, and the first session in common. *)
Earliest(P) == P # {} /\ \A s \in P : \A e \in 1..s : e \in P
BeginInOrder ==
  \A b \in Builds, s \in Sids : model_usage[b][s] # NoUsage =>
    \A e \in 1..(s - 1) : model_usage[b][e] # NoUsage

(* What names sessions names those of its own build. *)
Tied(line) ==
  line.instance # Unknown =>
    \E P \in SUBSET Sids : Earliest(P) /\ line.instance = {line.build} \X P
LinesTied == \A i \in DOMAIN usage_lines : Tied(usage_lines[i])

(* A reader brings no more than what was burnt in the sessions it has read. *)
Modest(r) ==
  \A m \in Models :
    r.line.usage[m] <= SumFunctionOnSet(Uses(r.line.build, m), Sids \ r.todo)
ReadersModest ==
  \A p \in UsageReaders : Read(p) =>
    /\ Tied(reading[p].line)
    /\ reading[p].at \in {"use", "ids"} => reading[p].line.build = build
    /\ Modest(reading[p])

UsageInv ==
  /\ UsageTypes /\ BeginInOrder /\ LinesTied /\ ReadersModest
  /\ NothingTwice /\ NothingLost

LEMMA SidsFinite == IsFiniteSet(Sids) /\ Sids \subseteq Nat
<1>1. MaxSessions \in Nat
  BY UsageAssumption
<1> QED  BY <1>1, FS_Interval DEF Sids

(* The sums that are compared. *)
LEMMA BurntIs ==
  ASSUME UsageTypes, NEW b \in Builds, NEW m \in Models
  PROVE  /\ Measures(Uses(b, m), Sids)
         /\ \A s \in Sids : Uses(b, m)[s] = model_usage[b][s][m]
         /\ Burnt(b, m) = SumFunctionOnSet(Uses(b, m), Sids)
         /\ Burnt(b, m) \in Nat
<1>1. \A s \in Sids : Uses(b, m)[s] = model_usage[b][s][m] /\ Uses(b, m)[s] \in Nat
  BY DEF Uses, UsageTypes
<1>2. Measures(Uses(b, m), Sids)
  BY <1>1, SidsFinite DEF Measures
<1>3. Burnt(b, m) = SumFunctionOnSet(Uses(b, m), Sids)
  BY DEF Burnt, SumFunction, Uses
<1> QED  BY <1>1, <1>2, <1>3, SumFirst

LEMMA LineUsesIs ==
  ASSUME UsageTypes, NEW m \in Models, NEW S \in SUBSET DOMAIN usage_lines
  PROVE  /\ Measures(LineUses(m), S)
         /\ \A i \in S : LineUses(m)[i] = usage_lines[i].usage[m]
         /\ SumFunctionOnSet(LineUses(m), S) \in Nat
<1>1. usage_lines \in Seq(AnyLine)
  BY DEF UsageTypes
<1>2. DOMAIN usage_lines = 1..Len(usage_lines) /\ Len(usage_lines) \in Nat
  BY <1>1
<1>3. IsFiniteSet(S)
  <2>1. IsFiniteSet(1..Len(usage_lines))
    BY <1>2, FS_Interval
  <2> QED  BY <1>2, <2>1, FS_Subset
<1>4. \A i \in S : usage_lines[i] \in AnyLine
  BY <1>1, <1>2
<1>5. \A i \in S : LineUses(m)[i] = usage_lines[i].usage[m] /\ usage_lines[i].usage[m] \in Nat
  BY <1>4 DEF LineUses, AnyLine
<1>6. Measures(LineUses(m), S)
  BY <1>3, <1>5 DEF Measures
<1> QED  BY <1>5, <1>6, SumFirst

Of(b) == {i \in DOMAIN usage_lines : usage_lines[i].build = b}

LEMMA InLedgerIs ==
  ASSUME UsageTypes, NEW b, NEW m \in Models
  PROVE  InLedger(b, m) = SumFunctionOnSet(LineUses(m), Of(b)) /\ InLedger(b, m) \in Nat
<1>1. InLedger(b, m) = SumFunctionOnSet(LineUses(m), Of(b))
  BY DEF InLedger, Of
<1>2. Of(b) \in SUBSET DOMAIN usage_lines
  BY DEF Of
<1> QED  BY <1>1, <1>2, LineUsesIs

SumsAre ==
  \A m \in Models :
    /\ \A S \in SUBSET DOMAIN usage_lines :
         Measures(LineUses(m), S) /\ \A i \in S : LineUses(m)[i] = usage_lines[i].usage[m]
    /\ \A b \in Builds : InLedger(b, m) = SumFunctionOnSet(LineUses(m), Of(b))

LEMMA LedgerSums == UsageTypes => SumsAre
  BY LineUsesIs, InLedgerIs DEF SumsAre

(* A line that is appended counts for its own build. *)
LEMMA LedgerGrows ==
  ASSUME UsageTypes, UsageTypes', NEW d \in AnyLine, usage_lines' = Append(usage_lines, d),
         NEW b \in Builds, NEW m \in Models
  PROVE  InLedger(b, m)' = IF d.build = b THEN d.usage[m] + InLedger(b, m) ELSE InLedger(b, m)
<1> DEFINE n == Len(usage_lines)
<1>1. /\ usage_lines \in Seq(AnyLine) /\ n \in Nat /\ DOMAIN usage_lines = 1..n
      /\ usage_lines' \in Seq(AnyLine) /\ DOMAIN usage_lines' = 1..(n + 1)
      /\ \A i \in 1..n : usage_lines'[i] = usage_lines[i]
      /\ usage_lines'[n + 1] = d
  BY DEF UsageTypes
<1>2. \A i \in 1..n : i \in 1..(n + 1) /\ i # n + 1
  BY <1>1
<1>3. \A i \in 1..(n + 1) : i \in 1..n \/ i = n + 1
  BY <1>1
<1>4. Of(b) \in SUBSET DOMAIN usage_lines /\ Of(b)' \in SUBSET DOMAIN usage_lines'
  BY DEF Of
<1>5. Of(b) \in SUBSET DOMAIN usage_lines'
  BY <1>1, <1>2, <1>4
<1>6. /\ Measures(LineUses(m), Of(b)) /\ InLedger(b, m) = SumFunctionOnSet(LineUses(m), Of(b))
      /\ \A i \in Of(b) : LineUses(m)[i] = usage_lines[i].usage[m]
  BY <1>4, LineUsesIs, InLedgerIs
<1>7. /\ Measures(LineUses(m)', Of(b)') /\ InLedger(b, m)' = SumFunctionOnSet(LineUses(m)', Of(b)')
      /\ \A i \in Of(b)' : LineUses(m)'[i] = usage_lines'[i].usage[m]
      /\ \A i \in Of(b) : LineUses(m)'[i] = usage_lines'[i].usage[m]
  <2>0. SumsAre'
    BY LedgerSums, PTL
  <2>1. \A S \in SUBSET DOMAIN usage_lines' :
          Measures(LineUses(m)', S) /\ \A i \in S : LineUses(m)'[i] = usage_lines'[i].usage[m]
    BY <2>0 DEF SumsAre
  <2>2. InLedger(b, m)' = SumFunctionOnSet(LineUses(m)', Of(b)')
    BY <2>0 DEF SumsAre
  <2> QED  BY <1>4, <1>5, <2>1, <2>2
<1>8. \A i \in Of(b) : LineUses(m)[i] = LineUses(m)'[i]
  BY <1>1, <1>4, <1>6, <1>7
<1>9. SumFunctionOnSet(LineUses(m), Of(b)) = SumFunctionOnSet(LineUses(m)', Of(b))
  BY <1>6, <1>8, SumSame
<1>10. CASE d.build = b
  <2>1. Of(b)' = Of(b) \cup {n + 1} /\ n + 1 \notin Of(b)
    BY <1>1, <1>2, <1>3, <1>10 DEF Of
  <2>2. n + 1 \in Of(b)' /\ Of(b)' \ {n + 1} = Of(b)
    BY <2>1
  <2>3. SumFunctionOnSet(LineUses(m)', Of(b)')
          = LineUses(m)'[n + 1] + SumFunctionOnSet(LineUses(m)', Of(b)' \ {n + 1})
    BY <1>7, <2>2, SumAny
  <2>4. LineUses(m)'[n + 1] = d.usage[m]
    BY <1>1, <1>7, <2>2
  <2> QED  BY <1>6, <1>7, <1>9, <1>10, <2>2, <2>3, <2>4
<1>11. CASE d.build # b
  <2>1. Of(b)' = Of(b)
    BY <1>1, <1>2, <1>3, <1>11 DEF Of
  <2> QED  BY <1>6, <1>7, <1>9, <1>11, <2>1
<1> QED  BY <1>10, <1>11

(* Of two sets of sessions that were there one is within the other. *)
LEMMA Nested ==
  ASSUME NEW P \in SUBSET Sids, NEW Q \in SUBSET Sids, Earliest(P), Earliest(Q)
  PROVE  (P \subseteq Q \/ Q \subseteq P) /\ 1 \in P /\ 1 \in Q
<1>1. P \subseteq Nat /\ Q \subseteq Nat /\ \A s \in P \cup Q : s >= 1
  BY UsageAssumption DEF Sids
<1>2. \A S \in SUBSET (P \cup Q) : Earliest(S) => 1 \in S
  <2> SUFFICES ASSUME NEW S \in SUBSET (P \cup Q), Earliest(S) PROVE 1 \in S
    OBVIOUS
  <2>1. PICK s \in S : \A e \in 1..s : e \in S
    BY DEF Earliest
  <2>2. 1 \in 1..s
    BY <1>1
  <2> QED  BY <2>1, <2>2
<1>3. ASSUME NEW x \in P, x \notin Q PROVE Q \subseteq P
  <2>1. \A y \in Q : y \in 1..x
    <3> SUFFICES ASSUME NEW y \in Q, ~(y \in 1..x) PROVE FALSE
      OBVIOUS
    <3>1. x \in 1..y
      BY <1>1
    <3> QED  BY <1>3, <3>1 DEF Earliest
  <2> QED  BY <2>1 DEF Earliest
<1> QED  BY <1>2, <1>3

(* A line that nothing speaks against has all the lines of its build for     *)
(* its past, and where its sessions are known these only.                   *)
LEMMA PriorIs ==
  ASSUME UsageTypes, LinesTied, NEW line \in AnyLine, Tied(line), ~Unproven(line)
  PROVE  /\ Of(line.build) \subseteq Prior(line)
         /\ line.instance # Unknown => Prior(line) = Of(line.build)
<1>0. usage_lines \in Seq(AnyLine)
  BY DEF UsageTypes
<1>1. \A i \in DOMAIN usage_lines : usage_lines[i] \in AnyLine /\ Tied(usage_lines[i])
  BY <1>0 DEF LinesTied
<1>2. \A i \in DOMAIN usage_lines : Lineage(line, usage_lines[i]) # "unproven"
  BY DEF Unproven
<1>3. CASE line.instance = Unknown
  <2>1. \A i \in DOMAIN usage_lines : Lineage(line, usage_lines[i]) = "same"
    BY <1>2, <1>3 DEF Lineage
  <2> QED  BY <1>3, <2>1 DEF Prior, Of
<1>4. CASE line.instance # Unknown
  <2>1. PICK P \in SUBSET Sids : Earliest(P) /\ line.instance = {line.build} \X P
    BY <1>4 DEF Tied
  <2>2. ASSUME NEW i \in DOMAIN usage_lines
        PROVE  Lineage(line, usage_lines[i]) = "same" <=> usage_lines[i].build = line.build
    <3> DEFINE old == usage_lines[i]
    <3>1. old.instance # Unknown
      BY <1>2, <1>4 DEF Lineage
    <3>2. PICK Q \in SUBSET Sids : Earliest(Q) /\ old.instance = {old.build} \X Q
      BY <1>1, <3>1 DEF Tied
    <3>3. (P \subseteq Q \/ Q \subseteq P) /\ 1 \in P /\ 1 \in Q
      BY <2>1, <3>2, Nested
    <3>4. <<line.build, 1>> \in line.instance /\ <<old.build, 1>> \in old.instance
      BY <2>1, <3>2, <3>3
    <3> HIDE DEF old
    <3>5. CASE old.build = line.build
      <4>1. old.instance \cap line.instance # {}
        BY <3>4, <3>5
      <4>2. old.instance = line.instance \/ old.instance \subseteq line.instance
        BY <1>2, <1>4, <3>1, <4>1 DEF Lineage, old
      <4>3. Lineage(line, old) = "same"
        BY <1>4, <3>1, <4>2 DEF Lineage
      <4> QED  BY <3>5, <4>3 DEF old
    <3>6. CASE old.build # line.build
      <4>1. ~(old.instance \subseteq line.instance) /\ old.instance # line.instance
        <5>1. <<old.build, 1>> \notin line.instance
          BY <2>1, <3>6
        <5> QED  BY <3>4, <5>1
      <4>2. old.instance \cap line.instance = {}
        BY <2>1, <3>2, <3>6
      <4>3. Lineage(line, old) = "other"
        BY <1>4, <3>1, <4>1, <4>2 DEF Lineage
      <4> QED  BY <3>6, <4>3 DEF old
    <3> QED  BY <3>5, <3>6
  <2>3. Prior(line) = Of(line.build)
    BY <2>2 DEF Prior, Of
  <2> QED  BY <2>3
<1> QED  BY <1>3, <1>4

LEMMA ExistingIs ==
  ASSUME UsageTypes, LinesTied, NEW line \in AnyLine, Tied(line), ~Unproven(line),
         NEW m \in Models
  PROVE  /\ Existing(line, m) \in Nat
         /\ InLedger(line.build, m) <= Existing(line, m)
         /\ line.instance # Unknown => Existing(line, m) = InLedger(line.build, m)
<1>1. Prior(line) \in SUBSET DOMAIN usage_lines
  BY DEF Prior
<1>2. Measures(LineUses(m), Prior(line)) /\ SumFunctionOnSet(LineUses(m), Prior(line)) \in Nat
  BY <1>1, LineUsesIs
<1>3. Existing(line, m) = SumFunctionOnSet(LineUses(m), Prior(line))
  BY DEF Existing
<1>4. InLedger(line.build, m) = SumFunctionOnSet(LineUses(m), Of(line.build))
  BY InLedgerIs
<1>5. Of(line.build) \in SUBSET Prior(line)
  BY PriorIs
<1>6. SumFunctionOnSet(LineUses(m), Of(line.build)) <= SumFunctionOnSet(LineUses(m), Prior(line))
  BY <1>2, <1>5, SumOfPart
<1>7. line.instance # Unknown => Prior(line) = Of(line.build)
  BY PriorIs
<1> QED  BY <1>2, <1>3, <1>4, <1>6, <1>7

(* What was reported of a reader's total. *)
LEMMA ToldIs ==
  ASSUME UsageTypes, NEW line \in AnyLine, Reported(line)
  PROVE  /\ told' \in [Builds -> [Models -> Nat]]
         /\ \A b \in Builds, m \in Models :
              told'[b][m] = IF line.instance # Unknown /\ b = line.build
                               /\ line.usage[m] > told[b][m]
                            THEN line.usage[m] ELSE told[b][m]
<1>1. told \in [Builds -> [Models -> Nat]] /\ line.build \in Builds /\ line.usage \in [Models -> Nat]
  BY DEF UsageTypes, AnyLine
<1>2. CASE line.instance = Unknown
  BY <1>1, <1>2 DEF Reported
<1>3. CASE line.instance # Unknown
  <2> DEFINE most == [m \in Models |-> IF told[line.build][m] > line.usage[m]
                                       THEN told[line.build][m] ELSE line.usage[m]]
  <2>1. told' = [told EXCEPT ![line.build] = most]
    BY <1>3 DEF Reported
  <2>2. most \in [Models -> Nat]
    BY <1>1
  <2>3. \A m \in Models : most[m] = IF line.usage[m] > told[line.build][m]
                                     THEN line.usage[m] ELSE told[line.build][m]
    BY <1>1
  <2> HIDE DEF most
  <2>4. /\ told' \in [Builds -> [Models -> Nat]]
        /\ \A b \in Builds : told'[b] = IF b = line.build THEN most ELSE told[b]
    BY <1>1, <2>1, <2>2
  <2> QED  BY <1>3, <2>3, <2>4
<1> QED  BY <1>2, <1>3

(* Where nothing is appended or burnt, what is told is to be in the ledger. *)
LEMMA LedgerKept ==
  ASSUME UsageInv, UsageTypes', usage_lines' = usage_lines, model_usage' = model_usage,
         \A b \in Builds, m \in Models : told'[b][m] <= InLedger(b, m)
  PROVE  BeginInOrder' /\ LinesTied' /\ NothingTwice' /\ NothingLost'
<1>1. \A b, m : InLedger(b, m)' = InLedger(b, m) /\ Burnt(b, m)' = Burnt(b, m)
  BY DEF InLedger, LineUses, Burnt, Uses
<1>2. BeginInOrder' /\ LinesTied'
  BY DEF UsageInv, BeginInOrder, LinesTied, Tied
<1> QED  BY <1>1, <1>2 DEF UsageInv, NothingTwice, NothingLost

(* The other readers stay as they are. *)
LEMMA OthersModest ==
  ASSUME UsageInv, model_usage' = model_usage, NEW p \in UsageReaders,
         build' = build,
         \A q \in UsageReaders \ {p} : reading'[q] = reading[q],
         Read(p)' =>
           /\ Tied(reading'[p].line)
           /\ reading'[p].at \in {"use", "ids"} => reading'[p].line.build = build
           /\ Modest(reading'[p])
  PROVE  ReadersModest'
<1>1. \A r : Modest(r)' = Modest(r')
  BY DEF Modest, Uses
<1>2. ASSUME NEW q \in UsageReaders, Read(q)'
      PROVE  /\ Tied(reading'[q].line)
             /\ reading'[q].at \in {"use", "ids"} => reading'[q].line.build = build
             /\ Modest(reading'[q])
  BY <1>2 DEF UsageInv, ReadersModest, Read
<1>3. \A q \in UsageReaders : Modest(reading[q])' = Modest(reading'[q])
  BY DEF Modest, Uses
<1>4. \A q \in UsageReaders : Tied(reading[q].line)' = Tied(reading'[q].line)
  BY DEF Tied
<1> QED  BY <1>2, <1>3, <1>4 DEF ReadersModest

(* A reader that stops. *)
LEMMA RestInv ==
  ASSUME UsageInv, NEW p \in UsageReaders, UsageRest(p),
         UNCHANGED <<model_usage, build, usage_lines>>, torn' \in BOOLEAN,
         told' \in [Builds -> [Models -> Nat]],
         \A b \in Builds, m \in Models : told'[b][m] <= InLedger(b, m)
  PROVE  UsageInv'
<1>1. reading \in [UsageReaders -> {AtRest, [at |-> "begin"]} \cup Reads] /\ UsageTypes
  BY DEF UsageInv, UsageTypes
<1>2. /\ reading' \in [UsageReaders -> {AtRest, [at |-> "begin"]} \cup Reads]
      /\ reading'[p] = AtRest /\ \A q \in UsageReaders \ {p} : reading'[q] = reading[q]
  BY <1>1 DEF UsageRest
<1>3. UsageTypes'
  BY <1>1, <1>2 DEF UsageTypes
<1>4. ~Read(p)'
  BY <1>2 DEF Read, AtRest
<1>5. ReadersModest'
  BY <1>2, <1>4, OthersModest
<1> QED  BY <1>3, <1>5, LedgerKept DEF UsageInv

LEMMA ReadIs ==
  ASSUME UsageInv, NEW p \in UsageReaders, Read(p)
  PROVE  /\ reading[p] \in Reads /\ reading[p].line \in AnyLine
         /\ reading[p].todo \subseteq Sids
         /\ Tied(reading[p].line) /\ Modest(reading[p])
         /\ \A m \in Models : reading[p].line.usage[m] <= Burnt(reading[p].line.build, m)
<1>1. reading[p] \in {AtRest, [at |-> "begin"]} \cup Reads /\ UsageTypes
  BY DEF UsageInv, UsageTypes
<1>2. reading[p] \in Reads
  BY <1>1 DEF Read, AtRest
<1>3. reading[p].line \in AnyLine /\ reading[p].todo \subseteq Sids
  BY <1>2 DEF Reads
<1>4. Tied(reading[p].line) /\ Modest(reading[p])
  BY DEF UsageInv, ReadersModest
<1> DEFINE line == reading[p].line
           part == Sids \ reading[p].todo
<1>5. ASSUME NEW m \in Models PROVE line.usage[m] <= Burnt(line.build, m)
  <2>1. line.build \in Builds /\ line.usage[m] \in Nat
    BY <1>3 DEF AnyLine
  <2> HIDE DEF line, part
  <2>2. /\ Measures(Uses(line.build, m), Sids)
        /\ Burnt(line.build, m) = SumFunctionOnSet(Uses(line.build, m), Sids)
        /\ Burnt(line.build, m) \in Nat
    BY <1>1, <2>1, BurntIs
  <2>3. part \in SUBSET Sids
    BY DEF part
  <2>4. SumFunctionOnSet(Uses(line.build, m), part) <= Burnt(line.build, m)
    BY <2>2, <2>3, SumOfPart
  <2>5. SumFunctionOnSet(Uses(line.build, m), part) \in Nat
    BY <2>2, <2>3, MeasuresPart, SumFirst
  <2>6. line.usage[m] <= SumFunctionOnSet(Uses(line.build, m), part)
    BY <1>4 DEF Modest, line, part
  <2> QED  BY <2>1, <2>2, <2>4, <2>5, <2>6
<1> QED  BY <1>2, <1>3, <1>4, <1>5

(* What the ledger has of a total, when it is weighed. *)
LEMMA WeighedIs ==
  ASSUME UsageInv, NEW line \in AnyLine, Tied(line), NEW m \in Models
  PROVE  /\ Weighed(line) = "covered" =>
              (line.instance # Unknown => line.usage[m] <= InLedger(line.build, m))
         /\ Weighed(line) = "more" =>
              /\ Delta(line) \in AnyLine /\ Delta(line).build = line.build
              /\ Delta(line).instance = line.instance
              /\ Delta(line).usage[m] + InLedger(line.build, m) <= line.usage[m]
              /\ line.instance # Unknown =>
                   Delta(line).usage[m] + InLedger(line.build, m) = line.usage[m]
<1>1. UsageTypes /\ LinesTied
  BY DEF UsageInv
<1>2. /\ line.usage \in [Models -> Nat] /\ line.usage[m] \in Nat
      /\ InLedger(line.build, m) \in Nat
  BY <1>1, InLedgerIs DEF AnyLine
<1>3. ASSUME Weighed(line) = "covered", line.instance # Unknown
      PROVE  line.usage[m] <= InLedger(line.build, m)
  <2>1. ~Unproven(line) /\ ~Advanced(line)
    BY <1>3 DEF Weighed
  <2>2. Existing(line, m) \in Nat /\ Existing(line, m) = InLedger(line.build, m)
    BY <1>1, <1>3, <2>1, ExistingIs
  <2>3. ~(line.usage[m] > Existing(line, m))
    BY <2>1 DEF Advanced
  <2> QED  BY <1>2, <2>2, <2>3
<1>4. ASSUME Weighed(line) = "more"
      PROVE  /\ Delta(line) \in AnyLine /\ Delta(line).build = line.build
             /\ Delta(line).instance = line.instance
             /\ Delta(line).usage[m] + InLedger(line.build, m) <= line.usage[m]
             /\ line.instance # Unknown =>
                  Delta(line).usage[m] + InLedger(line.build, m) = line.usage[m]
  <2>1. ~Unproven(line) /\ ~Regressed(line)
    <3>1. torn \in BOOLEAN
      BY <1>1 DEF UsageTypes
    <3> QED  BY <1>4, <3>1 DEF Weighed
  <2>2. \A k \in Models :
          /\ Existing(line, k) \in Nat
          /\ InLedger(line.build, k) <= Existing(line, k)
          /\ line.instance # Unknown => Existing(line, k) = InLedger(line.build, k)
    BY <1>1, <2>1, ExistingIs
  <2>3. ~(line.usage[m] < Existing(line, m))
    BY <2>1 DEF Regressed
  <2> DEFINE more == [k \in Models |-> IF line.usage[k] > Existing(line, k)
                                       THEN line.usage[k] - Existing(line, k) ELSE 0]
  <2>4. more \in [Models -> Nat]
    BY <1>2, <2>2
  <2>5. more[m] = line.usage[m] - Existing(line, m)
    BY <1>2, <2>2, <2>3
  <2>6. Delta(line) = [line EXCEPT !.usage = more]
    BY DEF Delta
  <2> HIDE DEF more
  <2>7. /\ Delta(line) \in AnyLine /\ Delta(line).build = line.build
        /\ Delta(line).instance = line.instance /\ Delta(line).usage = more
    BY <2>4, <2>6 DEF AnyLine
  <2>8. Existing(line, m) \in Nat /\ InLedger(line.build, m) <= Existing(line, m)
    BY <2>2
  <2>9. \A a, x, y \in Nat : ~(a < x) /\ y <= x => (a - x) + y <= a /\ (x = y => (a - x) + y = a)
    OBVIOUS
  <2>10. more[m] + InLedger(line.build, m) <= line.usage[m]
    BY <1>2, <2>3, <2>5, <2>8, <2>9
  <2>11. Existing(line, m) = InLedger(line.build, m) =>
           more[m] + InLedger(line.build, m) = line.usage[m]
    BY <1>2, <2>3, <2>5, <2>8, <2>9
  <2> QED  BY <2>2, <2>7, <2>10, <2>11
<1> QED  BY <1>3, <1>4

LEMMA UsageInitInv == UsageInit => UsageInv
<1> SUFFICES ASSUME UsageInit PROVE UsageInv
  OBVIOUS
<1>1. MaxBuilds \in Nat \ {0}
  BY UsageAssumption
<1>2. UsageTypes
  <2>1. NoUsage \in [Models -> Nat]
    BY DEF NoUsage
  <2>2. model_usage \in [Builds -> [Sids -> [Models -> Nat]]] /\ told \in [Builds -> [Models -> Nat]]
    BY <2>1 DEF UsageInit
  <2>3. build \in Builds /\ usage_lines \in Seq(AnyLine) /\ torn \in BOOLEAN
    <3>1. 1 \in 1..MaxBuilds
      BY <1>1
    <3>2. <<>> \in Seq(AnyLine)
      OBVIOUS
    <3> QED  BY <3>1, <3>2 DEF UsageInit, Builds
  <2>4. reading \in [UsageReaders -> {AtRest, [at |-> "begin"]} \cup Reads]
    BY DEF UsageInit
  <2> QED  BY <2>2, <2>3, <2>4 DEF UsageTypes
<1>3. \A p \in UsageReaders : ~Read(p)
  BY DEF UsageInit, Read, AtRest
<1>4. \A b \in Builds, m \in Models :
        InLedger(b, m) = 0 /\ Burnt(b, m) \in Nat /\ told[b][m] = 0
  <2> SUFFICES ASSUME NEW b \in Builds, NEW m \in Models
               PROVE  InLedger(b, m) = 0 /\ Burnt(b, m) \in Nat /\ told[b][m] = 0
    OBVIOUS
  <2>1. DOMAIN usage_lines = {}
    BY DEF UsageInit
  <2>2. Of(b) = {}
    BY <2>1 DEF Of
  <2>3. InLedger(b, m) = SumFunctionOnSet(LineUses(m), {})
    BY <1>2, <2>2, InLedgerIs
  <2>4. Measures(LineUses(m), {})
    BY <1>2, LineUsesIs
  <2>5. InLedger(b, m) = 0
    BY <2>3, <2>4, SumFirst
  <2>6. Burnt(b, m) \in Nat
    BY <1>2, BurntIs
  <2> QED  BY <2>5, <2>6 DEF UsageInit, NoUsage
<1>5. NothingTwice /\ NothingLost
  BY <1>4 DEF NothingTwice, NothingLost
<1>6. BeginInOrder /\ LinesTied
  BY DEF UsageInit, BeginInOrder, LinesTied
<1> QED  BY <1>2, <1>3, <1>5, <1>6 DEF UsageInv, ReadersModest

(* The run goes on: nobody's total becomes too high by it. *)
LEMMA BurnInv ==
  ASSUME UsageInv, NEW s \in Sids, NEW m \in Models, Burn(s, m)
  PROVE  UsageInv'
<1>1. /\ UNCHANGED <<build, usage_lines, torn, reading, told>>
      /\ \A e \in 1..(s - 1) : model_usage[build][e] # NoUsage
      /\ model_usage' = [model_usage EXCEPT ![build][s][m] = @ + 1]
  BY DEF Burn
<1>2. UsageTypes /\ model_usage \in [Builds -> [Sids -> [Models -> Nat]]] /\ build \in Builds
  BY DEF UsageInv, UsageTypes
<1> DEFINE one == [model_usage[build][s] EXCEPT ![m] = @ + 1]
           all == [model_usage[build] EXCEPT ![s] = one]
<1>3. model_usage' = [model_usage EXCEPT ![build] = all]
  BY <1>1, <1>2
<1>4. /\ one \in [Models -> Nat] /\ all \in [Sids -> [Models -> Nat]]
      /\ \A k \in Models : one[k] >= model_usage[build][s][k]
      /\ one # NoUsage
      /\ all[s] = one /\ \A e \in Sids : e # s => all[e] = model_usage[build][e]
  <2>1. one \in [Models -> Nat] /\ one[m] = model_usage[build][s][m] + 1
    BY <1>2
  <2>2. \A k \in Models : one[k] >= model_usage[build][s][k]
    <3>1. \A k \in Models : k # m => one[k] = model_usage[build][s][k]
      BY <1>2
    <3>2. \A k \in Models : model_usage[build][s][k] \in Nat
      BY <1>2
    <3> QED  BY <2>1, <3>1, <3>2
  <2>3. one # NoUsage
    <3>1. model_usage[build][s][m] \in Nat
      BY <1>2
    <3>2. one[m] # NoUsage[m]
      BY <2>1, <3>1 DEF NoUsage
    <3> QED  BY <3>2
  <2> HIDE DEF one
  <2> QED  BY <1>2, <2>1, <2>2, <2>3
<1> HIDE DEF one, all
<1>5. /\ model_usage' \in [Builds -> [Sids -> [Models -> Nat]]]
      /\ model_usage'[build] = all
      /\ \A b \in Builds : b # build => model_usage'[b] = model_usage[b]
  BY <1>2, <1>3, <1>4
<1>6. UsageTypes'
  BY <1>1, <1>2, <1>5 DEF UsageTypes
<1>7. \A b \in Builds, e \in Sids :
        /\ \A k \in Models : model_usage[b][e][k] <= model_usage'[b][e][k]
        /\ model_usage[b][e] # NoUsage => model_usage'[b][e] # NoUsage
        /\ model_usage'[b][e] # NoUsage => model_usage[b][e] # NoUsage \/ (b = build /\ e = s)
  <2> SUFFICES ASSUME NEW b \in Builds, NEW e \in Sids
               PROVE  /\ \A k \in Models : model_usage[b][e][k] <= model_usage'[b][e][k]
                      /\ model_usage[b][e] # NoUsage => model_usage'[b][e] # NoUsage
                      /\ model_usage'[b][e] # NoUsage =>
                           model_usage[b][e] # NoUsage \/ (b = build /\ e = s)
    OBVIOUS
  <2>0. \A k \in Models : model_usage[b][e][k] \in Nat /\ model_usage'[b][e][k] \in Nat
    BY <1>2, <1>5
  <2>1. CASE b = build /\ e = s
    BY <1>4, <1>5, <2>0, <2>1
  <2>2. CASE ~(b = build /\ e = s)
    <3>1. model_usage'[b][e] = model_usage[b][e]
      BY <1>4, <1>5, <2>2
    <3> QED  BY <2>0, <3>1
  <2> QED  BY <2>1, <2>2
<1>8. BeginInOrder'
  <2> SUFFICES ASSUME NEW b \in Builds, NEW k \in Sids, model_usage'[b][k] # NoUsage,
                      NEW e \in 1..(k - 1)
               PROVE  model_usage'[b][e] # NoUsage
    BY DEF BeginInOrder, NoUsage
  <2>1. e \in Sids
    BY UsageAssumption DEF Sids
  <2>2. model_usage[b][e] # NoUsage
    BY <1>1, <1>7, <2>1 DEF UsageInv, BeginInOrder
  <2> QED  BY <1>7, <2>1, <2>2
<1>9. \A b \in Builds, k \in Models :
        /\ Measures(Uses(b, k)', Sids) /\ Measures(Uses(b, k), Sids)
        /\ Burnt(b, k)' = SumFunctionOnSet(Uses(b, k)', Sids)
        /\ Burnt(b, k) = SumFunctionOnSet(Uses(b, k), Sids)
        /\ \A e \in Sids : Uses(b, k)[e] <= Uses(b, k)'[e]
  <2> SUFFICES ASSUME NEW b \in Builds, NEW k \in Models
               PROVE  /\ Measures(Uses(b, k)', Sids) /\ Measures(Uses(b, k), Sids)
                      /\ Burnt(b, k)' = SumFunctionOnSet(Uses(b, k)', Sids)
                      /\ Burnt(b, k) = SumFunctionOnSet(Uses(b, k), Sids)
                      /\ \A e \in Sids : Uses(b, k)[e] <= Uses(b, k)'[e]
    OBVIOUS
  <2>1. /\ \A e \in Sids : Uses(b, k)[e] = model_usage[b][e][k]
        /\ Measures(Uses(b, k), Sids) /\ Burnt(b, k) = SumFunctionOnSet(Uses(b, k), Sids)
    BY <1>2, BurntIs
  <2>2. \A e \in Sids : Uses(b, k)'[e] = model_usage'[b][e][k] /\ Uses(b, k)'[e] \in Nat
    BY <1>5 DEF Uses
  <2>3. Measures(Uses(b, k)', Sids)
    BY <2>2, SidsFinite DEF Measures
  <2>4. Burnt(b, k)' = SumFunctionOnSet(Uses(b, k)', Sids)
    BY DEF Burnt, SumFunction, Uses
  <2> QED  BY <1>7, <2>1, <2>2, <2>3, <2>4
<1>10. ASSUME NEW b \in Builds, NEW k \in Models, NEW S \in SUBSET Sids
       PROVE  /\ SumFunctionOnSet(Uses(b, k), S) <= SumFunctionOnSet(Uses(b, k)', S)
              /\ SumFunctionOnSet(Uses(b, k), S) \in Nat
              /\ SumFunctionOnSet(Uses(b, k)', S) \in Nat
  <2>1. Measures(Uses(b, k), S) /\ Measures(Uses(b, k)', S)
    BY <1>9, MeasuresPart
  <2>2. \A e \in S : Uses(b, k)[e] <= Uses(b, k)'[e]
    BY <1>9
  <2> QED  BY <2>1, <2>2, SumFirst, SumGrows
<1>11. NothingTwice' /\ NothingLost' /\ LinesTied'
  <2>1. \A b, k : InLedger(b, k)' = InLedger(b, k)
    BY <1>1 DEF InLedger, LineUses
  <2>2. ASSUME NEW b \in Builds, NEW k \in Models PROVE InLedger(b, k)' <= Burnt(b, k)'
    <3>1. InLedger(b, k) <= Burnt(b, k) /\ InLedger(b, k) \in Nat
      BY <1>2, InLedgerIs DEF UsageInv, NothingTwice
    <3>2. Burnt(b, k) <= Burnt(b, k)' /\ Burnt(b, k) \in Nat /\ Burnt(b, k)' \in Nat
      BY <1>9, <1>10
    <3> QED  BY <2>1, <3>1, <3>2
  <2>3. NothingLost'
    BY <1>1, <2>1 DEF UsageInv, NothingLost
  <2>4. LinesTied'
    BY <1>1 DEF UsageInv, LinesTied, Tied
  <2> QED  BY <2>2, <2>3, <2>4 DEF NothingTwice
<1>12. ReadersModest'
  <2> SUFFICES ASSUME NEW p \in UsageReaders, Read(p)
               PROVE  /\ Tied(reading[p].line)
                      /\ reading[p].at \in {"use", "ids"} => reading[p].line.build = build
                      /\ Modest(reading[p])'
    BY <1>1 DEF ReadersModest, Read, Tied
  <2> DEFINE line == reading[p].line
             part == Sids \ reading[p].todo
  <2>1. line \in AnyLine /\ part \in SUBSET Sids /\ Modest(reading[p]) /\ reading' = reading
    BY <1>1, ReadIs
  <2>2. PICK b \in Builds : b = line.build
    BY <2>1 DEF AnyLine
  <2>3. ASSUME NEW k \in Models
        PROVE  line.usage[k] <= SumFunctionOnSet(Uses(b, k)', part)
    <3>1. line.usage[k] \in Nat
      BY <2>1 DEF AnyLine
    <3>2. line.usage[k] <= SumFunctionOnSet(Uses(b, k), part)
      BY <2>1, <2>2 DEF Modest
    <3> HIDE DEF line, part
    <3>3. /\ SumFunctionOnSet(Uses(b, k), part) <= SumFunctionOnSet(Uses(b, k)', part)
          /\ SumFunctionOnSet(Uses(b, k), part) \in Nat
          /\ SumFunctionOnSet(Uses(b, k)', part) \in Nat
      BY <1>10, <2>1
    <3> QED  BY <3>1, <3>2, <3>3
  <2>4. Modest(reading[p])'
    BY <2>1, <2>2, <2>3 DEF Modest, Uses
  <2> QED  BY <2>4 DEF UsageInv, ReadersModest
<1> QED  BY <1>6, <1>8, <1>11, <1>12 DEF UsageInv

LEMMA RebuildInv == ASSUME UsageInv, Rebuild PROVE UsageInv'
<1>1. /\ build' = build + 1 /\ build < MaxBuilds
      /\ \A p \in UsageReaders : reading[p].at \notin {"use", "ids"}
      /\ reading' = [reading EXCEPT ![Review] = [at |-> "begin"]]
      /\ UNCHANGED <<model_usage, usage_lines, torn, told>>
  BY DEF Rebuild
<1>2. UsageTypes
  BY DEF UsageInv
<1>3. /\ reading' \in [UsageReaders -> {AtRest, [at |-> "begin"]} \cup Reads]
      /\ reading'[Review] = [at |-> "begin"]
      /\ \A q \in UsageReaders \ {Review} : reading'[q] = reading[q]
  BY <1>1, <1>2 DEF UsageTypes, UsageReaders
<1>4. build' \in Builds
  BY <1>1, <1>2, UsageAssumption DEF UsageTypes, Builds
<1>5. UsageTypes'
  BY <1>1, <1>2, <1>3, <1>4 DEF UsageTypes
<1>6. \A b \in Builds, m \in Models : told'[b][m] <= InLedger(b, m)
  BY <1>1 DEF UsageInv, NothingLost
<1>7. ReadersModest'
  <2>1. ASSUME NEW q \in UsageReaders, Read(q)'
        PROVE  /\ reading'[q] = reading[q] /\ Tied(reading[q].line) /\ Modest(reading[q])
               /\ reading[q].at \notin {"use", "ids"}
    <3>1. q # Review
      BY <1>3, <2>1 DEF Read
    <3>2. reading'[q] = reading[q] /\ Read(q)
      BY <1>3, <2>1, <3>1 DEF Read
    <3> QED  BY <1>1, <3>2 DEF UsageInv, ReadersModest
  <2>2. \A r : Modest(r) => Modest(r)'
    BY <1>1 DEF Modest, Uses
  <2>3. \A q \in UsageReaders : Read(q)' => Modest(reading[q])'
    BY <1>1, <2>1 DEF Modest, Uses
  <2>4. \A q \in UsageReaders : Read(q)' => Tied(reading[q].line)'
    BY <2>1 DEF Tied
  <2> QED  BY <2>1, <2>3, <2>4 DEF ReadersModest
<1> QED  BY <1>1, <1>5, <1>6, <1>7, LedgerKept DEF UsageInv

(* A reader that begins, or goes on; the rest of the state is as it was.    *)
LEMMA ReadOnInv ==
  ASSUME UsageInv, NEW p \in UsageReaders, NEW r \in Reads,
         reading' = [reading EXCEPT ![p] = r],
         UNCHANGED <<model_usage, build, usage_lines, torn, told>>,
         Tied(r.line), r.at \in {"use", "ids"} => r.line.build = build, Modest(r)
  PROVE  UsageInv'
<1>1. UsageTypes
  BY DEF UsageInv
<1>2. /\ reading' \in [UsageReaders -> {AtRest, [at |-> "begin"]} \cup Reads]
      /\ reading'[p] = r /\ \A q \in UsageReaders \ {p} : reading'[q] = reading[q]
  BY <1>1 DEF UsageTypes
<1>3. UsageTypes'
  BY <1>1, <1>2 DEF UsageTypes
<1>4. \A b \in Builds, m \in Models : told'[b][m] <= InLedger(b, m)
  BY DEF UsageInv, NothingLost
<1>5. ReadersModest'
  BY <1>2, OthersModest
<1> QED  BY <1>3, <1>4, <1>5, LedgerKept DEF UsageInv

LEMMA BegunIs ==
  ASSUME UsageTypes, NEW place \in {"use", "ids"}, NEW todo \in SUBSET Sids,
         NEW usage \in [Models -> Nat], NEW watermark \in Nat \cup {Unknown},
         NEW r, r = Begun(place, todo, usage, watermark)
  PROVE  /\ r \in Reads /\ r.at = place /\ r.todo = todo
         /\ r.line.instance = Unknown /\ r.line.build = build /\ r.line.usage = usage
<1> DEFINE line == [instance |-> Unknown, watermark |-> watermark, usage |-> usage, build |-> build]
<1>1. line \in AnyLine /\ line.instance = Unknown /\ line.build = build /\ line.usage = usage
  BY DEF AnyLine, Instance, UsageTypes
<1>2. r = [at |-> place, todo |-> todo, line |-> line]
  BY DEF Begun
<1> HIDE DEF line
<1> QED  BY <1>1, <1>2 DEF Reads

LEMMA HarvestUseInv == ASSUME UsageInv, NEW p \in Harvests, HarvestUse(p) PROVE UsageInv'
<1> DEFINE usage == [m \in Models |-> Burnt(build, m)]
           r == Begun("ids", {}, usage, Worth(usage))
<1>1. UsageTypes /\ build \in Builds
  BY DEF UsageInv, UsageTypes
<1>2. usage \in [Models -> Nat] /\ \A m \in Models : usage[m] = Burnt(build, m)
  BY <1>1, BurntIs
<1>3. Worth(usage) \in Nat
  <2>1. DOMAIN usage = Models /\ Measures(usage, Models)
    BY <1>2, UsageAssumption DEF Measures
  <2> HIDE DEF usage
  <2> QED  BY <2>1, SumFirst DEF Worth, SumFunction
<1>4. /\ reading' = [reading EXCEPT ![p] = r] /\ p \in UsageReaders
      /\ UNCHANGED <<model_usage, build, usage_lines, torn, told>>
  BY DEF HarvestUse, UsageReaders
<1> HIDE DEF usage
<1>5. /\ r \in Reads /\ r.at = "ids" /\ r.todo = {}
      /\ r.line.instance = Unknown /\ r.line.build = build /\ r.line.usage = usage
  <2>1. r = Begun("ids", {}, usage, Worth(usage))
    OBVIOUS
  <2> HIDE DEF r
  <2> QED  BY <1>1, <1>2, <1>3, <2>1, BegunIs
<1> HIDE DEF r
<1>6. Tied(r.line)
  BY <1>5 DEF Tied
<1>7. Modest(r)
  <2> SUFFICES ASSUME NEW m \in Models
               PROVE  r.line.usage[m] <= SumFunctionOnSet(Uses(r.line.build, m), Sids \ r.todo)
    BY DEF Modest
  <2>1. Sids \ r.todo = Sids
    BY <1>5
  <2>2. /\ Burnt(build, m) = SumFunctionOnSet(Uses(build, m), Sids)
        /\ Burnt(build, m) \in Nat
    BY <1>1, BurntIs
  <2> QED  BY <1>2, <1>5, <2>1, <2>2
<1> QED  BY <1>4, <1>5, <1>6, <1>7, ReadOnInv

LEMMA ReviewBeginInv == ASSUME UsageInv, ReviewBegin PROVE UsageInv'
<1>1. UsageTypes /\ build \in Builds
  BY DEF UsageInv, UsageTypes
<1>2. PICK known \in {sandboxUsageSids, {}}, named \in {{}} \cup {{s} : s \in Sids} :
        reading' = [reading EXCEPT ![Review] = Begun("use", known \cup named, NoUsage, Unknown)]
  BY DEF ReviewBegin
<1> DEFINE todo == known \cup named
           r == Begun("use", todo, NoUsage, Unknown)
<1>3. todo \in SUBSET Sids /\ NoUsage \in [Models -> Nat] /\ Review \in UsageReaders
  BY DEF sandboxUsageSids, NoUsage, UsageReaders
<1>4. UNCHANGED <<model_usage, build, usage_lines, torn, told>>
  BY DEF ReviewBegin
<1> HIDE DEF todo
<1>5. /\ r \in Reads /\ r.at = "use" /\ r.todo = todo
      /\ r.line.instance = Unknown /\ r.line.build = build /\ r.line.usage = NoUsage
  <2>1. \E w \in Nat \cup {Unknown} : r = Begun("use", todo, NoUsage, w)
    OBVIOUS
  <2> HIDE DEF r
  <2>2. PICK w \in Nat \cup {Unknown} : r = Begun("use", todo, NoUsage, w)
    BY <2>1
  <2>3. todo \in SUBSET Sids /\ NoUsage \in [Models -> Nat] /\ UsageTypes
    BY <1>1, <1>3
  <2> QED  BY <2>2, <2>3, BegunIs
<1>6. reading' = [reading EXCEPT ![Review] = r]
  BY <1>2 DEF todo
<1> HIDE DEF r
<1>7. Tied(r.line)
  BY <1>5 DEF Tied
<1>8. Modest(r)
  <2> SUFFICES ASSUME NEW m \in Models
               PROVE  r.line.usage[m] <= SumFunctionOnSet(Uses(r.line.build, m), Sids \ r.todo)
    BY DEF Modest
  <2>1. Measures(Uses(build, m), Sids)
    BY <1>1, BurntIs
  <2>2. SumFunctionOnSet(Uses(build, m), Sids \ r.todo) \in Nat
    <3>1. Sids \ r.todo \in SUBSET Sids
      OBVIOUS
    <3>2. Measures(Uses(build, m), Sids \ r.todo)
      BY <2>1, <3>1, MeasuresPart
    <3> QED  BY <3>2, SumFirst
  <2>3. NoUsage[m] = 0
    BY DEF NoUsage
  <2> QED  BY <1>5, <2>2, <2>3
<1> QED  BY <1>3, <1>4, <1>5, <1>6, <1>7, <1>8, ReadOnInv

(* A reader's record with fields replaced. *)
LEMMA LineIs ==
  ASSUME NEW line \in AnyLine
  PROVE  line = [instance |-> line.instance, watermark |-> line.watermark,
                 usage |-> line.usage, build |-> line.build]
  BY DEF AnyLine

LEMMA LineWith ==
  ASSUME NEW line \in AnyLine, NEW v
  PROVE  /\ [line EXCEPT !.usage = v]
              = [instance |-> line.instance, watermark |-> line.watermark,
                 usage |-> v, build |-> line.build]
         /\ [line EXCEPT !.instance = v]
              = [instance |-> v, watermark |-> line.watermark,
                 usage |-> line.usage, build |-> line.build]
<1> DEFINE i == line.instance
           w == line.watermark
           u == line.usage
           b == line.build
<1>1. line = [instance |-> i, watermark |-> w, usage |-> u, build |-> b]
  BY LineIs
<1> HIDE DEF i, w, u, b
<1>2. [line EXCEPT !.usage = v] = [instance |-> i, watermark |-> w, usage |-> v, build |-> b]
  BY <1>1
<1>3. [line EXCEPT !.instance = v] = [instance |-> v, watermark |-> w, usage |-> u, build |-> b]
  BY <1>1
<1> QED  BY <1>2, <1>3 DEF i, w, u, b

LEMMA ReadWith ==
  ASSUME NEW r \in Reads, NEW v
  PROVE  /\ [r EXCEPT !.at = v] = [at |-> v, todo |-> r.todo, line |-> r.line]
         /\ [r EXCEPT !.todo = v] = [at |-> r.at, todo |-> v, line |-> r.line]
         /\ [r EXCEPT !.line = v] = [at |-> r.at, todo |-> r.todo, line |-> v]
<1> DEFINE a == r.at
           t == r.todo
           l == r.line
<1>1. r = [at |-> a, todo |-> t, line |-> l]
  BY DEF Reads
<1> HIDE DEF a, t, l
<1>2. /\ [r EXCEPT !.at = v] = [at |-> v, todo |-> t, line |-> l]
      /\ [r EXCEPT !.todo = v] = [at |-> a, todo |-> v, line |-> l]
      /\ [r EXCEPT !.line = v] = [at |-> a, todo |-> t, line |-> v]
  BY <1>1
<1> QED  BY <1>2 DEF a, t, l

LEMMA querySessionInv == ASSUME UsageInv, NEW s \in Sids, querySessionPoints(s) PROVE UsageInv'
<1> DEFINE was == reading[Review]
           more == [m \in Models |-> was.line.usage[m] + model_usage[build][s][m]]
           r == [at |-> was.at, todo |-> was.todo \ {s},
                 line |-> [instance |-> was.line.instance, watermark |-> was.line.watermark,
                           usage |-> more, build |-> was.line.build]]
<1>1. /\ was.at = "use" /\ s \in was.todo /\ Review \in UsageReaders /\ Read(Review)
      /\ UNCHANGED <<model_usage, build, usage_lines, torn, told>>
      /\ reading' = [reading EXCEPT
           ![Review].todo = @ \ {s},
           ![Review].line.usage = [m \in Models |-> @[m] + model_usage[build][s][m]]]
  BY DEF querySessionPoints, Read, UsageReaders
<1>2. /\ was \in Reads /\ was.line \in AnyLine /\ was.todo \subseteq Sids
      /\ Tied(was.line) /\ Modest(was) /\ UsageTypes
      /\ reading \in [UsageReaders -> {AtRest, [at |-> "begin"]} \cup Reads]
  BY <1>1, ReadIs DEF UsageInv, UsageTypes
<1>3. /\ was.line.build = build /\ build \in Builds
      /\ was.line.usage \in [Models -> Nat]
      /\ model_usage \in [Builds -> [Sids -> [Models -> Nat]]]
  BY <1>1, <1>2 DEF UsageInv, ReadersModest, UsageTypes, AnyLine
<1>4. more \in [Models -> Nat]
  BY <1>3
<1>5. was.todo \ {s} \in SUBSET Sids /\ was.line.instance \in Instance
  BY <1>2 DEF AnyLine
<1>6. reading' = [reading EXCEPT ![Review] =
                    [[was EXCEPT !.todo = was.todo \ {s}]
                       EXCEPT !.line = [was.line EXCEPT !.usage = more]]]
  BY <1>1, <1>2
<1>7. reading' = [reading EXCEPT ![Review] = r]
  <2>1. [[was EXCEPT !.todo = was.todo \ {s}] EXCEPT !.line = [was.line EXCEPT !.usage = more]] = r
    <3> DEFINE line == [was.line EXCEPT !.usage = more]
               mid == [was EXCEPT !.todo = was.todo \ {s}]
    <3>1. line = [instance |-> was.line.instance, watermark |-> was.line.watermark,
                  usage |-> more, build |-> was.line.build]
      BY <1>2, LineWith
    <3>2. mid = [at |-> was.at, todo |-> was.todo \ {s}, line |-> was.line]
      BY <1>2, ReadWith
    <3>3. mid \in Reads
      BY <1>2, <1>5, <3>2 DEF Reads
    <3> HIDE DEF line, mid
    <3>4. [mid EXCEPT !.line = line] = [at |-> mid.at, todo |-> mid.todo, line |-> line]
      BY <3>3, ReadWith
    <3>5. mid.at = was.at /\ mid.todo = was.todo \ {s}
      BY <3>2
    <3> QED  BY <3>1, <3>4, <3>5 DEF r, mid, line
  <2> HIDE DEF was, more, r
  <2> QED  BY <1>6, <2>1
<1>8. /\ r \in Reads /\ r.at = "use" /\ r.todo = was.todo \ {s} /\ r.line.usage = more
      /\ r.line.build = build /\ r.line.instance = was.line.instance
  <2> HIDE DEF was, more
  <2> QED  BY <1>1, <1>2, <1>3, <1>4, <1>5 DEF Reads, AnyLine
<1>9. Tied(r.line)
  BY <1>2, <1>3, <1>8 DEF Tied
<1>10. Modest(r)
  <2> SUFFICES ASSUME NEW m \in Models
               PROVE  r.line.usage[m] <= SumFunctionOnSet(Uses(r.line.build, m), Sids \ r.todo)
    BY DEF Modest
  <2> DEFINE part == Sids \ was.todo
             f == Uses(build, m)
  <2>1. Measures(f, Sids) /\ f[s] = model_usage[build][s][m] /\ f[s] \in Nat
    BY <1>2, <1>3, BurntIs DEF Measures
  <2>2. Sids \ r.todo = part \cup {s} /\ s \notin part /\ part \cup {s} \in SUBSET Sids
        /\ (part \cup {s}) \ {s} = part
    BY <1>1, <1>2, <1>8
  <2>3. was.line.usage[m] <= SumFunctionOnSet(f, part)
    BY <1>2, <1>3 DEF Modest
  <2>4. more[m] = was.line.usage[m] + f[s] /\ was.line.usage[m] \in Nat
    BY <1>3, <2>1
  <2> HIDE DEF f, part, r, more, was
  <2>5. Measures(f, part \cup {s}) /\ Measures(f, part)
    BY <2>1, <2>2, MeasuresPart
  <2>6. SumFunctionOnSet(f, part \cup {s}) = f[s] + SumFunctionOnSet(f, part)
    BY <2>2, <2>5, SumAny
  <2>7. SumFunctionOnSet(f, part) \in Nat
    BY <2>5, SumFirst
  <2>8. more[m] <= SumFunctionOnSet(f, part \cup {s})
    BY <2>1, <2>3, <2>4, <2>6, <2>7
  <2> QED  BY <1>8, <2>2, <2>8 DEF f
<1> HIDE DEF r
<1> QED  BY <1>1, <1>7, <1>8, <1>9, <1>10, ReadOnInv

LEMMA ReadSidsInv == ASSUME UsageInv, NEW p \in UsageReaders, ReadSids(p) PROVE UsageInv'
<1> DEFINE was == reading[p]
<1>1. /\ was.at \in {"use", "ids"} /\ Read(p)
      /\ UNCHANGED <<model_usage, build, usage_lines, torn, told>>
  BY DEF ReadSids, Read
<1>2. /\ was \in Reads /\ was.line \in AnyLine /\ was.todo \subseteq Sids
      /\ Modest(was) /\ UsageTypes /\ build \in Builds
      /\ reading \in [UsageReaders -> {AtRest, [at |-> "begin"]} \cup Reads]
  BY <1>1, ReadIs DEF UsageInv, UsageTypes
<1>3. was.line.build = build
  BY <1>1 DEF UsageInv, ReadersModest
<1>4. CASE Worth(was.line.usage) = 0
  <2>1. UsageRest(p)
    BY <1>4 DEF ReadSids
  <2>2. /\ torn' \in BOOLEAN /\ told' \in [Builds -> [Models -> Nat]]
        /\ \A b \in Builds, m \in Models : told'[b][m] <= InLedger(b, m)
    BY <1>1 DEF UsageInv, UsageTypes, NothingLost
  <2> QED  BY <1>1, <2>1, <2>2, RestInv
<1>5. CASE Worth(was.line.usage) # 0
  <2> DEFINE place == IF p = Review THEN "append" ELSE "plan"
  <2>1. PICK instance \in {InstanceNow, Unknown} :
          reading' = [reading EXCEPT ![p].line.instance = instance, ![p].at = place]
    BY <1>5 DEF ReadSids
  <2> DEFINE r == [at |-> place, todo |-> was.todo,
                   line |-> [instance |-> instance, watermark |-> was.line.watermark,
                             usage |-> was.line.usage, build |-> was.line.build]]
             line == [was.line EXCEPT !.instance = instance]
             mid == [was EXCEPT !.line = line]
  <2>2. reading' = [reading EXCEPT ![p] = [mid EXCEPT !.at = place]]
    BY <1>2, <2>1
  <2>3. instance \in Instance /\ (instance # Unknown =>
          \E P \in SUBSET Sids : Earliest(P) /\ instance = {build} \X P)
    <3>1. CASE instance = Unknown
      BY <3>1 DEF Instance
    <3>2. CASE instance # Unknown
      <4>1. instance = {build} \X sandboxUsageSids /\ sandboxUsageSids # {}
        BY <3>2 DEF InstanceNow
      <4>2. sandboxUsageSids \in SUBSET Sids
        BY DEF sandboxUsageSids
      <4>3. Earliest(sandboxUsageSids)
        <5> SUFFICES ASSUME NEW s \in sandboxUsageSids, NEW e \in 1..s
                     PROVE  e \in sandboxUsageSids
          BY <4>1 DEF Earliest
        <5>1. s \in Sids /\ s \in Nat /\ e \in Sids
          BY SidsFinite, UsageAssumption DEF sandboxUsageSids, Sids
        <5>2. CASE e = s
          BY <5>2
        <5>3. CASE e # s
          <6>1. e \in 1..(s - 1)
            BY <5>1, <5>3
          <6>2. model_usage[build][e] # NoUsage
            BY <1>2, <5>1, <6>1 DEF UsageInv, BeginInOrder, sandboxUsageSids
          <6> QED  BY <5>1, <6>2 DEF sandboxUsageSids
        <5> QED  BY <5>2, <5>3
      <4>4. {build} \X sandboxUsageSids \in SUBSET SessionIds
        BY <1>2, <4>2 DEF SessionIds
      <4> QED  BY <4>1, <4>2, <4>3, <4>4 DEF Instance
    <3> QED  BY <3>1, <3>2
  <2>4. line = [instance |-> instance, watermark |-> was.line.watermark,
                usage |-> was.line.usage, build |-> was.line.build]
    BY <1>2, LineWith
  <2>5. line \in AnyLine
    BY <1>2, <2>3, <2>4 DEF AnyLine
  <2>6. [mid EXCEPT !.at = place] = r
    <3> HIDE DEF was, line
    <3>1. mid = [at |-> was.at, todo |-> was.todo, line |-> line]
      BY <1>2, ReadWith
    <3>2. mid \in Reads /\ mid.todo = was.todo /\ mid.line = line
      BY <1>2, <2>5, <3>1 DEF Reads
    <3> HIDE DEF mid, place
    <3>3. [mid EXCEPT !.at = place] = [at |-> place, todo |-> mid.todo, line |-> mid.line]
      BY <3>2, ReadWith
    <3> QED  BY <2>4, <3>2, <3>3 DEF r, line
  <2>7. /\ r \in Reads /\ r.at \notin {"use", "ids"} /\ r.todo = was.todo
        /\ r.line.usage = was.line.usage /\ r.line.build = build /\ r.line.instance = instance
    <3>1. r.line = line
      BY <2>4
    <3>2. place \in {"plan", "append"}
      OBVIOUS
    <3>3. r.at = place /\ r.todo = was.todo
      OBVIOUS
    <3>4. /\ r.line.usage = was.line.usage /\ r.line.build = was.line.build
          /\ r.line.instance = instance
      OBVIOUS
    <3>5. r = [at |-> place, todo |-> was.todo, line |-> line]
      BY <2>4
    <3> HIDE DEF place, line, r
    <3>6. r \in Reads
      BY <1>2, <2>5, <3>2, <3>5 DEF Reads
    <3>7. place \notin {"use", "ids"}
      BY <3>2
    <3> QED  BY <1>3, <3>3, <3>4, <3>6, <3>7
  <2>8. reading' = [reading EXCEPT ![p] = r]
    <3> HIDE DEF r, mid, place
    <3> QED  BY <2>2, <2>6
  <2> HIDE DEF r
  <2>9. Tied(r.line)
    BY <2>3, <2>7 DEF Tied
  <2>10. Modest(r)
    BY <1>2, <1>3, <2>7 DEF Modest
  <2> QED  BY <1>1, <2>7, <2>8, <2>9, <2>10, ReadOnInv
<1> QED  BY <1>4, <1>5

(* What is told is in the ledger already. *)
LEMMA CoveredInv ==
  ASSUME UsageInv, NEW p \in UsageReaders, Read(p), UsageRest(p),
         Weighed(reading[p].line) = "covered", Reported(reading[p].line),
         UNCHANGED <<model_usage, build, usage_lines, torn>>
  PROVE  UsageInv'
<1> DEFINE line == reading[p].line
<1>1. line \in AnyLine /\ Tied(line) /\ UsageTypes /\ NothingLost
  BY ReadIs DEF UsageInv
<1>2. Weighed(line) = "covered" /\ Reported(line)
  OBVIOUS
<1> HIDE DEF line
<1>3. /\ told' \in [Builds -> [Models -> Nat]]
      /\ \A b \in Builds, m \in Models :
           told'[b][m] = IF line.instance # Unknown /\ b = line.build
                            /\ line.usage[m] > told[b][m]
                         THEN line.usage[m] ELSE told[b][m]
  BY <1>1, <1>2, ToldIs
<1>4. \A m \in Models : line.instance # Unknown => line.usage[m] <= InLedger(line.build, m)
  BY <1>1, <1>2, WeighedIs
<1>5. \A b \in Builds, m \in Models : told'[b][m] <= InLedger(b, m)
  BY <1>1, <1>3, <1>4 DEF NothingLost
<1>6. torn' \in BOOLEAN
  BY <1>1 DEF UsageTypes
<1> QED  BY <1>3, <1>5, <1>6, RestInv

LEMMA AppendedInv ==
  ASSUME UsageInv, NEW p \in UsageReaders, Read(p), UsageRest(p),
         Weighed(reading[p].line) = "more", Reported(reading[p].line),
         usage_lines' = Append(usage_lines, Delta(reading[p].line)),
         UNCHANGED <<model_usage, build, torn>>
  PROVE  UsageInv'
<1> DEFINE line == reading[p].line
           d == Delta(line)
<1>1. /\ line \in AnyLine /\ Tied(line) /\ UsageTypes /\ NothingLost /\ NothingTwice
      /\ LinesTied /\ BeginInOrder
      /\ \A m \in Models : line.usage[m] <= Burnt(line.build, m)
  BY ReadIs DEF UsageInv
<1>2. Weighed(line) = "more" /\ Reported(line) /\ usage_lines' = Append(usage_lines, d)
  OBVIOUS
<1>3. reading \in [UsageReaders -> {AtRest, [at |-> "begin"]} \cup Reads]
  BY <1>1 DEF UsageTypes
<1>4. /\ reading' \in [UsageReaders -> {AtRest, [at |-> "begin"]} \cup Reads]
      /\ reading'[p] = AtRest /\ \A q \in UsageReaders \ {p} : reading'[q] = reading[q]
  BY <1>3 DEF UsageRest
<1> HIDE DEF line
<1>5. /\ told' \in [Builds -> [Models -> Nat]]
      /\ \A b \in Builds, m \in Models :
           told'[b][m] = IF line.instance # Unknown /\ b = line.build
                            /\ line.usage[m] > told[b][m]
                         THEN line.usage[m] ELSE told[b][m]
  BY <1>1, <1>2, ToldIs
<1>6. d = [line EXCEPT !.usage = d.usage] /\ d.build = line.build /\ d.instance = line.instance
      /\ d \in AnyLine
  <2> DEFINE more == [m \in Models |->
                IF line.usage[m] > Existing(line, m) THEN line.usage[m] - Existing(line, m) ELSE 0]
  <2>1. d = [line EXCEPT !.usage = more]
    BY DEF Delta
  <2>2. ~Unproven(line)
    BY <1>1, <1>2 DEF Weighed, UsageTypes
  <2>3. more \in [Models -> Nat]
    <3>1. \A m \in Models : Existing(line, m) \in Nat /\ line.usage[m] \in Nat
      BY <1>1, <2>2, ExistingIs DEF AnyLine
    <3> QED  BY <3>1
  <2> HIDE DEF more, d
  <2>4. d = [instance |-> line.instance, watermark |-> line.watermark,
             usage |-> more, build |-> line.build]
    BY <1>1, <2>1, LineWith
  <2>5. d.usage = more
    BY <2>4
  <2> QED  BY <1>1, <2>1, <2>3, <2>4, <2>5 DEF AnyLine
<1>7. \A m \in Models :
        /\ d.usage[m] + InLedger(line.build, m) <= line.usage[m]
        /\ line.instance # Unknown => d.usage[m] + InLedger(line.build, m) = line.usage[m]
  BY <1>1, <1>2, WeighedIs
<1> HIDE DEF d
<1>8. UsageTypes'
  BY <1>1, <1>2, <1>4, <1>5, <1>6 DEF UsageTypes
<1>9. \A b \in Builds, m \in Models :
        InLedger(b, m)' = IF d.build = b THEN d.usage[m] + InLedger(b, m) ELSE InLedger(b, m)
  BY <1>1, <1>2, <1>6, <1>8, LedgerGrows
<1>10. \A b \in Builds, m \in Models :
         /\ InLedger(b, m) \in Nat /\ d.usage[m] \in Nat /\ told[b][m] \in Nat
         /\ Burnt(b, m) \in Nat /\ line.usage[m] \in Nat
  BY <1>1, <1>6, InLedgerIs, BurntIs DEF AnyLine, UsageTypes
<1>11. line.build \in Builds
  BY <1>1 DEF AnyLine
<1>12. NothingTwice'
  <2>1. ASSUME NEW b \in Builds, NEW m \in Models PROVE InLedger(b, m)' <= Burnt(b, m)
    <3>1. CASE b = line.build
      <4>1. InLedger(b, m)' = d.usage[m] + InLedger(b, m)
        BY <1>6, <1>9, <3>1
      <4>2. d.usage[m] + InLedger(b, m) <= line.usage[m] /\ line.usage[m] <= Burnt(b, m)
        BY <1>1, <1>7, <3>1
      <4> QED  BY <1>10, <4>1, <4>2
    <3>2. CASE b # line.build
      BY <1>1, <1>6, <1>9, <3>2 DEF NothingTwice
    <3> QED  BY <3>1, <3>2
  <2>2. \A b, m : Burnt(b, m)' = Burnt(b, m)
    BY DEF Burnt, Uses
  <2> QED  BY <2>1, <2>2 DEF NothingTwice
<1>13. NothingLost'
  <2>1. ASSUME NEW b \in Builds, NEW m \in Models PROVE told'[b][m] <= InLedger(b, m)'
    <3>0. told[b][m] <= InLedger(b, m)
      BY <1>1 DEF NothingLost
    <3>1. InLedger(b, m) <= InLedger(b, m)' /\ InLedger(b, m)' \in Nat
      BY <1>9, <1>10
    <3>2. CASE told'[b][m] = told[b][m]
      BY <1>10, <3>0, <3>1, <3>2
    <3>3. CASE told'[b][m] # told[b][m]
      <4>1. told'[b][m] = line.usage[m] /\ line.instance # Unknown /\ b = line.build
        BY <1>5, <3>3
      <4>2. InLedger(b, m)' = line.usage[m]
        BY <1>6, <1>7, <1>9, <4>1
      <4> QED  BY <1>10, <4>1, <4>2
    <3> QED  BY <3>2, <3>3
  <2> QED  BY <2>1 DEF NothingLost
<1>14. LinesTied'
  <2> DEFINE n == Len(usage_lines)
  <2>1. /\ usage_lines \in Seq(AnyLine) /\ n \in Nat /\ DOMAIN usage_lines = 1..n
        /\ DOMAIN usage_lines' = 1..(n + 1)
        /\ \A i \in 1..n : usage_lines'[i] = usage_lines[i]
        /\ usage_lines'[n + 1] = d
    BY <1>1, <1>2, <1>6 DEF UsageTypes
  <2>2. Tied(d)
    BY <1>1, <1>6 DEF Tied
  <2>3. \A i \in 1..(n + 1) : i \in 1..n \/ i = n + 1
    BY <2>1
  <2>4. \A i \in DOMAIN usage_lines' : Tied(usage_lines'[i])
    BY <1>1, <2>1, <2>2, <2>3 DEF LinesTied
  <2> QED  BY <2>4 DEF LinesTied, Tied
<1>15. BeginInOrder'
  BY <1>1 DEF BeginInOrder
<1>16. ReadersModest'
  <2>1. ~Read(p)'
    BY <1>4 DEF Read, AtRest
  <2> QED  BY <1>4, <2>1, OthersModest
<1> QED  BY <1>8, <1>12, <1>13, <1>14, <1>15, <1>16 DEF UsageInv

LEMMA PlanInv == ASSUME UsageInv, NEW p \in Harvests, Plan(p) PROVE UsageInv'
<1> DEFINE was == reading[p]
<1>1. /\ was.at = "plan" /\ Read(p) /\ p \in UsageReaders
      /\ UNCHANGED <<model_usage, build, usage_lines, torn>>
  BY DEF Plan, Read, UsageReaders
<1>2. /\ was \in Reads /\ was.line \in AnyLine /\ was.todo \subseteq Sids
      /\ Tied(was.line) /\ Modest(was)
  BY <1>1, ReadIs
<1>3. CASE Weighed(was.line) = "more"
  <2> DEFINE r == [at |-> "append", todo |-> was.todo, line |-> was.line]
  <2>1. reading' = [reading EXCEPT ![p].at = "append"] /\ UNCHANGED told
    BY <1>3 DEF Plan, To_
  <2>2. [was EXCEPT !.at = "append"] = r
    BY <1>2, ReadWith
  <2>3. reading' = [reading EXCEPT ![p] = [was EXCEPT !.at = "append"]]
    BY <2>1
  <2>4. reading' = [reading EXCEPT ![p] = r]
    <3> HIDE DEF r
    <3> QED  BY <2>2, <2>3
  <2>5. r \in Reads /\ r.at = "append" /\ r.line = was.line /\ r.todo = was.todo
    BY <1>2 DEF Reads
  <2> HIDE DEF r
  <2>6. Tied(r.line) /\ Modest(r)
    BY <1>2, <2>5 DEF Modest
  <2> QED  BY <1>1, <2>1, <2>4, <2>5, <2>6, ReadOnInv
<1>4. CASE Weighed(was.line) = "covered"
  <2>1. UsageRest(p) /\ Reported(was.line)
    BY <1>4 DEF Plan
  <2> QED  BY <1>1, <1>4, <2>1, CoveredInv
<1>5. CASE Weighed(was.line) \notin {"more", "covered"}
  <2>1. UsageRest(p) /\ UNCHANGED told
    BY <1>5 DEF Plan
  <2>2. /\ torn' \in BOOLEAN /\ told' \in [Builds -> [Models -> Nat]]
        /\ \A b \in Builds, m \in Models : told'[b][m] <= InLedger(b, m)
    BY <1>1, <2>1 DEF UsageInv, UsageTypes, NothingLost
  <2> QED  BY <1>1, <2>1, <2>2, RestInv
<1> QED  BY <1>3, <1>4, <1>5

LEMMA AppendInv ==
  ASSUME UsageInv, NEW p \in UsageReaders, Append_usage(p) \/ AppendRefused(p) \/ Tear(p)
  PROVE  UsageInv'
<1>1. Read(p)
  BY DEF Append_usage, AppendRefused, Tear, Read
<1>2. CASE Append_usage(p) /\ usage_lines' # usage_lines
  BY <1>1, <1>2, AppendedInv DEF Append_usage
<1>3. CASE Append_usage(p) /\ usage_lines' = usage_lines
  <2>1. CASE Weighed(reading[p].line) = "covered"
    BY <1>1, <1>3, <2>1, CoveredInv DEF Append_usage
  <2>2. CASE Weighed(reading[p].line) # "covered"
    BY <1>1, <1>3, <2>2, AppendedInv DEF Append_usage
  <2> QED  BY <2>1, <2>2
<1>4. CASE AppendRefused(p) \/ Tear(p)
  <2>1. /\ UsageRest(p) /\ torn' \in BOOLEAN
        /\ UNCHANGED <<model_usage, build, usage_lines, told>>
    BY <1>4 DEF AppendRefused, Tear, UsageInv, UsageTypes
  <2>2. /\ told' \in [Builds -> [Models -> Nat]]
        /\ \A b \in Builds, m \in Models : told'[b][m] <= InLedger(b, m)
    BY <2>1 DEF UsageInv, UsageTypes, NothingLost
  <2> QED  BY <2>1, <2>2, RestInv
<1> QED  BY <1>2, <1>3, <1>4

LEMMA SameReaders ==
  ASSUME UsageInv, UNCHANGED <<model_usage, build, usage_lines, reading, told>>, torn' \in BOOLEAN
  PROVE  UsageInv'
<1>1. UsageTypes'
  BY DEF UsageInv, UsageTypes
<1>2. \A b \in Builds, m \in Models : told'[b][m] <= InLedger(b, m)
  BY DEF UsageInv, NothingLost
<1>3. ReadersModest'
  BY DEF UsageInv, ReadersModest, Read, Tied, Modest, Uses
<1> QED  BY <1>1, <1>2, <1>3, LedgerKept DEF UsageInv

LEMMA UsageStepInv == UsageInv /\ [UsageNext]_usage_vars => UsageInv'
<1> SUFFICES ASSUME UsageInv, [UsageNext]_usage_vars PROVE UsageInv'
  OBVIOUS
<1>1. CASE UNCHANGED usage_vars
  BY <1>1, SameReaders DEF usage_vars, UsageInv, UsageTypes
<1>2. CASE RepairLedger
  BY <1>2, SameReaders DEF RepairLedger
<1>3. CASE \E s \in Sids : querySessionPoints(s) \/ \E m \in Models : Burn(s, m)
  BY <1>3, querySessionInv, BurnInv
<1>4. CASE \E p \in Harvests : HarvestUse(p) \/ Plan(p)
  BY <1>4, HarvestUseInv, PlanInv
<1>5. CASE \E p \in UsageReaders : ReadSids(p) \/ Append_usage(p) \/ AppendRefused(p) \/ Tear(p)
  BY <1>5, ReadSidsInv, AppendInv
<1> QED
  BY <1>1, <1>2, <1>3, <1>4, <1>5, RebuildInv, ReviewBeginInv DEF UsageNext

(* Whatever the models, however often the run is made again and however many *)
(* harvests bring what they read late, what a run used is in the ledger no   *)
(* more than once, and what a reader was told is there is there              *)
(* (appendSandboxUsageSnapshot, sandboxUsageSnapshotDelta): a line that      *)
(* nothing speaks against is weighed against all the lines of its build.     *)
THEOREM UseIsCountedOnce == UsageSpec => []UseCountedOnce
<1>1. UsageInv => UseCountedOnce
  BY DEF UsageInv, UseCountedOnce
<1> QED
  BY <1>1, UsageInitInv, UsageStepInv, PTL DEF UsageSpec

=============================================================================
