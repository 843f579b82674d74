------------------------------ MODULE MCQueue ------------------------------
(* The queue on two items, of which the second waits for the first and is    *)
(* delivered, and the ledger of what two models used.  A behaviour is about  *)
(* one of them.                                                              *)
EXTENDS Queue, UsageLedger

CONSTANTS d1, m1, m2

OneProc == {d1}
TwoItems == {1, 2}
Chain == [i \in Items |-> IF i = 1 THEN {} ELSE {1} \cap Items]
OneDelivered == {2}
BothStores == {"json", "sqlite"}
WithWall == {0, 2}
Everything == {"cancel", "slot", "pick one"}
TwoModels == {m1, m2}

VARIABLE about

MCInit ==
  /\ about \in {"queue", "usage"}
  /\ Init /\ UsageInit
  /\ about = "usage" => store = "json" /\ limits.wall = 0 /\ ~limits.points

MCNext ==
  /\ UNCHANGED about
  /\ \/ about = "queue" /\ Next /\ UNCHANGED usage_vars
     \/ about = "usage" /\ UsageNext /\ UNCHANGED vars

MCSpec == MCInit /\ [][MCNext]_<<about, vars, usage_vars>>

(* One dispatch is given up, and its item dispatched again; usage is missing where there
   is a points limit that asks for it. *)
Retried ==
  /\ Cardinality({n \in DOMAIN txs : txs[n].phase \in {"killed", "reconciled-orphan"}}) <= 1
  /\ limits.points \/ \A e \in ledger : e.kind # "metering-absent"

(* The first model to be used is m1. *)
FirstModel == burns = 1 => \E b \in Builds : Burnt(b, m1) = 1
=============================================================================
