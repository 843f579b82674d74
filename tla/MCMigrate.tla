------------------------------ MODULE MCMigrate ------------------------------
(* The two migrations on small instances: the queue to SQLite, and the       *)
(* records of an older version to drafts.  A behaviour is about one.        *)
EXTENDS Migrate, OldRecords, TLC

CONSTANTS p1, p2, w1, w2, a1, a2, t1, t2, q1, q2

TwoProcs == {p1, p2}
TwoSavers == {w1, w2}
TwoAppliers == {a1, a2}
TwoTasks == {t1, t2}
TwoTexts == {q1, q2}

VARIABLE about

MCInit ==
  /\ about \in {"queue", "records"}
  /\ Init /\ OldInit

MCNext ==
  /\ UNCHANGED about
  /\ \/ about = "queue" /\ Next /\ UNCHANGED old_vars
     \/ about = "records" /\ OldNext /\ UNCHANGED vars

MCSpec == MCInit /\ [][MCNext]_<<about, vars, old_vars>>

(* What was there, carried over or not, is kept by both. *)
KeptByBoth == InstalledKept /\ ConversionsKept

(* One list is saved late over a migration that is killed once and run again, *)
(* and two over one that is not; two kills leave the ledger empty.          *)
Saving == {w \in Savers : save[w] # None}

Stories ==
  /\ Saving # {} => kills <= 1 /\ calls <= 2
  /\ Cardinality(Saving) > 1 => kills = 0 /\ calls <= 1
  /\ kills > 1 => \A c \in accepted : c.what # "charge"

Alike ==
  Permutations(Procs) \cup Permutations(Appliers) \cup Permutations(Tasks) \cup Permutations(Texts)
=============================================================================
