------------------------------- MODULE Migrate -------------------------------
(***************************************************************************)
(* The move of the queue from JSON files to SQLite                          *)
(* (src/core/sqlite-migrate.js), next to the writers it moves the ground    *)
(* from under.  A migration looks for an unfinished run in the journal,     *)
(* takes the lock of the loop, and goes through backup, import, reconcile,  *)
(* install and commit, each recorded when it is done; killed anywhere, the  *)
(* next one goes on from the journal.  The database is authoritative as     *)
(* soon as its file exists; what the JSON files were is kept in it, and     *)
(* every dispatch refuses to begin when they changed since.                 *)
(*                                                                         *)
(* Three families: the queue, written under the lock only; the dispatch     *)
(* transactions, which a running dispatch patches without it; and the       *)
(* budget ledger, which a failed dispatch appends to without it.  The       *)
(* content of a family is the set of changes made to it; the empty set is a *)
(* file that does not exist.  Lock: LoopLock.                               *)
(***************************************************************************)
EXTENDS Naturals, FiniteSets

CONSTANTS
  Procs,        \* lzy migrate sqlite processes
  Savers,       \* dispatches, which save a list without the lock
  MaxRuns,      \* bound: calls of it
  MaxKills,     \* bound: of them killed
  MaxWrites,    \* bound: changes to the queue and the dispatches
  None

ASSUME BoundsAssumption == MaxRuns \in Nat /\ MaxKills \in Nat /\ MaxWrites \in Nat

Families == {"queue", "dispatch", "ledger"}
Changes == [n : 1..MaxWrites, what : {"add", "grant", "open", "patch", "settle", "charge"}]
Contents == [Families -> SUBSET Changes]
Runs == 1..MaxRuns
Phases == {"start", "backup", "import", "reconcile", "install", "commit", "done"}
Databases == [content : Contents, frozen : Contents \cup {None}]
Saves == [at : {"read", "write", "land"}, what : {"patch", "settle", "charge", "nothing"},
          list : SUBSET Changes]

ASSUME NoneAssumption ==
  None \notin Procs \cup Saves /\ None \notin Runs /\ None \notin Phases /\ None \notin Contents /\ None \notin Databases

VARIABLES
  json,      \* queue.json, dispatch.json and ledger.json
  db,        \* state.sqlite: its content and json_frozen; None when there is no file
  marker,    \* state.backend.json exists
  journal,   \* per run: the phases recorded, the last of them, the import entry
  newer,     \* pairs of runs: the journal of the first was written after the other's
  staged,    \* per run: staged.sqlite, or None
  lock,      \* the process in the locked section, or None
  mig,       \* per process: where it stands, its run and its view of the journal
  save,      \* per saver: how far it is with a family and the list it read, or None
  accepted,  \* history: the changes whose writer was told they are made
  savedOver, \* history: of them, those a list was saved over that was read before
  overtaken, \* history: a migration went on from a view that was out of date
  calls, kills, writes

vars == <<json, db, marker, journal, newer, staged, lock, mig, save, accepted, savedOver,
          overtaken, calls, kills, writes>>
store == <<json, db, marker>>
files == <<store, journal, newer, staged>>
others == <<save, accepted, savedOver, calls, kills, writes>>

Empty == [f \in Families |-> {}]
NoJournal == [phases |-> {}, last |-> None, import |-> None]
Idle == [at |-> "idle", run |-> 0, view |-> NoJournal, fresh |-> TRUE, copy |-> None, frozen |-> None]

TypeOK ==
  /\ json \in Contents
  /\ db \in Databases \cup {None}
  /\ marker \in BOOLEAN /\ overtaken \in BOOLEAN
  /\ \A r \in Runs : journal[r].phases \subseteq Phases
  /\ \A r \in Runs : staged[r] = None \/ staged[r] \in Contents
  /\ lock \in Procs \cup {None} /\ newer \subseteq Runs \X Runs

Init ==
  /\ json = Empty /\ db = None /\ marker = FALSE
  /\ journal = [r \in Runs |-> NoJournal] /\ newer = {}
  /\ staged = [r \in Runs |-> None]
  /\ lock = None /\ mig = [p \in Procs |-> Idle] /\ save = [w \in Savers |-> None]
  /\ accepted = {} /\ savedOver = {} /\ overtaken = FALSE
  /\ calls = 0 /\ kills = 0 /\ writes = 0

(***************************************************************************)
(* The store behind every reader and writer.                               *)
(***************************************************************************)
stateBackend == IF db # None THEN "sqlite" ELSE IF marker THEN "missing" ELSE "json"

Source == IF db # None THEN db.content ELSE json

Of(f, what) == {c \in Source[f] : c.what = what}

(* A transaction is open, so a dispatch is under way. *)
Active == Cardinality(Of("dispatch", "open")) > Cardinality(Of("dispatch", "settle"))

Rows(content) ==
  [what \in {"add", "open", "settle", "charge"} |->
     Cardinality({c \in UNION {content[f] : f \in Families} : c.what = what})]

(* assertNoJsonMiswrite: a family that is there and is not what was frozen.  *)
Miswrite ==
  /\ db # None /\ db.frozen # None
  /\ \E f \in Families : json[f] # {} /\ json[f] # db.frozen[f]

(***************************************************************************)
(* Writers.                                                                *)
(***************************************************************************)
Change(what) == [n |-> writes + 1, what |-> what]

Counted(change) == writes < MaxWrites /\ writes' = writes + 1 /\ accepted' = accepted \cup {change}

Stored(f, change) ==
  /\ stateBackend # "missing"
  /\ IF db # None
     THEN db' = [db EXCEPT !.content[f] = @ \cup {change}] /\ UNCHANGED json
     ELSE json' = [json EXCEPT ![f] = @ \cup {change}] /\ UNCHANGED db
  /\ UNCHANGED <<marker, journal, newer, staged>>

(* Under the lock: adding an item (a row more) or granting one (the same      *)
(* rows); charging the ledger; patching and settling a transaction; and     *)
(* opening one, which comes after reconcileDispatch.                        *)
Family(what) == IF what \in {"add", "grant"} THEN "queue"
                ELSE IF what = "charge" THEN "ledger" ELSE "dispatch"

Write(what) == Stored(Family(what), Change(what)) /\ Counted(Change(what))

LockedWrite ==
  /\ lock = None
  /\ \/ \E what \in {"add", "grant", "charge"} : Write(what)
     \/ Active /\ \E what \in {"patch", "settle"} : Write(what)
     \/ ~Active /\ ~Miswrite /\ Write("open")
  /\ UNCHANGED <<lock, mig, save, savedOver, overtaken, calls, kills>>

(* Without it a dispatch patches its transaction while it is open, settles   *)
(* it after a failed drive, and then saves the list once more as it is and  *)
(* charges the ledger.                                                      *)
Unlocked(what) ==
  IF what \in {"patch", "settle"} THEN Active ELSE Of("dispatch", "settle") # {}

(* One transaction of SQLite. *)
DbWrite ==
  /\ db # None
  /\ \E what \in {"patch", "settle", "charge"} : Unlocked(what) /\ Write(what)
  /\ UNCHANGED <<lock, mig, save, savedOver, overtaken, calls, kills>>

(* With JSON patchTx and appendLedgerEntry read the list, change it and save *)
(* it.  Which store there is was looked up before; it is looked up again for *)
(* the read, and once more for the save.                                    *)
SaveBegin(w) ==
  /\ save[w] = None /\ stateBackend = "json" /\ writes < MaxWrites
  /\ \E what \in {"patch", "settle", "charge", "nothing"} :
       /\ Unlocked(what)
       /\ save' = [save EXCEPT ![w] = [at |-> "read", what |-> what, list |-> {}]]
  /\ UNCHANGED <<files, lock, mig, accepted, savedOver, overtaken, calls, kills, writes>>

SaveAt(w, place) == save[w] # None /\ save[w].at = place

(* A transaction is patched in a list that has it. *)
SaveRead(w) ==
  LET f == Family(save[w].what) IN
  /\ SaveAt(w, "read")
  /\ save' = [save EXCEPT ![w] =
       IF stateBackend = "missing" \/ (f = "dispatch" /\ Of(f, "open") = {}) THEN None
       ELSE [@ EXCEPT !.at = "write", !.list = Source[f]]]
  /\ UNCHANGED <<files, lock, mig, accepted, savedOver, overtaken, calls, kills, writes>>

(* The saver's list, with its change, takes the place of what is there.      *)
Replaced(w, there) ==
  LET what == save[w].what IN
  /\ savedOver' = savedOver \cup (there \ save[w].list)
  /\ save' = [save EXCEPT ![w] = None]
  /\ IF what = "nothing" THEN UNCHANGED <<accepted, writes>> ELSE Counted(Change(what))
  /\ UNCHANGED <<marker, journal, newer, staged, lock, mig, overtaken, calls, kills>>

Saved(w) ==
  LET what == save[w].what IN
  save[w].list \cup (IF what = "nothing" THEN {} ELSE {Change(what)})

(* When there is a database by now, rows that are not in the list are        *)
(* deleted from it; else a file is on its way.                              *)
SaveDb(w) ==
  LET f == Family(save[w].what) IN
  /\ SaveAt(w, "write") /\ stateBackend = "sqlite"
  /\ db' = [db EXCEPT !.content[f] = Saved(w)]
  /\ Replaced(w, db.content[f])
  /\ UNCHANGED json

SaveFile(w) ==
  /\ SaveAt(w, "write") /\ stateBackend # "sqlite"
  /\ save' = [save EXCEPT ![w] =
       IF stateBackend = "missing" THEN None ELSE [@ EXCEPT !.at = "land"]]
  /\ UNCHANGED <<files, lock, mig, accepted, savedOver, overtaken, calls, kills, writes>>

SaveLands(w) ==
  LET f == Family(save[w].what) IN
  /\ SaveAt(w, "land")
  /\ json' = [json EXCEPT ![f] = Saved(w)]
  /\ Replaced(w, json[f])
  /\ UNCHANGED db

(* A command of an older version, which knows the lock but not the database. *)
OldWrite ==
  /\ lock = None /\ db # None
  /\ json' = [json EXCEPT !["queue"] = @ \cup {Change("add")}]
  /\ Counted(Change("add"))
  /\ UNCHANGED <<db, marker, journal, newer, staged, lock, mig, save, savedOver, overtaken,
                 calls, kills>>

(***************************************************************************)
(* The migration.                                                          *)
(***************************************************************************)
Journaled == {r \in Runs : journal[r].last # None}
Unfinished == {r \in Journaled : journal[r].last # "done"}

(* The one whose journal was written last. *)
lastIncompleteRun ==
  IF Unfinished = {} THEN None
  ELSE CHOOSE r \in Unfinished : \A q \in Unfinished \ {r} : <<r, q>> \in newer

Append(p, phase, import) ==
  LET r == mig[p].run IN
  /\ journal' = [journal EXCEPT ![r] =
                   [phases |-> @.phases \cup {phase}, last |-> phase, import |-> import]]
  /\ newer' = {pair \in newer : r \notin {pair[1], pair[2]}} \cup ({r} \X (Journaled \ {r}))

Record(p, phase) == Append(p, phase, journal[mig[p].run].import)

Seen(p, phase) == phase \in mig[p].view.phases

Goto(p, place) == mig' = [mig EXCEPT ![p].at = place]

(* An error, or the end: the section is left. *)
Leave(p) == mig' = [mig EXCEPT ![p] = Idle] /\ lock' = None

Waiting(run, view, fresh) ==
  [at |-> "wait", run |-> run, view |-> view, fresh |-> fresh, copy |-> None, frozen |-> None]

(* The journal is read before the lock is taken. *)
Look(p) ==
  /\ mig[p].at = "idle" /\ calls < MaxRuns
  /\ calls' = calls + 1
  /\ mig' = [mig EXCEPT ![p] =
       IF lastIncompleteRun = None THEN Waiting(calls + 1, NoJournal, TRUE)
       ELSE Waiting(lastIncompleteRun, journal[lastIncompleteRun], FALSE)]
  /\ UNCHANGED <<files, lock, save, accepted, savedOver, overtaken, kills, writes>>

UpToDate(p) ==
  IF mig[p].fresh THEN lastIncompleteRun = None
  ELSE lastIncompleteRun = mig[p].run /\ journal[mig[p].run] = mig[p].view

Refused(p) == mig[p].fresh /\ (db # None \/ marker \/ Active)

Enter(p) ==
  /\ mig[p].at = "wait" /\ lock = None
  /\ overtaken' = (overtaken \/ (~Refused(p) /\ ~UpToDate(p)))
  /\ IF Refused(p)
     THEN Leave(p) /\ UNCHANGED <<journal, newer>>
     ELSE lock' = p /\ Goto(p, "backup") /\ Record(p, "start")
  /\ UNCHANGED <<store, staged, others>>

(* The copies are kept for people; nothing reads them back. *)
Backup(p) ==
  /\ mig[p].at = "backup"
  /\ Goto(p, "import")
  /\ IF Seen(p, "backup") THEN UNCHANGED <<journal, newer>> ELSE Record(p, "backup")
  /\ UNCHANGED <<store, staged, lock, overtaken, others>>

(* loadFamilies reads the content first and the fingerprints after it. *)
ImportRead(p) ==
  /\ mig[p].at = "import" /\ ~Seen(p, "import")
  /\ IF stateBackend = "missing" THEN Leave(p)
     ELSE /\ mig' = [mig EXCEPT ![p].at = "stage", ![p].copy = Source]
          /\ UNCHANGED lock
  /\ UNCHANGED <<files, overtaken, others>>

Import(p) ==
  /\ mig[p].at = "stage"
  /\ staged' = [staged EXCEPT ![mig[p].run] = mig[p].copy]
  /\ Append(p, "import", [frozen |-> json, rows |-> Rows(mig[p].copy)])
  /\ mig' = [mig EXCEPT ![p].at = "reconcile", ![p].frozen = json, ![p].copy = None]
  /\ UNCHANGED <<store, lock, overtaken, others>>

ImportSeen(p) ==
  /\ mig[p].at = "import" /\ Seen(p, "import")
  /\ mig' = [mig EXCEPT ![p].frozen = mig[p].view.import.frozen,
                        ![p].at = IF Seen(p, "install") THEN "marker" ELSE "reconcile"]
  /\ UNCHANGED <<files, lock, overtaken, others>>

(* Mutant: the database is not looked for again. *)
reanchor_never(p) == FALSE

(* Reconciled, and the database is there: a kill came between the rename     *)
(* and its record.                                                          *)
reanchor(p) == Seen(p, "reconcile") /\ db # None

Reanchor(p) ==
  /\ mig[p].at = "reconcile" /\ reanchor(p)
  /\ IF Rows(db.content) # mig[p].view.import.rows
     THEN Leave(p) /\ UNCHANGED <<journal, newer, staged>>
     ELSE /\ staged' = [staged EXCEPT ![mig[p].run] = None]
          /\ Record(p, "install") /\ Goto(p, "marker") /\ UNCHANGED lock
  /\ UNCHANGED <<store, overtaken, others>>

Reconcile(p) ==
  LET s == staged[mig[p].run] IN
  /\ mig[p].at = "reconcile" /\ ~reanchor(p)
  /\ IF s = None \/ (~Seen(p, "reconcile") /\ Source # s)
     THEN Leave(p) /\ UNCHANGED <<journal, newer>>
     ELSE /\ Goto(p, "drift") /\ UNCHANGED lock
          /\ IF Seen(p, "reconcile") THEN UNCHANGED <<journal, newer>>
             ELSE Record(p, "reconcile")
  /\ UNCHANGED <<store, staged, overtaken, others>>

(* driftCheck: a family that was absent when it was frozen is not compared. *)
Drifted(frozen) == \E f \in Families : frozen[f] # {} /\ json[f] # frozen[f]

Drift(p) ==
  /\ mig[p].at = "drift"
  /\ IF Drifted(mig[p].frozen) THEN Leave(p) ELSE Goto(p, "rename") /\ UNCHANGED lock
  /\ UNCHANGED <<files, overtaken, others>>

(* The staged database takes the place of whatever is there. *)
Rename(p) ==
  /\ mig[p].at = "rename"
  /\ db' = [content |-> staged[mig[p].run], frozen |-> None]
  /\ staged' = [staged EXCEPT ![mig[p].run] = None]
  /\ Goto(p, "install")
  /\ UNCHANGED <<json, marker, journal, newer, lock, overtaken, others>>

Install(p) ==
  /\ mig[p].at = "install"
  /\ Record(p, "install")
  /\ Goto(p, "marker")
  /\ UNCHANGED <<store, staged, lock, overtaken, others>>

WriteMarker(p) ==
  /\ mig[p].at = "marker"
  /\ marker' = (marker \/ ~Seen(p, "commit"))
  /\ Goto(p, IF Seen(p, "commit") THEN "done" ELSE "meta")
  /\ UNCHANGED <<json, db, journal, newer, staged, lock, overtaken, others>>

(* Mutant: what is frozen is what the files are by now. *)
Frozen_now(p) == json

Frozen(p) == mig[p].frozen

(* meta.backend and json_frozen, the last writes of the switch. *)
WriteMeta(p) ==
  /\ mig[p].at = "meta"
  /\ db' = [db EXCEPT !.frozen = Frozen(p)]
  /\ Goto(p, "commit")
  /\ UNCHANGED <<json, marker, journal, newer, staged, lock, overtaken, others>>

Commit(p) ==
  /\ mig[p].at = "commit"
  /\ Record(p, "commit")
  /\ Goto(p, "done")
  /\ UNCHANGED <<store, staged, lock, overtaken, others>>

Done(p) ==
  /\ mig[p].at = "done"
  /\ Record(p, "done")
  /\ Leave(p)
  /\ UNCHANGED <<store, staged, overtaken, others>>

(* A killed process leaves everything as it is; its lock is taken down. *)
Kill(p) ==
  /\ mig[p].at # "idle" /\ kills < MaxKills
  /\ kills' = kills + 1
  /\ mig' = [mig EXCEPT ![p] = Idle]
  /\ lock' = IF lock = p THEN None ELSE lock
  /\ UNCHANGED <<files, save, accepted, savedOver, overtaken, calls, writes>>

Next ==
  \/ LockedWrite \/ DbWrite \/ OldWrite
  \/ \E w \in Savers : SaveBegin(w) \/ SaveRead(w) \/ SaveDb(w) \/ SaveFile(w) \/ SaveLands(w)
  \/ \E p \in Procs :
       \/ Look(p) \/ Enter(p) \/ Backup(p) \/ ImportRead(p) \/ Import(p) \/ ImportSeen(p)
       \/ Reanchor(p) \/ Reconcile(p) \/ Drift(p) \/ Rename(p) \/ Install(p)
       \/ WriteMarker(p) \/ WriteMeta(p) \/ Commit(p) \/ Done(p) \/ Kill(p)

Spec == Init /\ [][Next]_vars

(***************************************************************************)
(* Properties.                                                             *)
(***************************************************************************)

(* No accepted change goes missing unnoticed: once the switch is committed,  *)
(* a change that is not in the database makes the next dispatch refuse to    *)
(* begin, whichever step of the migration its writer fell between, and       *)
(* however often the migration was killed and run again; as long as no       *)
(* migration went on from a journal that had been written since it looked.   *)
(* Not flagged are changes that a list was saved over that did not have      *)
(* them: a patch or a charge that was read before the switch and saved after *)
(* it takes its list to the database.                                        *)
LostIsFlagged ==
  (db # None /\ db.frozen # None /\ ~overtaken) =>
    \/ Miswrite
    \/ \A c \in accepted \ savedOver : \E f \in Families : c \in db.content[f]

(* A database that is in place is never put back: what was written to the    *)
(* queue in it stays, whatever stale journals later migrations go on from.   *)
InstalledKept ==
  [][db # None => db' # None /\ db.content["queue"] \subseteq db'.content["queue"]]_vars

(* A migration that goes on to install has staged what the files hold: any   *)
(* change of a JSON file before the install stops it                         *)
(* (docs/design-sqlite-store.md, 7.4).  The code does not keep this for a    *)
(* family whose file did not exist when it was imported.                     *)
DriftStops ==
  [][\A p \in Procs : (mig[p].at = "drift" /\ mig'[p].at = "rename" /\ db = None) =>
       json = staged[mig[p].run]]_vars
=============================================================================
