---------------------------- MODULE Migrate_proof ----------------------------
(***************************************************************************)
(* The two migrations, one after the other.                                *)
(*                                                                         *)
(* The queue to SQLite (Migrate), for any number of processes, runs, kills  *)
(* and changes.  The process inside is the one the lock names, so what it   *)
(* does is a step about one run (InsideStep).  As long as every migration   *)
(* went on from where the one before it stopped (Straight), at most one run *)
(* is unfinished and its journal is true of files and database (RunOk,      *)
(* HolderOk).  A change is numbered after those before it (DatesOk), so one *)
(* made after the import is in no frozen file: either the content that is   *)
(* installed has it or its file shows it (Kept).  A saved list takes out of *)
(* either place only changes that it is saved over (Standing).  That a      *)
(* database is only replaced by one with the same queue (PlaceOk) needs     *)
(* none of this.                                                           *)
(*                                                                         *)
(* The records of an older version (OldRecords): a task that an apply read  *)
(* or recorded as converted was drafted before (ApplyOk), and of two        *)
(* applies under way each has crossed the other, so one that did not finds  *)
(* what it read (AloneOk).                                                  *)
(***************************************************************************)
EXTENDS MCMigrate, TLAPS

(* What the journal of an import holds of it, and what a journal holds. *)
Imports == [frozen : Contents, rows : {Rows(c) : c \in Contents}]
Journals == [phases : SUBSET Phases, last : Phases \cup {None}, import : Imports \cup {None}]

Places ==
  {"idle", "wait", "backup", "import", "stage", "reconcile", "drift", "rename", "install",
   "marker", "meta", "commit", "done"}
Before == {"backup", "import", "stage"}
After == {"install", "marker", "meta", "commit", "done"}
Migrations ==
  [at : Places, run : 0..MaxRuns, view : Journals, fresh : BOOLEAN,
   copy : Contents \cup {None}, frozen : Contents \cup {None}]

Within(m) == m.at \notin {"idle", "wait"}

(* The files and the migrations keep their shapes; the migration inside is  *)
(* the one that has the lock.                                               *)
MigrateTypes ==
  /\ json \in Contents /\ db \in Databases \cup {None}
  /\ marker \in BOOLEAN /\ overtaken \in BOOLEAN
  /\ journal \in [Runs -> Journals] /\ staged \in [Runs -> Contents \cup {None}]
  /\ newer \subseteq Runs \X Runs
  /\ lock \in Procs \cup {None} /\ mig \in [Procs -> Migrations]
  /\ save \in [Savers -> Saves \cup {None}]
  /\ writes \in 0..MaxWrites /\ calls \in 0..MaxRuns
  /\ \A p \in Procs : mig[p].at # "idle" => mig[p].run \in 1..calls
  /\ \A p \in Procs : mig[p].at = "stage" => mig[p].copy \in Contents
  /\ \A p \in Procs : Within(mig[p]) <=> lock = p

(* Of any runs with a journal, one was written last. *)
Newest ==
  \A s \in SUBSET Journaled : s # {} => \E r \in s : \A q \in s \ {r} : <<r, q>> \in newer

(* A list on its way to a file was read from one, so what it has is made. *)
ToFile(w) == SaveAt(w, "land") \/ (SaveAt(w, "write") /\ db = None)
SavesOk == \A w \in Savers : ToFile(w) => \A c \in save[w].list : c.n <= writes

(* The changes that no list was saved over. *)
Standing == accepted \ savedOver

(* What a journal says of the import; of a run that has none it says nothing. *)
JournalOk(j) ==
  /\ j.last = None => j = NoJournal
  /\ "import" \in j.phases => j.import \in Imports
  /\ "import" \notin j.phases => j.import = None

JournalsOk ==
  /\ \A r \in Runs : JournalOk(journal[r])
  /\ \A r \in Runs : r > calls => journal[r] = NoJournal
  /\ \A p \in Procs : JournalOk(mig[p].view)

(* A new run has no journal until it is let in, and no other process has it. *)
WaitingOk ==
  \A p \in Procs :
    /\ mig[p].at = "wait" /\ mig[p].fresh =>
         /\ mig[p].view = NoJournal /\ journal[mig[p].run] = NoJournal
         /\ \A q \in Procs : mig[q].at # "idle" /\ mig[q].run = mig[p].run => q = p
    /\ mig[p].at # "idle" /\ (Within(mig[p]) \/ ~mig[p].fresh) => journal[mig[p].run].last # None

(* A change is numbered after those before it. *)
Dated(content, n) == \A f \in Families : \A c \in content[f] : c.n <= n
DatesOk ==
  /\ Dated(json, writes)
  /\ \A r \in Runs : "import" \in journal[r].phases => Dated(journal[r].import.frozen, writes)

(* Until there is a database the changes are in the files. *)
InFiles == db = None => \A c \in Standing : \E f \in Families : c \in json[f]

(* An install was recorded of a database that is there. *)
InstallsOk ==
  /\ \A r \in Runs : "install" \in journal[r].phases => db # None
  /\ \A p \in Procs : "install" \in mig[p].view.phases => db # None

(* A database is only written over with the queue that it has. *)
PlaceOk(m, s, d) ==
  /\ m.at \in {"drift", "rename"} =>
       s \in Contents /\ (d # None => s["queue"] = d.content["queue"])
  /\ m.at \in After => d # None
PlacesOk == \A p \in Procs : Within(mig[p]) => PlaceOk(mig[p], staged[mig[p].run], db)

(* A change is in the content, or makes its file differ from the frozen one. *)
Kept(content, frozen, js, acc) ==
  \A c \in acc :
    \/ \E f \in Families : c \in content[f]
    \/ \E f \in Families : c \in js[f] /\ c \notin frozen[f]

(* What the journal of the unfinished run says of files and database. *)
RunOk(j, s, d, js, acc) ==
  /\ "reconcile" \in j.phases => "import" \in j.phases
  /\ d # None <=> ("reconcile" \in j.phases /\ s = None)
  /\ "reconcile" \in j.phases =>
       Kept(IF d # None THEN d.content ELSE s, j.import.frozen, js, acc)

(* What the migration inside goes on from is what its journal said. *)
HolderOk(m, j, d) ==
  /\ m.at \in {"backup", "import"} =>
       /\ "import" \in m.view.phases <=> "import" \in j.phases
       /\ "import" \in m.view.phases => m.view.import = j.import
  /\ m.at \in Before \cup {"reconcile"} =>
       ("reconcile" \in m.view.phases <=> "reconcile" \in j.phases)
  /\ m.at = "stage" => "import" \notin j.phases
  /\ m.at \notin Before => "import" \in j.phases /\ m.frozen = j.import.frozen
  /\ m.at \notin Before \cup {"reconcile"} => "reconcile" \in j.phases
  /\ m.at \in {"drift", "rename"} => d = None

FrozenOk(d, js, acc, n) ==
  d # None => (d.frozen # None => Kept(d.content, d.frozen, js, acc) /\ Dated(d.frozen, n))

(* As long as every migration went on from where the one before it stopped,  *)
(* there is one unfinished run, and its journal is true.                    *)
Straight ==
  /\ \A r, q \in Unfinished : r = q
  /\ \A r \in Unfinished : RunOk(journal[r], staged[r], db, json, Standing)
  /\ \A p \in Procs : Within(mig[p]) =>
       mig[p].run \in Unfinished /\ HolderOk(mig[p], journal[mig[p].run], db)
  /\ FrozenOk(db, json, Standing, writes)

MigrateInv ==
  /\ MigrateTypes /\ Newest /\ SavesOk /\ JournalsOk /\ WaitingOk /\ DatesOk
  /\ InFiles /\ InstallsOk /\ PlacesOk
  /\ overtaken \/ Straight

-----------------------------------------------------------------------------
USE NoneAssumption, BoundsAssumption

LEMMA NothingTyped ==
  /\ Empty \in Contents /\ NoJournal \in Journals /\ Idle \in Migrations /\ JournalOk(NoJournal)
  /\ NoJournal.last = None /\ NoJournal.phases = {} /\ NoJournal.import = None
  /\ Idle.at = "idle" /\ Idle.view = NoJournal /\ ~Within(Idle)
<1>1. Empty \in Contents
  BY DEF Empty, Contents, Families
<1>2. NoJournal \in Journals
  BY DEF NoJournal, Journals
<1>3. Idle \in Migrations
  BY <1>2 DEF Idle, Migrations, Places
<1> QED
  BY <1>1, <1>2, <1>3 DEF JournalOk, NoJournal, Idle, Within

LEMMA InitInv == Init => MigrateInv
<1> SUFFICES ASSUME Init PROVE MigrateInv
  OBVIOUS
<1> USE DEF Init
<1>1. \A r \in Runs : journal[r] = NoJournal
  OBVIOUS
<1>2. \A p \in Procs : mig[p] = Idle
  OBVIOUS
<1>3. MigrateTypes
  <2>1. journal \in [Runs -> Journals] /\ mig \in [Procs -> Migrations]
    BY NothingTyped
  <2>2. staged \in [Runs -> Contents \cup {None}] /\ writes \in 0..MaxWrites /\ calls \in 0..MaxRuns
    OBVIOUS
  <2>3. save \in [Savers -> Saves \cup {None}]
    OBVIOUS
  <2> QED
    BY <1>2, <2>1, <2>2, <2>3, NothingTyped DEF MigrateTypes
<1>4. Journaled = {} /\ Unfinished = {}
  BY <1>1, NothingTyped DEF Journaled, Unfinished
<1>5. Newest /\ SavesOk
  BY <1>4 DEF Newest, SavesOk, ToFile, SaveAt
<1>6. JournalsOk /\ WaitingOk /\ InstallsOk
  BY <1>1, <1>2, NothingTyped DEF JournalsOk, WaitingOk, InstallsOk
<1>7. DatesOk
  BY <1>1, NothingTyped DEF DatesOk, Dated, Empty, Families
<1>8. InFiles /\ PlacesOk
  BY <1>2, NothingTyped DEF InFiles, PlacesOk, Standing
<1>9. Straight
  BY <1>2, <1>4, NothingTyped DEF Straight, FrozenOk
<1> QED
  BY <1>3, <1>5, <1>6, <1>7, <1>8, <1>9 DEF MigrateInv

-----------------------------------------------------------------------------
(* The writers: at most one new change, and a list that takes the place of a  *)
(* family in the files or in the database; the queue of the database is left *)
(* alone while a migration is inside.                                        *)
Kinds == {"add", "grant", "open", "patch", "settle", "charge"}

Added(new) ==
  /\ new \subseteq Changes /\ writes' \in 0..MaxWrites /\ writes <= writes'
  /\ \A c \in new : c.n = writes + 1 /\ c.n <= writes'
  /\ accepted' = accepted \cup new /\ savedOver \subseteq savedOver'

ToJson(f, list, new) ==
  /\ db' = db /\ json' = [json EXCEPT ![f] = list \cup new]
  /\ list \subseteq Changes /\ json[f] \ list \subseteq savedOver'
  /\ \A c \in list : c.n <= writes

ToDb(f, list, new) ==
  /\ db # None /\ json' = json /\ db' = [db EXCEPT !.content[f] = list \cup new]
  /\ list \subseteq Changes /\ db.content[f] \ list \subseteq savedOver'
  /\ lock # None => f # "queue"

Elsewhere == <<marker, journal, newer, staged, lock, mig, overtaken, calls>>

(* What no writer and no migration disturbs, while the rest of it holds.     *)
LEMMA QuietJournals ==
  ASSUME MigrateInv, UNCHANGED Elsewhere
  PROVE  /\ Newest' /\ JournalsOk' /\ WaitingOk' /\ Journaled' = Journaled /\ Unfinished' = Unfinished
<1>1. Journaled' = Journaled
  BY DEF Journaled, Elsewhere
<1>2. Unfinished' = Unfinished
  BY <1>1 DEF Unfinished, Elsewhere
<1>3. Newest'
  BY <1>1 DEF Newest, MigrateInv, Elsewhere
<1>4. JournalsOk' /\ WaitingOk'
  BY DEF JournalsOk, WaitingOk, MigrateInv, Elsewhere
<1> QED
  BY <1>1, <1>2, <1>3, <1>4

LEMMA LaterDated ==
  ASSUME NEW content \in Contents, NEW n \in Nat, NEW k \in Nat, n <= k, Dated(content, n)
  PROVE  Dated(content, k)
<1> SUFFICES ASSUME NEW f \in Families, NEW c \in content[f] PROVE c.n <= k
  BY DEF Dated
<1>1. c.n \in 1..MaxWrites
  BY DEF Contents, Changes
<1> QED
  BY <1>1 DEF Dated

(* A list is saved, with a new change or without: what it is saved over is    *)
(* gone, the frozen file is older than the new change, and the content or    *)
(* the file has the rest.                                                    *)
LEMMA KeptMore ==
  ASSUME NEW content, NEW more, NEW frozen \in Contents, NEW new, writes \in Nat,
         Kept(content, frozen, json, Standing), Dated(frozen, writes),
         \A c \in new : c.n = writes + 1,
         Standing' \subseteq (Standing \cup new) \ savedOver',
         \A f \in Families : content[f] \ savedOver' \subseteq more[f],
         \A f \in Families : json[f] \ savedOver' \subseteq json'[f],
         \A c \in new : \E f \in Families : c \in more[f] \/ c \in json'[f]
  PROVE  Kept(more, frozen, json', Standing')
<1>1. \A c \in new, f \in Families : c \notin frozen[f]
  <2> SUFFICES ASSUME NEW c \in new, NEW f \in Families, c \in frozen[f] PROVE FALSE
    OBVIOUS
  <2>1. writes + 1 <= writes
    BY DEF Dated
  <2> QED
    BY <2>1
<1> SUFFICES ASSUME NEW c \in Standing'
             PROVE  \/ \E f \in Families : c \in more[f]
                    \/ \E f \in Families : c \in json'[f] /\ c \notin frozen[f]
  BY DEF Kept
<1>2. CASE c \in new
  BY <1>1, <1>2
<1>3. CASE c \in Standing /\ c \notin savedOver'
  BY <1>3 DEF Kept
<1> QED
  BY <1>2, <1>3

LEMMA PutJson ==
  ASSUME MigrateTypes, NEW f \in Families, NEW list, NEW new \in SUBSET Changes, ToJson(f, list, new)
  PROVE  /\ json' \in Contents /\ json'[f] = list \cup new
         /\ \A g \in Families : g # f => json'[g] = json[g]
         /\ \A g \in Families : json[g] \ savedOver' \subseteq json'[g]
<1>1. json \in Contents /\ list \cup new \in SUBSET Changes
  BY DEF MigrateTypes, ToJson
<1>2. /\ json' \in Contents /\ json'[f] = list \cup new
      /\ \A g \in Families : g # f => json'[g] = json[g]
  BY <1>1 DEF ToJson, Contents
<1> QED
  BY <1>2 DEF ToJson

LEMMA PutDb ==
  ASSUME MigrateTypes, NEW f \in Families, NEW list, NEW new \in SUBSET Changes, ToDb(f, list, new)
  PROVE  /\ db' \in Databases /\ db' # None /\ db'.frozen = db.frozen
         /\ db'.content[f] = list \cup new
         /\ \A g \in Families : g # f => db'.content[g] = db.content[g]
         /\ \A g \in Families : db.content[g] \ savedOver' \subseteq db'.content[g]
<1>1. db \in Databases /\ list \cup new \in SUBSET Changes
  BY DEF MigrateTypes, ToDb
<1>2. PICK x \in Contents, z \in Contents \cup {None} : db = [content |-> x, frozen |-> z]
  BY <1>1 DEF Databases
<1>3. PICK y : y = [x EXCEPT ![f] = list \cup new]
  OBVIOUS
<1>4. /\ y \in Contents /\ y[f] = list \cup new
      /\ \A g \in Families : g # f => y[g] = x[g]
  BY <1>1, <1>3 DEF Contents
<1>5. db' = [content |-> y, frozen |-> z]
  BY <1>2, <1>3 DEF ToDb
<1>6. db' \in Databases /\ db' # None /\ db'.frozen = db.frozen /\ db'.content = y /\ db.content = x
  BY <1>2, <1>4, <1>5 DEF Databases
<1> QED
  BY <1>4, <1>6 DEF ToDb

(* A list that is not saved yet stays what it is. *)
LEMMA SavesStay ==
  ASSUME MigrateInv, writes' \in Nat, writes <= writes', db' = None => db = None,
         save' \in [Savers -> Saves \cup {None}],
         \A w \in Savers : save'[w] \in {None, save[w]}
  PROVE  SavesOk'
<1> SUFFICES ASSUME NEW w \in Savers, ToFile(w)', NEW c \in save'[w].list PROVE c.n <= writes'
  BY DEF SavesOk
<1>1. save'[w] = save[w] /\ ToFile(w)
  BY DEF ToFile, SaveAt
<1>2. c.n <= writes
  BY <1>1 DEF MigrateInv, SavesOk
<1>3. save'[w] \in Saves
  BY DEF ToFile, SaveAt
<1>4. c.n \in 1..MaxWrites /\ writes \in Nat
  BY <1>3 DEF Saves, Changes, MigrateInv, MigrateTypes
<1> QED
  BY <1>2, <1>4

(* Whatever is put, wherever. *)
LEMMA WriteInv ==
  ASSUME MigrateInv, NEW f \in Families, NEW list, NEW new, Added(new),
         ToJson(f, list, new) \/ ToDb(f, list, new), UNCHANGED Elsewhere,
         save' \in [Savers -> Saves \cup {None}],
         \A w \in Savers : save'[w] \in {None, save[w]}
  PROVE  MigrateInv'
<1>1. MigrateTypes
  BY DEF MigrateInv
<1>2. /\ new \in SUBSET Changes /\ writes \in Nat /\ writes' \in Nat /\ writes <= writes'
      /\ \A c \in new : c.n = writes + 1 /\ c.n <= writes'
  BY <1>1 DEF Added, MigrateTypes
<1>3. ToJson(f, list, new) =>
        /\ json' \in Contents /\ json'[f] = list \cup new /\ db' = db
        /\ \A g \in Families : g # f => json'[g] = json[g]
        /\ \A g \in Families : json[g] \ savedOver' \subseteq json'[g]
  BY <1>1, <1>2, PutJson DEF ToJson
<1>4. ToDb(f, list, new) =>
        /\ db' \in Databases /\ db # None /\ db' # None /\ db'.frozen = db.frozen /\ json' = json
        /\ db'.content[f] = list \cup new
        /\ \A g \in Families : g # f => db'.content[g] = db.content[g]
        /\ \A g \in Families : db.content[g] \ savedOver' \subseteq db'.content[g]
  BY <1>1, <1>2, PutDb DEF ToDb
<1>5. /\ Newest' /\ JournalsOk' /\ WaitingOk' /\ Unfinished' = Unfinished
  BY QuietJournals
<1>6. MigrateTypes'
  <2>1. json' \in Contents /\ db' \in Databases \cup {None} /\ writes' \in 0..MaxWrites
    BY <1>1, <1>3, <1>4 DEF MigrateTypes, Added
  <2> QED
    BY <1>1, <2>1 DEF MigrateTypes, Elsewhere
<1>7. (db = None <=> db' = None) /\ SavesOk'
  <2>1. db = None <=> db' = None
    BY <1>3, <1>4
  <2> QED
    BY <1>2, <2>1, SavesStay
<1>8. Standing' \subseteq (Standing \cup new) \ savedOver'
  BY DEF Standing, Added
<1>9. DatesOk'
  <2>1. Dated(json, writes) /\ Dated(json, writes')
    BY <1>1, <1>2, LaterDated DEF MigrateInv, DatesOk, MigrateTypes
  <2>2. ASSUME ToJson(f, list, new) PROVE Dated(json', writes')
    <3> SUFFICES ASSUME NEW g \in Families, NEW c \in json'[g] PROVE c.n <= writes'
      BY DEF Dated
    <3>1. CASE c \in new
      BY <1>2, <3>1
    <3>2. CASE c \in json[g]
      BY <2>1, <3>2 DEF Dated
    <3>3. CASE g = f /\ c \in list
      <4>1. c.n <= writes /\ c.n \in 1..MaxWrites
        BY <2>2, <3>3 DEF ToJson, Changes
      <4> QED
        BY <1>2, <4>1
    <3> QED
      BY <1>3, <2>2, <3>1, <3>2, <3>3
  <2>3. Dated(json', writes')
    BY <1>4, <2>1, <2>2
  <2>4. ASSUME NEW r \in Runs, "import" \in journal'[r].phases
        PROVE  Dated(journal'[r].import.frozen, writes')
    <3>1. journal[r].import.frozen \in Contents
      BY <2>4 DEF MigrateInv, JournalsOk, JournalOk, Imports, Elsewhere
    <3> QED
      BY <1>2, <2>4, <3>1, LaterDated DEF MigrateInv, DatesOk, Elsewhere
  <2> QED
    BY <2>3, <2>4 DEF DatesOk
<1>10. InFiles'
  <2> SUFFICES ASSUME db' = None, NEW c \in Standing' PROVE \E g \in Families : c \in json'[g]
    BY DEF InFiles
  <2>1. ToJson(f, list, new) /\ db = None
    BY <1>4, <1>7
  <2>2. CASE c \in new
    BY <1>3, <2>1, <2>2
  <2>3. CASE c \in Standing /\ c \notin savedOver'
    BY <1>3, <2>1, <2>3 DEF MigrateInv, InFiles
  <2> QED
    BY <1>8, <2>2, <2>3
<1>11. InstallsOk'
  BY <1>7 DEF InstallsOk, MigrateInv, Elsewhere
<1>12. PlacesOk'
  <2> SUFFICES ASSUME NEW p \in Procs, Within(mig[p])
               PROVE  PlaceOk(mig[p], staged[mig[p].run], db')
    BY DEF PlacesOk, Elsewhere
  <2>1. PlaceOk(mig[p], staged[mig[p].run], db) /\ lock # None
    BY <1>1 DEF MigrateInv, PlacesOk, MigrateTypes
  <2>2. db # None => db'.content["queue"] = db.content["queue"]
    BY <1>3, <1>4, <2>1 DEF ToDb, Families
  <2> QED
    BY <1>7, <2>1, <2>2 DEF PlaceOk
<1>13. ASSUME Straight PROVE Straight'
  <2>1. /\ db # None => \A g \in Families : db.content[g] \ savedOver' \subseteq db'.content[g]
        /\ \A g \in Families : json[g] \ savedOver' \subseteq json'[g]
    BY <1>3, <1>4
  <2>2. \A c \in new :
          \/ \E g \in Families : c \in json'[g]
          \/ db # None /\ \E g \in Families : c \in db'.content[g]
    BY <1>3, <1>4
  <2>3. ASSUME NEW r \in Unfinished
        PROVE  RunOk(journal[r], staged[r], db', json', Standing')
    <3>1. RunOk(journal[r], staged[r], db, json, Standing) /\ r \in Runs
      BY <1>13 DEF Straight, Unfinished, Journaled
    <3>2. ASSUME "reconcile" \in journal[r].phases
          PROVE  Kept(IF db' # None THEN db'.content ELSE staged[r], journal[r].import.frozen,
                      json', Standing')
      <4>1. "import" \in journal[r].phases
        BY <3>1, <3>2 DEF RunOk
      <4>2. journal[r].import.frozen \in Contents /\ Dated(journal[r].import.frozen, writes)
        BY <3>1, <4>1 DEF MigrateInv, JournalsOk, JournalOk, Imports, DatesOk
      <4>3. Kept(IF db # None THEN db.content ELSE staged[r], journal[r].import.frozen, json, Standing)
        BY <3>1, <3>2 DEF RunOk
      <4>4. CASE db = None
        <5>1. Kept(staged[r], journal[r].import.frozen, json, Standing)
          BY <4>3, <4>4
        <5>2. Kept(staged[r], journal[r].import.frozen, json', Standing')
          BY <1>2, <1>8, <2>1, <2>2, <4>2, <4>4, <5>1, KeptMore
        <5> QED
          BY <1>7, <4>4, <5>2
      <4>5. CASE db # None
        <5>1. Kept(db.content, journal[r].import.frozen, json, Standing)
          BY <4>3, <4>5
        <5>2. \A c \in new : \E g \in Families : c \in db'.content[g] \/ c \in json'[g]
          BY <2>2
        <5>3. Kept(db'.content, journal[r].import.frozen, json', Standing')
          BY <1>2, <1>8, <2>1, <4>2, <4>5, <5>1, <5>2, KeptMore
        <5> QED
          BY <1>7, <4>5, <5>3
      <4> QED
        BY <4>4, <4>5
    <3> QED
      BY <1>7, <3>1, <3>2 DEF RunOk
  <2>4. ASSUME NEW p \in Procs, Within(mig[p])
        PROVE  HolderOk(mig[p], journal[mig[p].run], db')
    <3>1. HolderOk(mig[p], journal[mig[p].run], db)
      BY <1>13, <2>4 DEF Straight
    <3> QED
      BY <1>7, <3>1 DEF HolderOk
  <2>5. FrozenOk(db', json', Standing', writes')
    <3> SUFFICES ASSUME db' # None, db'.frozen # None
                 PROVE  Kept(db'.content, db'.frozen, json', Standing') /\ Dated(db'.frozen, writes')
      BY DEF FrozenOk
    <3>1. db # None /\ db'.frozen = db.frozen /\ db.frozen \in Contents
      BY <1>1, <1>3, <1>4, <1>7 DEF MigrateTypes, Databases
    <3>2. Kept(db.content, db.frozen, json, Standing) /\ Dated(db.frozen, writes)
      BY <1>13, <3>1 DEF Straight, FrozenOk
    <3>3. Dated(db.frozen, writes')
      BY <1>2, <3>1, <3>2, LaterDated
    <3>4. \A c \in new : \E g \in Families : c \in db'.content[g] \/ c \in json'[g]
      BY <2>2
    <3>5. Kept(db'.content, db.frozen, json', Standing')
      BY <1>2, <1>8, <2>1, <3>1, <3>2, <3>4, KeptMore
    <3> QED
      BY <3>1, <3>3, <3>5
  <2> QED
    BY <1>5, <1>13, <2>3, <2>4, <2>5 DEF Straight, Elsewhere
<1>14. overtaken' \/ Straight'
  BY <1>13 DEF MigrateInv, Elsewhere
<1> QED
  BY <1>5, <1>6, <1>7, <1>9, <1>10, <1>11, <1>12, <1>14 DEF MigrateInv

LEMMA Changed ==
  ASSUME MigrateTypes, NEW what \in Kinds, Counted(Change(what)), savedOver \subseteq savedOver'
  PROVE  Added({Change(what)}) /\ Change(what) \in Changes /\ Family(what) \in Families
<1>1. writes + 1 \in 1..MaxWrites /\ writes \in Nat /\ writes' = writes + 1
  BY DEF MigrateTypes, Counted
<1>2. Change(what) = [n |-> writes + 1, what |-> what]
  BY DEF Change
<1>3. Change(what) \in Changes /\ Change(what).n = writes + 1
  BY <1>1, <1>2 DEF Changes, Kinds
<1> QED
  BY <1>1, <1>3 DEF Added, Counted, Family, Families, Kinds

(* Writing in one step: what is there stays. *)
LEMMA WrittenInv ==
  ASSUME MigrateInv, NEW what \in Kinds, Write(what), lock # None => Family(what) # "queue",
         UNCHANGED <<lock, mig, save, savedOver, overtaken, calls>>
  PROVE  MigrateInv'
<1>1. MigrateTypes /\ Stored(Family(what), Change(what)) /\ Counted(Change(what))
  BY DEF MigrateInv, Write
<1>2. Added({Change(what)}) /\ Family(what) \in Families
  BY <1>1, Changed
<1>3. PICK f, new : f = Family(what) /\ new = {Change(what)}
  OBVIOUS
<1>4. /\ save' \in [Savers -> Saves \cup {None}] /\ \A w \in Savers : save'[w] \in {None, save[w]}
      /\ UNCHANGED Elsewhere /\ f \in Families /\ Added(new)
  BY <1>1, <1>2, <1>3 DEF MigrateTypes, Stored, Elsewhere
<1>5. CASE db # None
  <2>1. db \in Databases
    BY <1>1, <1>5 DEF MigrateTypes
  <2>2. db.content[f] \subseteq Changes
    BY <1>4, <2>1 DEF Databases, Contents
  <2>3. PICK list : list = db.content[f]
    OBVIOUS
  <2>4. ToDb(f, list, new)
    BY <1>1, <1>3, <1>5, <2>2, <2>3 DEF Stored, ToDb
  <2> QED
    BY <1>4, <2>4, WriteInv
<1>6. CASE db = None
  <2>1. json[f] \subseteq Changes /\ \A c \in json[f] : c.n <= writes
    BY <1>1, <1>4 DEF MigrateInv, MigrateTypes, Contents, DatesOk, Dated
  <2>2. PICK list : list = json[f]
    OBVIOUS
  <2>3. ToJson(f, list, new)
    BY <1>1, <1>3, <1>6, <2>1, <2>2 DEF Stored, ToJson
  <2> QED
    BY <1>4, <2>3, WriteInv
<1> QED
  BY <1>5, <1>6

LEMMA LockedWriteInv == ASSUME MigrateInv, LockedWrite PROVE MigrateInv'
<1>1. PICK what \in Kinds : Write(what)
  BY DEF LockedWrite, Kinds
<1> QED
  BY <1>1, WrittenInv DEF LockedWrite

LEMMA DbWriteInv == ASSUME MigrateInv, DbWrite PROVE MigrateInv'
<1>1. PICK what \in {"patch", "settle", "charge"} : Write(what)
  BY DEF DbWrite
<1>2. what \in Kinds /\ Family(what) # "queue"
  BY DEF Kinds, Family
<1> QED
  BY <1>1, <1>2, WrittenInv DEF DbWrite

LEMMA OldWriteInv == ASSUME MigrateInv, OldWrite PROVE MigrateInv'
<1>1. MigrateTypes /\ Counted(Change("add")) /\ "add" \in Kinds /\ savedOver' = savedOver
      /\ json' = [json EXCEPT !["queue"] = @ \cup {Change("add")}]
  BY DEF MigrateInv, OldWrite, Kinds
<1>2. Added({Change("add")})
  BY <1>1, Changed
<1>3. "queue" \in Families
  BY DEF Families
<1>4. json["queue"] \subseteq Changes /\ \A c \in json["queue"] : c.n <= writes
  BY <1>1, <1>3 DEF MigrateInv, MigrateTypes, Contents, DatesOk, Dated
<1>5. ToJson("queue", json["queue"], {Change("add")})
  BY <1>1, <1>4 DEF OldWrite, ToJson
<1> QED
  BY <1>1, <1>2, <1>3, <1>5, WriteInv DEF OldWrite, Elsewhere, MigrateTypes

(* A saver looks, reads or sends its list to a file: nothing else changes.    *)
LEMMA SavingInv ==
  ASSUME MigrateInv, UNCHANGED <<files, lock, mig, accepted, savedOver, overtaken, calls, writes>>,
         save' \in [Savers -> Saves \cup {None}], SavesOk'
  PROVE  MigrateInv'
<1>1. UNCHANGED <<json, db, marker, journal, newer, staged>>
  BY DEF files, store
<1>2. Newest' /\ JournalsOk' /\ WaitingOk' /\ Unfinished' = Unfinished
  BY <1>1, QuietJournals DEF Elsewhere
<1>3. Standing' = Standing
  BY DEF Standing
<1>4. MigrateTypes' /\ DatesOk' /\ InFiles' /\ InstallsOk' /\ PlacesOk'
  BY <1>1, <1>3 DEF MigrateInv, MigrateTypes, DatesOk, InFiles, InstallsOk, PlacesOk
<1>5. Straight => Straight'
  BY <1>1, <1>2, <1>3 DEF Straight
<1> QED
  BY <1>2, <1>4, <1>5 DEF MigrateInv

(* Of one saver, whose list is to be looked at only when it goes to a file.   *)
LEMMA SaverInv ==
  ASSUME MigrateInv, UNCHANGED <<files, lock, mig, accepted, savedOver, overtaken, calls, writes>>,
         NEW w \in Savers, NEW x \in Saves \cup {None}, save' = [save EXCEPT ![w] = x],
         x # None /\ (x.at = "land" \/ (x.at = "write" /\ db = None)) =>
           \A c \in x.list : c.n <= writes
  PROVE  MigrateInv'
<1>1. save \in [Savers -> Saves \cup {None}] /\ SavesOk /\ db' = db
  BY DEF MigrateInv, MigrateTypes, files, store
<1>2. save' \in [Savers -> Saves \cup {None}] /\ save'[w] = x
      /\ \A v \in Savers : v # w => save'[v] = save[v]
  BY <1>1
<1>3. SavesOk'
  <2> SUFFICES ASSUME NEW v \in Savers, ToFile(v)', NEW c \in save'[v].list PROVE c.n <= writes
    BY DEF SavesOk
  <2>1. CASE v = w
    BY <1>1, <1>2, <2>1 DEF ToFile, SaveAt
  <2>2. CASE v # w
    BY <1>1, <1>2, <2>2 DEF SavesOk, ToFile, SaveAt
  <2> QED
    BY <2>1, <2>2
<1> QED
  BY <1>2, <1>3, SavingInv

LEMMA SaveBeginInv == ASSUME MigrateInv, NEW w \in Savers, SaveBegin(w) PROVE MigrateInv'
<1>1. PICK what \in {"patch", "settle", "charge", "nothing"} :
        save' = [save EXCEPT ![w] = [at |-> "read", what |-> what, list |-> {}]]
  BY DEF SaveBegin
<1>2. PICK x : x = [at |-> "read", what |-> what, list |-> {}]
  OBVIOUS
<1>3. x \in Saves /\ x.at = "read"
  BY <1>2 DEF Saves
<1> QED
  BY <1>1, <1>2, <1>3, SaverInv DEF SaveBegin

(* What a saver has. *)
LEMMA SaverThere ==
  ASSUME MigrateInv, NEW w \in Savers, save[w] # None
  PROVE  /\ save[w] \in Saves /\ save[w].list \subseteq Changes
         /\ Family(save[w].what) \in Families \ {"queue"}
         /\ \A at \in {"read", "write", "land"}, list \in SUBSET Changes :
              /\ [at |-> at, what |-> save[w].what, list |-> list] \in Saves
              /\ [save[w] EXCEPT !.at = at] = [at |-> at, what |-> save[w].what, list |-> save[w].list]
              /\ [[save[w] EXCEPT !.at = at] EXCEPT !.list = list] =
                   [at |-> at, what |-> save[w].what, list |-> list]
<1>1. save[w] \in Saves
  BY DEF MigrateInv, MigrateTypes
<1>2. PICK a \in {"read", "write", "land"}, what \in {"patch", "settle", "charge", "nothing"},
           l \in SUBSET Changes : save[w] = [at |-> a, what |-> what, list |-> l]
  BY <1>1 DEF Saves
<1>3. save[w].what = what /\ save[w].list = l
  BY <1>2
<1>4. Family(what) \in Families \ {"queue"}
  BY DEF Family, Families
<1>5. ASSUME NEW at \in {"read", "write", "land"}, NEW list \in SUBSET Changes
      PROVE  /\ [at |-> at, what |-> what, list |-> list] \in Saves
             /\ [save[w] EXCEPT !.at = at] = [at |-> at, what |-> what, list |-> l]
             /\ [[save[w] EXCEPT !.at = at] EXCEPT !.list = list] = [at |-> at, what |-> what, list |-> list]
  <2>1. PICK y : y = [at |-> at, what |-> what, list |-> l]
    OBVIOUS
  <2>2. [save[w] EXCEPT !.at = at] = y
    BY <1>2, <2>1
  <2>3. [y EXCEPT !.list = list] = [at |-> at, what |-> what, list |-> list]
    BY <2>1
  <2>4. [at |-> at, what |-> what, list |-> list] \in Saves
    BY DEF Saves
  <2> QED
    BY <2>1, <2>2, <2>3, <2>4
<1> QED
  BY <1>1, <1>3, <1>4, <1>5

LEMMA SaveReadInv == ASSUME MigrateInv, NEW w \in Savers, SaveRead(w) PROVE MigrateInv'
<1>1. PICK f : f = Family(save[w].what)
  OBVIOUS
<1>2. save[w] # None /\ f \in Families
      /\ UNCHANGED <<files, lock, mig, accepted, savedOver, overtaken, calls, writes>>
  BY <1>1, SaverThere DEF SaveRead, SaveAt
<1>3. CASE save' = [save EXCEPT ![w] = None]
  <2>1. None \in Saves \cup {None}
    OBVIOUS
  <2> QED
    BY <1>2, <1>3, <2>1, SaverInv
<1>4. CASE save' = [save EXCEPT ![w] = [@ EXCEPT !.at = "write", !.list = Source[f]]]
  <2>1. db \in Databases \cup {None} /\ json \in Contents
    BY DEF MigrateInv, MigrateTypes
  <2>2. Source \in Contents
    BY <2>1 DEF Source, Databases
  <2>3. PICK list \in SUBSET Changes : list = Source[f]
    BY <1>2, <2>2 DEF Contents
  <2>4. PICK x : x = [at |-> "write", what |-> save[w].what, list |-> list]
    OBVIOUS
  <2>5. x \in Saves /\ [[save[w] EXCEPT !.at = "write"] EXCEPT !.list = list] = x
    BY <1>2, <2>4, SaverThere
  <2>6. save' = [save EXCEPT ![w] = x]
    BY <1>4, <2>3, <2>5 DEF MigrateInv, MigrateTypes
  <2>7. db = None => \A c \in list : c.n <= writes
    BY <1>2, <2>3 DEF Source, MigrateInv, DatesOk, Dated
  <2> QED
    BY <1>2, <2>4, <2>5, <2>6, <2>7, SaverInv
<1> QED
  BY <1>1, <1>3, <1>4 DEF SaveRead

LEMMA SaveFileInv == ASSUME MigrateInv, NEW w \in Savers, SaveFile(w) PROVE MigrateInv'
<1>1. /\ save[w] # None /\ save[w].at = "write" /\ stateBackend # "sqlite"
      /\ UNCHANGED <<files, lock, mig, accepted, savedOver, overtaken, calls, writes>>
  BY DEF SaveFile, SaveAt
<1>2. CASE save' = [save EXCEPT ![w] = None]
  <2>1. None \in Saves \cup {None}
    OBVIOUS
  <2> QED
    BY <1>1, <1>2, <2>1, SaverInv
<1>3. CASE save' = [save EXCEPT ![w] = [@ EXCEPT !.at = "land"]]
  <2>1. PICK list \in SUBSET Changes : list = save[w].list
    BY <1>1, SaverThere
  <2>2. PICK x : x = [at |-> "land", what |-> save[w].what, list |-> list]
    OBVIOUS
  <2>3. x \in Saves /\ [save[w] EXCEPT !.at = "land"] = x
    BY <1>1, <2>1, <2>2, SaverThere
  <2>4. save' = [save EXCEPT ![w] = x]
    BY <1>3, <2>3 DEF MigrateInv, MigrateTypes
  <2>5. db = None
    BY <1>1 DEF stateBackend
  <2>6. \A c \in list : c.n <= writes
    BY <1>1, <2>1, <2>5 DEF MigrateInv, SavesOk, ToFile, SaveAt
  <2> QED
    BY <1>1, <2>2, <2>3, <2>4, <2>6, SaverInv
<1> QED
  BY <1>2, <1>3 DEF SaveFile

(* What takes the place of what is there. *)
LEMMA SavedNew ==
  ASSUME MigrateInv, NEW w \in Savers, save[w] # None, NEW there, Replaced(w, there)
  PROVE  /\ \E new \in SUBSET Changes : Added(new) /\ Saved(w) = save[w].list \cup new
         /\ there \ save[w].list \subseteq savedOver'
         /\ save' \in [Savers -> Saves \cup {None}]
         /\ \A v \in Savers : save'[v] \in {None, save[v]}
<1>1. MigrateTypes /\ save[w] \in Saves /\ savedOver \subseteq savedOver'
      /\ save' = [save EXCEPT ![w] = None]
  BY SaverThere DEF MigrateInv, Replaced
<1>2. \E new \in SUBSET Changes : Added(new) /\ Saved(w) = save[w].list \cup new
  <2>1. CASE save[w].what = "nothing"
    <3>1. accepted' = accepted /\ writes' = writes
      BY <2>1 DEF Replaced
    <3>2. Added({})
      BY <1>1, <3>1 DEF Added, MigrateTypes
    <3> QED
      BY <2>1, <3>2 DEF Saved
  <2>2. CASE save[w].what # "nothing"
    <3>1. PICK what \in Kinds : what = save[w].what
      BY <1>1, <2>2 DEF Saves, Kinds
    <3>2. Counted(Change(what))
      BY <2>2, <3>1 DEF Replaced
    <3>3. Added({Change(what)}) /\ {Change(what)} \in SUBSET Changes
      BY <1>1, <3>2, Changed
    <3>4. Saved(w) = save[w].list \cup {Change(what)}
      BY <2>2, <3>1 DEF Saved
    <3> QED
      BY <3>3, <3>4
  <2> QED
    BY <2>1, <2>2
<1>3. save' \in [Savers -> Saves \cup {None}] /\ \A v \in Savers : save'[v] \in {None, save[v]}
  BY <1>1 DEF MigrateTypes
<1> QED
  BY <1>2, <1>3 DEF Replaced

LEMMA SaveDbTo ==
  ASSUME MigrateInv, NEW w \in Savers, SaveDb(w)
  PROVE  \E f \in Families \ {"queue"}, new \in SUBSET Changes :
           Added(new) /\ ToDb(f, save[w].list, new)
<1>1. save[w] # None /\ db # None
  BY DEF SaveDb, SaveAt, stateBackend
<1>2. PICK f \in Families \ {"queue"} : f = Family(save[w].what)
  BY <1>1, SaverThere
<1>3. Replaced(w, db.content[f]) /\ db' = [db EXCEPT !.content[f] = Saved(w)] /\ json' = json
  BY <1>2 DEF SaveDb
<1>4. PICK new \in SUBSET Changes : Added(new) /\ Saved(w) = save[w].list \cup new
  BY <1>1, <1>3, SavedNew
<1>5. db.content[f] \ save[w].list \subseteq savedOver' /\ save[w].list \subseteq Changes
  BY <1>1, <1>3, SavedNew, SaverThere
<1> QED
  BY <1>1, <1>3, <1>4, <1>5 DEF ToDb

LEMMA SaveDbInv == ASSUME MigrateInv, NEW w \in Savers, SaveDb(w) PROVE MigrateInv'
<1>1. PICK f \in Families \ {"queue"}, new \in SUBSET Changes :
        Added(new) /\ ToDb(f, save[w].list, new)
  BY SaveDbTo
<1>2. save[w] # None /\ Replaced(w, db.content[Family(save[w].what)])
  BY DEF SaveDb, SaveAt
<1>3. save' \in [Savers -> Saves \cup {None}] /\ \A v \in Savers : save'[v] \in {None, save[v]}
  BY <1>2, SavedNew
<1> QED
  BY <1>1, <1>2, <1>3, WriteInv DEF Replaced, Elsewhere

LEMMA SaveLandsInv == ASSUME MigrateInv, NEW w \in Savers, SaveLands(w) PROVE MigrateInv'
<1>1. save[w] # None /\ save[w].at = "land"
  BY DEF SaveLands, SaveAt
<1>2. PICK f \in Families : f = Family(save[w].what)
  BY <1>1, SaverThere
<1>3. Replaced(w, json[f]) /\ json' = [json EXCEPT ![f] = Saved(w)] /\ db' = db
  BY <1>2 DEF SaveLands
<1>4. PICK new \in SUBSET Changes : Added(new) /\ Saved(w) = save[w].list \cup new
  BY <1>1, <1>3, SavedNew
<1>5. json[f] \ save[w].list \subseteq savedOver' /\ save[w].list \subseteq Changes
  BY <1>1, <1>3, SavedNew, SaverThere
<1>6. \A c \in save[w].list : c.n <= writes
  BY <1>1 DEF MigrateInv, SavesOk, ToFile, SaveAt
<1>7. ToJson(f, save[w].list, new)
  BY <1>3, <1>4, <1>5, <1>6 DEF ToJson
<1>8. save' \in [Savers -> Saves \cup {None}] /\ \A v \in Savers : save'[v] \in {None, save[v]}
  BY <1>1, <1>3, SavedNew
<1> QED
  BY <1>3, <1>4, <1>7, <1>8, WriteInv DEF Replaced, Elsewhere

-----------------------------------------------------------------------------
(* The journal.                                                             *)
LEMMA LastRun ==
  ASSUME MigrateInv
  PROVE  /\ lastIncompleteRun = None <=> Unfinished = {}
         /\ lastIncompleteRun # None => lastIncompleteRun \in Unfinished
<1>1. ASSUME Unfinished # {}
      PROVE  lastIncompleteRun \in Unfinished
  <2>1. Unfinished \in SUBSET Journaled
    BY DEF Unfinished
  <2>2. \E r \in Unfinished : \A q \in Unfinished \ {r} : <<r, q>> \in newer
    BY <1>1, <2>1 DEF MigrateInv, Newest
  <2> QED
    BY <1>1, <2>2 DEF lastIncompleteRun
<1>2. Unfinished \subseteq Runs
  BY DEF Unfinished, Journaled
<1> QED
  BY <1>1, <1>2 DEF lastIncompleteRun

(* A phase is recorded: the run becomes the newest of those with a journal.   *)
LEMMA Appended ==
  ASSUME MigrateInv, NEW p \in Procs, NEW r \in Runs, mig[p].run = r, NEW phase \in Phases,
         NEW import \in Imports \cup {None}, Append(p, phase, import)
  PROVE  /\ journal' \in [Runs -> Journals] /\ newer' \subseteq Runs \X Runs
         /\ journal'[r].phases = journal[r].phases \cup {phase}
         /\ journal'[r].last = phase /\ journal'[r].import = import
         /\ \A q \in Runs \ {r} : journal'[q] = journal[q]
         /\ Newest'
         /\ Unfinished' = IF phase = "done" THEN Unfinished \ {r} ELSE Unfinished \cup {r}
<1>1. journal \in [Runs -> Journals] /\ newer \subseteq Runs \X Runs
  BY DEF MigrateInv, MigrateTypes
<1>2. PICK e : e = [phases |-> journal[r].phases \cup {phase}, last |-> phase, import |-> import]
  OBVIOUS
<1>3. e \in Journals
  BY <1>1, <1>2 DEF Journals
<1>4. journal' = [journal EXCEPT ![r] = e]
  BY <1>2 DEF Append
<1>5. journal'[r] = e /\ journal' \in [Runs -> Journals]
      /\ \A q \in Runs \ {r} : journal'[q] = journal[q]
  BY <1>1, <1>3, <1>4
<1>6. phase # None
  OBVIOUS
<1>7. Journaled' = Journaled \cup {r}
  BY <1>2, <1>5, <1>6 DEF Journaled
<1>8. Unfinished' = IF phase = "done" THEN Unfinished \ {r} ELSE Unfinished \cup {r}
  BY <1>2, <1>5, <1>7 DEF Unfinished, Journaled
<1>9. newer' = {pair \in newer : r \notin {pair[1], pair[2]}} \cup ({r} \X (Journaled \ {r}))
  BY DEF Append
<1>10. newer' \subseteq Runs \X Runs
  BY <1>1, <1>9 DEF Journaled
<1>11. Newest'
  <2> SUFFICES ASSUME NEW s \in SUBSET (Journaled \cup {r}), s # {}
               PROVE  \E x \in s : \A q \in s \ {x} : <<x, q>> \in newer'
    BY <1>7 DEF Newest
  <2>1. CASE r \in s
    <3>1. \A q \in s \ {r} : <<r, q>> \in newer'
      BY <1>9
    <3> QED
      BY <2>1, <3>1
  <2>2. CASE r \notin s
    <3>1. s \in SUBSET Journaled
      BY <2>2
    <3>2. PICK x \in s : \A q \in s \ {x} : <<x, q>> \in newer
      BY <3>1 DEF MigrateInv, Newest
    <3>3. \A q \in s \ {x} : <<x, q>> \in newer'
      BY <2>2, <3>2, <1>9
    <3> QED
      BY <3>3
  <2> QED
    BY <2>1, <2>2
<1> QED
  BY <1>2, <1>5, <1>8, <1>10, <1>11

LEMMA RunThere ==
  ASSUME MigrateInv, NEW p \in Procs, mig[p].at # "idle"
  PROVE  /\ mig[p].run \in Runs /\ mig[p].run \in 1..calls /\ mig[p] \in Migrations
         /\ journal[mig[p].run] \in Journals /\ JournalOk(journal[mig[p].run])
         /\ journal[mig[p].run].import \in Imports \cup {None}
<1>1. mig[p].run \in 1..calls /\ calls \in 0..MaxRuns /\ mig[p] \in Migrations
  BY DEF MigrateInv, MigrateTypes
<1>2. mig[p].run \in Runs
  BY <1>1 DEF Runs
<1> QED
  BY <1>1, <1>2 DEF MigrateInv, MigrateTypes, JournalsOk, Journals

(* Of its own run, without a word on the import. *)
LEMMA Recorded ==
  ASSUME MigrateInv, NEW p \in Procs, mig[p].at # "idle", NEW r, r = mig[p].run, NEW phase \in Phases,
         phase # "import", Record(p, phase)
  PROVE  /\ journal' \in [Runs -> Journals] /\ newer' \subseteq Runs \X Runs
         /\ journal'[r].phases = journal[r].phases \cup {phase}
         /\ journal'[r].last # None /\ journal'[r].import = journal[r].import
         /\ \A q \in Runs \ {r} : journal'[q] = journal[q]
         /\ Newest' /\ JournalOk(journal'[r])
         /\ Unfinished' = IF phase = "done" THEN Unfinished \ {r} ELSE Unfinished \cup {r}
<1>1. r \in Runs /\ journal[r].import \in Imports \cup {None} /\ JournalOk(journal[r])
  BY RunThere
<1>2. PICK import \in Imports \cup {None} : import = journal[r].import
  BY <1>1
<1>3. Append(p, phase, import) /\ mig[p].run = r
  BY <1>2 DEF Record
<1>4. /\ journal' \in [Runs -> Journals] /\ newer' \subseteq Runs \X Runs
      /\ journal'[r].phases = journal[r].phases \cup {phase}
      /\ journal'[r].last = phase /\ journal'[r].import = journal[r].import
      /\ \A q \in Runs \ {r} : journal'[q] = journal[q]
      /\ Newest'
      /\ Unfinished' = IF phase = "done" THEN Unfinished \ {r} ELSE Unfinished \cup {r}
  BY <1>1, <1>2, <1>3, Appended
<1>5. JournalOk(journal'[r]) /\ journal'[r].last # None
  BY <1>1, <1>4 DEF JournalOk
<1> QED
  BY <1>4, <1>5

LEMMA Unrecorded ==
  ASSUME MigrateInv, NEW p \in Procs, Within(mig[p]), UNCHANGED <<journal, newer>>
  PROVE  /\ journal' \in [Runs -> Journals] /\ newer' \subseteq Runs \X Runs
         /\ \A q \in Runs : journal'[q] = journal[q]
         /\ Newest' /\ JournalOk(journal'[mig[p].run]) /\ journal'[mig[p].run].last # None
         /\ Unfinished' = Unfinished
<1>1. Journaled' = Journaled /\ Unfinished' = Unfinished
  BY DEF Journaled, Unfinished
<1>2. mig[p].at # "idle"
  BY DEF Within
<1> QED
  BY <1>1, <1>2, RunThere DEF MigrateInv, MigrateTypes, Newest, WaitingOk

-----------------------------------------------------------------------------
(* A step of the migration inside: what has to be said of the step to have    *)
(* the invariant again.                                                     *)
StraightStep(m, j, s, d, unfinished, r) ==
  /\ unfinished \subseteq {r}
  /\ r \in unfinished => RunOk(j, s, d, json, Standing)
  /\ Within(m) => r \in unfinished /\ HolderOk(m, j, d)
  /\ FrozenOk(d, json, Standing, writes)

LEMMA InsideStep ==
  ASSUME MigrateInv, NEW p \in Procs, mig[p].at # "idle", lock \in {p, None},
         NEW r, r = mig[p].run,
         NEW m \in Migrations, mig' = [mig EXCEPT ![p] = m],
         \/ Within(m) /\ m.run = r /\ m.view = mig[p].view /\ lock' = p
         \/ m = Idle /\ lock' = None,
         m.at = "stage" => m.copy \in Contents,
         journal' \in [Runs -> Journals], newer' \subseteq Runs \X Runs, Newest',
         \A q \in Runs \ {r} : journal'[q] = journal[q],
         JournalOk(journal'[r]), journal'[r].last # None,
         UNCHANGED <<json, save, accepted, savedOver, writes, calls>>,
         overtaken' \in BOOLEAN, overtaken => overtaken', marker' \in BOOLEAN, db' \in Databases \cup {None}, db # None => db' # None,
         staged' \in [Runs -> Contents \cup {None}],
         "import" \in journal'[r].phases => Dated(journal'[r].import.frozen, writes),
         "install" \in journal'[r].phases => db' # None,
         Within(m) => PlaceOk(m, staged'[r], db'),
         ~overtaken' => StraightStep(m, journal'[r], staged'[r], db', Unfinished', r)
  PROVE  MigrateInv'
<1>1. MigrateTypes
  BY DEF MigrateInv
<1>2. r \in Runs /\ r \in 1..calls /\ mig[p].at # "idle"
  BY RunThere
<1>3. mig'[p] = m /\ \A q \in Procs \ {p} : mig'[q] = mig[q] /\ ~Within(mig[q])
  BY <1>1 DEF MigrateTypes
<1>4. mig' \in [Procs -> Migrations]
  BY <1>1 DEF MigrateTypes
<1>5. /\ m.at # "idle" => m.run \in 1..calls
      /\ m.at = "stage" => m.copy \in Contents
      /\ Within(m) <=> lock' = p
      /\ m.at # "idle" => Within(m)
      /\ JournalOk(m.view) /\ ("install" \in m.view.phases => db # None)
      /\ lock' = p \/ lock' = None
  <2>1. CASE m = Idle /\ lock' = None
    BY <1>1, <2>1, NothingTyped
  <2>2. CASE Within(m) /\ m.run = r /\ m.view = mig[p].view /\ lock' = p
    BY <1>1, <1>2, <2>2 DEF MigrateInv, JournalsOk, InstallsOk
  <2> QED
    BY <2>1, <2>2
<1>6. MigrateTypes'
  <2>1. \A q \in Procs : mig'[q].at # "idle" => mig'[q].run \in 1..calls
    BY <1>1, <1>3, <1>5 DEF MigrateTypes
  <2>2. \A q \in Procs : mig'[q].at = "stage" => mig'[q].copy \in Contents
    BY <1>1, <1>3, <1>5 DEF MigrateTypes
  <2>3. \A q \in Procs : Within(mig'[q]) <=> lock' = q
    BY <1>1, <1>3, <1>5
  <2> QED
    BY <1>1, <1>4, <1>5, <2>1, <2>2, <2>3 DEF MigrateTypes
<1>7. SavesOk' /\ InFiles' /\ Standing' = Standing
  BY DEF SavesOk, ToFile, SaveAt, InFiles, Standing, MigrateInv
<1>8. JournalsOk'
  <2>1. \A q \in Runs : JournalOk(journal'[q])
    BY DEF MigrateInv, JournalsOk
  <2>2. \A q \in Runs : q > calls => journal'[q] = NoJournal
    BY <1>1, <1>2 DEF MigrateInv, JournalsOk, MigrateTypes
  <2>3. \A q \in Procs : JournalOk(mig'[q].view)
    BY <1>3, <1>5 DEF MigrateInv, JournalsOk
  <2> QED
    BY <2>1, <2>2, <2>3 DEF JournalsOk
<1>9. WaitingOk'
  <2>1. ASSUME NEW q \in Procs \ {p}, mig[q].at # "idle"
        PROVE  /\ mig[q].at = "wait" /\ mig[q].run \in Runs
               /\ mig[q].fresh => mig[q].run # r /\ mig[q].view = NoJournal
                                  /\ journal'[mig[q].run] = NoJournal
               /\ ~mig[q].fresh => journal'[mig[q].run].last # None
    <3>1. mig[q].at = "wait" /\ mig[q].run \in Runs
      BY <1>3, <2>1, RunThere DEF Within
    <3>2. CASE mig[q].fresh
      BY <1>2, <2>1, <3>1, <3>2 DEF MigrateInv, WaitingOk
    <3>3. CASE ~mig[q].fresh
      BY <2>1, <3>1, <3>3 DEF MigrateInv, WaitingOk
    <3> QED
      BY <3>1, <3>2, <3>3
  <2>2. ASSUME NEW q \in Procs, mig'[q].at = "wait", mig'[q].fresh
        PROVE  /\ mig'[q].view = NoJournal /\ journal'[mig'[q].run] = NoJournal
               /\ \A x \in Procs : mig'[x].at # "idle" /\ mig'[x].run = mig'[q].run => x = q
    <3>1. q # p /\ mig'[q] = mig[q]
      BY <1>3, <1>5, <2>2 DEF Within
    <3>2. \A x \in Procs : mig'[x].at # "idle" =>
             mig[x].at # "idle" /\ mig'[x].run = mig[x].run
      BY <1>2, <1>3, NothingTyped
    <3>3. \A x \in Procs : mig[x].at # "idle" /\ mig[x].run = mig[q].run => x = q
      BY <2>2, <3>1 DEF MigrateInv, WaitingOk
    <3> QED
      BY <2>1, <2>2, <3>1, <3>2, <3>3
  <2>3. ASSUME NEW q \in Procs, mig'[q].at # "idle", Within(mig'[q]) \/ ~mig'[q].fresh
        PROVE  journal'[mig'[q].run].last # None
    <3>1. CASE q = p
      BY <1>3, <2>3, <3>1, NothingTyped
    <3>2. CASE q # p
      BY <1>3, <2>1, <2>3, <3>2
    <3> QED
      BY <3>1, <3>2
  <2> QED
    BY <2>2, <2>3 DEF WaitingOk
<1>10. DatesOk'
  BY DEF MigrateInv, DatesOk
<1>11. InstallsOk'
  <2>1. \A q \in Procs : "install" \in mig'[q].view.phases => db' # None
    BY <1>3, <1>5 DEF MigrateInv, InstallsOk
  <2> QED
    BY <2>1 DEF MigrateInv, InstallsOk
<1>12. PlacesOk'
  <2> SUFFICES ASSUME NEW q \in Procs, Within(mig'[q])
               PROVE  PlaceOk(mig'[q], staged'[mig'[q].run], db')
    BY DEF PlacesOk
  <2>1. q = p /\ mig'[q] = m
    BY <1>3
  <2> QED
    BY <2>1, NothingTyped
<1>13. ASSUME ~overtaken' PROVE Straight'
  <2>1. StraightStep(m, journal'[r], staged'[r], db', Unfinished', r)
    BY <1>13
  <2>2. ASSUME NEW q \in Procs, Within(mig'[q])
        PROVE  mig'[q].run \in Unfinished' /\ HolderOk(mig'[q], journal'[mig'[q].run], db')
    <3>1. q = p /\ mig'[q] = m /\ m.run = r
      BY <1>3, <2>2, NothingTyped
    <3> QED
      BY <2>1, <2>2, <3>1 DEF StraightStep
  <2>3. \A x, y \in Unfinished' : x = y
    BY <2>1 DEF StraightStep
  <2>4. \A x \in Unfinished' : RunOk(journal'[x], staged'[x], db', json', Standing')
    BY <1>7, <2>1 DEF StraightStep
  <2>5. FrozenOk(db', json', Standing', writes')
    BY <1>7, <2>1 DEF StraightStep
  <2> QED
    BY <2>2, <2>3, <2>4, <2>5 DEF Straight
<1> QED
  BY <1>6, <1>7, <1>8, <1>9, <1>10, <1>11, <1>12, <1>13 DEF MigrateInv

LEMMA HolderStep ==
  ASSUME MigrateInv, NEW p \in Procs, Within(mig[p]), NEW r, r = mig[p].run,
         NEW m \in Migrations, mig' = [mig EXCEPT ![p] = m],
         \/ Within(m) /\ m.run = r /\ m.view = mig[p].view /\ lock' = lock
         \/ m = Idle /\ lock' = None,
         m.at = "stage" => m.copy \in Contents,
         journal' \in [Runs -> Journals], newer' \subseteq Runs \X Runs, Newest',
         \A q \in Runs \ {r} : journal'[q] = journal[q],
         JournalOk(journal'[r]), journal'[r].last # None,
         UNCHANGED <<json, save, accepted, savedOver, writes, calls, overtaken>>,
         marker' \in BOOLEAN, db' \in Databases \cup {None}, db # None => db' # None,
         staged' \in [Runs -> Contents \cup {None}],
         "import" \in journal'[r].phases => Dated(journal'[r].import.frozen, writes),
         "install" \in journal'[r].phases => db' # None,
         Within(m) => PlaceOk(m, staged'[r], db'),
         ~overtaken => StraightStep(m, journal'[r], staged'[r], db', Unfinished', r)
  PROVE  MigrateInv'
<1>1. mig[p].at # "idle" /\ lock = p /\ overtaken' \in BOOLEAN
  BY DEF Within, MigrateInv, MigrateTypes
<1> QED
  BY <1>1, InsideStep

LEMMA Holder ==
  ASSUME MigrateInv, NEW p \in Procs, Within(mig[p]), NEW r, r = mig[p].run
  PROVE  /\ r \in Runs /\ mig[p] \in Migrations /\ mig[p].at # "idle" /\ lock = p
         /\ journal[r] \in Journals /\ JournalOk(journal[r]) /\ journal[r].last # None
         /\ "import" \in journal[r].phases => Dated(journal[r].import.frozen, writes)
         /\ "install" \in journal[r].phases => db # None
         /\ staged[r] \in Contents \cup {None}
         /\ staged \in [Runs -> Contents \cup {None}] /\ db \in Databases \cup {None}
         /\ marker \in BOOLEAN /\ json \in Contents
         /\ PlaceOk(mig[p], staged[r], db)
         /\ ~overtaken => StraightStep(mig[p], journal[r], staged[r], db, Unfinished, r)
<1>1. r \in Runs /\ mig[p] \in Migrations /\ mig[p].at # "idle"
      /\ journal[r] \in Journals /\ JournalOk(journal[r])
  BY RunThere DEF Within
<1>2. journal[r].last # None
  BY <1>1 DEF MigrateInv, WaitingOk
<1>3. ~overtaken => StraightStep(mig[p], journal[r], staged[r], db, Unfinished, r)
  <2> SUFFICES ASSUME Straight
               PROVE  StraightStep(mig[p], journal[r], staged[r], db, Unfinished, r)
    BY DEF MigrateInv
  <2>1. r \in Unfinished /\ HolderOk(mig[p], journal[r], db)
    BY DEF Straight
  <2>2. Unfinished \subseteq {r}
    BY <2>1 DEF Straight
  <2> QED
    BY <2>1, <2>2 DEF Straight, StraightStep
<1> QED
  BY <1>1, <1>2, <1>3 DEF MigrateInv, MigrateTypes, DatesOk, InstallsOk, PlacesOk

(* The migration goes to another place, with what it has. *)
LEMMA Gone ==
  ASSUME MigrateTypes, NEW p \in Procs, NEW place \in Places, Goto(p, place)
  PROVE  \E m \in Migrations :
           /\ mig' = [mig EXCEPT ![p] = m] /\ m.at = place
           /\ m.run = mig[p].run /\ m.view = mig[p].view
           /\ m.copy = mig[p].copy /\ m.frozen = mig[p].frozen
<1>1. mig[p] \in Migrations
  BY DEF MigrateTypes
<1>2. PICK a \in Places, run \in 0..MaxRuns, view \in Journals, fresh \in BOOLEAN,
           copy \in Contents \cup {None}, frozen \in Contents \cup {None} :
        mig[p] = [at |-> a, run |-> run, view |-> view, fresh |-> fresh, copy |-> copy, frozen |-> frozen]
  BY <1>1 DEF Migrations
<1>3. PICK m : m = [at |-> place, run |-> run, view |-> view, fresh |-> fresh, copy |-> copy,
                    frozen |-> frozen]
  OBVIOUS
<1>4. m \in Migrations
  BY <1>2, <1>3 DEF Migrations
<1>5. mig' = [mig EXCEPT ![p] = m]
  <2>1. [mig[p] EXCEPT !.at = place] = m
    BY <1>2, <1>3
  <2> QED
    BY <2>1 DEF Goto
<1>6. /\ m.at = place /\ m.run = mig[p].run /\ m.view = mig[p].view
      /\ m.copy = mig[p].copy /\ m.frozen = mig[p].frozen
  BY <1>2, <1>3
<1> QED
  BY <1>4, <1>5, <1>6

(* The section is left and nothing of the files is changed. *)
LEMMA LeaveInv ==
  ASSUME MigrateInv, NEW p \in Procs, Within(mig[p]), Leave(p),
         UNCHANGED <<json, db, marker, journal, newer, staged, save, accepted, savedOver, writes, calls, overtaken>>
  PROVE  MigrateInv'
<1>1. PICK r : r = mig[p].run
  OBVIOUS
<1>2. mig' = [mig EXCEPT ![p] = Idle] /\ lock' = None
  BY DEF Leave
<1>3. /\ r \in Runs
      /\ "import" \in journal[r].phases => Dated(journal[r].import.frozen, writes)
      /\ "install" \in journal[r].phases => db # None
      /\ staged \in [Runs -> Contents \cup {None}] /\ db \in Databases \cup {None}
      /\ marker \in BOOLEAN
      /\ ~overtaken => StraightStep(mig[p], journal[r], staged[r], db, Unfinished, r)
  BY <1>1, Holder
<1>4. /\ journal' \in [Runs -> Journals] /\ newer' \subseteq Runs \X Runs
      /\ \A q \in Runs : journal'[q] = journal[q]
      /\ Newest' /\ JournalOk(journal'[r]) /\ journal'[r].last # None
      /\ Unfinished' = Unfinished
  BY <1>1, Unrecorded
<1>5. ~overtaken => StraightStep(Idle, journal'[r], staged'[r], db', Unfinished', r)
  BY <1>3, <1>4, NothingTyped DEF StraightStep
<1>6. Idle \in Migrations /\ ~Within(Idle) /\ Idle.at # "stage"
  BY NothingTyped
<1> QED
  BY <1>1, <1>2, <1>3, <1>4, <1>5, <1>6, HolderStep

(* Places a migration goes to, and what is to be said of it there. *)
LEMMA GotoInv ==
  ASSUME MigrateInv, NEW p \in Procs, Within(mig[p]), NEW r, r = mig[p].run,
         NEW place \in Places, place \notin {"idle", "wait", "stage"}, Goto(p, place), UNCHANGED lock,
         journal' \in [Runs -> Journals], newer' \subseteq Runs \X Runs, Newest',
         \A q \in Runs \ {r} : journal'[q] = journal[q],
         JournalOk(journal'[r]), journal'[r].last # None,
         UNCHANGED <<json, save, accepted, savedOver, writes, calls, overtaken>>,
         marker' \in BOOLEAN, db' \in Databases \cup {None}, db # None => db' # None,
         staged' \in [Runs -> Contents \cup {None}],
         "import" \in journal'[r].phases => Dated(journal'[r].import.frozen, writes),
         "install" \in journal'[r].phases => db' # None,
         place \in {"drift", "rename"} =>
           staged'[r] \in Contents /\ (db' # None => staged'[r]["queue"] = db'.content["queue"]),
         place \in After => db' # None,
         ~overtaken =>
           \A m : m.at = place /\ m.view = mig[p].view /\ m.frozen = mig[p].frozen =>
             StraightStep(m, journal'[r], staged'[r], db', Unfinished', r)
  PROVE  MigrateInv'
<1>1. PICK m \in Migrations :
        /\ mig' = [mig EXCEPT ![p] = m] /\ m.at = place
        /\ m.run = mig[p].run /\ m.view = mig[p].view
        /\ m.copy = mig[p].copy /\ m.frozen = mig[p].frozen
  BY Gone DEF MigrateInv
<1>2. Within(m) /\ m.at # "stage" /\ PlaceOk(m, staged'[r], db')
  BY <1>1 DEF Within, PlaceOk
<1>3. ~overtaken => StraightStep(m, journal'[r], staged'[r], db', Unfinished', r)
  BY <1>1
<1> QED
  BY <1>1, <1>2, <1>3, HolderStep

-----------------------------------------------------------------------------
(* The steps of a migration, one by one.                                    *)
LEMMA BackupInv == ASSUME MigrateInv, NEW p \in Procs, Backup(p) PROVE MigrateInv'
<1>1. PICK r : r = mig[p].run
  OBVIOUS
<1>2. Within(mig[p])
  BY DEF Backup, Within
<1>3. /\ r \in Runs /\ mig[p].at # "idle"
      /\ "import" \in journal[r].phases => Dated(journal[r].import.frozen, writes)
      /\ "install" \in journal[r].phases => db # None
      /\ staged \in [Runs -> Contents \cup {None}] /\ db \in Databases \cup {None}
      /\ marker \in BOOLEAN
      /\ ~overtaken => StraightStep(mig[p], journal[r], staged[r], db, Unfinished, r)
  BY <1>1, <1>2, Holder
<1>4. /\ journal' \in [Runs -> Journals] /\ newer' \subseteq Runs \X Runs
      /\ \A q \in Runs \ {r} : journal'[q] = journal[q]
      /\ Newest' /\ JournalOk(journal'[r]) /\ journal'[r].last # None
      /\ journal'[r].phases \in {journal[r].phases, journal[r].phases \cup {"backup"}}
      /\ journal'[r].import = journal[r].import
      /\ Unfinished' \in {Unfinished, Unfinished \cup {r}}
  <2>1. CASE UNCHANGED <<journal, newer>>
    BY <1>1, <1>2, <1>3, <2>1, Unrecorded
  <2>2. CASE Record(p, "backup")
    BY <1>1, <1>3, <2>2, Recorded DEF Phases
  <2> QED
    BY <2>1, <2>2 DEF Backup
<1>5. UNCHANGED <<json, db, marker, staged, lock, save, accepted, savedOver, writes, calls, overtaken>>
      /\ Goto(p, "import") /\ mig[p].at = "backup"
  BY DEF Backup, store, others
<1>6. ASSUME ~overtaken, NEW m, m.at = "import", m.view = mig[p].view, m.frozen = mig[p].frozen
      PROVE  StraightStep(m, journal'[r], staged'[r], db', Unfinished', r)
  <2>1. StraightStep(mig[p], journal[r], staged[r], db, Unfinished, r)
    BY <1>3, <1>6
  <2>2. r \in Unfinished' /\ Unfinished' \subseteq {r}
    BY <1>2, <1>4, <2>1 DEF StraightStep
  <2>3. RunOk(journal'[r], staged'[r], db', json, Standing)
    BY <1>2, <1>4, <1>5, <2>1 DEF StraightStep, RunOk
  <2>4. HolderOk(m, journal'[r], db')
    BY <1>2, <1>4, <1>5, <1>6, <2>1 DEF StraightStep, HolderOk, Before
  <2> QED
    BY <1>5, <2>1, <2>2, <2>3, <2>4 DEF StraightStep
<1> QED
  BY <1>1, <1>2, <1>3, <1>4, <1>5, <1>6, GotoInv DEF Places, After

LEMMA ImportReadInv == ASSUME MigrateInv, NEW p \in Procs, ImportRead(p) PROVE MigrateInv'
<1>1. PICK r : r = mig[p].run
  OBVIOUS
<1>2. Within(mig[p]) /\ mig[p].at = "import" /\ "import" \notin mig[p].view.phases
      /\ UNCHANGED <<json, db, marker, journal, newer, staged, save, accepted, savedOver, writes, calls, overtaken>>
  BY DEF ImportRead, Within, Seen, files, store, others
<1>3. CASE stateBackend = "missing"
  BY <1>2, <1>3, LeaveInv DEF ImportRead
<1>4. CASE stateBackend # "missing"
  <2>1. /\ r \in Runs /\ mig[p].at # "idle" /\ mig[p] \in Migrations
        /\ "import" \in journal[r].phases => Dated(journal[r].import.frozen, writes)
        /\ "install" \in journal[r].phases => db # None
        /\ staged \in [Runs -> Contents \cup {None}] /\ db \in Databases \cup {None}
        /\ marker \in BOOLEAN /\ json \in Contents
        /\ ~overtaken => StraightStep(mig[p], journal[r], staged[r], db, Unfinished, r)
    BY <1>1, <1>2, Holder
  <2>2. Source \in Contents
    BY <2>1 DEF Source, Databases
  <2>3. PICK run \in 0..MaxRuns, view \in Journals, fresh \in BOOLEAN,
             copy \in Contents \cup {None}, frozen \in Contents \cup {None} :
          mig[p] = [at |-> "import", run |-> run, view |-> view, fresh |-> fresh, copy |-> copy,
                    frozen |-> frozen]
    BY <1>2, <2>1 DEF Migrations
  <2>4. PICK m : m = [at |-> "stage", run |-> run, view |-> view, fresh |-> fresh, copy |-> Source,
                      frozen |-> frozen]
    OBVIOUS
  <2>5. m \in Migrations /\ Within(m) /\ m.run = r /\ m.view = mig[p].view /\ m.at = "stage"
        /\ m.copy = Source
    BY <1>1, <2>2, <2>3, <2>4 DEF Migrations, Places, Within
  <2>6. mig' = [mig EXCEPT ![p] = m] /\ lock' = lock
    <3>1. PICK m0 : m0 = [at |-> "stage", run |-> run, view |-> view, fresh |-> fresh, copy |-> copy,
                          frozen |-> frozen]
      OBVIOUS
    <3>2. [mig[p] EXCEPT !.at = "stage"] = m0
      BY <2>3, <3>1
    <3>3. [m0 EXCEPT !.copy = Source] = m
      BY <2>4, <3>1
    <3>4. mig' = [mig EXCEPT ![p].at = "stage", ![p].copy = Source] /\ lock' = lock
      BY <1>4 DEF ImportRead
    <3>5. mig' = [mig EXCEPT ![p] = [[mig[p] EXCEPT !.at = "stage"] EXCEPT !.copy = Source]]
      BY <3>4 DEF MigrateInv, MigrateTypes
    <3> QED
      BY <3>2, <3>3, <3>4, <3>5
  <2>7. /\ journal' \in [Runs -> Journals] /\ newer' \subseteq Runs \X Runs
        /\ \A q \in Runs : journal'[q] = journal[q]
        /\ Newest' /\ JournalOk(journal'[r]) /\ journal'[r].last # None
        /\ Unfinished' = Unfinished
    BY <1>1, <1>2, Unrecorded
  <2>8. ASSUME ~overtaken
        PROVE  StraightStep(m, journal'[r], staged'[r], db', Unfinished', r)
    <3>1. StraightStep(mig[p], journal[r], staged[r], db, Unfinished, r)
      BY <2>1, <2>8
    <3>2. r \in Unfinished /\ HolderOk(mig[p], journal[r], db)
          /\ RunOk(journal[r], staged[r], db, json, Standing)
      BY <1>2, <3>1 DEF StraightStep
    <3>3. "import" \notin journal[r].phases /\ db = None
      BY <1>2, <3>2 DEF HolderOk, RunOk
    <3>4. HolderOk(m, journal'[r], db')
      BY <1>2, <2>1, <2>5, <2>7, <3>2, <3>3 DEF HolderOk, Before
    <3> QED
      BY <1>2, <2>1, <2>7, <3>1, <3>4 DEF StraightStep
  <2>9. PlaceOk(m, staged'[r], db')
    BY <2>5 DEF PlaceOk, After
  <2> QED
    BY <1>1, <1>2, <2>1, <2>2, <2>5, <2>6, <2>7, <2>8, <2>9, HolderStep
<1> QED
  BY <1>3, <1>4

LEMMA ImportInv == ASSUME MigrateInv, NEW p \in Procs, Import(p) PROVE MigrateInv'
<1>1. PICK r : r = mig[p].run
  OBVIOUS
<1>2. Within(mig[p]) /\ mig[p].at = "stage"
      /\ UNCHANGED <<json, db, marker, lock, save, accepted, savedOver, writes, calls, overtaken>>
  BY DEF Import, Within, store, others
<1>3. /\ r \in Runs /\ mig[p].at # "idle" /\ mig[p] \in Migrations
      /\ "install" \in journal[r].phases => db # None
      /\ staged \in [Runs -> Contents \cup {None}] /\ db \in Databases \cup {None}
      /\ marker \in BOOLEAN /\ json \in Contents
      /\ ~overtaken => StraightStep(mig[p], journal[r], staged[r], db, Unfinished, r)
  BY <1>1, <1>2, Holder
<1>4. mig[p].copy \in Contents
  BY <1>2 DEF MigrateInv, MigrateTypes
<1>5. PICK import : import = [frozen |-> json, rows |-> Rows(mig[p].copy)]
  OBVIOUS
<1>6. import \in Imports /\ import.frozen = json
  BY <1>3, <1>4, <1>5 DEF Imports
<1>7. Append(p, "import", import)
  BY <1>5 DEF Import
<1>8. /\ journal' \in [Runs -> Journals] /\ newer' \subseteq Runs \X Runs
      /\ journal'[r].phases = journal[r].phases \cup {"import"}
      /\ journal'[r].last = "import" /\ journal'[r].import = import
      /\ \A q \in Runs \ {r} : journal'[q] = journal[q]
      /\ Newest' /\ Unfinished' = Unfinished \cup {r}
  BY <1>1, <1>3, <1>6, <1>7, Appended DEF Phases
<1>9. JournalOk(journal'[r]) /\ journal'[r].last # None
  <2>1. "import" # None
    BY DEF Phases
  <2> QED
    BY <1>6, <1>8, <2>1 DEF JournalOk
<1>10. staged' = [staged EXCEPT ![r] = mig[p].copy]
  BY <1>1 DEF Import
<1>11. staged' \in [Runs -> Contents \cup {None}] /\ staged'[r] = mig[p].copy
  BY <1>3, <1>4, <1>10
<1>12. PICK run \in 0..MaxRuns, view \in Journals, fresh \in BOOLEAN,
            copy \in Contents \cup {None}, frozen \in Contents \cup {None} :
         mig[p] = [at |-> "stage", run |-> run, view |-> view, fresh |-> fresh, copy |-> copy,
                   frozen |-> frozen]
  BY <1>2, <1>3 DEF Migrations
<1>13. PICK m : m = [at |-> "reconcile", run |-> run, view |-> view, fresh |-> fresh, copy |-> None,
                     frozen |-> json]
  OBVIOUS
<1>14. m \in Migrations /\ Within(m) /\ m.run = r /\ m.view = mig[p].view /\ m.at = "reconcile"
       /\ m.frozen = json
  BY <1>1, <1>3, <1>12, <1>13 DEF Migrations, Places, Within
<1>15. mig' = [mig EXCEPT ![p] = m]
  <2>1. PICK m0 : m0 = [at |-> "reconcile", run |-> run, view |-> view, fresh |-> fresh,
                        copy |-> copy, frozen |-> frozen]
    OBVIOUS
  <2>2. PICK m1 : m1 = [at |-> "reconcile", run |-> run, view |-> view, fresh |-> fresh,
                        copy |-> copy, frozen |-> json]
    OBVIOUS
  <2>3. [mig[p] EXCEPT !.at = "reconcile"] = m0
    BY <1>12, <2>1
  <2>4. [m0 EXCEPT !.frozen = json] = m1
    BY <2>1, <2>2
  <2>5. [m1 EXCEPT !.copy = None] = m
    BY <1>13, <2>2
  <2>6. mig' = [mig EXCEPT ![p].at = "reconcile", ![p].frozen = json, ![p].copy = None]
    BY DEF Import
  <2>7. mig' = [mig EXCEPT ![p] =
                  [[[mig[p] EXCEPT !.at = "reconcile"] EXCEPT !.frozen = json] EXCEPT !.copy = None]]
    BY <2>6 DEF MigrateInv, MigrateTypes
  <2> QED
    BY <2>3, <2>4, <2>5, <2>7
<1>16. ASSUME ~overtaken
       PROVE  StraightStep(m, journal'[r], staged'[r], db', Unfinished', r)
  <2>1. StraightStep(mig[p], journal[r], staged[r], db, Unfinished, r)
    BY <1>3, <1>16
  <2>2. r \in Unfinished /\ HolderOk(mig[p], journal[r], db)
        /\ RunOk(journal[r], staged[r], db, json, Standing)
    BY <1>2, <2>1 DEF StraightStep
  <2>3. "import" \notin journal[r].phases /\ "reconcile" \notin journal[r].phases /\ db = None
    BY <1>2, <2>2 DEF HolderOk, RunOk
  <2>4. HolderOk(m, journal'[r], db')
    BY <1>2, <1>6, <1>8, <1>14, <2>2, <2>3 DEF HolderOk, Before
  <2>5. RunOk(journal'[r], staged'[r], db', json, Standing)
    BY <1>2, <1>6, <1>8, <1>11, <2>3 DEF RunOk
  <2> QED
    BY <1>2, <1>8, <2>1, <2>2, <2>4, <2>5 DEF StraightStep
<1>17. PlaceOk(m, staged'[r], db')
  BY <1>14 DEF PlaceOk, After
<1>18. Dated(journal'[r].import.frozen, writes) /\ ("install" \in journal'[r].phases => db' # None)
  BY <1>2, <1>3, <1>6, <1>8 DEF MigrateInv, DatesOk
<1> QED
  BY <1>1, <1>2, <1>3, <1>8, <1>9, <1>11, <1>14, <1>15, <1>16, <1>17, <1>18, HolderStep

LEMMA ImportSeenInv == ASSUME MigrateInv, NEW p \in Procs, ImportSeen(p) PROVE MigrateInv'
<1>1. PICK r : r = mig[p].run
  OBVIOUS
<1>2. Within(mig[p]) /\ mig[p].at = "import" /\ "import" \in mig[p].view.phases
      /\ UNCHANGED <<json, db, marker, journal, newer, staged, lock, save, accepted, savedOver, writes, calls,
                     overtaken>>
  BY DEF ImportSeen, Within, Seen, files, store, others
<1>3. /\ r \in Runs /\ mig[p].at # "idle" /\ mig[p] \in Migrations
      /\ "import" \in journal[r].phases => Dated(journal[r].import.frozen, writes)
      /\ "install" \in journal[r].phases => db # None
      /\ staged \in [Runs -> Contents \cup {None}] /\ db \in Databases \cup {None}
      /\ marker \in BOOLEAN
      /\ ~overtaken => StraightStep(mig[p], journal[r], staged[r], db, Unfinished, r)
  BY <1>1, <1>2, Holder
<1>4. mig[p].view.import \in Imports /\ mig[p].view.import.frozen \in Contents
  BY <1>2 DEF MigrateInv, JournalsOk, JournalOk, Imports
<1>5. PICK place : place = IF "install" \in mig[p].view.phases THEN "marker" ELSE "reconcile"
  OBVIOUS
<1>6. place \in {"marker", "reconcile"} /\ (place = "marker" => db # None)
  BY <1>5 DEF MigrateInv, InstallsOk
<1>7. PICK run \in 0..MaxRuns, view \in Journals, fresh \in BOOLEAN,
           copy \in Contents \cup {None}, frozen \in Contents \cup {None} :
        mig[p] = [at |-> "import", run |-> run, view |-> view, fresh |-> fresh, copy |-> copy,
                  frozen |-> frozen]
  BY <1>2, <1>3 DEF Migrations
<1>8. PICK m : m = [at |-> place, run |-> run, view |-> view, fresh |-> fresh, copy |-> copy,
                    frozen |-> mig[p].view.import.frozen]
  OBVIOUS
<1>9. m \in Migrations /\ Within(m) /\ m.run = r /\ m.view = mig[p].view /\ m.at = place
      /\ m.frozen = mig[p].view.import.frozen /\ m.at # "stage"
  BY <1>1, <1>4, <1>6, <1>7, <1>8 DEF Migrations, Places, Within
<1>10. mig' = [mig EXCEPT ![p] = m]
  <2>1. PICK m0 : m0 = [at |-> "import", run |-> run, view |-> view, fresh |-> fresh, copy |-> copy,
                        frozen |-> mig[p].view.import.frozen]
    OBVIOUS
  <2>2. [mig[p] EXCEPT !.frozen = mig[p].view.import.frozen] = m0
    BY <1>7, <2>1
  <2>3. [m0 EXCEPT !.at = place] = m
    BY <1>8, <2>1
  <2>4. mig' = [mig EXCEPT ![p].frozen = mig[p].view.import.frozen, ![p].at = place]
    BY <1>5 DEF ImportSeen, Seen
  <2>5. mig' = [mig EXCEPT ![p] =
                  [[mig[p] EXCEPT !.frozen = mig[p].view.import.frozen] EXCEPT !.at = place]]
    BY <2>4 DEF MigrateInv, MigrateTypes
  <2> QED
    BY <2>2, <2>3, <2>5
<1>11. /\ journal' \in [Runs -> Journals] /\ newer' \subseteq Runs \X Runs
       /\ \A q \in Runs : journal'[q] = journal[q]
       /\ Newest' /\ JournalOk(journal'[r]) /\ journal'[r].last # None
       /\ Unfinished' = Unfinished
  BY <1>1, <1>2, Unrecorded
<1>12. ASSUME ~overtaken
       PROVE  StraightStep(m, journal'[r], staged'[r], db', Unfinished', r)
  <2>1. StraightStep(mig[p], journal[r], staged[r], db, Unfinished, r)
    BY <1>3, <1>12
  <2>2. r \in Unfinished /\ HolderOk(mig[p], journal[r], db)
        /\ RunOk(journal[r], staged[r], db, json, Standing)
    BY <1>2, <2>1 DEF StraightStep
  <2>3. /\ "import" \in journal[r].phases /\ mig[p].view.import = journal[r].import
        /\ "reconcile" \in mig[p].view.phases <=> "reconcile" \in journal[r].phases
    BY <1>2, <2>2 DEF HolderOk, Before
  <2>4. db # None => "reconcile" \in journal[r].phases
    BY <2>2 DEF RunOk
  <2>5. HolderOk(m, journal'[r], db')
    BY <1>2, <1>3, <1>6, <1>9, <1>11, <2>3, <2>4 DEF HolderOk, Before
  <2> QED
    BY <1>2, <1>3, <1>11, <2>1, <2>2, <2>5 DEF StraightStep
<1>13. PlaceOk(m, staged'[r], db')
  BY <1>2, <1>6, <1>9 DEF PlaceOk, After
<1> QED
  BY <1>1, <1>2, <1>3, <1>9, <1>10, <1>11, <1>12, <1>13, HolderStep

LEMMA ReanchorInv == ASSUME MigrateInv, NEW p \in Procs, Reanchor(p) PROVE MigrateInv'
<1>1. PICK r : r = mig[p].run
  OBVIOUS
<1>2. /\ Within(mig[p]) /\ mig[p].at = "reconcile" /\ "reconcile" \in mig[p].view.phases /\ db # None
      /\ UNCHANGED <<json, db, marker, save, accepted, savedOver, writes, calls, overtaken>>
  BY DEF Reanchor, reanchor, Seen, Within, store, others
<1>3. CASE Rows(db.content) # mig[p].view.import.rows
  BY <1>2, <1>3, LeaveInv DEF Reanchor
<1>4. CASE Rows(db.content) = mig[p].view.import.rows
  <2>1. staged' = [staged EXCEPT ![r] = None] /\ Record(p, "install") /\ Goto(p, "marker") /\ lock' = lock
    BY <1>1, <1>4 DEF Reanchor
  <2>2. /\ r \in Runs /\ mig[p].at # "idle"
        /\ "import" \in journal[r].phases => Dated(journal[r].import.frozen, writes)
        /\ staged \in [Runs -> Contents \cup {None}] /\ db \in Databases \cup {None}
        /\ marker \in BOOLEAN
        /\ ~overtaken => StraightStep(mig[p], journal[r], staged[r], db, Unfinished, r)
    BY <1>1, <1>2, Holder
  <2>3. /\ journal' \in [Runs -> Journals] /\ newer' \subseteq Runs \X Runs
        /\ journal'[r].phases = journal[r].phases \cup {"install"}
        /\ journal'[r].last # None /\ journal'[r].import = journal[r].import
        /\ \A q \in Runs \ {r} : journal'[q] = journal[q]
        /\ Newest' /\ JournalOk(journal'[r])
        /\ Unfinished' = Unfinished \cup {r}
    BY <1>1, <2>1, <2>2, Recorded DEF Phases
  <2>4. staged' \in [Runs -> Contents \cup {None}] /\ staged'[r] = None
    BY <2>1, <2>2
  <2>5. ASSUME ~overtaken, NEW m, m.at = "marker", m.view = mig[p].view, m.frozen = mig[p].frozen
        PROVE  StraightStep(m, journal'[r], staged'[r], db', Unfinished', r)
    <3>1. StraightStep(mig[p], journal[r], staged[r], db, Unfinished, r)
      BY <2>2, <2>5
    <3>2. r \in Unfinished /\ HolderOk(mig[p], journal[r], db)
          /\ RunOk(journal[r], staged[r], db, json, Standing)
      BY <1>2, <3>1 DEF StraightStep
    <3>3. "reconcile" \in journal[r].phases /\ "import" \in journal[r].phases
          /\ mig[p].frozen = journal[r].import.frozen
      BY <1>2, <3>2 DEF HolderOk, Before
    <3>4. HolderOk(m, journal'[r], db')
      BY <2>3, <2>5, <3>3 DEF HolderOk, Before
    <3>5. RunOk(journal'[r], staged'[r], db', json, Standing)
      BY <1>2, <2>3, <2>4, <3>2, <3>3 DEF RunOk
    <3> QED
      BY <1>2, <2>3, <3>1, <3>2, <3>4, <3>5 DEF StraightStep
  <2> QED
    BY <1>1, <1>2, <2>1, <2>2, <2>3, <2>4, <2>5, GotoInv DEF Places, After
<1> QED
  BY <1>3, <1>4

LEMMA ReconcileInv == ASSUME MigrateInv, NEW p \in Procs, Reconcile(p) PROVE MigrateInv'
<1>1. PICK r, s : r = mig[p].run /\ s = staged[r]
  OBVIOUS
<1>2. /\ Within(mig[p]) /\ mig[p].at = "reconcile" /\ ~("reconcile" \in mig[p].view.phases /\ db # None)
      /\ UNCHANGED <<json, db, marker, staged, save, accepted, savedOver, writes, calls, overtaken>>
  BY DEF Reconcile, reanchor, Seen, Within, store, others
<1>3. CASE s = None \/ (~Seen(p, "reconcile") /\ Source # s)
  BY <1>1, <1>2, <1>3, LeaveInv DEF Reconcile
<1>4. CASE ~(s = None \/ (~Seen(p, "reconcile") /\ Source # s))
  <2>1. /\ Goto(p, "drift") /\ lock' = lock
        /\ IF Seen(p, "reconcile") THEN UNCHANGED <<journal, newer>> ELSE Record(p, "reconcile")
        /\ s # None /\ ("reconcile" \in mig[p].view.phases \/ Source = s)
    BY <1>1, <1>4 DEF Reconcile, Seen
  <2>2. /\ r \in Runs /\ mig[p].at # "idle"
        /\ "import" \in journal[r].phases => Dated(journal[r].import.frozen, writes)
        /\ "install" \in journal[r].phases => db # None
        /\ staged \in [Runs -> Contents \cup {None}] /\ db \in Databases \cup {None}
        /\ marker \in BOOLEAN
        /\ ~overtaken => StraightStep(mig[p], journal[r], staged[r], db, Unfinished, r)
    BY <1>1, <1>2, Holder
  <2>3. /\ journal' \in [Runs -> Journals] /\ newer' \subseteq Runs \X Runs
        /\ journal'[r].last # None /\ journal'[r].import = journal[r].import
        /\ \A q \in Runs \ {r} : journal'[q] = journal[q]
        /\ Newest' /\ JournalOk(journal'[r])
        /\ Unfinished' \in {Unfinished, Unfinished \cup {r}}
        /\ IF "reconcile" \in mig[p].view.phases THEN journal'[r].phases = journal[r].phases
           ELSE journal'[r].phases = journal[r].phases \cup {"reconcile"}
    <3>1. CASE "reconcile" \in mig[p].view.phases
      BY <1>1, <1>2, <2>1, <2>2, <3>1, Unrecorded DEF Seen
    <3>2. CASE "reconcile" \notin mig[p].view.phases
      BY <1>1, <2>1, <2>2, <3>2, Recorded DEF Seen, Phases
    <3> QED
      BY <3>1, <3>2
  <2>4. s \in Contents /\ (db # None => s["queue"] = db.content["queue"])
    BY <1>1, <1>2, <2>1, <2>2 DEF Source
  <2>5. ASSUME ~overtaken, NEW m, m.at = "drift", m.view = mig[p].view, m.frozen = mig[p].frozen
        PROVE  StraightStep(m, journal'[r], staged'[r], db', Unfinished', r)
    <3>1. StraightStep(mig[p], journal[r], staged[r], db, Unfinished, r)
      BY <2>2, <2>5
    <3>2. r \in Unfinished /\ HolderOk(mig[p], journal[r], db)
          /\ RunOk(journal[r], s, db, json, Standing)
      BY <1>1, <1>2, <3>1 DEF StraightStep
    <3>3. /\ "import" \in journal[r].phases /\ mig[p].frozen = journal[r].import.frozen
          /\ "reconcile" \in mig[p].view.phases <=> "reconcile" \in journal[r].phases
      BY <1>2, <3>2 DEF HolderOk, Before
    <3>4. db = None
      BY <2>1, <3>2 DEF RunOk
    <3>5. "reconcile" \in journal'[r].phases /\ "import" \in journal'[r].phases
      BY <2>3, <3>3
    <3>6. HolderOk(m, journal'[r], db')
      BY <1>2, <2>3, <2>5, <3>3, <3>4, <3>5 DEF HolderOk, Before
    <3>7. Kept(s, journal[r].import.frozen, json, Standing)
      <4>1. CASE "reconcile" \in journal[r].phases
        BY <3>2, <3>4, <4>1 DEF RunOk
      <4>2. CASE "reconcile" \notin journal[r].phases
        <5>1. s = json
          BY <2>1, <3>3, <3>4, <4>2 DEF Source
        <5> QED
          BY <3>4, <5>1 DEF MigrateInv, InFiles, Kept
      <4> QED
        BY <4>1, <4>2
    <3>8. RunOk(journal'[r], s, db', json, Standing)
      BY <1>2, <2>1, <2>3, <3>4, <3>5, <3>7 DEF RunOk
    <3> QED
      BY <1>1, <1>2, <2>3, <3>1, <3>2, <3>6, <3>8 DEF StraightStep
  <2>6. "import" \in journal'[r].phases => "import" \in journal[r].phases
    BY <2>3
  <2>7. "install" \in journal'[r].phases => "install" \in journal[r].phases
    BY <2>3
  <2> QED
    BY <1>1, <1>2, <2>1, <2>2, <2>3, <2>4, <2>5, <2>6, <2>7, GotoInv DEF Places, After
<1> QED
  BY <1>3, <1>4

LEMMA DriftInv == ASSUME MigrateInv, NEW p \in Procs, Drift(p) PROVE MigrateInv'
<1>1. PICK r : r = mig[p].run
  OBVIOUS
<1>2. /\ Within(mig[p]) /\ mig[p].at = "drift"
      /\ UNCHANGED <<json, db, marker, journal, newer, staged, save, accepted, savedOver, writes, calls, overtaken>>
  BY DEF Drift, Within, files, store, others
<1>3. CASE Leave(p)
  BY <1>2, <1>3, LeaveInv
<1>4. CASE Goto(p, "rename") /\ lock' = lock
  <2>1. /\ r \in Runs
        /\ "import" \in journal[r].phases => Dated(journal[r].import.frozen, writes)
        /\ "install" \in journal[r].phases => db # None
        /\ staged \in [Runs -> Contents \cup {None}] /\ db \in Databases \cup {None}
        /\ marker \in BOOLEAN /\ PlaceOk(mig[p], staged[r], db)
        /\ ~overtaken => StraightStep(mig[p], journal[r], staged[r], db, Unfinished, r)
    BY <1>1, <1>2, Holder
  <2>2. /\ journal' \in [Runs -> Journals] /\ newer' \subseteq Runs \X Runs
        /\ \A q \in Runs : journal'[q] = journal[q]
        /\ Newest' /\ JournalOk(journal'[r]) /\ journal'[r].last # None
        /\ Unfinished' = Unfinished
    BY <1>1, <1>2, Unrecorded
  <2>3. staged[r] \in Contents /\ (db # None => staged[r]["queue"] = db.content["queue"])
    BY <1>2, <2>1 DEF PlaceOk
  <2>4. ASSUME ~overtaken, NEW m, m.at = "rename", m.view = mig[p].view, m.frozen = mig[p].frozen
        PROVE  StraightStep(m, journal'[r], staged'[r], db', Unfinished', r)
    <3>1. StraightStep(mig[p], journal[r], staged[r], db, Unfinished, r)
      BY <2>1, <2>4
    <3>2. HolderOk(m, journal[r], db) /\ r \in Unfinished
      BY <1>2, <2>4, <3>1 DEF StraightStep, HolderOk, Before
    <3> QED
      BY <1>2, <2>1, <2>2, <3>1, <3>2 DEF StraightStep
  <2> QED
    BY <1>1, <1>2, <1>4, <2>1, <2>2, <2>3, <2>4, GotoInv DEF Places, After
<1> QED
  BY <1>3, <1>4 DEF Drift

LEMMA RenameInv == ASSUME MigrateInv, NEW p \in Procs, Rename(p) PROVE MigrateInv'
<1>1. PICK r, s : r = mig[p].run /\ s = staged[r]
  OBVIOUS
<1>2. /\ Within(mig[p]) /\ mig[p].at = "rename" /\ Goto(p, "install")
      /\ db' = [content |-> s, frozen |-> None] /\ staged' = [staged EXCEPT ![r] = None]
      /\ UNCHANGED <<json, marker, journal, newer, lock, save, accepted, savedOver, writes, calls, overtaken>>
  BY <1>1 DEF Rename, Within, others
<1>3. /\ r \in Runs
      /\ "import" \in journal[r].phases => Dated(journal[r].import.frozen, writes)
      /\ staged \in [Runs -> Contents \cup {None}]
      /\ marker \in BOOLEAN /\ PlaceOk(mig[p], s, db)
      /\ ~overtaken => StraightStep(mig[p], journal[r], s, db, Unfinished, r)
  BY <1>1, <1>2, Holder
<1>4. /\ journal' \in [Runs -> Journals] /\ newer' \subseteq Runs \X Runs
      /\ \A q \in Runs : journal'[q] = journal[q]
      /\ Newest' /\ JournalOk(journal'[r]) /\ journal'[r].last # None
      /\ Unfinished' = Unfinished
  BY <1>1, <1>2, Unrecorded
<1>5. s \in Contents
  BY <1>2, <1>3 DEF PlaceOk
<1>6. db' \in Databases /\ db' # None /\ db'.content = s /\ db'.frozen = None
  BY <1>2, <1>5 DEF Databases
<1>7. staged' \in [Runs -> Contents \cup {None}] /\ staged'[r] = None
  BY <1>2, <1>3
<1>8. ASSUME ~overtaken, NEW m, m.at = "install", m.view = mig[p].view, m.frozen = mig[p].frozen
      PROVE  StraightStep(m, journal'[r], staged'[r], db', Unfinished', r)
  <2>1. StraightStep(mig[p], journal[r], s, db, Unfinished, r)
    BY <1>3, <1>8
  <2>2. r \in Unfinished /\ HolderOk(mig[p], journal[r], db)
        /\ RunOk(journal[r], s, db, json, Standing)
    BY <1>2, <2>1 DEF StraightStep
  <2>3. /\ "import" \in journal[r].phases /\ mig[p].frozen = journal[r].import.frozen
        /\ "reconcile" \in journal[r].phases /\ db = None
    BY <1>2, <2>2 DEF HolderOk, Before
  <2>4. Kept(s, journal[r].import.frozen, json, Standing)
    BY <2>2, <2>3 DEF RunOk
  <2>5. HolderOk(m, journal[r], db')
    BY <1>8, <2>3 DEF HolderOk, Before
  <2>6. RunOk(journal[r], None, db', json, Standing)
    BY <1>6, <2>3, <2>4 DEF RunOk
  <2>7. FrozenOk(db', json, Standing, writes)
    BY <1>6 DEF FrozenOk
  <2> QED
    BY <1>3, <1>4, <1>7, <2>1, <2>2, <2>5, <2>6, <2>7 DEF StraightStep
<1> QED
  BY <1>1, <1>2, <1>3, <1>4, <1>6, <1>7, <1>8, GotoInv DEF Places, After

(* Past the rename only the place and what is recorded changes. *)
LEMMA LaterInv ==
  ASSUME MigrateInv, NEW p \in Procs, Within(mig[p]), mig[p].at \in After,
         NEW place \in After, Goto(p, place),
         NEW phase \in Phases \ {"import", "done"},
         Record(p, phase) \/ UNCHANGED <<journal, newer>>,
         marker' \in BOOLEAN,
         UNCHANGED <<json, db, staged, lock, save, accepted, savedOver, writes, calls, overtaken>>
  PROVE  MigrateInv'
<1>1. PICK r : r = mig[p].run
  OBVIOUS
<1>2. /\ r \in Runs /\ mig[p].at # "idle"
      /\ "import" \in journal[r].phases => Dated(journal[r].import.frozen, writes)
      /\ staged \in [Runs -> Contents \cup {None}] /\ db \in Databases \cup {None}
      /\ PlaceOk(mig[p], staged[r], db)
      /\ ~overtaken => StraightStep(mig[p], journal[r], staged[r], db, Unfinished, r)
  BY <1>1, Holder
<1>3. /\ journal' \in [Runs -> Journals] /\ newer' \subseteq Runs \X Runs
      /\ \A q \in Runs \ {r} : journal'[q] = journal[q]
      /\ Newest' /\ JournalOk(journal'[r]) /\ journal'[r].last # None
      /\ journal'[r].phases \in {journal[r].phases, journal[r].phases \cup {phase}}
      /\ journal'[r].import = journal[r].import
      /\ Unfinished' \in {Unfinished, Unfinished \cup {r}}
  <2>1. CASE UNCHANGED <<journal, newer>>
    BY <1>1, <1>2, <2>1, Unrecorded
  <2>2. CASE Record(p, phase)
    <3>1. phase \in Phases /\ phase # "import" /\ phase # "done"
      OBVIOUS
    <3>2. /\ journal' \in [Runs -> Journals] /\ newer' \subseteq Runs \X Runs
          /\ journal'[r].phases = journal[r].phases \cup {phase}
          /\ journal'[r].last # None /\ journal'[r].import = journal[r].import
          /\ \A q \in Runs \ {r} : journal'[q] = journal[q]
          /\ Newest' /\ JournalOk(journal'[r])
          /\ Unfinished' = IF phase = "done" THEN Unfinished \ {r} ELSE Unfinished \cup {r}
      BY <1>1, <1>2, <2>2, <3>1, Recorded
    <3> QED
      BY <3>1, <3>2
  <2> QED
    BY <2>1, <2>2
<1>4. db # None
  BY <1>2 DEF PlaceOk
<1>5. ASSUME ~overtaken, NEW m, m.at = place, m.view = mig[p].view, m.frozen = mig[p].frozen
      PROVE  StraightStep(m, journal'[r], staged'[r], db', Unfinished', r)
  <2>1. StraightStep(mig[p], journal[r], staged[r], db, Unfinished, r)
    BY <1>2, <1>5
  <2>2. r \in Unfinished /\ HolderOk(mig[p], journal[r], db)
        /\ RunOk(journal[r], staged[r], db, json, Standing)
    BY <2>1 DEF StraightStep
  <2>3. /\ "import" \in journal[r].phases /\ mig[p].frozen = journal[r].import.frozen
        /\ "reconcile" \in journal[r].phases
    BY <2>2 DEF HolderOk, Before, After
  <2>4. HolderOk(m, journal'[r], db)
    BY <1>3, <1>5, <2>3 DEF HolderOk, Before, After
  <2>5. RunOk(journal'[r], staged[r], db, json, Standing)
    BY <1>3, <2>2, <2>3 DEF RunOk
  <2> QED
    BY <1>3, <2>1, <2>2, <2>4, <2>5 DEF StraightStep
<1>6. place \in Places /\ place \notin {"idle", "wait", "stage", "drift", "rename"}
  BY DEF Places, After
<1>7. "import" \in journal'[r].phases => "import" \in journal[r].phases
  BY <1>3
<1> QED
  BY <1>1, <1>2, <1>3, <1>4, <1>5, <1>6, <1>7, GotoInv

LEMMA InstallInv == ASSUME MigrateInv, NEW p \in Procs, Install(p) PROVE MigrateInv'
<1>1. Within(mig[p]) /\ mig[p].at \in After /\ Goto(p, "marker") /\ Record(p, "install")
      /\ marker' = marker
      /\ UNCHANGED <<json, db, staged, lock, save, accepted, savedOver, writes, calls, overtaken>>
  BY DEF Install, Within, After, store, others
<1> QED
  BY <1>1, LaterInv DEF After, Phases, MigrateInv, MigrateTypes

LEMMA WriteMarkerInv == ASSUME MigrateInv, NEW p \in Procs, WriteMarker(p) PROVE MigrateInv'
<1>1. Within(mig[p]) /\ mig[p].at \in After
      /\ UNCHANGED <<json, db, journal, newer, staged, lock, save, accepted, savedOver, writes, calls, overtaken>>
  BY DEF WriteMarker, Within, After, others
<1>2. PICK place \in {"done", "meta"} : Goto(p, place)
  BY DEF WriteMarker
<1>3. marker' \in BOOLEAN
  BY DEF WriteMarker, MigrateInv, MigrateTypes
<1>4. place \in After /\ "start" \in Phases \ {"import", "done"}
  BY DEF After, Phases
<1> QED
  BY <1>1, <1>2, <1>3, <1>4, LaterInv

LEMMA CommitInv == ASSUME MigrateInv, NEW p \in Procs, Commit(p) PROVE MigrateInv'
<1>1. Within(mig[p]) /\ mig[p].at \in After /\ Goto(p, "done") /\ Record(p, "commit")
      /\ marker' = marker
      /\ UNCHANGED <<json, db, staged, lock, save, accepted, savedOver, writes, calls, overtaken>>
  BY DEF Commit, Within, After, store, others
<1> QED
  BY <1>1, LaterInv DEF After, Phases, MigrateInv, MigrateTypes

LEMMA WriteMetaInv == ASSUME MigrateInv, NEW p \in Procs, WriteMeta(p) PROVE MigrateInv'
<1>1. PICK r : r = mig[p].run
  OBVIOUS
<1>2. /\ Within(mig[p]) /\ mig[p].at = "meta" /\ Goto(p, "commit")
      /\ db' = [db EXCEPT !.frozen = mig[p].frozen]
      /\ UNCHANGED <<json, marker, journal, newer, staged, lock, save, accepted, savedOver, writes, calls,
                     overtaken>>
  BY DEF WriteMeta, Frozen, Within, others
<1>3. /\ r \in Runs /\ mig[p] \in Migrations
      /\ "import" \in journal[r].phases => Dated(journal[r].import.frozen, writes)
      /\ staged \in [Runs -> Contents \cup {None}] /\ db \in Databases \cup {None}
      /\ marker \in BOOLEAN /\ PlaceOk(mig[p], staged[r], db)
      /\ ~overtaken => StraightStep(mig[p], journal[r], staged[r], db, Unfinished, r)
  BY <1>1, <1>2, Holder
<1>4. /\ journal' \in [Runs -> Journals] /\ newer' \subseteq Runs \X Runs
      /\ \A q \in Runs : journal'[q] = journal[q]
      /\ Newest' /\ JournalOk(journal'[r]) /\ journal'[r].last # None
      /\ Unfinished' = Unfinished
  BY <1>1, <1>2, Unrecorded
<1>5. db # None /\ db \in Databases /\ mig[p].frozen \in Contents \cup {None}
  BY <1>2, <1>3 DEF PlaceOk, After, Migrations
<1>6. PICK x \in Contents, z \in Contents \cup {None} : db = [content |-> x, frozen |-> z]
  BY <1>5 DEF Databases
<1>7. db' = [content |-> x, frozen |-> mig[p].frozen] /\ db.content = x
  BY <1>2, <1>6
<1>8. db' \in Databases /\ db' # None /\ db'.content = x /\ db'.frozen = mig[p].frozen
  BY <1>5, <1>7 DEF Databases
<1>9. ASSUME ~overtaken, NEW m, m.at = "commit", m.view = mig[p].view, m.frozen = mig[p].frozen
      PROVE  StraightStep(m, journal'[r], staged'[r], db', Unfinished', r)
  <2>1. StraightStep(mig[p], journal[r], staged[r], db, Unfinished, r)
    BY <1>3, <1>9
  <2>2. r \in Unfinished /\ HolderOk(mig[p], journal[r], db)
        /\ RunOk(journal[r], staged[r], db, json, Standing)
    BY <1>2, <2>1 DEF StraightStep
  <2>3. /\ "import" \in journal[r].phases /\ mig[p].frozen = journal[r].import.frozen
        /\ "reconcile" \in journal[r].phases
    BY <1>2, <2>2 DEF HolderOk, Before
  <2>4. Kept(x, journal[r].import.frozen, json, Standing)
    BY <1>5, <1>7, <2>2, <2>3 DEF RunOk
  <2>5. FrozenOk(db', json, Standing, writes)
    BY <1>3, <1>8, <2>3, <2>4 DEF FrozenOk
  <2>6. RunOk(journal[r], staged[r], db', json, Standing)
    BY <1>5, <1>7, <1>8, <2>2 DEF RunOk
  <2>7. HolderOk(m, journal[r], db')
    BY <1>9, <2>3 DEF HolderOk, Before
  <2> QED
    BY <1>2, <1>3, <1>4, <2>1, <2>2, <2>5, <2>6, <2>7 DEF StraightStep
<1> QED
  BY <1>1, <1>2, <1>3, <1>4, <1>5, <1>8, <1>9, GotoInv DEF Places, After

LEMMA DoneInv == ASSUME MigrateInv, NEW p \in Procs, Done(p) PROVE MigrateInv'
<1>1. PICK r : r = mig[p].run
  OBVIOUS
<1>2. /\ Within(mig[p]) /\ Record(p, "done") /\ mig' = [mig EXCEPT ![p] = Idle] /\ lock' = None
      /\ UNCHANGED <<json, db, marker, staged, save, accepted, savedOver, writes, calls, overtaken>>
  BY DEF Done, Leave, Within, store, others
<1>3. /\ r \in Runs /\ mig[p].at # "idle"
      /\ "import" \in journal[r].phases => Dated(journal[r].import.frozen, writes)
      /\ "install" \in journal[r].phases => db # None
      /\ staged \in [Runs -> Contents \cup {None}] /\ db \in Databases \cup {None}
      /\ marker \in BOOLEAN
      /\ ~overtaken => StraightStep(mig[p], journal[r], staged[r], db, Unfinished, r)
  BY <1>1, <1>2, Holder
<1>4. /\ journal' \in [Runs -> Journals] /\ newer' \subseteq Runs \X Runs
      /\ journal'[r].phases = journal[r].phases \cup {"done"}
      /\ journal'[r].last # None /\ journal'[r].import = journal[r].import
      /\ \A q \in Runs \ {r} : journal'[q] = journal[q]
      /\ Newest' /\ JournalOk(journal'[r])
      /\ Unfinished' = Unfinished \ {r}
  BY <1>1, <1>2, <1>3, Recorded DEF Phases
<1>5. ~overtaken => StraightStep(Idle, journal'[r], staged'[r], db', Unfinished', r)
  BY <1>2, <1>3, <1>4, NothingTyped DEF StraightStep
<1>6. Idle \in Migrations /\ ~Within(Idle) /\ Idle.at # "stage"
  BY NothingTyped
<1>7. /\ "import" \in journal'[r].phases => "import" \in journal[r].phases
      /\ "install" \in journal'[r].phases => "install" \in journal[r].phases
  BY <1>4
<1> QED
  BY <1>1, <1>2, <1>3, <1>4, <1>5, <1>6, <1>7, HolderStep

LEMMA EnterInv == ASSUME MigrateInv, NEW p \in Procs, Enter(p), ~Refused(p) PROVE MigrateInv'
<1>1. PICK r : r = mig[p].run
  OBVIOUS
<1>2. /\ mig[p].at = "wait" /\ lock = None /\ lock' = p /\ Goto(p, "backup") /\ Record(p, "start")
      /\ overtaken' = (overtaken \/ ~UpToDate(p))
      /\ UNCHANGED <<json, db, marker, staged, save, accepted, savedOver, writes, calls>>
  BY DEF Enter, store, others
<1>3. r \in Runs /\ mig[p].at # "idle" /\ JournalOk(journal[r]) /\ MigrateTypes
  BY <1>1, <1>2, RunThere DEF MigrateInv
<1>4. PICK m \in Migrations :
        /\ mig' = [mig EXCEPT ![p] = m] /\ m.at = "backup"
        /\ m.run = mig[p].run /\ m.view = mig[p].view
  BY <1>2, <1>3, Gone DEF Places
<1>5. Within(m) /\ m.at # "stage" /\ PlaceOk(m, staged'[r], db')
  BY <1>4 DEF Within, PlaceOk, After
<1>6. /\ journal' \in [Runs -> Journals] /\ newer' \subseteq Runs \X Runs
      /\ journal'[r].phases = journal[r].phases \cup {"start"}
      /\ journal'[r].last # None /\ journal'[r].import = journal[r].import
      /\ \A q \in Runs \ {r} : journal'[q] = journal[q]
      /\ Newest' /\ JournalOk(journal'[r])
      /\ Unfinished' = Unfinished \cup {r}
  BY <1>1, <1>2, <1>3, Recorded DEF Phases
<1>7. /\ "import" \in journal'[r].phases => Dated(journal'[r].import.frozen, writes)
      /\ "install" \in journal'[r].phases => db' # None
  BY <1>2, <1>3, <1>6 DEF MigrateInv, DatesOk, InstallsOk
<1>8. ASSUME ~overtaken'
      PROVE  StraightStep(m, journal'[r], staged'[r], db', Unfinished', r)
  <2>1. Straight /\ UpToDate(p)
    BY <1>2, <1>8 DEF MigrateInv
  <2>2. CASE mig[p].fresh
    <3>1. Unfinished = {} /\ db = None
      BY <2>1, <2>2, LastRun DEF UpToDate, Refused
    <3>2. journal[r] = NoJournal /\ m.view = NoJournal
      BY <1>1, <1>2, <1>4, <2>2 DEF MigrateInv, WaitingOk
    <3>3. journal'[r].phases = {"start"}
      BY <1>6, <3>2, NothingTyped
    <3>4. RunOk(journal'[r], staged'[r], db', json, Standing)
      BY <1>2, <3>1, <3>3 DEF RunOk
    <3>5. HolderOk(m, journal'[r], db')
      BY <1>4, <3>2, <3>3, NothingTyped DEF HolderOk, Before
    <3> QED
      BY <1>2, <1>6, <2>1, <3>1, <3>4, <3>5 DEF StraightStep, Straight
  <2>3. CASE ~mig[p].fresh
    <3>1. lastIncompleteRun = r /\ journal[r] = mig[p].view
      BY <1>1, <2>1, <2>3 DEF UpToDate
    <3>2. r \in Unfinished
      BY <1>3, <3>1, LastRun
    <3>3. Unfinished' \subseteq {r} /\ r \in Unfinished'
      BY <1>6, <2>1, <3>2 DEF Straight
    <3>4. RunOk(journal[r], staged[r], db, json, Standing)
      BY <2>1, <3>2 DEF Straight
    <3>5. RunOk(journal'[r], staged'[r], db', json, Standing)
      BY <1>2, <1>6, <3>4 DEF RunOk
    <3>6. m.view.phases = journal[r].phases /\ m.view.import = journal[r].import
      BY <1>4, <3>1
    <3>7. HolderOk(m, journal'[r], db')
      BY <1>4, <1>6, <3>6 DEF HolderOk, Before
    <3> QED
      BY <1>2, <2>1, <3>3, <3>5, <3>7 DEF StraightStep, Straight
  <2> QED
    BY <2>2, <2>3
<1>9. overtaken' \in BOOLEAN /\ (overtaken => overtaken') /\ marker' \in BOOLEAN
      /\ db' \in Databases \cup {None} /\ staged' \in [Runs -> Contents \cup {None}]
  BY <1>2, <1>3 DEF MigrateTypes
<1> QED
  BY <1>1, <1>2, <1>3, <1>4, <1>5, <1>6, <1>7, <1>8, <1>9, InsideStep

(* A step of a process that is not inside, before or after. *)
LEMMA AsideInv ==
  ASSUME MigrateInv, NEW p \in Procs, ~Within(mig[p]), NEW m \in Migrations, ~Within(m),
         mig' = [mig EXCEPT ![p] = m],
         UNCHANGED <<files, lock, save, accepted, savedOver, writes, overtaken>>,
         calls' \in 0..MaxRuns, calls <= calls', m.at # "idle" => m.run \in 1..calls',
         JournalOk(m.view), "install" \in m.view.phases => db # None,
         m.at # "idle" /\ m.fresh =>
           /\ m.view = NoJournal /\ journal[m.run] = NoJournal
           /\ \A q \in Procs : mig[q].at # "idle" => mig[q].run # m.run,
         m.at # "idle" /\ ~m.fresh => journal[m.run].last # None
  PROVE  MigrateInv'
<1>1. MigrateTypes
  BY DEF MigrateInv
<1>2. mig'[p] = m /\ \A q \in Procs \ {p} : mig'[q] = mig[q]
  BY <1>1 DEF MigrateTypes
<1>3. UNCHANGED <<json, db, marker, journal, newer, staged>>
  BY DEF files, store
<1>4. MigrateTypes'
  <2>1. mig' \in [Procs -> Migrations]
    BY <1>1 DEF MigrateTypes
  <2>2. \A q \in Procs : mig'[q].at # "idle" => mig'[q].run \in 1..calls'
    BY <1>1, <1>2 DEF MigrateTypes
  <2>3. \A q \in Procs : mig'[q].at = "stage" => mig'[q].copy \in Contents
    BY <1>1, <1>2 DEF MigrateTypes, Within
  <2>4. \A q \in Procs : Within(mig'[q]) <=> lock' = q
    BY <1>1, <1>2 DEF MigrateTypes
  <2> QED
    BY <1>1, <1>3, <2>1, <2>2, <2>3, <2>4 DEF MigrateTypes
<1>5. Journaled' = Journaled /\ Unfinished' = Unfinished
  BY <1>3 DEF Journaled, Unfinished
<1>6. Newest' /\ SavesOk' /\ DatesOk' /\ InFiles' /\ Standing' = Standing
  BY <1>3, <1>5 DEF MigrateInv, Newest, SavesOk, ToFile, SaveAt, DatesOk, InFiles, Standing
<1>7. JournalsOk'
  <2>1. \A r \in Runs : r > calls' => journal[r] = NoJournal
    BY <1>1 DEF MigrateInv, JournalsOk, MigrateTypes, Runs
  <2>2. \A q \in Procs : JournalOk(mig'[q].view)
    BY <1>2 DEF MigrateInv, JournalsOk
  <2> QED
    BY <1>3, <2>1, <2>2 DEF MigrateInv, JournalsOk
<1>8. InstallsOk'
  BY <1>2, <1>3 DEF MigrateInv, InstallsOk
<1>9. PlacesOk'
  BY <1>2, <1>3 DEF MigrateInv, PlacesOk
<1>10. WaitingOk'
  <2>1. ASSUME NEW q \in Procs, mig'[q].at = "wait", mig'[q].fresh
        PROVE  /\ mig'[q].view = NoJournal /\ journal[mig'[q].run] = NoJournal
               /\ \A x \in Procs : mig'[x].at # "idle" /\ mig'[x].run = mig'[q].run => x = q
    <3>1. CASE q = p
      BY <1>2, <2>1, <3>1
    <3>2. CASE q # p
      <4>1. /\ mig'[q] = mig[q] /\ mig[q].view = NoJournal /\ journal[mig[q].run] = NoJournal
            /\ \A x \in Procs : mig[x].at # "idle" /\ mig[x].run = mig[q].run => x = q
        BY <1>2, <2>1, <3>2 DEF MigrateInv, WaitingOk
      <4>2. m.at # "idle" => m.run # mig[q].run
        BY <2>1, <4>1, NothingTyped
      <4> QED
        BY <1>2, <4>1, <4>2
    <3> QED
      BY <3>1, <3>2
  <2>2. ASSUME NEW q \in Procs, mig'[q].at # "idle", Within(mig'[q]) \/ ~mig'[q].fresh
        PROVE  journal[mig'[q].run].last # None
    BY <1>2, <2>2 DEF MigrateInv, WaitingOk
  <2> QED
    BY <1>3, <2>1, <2>2 DEF WaitingOk
<1>11. Straight => Straight'
  BY <1>2, <1>3, <1>5, <1>6 DEF Straight
<1> QED
  BY <1>4, <1>6, <1>7, <1>8, <1>9, <1>10, <1>11 DEF MigrateInv

LEMMA IdleInv ==
  ASSUME MigrateInv, NEW p \in Procs, ~Within(mig[p]), mig' = [mig EXCEPT ![p] = Idle],
         UNCHANGED <<files, lock, save, accepted, savedOver, writes, overtaken, calls>>
  PROVE  MigrateInv'
<1>1. calls' \in 0..MaxRuns /\ calls <= calls'
  BY DEF MigrateInv, MigrateTypes
<1>2. /\ Idle \in Migrations /\ ~Within(Idle) /\ Idle.at = "idle" /\ JournalOk(Idle.view)
      /\ "install" \notin Idle.view.phases
  BY NothingTyped
<1> QED
  BY <1>1, <1>2, AsideInv

LEMMA RefusedInv == ASSUME MigrateInv, NEW p \in Procs, Enter(p), Refused(p) PROVE MigrateInv'
<1>1. /\ mig[p].at = "wait" /\ mig' = [mig EXCEPT ![p] = Idle] /\ overtaken' = overtaken
      /\ UNCHANGED <<files, lock, save, accepted, savedOver, writes, calls>>
  BY DEF Enter, Leave, files, store, others, MigrateInv, MigrateTypes
<1>2. ~Within(mig[p])
  BY <1>1 DEF Within
<1> QED
  BY <1>1, <1>2, IdleInv

LEMMA LookInv == ASSUME MigrateInv, NEW p \in Procs, Look(p) PROVE MigrateInv'
<1>1. /\ mig[p].at = "idle" /\ calls < MaxRuns /\ calls' = calls + 1
      /\ UNCHANGED <<files, lock, save, accepted, savedOver, writes, overtaken>>
  BY DEF Look
<1>2. ~Within(mig[p])
  BY <1>1 DEF Within
<1>3. calls \in 0..MaxRuns /\ calls' \in 0..MaxRuns /\ calls <= calls' /\ calls + 1 \in Runs
  BY <1>1 DEF MigrateInv, MigrateTypes, Runs
<1>4. CASE lastIncompleteRun = None
  <2>1. PICK m : m = [at |-> "wait", run |-> calls + 1, view |-> NoJournal, fresh |-> TRUE, copy |-> None,
                      frozen |-> None]
    OBVIOUS
  <2>3. mig' = [mig EXCEPT ![p] = m]
    BY <1>4, <2>1 DEF Look, Waiting
  <2>4. m \in Migrations /\ ~Within(m) /\ m.at = "wait" /\ m.run = calls + 1 /\ m.view = NoJournal /\ m.fresh
    BY <1>3, <2>1, NothingTyped DEF Migrations, Places, Runs, Within
  <2>5. journal[calls + 1] = NoJournal
    BY <1>3 DEF MigrateInv, JournalsOk, MigrateTypes
  <2>6. \A q \in Procs : mig[q].at # "idle" => mig[q].run # calls + 1
    BY <1>3 DEF MigrateInv, MigrateTypes
  <2>7. m.run \in 1..calls'
    BY <1>1, <1>3, <2>4
  <2> QED
    BY <1>1, <1>2, <1>3, <2>3, <2>4, <2>5, <2>6, <2>7, NothingTyped, AsideInv
<1>5. CASE lastIncompleteRun # None
  <2>1. PICK r : r = lastIncompleteRun
    OBVIOUS
  <2>2. r \in Unfinished /\ r \in Runs /\ journal[r].last # None
    BY <1>5, <2>1, LastRun DEF Unfinished, Journaled
  <2>3. r \in 1..calls
    BY <1>3, <2>2, NothingTyped DEF MigrateInv, JournalsOk, Runs
  <2>4. journal[r] \in Journals /\ JournalOk(journal[r]) /\ ("install" \in journal[r].phases => db # None)
    BY <2>2 DEF MigrateInv, MigrateTypes, JournalsOk, InstallsOk
  <2>5. PICK m : m = [at |-> "wait", run |-> r, view |-> journal[r], fresh |-> FALSE, copy |-> None,
                      frozen |-> None]
    OBVIOUS
  <2>7. mig' = [mig EXCEPT ![p] = m]
    BY <1>5, <2>1, <2>5 DEF Look, Waiting
  <2>8. m \in Migrations /\ ~Within(m) /\ m.at = "wait" /\ m.run = r /\ m.view = journal[r] /\ ~m.fresh
    BY <1>3, <2>3, <2>4, <2>5 DEF Migrations, Places, Within
  <2>9. m.run \in 1..calls'
    BY <1>1, <1>3, <2>3, <2>8
  <2> QED
    BY <1>1, <1>2, <1>3, <2>2, <2>4, <2>7, <2>8, <2>9, AsideInv
<1> QED
  BY <1>4, <1>5

LEMMA KillInv == ASSUME MigrateInv, NEW p \in Procs, Kill(p) PROVE MigrateInv'
<1>1. /\ mig' = [mig EXCEPT ![p] = Idle] /\ lock' = IF lock = p THEN None ELSE lock
      /\ UNCHANGED <<files, save, accepted, savedOver, writes, overtaken, calls>>
  BY DEF Kill
<1>2. CASE Within(mig[p])
  <2>1. Leave(p)
    BY <1>1, <1>2 DEF Leave, MigrateInv, MigrateTypes
  <2> QED
    BY <1>1, <1>2, <2>1, LeaveInv DEF files, store
<1>3. CASE ~Within(mig[p])
  <2>1. lock' = lock
    BY <1>1, <1>3 DEF MigrateInv, MigrateTypes
  <2> QED
    BY <1>1, <1>3, <2>1, IdleInv
<1> QED
  BY <1>2, <1>3

-----------------------------------------------------------------------------
LEMMA NextInv == MigrateInv /\ [Next]_vars => MigrateInv'
<1> SUFFICES ASSUME MigrateInv, [Next]_vars PROVE MigrateInv'
  OBVIOUS
<1>1. CASE LockedWrite \/ DbWrite \/ OldWrite
  BY <1>1, LockedWriteInv, DbWriteInv, OldWriteInv
<1>2. ASSUME NEW p \in Procs,
             Look(p) \/ Enter(p) \/ Backup(p) \/ ImportRead(p) \/ Import(p) \/ ImportSeen(p) \/ Kill(p)
      PROVE  MigrateInv'
  BY <1>2, LookInv, EnterInv, RefusedInv, BackupInv, ImportReadInv, ImportInv, ImportSeenInv, KillInv
<1>3. ASSUME NEW p \in Procs,
             \/ Reanchor(p) \/ Reconcile(p) \/ Drift(p) \/ Rename(p) \/ Install(p)
             \/ WriteMarker(p) \/ WriteMeta(p) \/ Commit(p) \/ Done(p)
      PROVE  MigrateInv'
  BY <1>3, ReanchorInv, ReconcileInv, DriftInv, RenameInv, InstallInv, WriteMarkerInv, WriteMetaInv,
     CommitInv, DoneInv
<1>4. CASE UNCHANGED vars
  <2>1. UNCHANGED <<json, db, marker, journal, newer, staged, lock, mig, save, accepted, savedOver, overtaken,
                    calls, writes>>
    BY <1>4 DEF vars
  <2>2. Journaled' = Journaled /\ Unfinished' = Unfinished
    BY <2>1 DEF Journaled, Unfinished
  <2>3. MigrateTypes' /\ Newest' /\ SavesOk' /\ JournalsOk' /\ WaitingOk' /\ DatesOk'
        /\ Standing' = Standing
    BY <2>1, <2>2
    DEF MigrateInv, MigrateTypes, Newest, SavesOk, ToFile, SaveAt, JournalsOk, WaitingOk, DatesOk,
        Standing
  <2>4. InFiles' /\ InstallsOk' /\ PlacesOk' /\ (Straight => Straight')
    BY <2>1, <2>2, <2>3 DEF MigrateInv, InFiles, InstallsOk, PlacesOk, Straight
  <2> QED
    BY <2>1, <2>3, <2>4 DEF MigrateInv
<1>5. ASSUME NEW w \in Savers,
             SaveBegin(w) \/ SaveRead(w) \/ SaveDb(w) \/ SaveFile(w) \/ SaveLands(w)
      PROVE  MigrateInv'
  BY <1>5, SaveBeginInv, SaveReadInv, SaveDbInv, SaveFileInv, SaveLandsInv
<1> QED
  BY <1>1, <1>2, <1>3, <1>4, <1>5 DEF Next

(* All of it holds throughout. *)
LEMMA Invariant == Spec => []MigrateInv
  BY InitInv, NextInv, PTL DEF Spec

(* The files, the journals and the migrations keep their shapes, and the     *)
(* process in the section is the one the lock names.                         *)
THEOREM MigrateTypeCorrect == Spec => [](TypeOK /\ MigrateTypes)
<1>1. MigrateInv => TypeOK /\ MigrateTypes
  <2> SUFFICES ASSUME MigrateInv PROVE TypeOK /\ MigrateTypes
    OBVIOUS
  <2>1. MigrateTypes
    BY DEF MigrateInv
  <2>2. \A r \in Runs : journal[r].phases \subseteq Phases
    BY <2>1 DEF MigrateTypes, Journals
  <2>3. \A r \in Runs : staged[r] = None \/ staged[r] \in Contents
    BY <2>1 DEF MigrateTypes
  <2> QED
    BY <2>1, <2>2, <2>3 DEF MigrateTypes, TypeOK
<1> QED
  BY <1>1, Invariant, PTL

(* A change whose writer was told that it is made is in the database once    *)
(* the switch is committed, or the next dispatch refuses to begin: whichever *)
(* steps of the migration the writes of the files fell between, and however  *)
(* often it was killed and run again, as long as each migration went on from *)
(* where the one before it had stopped.  What a list read before the switch  *)
(* was saved over after it is excepted, of as many savers as there are.      *)
THEOREM LossIsFlagged == Spec => []LostIsFlagged
<1>1. MigrateInv => LostIsFlagged
  <2> SUFFICES ASSUME MigrateInv, db # None, db.frozen # None, ~overtaken, ~Miswrite,
                      NEW c \in Standing
               PROVE  \E f \in Families : c \in db.content[f]
    BY DEF LostIsFlagged, Standing
  <2>1. Kept(db.content, db.frozen, json, Standing)
    BY DEF MigrateInv, Straight, FrozenOk
  <2>2. \A f \in Families : json[f] = {} \/ json[f] = db.frozen[f]
    BY DEF Miswrite
  <2> QED
    BY <2>1, <2>2 DEF Kept
<1> QED
  BY <1>1, Invariant, PTL

(* No step takes the database away or takes a change of the queue out of it; *)
(* the one step that replaces it puts the same queue in its place, also when *)
(* the migration goes on from a journal that is out of date.                 *)
THEOREM DatabaseStays == Spec => InstalledKept
<1>1. ASSUME MigrateInv, [Next]_vars, db # None
      PROVE  db' # None /\ db.content["queue"] \subseteq db'.content["queue"]
  <2> DEFINE Stays == db' # None /\ db.content["queue"] \subseteq db'.content["queue"]
  <2>1. ASSUME NEW f \in Families, NEW c \in Changes, db' = [db EXCEPT !.content[f] = @ \cup {c}]
        PROVE  Stays
    <3>1. MigrateTypes
      BY <1>1 DEF MigrateInv
    <3>2. PICK x \in Contents, z \in Contents \cup {None} : db = [content |-> x, frozen |-> z]
      BY <1>1, <3>1 DEF MigrateTypes, Databases
    <3>3. PICK y : y = [x EXCEPT ![f] = @ \cup {c}]
      OBVIOUS
    <3>4. y \in Contents /\ x["queue"] \subseteq y["queue"]
      BY <3>3 DEF Contents, Families
    <3>5. db' = [content |-> y, frozen |-> z]
      BY <2>1, <3>2, <3>3
    <3>6. db' \in Databases
      BY <3>2, <3>4, <3>5 DEF Databases
    <3> QED
      BY <3>2, <3>4, <3>5, <3>6
  <2>2. ASSUME NEW what \in Kinds, Write(what)
        PROVE  Stays
    <3>1. writes < MaxWrites /\ what \in Kinds
      BY <2>2 DEF Write, Counted
    <3>2. Change(what) \in Changes /\ Family(what) \in Families
      BY <1>1, <3>1 DEF Change, Changes, Kinds, Family, Families, MigrateInv, MigrateTypes
    <3> QED
      BY <1>1, <2>1, <2>2, <3>2 DEF Write, Stored
  <2>3. CASE LockedWrite \/ DbWrite
    BY <2>2, <2>3 DEF LockedWrite, DbWrite, Kinds
  <2>4. ASSUME NEW w \in Savers,
               SaveBegin(w) \/ SaveRead(w) \/ SaveDb(w) \/ SaveFile(w) \/ SaveLands(w)
        PROVE  Stays
    <3>1. CASE SaveDb(w)
      <4>1. PICK f \in Families \ {"queue"}, new \in SUBSET Changes : ToDb(f, save[w].list, new)
        BY <1>1, <3>1, SaveDbTo
      <4>2. "queue" \in Families /\ MigrateTypes
        BY <1>1 DEF Families, MigrateInv
      <4> QED
        BY <4>1, <4>2, PutDb
    <3>2. CASE SaveBegin(w) \/ SaveRead(w) \/ SaveFile(w) \/ SaveLands(w)
      BY <1>1, <3>2 DEF SaveBegin, SaveRead, SaveFile, SaveLands, files, store
    <3> QED
      BY <2>4, <3>1, <3>2
  <2>5. ASSUME NEW p \in Procs, Rename(p)
        PROVE  Stays
    <3>1. mig[p].at = "rename" /\ db' = [content |-> staged[mig[p].run], frozen |-> None]
      BY <2>5 DEF Rename
    <3>2. PlaceOk(mig[p], staged[mig[p].run], db)
      BY <1>1, <3>1, Holder DEF Within
    <3>3. staged[mig[p].run] \in Contents /\ staged[mig[p].run]["queue"] = db.content["queue"]
      BY <1>1, <3>1, <3>2 DEF PlaceOk
    <3>4. db' \in Databases
      BY <3>1, <3>3 DEF Databases
    <3> QED
      BY <3>1, <3>3, <3>4
  <2>6. ASSUME NEW p \in Procs, WriteMeta(p)
        PROVE  Stays
    <3>1. db' = [db EXCEPT !.frozen = mig[p].frozen] /\ mig[p] \in Migrations
      BY <1>1, <2>6 DEF WriteMeta, Frozen, MigrateInv, MigrateTypes
    <3>2. PICK x \in Contents, z \in Contents \cup {None} : db = [content |-> x, frozen |-> z]
      BY <1>1 DEF MigrateInv, MigrateTypes, Databases
    <3>3. db' = [content |-> x, frozen |-> mig[p].frozen]
      BY <3>1, <3>2
    <3>4. db' \in Databases
      BY <3>1, <3>2, <3>3 DEF Databases, Migrations
    <3> QED
      BY <3>2, <3>3, <3>4
  <2>7. ASSUME NEW p \in Procs,
               \/ Look(p) \/ Enter(p) \/ Backup(p) \/ ImportRead(p) \/ Import(p) \/ ImportSeen(p)
               \/ Reanchor(p) \/ Reconcile(p) \/ Drift(p) \/ Install(p) \/ WriteMarker(p)
               \/ Commit(p) \/ Done(p) \/ Kill(p)
        PROVE  Stays
    <3>1. db' = db
      BY <2>7 DEF Look, Enter, Backup, ImportRead, Import, ImportSeen, Reanchor, Reconcile, Drift,
                  Install, WriteMarker, Commit, Done, Kill, files, store
    <3> QED
      BY <1>1, <3>1
  <2>8. CASE OldWrite \/ UNCHANGED vars
    BY <1>1, <2>8 DEF OldWrite, vars
  <2> QED
    BY <1>1, <2>3, <2>4, <2>5, <2>6, <2>7, <2>8 DEF Next
<1>2. MigrateInv /\ [Next]_vars =>
        [db # None => db' # None /\ db.content["queue"] \subseteq db'.content["queue"]]_vars
  BY <1>1
<1> QED
  BY <1>2, Invariant, PTL DEF Spec, InstalledKept

-----------------------------------------------------------------------------
(* The records of an older version (OldRecords). *)

OldStages == {"look", "draft", "state file"}
Applying ==
  [at : {"rest"}] \cup [at : {"state"}, goal : Goal]
  \cup [at : OldStages, goal : Goal, run : ApplyRuns, read : [Tasks -> Converted \cup {Absent}]]

OldTypes == OldTypeOK /\ app \in [Appliers -> Applying]

(* The task has a draft, or had one until a person threw it away. *)
Drafted(t) == draft[t] # Absent \/ t \in revised

(* What an apply knows: the tasks it read as converted were drafted, and so *)
(* is its own when it is about to say so.                                   *)
ApplyOk(a) ==
  UnderWay(a) =>
    /\ \A t \in Tasks : app[a].read[t] # Absent => Drafted(t)
    /\ At(a, "state file") => Drafted(app[a].goal.task)

(* An apply that ran alone so far found what is still there. *)
AloneOk(a) ==
  UnderWay(a) /\ app[a].run \notin crossed =>
    /\ app[a].read = state
    /\ At(a, "draft") => draft[app[a].goal.task] = Absent
    /\ \A b \in Appliers \ {a} : ~UnderWay(b)

OldInv ==
  /\ OldTypes
  /\ ConvertedHasDraft
  /\ \A a \in Appliers : ApplyOk(a) /\ AloneOk(a)

LEMMA OldInitInv == OldInit => OldInv
<1> SUFFICES ASSUME OldInit PROVE OldInv
  OBVIOUS
<1>1. 0 \in 0..MaxApplies
  BY AppliesAssumption
<1> QED
  BY <1>1 DEF OldInit, OldInv, OldTypes, OldTypeOK, Applying, Resting, ConvertedHasDraft,
     ApplyOk, AloneOk, UnderWay, At

(* Of an apply that is under way. *)
LEMMA Underway ==
  ASSUME OldInv, NEW a \in Appliers, UnderWay(a)
  PROVE  /\ app[a] \in [at : OldStages, goal : Goal, run : ApplyRuns,
                        read : [Tasks -> Converted \cup {Absent}]]
         /\ app[a].goal.task \in Tasks /\ app[a].goal.plan \in Texts
         /\ ApplyOk(a) /\ AloneOk(a)
BY DEF OldInv, OldTypes, Applying, UnderWay, At, Goal

(* What was under way beside another apply was crossed by it. *)
LEMMA TwoAreCrossed ==
  ASSUME OldInv, NEW a \in Appliers, NEW b \in Appliers \ {a}, UnderWay(a), UnderWay(b)
  PROVE  app[a].run \in crossed
BY DEF OldInv, AloneOk

LEMMA TurnInv == ASSUME OldInv, Turn PROVE OldInv'
BY DEF Turn, records, runs_seen, OldInv, OldTypes, OldTypeOK, Applying, ConvertedHasDraft,
   ApplyOk, AloneOk, UnderWay, At, Drafted
LEMMA ReviseInv == ASSUME OldInv, NEW t \in Tasks, Revise(t) PROVE OldInv'
<1>1. draft[t] \in Draft /\ t \notin revised /\ revised' = revised \cup {t}
  BY DEF Revise, OldInv, OldTypes, OldTypeOK
<1>2. [draft[t] EXCEPT !.by = "person"] \in Draft
  BY <1>1 DEF Draft
<1>3. /\ draft' \in [Tasks -> Draft \cup {Absent}]
      /\ \A u \in Tasks : draft[u] = Absent => draft'[u] = Absent
      /\ \A u \in Tasks \ {t} : draft'[u] = draft[u]
  BY <1>1, <1>2, AbsentAssumption DEF Revise, OldInv, OldTypes, OldTypeOK
<1>4. UNCHANGED <<old, live, turns, last, crossed, state, app, deaths>>
  BY DEF Revise, world, runs_seen
<1>5. OldTypes'
  BY <1>1, <1>3, <1>4 DEF OldInv, OldTypes, OldTypeOK
<1>6. \A u \in Tasks : Drafted(u) => Drafted(u)'
  BY <1>1, <1>3 DEF Drafted
<1>7. ConvertedHasDraft'
  BY <1>4, <1>6 DEF OldInv, ConvertedHasDraft, Drafted
<1>8. ASSUME NEW a \in Appliers PROVE (ApplyOk(a) /\ AloneOk(a))'
  <2>1. UnderWay(a)' => UnderWay(a)
    BY <1>4 DEF UnderWay, At
  <2> QED
    BY <1>3, <1>4, <1>6, <2>1, Underway DEF ApplyOk, AloneOk, UnderWay, At
<1> QED
  BY <1>5, <1>7, <1>8 DEF OldInv

(* The step of an apply that does not begin its run: the others are as they *)
(* were, and one that ran alone sees nothing of the step.                   *)
LEMMA StepOf ==
  ASSUME OldInv, NEW a \in Appliers, NEW p \in Applying,
         app' = [app EXCEPT ![a] = p], UNCHANGED <<last, crossed, revised>>,
         OldTypeOK', UnderWay(a)' => UnderWay(a),
         \A t \in Tasks : Drafted(t) => Drafted(t)', ConvertedHasDraft',
         ApplyOk(a)', AloneOk(a)', UnderWay(a) \/ UNCHANGED records
  PROVE  OldInv'
<1>1. OldTypes'
  BY DEF OldInv, OldTypes
<1>2. ASSUME NEW b \in Appliers, b # a PROVE (ApplyOk(b) /\ AloneOk(b))'
  <2>1. app'[b] = app[b]
    BY <1>2 DEF OldInv, OldTypes
  <2>2. ApplyOk(b)'
    BY <2>1, Underway DEF ApplyOk, UnderWay, At
  <2>3. AloneOk(b)'
    <3> SUFFICES ASSUME UnderWay(b), app[b].run \notin crossed
                 PROVE  /\ app[b].read = state'
                        /\ At(b, "draft") => draft'[app[b].goal.task] = Absent
                        /\ \A c \in Appliers \ {b} : ~UnderWay(c)'
      BY <2>1 DEF AloneOk, UnderWay, At
    <3>1. ~UnderWay(a) /\ AloneOk(b)
      BY <1>2, Underway DEF AloneOk
    <3>2. \A c \in Appliers \ {a} : app'[c] = app[c]
      BY DEF OldInv, OldTypes
    <3> QED
      BY <3>1, <3>2 DEF AloneOk, records, UnderWay, At
  <2> QED
    BY <2>2, <2>3
<1> QED
  BY <1>1, <1>2 DEF OldInv

(* An apply that rests, or looks at the goal, is not under way. *)
LEMMA NotUnderway ==
  ASSUME OldInv, NEW a \in Appliers, NEW p \in Applying, p.at \in {"rest", "state"},
         app' = [app EXCEPT ![a] = p]
  PROVE  ~UnderWay(a)' /\ ApplyOk(a)' /\ AloneOk(a)'
<1>1. app'[a] = p
  BY DEF OldInv, OldTypes
<1> QED
  BY <1>1 DEF ApplyOk, AloneOk, UnderWay, At

LEMMA classifyGoalInv == ASSUME OldInv, NEW a \in Appliers, classifyGoal(a) PROVE OldInv'
<1> DEFINE p == [at |-> "state", goal |-> old]
<1>1. old \in Goal
  BY DEF classifyGoal, InFlight, OldInv, OldTypes, OldTypeOK
<1>2. p \in Applying /\ p.at = "state" /\ app' = [app EXCEPT ![a] = p]
  BY <1>1 DEF classifyGoal, Applying
<1> HIDE DEF p
<1>3. UNCHANGED <<old, live, turns, state, draft, last, crossed, revised>>
  BY DEF classifyGoal, world, records, runs_seen
<1>4. OldTypeOK' /\ ConvertedHasDraft' /\ \A t \in Tasks : Drafted(t) => Drafted(t)'
  BY <1>3 DEF OldInv, OldTypes, OldTypeOK, ConvertedHasDraft, Drafted
<1> QED
  BY <1>2, <1>3, <1>4, NotUnderway, StepOf DEF records

(* An apply that is killed, or finds nothing to do. *)
LEMMA RestInv ==
  ASSUME OldInv, NEW a \in Appliers, Rest(a), UNCHANGED <<world, records, runs_seen, revised>>
  PROVE  OldInv'
<1>1. Resting \in Applying /\ Resting.at = "rest" /\ app' = [app EXCEPT ![a] = Resting]
  BY DEF Rest, Resting, Applying
<1>2. UNCHANGED <<old, live, turns, state, draft, last, crossed, revised>>
  BY DEF world, records, runs_seen
<1>3. OldTypeOK' /\ ConvertedHasDraft' /\ \A t \in Tasks : Drafted(t) => Drafted(t)'
  BY <1>2 DEF OldInv, OldTypes, OldTypeOK, ConvertedHasDraft, Drafted
<1> QED
  BY <1>1, <1>2, <1>3, NotUnderway, StepOf DEF records

LEMMA applyMigrationInv == ASSUME OldInv, NEW a \in Appliers, applyMigration(a) PROVE OldInv'
<1>1. UNCHANGED <<old, live, turns, state, draft, revised>>
  BY DEF applyMigration, world, records
<1>2. CASE IsConverted(app[a].goal)
  BY <1>2, RestInv DEF applyMigration
<1>3. CASE ~IsConverted(app[a].goal)
  <2> DEFINE p == [at |-> "look", goal |-> app[a].goal, run |-> last + 1, read |-> state]
  <2>1. /\ last < MaxApplies /\ last' = last + 1
        /\ app' = [app EXCEPT ![a] = p]
        /\ crossed' = IF Beside(a) = {} THEN crossed ELSE crossed \cup Beside(a) \cup {last + 1}
    BY <1>3 DEF applyMigration
  <2>2. /\ last + 1 \in ApplyRuns /\ last + 1 \in 0..MaxApplies
        /\ app[a].goal \in Goal /\ state \in [Tasks -> Converted \cup {Absent}]
    <3>1. last \in 0..MaxApplies /\ state \in [Tasks -> Converted \cup {Absent}]
      BY DEF OldInv, OldTypes, OldTypeOK
    <3>2. app[a] \in Applying /\ app[a].at = "state"
      BY DEF applyMigration, At, OldInv, OldTypes
    <3>3. app[a].goal \in Goal
      BY <3>2 DEF Applying
    <3> QED
      BY <2>1, <3>1, <3>3, AppliesAssumption DEF ApplyRuns
  <2>3. p \in Applying
    BY <2>2 DEF Applying, OldStages
  <2>4. p.at = "look" /\ p.read = state /\ p.run = last + 1
    OBVIOUS
  <2> HIDE DEF p
  <2>5. app'[a] = p /\ \A b \in Appliers \ {a} : app'[b] = app[b]
    BY <2>1 DEF OldInv, OldTypes
  <2>6. \A b \in Appliers \ {a} : UnderWay(b) => app[b].run \in Beside(a)
    BY DEF Beside
  <2>7. Beside(a) \subseteq ApplyRuns
    BY Underway DEF Beside
  <2>8. OldTypes'
    BY <1>1, <2>1, <2>2, <2>3, <2>7 DEF OldInv, OldTypes, OldTypeOK
  <2>9. ConvertedHasDraft' /\ \A t \in Tasks : Drafted(t) => Drafted(t)'
    BY <1>1 DEF OldInv, ConvertedHasDraft, Drafted
  <2>10. (ApplyOk(a) /\ AloneOk(a))'
    <3>1. ApplyOk(a)'
      BY <1>1, <2>4, <2>5 DEF ApplyOk, At, OldInv, ConvertedHasDraft, Drafted
    <3>2. AloneOk(a)'
      BY <1>1, <2>1, <2>4, <2>5, <2>6 DEF AloneOk, UnderWay, At
    <3> QED
      BY <3>1, <3>2
  <2>11. ASSUME NEW b \in Appliers, b # a PROVE (ApplyOk(b) /\ AloneOk(b))'
    <3>1. ApplyOk(b)'
      BY <2>5, <2>9, <2>11, Underway DEF ApplyOk, UnderWay, At
    <3>2. UnderWay(b) => app[b].run \in crossed'
      BY <2>1, <2>6, <2>11
    <3>3. AloneOk(b)'
      BY <2>5, <2>11, <3>2 DEF AloneOk, UnderWay, At
    <3> QED
      BY <3>1, <3>3
  <2> QED
    BY <2>8, <2>9, <2>10, <2>11 DEF OldInv
<1> QED
  BY <1>2, <1>3

(* An apply that goes on to another stage. *)
LEMMA NextOldStage ==
  ASSUME OldInv, NEW a \in Appliers, UnderWay(a), NEW at \in OldStages, To(a, at)
  PROVE  /\ app'[a] \in Applying /\ app' = [app EXCEPT ![a] = app'[a]]
         /\ app'[a].at = at /\ app'[a].goal = app[a].goal /\ app'[a].run = app[a].run
         /\ app'[a].read = app[a].read
<1>1. PICK p : p = [app[a] EXCEPT !.at = at]
  OBVIOUS
<1>2. /\ p \in [at : OldStages, goal : Goal, run : ApplyRuns,
                read : [Tasks -> Converted \cup {Absent}]]
      /\ p.at = at /\ p.goal = app[a].goal /\ p.run = app[a].run /\ p.read = app[a].read
  BY <1>1, Underway
<1>3. app' = [app EXCEPT ![a] = p] /\ app'[a] = p
  BY <1>1 DEF To, OldInv, OldTypes
<1> QED
  BY <1>2, <1>3 DEF Applying

LEMMA LookForDraftInv == ASSUME OldInv, NEW a \in Appliers, LookForDraft(a) PROVE OldInv'
<1>1. UnderWay(a) /\ UNCHANGED <<old, live, turns, state, draft, last, crossed, revised>>
  BY DEF LookForDraft, UnderWay, At, world, records, runs_seen
<1>2. PICK at \in OldStages : /\ at = IF Present(a) THEN "state file" ELSE "draft"
                              /\ To(a, at)
  BY DEF LookForDraft, OldStages
<1>3. OldTypeOK' /\ ConvertedHasDraft' /\ \A t \in Tasks : Drafted(t) => Drafted(t)'
  BY <1>1 DEF OldInv, OldTypes, OldTypeOK, ConvertedHasDraft, Drafted
<1>4. /\ app'[a] \in Applying /\ app' = [app EXCEPT ![a] = app'[a]]
      /\ app'[a].at = at /\ app'[a].goal = app[a].goal /\ app'[a].run = app[a].run
      /\ app'[a].read = app[a].read
  BY <1>1, <1>2, NextOldStage
<1>5. ApplyOk(a)'
  BY <1>1, <1>2, <1>3, <1>4, Underway DEF ApplyOk, At, Present, Drafted
<1>6. \A b \in Appliers \ {a} : app'[b] = app[b]
  BY <1>4 DEF OldInv, OldTypes
<1>7. AloneOk(a)'
  BY <1>1, <1>2, <1>4, <1>6, Underway DEF AloneOk, UnderWay, At, Present
<1> QED
  BY <1>1, <1>3, <1>4, <1>5, <1>7, StepOf

LEMMA PutDraftInv == ASSUME OldInv, NEW a \in Appliers, PutDraft(a) PROVE OldInv'
<1>0. PICK task : task = app[a].goal.task
  OBVIOUS
<1> DEFINE d == [plan |-> app[a].goal.plan, by |-> "apply"]
<1>1. UnderWay(a) /\ UNCHANGED <<old, live, turns, state, last, crossed, revised>>
  BY DEF PutDraft, UnderWay, At, world, runs_seen
<1>2. task \in Tasks /\ d \in Draft /\ d # Absent
  BY <1>0, <1>1, Underway, AbsentAssumption DEF Draft
<1>3. draft' = [draft EXCEPT ![task] = d] /\ To(a, "state file")
  BY <1>0 DEF PutDraft
<1> HIDE DEF d
<1>4. OldTypeOK' /\ \A t \in Tasks : Drafted(t) => Drafted(t)'
  BY <1>1, <1>2, <1>3 DEF OldInv, OldTypes, OldTypeOK, Drafted
<1>5. Drafted(task)'
  BY <1>2, <1>3 DEF Drafted, OldInv, OldTypes, OldTypeOK
<1>6. ConvertedHasDraft'
  BY <1>1, <1>4 DEF OldInv, ConvertedHasDraft, Drafted
<1>7. /\ app'[a] \in Applying /\ app' = [app EXCEPT ![a] = app'[a]]
      /\ app'[a].at = "state file" /\ app'[a].goal = app[a].goal /\ app'[a].run = app[a].run
      /\ app'[a].read = app[a].read
  BY <1>1, <1>3, NextOldStage DEF OldStages
<1>8. ApplyOk(a)'
  BY <1>0, <1>1, <1>4, <1>5, <1>7, Underway DEF ApplyOk, At
<1>9. \A b \in Appliers \ {a} : app'[b] = app[b]
  BY <1>7 DEF OldInv, OldTypes
<1>10. AloneOk(a)'
  BY <1>1, <1>7, <1>9, Underway DEF AloneOk, UnderWay, At
<1> QED
  BY <1>1, <1>4, <1>6, <1>7, <1>8, <1>10, StepOf

(* The state file as an apply writes it. *)
LEMMA MergedState ==
  ASSUME OldInv, NEW a \in Appliers, UnderWay(a)
  PROVE  /\ Merged(a) \in [Tasks -> Converted \cup {Absent}]
         /\ Merged(a)[app[a].goal.task] # Absent
         /\ \A t \in Tasks : t # app[a].goal.task => Merged(a)[t] = app[a].read[t]
<1>1. /\ app[a].read \in [Tasks -> Converted \cup {Absent}]
      /\ Entry_of(a) \in Converted /\ app[a].goal.task \in Tasks
  BY Underway DEF Entry_of, Converted, Goal
<1> QED
  BY <1>1, AbsentAssumption DEF Merged

LEMMA SwitchInv == ASSUME OldInv, NEW a \in Appliers, Switch(a) PROVE OldInv'
<1>1. UnderWay(a) /\ UNCHANGED <<old, live, turns, draft, last, crossed, revised>>
  BY DEF Switch, StateTurn, UnderWay, At, world, runs_seen
<1>2. state' = Merged(a) /\ app' = [app EXCEPT ![a] = Resting]
  BY DEF Switch, Rest
<1>3. Resting \in Applying /\ Resting.at = "rest"
  BY DEF Resting, Applying
<1>4. OldTypeOK' /\ \A t \in Tasks : Drafted(t) => Drafted(t)'
  BY <1>1, <1>2, MergedState DEF OldInv, OldTypes, OldTypeOK, Drafted
<1>5. ConvertedHasDraft'
  <2> SUFFICES ASSUME NEW t \in Tasks, Merged(a)[t] # Absent PROVE Drafted(t)
    BY <1>1, <1>2 DEF ConvertedHasDraft, Drafted
  <2>1. CASE t = app[a].goal.task
    BY <1>1, <2>1, Underway DEF ApplyOk, Switch, StateTurn
  <2>2. CASE t # app[a].goal.task
    BY <1>1, <2>2, Underway, MergedState DEF ApplyOk
  <2> QED
    BY <2>1, <2>2
<1> QED
  BY <1>1, <1>2, <1>3, <1>4, <1>5, NotUnderway, StepOf

LEMMA OldNextInv == ASSUME OldInv, [OldNext]_old_vars PROVE OldInv'
<1>1. ASSUME NEW a \in Appliers, Die(a) PROVE OldInv'
  BY <1>1, RestInv DEF Die
<1>2. CASE UNCHANGED old_vars
  BY <1>2 DEF old_vars, world, records, runs_seen, OldInv, OldTypes, OldTypeOK, ConvertedHasDraft,
     ApplyOk, AloneOk, UnderWay, At, Drafted
<1> QED
  BY <1>1, <1>2, TurnInv, ReviseInv, classifyGoalInv, applyMigrationInv, LookForDraftInv,
     PutDraftInv, SwitchInv DEF OldNext

(* All of it holds throughout. *)
LEMMA OldInvariant == OldSpec => []OldInv
  BY OldInitInv, OldNextInv, PTL DEF OldSpec

(* State file, drafts and applies under way keep their shapes. *)
THEOREM OldTypeCorrect == OldSpec => []OldTypeOK
  BY OldInvariant, PTL DEF OldInv, OldTypes

(* A task the state file calls converted has a draft, unless a person threw  *)
(* that away: whichever applies were killed or ran across each other.       *)
THEOREM ConvertedKeepsDraft == OldSpec => []ConvertedHasDraft
  BY OldInvariant, PTL DEF OldInv

LEMMA KeptByStep ==
  ASSUME OldInv, OldNext, NEW t \in Tasks, revised' = revised,
         ~\E a \in Appliers : UnderWay(a) /\ app[a].run \in crossed
  PROVE  /\ draft[t] # Absent => draft'[t] = draft[t]
         /\ state[t] # Absent => state'[t] # Absent
<1>1. ASSUME NEW a \in Appliers, PutDraft(a)
      PROVE  /\ draft[t] # Absent => draft'[t] = draft[t]
             /\ state'[t] = state[t]
  <2>1. UnderWay(a) /\ draft[app[a].goal.task] = Absent
    BY <1>1, Underway DEF PutDraft, AloneOk, UnderWay, At
  <2> QED
    BY <1>1, <2>1 DEF PutDraft, OldInv, OldTypes, OldTypeOK
<1>2. ASSUME NEW a \in Appliers, Switch(a)
      PROVE  draft'[t] = draft[t] /\ (state[t] # Absent => state'[t] # Absent)
  <2>1. UnderWay(a) /\ app[a].read = state /\ state' = Merged(a) /\ draft' = draft
    BY <1>2, Underway DEF Switch, StateTurn, AloneOk, UnderWay, At
  <2> QED
    BY <2>1, MergedState
<1>3. ASSUME NEW u \in Tasks, Revise(u) PROVE FALSE
  BY <1>3 DEF Revise
<1>4. CASE UNCHANGED records
  BY <1>4 DEF records
<1> QED
  BY <1>1, <1>2, <1>3, <1>4
  DEF OldNext, Turn, classifyGoal, applyMigration, LookForDraft, Die

(* An apply that runs alone takes no draft away and no record that a task    *)
(* is converted: it is not beaten by what it read before.                   *)
THEOREM NothingUnconverted == OldSpec => ConversionsKept
<1>1. OldInv /\ [OldNext]_old_vars =>
        [\A t \in Tasks :
           \/ revised' # revised
           \/ \E a \in Appliers : UnderWay(a) /\ app[a].run \in crossed
           \/ /\ draft[t] # Absent => draft'[t] = draft[t]
              /\ state[t] # Absent => state'[t] # Absent]_old_vars
  BY KeptByStep
<1> QED
  BY <1>1, OldInvariant, PTL DEF OldSpec, ConversionsKept

-----------------------------------------------------------------------------
(* The two side by side, as they are checked: what was there, in the        *)
(* database or in the records, is kept by whichever of them runs.           *)
THEOREM BothKeep == MCSpec => KeptByBoth
<1>1. MCInit => Init /\ OldInit
  BY DEF MCInit
<1>2. [MCNext]_<<about, vars, old_vars>> => [Next]_vars /\ [OldNext]_old_vars
  BY DEF MCNext
<1>3. MCSpec => Spec /\ OldSpec
  BY <1>1, <1>2, PTL DEF MCSpec, Spec, OldSpec
<1> QED
  BY <1>3, DatabaseStays, NothingUnconverted DEF KeptByBoth
=============================================================================
