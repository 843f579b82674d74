----------------------------- MODULE OldRecords -----------------------------
(***************************************************************************)
(* lzy migrate apply (src/core/migrate.js): the goal an older version left  *)
(* under way becomes the draft of a contract, which nobody has approved.    *)
(* An apply looks at the goal, reads the state file, backs up and stages in *)
(* directories of its own, puts the draft in place and last writes the      *)
(* state file, which says that the goal is converted.  Nothing is locked.   *)
(*                                                                         *)
(* Applies run beside each other, are killed between any two writes and run *)
(* again; meanwhile the older version goes on with the goal, a drive takes  *)
(* and drops its lease, and people work on the draft.  A plan is its hash.  *)
(* Left out: the journal, which is only shown, damaged records (a goal or a *)
(* state file that cannot be read refuses the apply, any other is kept with *)
(* a warning), and the preview and the status, which only read.             *)
(***************************************************************************)
EXTENDS Naturals, FiniteSets

CONSTANTS
  Tasks,      \* names of goals
  Texts,      \* plans
  Appliers,   \* processes that run lzy migrate apply
  MaxApplies, MaxTurns, MaxDeaths,  \* bounds: runs, changes of the goal, applies killed
  Absent

ASSUME AppliesAssumption ==
  MaxApplies \in Nat \ {0} /\ MaxTurns \in Nat /\ MaxDeaths \in Nat

VARIABLES
  old,       \* loop/goal.json
  live,      \* a drive holds its lease, in a process that is alive
  state,     \* state.json: the tasks converted, Absent for others
  draft,     \* drafts/<task>.draft-contract.md
  app,       \* what each apply is doing
  last,      \* the runs begun so far
  revised,   \* history: tasks whose draft a person revised or removed
  crossed,   \* history: runs that were under way together with another
  turns, deaths

world == <<old, live, turns>>
records == <<state, draft>>
runs_seen == <<last, crossed>>
old_vars == <<world, records, runs_seen, app, revised, deaths>>

ApplyRuns == 1..MaxApplies
Goal == [task : Tasks, status : {"active", "ended"}, plan : Texts]
Converted == [plan : Texts, run : ApplyRuns]           \* by slug: planHash, runId
Draft == [plan : Texts, by : {"apply", "person"}]
Resting == [at |-> "rest"]

ASSUME AbsentAssumption == Absent \notin Goal \cup Converted \cup Draft

OldTypeOK ==
  /\ old \in Goal \cup {Absent} /\ live \in BOOLEAN
  /\ state \in [Tasks -> Converted \cup {Absent}]
  /\ draft \in [Tasks -> Draft \cup {Absent}]
  /\ last \in 0..MaxApplies /\ crossed \subseteq ApplyRuns /\ revised \subseteq Tasks

OldInit ==
  /\ old = Absent /\ live = FALSE
  /\ state = [t \in Tasks |-> Absent] /\ draft = [t \in Tasks |-> Absent]
  /\ app = [a \in Appliers |-> Resting] /\ last = 0
  /\ revised = {} /\ crossed = {} /\ turns = 0 /\ deaths = 0

At(a, place) == app[a].at = place
To(a, place) == app' = [app EXCEPT ![a].at = place]
Rest(a) == app' = [app EXCEPT ![a] = Resting]

UnderWay(a) == ~At(a, "rest") /\ ~At(a, "state")

(* The runs of other applies that are under way. *)
Beside(a) == {app[b].run : b \in {b \in Appliers \ {a} : UnderWay(b)}}

-----------------------------------------------------------------------------
(* The older version and people. *)

Turn ==
  /\ turns < MaxTurns /\ turns' = turns + 1
  /\ \/ \E g \in Goal \ {old} : old' = g /\ UNCHANGED live
     \/ old # Absent /\ old.status = "active" /\ live' = ~live /\ UNCHANGED old
  /\ UNCHANGED <<records, runs_seen, app, revised, deaths>>

(* A draft is worked on, or thrown away. *)
Revise(t) ==
  /\ draft[t] # Absent /\ t \notin revised /\ revised' = revised \cup {t}
  /\ \/ draft' = [draft EXCEPT ![t].by = "person"]
     \/ draft' = [draft EXCEPT ![t] = Absent]
  /\ UNCHANGED <<world, runs_seen, state, app, deaths>>

-----------------------------------------------------------------------------
(* An apply. *)

(* Under way, and nobody alive holds it. *)
InFlight == old # Absent /\ old.status = "active" /\ ~live

classifyGoal(a) ==
  /\ At(a, "rest") /\ last < MaxApplies
  /\ InFlight
  /\ app' = [app EXCEPT ![a] = [at |-> "state", goal |-> old]]
  /\ UNCHANGED <<world, records, runs_seen, revised, deaths>>

(* The task is converted already, from the plan it has. *)
IsConverted(goal) == state[goal.task] # Absent /\ state[goal.task].plan = goal.plan

(* What is not converted begins a run with the state as it was read. Backup,  *)
(* stage and validation write only to directories of the run: a copy of the *)
(* records, and the draft of the goal that was looked at.                   *)
applyMigration(a) ==
  /\ At(a, "state")
  /\ \/ /\ IsConverted(app[a].goal)
        /\ Rest(a) /\ UNCHANGED runs_seen
     \/ /\ ~IsConverted(app[a].goal) /\ last < MaxApplies
        /\ last' = last + 1
        /\ app' = [app EXCEPT ![a] =
             [at |-> "look", goal |-> app[a].goal, run |-> last + 1, read |-> state]]
        /\ crossed' = IF Beside(a) = {} THEN crossed ELSE crossed \cup Beside(a) \cup {last + 1}
  /\ UNCHANGED <<world, records, revised, deaths>>

(* Mutant: what is there is not looked for. *)
Present_never(a) == FALSE

(* A draft that is there is not written over. *)
Present(a) == draft[app[a].goal.task] # Absent

LookForDraft(a) ==
  /\ At(a, "look") /\ To(a, IF Present(a) THEN "state file" ELSE "draft")
  /\ UNCHANGED <<world, records, runs_seen, revised, deaths>>

PutDraft(a) ==
  /\ At(a, "draft") /\ To(a, "state file")
  /\ draft' = [draft EXCEPT ![app[a].goal.task] = [plan |-> app[a].goal.plan, by |-> "apply"]]
  /\ UNCHANGED <<world, runs_seen, state, revised, deaths>>

Entry_of(a) == [plan |-> app[a].goal.plan, run |-> app[a].run]

(* Mutant: the state file is written first. *)
StateTurn_first(a) == At(a, "look") \/ At(a, "state file")

(* The state that was read, with this task. *)
Merged(a) == [app[a].read EXCEPT ![app[a].goal.task] = Entry_of(a)]

StateTurn(a) == At(a, "state file")

Switch(a) ==
  /\ StateTurn(a)
  /\ state' = Merged(a)
  /\ Rest(a)
  /\ UNCHANGED <<world, runs_seen, draft, revised, deaths>>

Die(a) ==
  /\ ~At(a, "rest") /\ deaths < MaxDeaths /\ deaths' = deaths + 1
  /\ Rest(a)
  /\ UNCHANGED <<world, records, runs_seen, revised>>

-----------------------------------------------------------------------------
OldNext ==
  \/ Turn \/ \E t \in Tasks : Revise(t)
  \/ \E a \in Appliers :
       \/ classifyGoal(a) \/ applyMigration(a)
       \/ LookForDraft(a) \/ PutDraft(a) \/ Switch(a) \/ Die(a)

OldSpec == OldInit /\ [][OldNext]_old_vars

-----------------------------------------------------------------------------
(* The state file is the last word: a task it calls converted has a draft,   *)
(* unless a person threw that away, whichever applies were killed or ran    *)
(* across each other.                                                       *)
ConvertedHasDraft ==
  \A t \in Tasks : state[t] # Absent => draft[t] # Absent \/ t \in revised

(* Nothing that was on record before an apply is lost by it: neither the     *)
(* draft, which a person may have worked on, nor the record that a task is  *)
(* converted; but for applies that ran across each other, of which the      *)
(* later one writes what it read before.                                    *)
ConversionsKept ==
  [][\A t \in Tasks :
       \/ revised' # revised
       \/ \E a \in Appliers : UnderWay(a) /\ app[a].run \in crossed
       \/ /\ draft[t] # Absent => draft'[t] = draft[t]
          /\ state[t] # Absent => state'[t] # Absent]_old_vars

=============================================================================
