------------------------------ MODULE StopHook ------------------------------
(***************************************************************************)
(* The hooks of the engine plugin that decide whether a session may stop:   *)
(* stop.js (pull the session back, let it go, consume a handoff marker) and *)
(* the session flags trigger.js writes (claim, standdown), over the         *)
(* per-session file sessions/<id>.json and its lock (hook-lib.js), next to  *)
(* the loop commands that start, advance, close, hand off and reset the     *)
(* goal (src/core/loop.js).                                                 *)
(*                                                                         *)
(* A loop command holds the loop lock for its whole section (LoopLock), so  *)
(* it is one step here, except a reset, whose inside a hook can see.  Hooks *)
(* take no loop lock: each of their reads and writes is a step.  Left out:  *)
(* telemetry (metrics.json and the unattended flag that only feeds it), and *)
(* the consumption warning, whose section touches only a time of its own.   *)
(***************************************************************************)
EXTENDS Integers

CONSTANTS
  Sessions,      \* engine sessions
  Hooks,         \* hook processes
  Steps,         \* steps of a plan
  MaxContinues,  \* MAX_STOP_CONTINUES
  MaxEras,       \* bound: goals registered
  MaxMarkers,    \* bound: handoffs registered
  MaxFaults,     \* bound: hooks killed or held up, waits given up
  None

ASSUME BudgetAssumption == MaxContinues \in Nat \ {0} /\ Steps \in Nat \ {0}
ASSUME BoundsAssumption == MaxEras \in Nat /\ MaxMarkers \in Nat /\ MaxFaults \in Nat

VARIABLES
  goal,       \* goal.json: a record of Goals, or None
  resetting,  \* a reset has cleared the residue and not yet the goal
  marker,     \* handoff.json: a record of Markers, or None
  consuming,  \* handoff.json.consuming: a record of Markers, or None
  file,       \* sessions/<id>.json of each session
  lock,       \* sessions/.lock-<id> of each session: a record of Locks, or None
  hook,       \* what each hook process is doing
  breach,     \* history: two hooks may have been in the session's section at once
  pulls,      \* history: until a breach, the session's pull-backs since a reset
  optedOut,   \* history: until a breach, the session's last word was standdown
  eras,       \* history: goals registered
  registered, \* history: handoffs registered
  released,   \* history: stops released by a handoff
  faults      \* history: faults so far

disk == <<goal, marker, consuming, file, lock>>
commands == <<resetting, eras, registered>>
ghosts == <<pulls, optedOut, breach, released, faults>>
vars == <<disk, commands, hook, ghosts>>

Goals == [era : 1..MaxEras, status : {"planning", "executing", "closed"}, done : 0..Steps]
Markers == [id : 1..MaxMarkers, era : 1..MaxEras]
Files == [continues : Nat, stall : Nat, last : 0..Steps \cup {-1}, stuck : BOOLEAN,
          standdown : BOOLEAN, claimed : BOOLEAN]
Locks == [by : Hooks, old : BOOLEAN]

Decisions == [continues : Nat, stall : Nat, last : 0..Steps \cup {-1}]

(* readSessionState on a missing file; last = -1 is lastDoneCount null.     *)
Blank == [continues |-> 0, stall |-> 0, last |-> -1, stuck |-> FALSE,
          standdown |-> FALSE, claimed |-> FALSE]

Unread == [continues |-> 0, stall |-> 0, last |-> -1]

(* The jobs a hook does inside withSessionLock.                             *)
Jobs == {"clear", "pull", "remind", "calm", "standdown", "claim"}
Stages == {"gate", "take", "read", "drop", "lock", "steal", "state", "merge", "write", "unlock"}

Idle == [at |-> "idle"]
Running == [at : Stages, sid : Sessions, job : Jobs \cup {None}, done : 0..Steps,
            state : Decisions, base : Files, held : BOOLEAN,
            won : Markers \cup {None}, got : Markers \cup {None}]

ASSUME NoneAssumption ==
  None \notin Goals \cup Markers \cup Locks \cup Jobs

Started(s, at, job, done) ==
  [at |-> at, sid |-> s, job |-> job, done |-> done, state |-> Unread, base |-> Blank,
   held |-> FALSE, won |-> None, got |-> None]

Init ==
  /\ goal = None /\ resetting = FALSE
  /\ marker = None /\ consuming = None
  /\ file = [s \in Sessions |-> Blank]
  /\ lock = [s \in Sessions |-> None]
  /\ hook = [h \in Hooks |-> Idle]
  /\ pulls = [s \in Sessions |-> 0]
  /\ optedOut = [s \in Sessions |-> FALSE]
  /\ breach = [s \in Sessions |-> FALSE]
  /\ eras = 0 /\ registered = 0 /\ released = 0 /\ faults = 0

Executing == goal # None /\ goal.status = "executing"
At(h, stages) == hook[h].at \in stages
Inside(h, s) == At(h, {"state", "merge", "write", "unlock"}) /\ hook[h].sid = s
Go(h, at) == hook' = [hook EXCEPT ![h].at = at]

----------------------------------------------------------------------------
(* The loop commands.                                                       *)

(* lzy loop register: refused while any goal is on disk, closed or not.      *)
Register ==
  /\ ~resetting /\ goal = None /\ eras < MaxEras
  /\ goal' = [era |-> eras + 1, status |-> "planning", done |-> 0]
  /\ eras' = eras + 1
  /\ UNCHANGED <<marker, consuming, file, lock, resetting, registered, hook, ghosts>>

MoveGoal(to) ==
  /\ ~resetting
  /\ goal' = to
  /\ UNCHANGED <<marker, consuming, file, lock, commands, hook, ghosts>>

(* lzy loop start, with its plan adopted.                                   *)
Start == goal # None /\ goal.status = "planning"
         /\ MoveGoal([goal EXCEPT !.status = "executing"])

(* Mutant: a closed step is counted again when it is closed again. *)
StepDone_again == Executing /\ MoveGoal([goal EXCEPT !.done = @ + 1])

StepDone == Executing /\ goal.done < Steps /\ MoveGoal([goal EXCEPT !.done = @ + 1])

(* lzy loop supersede: the new plan's steps are all open.                   *)
Supersede == Executing /\ MoveGoal([goal EXCEPT !.done = 0])

(* lzy loop finish or abandon; neither touches the marker.                  *)
Close == goal # None /\ goal.status # "closed"
         /\ MoveGoal([goal EXCEPT !.status = "closed", !.done = 0])

(* handoffGoal: the check before the lock is made again under it.           *)
Handoff ==
  /\ Executing /\ ~resetting /\ registered < MaxMarkers
  /\ marker' = [id |-> registered + 1, era |-> goal.era]
  /\ registered' = registered + 1
  /\ UNCHANGED <<goal, consuming, file, lock, resetting, eras, hook, ghosts>>

(* Mutant: the marker survives a reset. *)
MarkerAfterReset_kept == marker

MarkerAfterReset == None

(* lzy loop reset, first the residue: the whole of sessions/, its lock       *)
(* directories included, and the marker, with or without a goal ...         *)
ResetResidue ==
  /\ ~resetting
  /\ resetting' = TRUE
  /\ file' = [s \in Sessions |-> Blank]
  /\ lock' = [s \in Sessions |-> None]
  /\ marker' = MarkerAfterReset
  /\ pulls' = [s \in Sessions |-> 0]
  /\ optedOut' = [s \in Sessions |-> FALSE]
  /\ breach' = [s \in Sessions |-> \E h \in Hooks : Inside(h, s)]
  /\ UNCHANGED <<goal, consuming, eras, registered, hook, released, faults>>

(* ... then the goal.                                                       *)
ResetGoal ==
  /\ resetting
  /\ resetting' = FALSE
  /\ goal' = None
  /\ UNCHANGED <<marker, consuming, file, lock, eras, registered, hook, ghosts>>

Command == Register \/ Start \/ StepDone \/ Supersede \/ Close
           \/ Handoff \/ ResetResidue \/ ResetGoal

----------------------------------------------------------------------------
(* The hooks up to the session's section.                                   *)

hookKeeps == <<disk, commands, ghosts>>

(* Bound: after a breach the session's hooks under way end, and no other is *)
(* started for it until its file is cleared.                                *)
Followed == {s \in Sessions : ~breach[s]}

(* stop.js starts: readGoal; nothing to do unless it is executing.          *)
StopStart(h) ==
  /\ At(h, {"idle"}) /\ Executing
  /\ \E s \in Followed : hook' = [hook EXCEPT ![h] = Started(s, "gate", None, goal.done)]
  /\ UNCHANGED hookKeeps

(* A session that opted out, that never claimed the goal, or whose claim has *)
(* by now passed CLAIM_TTL_MS is not followed; time alone ends a claim.      *)
Followable(f) == f.claimed /\ ~f.standdown

Gate(h) ==
  /\ At(h, {"gate"})
  /\ \/ hook' = [hook EXCEPT ![h] = Idle]
     \/ Followable(file[hook[h].sid]) /\ Go(h, "take")
  /\ UNCHANGED hookKeeps

(* What the stop does next is under the session's lock.                     *)
Enqueue(h, job) == hook' = [hook EXCEPT ![h].at = "lock", ![h].job = job]
Verdict(h) == IF hook[h].done < Steps THEN "pull" ELSE "remind"

(* Mutant: the marker is read where it lies and removed later. *)
Take_reads(h) ==
  /\ At(h, {"take"})
  /\ IF marker = None
       THEN Enqueue(h, Verdict(h)) /\ UNCHANGED consuming
       ELSE /\ consuming' = marker
            /\ hook' = [hook EXCEPT ![h].at = "read", ![h].won = marker]
  /\ UNCHANGED <<goal, marker, file, lock, commands, ghosts>>

(* renameSync(handoff.json, handoff.json.consuming): an older .consuming is *)
(* overwritten, a missing marker is an error the hook ignores.              *)
Take(h) ==
  /\ At(h, {"take"})
  /\ IF marker = None
       THEN Enqueue(h, Verdict(h)) /\ UNCHANGED <<marker, consuming>>
       ELSE /\ consuming' = marker /\ marker' = None
            /\ hook' = [hook EXCEPT ![h].at = "read", ![h].won = marker]
  /\ UNCHANGED <<goal, file, lock, commands, ghosts>>

(* readFileSync(handoff.json.consuming); None when it is not there.         *)
Read(h) ==
  /\ At(h, {"read"})
  /\ hook' = [hook EXCEPT ![h].at = "drop", ![h].got = consuming]
  /\ UNCHANGED hookKeeps

Drop(h) ==
  /\ At(h, {"drop"})
  /\ consuming' = None
  /\ Enqueue(h, IF hook[h].got = None THEN Verdict(h) ELSE "clear")
  /\ UNCHANGED <<goal, marker, file, lock, commands, ghosts>>

(* trigger.js on "zw standdown", in any directory with a goal, ...           *)
StanddownStart(h) ==
  /\ At(h, {"idle"}) /\ goal # None
  /\ \E s \in Followed : hook' = [hook EXCEPT ![h] = Started(s, "lock", "standdown", 0)]
  /\ UNCHANGED hookKeeps

(* ... and on an invocation, when the goal is executing.                     *)
ClaimStart(h) ==
  /\ At(h, {"idle"}) /\ Executing
  /\ \E s \in Followed : hook' = [hook EXCEPT ![h] = Started(s, "lock", "claim", 0)]
  /\ UNCHANGED hookKeeps

----------------------------------------------------------------------------
(* withSessionLock.                                                         *)

LiveHolder(s) ==
  lock[s] # None /\ LET o == hook[lock[s].by] IN o.at # "idle" /\ o.sid = s /\ o.held

(* The first step inside: the jobs that decide read the state first.        *)
Entry(h) == IF hook[h].job \in {"pull", "remind"} THEN "state" ELSE "merge"

(* Mutant: mkdirSync with recursive, which succeeds on a lock that is there. *)
Free_recursive(s) == TRUE

Free(s) == lock[s] = None

Mkdir(h) ==
  /\ At(h, {"lock"}) /\ Free(hook[h].sid)
  /\ lock' = [lock EXCEPT ![hook[h].sid] = [by |-> h, old |-> FALSE]]
  /\ hook' = [hook EXCEPT ![h].at = Entry(h), ![h].held = TRUE]
  /\ UNCHANGED <<goal, marker, consuming, file, commands, ghosts>>

SeeOld(h) ==
  /\ At(h, {"lock"}) /\ lock[hook[h].sid] # None /\ lock[hook[h].sid].old
  /\ Go(h, "steal")
  /\ UNCHANGED hookKeeps

(* rmSync of whatever lock is there by now.                                 *)
Steal(h) ==
  /\ At(h, {"steal"})
  /\ lock' = [lock EXCEPT ![hook[h].sid] = None]
  /\ breach' = [breach EXCEPT ![hook[h].sid] = @ \/ LiveHolder(hook[h].sid)]
  /\ Go(h, "lock")
  /\ UNCHANGED <<goal, marker, consuming, file, commands, pulls, optedOut, released, faults>>

(* After SESSION_LOCK_WAIT_MS the hook goes in without the lock.            *)
GiveUp(h) ==
  /\ At(h, {"lock"}) /\ lock[hook[h].sid] # None /\ ~lock[hook[h].sid].old
  /\ faults < MaxFaults
  /\ faults' = faults + 1
  /\ Go(h, Entry(h))
  /\ breach' = [breach EXCEPT ![hook[h].sid] = TRUE]
  /\ UNCHANGED <<disk, commands, pulls, optedOut, released>>

(* readSessionState: what the decision looks at.                            *)
Decided(f) == [continues |-> f.continues, stall |-> f.stall, last |-> f.last]

ReadState(h) ==
  /\ At(h, {"state"})
  /\ LET f == file[hook[h].sid]
     IN hook' = IF hook[h].job = "remind" /\ f.continues >= MaxContinues
                THEN [hook EXCEPT ![h].at = "unlock"]
                ELSE [hook EXCEPT ![h].at = "merge", ![h].state = Decided(f)]
  /\ UNCHANGED hookKeeps

(* writeSessionState reads the file again ...                               *)
ReadBase(h) ==
  /\ At(h, {"merge"})
  /\ hook' = [hook EXCEPT ![h].at = "write", ![h].base = file[hook[h].sid]]
  /\ UNCHANGED hookKeeps

Progressed(st, done) == st.last # -1 /\ done # st.last

(* The strikes after a stop that found done steps closed, counted up to 2.  *)
Strikes(st, done) ==
  IF st.last = -1 \/ Progressed(st, done) THEN 0
  ELSE IF st.stall < 2 THEN st.stall + 1 ELSE 2

(* A stop with steps open: give up on the second strike, let go when the    *)
(* budget is spent, pull the session back otherwise.                        *)
PullPatch(st, done) ==
  LET strikes == Strikes(st, done) IN
  IF strikes >= 2 THEN [stall |-> strikes, stuck |-> TRUE]
  ELSE IF st.continues >= MaxContinues
    THEN [stall |-> strikes, stuck |-> FALSE, last |-> done]
  ELSE [continues |-> st.continues + 1, stall |-> strikes, stuck |-> FALSE, last |-> done]

(* What each job writes.                                                    *)
Patch(job, st, done) ==
  CASE job = "clear" -> [stall |-> 0, stuck |-> FALSE, last |-> -1]
    [] job = "pull" -> PullPatch(st, done)
    [] job = "remind" -> [continues |-> st.continues + 1]
    [] job = "calm" -> [stall |-> 0, stuck |-> FALSE]
    [] job = "standdown" -> [standdown |-> TRUE]
    [] job = "claim" -> [claimed |-> TRUE, standdown |-> FALSE]

(* Mutant: the file is written anew from the patch. *)
Merged_new(base, patch) ==
  [x \in DOMAIN base |-> IF x \in DOMAIN patch THEN patch[x] ELSE Blank[x]]

Merged(base, patch) ==
  [x \in DOMAIN base |-> IF x \in DOMAIN patch THEN patch[x] ELSE base[x]]

(* ... and replaces it with the fields of the patch changed.  A reminder    *)
(* writes the counter and the strikes one after the other.                  *)
Write(h) ==
  /\ At(h, {"write"})
  /\ LET s == hook[h].sid
         patch == Patch(hook[h].job, hook[h].state, hook[h].done)
     IN /\ file' = [file EXCEPT ![s] = Merged(hook[h].base, patch)]
        /\ pulls' = IF breach[s] \/ "continues" \notin DOMAIN patch THEN pulls
                    ELSE [pulls EXCEPT ![s] = @ + 1]
        /\ optedOut' = IF breach[s] \/ "standdown" \notin DOMAIN patch THEN optedOut
                       ELSE [optedOut EXCEPT ![s] = patch.standdown]
        /\ IF hook[h].job = "remind"
             THEN hook' = [hook EXCEPT ![h].at = "merge", ![h].job = "calm",
                                      ![h].state = Unread, ![h].base = Blank]
             ELSE hook' = [hook EXCEPT ![h].at = "unlock", ![h].state = Unread, ![h].base = Blank]
  /\ UNCHANGED <<goal, marker, consuming, lock, commands, breach, released, faults>>

(* The finally clause: a hook that made the lock removes whatever lock is   *)
(* there, and answers.                                                      *)
Unlock(h) ==
  /\ At(h, {"unlock"})
  /\ LET s == hook[h].sid IN
       IF hook[h].held
         THEN /\ lock' = [lock EXCEPT ![s] = None]
              /\ breach' = [breach EXCEPT ![s] =
                              @ \/ (LiveHolder(s) /\ lock[s].by # h)]
         ELSE UNCHANGED <<lock, breach>>
  /\ hook' = [hook EXCEPT ![h] = Idle]
  /\ released' = released + IF hook[h].job = "clear" THEN 1 ELSE 0
  /\ UNCHANGED <<goal, marker, consuming, file, commands, pulls, optedOut, faults>>

HookStep(h) ==
  \/ StopStart(h) \/ Gate(h) \/ Take(h) \/ Read(h) \/ Drop(h)
  \/ StanddownStart(h) \/ ClaimStart(h)
  \/ Mkdir(h) \/ SeeOld(h) \/ Steal(h) \/ GiveUp(h)
  \/ ReadState(h) \/ ReadBase(h) \/ Write(h) \/ Unlock(h)

----------------------------------------------------------------------------
(* The environment.                                                         *)

(* A session's lock passes SESSION_LOCK_STALE_MS: one left behind by a      *)
(* killed hook, or, as a fault, that of a hook held up that long.           *)
GrowOld(s) ==
  /\ lock[s] # None /\ ~lock[s].old
  /\ LiveHolder(s) => faults < MaxFaults
  /\ lock' = [lock EXCEPT ![s].old = TRUE]
  /\ faults' = faults + IF LiveHolder(s) THEN 1 ELSE 0
  /\ UNCHANGED <<goal, marker, consuming, file, commands, hook, pulls, optedOut,
                 breach, released>>

(* The engine kills a hook that is over its timeout.                        *)
Kill(h) ==
  /\ ~At(h, {"idle"}) /\ faults < MaxFaults
  /\ hook' = [hook EXCEPT ![h] = Idle]
  /\ faults' = faults + 1
  /\ UNCHANGED <<disk, commands, pulls, optedOut, breach, released>>

Next ==
  \/ Command
  \/ \E h \in Hooks : HookStep(h) \/ Kill(h)
  \/ \E s \in Sessions : GrowOld(s)

Spec == Init /\ [][Next]_vars

----------------------------------------------------------------------------
(* Properties.                                                              *)

(* Every variable stays within its type.                                    *)
TypeOK ==
  /\ goal \in Goals \cup {None}
  /\ resetting \in BOOLEAN
  /\ marker \in Markers \cup {None} /\ consuming \in Markers \cup {None}
  /\ \A s \in Sessions : file[s] \in Files /\ lock[s] \in Locks \cup {None}
  /\ \A h \in Hooks : hook[h] = Idle \/ hook[h] \in Running
  /\ \A s \in Sessions : pulls[s] \in Nat /\ optedOut[s] \in BOOLEAN /\ breach[s] \in BOOLEAN
  /\ eras \in 0..MaxEras /\ registered \in 0..MaxMarkers
  /\ released \in Nat /\ faults \in 0..MaxFaults

(* stop.js asks the engine to continue a session at most                    *)
(* MAX_STOP_CONTINUES times, and its file accounts for every pull-back,     *)
(* however stops of one session, prompts, kills, takeovers and resets       *)
(* interleave, as long as the session's section was not entered twice.      *)
PullsAccounted ==
  \A s \in Sessions : ~breach[s] =>
    file[s].continues = pulls[s] /\ pulls[s] <= MaxContinues

(* The strike rule of stop.js gives a session up only when its pull-backs   *)
(* are spent: with two of them, the second strike never comes early.        *)
StuckOnlyWhenSpent ==
  \A s \in Sessions : ~breach[s] /\ file[s].stuck => file[s].continues = MaxContinues

(* A session is let go for its pull-backs only when it had them.            *)
PullsInOrder == PullsAccounted /\ StuckOnlyWhenSpent

(* The standdown flag says what the session last said: no stop or claim     *)
(* running next to the prompt hook loses it or brings it back.              *)
StanddownKept ==
  \A s \in Sessions : ~breach[s] => file[s].standdown = optedOut[s]

(* A handoff marker on disk was registered for the goal on disk: no handoff *)
(* racing a reset leaves one that would release the next goal's first stop. *)
MarkerOfGoal == marker # None => goal # None /\ marker.era = goal.era

(* One registered handoff releases at most one stop.                        *)
ReleasedByMarker == released <= registered
=============================================================================
