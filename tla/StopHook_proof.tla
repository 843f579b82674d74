--------------------------- MODULE StopHook_proof ---------------------------
EXTENDS StopHook, FiniteSetTheorems, TLAPS

-----------------------------------------------------------------------------
(* Type correctness. *)

Waiting == {"gate", "take", "read", "drop"}
Working == {"lock", "steal", "state", "merge", "write", "unlock"}

(* A hook has a job from the moment it goes for the session's lock, and one *)
(* that decides reads the state first.                                      *)
Employed(k) ==
  /\ k.at \in Waiting => k.job = None
  /\ k.at \in Working => k.job \in Jobs
  /\ k.at = "state" => k.job \in {"pull", "remind"}

Shape ==
  /\ goal \in Goals \cup {None}
  /\ resetting \in BOOLEAN
  /\ marker \in Markers \cup {None} /\ consuming \in Markers \cup {None}
  /\ file \in [Sessions -> Files] /\ lock \in [Sessions -> Locks \cup {None}]
  /\ hook \in [Hooks -> {Idle} \cup Running]
  /\ \A h \in Hooks : Employed(hook[h])
  /\ pulls \in [Sessions -> Nat]
  /\ optedOut \in [Sessions -> BOOLEAN] /\ breach \in [Sessions -> BOOLEAN]
  /\ eras \in 0..MaxEras /\ registered \in 0..MaxMarkers
  /\ released \in Nat /\ faults \in 0..MaxFaults

LEMMA BusyHook ==
  ASSUME Shape, NEW h \in Hooks, ~At(h, {"idle"})
  PROVE  hook[h] \in Running
BY DEF Shape, At, Idle

LEMMA BlankType == Blank \in Files /\ Unread \in Decisions /\ Idle.at = "idle"
BY DEF Blank, Files, Unread, Decisions, Idle

LEMMA StartedType ==
  ASSUME NEW s \in Sessions, NEW at \in Stages, NEW job \in Jobs \cup {None}, NEW done \in 0..Steps
  PROVE  Started(s, at, job, done) \in Running
BY BlankType DEF Started, Running

(* What each job leaves of the file. *)
LEMMA MergedType ==
  ASSUME NEW base \in Files, NEW job \in Jobs, NEW st \in Decisions, NEW done \in 0..Steps
  PROVE  Merged(base, Patch(job, st, done)) \in Files
<1>1. CASE job = "clear"
  BY <1>1 DEF Files, Merged, Patch
<1>2. CASE job = "pull"
  <2>1. Strikes(st, done) \in Nat
    BY DEF Strikes, Decisions
  <2>n. PICK n \in Nat : n = Strikes(st, done)
    BY <2>1
  <2>2. Patch(job, st, done) = PullPatch(st, done)
    BY <1>2 DEF Patch
  <2>3. CASE n >= 2
    <3>1. PullPatch(st, done) = [stall |-> n, stuck |-> TRUE]
      BY <2>3, <2>n DEF PullPatch
    <3>2. Merged(base, [stall |-> n, stuck |-> TRUE]) \in Files
      BY DEF Files, Merged
    <3> QED  BY <2>2, <3>1, <3>2
  <2>4. CASE ~(n >= 2) /\ st.continues >= MaxContinues
    <3>1. PullPatch(st, done) = [stall |-> n, stuck |-> FALSE, last |-> done]
      BY <2>4, <2>n DEF PullPatch
    <3>2. Merged(base, [stall |-> n, stuck |-> FALSE, last |-> done]) \in Files
      BY DEF Files, Merged
    <3> QED  BY <2>2, <3>1, <3>2
  <2>5. CASE ~(n >= 2) /\ ~(st.continues >= MaxContinues)
    <3>1. PullPatch(st, done) =
            [continues |-> st.continues + 1, stall |-> n, stuck |-> FALSE, last |-> done]
      BY <2>5, <2>n DEF PullPatch
    <3>2. PICK m \in Nat : m = st.continues + 1
      BY DEF Decisions
    <3>3. Merged(base, [continues |-> m, stall |-> n, stuck |-> FALSE, last |-> done]) \in Files
      BY DEF Files, Merged
    <3> QED  BY <2>2, <3>1, <3>2, <3>3
  <2> QED  BY <2>3, <2>4, <2>5
<1>3. CASE job = "remind"
  <2>1. st.continues + 1 \in Nat  BY DEF Decisions
  <2> QED  BY <1>3, <2>1 DEF Files, Merged, Patch
<1>4. CASE job = "calm"
  BY <1>4 DEF Files, Merged, Patch
<1>5. CASE job = "standdown"
  BY <1>5 DEF Files, Merged, Patch
<1>6. CASE job = "claim"
  BY <1>6 DEF Files, Merged, Patch
<1> QED  BY <1>1, <1>2, <1>3, <1>4, <1>5, <1>6 DEF Jobs

LEMMA ShapeInit == Init => Shape
<1> SUFFICES ASSUME Init PROVE Shape  OBVIOUS
<1>1. \A h \in Hooks : Employed(hook[h])
  BY DEF Init, Idle, Employed, Waiting, Working
<1>2. hook \in [Hooks -> {Idle} \cup Running] /\ file \in [Sessions -> Files]
  BY BlankType DEF Init
<1>3. eras \in 0..MaxEras /\ registered \in 0..MaxMarkers /\ faults \in 0..MaxFaults
  BY BoundsAssumption DEF Init
<1> QED  BY <1>1, <1>2, <1>3 DEF Init, Shape

(* A step of one hook that leaves it at work. *)
LEMMA HookMoves ==
  ASSUME Shape, NEW h \in Hooks, NEW k, hook' = [hook EXCEPT ![h] = k],
         k \in {Idle} \cup Running, Employed(k)
  PROVE  /\ hook' \in [Hooks -> {Idle} \cup Running]
         /\ \A q \in Hooks : Employed(hook'[q])
         /\ hook'[h] = k /\ \A q \in Hooks : q # h => hook'[q] = hook[q]
<1>1. /\ hook' \in [Hooks -> {Idle} \cup Running]
      /\ hook'[h] = k /\ \A q \in Hooks : q # h => hook'[q] = hook[q]
  BY DEF Shape
<1>2. \A q \in Hooks : Employed(hook[q])  BY DEF Shape
<1> QED  BY <1>1, <1>2

(* The variables a hook's own step changes besides its place, by type. *)
LEMMA ShapeOfStep ==
  ASSUME Shape, NEW h \in Hooks, NEW k, hook' = [hook EXCEPT ![h] = k],
         k \in {Idle} \cup Running, Employed(k),
         UNCHANGED <<goal, resetting, eras, registered>>,
         marker' \in {marker, None}, consuming' \in Markers \cup {None},
         file' \in [Sessions -> Files], lock' \in [Sessions -> Locks \cup {None}],
         pulls' \in [Sessions -> Nat], optedOut' \in [Sessions -> BOOLEAN],
         breach' \in [Sessions -> BOOLEAN], released' \in Nat, faults' \in 0..MaxFaults
  PROVE  Shape'
BY HookMoves DEF Shape

LEMMA ShapeCommand == Shape /\ Command => Shape'
<1> SUFFICES ASSUME Shape, Command PROVE Shape'  OBVIOUS
<1>1. CASE Register
  <2>1. eras + 1 \in 1..MaxEras
    BY <1>1, BoundsAssumption DEF Register, Shape
  <2>2. goal' \in Goals /\ eras' \in 0..MaxEras
    BY <1>1, <2>1, BudgetAssumption, BoundsAssumption DEF Register, Goals
  <2> QED  BY <1>1, <2>2 DEF Register, Shape, ghosts
<1>2. ASSUME NEW to \in Goals, MoveGoal(to) PROVE Shape'
  BY <1>2 DEF MoveGoal, Shape, commands, ghosts
<1>3. CASE Start
  <2>1. [goal EXCEPT !.status = "executing"] \in Goals
    BY <1>3 DEF Start, Shape, Goals
  <2> QED  BY <1>2, <1>3, <2>1 DEF Start
<1>4. CASE StepDone
  <2>1. [goal EXCEPT !.done = @ + 1] \in Goals
    BY <1>4, BudgetAssumption DEF StepDone, Executing, Shape, Goals
  <2> QED  BY <1>2, <1>4, <2>1 DEF StepDone
<1>5. CASE Supersede
  <2>1. [goal EXCEPT !.done = 0] \in Goals
    BY <1>5, BudgetAssumption DEF Supersede, Executing, Shape, Goals
  <2> QED  BY <1>2, <1>5, <2>1 DEF Supersede
<1>6. CASE Close
  <2>g. goal \in Goals
    BY <1>6 DEF Close, Shape
  <2>1. [goal EXCEPT !.status = "closed", !.done = 0] \in Goals
    <3>1. 0 \in 0..Steps /\ "closed" \in {"planning", "executing", "closed"}
      BY BudgetAssumption
    <3> QED  BY <2>g, <3>1 DEF Goals
  <2> QED  BY <1>2, <1>6, <2>1 DEF Close
<1>7. CASE Handoff
  <2>1. registered + 1 \in 1..MaxMarkers
    BY <1>7, BoundsAssumption DEF Handoff, Shape
  <2>2. goal.era \in 1..MaxEras
    BY <1>7 DEF Handoff, Executing, Shape, Goals
  <2>3. marker' \in Markers /\ registered' \in 0..MaxMarkers
    BY <1>7, <2>1, <2>2, BoundsAssumption DEF Handoff, Markers
  <2> QED  BY <1>7, <2>3 DEF Handoff, Shape, ghosts
<1>8. CASE ResetResidue
  <2>1. breach' \in [Sessions -> BOOLEAN]
    BY <1>8 DEF ResetResidue, Inside, At
  <2>2. /\ file' \in [Sessions -> Files] /\ lock' \in [Sessions -> Locks \cup {None}]
        /\ pulls' \in [Sessions -> Nat] /\ optedOut' \in [Sessions -> BOOLEAN]
    BY <1>8, BlankType DEF ResetResidue
  <2> QED  BY <1>8, <2>1, <2>2 DEF ResetResidue, Shape, MarkerAfterReset
<1>9. CASE ResetGoal
  BY <1>9 DEF ResetGoal, Shape, ghosts
<1> QED  BY <1>1, <1>3, <1>4, <1>5, <1>6, <1>7, <1>8, <1>9 DEF Command

(* A hook that is done waits, and one that starts has no job or a flag to write. *)
LEMMA EmployedStarted ==
  /\ Employed(Idle)
  /\ \A s \in Sessions, d \in 0..Steps : Employed(Started(s, "gate", None, d))
  /\ \A s \in Sessions, j \in {"standdown", "claim"} : Employed(Started(s, "lock", j, 0))
BY DEF Employed, Idle, Started, Waiting, Working, Jobs

LEMMA ShapeHook ==
  ASSUME Shape, NEW h \in Hooks, HookStep(h)
  PROVE  Shape'
<1> DEFINE k == hook'[h]
<1>t. /\ marker \in Markers \cup {None} /\ consuming \in Markers \cup {None}
      /\ file \in [Sessions -> Files] /\ lock \in [Sessions -> Locks \cup {None}]
      /\ pulls \in [Sessions -> Nat] /\ released \in Nat /\ faults \in 0..MaxFaults
      /\ optedOut \in [Sessions -> BOOLEAN] /\ breach \in [Sessions -> BOOLEAN]
      /\ Employed(hook[h])
  BY DEF Shape
<1>b. ~At(h, {"idle"}) => hook[h] \in Running
  BY BusyHook
<1>k. ASSUME NEW v \in {Idle} \cup Running, hook' = [hook EXCEPT ![h] = v], Employed(v),
             UNCHANGED hookKeeps
      PROVE  Shape'
  BY <1>k, <1>t, ShapeOfStep DEF hookKeeps, disk, commands, ghosts
<1>1. CASE StopStart(h)
  <2>1. goal.done \in 0..Steps
    BY <1>1 DEF StopStart, Executing, Shape, Goals
  <2>2. PICK s \in Sessions : hook' = [hook EXCEPT ![h] = Started(s, "gate", None, goal.done)]
    BY <1>1 DEF StopStart, Followed
  <2>3. Started(s, "gate", None, goal.done) \in Running
    BY <2>1, StartedType DEF Stages
  <2> QED  BY <1>1, <1>k, <2>1, <2>2, <2>3, EmployedStarted DEF StopStart
<1>2. CASE StanddownStart(h)
  <2>2. PICK s \in Sessions : hook' = [hook EXCEPT ![h] = Started(s, "lock", "standdown", 0)]
    BY <1>2 DEF StanddownStart, Followed
  <2>3. Started(s, "lock", "standdown", 0) \in Running
    BY BudgetAssumption, StartedType DEF Stages, Jobs
  <2> QED  BY <1>2, <1>k, <2>2, <2>3, EmployedStarted DEF StanddownStart
<1>3. CASE ClaimStart(h)
  <2>2. PICK s \in Sessions : hook' = [hook EXCEPT ![h] = Started(s, "lock", "claim", 0)]
    BY <1>3 DEF ClaimStart, Followed
  <2>3. Started(s, "lock", "claim", 0) \in Running
    BY BudgetAssumption, StartedType DEF Stages, Jobs
  <2> QED  BY <1>3, <1>k, <2>2, <2>3, EmployedStarted DEF ClaimStart
<1>4. CASE Gate(h)
  <2>1. hook[h] \in Running /\ hook[h].at = "gate"
    BY <1>4, <1>b DEF Gate, At
  <2>2. CASE hook' = [hook EXCEPT ![h] = Idle]
    BY <1>4, <2>2, <1>k, EmployedStarted DEF Gate
  <2>3. CASE Go(h, "take")
    <3>1. hook' = [hook EXCEPT ![h] = [hook[h] EXCEPT !.at = "take"]]
      BY <2>3 DEF Go
    <3>2. [hook[h] EXCEPT !.at = "take"] \in Running
      BY <2>1 DEF Running, Stages
    <3>3. Employed([hook[h] EXCEPT !.at = "take"])
      BY <2>1, <1>t DEF Running, Employed, Waiting, Working
    <3> QED  BY <1>4, <1>k, <3>1, <3>2, <3>3 DEF Gate
  <2> QED  BY <1>4, <2>2, <2>3 DEF Gate
<1>v. hook[h] \in Running => Verdict(h) \in Jobs
  BY DEF Verdict, Jobs
<1>q. ASSUME hook[h] \in Running, hook[h].at \in Waiting, NEW j \in Jobs
      PROVE  /\ [hook[h] EXCEPT !.at = "lock", !.job = j] \in Running
             /\ Employed([hook[h] EXCEPT !.at = "lock", !.job = j])
  BY <1>q DEF Running, Stages, Employed, Waiting, Working
<1>5. CASE Take(h)
  <2>1. hook[h] \in Running /\ hook[h].at = "take"
    BY <1>5, <1>b DEF Take, At
  <2>2. CASE marker = None
    <3>1. hook' = [hook EXCEPT ![h] = [hook[h] EXCEPT !.at = "lock", !.job = Verdict(h)]]
      BY <1>5, <2>2 DEF Take, Enqueue
    <3>2. UNCHANGED hookKeeps
      BY <1>5, <2>2 DEF Take, hookKeeps, disk, commands
    <3> QED  BY <2>1, <3>1, <3>2, <1>q, <1>v, <1>k DEF Waiting
  <2>3. CASE marker # None
    <3>1. /\ [hook[h] EXCEPT !.at = "read", !.won = marker] \in Running
          /\ Employed([hook[h] EXCEPT !.at = "read", !.won = marker])
      BY <2>1, <2>3, <1>t DEF Running, Stages, Employed, Waiting, Working
    <3>2. hook' = [hook EXCEPT ![h] = [hook[h] EXCEPT !.at = "read", !.won = marker]]
      BY <1>5, <2>3 DEF Take
    <3> QED  BY <1>5, <2>3, <3>1, <3>2, <1>t, ShapeOfStep DEF Take, commands, ghosts
  <2> QED  BY <2>2, <2>3
<1>6. CASE Read(h)
  <2>1. hook[h] \in Running /\ hook[h].at = "read"
    BY <1>6, <1>b DEF Read, At
  <2>2. /\ [hook[h] EXCEPT !.at = "drop", !.got = consuming] \in Running
        /\ Employed([hook[h] EXCEPT !.at = "drop", !.got = consuming])
    BY <2>1, <1>t DEF Running, Stages, Employed, Waiting, Working
  <2>3. hook' = [hook EXCEPT ![h] = [hook[h] EXCEPT !.at = "drop", !.got = consuming]]
    BY <1>6 DEF Read
  <2> QED  BY <1>6, <1>k, <2>2, <2>3 DEF Read
<1>7. CASE Drop(h)
  <2>1. hook[h] \in Running /\ hook[h].at = "drop"
    BY <1>7, <1>b DEF Drop, At
  <2>2. PICK j \in Jobs : Enqueue(h, j)
    BY <1>7, <2>1, <1>v DEF Drop, Jobs
  <2>3. hook' = [hook EXCEPT ![h] = [hook[h] EXCEPT !.at = "lock", !.job = j]]
    BY <2>2 DEF Enqueue
  <2>4. /\ [hook[h] EXCEPT !.at = "lock", !.job = j] \in Running
        /\ Employed([hook[h] EXCEPT !.at = "lock", !.job = j])
    BY <2>1, <1>q DEF Waiting
  <2> QED  BY <1>7, <2>3, <2>4, <1>t, ShapeOfStep DEF Drop, commands, ghosts
<1>j. ASSUME hook[h] \in Running, hook[h].at \in Working, NEW at \in Working,
             at # "state" \/ hook[h].job \in {"pull", "remind"}
      PROVE  /\ [hook[h] EXCEPT !.at = at] \in Running
             /\ Employed([hook[h] EXCEPT !.at = at])
  <2>1. hook[h].job \in Jobs
    BY <1>j, <1>t DEF Employed
  <2>2. /\ [hook[h] EXCEPT !.at = at] \in Running
        /\ [hook[h] EXCEPT !.at = at].at = at
        /\ [hook[h] EXCEPT !.at = at].job = hook[h].job
    BY <1>j DEF Running, Stages, Working
  <2> QED  BY <1>j, <2>1, <2>2 DEF Employed, Waiting, Working
<1>8. CASE Mkdir(h)
  <2>1. hook[h] \in Running /\ hook[h].at = "lock" /\ hook[h].job \in Jobs
    BY <1>8, <1>b, <1>t DEF Mkdir, At, Employed, Working
  <2>2. Entry(h) \in Working /\ (Entry(h) # "state" \/ hook[h].job \in {"pull", "remind"})
    BY <2>1 DEF Entry, Working
  <2>3. /\ [hook[h] EXCEPT !.at = Entry(h), !.held = TRUE] \in Running
        /\ [hook[h] EXCEPT !.at = Entry(h), !.held = TRUE].at = Entry(h)
        /\ [hook[h] EXCEPT !.at = Entry(h), !.held = TRUE].job = hook[h].job
    BY <2>1, <2>2 DEF Running, Stages, Working
  <2>4. Employed([hook[h] EXCEPT !.at = Entry(h), !.held = TRUE])
    BY <2>1, <2>2, <2>3 DEF Employed, Waiting, Working
  <2>5. lock' \in [Sessions -> Locks \cup {None}]
    BY <1>8, <1>t, <2>1 DEF Mkdir, Locks, Running
  <2>6. hook' = [hook EXCEPT ![h] = [hook[h] EXCEPT !.at = Entry(h), !.held = TRUE]]
    BY <1>8 DEF Mkdir
  <2> QED  BY <1>8, <2>3, <2>4, <2>5, <2>6, <1>t, ShapeOfStep DEF Mkdir, commands, ghosts
<1>9. CASE SeeOld(h)
  <2>1. hook[h] \in Running /\ hook[h].at = "lock"
    BY <1>9, <1>b DEF SeeOld, At
  <2>2. hook' = [hook EXCEPT ![h] = [hook[h] EXCEPT !.at = "steal"]]
    BY <1>9 DEF SeeOld, Go
  <2> QED  BY <1>9, <1>k, <1>j, <2>1, <2>2 DEF SeeOld, Working
<1>10. CASE Steal(h)
  <2>1. hook[h] \in Running /\ hook[h].at = "steal"
    BY <1>10, <1>b DEF Steal, At
  <2>2. hook' = [hook EXCEPT ![h] = [hook[h] EXCEPT !.at = "lock"]]
    BY <1>10 DEF Steal, Go
  <2>3. breach' \in [Sessions -> BOOLEAN] /\ lock' \in [Sessions -> Locks \cup {None}]
    BY <1>10, <1>t DEF Steal, LiveHolder
  <2>4. [hook[h] EXCEPT !.at = "lock"] \in Running /\ Employed([hook[h] EXCEPT !.at = "lock"])
    BY <2>1, <1>j DEF Working
  <2> QED  BY <1>10, <2>2, <2>3, <2>4, <1>t, ShapeOfStep DEF Steal, commands
<1>11. CASE GiveUp(h)
  <2>1. hook[h] \in Running /\ hook[h].at = "lock"
    BY <1>11, <1>b DEF GiveUp, At
  <2>2. hook' = [hook EXCEPT ![h] = [hook[h] EXCEPT !.at = Entry(h)]]
    BY <1>11 DEF GiveUp, Go
  <2>3. Entry(h) \in Working /\ (Entry(h) # "state" \/ hook[h].job \in {"pull", "remind"})
    BY DEF Entry, Working
  <2>4. breach' \in [Sessions -> BOOLEAN]
    BY <1>11, <1>t DEF GiveUp
  <2>f. faults' \in 0..MaxFaults
    BY <1>11, <1>t, BoundsAssumption DEF GiveUp
  <2>5. [hook[h] EXCEPT !.at = Entry(h)] \in Running /\ Employed([hook[h] EXCEPT !.at = Entry(h)])
    BY <2>1, <2>3, <1>j DEF Working
  <2> QED  BY <1>11, <2>2, <2>4, <2>5, <2>f, <1>t, ShapeOfStep DEF GiveUp, disk, commands
<1>12. CASE ReadState(h)
  <2>1. hook[h] \in Running /\ hook[h].at = "state" /\ hook[h].sid \in Sessions
    BY <1>12, <1>b DEF ReadState, At, Running
  <2>2. Decided(file[hook[h].sid]) \in Decisions
    BY <2>1, <1>t DEF Decided, Decisions, Files
  <2>3. CASE hook' = [hook EXCEPT ![h].at = "unlock"]
    <3>1. [hook[h] EXCEPT !.at = "unlock"] \in Running
          /\ Employed([hook[h] EXCEPT !.at = "unlock"])
      BY <2>1, <1>j DEF Working
    <3> QED  BY <1>12, <1>k, <2>3, <3>1 DEF ReadState
  <2>4. CASE hook' = [hook EXCEPT ![h].at = "merge", ![h].state = Decided(file[hook[h].sid])]
    <3>1. PICK st \in Decisions : st = Decided(file[hook[h].sid])
      BY <2>2
    <3>2. /\ [hook[h] EXCEPT !.at = "merge", !.state = st] \in Running
          /\ Employed([hook[h] EXCEPT !.at = "merge", !.state = st])
      BY <2>1, <1>t DEF Running, Stages, Employed, Waiting, Working
    <3> QED  BY <1>12, <1>k, <2>4, <3>1, <3>2 DEF ReadState
  <2> QED  BY <1>12, <2>3, <2>4 DEF ReadState
<1>13. CASE ReadBase(h)
  <2>1. hook[h] \in Running /\ hook[h].at = "merge" /\ hook[h].sid \in Sessions
    BY <1>13, <1>b DEF ReadBase, At, Running
  <2>2. PICK f \in Files : f = file[hook[h].sid]
    BY <2>1, <1>t
  <2>3. /\ [hook[h] EXCEPT !.at = "write", !.base = f] \in Running
        /\ Employed([hook[h] EXCEPT !.at = "write", !.base = f])
    BY <2>1, <1>t DEF Running, Stages, Employed, Waiting, Working
  <2> QED  BY <1>13, <1>k, <2>2, <2>3 DEF ReadBase
<1>14. CASE Write(h)
  <2>1. hook[h] \in Running /\ hook[h].at = "write" /\ hook[h].job \in Jobs
    BY <1>14, <1>b, <1>t DEF Write, At, Employed, Working
  <2>2. hook[h].sid \in Sessions /\ hook[h].base \in Files /\ hook[h].state \in Decisions
        /\ hook[h].done \in 0..Steps
    BY <2>1 DEF Running
  <2> DEFINE patch == Patch(hook[h].job, hook[h].state, hook[h].done)
  <2>3. file' \in [Sessions -> Files]
    <3>1. Merged(hook[h].base, patch) \in Files
      BY <2>1, <2>2, MergedType
    <3> QED  BY <1>14, <1>t, <2>2, <3>1 DEF Write
  <2>4. pulls' \in [Sessions -> Nat]
    BY <1>14, <1>t, <2>2 DEF Write
  <2>5. optedOut' \in [Sessions -> BOOLEAN]
    <3>1. "standdown" \in DOMAIN patch => patch.standdown \in BOOLEAN
      BY <2>1, <2>2 DEF Patch, PullPatch, Jobs
    <3> QED  BY <1>14, <1>t, <2>2, <3>1 DEF Write
  <2>6. \E v \in Running : hook' = [hook EXCEPT ![h] = v] /\ Employed(v)
    <3>1. CASE hook[h].job = "remind"
      <4>1. PICK v : v = [hook[h] EXCEPT !.at = "merge", !.job = "calm", !.state = Unread,
                                        !.base = Blank]
        OBVIOUS
      <4>2. v \in Running /\ Employed(v)
        BY <2>1, <4>1, BlankType DEF Running, Stages, Employed, Waiting, Working, Jobs
      <4>3. hook' = [hook EXCEPT ![h].at = "merge", ![h].job = "calm",
                                 ![h].state = Unread, ![h].base = Blank]
        BY <1>14, <3>1 DEF Write
      <4>4. hook' = [hook EXCEPT ![h] = v]
        BY <1>t, <4>1, <4>3
      <4> QED  BY <4>2, <4>4
    <3>2. CASE hook[h].job # "remind"
      <4>1. /\ [hook[h] EXCEPT !.at = "unlock", !.state = Unread, !.base = Blank] \in Running
            /\ Employed([hook[h] EXCEPT !.at = "unlock", !.state = Unread, !.base = Blank])
        BY <2>1, BlankType DEF Running, Stages, Employed, Waiting, Working
      <4> QED  BY <1>14, <3>2, <4>1 DEF Write
    <3> QED  BY <3>1, <3>2
  <2> QED  BY <1>14, <2>3, <2>4, <2>5, <2>6, <1>t, ShapeOfStep DEF Write, commands
<1>15. CASE Unlock(h)
  <2>1. hook[h] \in Running /\ hook[h].sid \in Sessions
    BY <1>15, <1>b DEF Unlock, At, Running
  <2>2. lock' \in [Sessions -> Locks \cup {None}] /\ breach' \in [Sessions -> BOOLEAN]
    BY <1>15, <1>t, <2>1 DEF Unlock, LiveHolder
  <2>3. released' \in Nat
    BY <1>15, <1>t DEF Unlock
  <2> QED  BY <1>15, <2>2, <2>3, <1>t, ShapeOfStep, EmployedStarted DEF Unlock, commands
<1> QED
  BY <1>1, <1>2, <1>3, <1>4, <1>5, <1>6, <1>7, <1>8, <1>9, <1>10, <1>11, <1>12, <1>13, <1>14,
     <1>15 DEF HookStep

LEMMA ShapeStep == Shape /\ [Next]_vars => Shape'
<1> SUFFICES ASSUME Shape, [Next]_vars PROVE Shape'  OBVIOUS
<1>1. ASSUME NEW h \in Hooks, Kill(h) PROVE Shape'
  <2>1. faults' \in 0..MaxFaults
    BY <1>1, BoundsAssumption DEF Kill, Shape
  <2>2. hook' = [hook EXCEPT ![h] = Idle]
    BY <1>1 DEF Kill
  <2>3. hook' \in [Hooks -> {Idle} \cup Running] /\ \A q \in Hooks : Employed(hook'[q])
    BY <2>2, HookMoves, EmployedStarted
  <2> QED  BY <1>1, <2>1, <2>3 DEF Kill, Shape, disk, commands
<1>2. ASSUME NEW s \in Sessions, GrowOld(s) PROVE Shape'
  <2>1. faults' \in 0..MaxFaults
    BY <1>2, BoundsAssumption DEF GrowOld, Shape
  <2>2. lock' \in [Sessions -> Locks \cup {None}]
    <3>1. [lock[s] EXCEPT !.old = TRUE] \in Locks
      BY <1>2 DEF GrowOld, Shape, Locks
    <3> QED  BY <1>2, <3>1 DEF GrowOld, Shape
  <2> QED  BY <1>2, <2>1, <2>2 DEF GrowOld, Shape, commands
<1>3. CASE UNCHANGED vars
  BY <1>3 DEF vars, disk, commands, ghosts, Shape
<1> QED  BY <1>1, <1>2, <1>3, ShapeCommand, ShapeHook DEF Next

(* Every variable stays within its type, the hooks' copies of the state     *)
(* they decide on and of the file they write back included.                 *)
THEOREM TypeCorrect == Spec => []TypeOK
<1>1. Spec => []Shape
  BY ShapeInit, ShapeStep, PTL DEF Spec
<1>2. Shape => TypeOK
  BY DEF Shape, TypeOK
<1> QED  BY <1>1, <1>2, PTL

(* What a step of one hook leaves of the others, and where it may have been. *)
LEMMA OthersStay ==
  ASSUME Shape, NEW h \in Hooks, HookStep(h) \/ Kill(h)
  PROVE  \A q \in Hooks : q # h => hook'[q] = hook[q]
<1>1. \E v : hook' = [hook EXCEPT ![h] = v]
  BY DEF HookStep, Kill, StopStart, Gate, Go, Take, Enqueue, Read, Drop, StanddownStart, ClaimStart,
         Mkdir, SeeOld, Steal, GiveUp, ReadState, ReadBase, Write, Unlock
<1> QED  BY <1>1 DEF Shape

-----------------------------------------------------------------------------
(* One handoff, one stop.  A hook that renamed a marker holds it until it   *)
(* has answered: markers on disk, in hooks' hands and spent are no more     *)
(* than the handoffs registered.                                            *)

Winning(k) == k.at \in {"read", "drop"} \/ (k.at # "idle" /\ k.job = "clear")
Winners == {h \in Hooks : Winning(hook[h])}
Lying == IF marker = None THEN 0 ELSE 1

TokenInv ==
  /\ IsFiniteSet(Winners)
  /\ Cardinality(Winners) + released + Lying <= registered

LEMMA WinnersMove ==
  ASSUME Shape, NEW h \in Hooks, IsFiniteSet(Winners),
         \A q \in Hooks : q # h => hook'[q] = hook[q]
  PROVE  /\ IsFiniteSet(Winners') /\ Cardinality(Winners) \in Nat /\ Cardinality(Winners') \in Nat
         /\ Cardinality(Winners') <= Cardinality(Winners) + 1
         /\ (Winning(hook'[h]) => Winning(hook[h]))
              => Cardinality(Winners') <= Cardinality(Winners)
         /\ Winning(hook[h]) /\ ~Winning(hook'[h])
              => Cardinality(Winners') = Cardinality(Winners) - 1
<1> DEFINE n == Cardinality(Winners)
<1>n. n \in Nat
  BY FS_CardinalityType
<1>1. CASE Winning(hook'[h]) /\ Winning(hook[h])
  <2>1. Winners' = Winners
    BY <1>1 DEF Winners
  <2> QED  BY <1>1, <1>n, <2>1
<1>2. CASE ~Winning(hook'[h]) /\ ~Winning(hook[h])
  <2>1. Winners' = Winners
    BY <1>2 DEF Winners
  <2> QED  BY <1>2, <1>n, <2>1
<1>3. CASE Winning(hook'[h]) /\ ~Winning(hook[h])
  <2>1. Winners' = Winners \cup {h} /\ h \notin Winners
    BY <1>3 DEF Winners
  <2>2. IsFiniteSet(Winners') /\ Cardinality(Winners') = n + 1
    BY <2>1, FS_AddElement
  <2> QED  BY <1>3, <1>n, <2>2
<1>4. CASE ~Winning(hook'[h]) /\ Winning(hook[h])
  <2>1. Winners' = Winners \ {h} /\ h \in Winners
    BY <1>4 DEF Winners
  <2>2. IsFiniteSet(Winners') /\ Cardinality(Winners') = n - 1
    BY <2>1, FS_RemoveElement
  <2>3. Cardinality(Winners') \in Nat
    BY <2>2, FS_CardinalityType
  <2> QED  BY <1>4, <1>n, <2>2, <2>3
<1> QED  BY <1>1, <1>2, <1>3, <1>4

(* What a step of one hook does to the marker in its hand. *)
LEMMA HandMoves ==
  ASSUME Shape, NEW h \in Hooks, HookStep(h) \/ Kill(h)
  PROVE  /\ registered' = registered
         /\ \/ marker' = marker /\ released' = released
               /\ (Winning(hook'[h]) => Winning(hook[h]))
            \/ marker # None /\ marker' = None /\ released' = released
            \/ /\ marker' = marker /\ released' = released + 1
               /\ Winning(hook[h]) /\ ~Winning(hook'[h])
<1>t. hook \in [Hooks -> {Idle} \cup Running] /\ Employed(hook[h]) /\ released \in Nat
      /\ None \notin Jobs
  BY NoneAssumption DEF Shape
<1>b. ~At(h, {"idle"}) => hook[h] \in Running
  BY BusyHook
<1>i. ~Winning(Idle)
  BY DEF Winning, Idle
<1>s. \A s \in Sessions, d \in 0..Steps : ~Winning(Started(s, "gate", None, d))
  BY <1>t DEF Winning, Started, Jobs
<1>l. \A s \in Sessions, j \in {"standdown", "claim"} : ~Winning(Started(s, "lock", j, 0))
  BY DEF Winning, Started
<1>1. CASE StopStart(h)
  <2>1. goal.done \in 0..Steps
    BY <1>1 DEF StopStart, Executing, Shape, Goals
  <2> QED  BY <1>1, <1>t, <1>s, <2>1 DEF StopStart, Followed, hookKeeps, disk, commands, ghosts
<1>2. CASE StanddownStart(h)
  BY <1>2, <1>t, <1>l DEF StanddownStart, Followed, hookKeeps, disk, commands, ghosts
<1>3. CASE ClaimStart(h)
  BY <1>3, <1>t, <1>l DEF ClaimStart, Followed, hookKeeps, disk, commands, ghosts
<1>4. CASE Gate(h)
  <2>1. hook[h] \in Running /\ hook[h].at = "gate" /\ hook[h].job = None
    BY <1>4, <1>b, <1>t DEF Gate, At, Employed, Waiting
  <2>2. ~Winning(hook'[h])
    <3>1. CASE hook' = [hook EXCEPT ![h] = Idle]
      BY <3>1, <1>i, <1>t
    <3>2. CASE Go(h, "take")
      <4>1. hook'[h].at = "take" /\ hook'[h].job = None
        BY <3>2, <2>1, <1>t DEF Go, Running
      <4> QED  BY <4>1, <1>t DEF Winning, Jobs
    <3> QED  BY <1>4, <3>1, <3>2 DEF Gate
  <2> QED  BY <1>4, <2>2 DEF Gate, hookKeeps, disk, commands, ghosts
<1>5. CASE Take(h)
  <2>1. hook[h] \in Running
    BY <1>5, <1>b DEF Take, At
  <2>2. CASE marker = None
    <3>1. hook'[h].at = "lock" /\ hook'[h].job # "clear"
      BY <1>5, <2>1, <2>2, <1>t DEF Take, Enqueue, Verdict, Running
    <3>2. ~Winning(hook'[h])
      BY <3>1 DEF Winning
    <3> QED  BY <1>5, <2>2, <3>2 DEF Take, commands, ghosts
  <2> QED  BY <1>5, <2>2 DEF Take, commands, ghosts
<1>6. CASE Read(h)
  <2>1. Winning(hook[h])
    BY <1>6 DEF Read, At, Winning
  <2> QED  BY <1>6, <2>1 DEF Read, hookKeeps, disk, commands, ghosts
<1>7. CASE Drop(h)
  <2>1. Winning(hook[h])
    BY <1>7 DEF Drop, At, Winning
  <2> QED  BY <1>7, <2>1 DEF Drop, commands, ghosts
<1>8. CASE Mkdir(h) \/ SeeOld(h) \/ Steal(h) \/ GiveUp(h) \/ ReadState(h) \/ ReadBase(h)
  <2>1. hook[h] \in Running /\ hook[h].at \in Working
    BY <1>8, <1>b DEF Mkdir, SeeOld, Steal, GiveUp, ReadState, ReadBase, At, Working
  <2>2. hook'[h].at \in Working /\ hook'[h].job = hook[h].job
    BY <1>8, <2>1, <1>t
       DEF Mkdir, SeeOld, Steal, GiveUp, ReadState, ReadBase, Go, Entry, Working, Running
  <2>3. Winning(hook'[h]) => Winning(hook[h])
    BY <2>1, <2>2 DEF Winning, Working
  <2> QED
    BY <1>8, <2>3
       DEF Mkdir, SeeOld, Steal, GiveUp, ReadState, ReadBase, hookKeeps, disk, commands, ghosts
<1>9. CASE Write(h)
  <2>1. hook[h] \in Running /\ hook[h].at = "write"
    BY <1>9, <1>b DEF Write, At
  <2>2. hook'[h].at \in Working /\ (hook'[h].job = "clear" => hook[h].job = "clear")
    BY <1>9, <2>1, <1>t DEF Write, Working, Running
  <2>3. Winning(hook'[h]) => Winning(hook[h])
    BY <2>1, <2>2 DEF Winning, Working
  <2> QED  BY <1>9, <2>3 DEF Write, commands
<1>10. CASE Unlock(h)
  <2>1. ~Winning(hook'[h])
    BY <1>10, <1>i, <1>t DEF Unlock
  <2>2. hook[h].job = "clear" => Winning(hook[h])
    BY <1>10 DEF Unlock, At, Winning
  <2> QED  BY <1>10, <1>t, <2>1, <2>2 DEF Unlock, commands
<1>11. CASE Kill(h)
  BY <1>11, <1>i, <1>t DEF Kill, disk, commands
<1> QED
  BY <1>1, <1>2, <1>3, <1>4, <1>5, <1>6, <1>7, <1>8, <1>9, <1>10, <1>11 DEF HookStep

LEMMA TokenInit == Init => TokenInv
<1> SUFFICES ASSUME Init PROVE TokenInv  OBVIOUS
<1>1. Winners = {}
  BY DEF Init, Winners, Winning, Idle
<1>2. IsFiniteSet(Winners) /\ Cardinality(Winners) = 0
  BY <1>1, FS_EmptySet
<1> QED  BY <1>2 DEF Init, TokenInv, Lying

LEMMA TokenStep == Shape /\ TokenInv /\ [Next]_vars => TokenInv'
<1> SUFFICES ASSUME Shape, TokenInv, [Next]_vars PROVE TokenInv'  OBVIOUS
<1>t. /\ released \in Nat /\ registered \in Nat /\ IsFiniteSet(Winners)
      /\ Cardinality(Winners) \in Nat /\ Cardinality(Winners) + released + Lying <= registered
  BY FS_CardinalityType, BoundsAssumption DEF Shape, TokenInv
<1>k. ASSUME hook' = hook, released' = released,
             \/ registered' = registered /\ (marker' = marker \/ marker' = None)
             \/ registered' = registered + 1
      PROVE  TokenInv'
  <2>1. Winners' = Winners
    BY <1>k DEF Winners
  <2> QED  BY <1>k, <1>t, <2>1 DEF TokenInv, Lying
<1>1. CASE Command
  BY <1>1, <1>k DEF Command, Register, Start, StepDone, Supersede, Close, MoveGoal, Handoff,
     ResetResidue, ResetGoal, MarkerAfterReset, commands, ghosts
<1>2. ASSUME NEW h \in Hooks, HookStep(h) \/ Kill(h) PROVE TokenInv'
  <2> DEFINE n == Cardinality(Winners)
             m == Cardinality(Winners')
  <2>1. /\ IsFiniteSet(Winners') /\ n \in Nat /\ m \in Nat /\ m <= n + 1
        /\ (Winning(hook'[h]) => Winning(hook[h])) => m <= n
        /\ Winning(hook[h]) /\ ~Winning(hook'[h]) => m = n - 1
    BY <1>2, <1>t, OthersStay, WinnersMove
  <2> QED  BY <1>2, <1>t, <2>1, HandMoves DEF TokenInv, Lying
<1>3. ASSUME NEW s \in Sessions, GrowOld(s) PROVE TokenInv'
  BY <1>3, <1>k DEF GrowOld, commands
<1>4. CASE UNCHANGED vars
  BY <1>4, <1>k DEF vars, disk, commands, ghosts
<1> QED  BY <1>1, <1>2, <1>3, <1>4 DEF Next

(* One registered handoff releases at most one stop, however many hooks go  *)
(* for its marker and whichever of them are killed (stop.js, the rename of  *)
(* handoff.json to handoff.json.consuming).                                 *)
THEOREM OneReleaseEach == Spec => []ReleasedByMarker
<1>1. Spec => [](Shape /\ TokenInv)
  BY ShapeInit, ShapeStep, TokenInit, TokenStep, PTL DEF Spec
<1>2. Shape /\ TokenInv => ReleasedByMarker
  <2> SUFFICES ASSUME Shape, TokenInv PROVE ReleasedByMarker  OBVIOUS
  <2>1. Cardinality(Winners) \in Nat
    BY FS_CardinalityType DEF TokenInv
  <2> QED  BY <2>1, BoundsAssumption DEF Shape, TokenInv, Lying, ReleasedByMarker
<1> QED  BY <1>1, <1>2, PTL

(* A handoff marker on disk was registered for the goal on disk: no handoff *)
(* racing a reset leaves one that would release the next goal's first stop  *)
(* (loop reset clears the residue, then the goal; register refuses while a  *)
(* goal is there).                                                          *)
MarkerInv ==
  /\ MarkerOfGoal
  /\ resetting => marker = None

THEOREM MarkersOfTheGoal == Spec => []MarkerOfGoal
<1>1. Init => MarkerInv
  BY DEF Init, MarkerInv, MarkerOfGoal
<1>2. Shape /\ MarkerInv /\ [Next]_vars => MarkerInv'
  <2> SUFFICES ASSUME Shape, MarkerInv, [Next]_vars PROVE MarkerInv'  OBVIOUS
  <2>1. CASE Register
    BY <2>1 DEF Register, MarkerInv, MarkerOfGoal
  <2>2. ASSUME NEW to, MoveGoal(to), goal \in Goals, to \in Goals, to.era = goal.era
        PROVE  MarkerInv'
    BY <2>2, NoneAssumption DEF MoveGoal, MarkerInv, MarkerOfGoal, commands
  <2>3. CASE Start \/ StepDone \/ Supersede \/ Close
    <3>g. goal \in Goals
      BY <2>3 DEF Start, StepDone, Supersede, Close, Executing, Shape
    <3>1. PICK to \in Goals : MoveGoal(to) /\ to.era = goal.era
      <4>0. 0 \in 0..Steps
        BY BudgetAssumption
      <4>1. CASE Start
        <5>1. [goal EXCEPT !.status = "executing"] \in Goals
              /\ [goal EXCEPT !.status = "executing"].era = goal.era
          BY <3>g DEF Goals
        <5> QED  BY <4>1, <5>1 DEF Start
      <4>2. CASE StepDone
        <5>1. [goal EXCEPT !.done = @ + 1] \in Goals /\ [goal EXCEPT !.done = @ + 1].era = goal.era
          BY <4>2, <3>g, BudgetAssumption DEF StepDone, Goals
        <5> QED  BY <4>2, <5>1 DEF StepDone
      <4>3. CASE Supersede
        <5>1. [goal EXCEPT !.done = 0] \in Goals /\ [goal EXCEPT !.done = 0].era = goal.era
          BY <3>g, <4>0 DEF Goals
        <5> QED  BY <4>3, <5>1 DEF Supersede
      <4>4. CASE Close
        <5>1. /\ [goal EXCEPT !.status = "closed", !.done = 0] \in Goals
              /\ [goal EXCEPT !.status = "closed", !.done = 0].era = goal.era
          BY <3>g, <4>0 DEF Goals
        <5> QED  BY <4>4, <5>1 DEF Close
      <4> QED  BY <2>3, <4>1, <4>2, <4>3, <4>4
    <3> QED  BY <3>g, <3>1, <2>2
  <2>4. CASE Handoff
    BY <2>4 DEF Handoff, Executing, MarkerInv, MarkerOfGoal
  <2>5. CASE ResetResidue
    BY <2>5 DEF ResetResidue, MarkerAfterReset, MarkerInv, MarkerOfGoal
  <2>6. CASE ResetGoal
    BY <2>6 DEF ResetGoal, MarkerInv, MarkerOfGoal
  <2>7. ASSUME NEW h \in Hooks, HookStep(h) \/ Kill(h) PROVE MarkerInv'
    <3>1. UNCHANGED <<goal, resetting>> /\ (marker' = marker \/ marker' = None)
      BY <2>7 DEF HookStep, Kill, StopStart, Gate, Take, Read, Drop, StanddownStart, ClaimStart,
         Mkdir, SeeOld, Steal, GiveUp, ReadState, ReadBase, Write, Unlock, hookKeeps, disk, commands
    <3> QED  BY <3>1 DEF MarkerInv, MarkerOfGoal
  <2>8. ASSUME NEW s \in Sessions, GrowOld(s) PROVE MarkerInv'
    BY <2>8 DEF GrowOld, commands, MarkerInv, MarkerOfGoal
  <2>9. CASE UNCHANGED vars
    BY <2>9 DEF vars, disk, commands, MarkerInv, MarkerOfGoal
  <2> QED  BY <2>1, <2>3, <2>4, <2>5, <2>6, <2>7, <2>8, <2>9 DEF Next, Command
<1>3. MarkerInv => MarkerOfGoal
  BY DEF MarkerInv
<1> QED  BY <1>1, <1>2, <1>3, ShapeInit, ShapeStep, PTL DEF Spec

-----------------------------------------------------------------------------
(* The session's section, while it has not been entered twice: the hook in  *)
(* it made the lock that is there, what it read is what the file still      *)
(* says, and the file accounts for what the session was asked and told.     *)

Spent(n) == n >= 2 \/ n = MaxContinues

Holds(s) ==
  \A h \in Hooks : Inside(h, s) => hook[h].held /\ lock[s] # None /\ lock[s].by = h

Accounts(f, asked, out) ==
  /\ f.continues = asked /\ asked <= MaxContinues
  /\ f.standdown = out
  /\ f.last # -1 => f.continues >= 1
  /\ f.stall >= 1 \/ f.stuck => Spent(f.continues)

Sees(k, f) ==
  /\ k.at \in {"merge", "write"} /\ k.job \in {"pull", "remind"} =>
       /\ k.state = Decided(f)
       /\ k.job = "remind" => f.continues < MaxContinues
  /\ k.at = "write" => k.base = f

Section(s) ==
  ~breach[s] =>
    /\ Holds(s)
    /\ Accounts(file[s], pulls[s], optedOut[s])
    /\ \A h \in Hooks : Inside(h, s) => Sees(hook[h], file[s])

SectionInv == \A s \in Sessions : Section(s)

LEMMA BlankAccounts == Accounts(Blank, 0, FALSE)
BY BudgetAssumption DEF Accounts, Blank

LEMMA SectionInit == Init => SectionInv
<1> SUFFICES ASSUME Init, NEW s \in Sessions PROVE Section(s)
  BY DEF SectionInv
<1>1. \A h \in Hooks : ~Inside(h, s)
  BY DEF Init, Inside, At, Idle
<1>2. file[s] = Blank /\ pulls[s] = 0 /\ optedOut[s] = FALSE
  BY DEF Init
<1> QED  BY <1>1, <1>2, BlankAccounts DEF Section, Holds

(* A session none of whose variables change, and that no hook enters. *)
LEMMA Undisturbed ==
  ASSUME NEW s \in Sessions, Section(s),
         \A q \in Hooks : Inside(q, s)' => hook'[q] = hook[q],
         file'[s] = file[s], lock'[s] = lock[s], pulls'[s] = pulls[s],
         optedOut'[s] = optedOut[s], breach'[s] = breach[s]
  PROVE  Section(s)'
<1>1. \A q \in Hooks : Inside(q, s)' => Inside(q, s)
  BY DEF Inside, At
<1> QED  BY <1>1 DEF Section, Holds

(* What a job leaves accounts for the pull-back it makes and for the word   *)
(* it carries: the strikes count only on a file that was pulled before.     *)
LEMMA JobAccounts ==
  ASSUME NEW f \in Files, NEW job \in Jobs, NEW st \in Decisions, NEW done \in 0..Steps,
         NEW asked \in Nat, NEW out \in BOOLEAN, Accounts(f, asked, out),
         job \in {"pull", "remind"} => st = Decided(f),
         job = "remind" => f.continues < MaxContinues
  PROVE  LET patch == Patch(job, st, done) IN
         Accounts(Merged(f, patch),
                  IF "continues" \in DOMAIN patch THEN asked + 1 ELSE asked,
                  IF "standdown" \in DOMAIN patch THEN patch.standdown ELSE out)
<1>f. /\ f.continues \in Nat /\ f.stall \in Nat /\ f.last \in 0..Steps \cup {-1}
      /\ f.continues = asked /\ asked <= MaxContinues /\ f.standdown = out
      /\ f.last # -1 => f.continues >= 1
      /\ f.stall >= 1 \/ f.stuck => Spent(f.continues)
      /\ MaxContinues \in Nat \ {0}
      /\ DOMAIN f = {"continues", "stall", "last", "stuck", "standdown", "claimed"}
  BY BudgetAssumption DEF Files, Accounts
<1>1. CASE job = "clear"
  <2>1. Patch(job, st, done) = [stall |-> 0, stuck |-> FALSE, last |-> -1]
    BY <1>1 DEF Patch
  <2> QED  BY <1>f, <2>1 DEF Accounts, Merged
<1>2. CASE job = "pull"
  <2>1. Patch(job, st, done) = PullPatch(st, done)
    BY <1>2 DEF Patch
  <2>2. st.continues = f.continues /\ st.stall = f.stall /\ st.last = f.last
    BY <1>2 DEF Decided
  <2>3. PICK n \in Nat : n = Strikes(st, done)
    BY <1>f, <2>2 DEF Strikes
  <2>4. /\ n >= 1 => f.last # -1
        /\ n >= 2 => f.stall >= 1
    BY <1>f, <2>2, <2>3 DEF Strikes
  <2>5. CASE n >= 2
    <3>1. PullPatch(st, done) = [stall |-> n, stuck |-> TRUE]
      BY <2>3, <2>5 DEF PullPatch
    <3>2. Accounts(Merged(f, [stall |-> n, stuck |-> TRUE]), asked, out)
      BY <1>f, <2>4, <2>5 DEF Accounts, Merged
    <3> QED  BY <2>1, <3>1, <3>2
  <2>6. CASE ~(n >= 2) /\ st.continues >= MaxContinues
    <3>1. PullPatch(st, done) = [stall |-> n, stuck |-> FALSE, last |-> done]
      BY <2>3, <2>6 DEF PullPatch
    <3>2. f.continues = MaxContinues /\ f.continues >= 1 /\ Spent(f.continues)
      BY <1>f, <2>2, <2>6 DEF Spent
    <3>3. Accounts(Merged(f, [stall |-> n, stuck |-> FALSE, last |-> done]), asked, out)
      BY <1>f, <3>2 DEF Accounts, Merged
    <3> QED  BY <2>1, <3>1, <3>3
  <2>7. CASE ~(n >= 2) /\ ~(st.continues >= MaxContinues)
    <3>1. PICK m \in Nat : m = f.continues + 1
      BY <1>f
    <3>2. PullPatch(st, done) = [continues |-> m, stall |-> n, stuck |-> FALSE, last |-> done]
      BY <2>2, <2>3, <2>7, <3>1 DEF PullPatch
    <3>3. /\ m = asked + 1 /\ m <= MaxContinues /\ m >= 1
          /\ n >= 1 => Spent(m)
      BY <1>f, <2>2, <2>4, <2>7, <3>1 DEF Spent
    <3>4. Accounts(Merged(f, [continues |-> m, stall |-> n, stuck |-> FALSE, last |-> done]),
                   asked + 1, out)
      BY <1>f, <3>3 DEF Accounts, Merged
    <3> QED  BY <2>1, <3>2, <3>4
  <2> QED  BY <2>5, <2>6, <2>7
<1>3. CASE job = "remind"
  <2>1. st.continues = f.continues /\ f.continues < MaxContinues
    BY <1>3 DEF Decided
  <2>2. PICK m \in Nat : m = f.continues + 1
    BY <1>f
  <2>3. Patch(job, st, done) = [continues |-> m]
    BY <1>3, <2>1, <2>2 DEF Patch
  <2>4. /\ m = asked + 1 /\ m <= MaxContinues /\ m >= 1
        /\ f.stall >= 1 \/ f.stuck => Spent(m)
    BY <1>f, <2>1, <2>2 DEF Spent
  <2>5. Accounts(Merged(f, [continues |-> m]), asked + 1, out)
    BY <1>f, <2>4 DEF Accounts, Merged
  <2> QED  BY <2>3, <2>5
<1>4. CASE job = "calm"
  <2>1. Patch(job, st, done) = [stall |-> 0, stuck |-> FALSE]
    BY <1>4 DEF Patch
  <2> QED  BY <1>f, <2>1 DEF Accounts, Merged
<1>5. CASE job = "standdown"
  <2>1. Patch(job, st, done) = [standdown |-> TRUE]
    BY <1>5 DEF Patch
  <2> QED  BY <1>f, <2>1 DEF Accounts, Merged
<1>6. CASE job = "claim"
  <2>1. Patch(job, st, done) = [claimed |-> TRUE, standdown |-> FALSE]
    BY <1>6 DEF Patch
  <2> QED  BY <1>f, <2>1 DEF Accounts, Merged
<1> QED  BY <1>1, <1>2, <1>3, <1>4, <1>5, <1>6 DEF Jobs

LEMMA SectionCommand == Shape /\ SectionInv /\ Command => SectionInv'
<1> SUFFICES ASSUME Shape, SectionInv, Command, NEW s \in Sessions PROVE Section(s)'
  BY DEF SectionInv
<1>1. CASE ResetResidue
  <2>1. SUFFICES ASSUME ~breach'[s] PROVE Section(s)'
    BY DEF Section
  <2>2. hook' = hook /\ \A h \in Hooks : ~Inside(h, s)
    BY <1>1, <2>1 DEF ResetResidue
  <2>3. \A h \in Hooks : ~Inside(h, s)'
    BY <2>2 DEF Inside, At
  <2>4. file'[s] = Blank /\ pulls'[s] = 0 /\ optedOut'[s] = FALSE
    BY <1>1 DEF ResetResidue
  <2> QED  BY <2>3, <2>4, BlankAccounts DEF Section, Holds
<1>2. CASE ~ResetResidue
  <2>1. UNCHANGED <<file, lock, hook, pulls, optedOut, breach>>
    BY <1>2 DEF Command, Register, Start, StepDone, Supersede, Close, MoveGoal, Handoff, ResetGoal, ghosts
  <2> QED  BY <2>1, Undisturbed DEF SectionInv
<1> QED  BY <1>1, <1>2

(* Nobody is inside while the lock is free or its holder is gone. *)
LEMMA NobodyInside ==
  ASSUME NEW s \in Sessions, Section(s), ~breach[s], lock[s] = None \/ ~LiveHolder(s)
  PROVE  \A q \in Hooks : ~Inside(q, s)
BY DEF Section, Holds, LiveHolder, Inside, At

(* No two hooks are inside. *)
LEMMA Alone ==
  ASSUME NEW s \in Sessions, Section(s), ~breach[s], NEW h \in Hooks, Inside(h, s)
  PROVE  /\ \A q \in Hooks : Inside(q, s) => q = h
         /\ hook[h].held /\ lock[s] # None /\ lock[s].by = h
BY DEF Section, Holds

LEMMA SectionHook ==
  ASSUME Shape, SectionInv, NEW h \in Hooks, HookStep(h) \/ Kill(h), NEW s \in Sessions
  PROVE  Section(s)'
<1>t. /\ hook \in [Hooks -> {Idle} \cup Running] /\ Employed(hook[h])
      /\ file \in [Sessions -> Files] /\ lock \in [Sessions -> Locks \cup {None}]
      /\ pulls \in [Sessions -> Nat]
      /\ optedOut \in [Sessions -> BOOLEAN] /\ breach \in [Sessions -> BOOLEAN]
  BY DEF Shape
<1>s. Section(s)
  BY DEF SectionInv
<1>b. ~At(h, {"idle"}) => hook[h] \in Running
  BY BusyHook
<1>o. \A q \in Hooks : q # h => hook'[q] = hook[q] /\ Inside(q, s)' = Inside(q, s)
  BY OthersStay DEF Inside, At
<1>a. ASSUME file'[s] = file[s], lock'[s] = lock[s], pulls'[s] = pulls[s],
             optedOut'[s] = optedOut[s], breach'[s] = breach[s], ~Inside(h, s)'
      PROVE  Section(s)'
  BY <1>a, <1>s, <1>o, Undisturbed
<1>i. hook'[h] = Idle => ~Inside(h, s)'
  BY DEF Inside, At, Idle
<1>1. CASE StopStart(h) \/ StanddownStart(h) \/ ClaimStart(h)
  <2>1. hook'[h].at \in {"gate", "lock"}
    BY <1>1, <1>t DEF StopStart, StanddownStart, ClaimStart, Followed, Started
  <2>2. ~Inside(h, s)'
    BY <2>1 DEF Inside, At
  <2> QED
    BY <1>1, <1>a, <2>2 DEF StopStart, StanddownStart, ClaimStart, hookKeeps, disk, ghosts
<1>2. CASE Gate(h) \/ Take(h) \/ Read(h) \/ Drop(h) \/ SeeOld(h)
  <2>1. hook[h] \in Running
    BY <1>2, <1>b DEF Gate, Take, Read, Drop, SeeOld, At
  <2>2. hook'[h] = Idle \/ hook'[h].at \in {"take", "read", "drop", "lock", "steal"}
    BY <1>2, <2>1, <1>t DEF Gate, Take, Read, Drop, SeeOld, Go, Enqueue, Running
  <2>3. ~Inside(h, s)'
    BY <1>i, <2>2 DEF Inside, At
  <2> QED
    BY <1>2, <1>a, <2>3 DEF Gate, Take, Read, Drop, SeeOld, hookKeeps, disk, ghosts
<1>3. CASE Kill(h)
  <2>1. ~Inside(h, s)'
    BY <1>3, <1>t, <1>i DEF Kill
  <2> QED  BY <1>3, <1>a, <2>1 DEF Kill, disk
<1>x. ASSUME s # hook[h].sid, hook'[h] = Idle \/ hook'[h].sid = hook[h].sid
      PROVE  ~Inside(h, s)'
  BY <1>x, <1>i DEF Inside
<1>4. CASE Steal(h)
  <2>1. hook[h] \in Running
    BY <1>4, <1>b DEF Steal, At
  <2>2. ~Inside(h, s)'
    BY <1>4, <2>1, <1>t DEF Steal, Go, Inside, At, Running
  <2>3. CASE s # hook[h].sid
    BY <1>4, <1>t, <1>a, <2>2, <2>3 DEF Steal
  <2>4. CASE s = hook[h].sid
    <3>1. SUFFICES ASSUME ~breach'[s] PROVE Section(s)'
      BY DEF Section
    <3>2. ~breach[s] /\ ~LiveHolder(s)
      BY <1>4, <1>t, <2>4, <3>1 DEF Steal, LiveHolder
    <3>3. \A q \in Hooks : ~Inside(q, s)'
      BY <1>s, <1>o, <2>2, <3>2, NobodyInside
    <3>4. UNCHANGED <<file, pulls, optedOut>>
      BY <1>4 DEF Steal
    <3> QED  BY <1>s, <3>2, <3>3, <3>4 DEF Section, Holds
  <2> QED  BY <2>3, <2>4
<1>5. CASE Mkdir(h)
  <2>1. hook[h] \in Running
    BY <1>5, <1>b DEF Mkdir, At
  <2>2. /\ hook'[h].at = Entry(h) /\ hook'[h].sid = hook[h].sid
        /\ hook'[h].held /\ hook'[h].job = hook[h].job
    BY <1>5, <2>1, <1>t DEF Mkdir, Running
  <2>3. CASE s # hook[h].sid
    BY <1>5, <1>t, <1>a, <1>x, <2>2, <2>3 DEF Mkdir, ghosts
  <2>4. CASE s = hook[h].sid
    <3>1. SUFFICES ASSUME ~breach'[s] PROVE Section(s)'
      BY DEF Section
    <3>2. ~breach[s] /\ lock[s] = None /\ UNCHANGED <<file, pulls, optedOut>>
      BY <1>5, <2>4, <3>1 DEF Mkdir, Free, ghosts
    <3>3. \A q \in Hooks : Inside(q, s)' => q = h
      BY <1>s, <1>o, <3>2, NobodyInside
    <3>4. lock'[s] = [by |-> h, old |-> FALSE]
      BY <1>5, <1>t, <2>4 DEF Mkdir
    <3>5. lock'[s] # None /\ lock'[s].by = h
      <4>1. [by |-> h, old |-> FALSE] \in Locks
        BY DEF Locks
      <4>2. None \notin Locks
        BY NoneAssumption
      <4>3. lock'[s].by = h
        BY <3>4
      <4> QED  BY <3>4, <4>1, <4>2, <4>3
    <3>6. Holds(s)'
      BY <2>2, <3>3, <3>5 DEF Holds
    <3>7. Sees(hook'[h], file'[s])
      BY <2>2 DEF Sees, Entry
    <3> QED  BY <1>s, <3>2, <3>3, <3>6, <3>7 DEF Section
  <2> QED  BY <2>3, <2>4
<1>6. CASE GiveUp(h)
  <2>1. hook[h] \in Running
    BY <1>6, <1>b DEF GiveUp, At
  <2>2. hook'[h].sid = hook[h].sid
    BY <1>6, <2>1, <1>t DEF GiveUp, Go, Running
  <2>3. CASE s # hook[h].sid
    BY <1>6, <1>t, <1>a, <1>x, <2>2, <2>3 DEF GiveUp, disk
  <2>4. CASE s = hook[h].sid
    <3>1. breach'[s]
      BY <1>6, <1>t, <2>4 DEF GiveUp
    <3> QED  BY <3>1 DEF Section
  <2> QED  BY <2>3, <2>4
<1>r. ASSUME Inside(h, s), Inside(h, s)', hook'[h].held = hook[h].held,
             ~breach[s] => Sees(hook'[h], file[s]),
             UNCHANGED <<file, lock, pulls, optedOut, breach>>
      PROVE  Section(s)'
  <2>1. SUFFICES ASSUME ~breach'[s] PROVE Section(s)'
    BY DEF Section
  <2>2. /\ \A q \in Hooks : Inside(q, s)' => q = h
        /\ hook[h].held /\ lock[s] # None /\ lock[s].by = h
    BY <1>r, <1>s, <1>o, <2>1, Alone
  <2> QED  BY <1>r, <1>s, <2>1, <2>2 DEF Section, Holds
<1>7. CASE ReadState(h)
  <2>1. hook[h] \in Running /\ hook[h].at = "state" /\ hook[h].job \in {"pull", "remind"}
    BY <1>7, <1>b, <1>t DEF ReadState, At, Employed
  <2>k. UNCHANGED <<file, lock, pulls, optedOut, breach>>
    BY <1>7 DEF ReadState, hookKeeps, disk, ghosts
  <2>2. hook'[h].sid = hook[h].sid /\ hook'[h].held = hook[h].held
    BY <1>7, <2>1, <1>t DEF ReadState, Running
  <2>3. CASE s # hook[h].sid
    BY <2>k, <1>a, <1>x, <2>2, <2>3
  <2>4. CASE s = hook[h].sid
    <3>1. \/ hook'[h].at = "unlock"
          \/ /\ hook'[h].at = "merge" /\ hook'[h].state = Decided(file[s])
             /\ hook'[h].job = hook[h].job
             /\ ~(hook[h].job = "remind" /\ file[s].continues >= MaxContinues)
      BY <1>7, <2>1, <2>4, <1>t DEF ReadState, Running
    <3>2. Inside(h, s) /\ Inside(h, s)'
      BY <2>1, <2>2, <2>4, <3>1 DEF Inside, At
    <3>3. file[s].continues \in Nat
      BY <1>t DEF Files
    <3>4. Sees(hook'[h], file[s])
      BY <3>1, <3>3, BudgetAssumption DEF Sees
    <3> QED  BY <1>r, <2>k, <2>2, <3>2, <3>4
  <2> QED  BY <2>3, <2>4
<1>8. CASE ReadBase(h)
  <2>1. hook[h] \in Running /\ hook[h].at = "merge"
    BY <1>8, <1>b DEF ReadBase, At
  <2>k. UNCHANGED <<file, lock, pulls, optedOut, breach>>
    BY <1>8 DEF ReadBase, hookKeeps, disk, ghosts
  <2>2. /\ hook'[h].sid = hook[h].sid /\ hook'[h].held = hook[h].held /\ hook'[h].at = "write"
        /\ hook'[h].job = hook[h].job /\ hook'[h].state = hook[h].state
        /\ hook'[h].base = file[hook[h].sid]
    BY <1>8, <2>1, <1>t DEF ReadBase, Running
  <2>3. CASE s # hook[h].sid
    BY <2>k, <1>a, <1>x, <2>2, <2>3
  <2>4. CASE s = hook[h].sid
    <3>2. Inside(h, s) /\ Inside(h, s)'
      BY <2>1, <2>2, <2>4 DEF Inside, At
    <3>4. ~breach[s] => Sees(hook'[h], file[s])
      BY <1>s, <2>1, <2>2, <2>4, <3>2 DEF Sees, Section
    <3> QED  BY <1>r, <2>k, <2>2, <3>2, <3>4
  <2> QED  BY <2>3, <2>4
<1>9. CASE Write(h)
  <2>1. hook[h] \in Running /\ hook[h].at = "write" /\ hook[h].job \in Jobs
    BY <1>9, <1>b, <1>t DEF Write, At, Employed, Working
  <2>2. /\ hook[h].sid \in Sessions /\ hook[h].state \in Decisions /\ hook[h].done \in 0..Steps
    BY <2>1 DEF Running
  <2> DEFINE patch == Patch(hook[h].job, hook[h].state, hook[h].done)
             t == hook[h].sid
  <2>3. /\ hook'[h].sid = t /\ hook'[h].held = hook[h].held
        /\ \/ hook'[h].at = "unlock"
           \/ hook'[h].at = "merge" /\ hook'[h].job = "calm"
    BY <1>9, <2>1, <1>t DEF Write, Running
  <2>4. UNCHANGED <<lock, breach>>
    BY <1>9 DEF Write
  <2>5. /\ file' = [file EXCEPT ![t] = Merged(hook[h].base, patch)]
        /\ pulls' = IF breach[t] \/ "continues" \notin DOMAIN patch THEN pulls
                    ELSE [pulls EXCEPT ![t] = @ + 1]
        /\ optedOut' = IF breach[t] \/ "standdown" \notin DOMAIN patch THEN optedOut
                       ELSE [optedOut EXCEPT ![t] = patch.standdown]
    BY <1>9 DEF Write
  <2> HIDE DEF patch
  <2>6. CASE s # t
    <3>1. file'[s] = file[s] /\ pulls'[s] = pulls[s] /\ optedOut'[s] = optedOut[s]
      BY <1>t, <2>2, <2>5, <2>6
    <3> QED  BY <1>a, <1>x, <2>3, <2>4, <2>6, <3>1
  <2>7. CASE s = t
    <3>1. SUFFICES ASSUME ~breach'[s] PROVE Section(s)'
      BY DEF Section
    <3>2. ~breach[s] /\ Inside(h, s)
      BY <2>1, <2>4, <2>7, <3>1 DEF Inside, At
    <3>3. /\ \A q \in Hooks : Inside(q, s)' => q = h
          /\ hook'[h].held /\ lock'[s] # None /\ lock'[s].by = h
      BY <1>s, <1>o, <2>3, <2>4, <3>2, Alone
    <3>4. Sees(hook'[h], file'[s])
      BY <2>3 DEF Sees
    <3>5. /\ hook[h].base = file[s]
          /\ hook[h].job \in {"pull", "remind"} => hook[h].state = Decided(file[s])
          /\ hook[h].job = "remind" => file[s].continues < MaxContinues
          /\ Accounts(file[s], pulls[s], optedOut[s])
      BY <1>s, <2>1, <3>2 DEF Section, Sees
    <3>6. Accounts(Merged(file[s], patch),
                   IF "continues" \in DOMAIN patch THEN pulls[s] + 1 ELSE pulls[s],
                   IF "standdown" \in DOMAIN patch THEN patch.standdown ELSE optedOut[s])
      BY <1>t, <2>1, <2>2, <3>5, JobAccounts DEF patch
    <3>7. /\ file'[s] = Merged(file[s], patch)
          /\ pulls'[s] = IF "continues" \in DOMAIN patch THEN pulls[s] + 1 ELSE pulls[s]
          /\ optedOut'[s] = IF "standdown" \in DOMAIN patch THEN patch.standdown ELSE optedOut[s]
      BY <1>t, <2>5, <2>7, <3>2, <3>5
    <3> QED  BY <3>3, <3>4, <3>6, <3>7 DEF Section, Holds
  <2> QED  BY <2>6, <2>7
<1>10. CASE Unlock(h)
  <2>1. hook[h] \in Running /\ hook[h].at = "unlock"
    BY <1>10, <1>b DEF Unlock, At
  <2>2. ~Inside(h, s)'
    BY <1>10, <1>t, <1>i DEF Unlock
  <2>k. UNCHANGED <<file, pulls, optedOut>>
    BY <1>10 DEF Unlock
  <2>3. CASE s # hook[h].sid
    BY <1>10, <1>t, <1>a, <2>2, <2>3 DEF Unlock
  <2>4. CASE s = hook[h].sid
    <3>1. SUFFICES ASSUME ~breach'[s] PROVE Section(s)'
      BY DEF Section
    <3>2. ~breach[s]
      BY <1>10, <1>t, <2>4, <3>1 DEF Unlock, LiveHolder
    <3>3. \A q \in Hooks : ~Inside(q, s)'
      <4>1. Inside(h, s)
        BY <2>1, <2>4 DEF Inside, At
      <4> QED  BY <1>s, <1>o, <2>2, <3>2, <4>1, Alone
    <3> QED  BY <1>s, <2>k, <3>2, <3>3 DEF Section, Holds
  <2> QED  BY <2>3, <2>4
<1> QED
  BY <1>1, <1>2, <1>3, <1>4, <1>5, <1>6, <1>7, <1>8, <1>9, <1>10 DEF HookStep

LEMMA SectionStep == Shape /\ SectionInv /\ [Next]_vars => SectionInv'
<1> SUFFICES ASSUME Shape, SectionInv, [Next]_vars, NEW s \in Sessions PROVE Section(s)'
  BY DEF SectionInv
<1>s. Section(s)
  BY DEF SectionInv
<1>1. CASE Command
  BY <1>1, SectionCommand DEF SectionInv
<1>2. ASSUME NEW h \in Hooks, HookStep(h) \/ Kill(h) PROVE Section(s)'
  BY <1>2, SectionHook
<1>3. ASSUME NEW t \in Sessions, GrowOld(t) PROVE Section(s)'
  <2>1. UNCHANGED <<file, hook, pulls, optedOut, breach>>
    BY <1>3 DEF GrowOld
  <2>2. lock[s] # None => lock'[s] # None /\ lock'[s].by = lock[s].by
    <3>1. CASE s # t
      BY <1>3, <3>1 DEF GrowOld, Shape
    <3>2. CASE s = t
      <4>1. lock[s] \in Locks /\ lock'[s] = [lock[s] EXCEPT !.old = TRUE]
        BY <1>3, <3>2 DEF GrowOld, Shape
      <4>2. lock'[s] \in Locks /\ lock'[s].by = lock[s].by
        BY <4>1 DEF Locks
      <4> QED  BY <4>2, NoneAssumption
    <3> QED  BY <3>1, <3>2
  <2>3. \A q \in Hooks : Inside(q, s)' = Inside(q, s)
    BY <2>1 DEF Inside, At
  <2> QED  BY <1>s, <2>1, <2>2, <2>3 DEF Section, Holds
<1>4. CASE UNCHANGED vars
  BY <1>4, <1>s, Undisturbed DEF vars, disk, ghosts
<1> QED  BY <1>1, <1>2, <1>3, <1>4 DEF Next

LEMMA Inductive == Spec => [](Shape /\ SectionInv)
BY ShapeInit, ShapeStep, SectionInit, SectionStep, PTL DEF Spec

(* stop.js pulls a session back at most MAX_STOP_CONTINUES times and its    *)
(* file accounts for every pull, unless the section was entered twice.      *)
THEOREM EveryPullCounted == Spec => []PullsAccounted
<1>1. Shape /\ SectionInv => PullsAccounted
  BY DEF SectionInv, Section, Accounts, PullsAccounted
<1> QED  BY <1>1, Inductive, PTL

(* And a session is given up for its strikes only when its pulls are spent: *)
(* with the two pulls of MAX_STOP_CONTINUES (hook-lib.js) the second strike *)
(* comes after the second pull; with three it would come before the third.  *)
THEOREM PulledBeforeLetGo ==
  ASSUME MaxContinues <= 2
  PROVE  Spec => []PullsInOrder
<1>1. Shape /\ SectionInv => PullsInOrder
  <2> SUFFICES ASSUME Shape, SectionInv, NEW s \in Sessions, ~breach[s]
               PROVE  /\ file[s].continues = pulls[s] /\ pulls[s] <= MaxContinues
                      /\ file[s].stuck => file[s].continues = MaxContinues
    BY DEF PullsInOrder, PullsAccounted, StuckOnlyWhenSpent
  <2>1. Accounts(file[s], pulls[s], optedOut[s]) /\ pulls[s] \in Nat
    BY DEF SectionInv, Section, Shape
  <2> QED  BY <2>1, BudgetAssumption DEF Accounts, Spent
<1> QED  BY <1>1, Inductive, PTL

(* The standdown flag is the session's last word, whatever stop or claim    *)
(* runs next to the prompt hook that writes it.                             *)
THEOREM LastWordKept == Spec => []StanddownKept
<1>1. Shape /\ SectionInv => StanddownKept
  BY DEF SectionInv, Section, Accounts, StanddownKept
<1> QED  BY <1>1, Inductive, PTL
=============================================================================
