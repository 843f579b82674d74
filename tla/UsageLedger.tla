----------------------------- MODULE UsageLedger -----------------------------
(***************************************************************************)
(* The ledger of what isolated reviews burn (src/core/cost.js, under the    *)
(* mutex of core/sandbox-usage-lock.js).  Two kinds of process append to    *)
(* it: the review itself at its end (core/review.js), and any number of     *)
(* harvests (scripts/harvest-sandbox-usage.mjs).  Both read the database of *)
(* a run, in several queries with the engine writing in between, and bring  *)
(* a total; what is appended is what the ledger does not have yet.          *)
(*                                                                         *)
(* One run of one project; its directory may be removed and made again      *)
(* under the same name (a build).  Tokens and points are units of a model;  *)
(* a digest of session ids is the set of them.  The mutex is of the         *)
(* operating system, so that what is done under it is one step.  Left out:  *)
(* the receipt a refused append leaves, which is only shown.  Assumed: a    *)
(* run is not made again between two queries of one reader.                 *)
(***************************************************************************)
EXTENDS Naturals, Sequences, FiniteSets, Functions

CONSTANTS
  Models,
  MaxSessions,   \* bound: sessions of a build
  MaxBuilds,     \* bound: directories of the run
  MaxBurns,      \* bound: units burnt
  MaxHarvests,   \* bound: harvests begun
  MaxTears,      \* bound: appends killed halfway
  Unknown

ASSUME UsageAssumption ==
  /\ MaxSessions \in Nat /\ MaxBuilds \in Nat \ {0} /\ MaxBurns \in Nat /\ MaxHarvests \in Nat /\ MaxTears \in Nat
  /\ IsFiniteSet(Models)

VARIABLES
  model_usage,   \* db.sqlite: per build and session, what each model used
  build,         \* the directory that is there
  usage_lines,   \* lzy-usage/*.jsonl, of this run
  torn,          \* with half a line in it
  reading,       \* what every reader has read
  told,          \* history: per build, the most that was reported to be in the ledger
  burns, harvests, tears   \* how often, so far

usage_vars == <<model_usage, build, usage_lines, torn, reading, told, burns, harvests, tears>>
bounds == <<burns, harvests, tears>>

Builds == 1..MaxBuilds
Sids == 1..MaxSessions      \* in the order in which they begin
Usage == [Models -> 0..MaxBurns]
NoUsage == [m \in Models |-> 0]
SessionIds == Builds \X Sids
Instance == {Unknown} \cup SUBSET SessionIds

Review == 0
Harvests == 1..MaxHarvests      \* in the order in which they are called
UsageReaders == Harvests \cup {Review}

(* A line of the ledger, and a snapshot on its way there; only a harvest     *)
(* has a watermark.  The build is history, the ledger does not know it.     *)
Line == [instance : Instance, watermark : 0..MaxBurns \cup {Unknown}, usage : Usage, build : Builds]

AtRest == [at |-> "rest"]
Snapshot == [at : {"use", "ids", "plan", "append"}, todo : SUBSET Sids, line : Line]
Begun(place, todo, usage, watermark) ==
  [at |-> place, todo |-> todo,
   line |-> [instance |-> Unknown, watermark |-> watermark, usage |-> usage, build |-> build]]

UsageTypeOK ==
  /\ model_usage \in [Builds -> [Sids -> Usage]]
  /\ build \in Builds /\ usage_lines \in Seq(Line) /\ torn \in BOOLEAN
  /\ reading \in [UsageReaders -> {AtRest, [at |-> "begin"]} \cup Snapshot]
  /\ told \in [Builds -> Usage] /\ burns \in 0..MaxBurns
  /\ harvests \in 0..MaxHarvests /\ tears \in 0..MaxTears

UsageInit ==
  /\ model_usage = [b \in Builds |-> [s \in Sids |-> NoUsage]]
  /\ build = 1 /\ usage_lines = <<>> /\ torn = FALSE
  /\ reading = [p \in UsageReaders |-> IF p = Review THEN [at |-> "begin"] ELSE AtRest]
  /\ told = [b \in Builds |-> NoUsage] /\ burns = 0 /\ harvests = 0 /\ tears = 0

-----------------------------------------------------------------------------
(* The run. *)

Uses(b, m) == [s \in Sids |-> model_usage[b][s][m]]
Burnt(b, m) == SumFunction(Uses(b, m))

(* A request of a session lands in the database, if late. *)
Burn(s, m) ==
  /\ burns < MaxBurns /\ burns' = burns + 1
  /\ \A earlier \in 1..(s - 1) : model_usage[build][earlier] # NoUsage
  /\ model_usage' = [model_usage EXCEPT ![build][s][m] = @ + 1]
  /\ UNCHANGED <<build, usage_lines, torn, reading, told, harvests, tears>>

(* The directory is removed, and a review of the same name begins. *)
Rebuild ==
  /\ build < MaxBuilds /\ build' = build + 1
  /\ \A p \in UsageReaders : reading[p].at \notin {"use", "ids"}
  /\ reading' = [reading EXCEPT ![Review] = [at |-> "begin"]]
  /\ UNCHANGED <<model_usage, usage_lines, torn, told, bounds>>

-----------------------------------------------------------------------------
(* What is read. *)

sandboxUsageSids == {s \in Sids : model_usage[build][s] # NoUsage}

(* The digest of the sessions; of none, or of a query that failed, null. *)
InstanceNow == IF sandboxUsageSids = {} THEN Unknown ELSE {build} \X sandboxUsageSids

To_(p, place) == reading' = [reading EXCEPT ![p].at = place]
UsageRest(p) == reading' = [reading EXCEPT ![p] = AtRest]

Worth(usage) == SumFunction(usage)

(* A harvest: one query for the use, which is also its watermark.  A run    *)
(* without any is passed over.                                              *)
HarvestUse(p) ==
  LET usage == [m \in Models |-> Burnt(build, m)] IN
  /\ p = harvests + 1 /\ Worth(usage) > 0
  /\ harvests' = harvests + 1
  /\ reading' = [reading EXCEPT ![p] = Begun("ids", {}, usage, Worth(usage))]
  /\ UNCHANGED <<model_usage, build, usage_lines, torn, told, burns, tears>>

(* A review: the sessions that are there, and the one that said its name;    *)
(* then the use of each.                                                    *)
ReviewBegin ==
  /\ reading[Review].at = "begin"
  /\ \E known \in {sandboxUsageSids, {}}, named \in {{}} \cup {{s} : s \in Sids} :
       reading' = [reading EXCEPT ![Review] = Begun("use", known \cup named, NoUsage, Unknown)]
  /\ UNCHANGED <<model_usage, build, usage_lines, torn, told, bounds>>

querySessionPoints(s) ==
  LET was == reading[Review] IN
  /\ was.at = "use" /\ s \in was.todo
  /\ reading' = [reading EXCEPT
       ![Review].todo = @ \ {s},
       ![Review].line.usage = [m \in Models |-> @[m] + model_usage[build][s][m]]]
  /\ UNCHANGED <<model_usage, build, usage_lines, torn, told, bounds>>

(* Last, both read which sessions there are.  A review without use has no    *)
(* line; a harvest looks through the ledger first.                          *)
ReadSids(p) ==
  LET was == reading[p] IN
  /\ was.at = "ids" \/ (was.at = "use" /\ was.todo = {})
  /\ IF Worth(was.line.usage) = 0 THEN UsageRest(p)
     ELSE \E instance \in {InstanceNow, Unknown} :
            reading' = [reading EXCEPT ![p].line.instance = instance,
                                       ![p].at = IF p = Review THEN "append" ELSE "plan"]
  /\ UNCHANGED <<model_usage, build, usage_lines, torn, told, bounds>>

-----------------------------------------------------------------------------
(* What the ledger has of it: sandboxUsageSnapshotDelta. *)

Lineage(line, old) ==
  CASE old.instance = line.instance -> "same"
    [] Unknown \in {old.instance, line.instance} /\ old.instance # line.instance -> "unproven"
    [] OTHER -> IF old.instance \subseteq line.instance THEN "same"
                ELSE IF old.instance \cap line.instance = {} THEN "other" ELSE "unproven"

(* Mutants: a line of the run is its past whatever the build; only a line of *)
(* exactly the same sessions is.                                            *)
Prior_run(line) == DOMAIN usage_lines
Prior_exact(line) == {i \in DOMAIN usage_lines : usage_lines[i].instance = line.instance}

Prior(line) == {i \in DOMAIN usage_lines : Lineage(line, usage_lines[i]) = "same"}

Unproven(line) == \E i \in DOMAIN usage_lines : Lineage(line, usage_lines[i]) = "unproven"

LineUses(m) == [i \in DOMAIN usage_lines |-> usage_lines[i].usage[m]]
Existing(line, m) == SumFunctionOnSet(LineUses(m), Prior(line))

Advanced(line) == \E m \in Models : line.usage[m] > Existing(line, m)
Regressed(line) == \E m \in Models : line.usage[m] < Existing(line, m)

(* The event is in the ledger already, with less. *)
SameEvent(line) ==
  \E i \in DOMAIN usage_lines :
    usage_lines[i].instance = line.instance /\ usage_lines[i].watermark = line.watermark

Weighed(line) ==
  CASE torn \/ Unproven(line) \/ (Advanced(line) /\ Regressed(line)) -> "refused"
    [] ~torn /\ ~Unproven(line) /\ ~Advanced(line) -> "covered"
    [] OTHER -> "more"

Delta(line) ==
  [line EXCEPT !.usage = [m \in Models |->
     IF @[m] > Existing(line, m) THEN @[m] - Existing(line, m) ELSE 0]]

Reported(line) ==
  told' = IF line.instance = Unknown THEN told
          ELSE [told EXCEPT ![line.build] =
                  [m \in Models |-> IF @[m] > line.usage[m] THEN @[m] ELSE line.usage[m]]]

(* The preview of a harvest, without the lock; a refusal ends the harvest. *)
Plan(p) ==
  LET line == reading[p].line IN
  /\ reading[p].at = "plan"
  /\ IF Weighed(line) = "more" THEN To_(p, "append") /\ UNCHANGED told
     ELSE UsageRest(p) /\ IF Weighed(line) = "covered" THEN Reported(line) ELSE UNCHANGED told
  /\ UNCHANGED <<model_usage, build, usage_lines, torn, bounds>>

(* appendSandboxUsageSnapshot: under the lock all of it is looked at again. *)
Append_usage(p) ==
  LET line == reading[p].line IN
  /\ reading[p].at = "append"
  /\ \/ Weighed(line) = "more" /\ ~SameEvent(line)
        /\ usage_lines' = Append(usage_lines, Delta(line)) /\ Reported(line)
     \/ Weighed(line) = "covered" /\ Reported(line) /\ UNCHANGED usage_lines
  /\ UsageRest(p)
  /\ UNCHANGED <<model_usage, build, torn, bounds>>

(* Refused, or the lock was busy for too long: nothing is appended. *)
AppendRefused(p) ==
  /\ reading[p].at = "append"
  /\ UsageRest(p)
  /\ UNCHANGED <<model_usage, build, usage_lines, torn, told, bounds>>

(* Killed in the middle of the line. *)
Tear(p) ==
  /\ reading[p].at = "append" /\ tears < MaxTears
  /\ Weighed(reading[p].line) = "more" /\ ~SameEvent(reading[p].line)
  /\ torn' = TRUE /\ tears' = tears + 1
  /\ UsageRest(p)
  /\ UNCHANGED <<model_usage, build, usage_lines, told, burns, harvests>>

(* A person takes half a line out. *)
RepairLedger ==
  /\ torn /\ torn' = FALSE
  /\ UNCHANGED <<model_usage, build, usage_lines, reading, told, bounds>>

-----------------------------------------------------------------------------
UsageNext ==
  \/ \E s \in Sids : querySessionPoints(s) \/ \E m \in Models : Burn(s, m)
  \/ \E p \in Harvests : HarvestUse(p) \/ Plan(p)
  \/ \E p \in UsageReaders : ReadSids(p) \/ Append_usage(p) \/ AppendRefused(p) \/ Tear(p)
  \/ Rebuild \/ ReviewBegin \/ RepairLedger

UsageSpec == UsageInit /\ [][UsageNext]_usage_vars

-----------------------------------------------------------------------------
InLedger(b, m) ==
  SumFunctionOnSet(LineUses(m), {i \in DOMAIN usage_lines : usage_lines[i].build = b})

(* What a run burnt is never in the ledger twice, although reviews and       *)
(* harvests bring totals that overlap, read in pieces while the run goes    *)
(* on, and bring them late.                                                 *)
NothingTwice == \A b \in Builds, m \in Models : InLedger(b, m) <= Burnt(b, m)

(* A reader that is told its total is in the ledger, appended or there       *)
(* already, can rely on it: also when a run of the same name left lines     *)
(* there before.  A total whose sessions could not be read is not promised. *)
NothingLost == \A b \in Builds, m \in Models : told[b][m] <= InLedger(b, m)

(* The ledger has what was used once. *)
UseCountedOnce == NothingTwice /\ NothingLost

=============================================================================
