----------------------------- MODULE ReviewRun -----------------------------
(***************************************************************************)
(* An independent review and the record it leaves: runReview of             *)
(* core/review.js.                                                          *)
(*                                                                         *)
(* A run notes the identity of the candidate; under the lock it reserves a  *)
(* number, writes the input of the review and takes a snapshot; it lets a   *)
(* reviewer session work on the snapshot for minutes, compares the          *)
(* candidate with what it was, and under the lock again writes the findings *)
(* it made (Findings) and its record; last, it charges the ledger           *)
(* (ReviewBudget, which also holds what is looked at before the start).  Several runs may be under way, candidates are        *)
(* committed meanwhile, a run may be killed at any point, and the lock may  *)
(* be busy when it returns.                                                 *)
(*                                                                         *)
(* What a reviewer says is any set of findings; how it is isolated is the   *)
(* module ReviewSandbox.  Time is the number of runs that   *)
(* have ended: all that times are compared for.                             *)
(***************************************************************************)
EXTENDS Naturals, FiniteSets

CONSTANTS
  Slugs,        \* names of goals
  Duties,       \* review duties
  Fps,          \* fingerprints of blocking findings
  Reviewers,    \* processes that run lzy review
  MaxAttempt,   \* bound: attempts of a goal
  MaxHead,      \* bound: commits
  MaxRuns,      \* bound: runs reserved
  MaxFaults,    \* bound: reviewers killed, and refused by the lock at their end
  None

ASSUME ReviewAssumption ==
  /\ MaxAttempt \in Nat \ {0} /\ MaxHead \in Nat \ {0} /\ MaxRuns \in Nat \ {0} /\ MaxFaults \in Nat
  /\ IsFiniteSet(Reviewers) /\ Reviewers # {}
  /\ None \notin Slugs \cup Duties \cup Fps \cup Reviewers /\ {"review", "recheck"} \cap Fps = {}

VARIABLES
  slot,      \* goal.json: slug and attempt of the goal in the slot
  head,      \* the commit checked out; assumed: a commit that was left does not come back
  runs,      \* .lazyzcode/review/*.json
  dirs,      \* ids whose run directory exists
  rv,        \* what each reviewer process is doing
  clock,     \* runs ended so far
  faults

run_vars == <<slot, head, runs, dirs, rv, clock, faults>>

-----------------------------------------------------------------------------
Times == 0..(MaxRuns + MaxFaults)
Id == [slug : Slugs, attempt : 1..MaxAttempt, seq : 1..MaxRuns]
Purposes == {"review", "recheck"} \cup Fps    \* a recheck of a contested finding names it

Run == [id : Id, duty : Duties, purpose : Purposes,
        head : 1..MaxHead,       \* candidate: the identity noted before the start
        input : 1..MaxHead,      \* candidate of the input package
        snap : 1..MaxHead,       \* snapshot: the commit git archive unpacked
        at : Times,              \* endedAt
        spawned : BOOLEAN, valid : BOOLEAN, reported : SUBSET Fps]

Idle == [pc |-> "idle"]

Busy == [pc : {"admitted", "packing", "running", "ended", "interrupted", "wired", "saved"}, run : Run]

ReviewTypeOK ==
  /\ slot \in [slug : Slugs, attempt : 1..MaxAttempt] /\ head \in 1..MaxHead
  /\ runs \subseteq Run /\ dirs \subseteq Id /\ clock \in Times /\ faults \in 0..MaxFaults
  /\ rv \in [Reviewers -> {Idle} \cup Busy]

ReviewInit ==
  /\ slot \in [slug : Slugs, attempt : {1}] /\ head = 1
  /\ runs = {} /\ dirs = {} /\ rv = [r \in Reviewers |-> Idle]
  /\ clock = 0 /\ faults = 0

(* Who prepares a run holds the loop lock from the input to the snapshot,   *)
(* and who writes findings and record from the one write to the other;      *)
(* every other locked section is one step.                                  *)
Unlocked == \A r \in Reviewers : rv[r].pc \notin {"packing", "wired"}

NextRunSeq(slug, attempt) ==
  LET seqs == {i.seq : i \in {i \in dirs \cup {n.id : n \in runs} :
                                i.slug = slug /\ i.attempt = attempt}}
  IN  CHOOSE n \in 1..(MaxRuns + 1) : n - 1 \in seqs \cup {0} /\ \A k \in seqs : k < n

-----------------------------------------------------------------------------
(* A goal is taken up again, or one of a new name takes the slot, and the   *)
(* worker commits.                                                          *)
Reattempt ==
  /\ slot.attempt < MaxAttempt
  /\ slot' = [slot EXCEPT !.attempt = @ + 1]
  /\ UNCHANGED <<head, runs, dirs, rv, clock, faults>>

Rename(slug) ==
  /\ slug # slot.slug /\ slot' = [slug |-> slug, attempt |-> 1]
  /\ \A n \in runs : n.id.slug # slug
  /\ \A r \in Reviewers : rv[r] # Idle => rv[r].run.id.slug # slug
  /\ UNCHANGED <<head, runs, dirs, rv, clock, faults>>

Commit ==
  /\ head < MaxHead /\ head' = head + 1
  /\ UNCHANGED <<slot, runs, dirs, rv, clock, faults>>

-----------------------------------------------------------------------------
(* The run. *)

(* The identity of the candidate, which must be committed, is noted. *)
Admit(r, duty, purpose) ==
  /\ rv[r] = Idle
  /\ rv' = [rv EXCEPT ![r] =
       [pc |-> "admitted",
        run |-> [id |-> [slug |-> slot.slug, attempt |-> slot.attempt, seq |-> 1],
                 duty |-> duty, purpose |-> purpose, head |-> head, input |-> head,
                 snap |-> head, at |-> 0, spawned |-> FALSE, valid |-> FALSE, reported |-> {}]]]
  /\ UNCHANGED <<slot, head, runs, dirs, clock, faults>>

reserveRun(run) == [run EXCEPT !.id.seq = NextRunSeq(run.id.slug, run.id.attempt)]

(* What the reviewer is told: facts, among them the candidate as it is now. *)
buildInputPackage(run) == [run EXCEPT !.input = head]

(* git archive HEAD, unpacked. *)
materializeCandidate(run) == [run EXCEPT !.snap = head]

(* Only what an earlier run of the same attempt recorded can leak.          *)
CanLeak(run) ==
  \E n \in runs : n.id.slug = run.id.slug /\ n.id.attempt = run.id.attempt /\ n.id.seq < run.id.seq

(* Under the lock: a number and the input.  The worker commits without it.  *)
Pack(r) ==
  /\ rv[r].pc = "admitted" /\ Unlocked
  /\ Cardinality(dirs) < MaxRuns
  /\ LET run == buildInputPackage(reserveRun(rv[r].run)) IN
       /\ dirs' = dirs \cup {run.id}
       /\ rv' = [rv EXCEPT ![r] = [pc |-> "packing", run |-> run]]
  /\ UNCHANGED <<slot, head, runs, clock, faults>>

(* The snapshot is taken, the lock released, and the session started, but   *)
(* for an input that repeats what an earlier run concluded.                 *)
Prepare(r, leaks) ==
  /\ rv[r].pc = "packing"
  /\ leaks => CanLeak(rv[r].run)
  /\ LET run == materializeCandidate(rv[r].run) IN
       rv' = [rv EXCEPT ![r] =
         IF leaks THEN [pc |-> "ended", run |-> [run EXCEPT !.at = clock + 1]]
         ELSE [pc |-> "running", run |-> [run EXCEPT !.spawned = TRUE]]]
  /\ clock' = IF leaks THEN clock + 1 ELSE clock
  /\ UNCHANGED <<slot, head, runs, dirs, faults>>

(* git archive or tar fails: the number is taken, and what is recorded is a *)
(* run that was interrupted.                                                *)
PrepareFailed(r) ==
  /\ rv[r].pc = "packing"
  /\ faults < MaxFaults /\ faults' = faults + 1
  /\ rv' = [rv EXCEPT ![r] = [pc |-> "interrupted", run |-> [@.run EXCEPT !.at = clock + 1]]]
  /\ clock' = clock + 1
  /\ UNCHANGED <<slot, head, runs, dirs>>

(* The lock was busy until the wait ran out: refused, nothing reserved. *)
PrepareRefused(r) ==
  /\ rv[r].pc = "admitted" /\ ~Unlocked
  /\ rv' = [rv EXCEPT ![r] = Idle]
  /\ UNCHANGED <<slot, head, runs, dirs, clock, faults>>

(* Mutant: what is compared is the snapshot. *)
MovedFromSnapshot(run) == head # run.snap

-----------------------------------------------------------------------------
(* What a session may come to.                                              *)

(* An answer is in form when it holds one result block with every field in  *)
(* range and the duty repeated.                                             *)
Ending == {"in_form", "out_of_form", "timeout", "interrupted", "exit_nonzero",
           "unnamed"}

(* An answer out of form is asked for once more, and nothing else is.       *)
Answer(first, second) == IF first = "out_of_form" THEN second ELSE first

(* The transcript of the session: that of its name, or the only one there. *)
Transcripts == {"found", "none"}

(* Whether every path it tells of that exists is inside the run. *)
Reads == {"contained", "breach"}

(* The tree of the snapshot, file by file, afterwards. *)
Trees == {"kept", "touched"}

Session ==
  [answer : {Answer(f, s) : f, s \in Ending}, transcript : Transcripts, reads : Reads, tree : Trees]

Sound(s) ==
  s.answer = "in_form" /\ s.transcript = "found" /\ s.reads = "contained" /\ s.tree = "kept"

Soundness == {Sound(s) : s \in Session}

-----------------------------------------------------------------------------
(* The session is over.  A run whose candidate is another one by now does   *)
(* not count, however sound it was.                                         *)
Moved(run) == head # run.head

Judge(r, sound, reported) ==
  /\ rv[r].pc = "running"
  /\ LET valid == sound /\ ~Moved(rv[r].run) IN
       rv' = [rv EXCEPT ![r] =
         [pc |-> "ended",
          run |-> [rv[r].run EXCEPT !.at = clock + 1, !.valid = valid,
                                    !.reported = IF valid THEN reported ELSE {}]]]
  /\ clock' = clock + 1
  /\ UNCHANGED <<slot, head, runs, dirs, faults>>

(* finishRun: what a valid run found goes to the ledger of findings (the    *)
(* module Findings says how), then the record is written; one lock.         *)
Wire(r) ==
  /\ rv[r].pc \in {"ended", "interrupted"} /\ Unlocked
  /\ rv' = [rv EXCEPT ![r].pc = "wired"]
  /\ UNCHANGED <<slot, head, runs, dirs, clock, faults>>

SaveRun(r) ==
  /\ rv[r].pc = "wired"
  /\ runs' = runs \cup {rv[r].run}
  /\ rv' = [rv EXCEPT ![r].pc = "saved"]
  /\ UNCHANGED <<slot, head, dirs, clock, faults>>

(* The ledger is charged (ReviewBudget), and the run is over. *)
Leave(r) ==
  /\ rv[r].pc = "saved" /\ Unlocked
  /\ rv' = [rv EXCEPT ![r] = Idle]
  /\ UNCHANGED <<slot, head, runs, dirs, clock, faults>>

(* The lock stays busy for longer than a run waits for it.  What a session  *)
(* said is dropped then and the run recorded as interrupted; refused again, *)
(* or without a session, the run leaves no record.  After the record is     *)
(* written only the charge is lost.                                         *)
LockRefused(r) ==
  /\ faults < MaxFaults /\ faults' = faults + 1
  /\ \/ /\ rv[r].pc = "ended" /\ rv[r].run.spawned
        /\ rv' = [rv EXCEPT ![r] =
             [pc |-> "interrupted",
              run |-> [@.run EXCEPT !.valid = FALSE, !.reported = {}, !.at = clock + 1]]]
        /\ clock' = clock + 1
     \/ /\ rv[r].pc \in {"interrupted", "saved"}
        /\ rv' = [rv EXCEPT ![r] = Idle] /\ UNCHANGED clock
     \/ /\ rv[r].pc = "ended" /\ ~rv[r].run.spawned
        /\ rv' = [rv EXCEPT ![r] = Idle] /\ UNCHANGED clock
  /\ UNCHANGED <<slot, head, runs, dirs>>

ReviewerKilled(r) ==
  /\ rv[r] # Idle /\ faults < MaxFaults
  /\ rv' = [rv EXCEPT ![r] = Idle] /\ faults' = faults + 1
  /\ UNCHANGED <<slot, head, runs, dirs, clock>>

-----------------------------------------------------------------------------
(* A run that counts as a review of a candidate looked at that candidate,   *)
(* and was told of it, although the identity is noted, put in the input, the *)
(* snapshot taken and the identity read again at four moments with the      *)
(* worker committing between them.                                          *)
ReviewedWhatItNames == \A n \in runs : n.valid => n.snap = n.head /\ n.input = n.head

=============================================================================
