--------------------------- MODULE ReviewSandbox ---------------------------
(***************************************************************************)
(* The isolated home of a review and the credentials in it:                 *)
(* core/review-sandbox.js, and what runReview of core/review.js does with   *)
(* it.                                                                      *)
(*                                                                         *)
(* A review session needs credentials in its home: a copy of the provider   *)
(* configuration cut down to the legs the user allows, a copy of the        *)
(* built-in one, or, where no operating system guards the home, the         *)
(* account of the user.  They are burnt before the record is written.  A    *)
(* marker in the run's directory is written before the first of them, so    *)
(* that what a killed review leaves is seen (lzy doctor) and can be cleaned *)
(* (lzy review cleanup).                                                    *)
(*                                                                         *)
(* Every process may be killed between two steps, files may refuse to be    *)
(* removed, the number of a dead process may be given to another one, and a *)
(* write of the marker is two steps: it is cut short before it is whole.    *)
(***************************************************************************)
EXTENDS Naturals

CONSTANTS
  Reviews,    \* runs, each with the process that makes it
  Cleaners,   \* processes of lzy review cleanup
  Legs,       \* providers of the user's configuration
  Nobody

ASSUME ReviewsAssumption == Reviews \cap Cleaners = {} /\ Nobody \notin Reviews \cup Cleaners

VARIABLES
  host,     \* the machine: what there is to authenticate with
  at,       \* where each process stands
  job,      \* the run a cleaner was asked to clean
  files,    \* the credentials in the home of each run
  marker,   \* sandbox-cleanup.json of each run
  failed,   \* runs whose list of failures is not empty
  outcome,  \* how each process's last cleaning went
  record    \* the record of each run: "none", "valid" or "invalid"

sandboxVars == <<host, at, job, files, marker, failed, outcome, record>>

-----------------------------------------------------------------------------
Copies == {"personal", "builtin", "oauth"}

Host ==
  [seatbelt : BOOLEAN,                                  \* reviewSandboxCapability
   personal : {"absent", "unreadable", "rules"},        \* its provider configuration
   usable : SUBSET Legs, allow : SUBSET Legs,           \* enabled and with a key; allowed
   builtin : {"absent", "stale", "unrecognized", "whole"},  \* the built-in one
   oauth : BOOLEAN]                                     \* an account is logged in

Outcomes == {"clean", "failed"}

(* torn: what was there is gone, and what is to be there is not yet. *)
Marker == [state : {"absent", "torn", "pending"} \cup Outcomes,
           owner : Reviews \cup Cleaners \cup {Nobody}]

Says(state, owner) == [state |-> state, owner |-> owner]

Standing == {"idle", "refused", "admitted", "registering", "registered", "configured", "running",
             "over", "cleaning", "unlinked", "marking", "burnt", "gone", "reused"}

SandboxTypeOK ==
  /\ host \in Host
  /\ at \in [Reviews \cup Cleaners -> Standing]
  /\ job \in [Cleaners -> Reviews \cup {Nobody}]
  /\ files \in [Reviews -> SUBSET Copies]
  /\ marker \in [Reviews -> Marker] /\ failed \subseteq Reviews
  /\ outcome \in [Reviews \cup Cleaners -> Outcomes]
  /\ record \in [Reviews -> {"none", "valid", "invalid"}]

SandboxInit ==
  /\ host \in Host
  /\ at = [p \in Reviews \cup Cleaners |-> "idle"] /\ job = [q \in Cleaners |-> Nobody]
  /\ files = [r \in Reviews |-> {}] /\ marker = [r \in Reviews |-> Says("absent", Nobody)]
  /\ failed = {} /\ outcome = [p \in Reviews \cup Cleaners |-> "clean"]
  /\ record = [r \in Reviews |-> "none"]

-----------------------------------------------------------------------------
(* The tier, and whether a review may start. *)

(* The legs that go into the sandbox: none unless it is written down which. *)
filterProviderConfig == host.usable \cap host.allow

resolveSandboxProviderConfig ==
  IF host.personal = "rules" THEN filterProviderConfig ELSE {}

ReviewTier ==
  IF host.seatbelt /\ resolveSandboxProviderConfig # {} THEN "os-sandbox" ELSE "app-layer"

detectHeadlessAuth ==
  IF host.builtin = "absent" THEN host.personal # "absent" ELSE host.builtin # "stale"

OauthFallback == host.oauth /\ ReviewTier = "app-layer"

Admissible == host.personal # "unreadable" /\ (detectHeadlessAuth \/ OauthFallback)

(* What a running session finds in its home. *)
Given ==
  IF ReviewTier = "os-sandbox" THEN {"personal", "builtin"}
  ELSE IF resolveSandboxProviderConfig # {} THEN {"personal"}
  ELSE IF OauthFallback THEN {"oauth"} ELSE {}

Move(p, from, to) == at[p] = from /\ at' = [at EXCEPT ![p] = to]

Authenticate(r) ==
  /\ Move(r, "idle", IF Admissible THEN "admitted" ELSE "refused")
  /\ UNCHANGED <<host, job, files, marker, failed, outcome, record>>

-----------------------------------------------------------------------------
(* The review. *)

registerReviewCleanup(r) ==
  \/ /\ Move(r, "admitted", "registering")
     /\ marker' = [marker EXCEPT ![r] = Says("torn", Nobody)]
     /\ UNCHANGED <<host, job, files, failed, outcome, record>>
  \/ /\ Move(r, "registering", "registered")
     /\ marker' = [marker EXCEPT ![r] = Says("pending", r)]
     /\ UNCHANGED <<host, job, files, failed, outcome, record>>

writeSandboxProviderConfig(r) ==
  /\ Move(r, "registered", "configured")
  /\ files' = [files EXCEPT ![r] = IF resolveSandboxProviderConfig # {} THEN {"personal"} ELSE {}]
  /\ UNCHANGED <<host, job, marker, failed, outcome, record>>

(* The copy of the built-in configuration; then policy, proxy and engine.   *)
(* Any of it may fail, and a configuration nobody recognizes always does.   *)
prepareReviewProviderRuntime(r) ==
  /\ ReviewTier = "os-sandbox"
  /\ \/ /\ Move(r, "configured", "running") /\ host.builtin # "unrecognized"
        /\ files' = [files EXCEPT ![r] = @ \cup {"builtin"}] /\ UNCHANGED failed
     \/ /\ Move(r, "configured", "over") /\ failed' = failed \cup {r}
        /\ \/ UNCHANGED files
           \/ host.builtin # "unrecognized" /\ files' = [files EXCEPT ![r] = @ \cup {"builtin"}]
  /\ UNCHANGED <<host, job, marker, outcome, record>>

copyOAuthCredential(r) ==
  /\ ReviewTier = "app-layer"
  /\ IF resolveSandboxProviderConfig = {} /\ host.oauth
     THEN \/ /\ Move(r, "configured", "running") /\ UNCHANGED failed
             /\ files' = [files EXCEPT ![r] = @ \cup {"oauth"}]
          \/ /\ Move(r, "configured", "over") /\ UNCHANGED files
             /\ failed' = failed \cup {r}
     ELSE Move(r, "configured", "running") /\ UNCHANGED <<files, failed>>
  /\ UNCHANGED <<host, job, marker, outcome, record>>

SessionOver(r) ==
  /\ Move(r, "running", "over")
  /\ UNCHANGED <<host, job, files, marker, failed, outcome, record>>

(* Something fails that is not foreseen. *)
Throws(r) ==
  /\ at[r] \in {"registering", "registered", "running"}
  /\ at' = [at EXCEPT ![r] = "over"] /\ failed' = failed \cup {r}
  /\ UNCHANGED <<host, job, files, marker, outcome, record>>

(* Burnt once before the record is written, and once more at the end. *)
StartsBurning(r) ==
  /\ Move(r, "over", "cleaning")
  /\ UNCHANGED <<host, job, files, marker, failed, outcome, record>>

(* A review whose credentials were not all burnt is not valid. *)
SaveRecord(r) ==
  /\ Move(r, "burnt", "cleaning")
  /\ record' = [record EXCEPT ![r] =
       IF outcome[r] = "clean" /\ r \notin failed THEN "valid" ELSE "invalid"]
  /\ UNCHANGED <<host, job, files, marker, failed, outcome>>

-----------------------------------------------------------------------------
(* cleanupReviewSandbox, by the review itself or by a cleaner. *)

Cleaned(p) == IF p \in Reviews THEN p ELSE job[p]

(* Mutant: a file that could not be removed is not reported. *)
CleanedAnyway(stuck) == "clean"

CleanOutcome(stuck) == IF stuck = {} THEN "clean" ELSE "failed"

Unlink(p) ==
  /\ Move(p, "cleaning", "unlinked")
  /\ \E stuck \in SUBSET files[Cleaned(p)] :
       /\ files' = [files EXCEPT ![Cleaned(p)] = stuck]
       /\ outcome' = [outcome EXCEPT ![p] = CleanOutcome(stuck)]
  /\ UNCHANGED <<host, job, marker, failed, record>>

Finished(p) ==
  IF p \in Cleaners THEN "gone" ELSE IF record[p] = "none" THEN "burnt" ELSE "gone"

(* The marker is written over; where that cannot be begun it stays as it    *)
(* was, and the cleaning has failed.                                        *)
WriteMarker(p) ==
  \/ /\ Move(p, "unlinked", "marking")
     /\ marker' = [marker EXCEPT ![Cleaned(p)] = Says("torn", Nobody)]
     /\ UNCHANGED <<host, job, files, failed, outcome, record>>
  \/ /\ Move(p, "unlinked", Finished(p))
     /\ outcome' = [outcome EXCEPT ![p] = "failed"]
     /\ UNCHANGED <<host, job, files, marker, failed, record>>
  \/ /\ Move(p, "marking", Finished(p))
     /\ marker' = [marker EXCEPT ![Cleaned(p)] = Says(outcome[p], p)]
     /\ UNCHANGED <<host, job, files, failed, outcome, record>>

-----------------------------------------------------------------------------
(* The others. *)

Running(p) == at[p] \notin {"idle", "refused", "gone"}   \* its number answers a signal

(* Mutant: whoever made the run is taken to be gone. *)
AbandonedAnyway(r) == marker[r].owner # Nobody

Abandoned(r) == IF marker[r].owner = Nobody THEN FALSE ELSE ~Running(marker[r].owner)

(* A marker that cannot be read, or whose owner lives, is refused. *)
recoverReviewSandbox(q, r) ==
  /\ at[q] \in {"idle", "gone"} /\ Abandoned(r)
  /\ at' = [at EXCEPT ![q] = "cleaning"] /\ job' = [job EXCEPT ![q] = r]
  /\ UNCHANGED <<host, files, marker, failed, outcome, record>>

Killed(p) ==
  /\ at[p] \notin {"idle", "refused", "gone", "reused"}
  /\ at' = [at EXCEPT ![p] = "gone"]
  /\ UNCHANGED <<host, job, files, marker, failed, outcome, record>>

NumberReused(r) ==
  /\ Move(r, "gone", "reused")
  /\ UNCHANGED <<host, job, files, marker, failed, outcome, record>>

SandboxNext ==
  \/ \E r \in Reviews :
       \/ Authenticate(r) \/ registerReviewCleanup(r) \/ writeSandboxProviderConfig(r)
       \/ prepareReviewProviderRuntime(r) \/ copyOAuthCredential(r)
       \/ SessionOver(r) \/ Throws(r) \/ StartsBurning(r) \/ SaveRecord(r) \/ NumberReused(r)
  \/ \E p \in Reviews \cup Cleaners : Unlink(p) \/ WriteMarker(p) \/ Killed(p)
  \/ \E q \in Cleaners, r \in Reviews : recoverReviewSandbox(q, r)

SandboxSpec == SandboxInit /\ [][SandboxNext]_sandboxVars

-----------------------------------------------------------------------------
(* reviewSandboxResidues, and those of them lzy doctor warns of: all but a  *)
(* review that is under way, as far as its number tells.                    *)
reviewSandboxResidues ==
  {r \in Reviews : /\ marker[r].state # "absent"
                   /\ marker[r].state # "clean" \/ files[r] # {}}

Warned ==
  {r \in reviewSandboxResidues : marker[r].state = "pending" => ~Running(marker[r].owner)}

(* Credentials that a review left behind are warned of, whichever step it   *)
(* or a cleaner was killed at and whichever file would not go - but for a   *)
(* review whose number another process has by now, which counts as under    *)
(* way; a review that is valid has left none; and one that is under way     *)
(* keeps what it was given, whoever is cleaning up.                         *)
NothingLeftUnsaid ==
  \A r \in Reviews :
    /\ files[r] # {} /\ at[r] = "gone" => r \in Warned
    /\ record[r] = "valid" => files[r] = {}
    /\ at[r] = "running" => files[r] = Given

=============================================================================
