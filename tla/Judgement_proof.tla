--------------------------- MODULE Judgement_proof ---------------------------
(***************************************************************************)
(* What reviewers and humans say of a goal, proved for any number of        *)
(* reviews, findings, sessions, hooks, plans and contracts: first the       *)
(* reviews (ReviewRun, ReviewBudget, Findings, ReviewSandbox), then the     *)
(* word of a human and the gates that wait for it (HumanGate).              *)
(***************************************************************************)
EXTENDS ReviewBudget, Findings, ReviewSandbox, HumanGate, FiniteSetTheorems, FunctionTheorems,
        NaturalsInduction, WellFoundedInduction, TLAPS

-----------------------------------------------------------------------------
(* The credentials of a review (ReviewSandbox).                             *)

Processes == Reviews \cup Cleaners
Working == {"cleaning", "unlinked", "marking"}
Early == {"idle", "refused", "admitted", "registering"}
Live == {"registered", "configured", "running"}

(* A cleaner was asked to clean a run whenever it is at work. *)
CleanerOk(q) ==
  /\ at[q] \in Working \cup {"idle", "gone"}
  /\ at[q] \in Working => job[q] \in Reviews

(* Until a review has stopped running its marker is its own, and no cleaner *)
(* was let near it.                                                         *)
Undisturbed(r) ==
  /\ at[r] \in Early => marker[r].owner = Nobody
  /\ at[r] \in Live => marker[r].state = "pending" /\ marker[r].owner = r
  /\ at[r] \in Early \cup Live =>
       record[r] = "none" /\ \A q \in Cleaners : at[q] \in Working => job[q] # r

(* What is in its home, from the first file written to the last one burnt.  *)
HomeOk(r) ==
  /\ marker[r].state = "pending" => marker[r].owner = r
  /\ marker[r].state = "absent" => files[r] = {}
  /\ at[r] = "registering" => marker[r].state # "absent"
  /\ at[r] \in Early \cup {"registered"} => files[r] = {}
  /\ at[r] = "configured" =>
       files[r] = IF resolveSandboxProviderConfig # {} THEN {"personal"} ELSE {}
  /\ at[r] = "running" => files[r] = Given
  /\ at[r] \in {"unlinked", "marking", "burnt"} /\ outcome[r] = "clean" => files[r] = {}
  /\ record[r] # "none" => at[r] \in Working \cup {"gone", "reused"}
  /\ record[r] = "valid" => files[r] = {}

SandboxInv ==
  /\ SandboxTypeOK
  /\ \A q \in Cleaners : CleanerOk(q)
  /\ \A r \in Reviews : Undisturbed(r) /\ HomeOk(r)

LEMMA GivenIs ==
  /\ ReviewTier \in {"os-sandbox", "app-layer"}
  /\ ReviewTier = "os-sandbox" =>
       Given = {"personal", "builtin"} /\ resolveSandboxProviderConfig # {}
  /\ ReviewTier = "app-layer" /\ resolveSandboxProviderConfig # {} => Given = {"personal"}
  /\ ReviewTier = "app-layer" /\ resolveSandboxProviderConfig = {} =>
       Given = IF host.oauth THEN {"oauth"} ELSE {}
<1>1. /\ ReviewTier \in {"os-sandbox", "app-layer"}
      /\ ReviewTier = "os-sandbox" => resolveSandboxProviderConfig # {}
  BY DEF ReviewTier
<1>2. CASE ReviewTier = "os-sandbox"
  BY <1>1, <1>2 DEF Given
<1>3. CASE ReviewTier = "app-layer" /\ resolveSandboxProviderConfig # {}
  BY <1>3 DEF Given
<1>4. CASE ReviewTier = "app-layer" /\ resolveSandboxProviderConfig = {}
  <2>1. Given = IF OauthFallback THEN {"oauth"} ELSE {}
    BY <1>4 DEF Given
  <2>2. OauthFallback <=> host.oauth
    BY <1>4 DEF OauthFallback
  <2> QED  BY <1>4, <2>1, <2>2
<1> QED  BY <1>1, <1>2, <1>3, <1>4

LEMMA HostKept ==
  ASSUME host' = host
  PROVE  Given' = Given /\ resolveSandboxProviderConfig' = resolveSandboxProviderConfig
BY DEF Given, resolveSandboxProviderConfig, filterProviderConfig, ReviewTier, OauthFallback

(* A review nobody touches. *)
LEMMA Untouched ==
  ASSUME NEW s, HomeOk(s), host' = host, at'[s] = at[s], files'[s] = files[s],
         marker'[s] = marker[s], outcome'[s] = outcome[s], record'[s] = record[s]
  PROVE  HomeOk(s)'
BY HostKept DEF HomeOk

LEMMA SandboxStep ==
  ASSUME SandboxInv, [SandboxNext]_sandboxVars
  PROVE  SandboxInv'
<1> USE ReviewsAssumption DEF SandboxInv, SandboxTypeOK, Move, Working, Early, Live
<1>1. ASSUME NEW r \in Reviews, Authenticate(r) PROVE SandboxInv'
  <2>1. SandboxTypeOK'
    BY <1>1 DEF Authenticate, Says, Marker, Standing, Copies, Outcomes, CleanerOk
  <2>2. \A c \in Cleaners : CleanerOk(c)'
    BY <1>1 DEF Authenticate, CleanerOk
  <2>3. \A s \in Reviews : Undisturbed(s)'
    BY <1>1 DEF Authenticate, CleanerOk, Undisturbed, Says
  <2>4. \A s \in Reviews : HomeOk(s)'
    BY <1>1, HostKept DEF Authenticate, CleanerOk, Undisturbed, HomeOk, Says
  <2> QED  BY <2>1, <2>2, <2>3, <2>4
<1>2. ASSUME NEW r \in Reviews, registerReviewCleanup(r) PROVE SandboxInv'
  <2>1. SandboxTypeOK'
    BY <1>2 DEF registerReviewCleanup, Says, Marker, Standing, Copies, Outcomes, CleanerOk
  <2>2. \A c \in Cleaners : CleanerOk(c)'
    BY <1>2 DEF registerReviewCleanup, CleanerOk
  <2>3. \A s \in Reviews : Undisturbed(s)'
    BY <1>2 DEF registerReviewCleanup, CleanerOk, Undisturbed, Says
  <2>4. \A s \in Reviews : HomeOk(s)'
    <3>1. \A s \in Reviews : s # r => HomeOk(s)'
      BY <1>2, Untouched DEF registerReviewCleanup
    <3>2. HomeOk(r)'
      BY <1>2, HostKept, GivenIs DEF registerReviewCleanup, CleanerOk, Undisturbed, HomeOk, Says
    <3> QED  BY <3>1, <3>2
  <2> QED  BY <2>1, <2>2, <2>3, <2>4
<1>3. ASSUME NEW r \in Reviews, writeSandboxProviderConfig(r) PROVE SandboxInv'
  <2>1. SandboxTypeOK'
    BY <1>3 DEF writeSandboxProviderConfig, Says, Marker, Standing, Copies, Outcomes, CleanerOk
  <2>2. \A c \in Cleaners : CleanerOk(c)'
    BY <1>3 DEF writeSandboxProviderConfig, CleanerOk
  <2>3. \A s \in Reviews : Undisturbed(s)'
    BY <1>3 DEF writeSandboxProviderConfig, CleanerOk, Undisturbed, Says
  <2>4. \A s \in Reviews : HomeOk(s)'
    <3>1. \A s \in Reviews : s # r => HomeOk(s)'
      BY <1>3, Untouched DEF writeSandboxProviderConfig
    <3>2. HomeOk(r)'
      BY <1>3, HostKept, GivenIs DEF writeSandboxProviderConfig, CleanerOk, Undisturbed, HomeOk, Says
    <3> QED  BY <3>1, <3>2
  <2> QED  BY <2>1, <2>2, <2>3, <2>4
<1>4. ASSUME NEW r \in Reviews, prepareReviewProviderRuntime(r) PROVE SandboxInv'
  <2>1. SandboxTypeOK'
    BY <1>4 DEF prepareReviewProviderRuntime, Says, Marker, Standing, Copies, Outcomes, CleanerOk
  <2>2. \A c \in Cleaners : CleanerOk(c)'
    BY <1>4 DEF prepareReviewProviderRuntime, CleanerOk
  <2>3. \A s \in Reviews : Undisturbed(s)'
    BY <1>4 DEF prepareReviewProviderRuntime, CleanerOk, Undisturbed, Says
  <2>4. \A s \in Reviews : HomeOk(s)'
    <3>1. \A s \in Reviews : s # r => HomeOk(s)'
      BY <1>4, Untouched DEF prepareReviewProviderRuntime
    <3>2. HomeOk(r)'
      <4>1. /\ at[r] = "configured" /\ at'[r] \in {"running", "over"} /\ host' = host
            /\ marker'[r] = marker[r] /\ record'[r] = record[r]
            /\ marker[r].state = "pending" /\ marker[r].owner = r /\ record[r] = "none"
        BY <1>4 DEF prepareReviewProviderRuntime, Undisturbed
      <4>2. files[r] = IF resolveSandboxProviderConfig # {} THEN {"personal"} ELSE {}
        BY <4>1 DEF HomeOk
      <4>3. at'[r] = "running" => files'[r] = Given
        BY <1>4, <4>1, <4>2, GivenIs DEF prepareReviewProviderRuntime
      <4> QED  BY <4>1, <4>3, HostKept DEF HomeOk
    <3> QED  BY <3>1, <3>2
  <2> QED  BY <2>1, <2>2, <2>3, <2>4
<1>5. ASSUME NEW r \in Reviews, copyOAuthCredential(r) PROVE SandboxInv'
  <2>1. SandboxTypeOK'
    BY <1>5 DEF copyOAuthCredential, Says, Marker, Standing, Copies, Outcomes, CleanerOk
  <2>2. \A c \in Cleaners : CleanerOk(c)'
    BY <1>5 DEF copyOAuthCredential, CleanerOk
  <2>3. \A s \in Reviews : Undisturbed(s)'
    BY <1>5 DEF copyOAuthCredential, CleanerOk, Undisturbed, Says
  <2>4. \A s \in Reviews : HomeOk(s)'
    <3>1. \A s \in Reviews : s # r => HomeOk(s)'
      BY <1>5, Untouched DEF copyOAuthCredential
    <3>2. HomeOk(r)'
      <4>1. /\ at[r] = "configured" /\ at'[r] \in {"running", "over"} /\ host' = host
            /\ marker'[r] = marker[r] /\ record'[r] = record[r]
            /\ marker[r].state = "pending" /\ marker[r].owner = r /\ record[r] = "none"
        BY <1>5 DEF copyOAuthCredential, Undisturbed
      <4>2. files[r] = IF resolveSandboxProviderConfig # {} THEN {"personal"} ELSE {}
        BY <4>1 DEF HomeOk
      <4>3. at'[r] = "running" => files'[r] = Given
        BY <1>5, <4>1, <4>2, GivenIs DEF copyOAuthCredential
      <4> QED  BY <4>1, <4>3, HostKept DEF HomeOk
    <3> QED  BY <3>1, <3>2
  <2> QED  BY <2>1, <2>2, <2>3, <2>4
<1>6. ASSUME NEW r \in Reviews, SessionOver(r) \/ Throws(r) \/ StartsBurning(r) \/ NumberReused(r) PROVE SandboxInv'
  <2>1. SandboxTypeOK'
    BY <1>6 DEF SessionOver, Throws, StartsBurning, NumberReused, Says, Marker, Standing, Copies, Outcomes, CleanerOk
  <2>2. \A c \in Cleaners : CleanerOk(c)'
    BY <1>6 DEF SessionOver, Throws, StartsBurning, NumberReused, CleanerOk
  <2>3. \A s \in Reviews : Undisturbed(s)'
    BY <1>6 DEF SessionOver, Throws, StartsBurning, NumberReused, CleanerOk, Undisturbed, Says
  <2>4. \A s \in Reviews : HomeOk(s)'
    <3>1. \A s \in Reviews : s # r => HomeOk(s)'
      BY <1>6, Untouched DEF SessionOver, Throws, StartsBurning, NumberReused
    <3>2. HomeOk(r)'
      BY <1>6, HostKept, GivenIs DEF SessionOver, Throws, StartsBurning, NumberReused, CleanerOk, Undisturbed, HomeOk, Says
    <3> QED  BY <3>1, <3>2
  <2> QED  BY <2>1, <2>2, <2>3, <2>4
<1>7. ASSUME NEW r \in Reviews, SaveRecord(r) PROVE SandboxInv'
  <2>1. SandboxTypeOK'
    BY <1>7 DEF SaveRecord, Says, Marker, Standing, Copies, Outcomes, CleanerOk
  <2>2. \A c \in Cleaners : CleanerOk(c)'
    BY <1>7 DEF SaveRecord, CleanerOk
  <2>3. \A s \in Reviews : Undisturbed(s)'
    BY <1>7 DEF SaveRecord, CleanerOk, Undisturbed, Says
  <2>4. \A s \in Reviews : HomeOk(s)'
    <3>1. \A s \in Reviews : s # r => HomeOk(s)'
      BY <1>7, Untouched DEF SaveRecord
    <3>2. HomeOk(r)'
      BY <1>7, HostKept, GivenIs DEF SaveRecord, CleanerOk, Undisturbed, HomeOk, Says
    <3> QED  BY <3>1, <3>2
  <2> QED  BY <2>1, <2>2, <2>3, <2>4
<1>8. ASSUME NEW p \in Processes, Unlink(p) PROVE SandboxInv'
  <2>1. SandboxTypeOK'
    BY <1>8 DEF Unlink, Processes, Cleaned, CleanOutcome, Says, Marker, Standing, Copies, Outcomes, CleanerOk
  <2>2. \A c \in Cleaners : CleanerOk(c)'
    BY <1>8 DEF Unlink, Processes, Cleaned, CleanOutcome, CleanerOk
  <2>3. \A s \in Reviews : Undisturbed(s)'
    BY <1>8 DEF Unlink, Processes, Cleaned, CleanOutcome, CleanerOk, Undisturbed, Says
  <2>4. \A s \in Reviews : HomeOk(s)'
    <3>1. CASE p \in Reviews
      <4>1. \A s \in Reviews : s # p => HomeOk(s)'
        BY <1>8, <3>1, Untouched DEF Unlink, Processes, Cleaned, CleanOutcome
      <4>2. HomeOk(p)'
        BY <1>8, <3>1, HostKept DEF Unlink, Processes, Cleaned, CleanOutcome, Undisturbed, HomeOk, Says
      <4> QED  BY <4>1, <4>2
    <3>2. CASE p \in Cleaners
      <4>1. PICK j \in Reviews : j = job[p] /\ job' = job
        BY <1>8, <3>2 DEF Unlink, Processes, Cleaned, CleanOutcome, CleanerOk
      <4>2. \A s \in Reviews : s # j => HomeOk(s)'
        BY <1>8, <3>2, <4>1, Untouched DEF Unlink, Processes, Cleaned, CleanOutcome
      <4>3. HomeOk(j)'
        BY <1>8, <3>2, <4>1, HostKept DEF Unlink, Processes, Cleaned, CleanOutcome, Undisturbed, HomeOk, Says
      <4> QED  BY <4>2, <4>3
    <3> QED  BY <3>1, <3>2 DEF Processes
  <2> QED  BY <2>1, <2>2, <2>3, <2>4
<1>9. ASSUME NEW p \in Processes, WriteMarker(p) PROVE SandboxInv'
  <2>1. SandboxTypeOK'
    BY <1>9 DEF WriteMarker, Processes, Cleaned, Finished, Says, Marker, Standing, Copies, Outcomes, CleanerOk
  <2>2. \A c \in Cleaners : CleanerOk(c)'
    BY <1>9 DEF WriteMarker, Processes, Cleaned, Finished, Outcomes, CleanerOk
  <2>3. \A s \in Reviews : Undisturbed(s)'
    BY <1>9 DEF WriteMarker, Processes, Cleaned, Finished, Outcomes, CleanerOk, Undisturbed, Says
  <2>4. \A s \in Reviews : HomeOk(s)'
    <3>1. CASE p \in Reviews
      <4>1. \A s \in Reviews : s # p => HomeOk(s)'
        BY <1>9, <3>1, Untouched DEF WriteMarker, Processes, Cleaned, Finished, Outcomes
      <4>2. HomeOk(p)'
        BY <1>9, <3>1, HostKept DEF WriteMarker, Processes, Cleaned, Finished, Outcomes, Undisturbed, HomeOk, Says
      <4> QED  BY <4>1, <4>2
    <3>2. CASE p \in Cleaners
      <4>1. PICK j \in Reviews : j = job[p] /\ job' = job
        BY <1>9, <3>2 DEF WriteMarker, Processes, Cleaned, Finished, Outcomes, CleanerOk
      <4>2. \A s \in Reviews : s # j => HomeOk(s)'
        BY <1>9, <3>2, <4>1, Untouched DEF WriteMarker, Processes, Cleaned, Finished, Outcomes
      <4>3. HomeOk(j)'
        BY <1>9, <3>2, <4>1, HostKept DEF WriteMarker, Processes, Cleaned, Finished, Outcomes, Undisturbed, HomeOk, Says
      <4> QED  BY <4>2, <4>3
    <3> QED  BY <3>1, <3>2 DEF Processes
  <2> QED  BY <2>1, <2>2, <2>3, <2>4
<1>10. ASSUME NEW p \in Processes, Killed(p) PROVE SandboxInv'
  <2>1. SandboxTypeOK'
    BY <1>10 DEF Killed, Processes, Says, Marker, Standing, Copies, Outcomes, CleanerOk
  <2>2. \A c \in Cleaners : CleanerOk(c)'
    BY <1>10 DEF Killed, Processes, CleanerOk
  <2>3. \A s \in Reviews : Undisturbed(s)'
    BY <1>10 DEF Killed, Processes, CleanerOk, Undisturbed, Says
  <2>4. \A s \in Reviews : HomeOk(s)'
    <3>1. CASE p \in Reviews
      <4>1. \A s \in Reviews : s # p => HomeOk(s)'
        BY <1>10, <3>1, Untouched DEF Killed, Processes
      <4>2. HomeOk(p)'
        BY <1>10, <3>1, HostKept DEF Killed, Processes, Undisturbed, HomeOk, Says
      <4> QED  BY <4>1, <4>2
    <3>2. CASE p \in Cleaners
      <4>1. PICK j \in Reviews : j = job[p] /\ job' = job
        BY <1>10, <3>2 DEF Killed, Processes, CleanerOk
      <4>2. \A s \in Reviews : s # j => HomeOk(s)'
        BY <1>10, <3>2, <4>1, Untouched DEF Killed, Processes
      <4>3. HomeOk(j)'
        BY <1>10, <3>2, <4>1, HostKept DEF Killed, Processes, Undisturbed, HomeOk, Says
      <4> QED  BY <4>2, <4>3
    <3> QED  BY <3>1, <3>2 DEF Processes
  <2> QED  BY <2>1, <2>2, <2>3, <2>4
<1>11. ASSUME NEW q \in Cleaners, NEW r \in Reviews, recoverReviewSandbox(q, r) PROVE SandboxInv'
  <2>1. SandboxTypeOK'
    BY <1>11 DEF recoverReviewSandbox, Abandoned, Running, Says, Marker, Standing, Copies, Outcomes, CleanerOk
  <2>2. \A c \in Cleaners : CleanerOk(c)'
    BY <1>11 DEF recoverReviewSandbox, Abandoned, Running, CleanerOk
  <2>3. \A s \in Reviews : Undisturbed(s)'
    BY <1>11 DEF recoverReviewSandbox, Abandoned, Running, CleanerOk, Undisturbed, Says
  <2>4. \A s \in Reviews : HomeOk(s)'
    BY <1>11, HostKept DEF recoverReviewSandbox, Abandoned, Running, CleanerOk, Undisturbed, HomeOk, Says
  <2> QED  BY <2>1, <2>2, <2>3, <2>4
<1>12. CASE UNCHANGED sandboxVars
  BY <1>12, HostKept DEF sandboxVars, CleanerOk, Undisturbed, HomeOk
<1> QED
  BY <1>1, <1>2, <1>3, <1>4, <1>5, <1>6, <1>7, <1>8, <1>9, <1>10, <1>11, <1>12
     DEF SandboxNext, Processes

LEMMA SandboxStart == SandboxInit => SandboxInv
<1> SUFFICES ASSUME SandboxInit PROVE SandboxInv
  OBVIOUS
<1>1. SandboxTypeOK
  BY DEF SandboxInit, SandboxTypeOK, Standing, Says, Marker, Outcomes, Copies
<1>2. \A q \in Cleaners : CleanerOk(q)
  BY DEF SandboxInit, CleanerOk, Working
<1>3. \A r \in Reviews : Undisturbed(r) /\ HomeOk(r)
  BY DEF SandboxInit, Undisturbed, HomeOk, Working, Early, Live, Says
<1> QED  BY <1>1, <1>2, <1>3 DEF SandboxInv

(* Each process, marker, home and record of a review stays of its type. *)
THEOREM SandboxTypeCorrect == SandboxSpec => []SandboxTypeOK
<1>1. SandboxInv => SandboxTypeOK
  BY DEF SandboxInv
<1> QED  BY <1>1, SandboxStart, SandboxStep, PTL DEF SandboxSpec

(* Whatever a killed review leaves in its home is warned of, a valid one    *)
(* has left nothing, and a running one keeps what it was given: for any     *)
(* number of reviews and cleaners, and kills at any step.                   *)
THEOREM LeftoversAreWarnedOf == SandboxSpec => []NothingLeftUnsaid
<1>1. SandboxInv => NothingLeftUnsaid
  BY DEF SandboxInv, HomeOk, NothingLeftUnsaid, Warned, reviewSandboxResidues, Running
<1> QED  BY <1>1, SandboxStart, SandboxStep, PTL DEF SandboxSpec
-----------------------------------------------------------------------------
(* The runs (ReviewRun).                                                    *)

LEMMA LeastExists ==
  ASSUME NEW T \in SUBSET Nat, T # {}
  PROVE  \E x \in T : \A y \in T : x <= y
<1>1. IsWellFoundedOn(OpToRel(<, Nat), Nat)
  BY NatLessThanWellFounded
<1>2. PICK x \in T : \A y \in T : ~(<<y, x>> \in OpToRel(<, Nat))
  BY <1>1, WFMin
<1>3. \A y \in T : ~(y < x)
  BY <1>2 DEF OpToRel
<1> QED  BY <1>3

(* As Run and Busy, with times of any size. *)
AnyRun == [id : Id, duty : Duties, purpose : Purposes, head : 1..MaxHead, input : 1..MaxHead,
           snap : 1..MaxHead, at : Nat, spawned : BOOLEAN, valid : BOOLEAN, reported : SUBSET Fps]
Underway == [pc : {"admitted", "packing", "running", "ended", "interrupted", "wired", "saved"},
          run : AnyRun]

Recorded == {n.id : n \in runs}
Numbered == {"packing", "running", "ended", "interrupted", "wired", "saved"}
Unsaved == {"packing", "running", "ended", "interrupted", "wired"}

(* Numbers are given out in order, without a gap. *)
NoGap(D) ==
  \A i \in D : i.seq # 1 =>
    \E j \in D : j.slug = i.slug /\ j.attempt = i.attempt /\ j.seq = i.seq - 1

Looked(n) == n.valid => n.snap = n.head /\ n.input = n.head

FilesOk ==
  /\ runs \subseteq AnyRun /\ dirs \subseteq Id
  /\ IsFiniteSet(dirs) /\ Cardinality(dirs) <= MaxRuns /\ NoGap(dirs)
  /\ Recorded \subseteq dirs
  /\ \A n \in runs : Looked(n) /\ n.at <= clock

(* What a reviewer has in hand: a candidate that can only have moved on     *)
(* since each time it was read, and a number that is its own.               *)
ReviewerOk(v) ==
  v.pc # "idle" =>
    /\ v.run.head <= v.run.input /\ v.run.input <= head /\ v.run.snap <= head
    /\ Looked(v.run) /\ v.run.at <= clock
    /\ v.pc = "running" => v.run.input <= v.run.snap
    /\ v.pc \in {"admitted", "packing", "running", "interrupted"} => ~v.run.valid
    /\ v.pc \in Numbered => v.run.id \in dirs
    /\ v.pc \in Unsaved => v.run.id \notin Recorded
    /\ v.pc = "saved" => v.run \in runs

OwnNumbers ==
  \A p, q \in Reviewers :
    rv[p].pc \in Numbered /\ rv[q].pc \in Numbered /\ rv[p].run.id = rv[q].run.id => p = q

RunInv ==
  /\ slot \in [slug : Slugs, attempt : 1..MaxAttempt] /\ head \in 1..MaxHead
  /\ clock \in Nat /\ faults \in Nat
  /\ rv \in [Reviewers -> {Idle} \cup Underway]
  /\ FilesOk /\ OwnNumbers
  /\ \A r \in Reviewers : ReviewerOk(rv[r])

(* The number of a new run is new, and the next one. *)
LEMMA NextIsNew ==
  ASSUME NEW D \in SUBSET Id, IsFiniteSet(D), Cardinality(D) < MaxRuns, NoGap(D),
         D = dirs \cup Recorded, NEW slug \in Slugs, NEW attempt \in 1..MaxAttempt
  PROVE  LET n == NextRunSeq(slug, attempt)
             i == [slug |-> slug, attempt |-> attempt, seq |-> n]
         IN  n \in 1..MaxRuns /\ i \in Id /\ i \notin D /\ NoGap(D \cup {i})
<1> DEFINE own == {i \in D : i.slug = slug /\ i.attempt = attempt}
           seqs == {i.seq : i \in own}
           Next1(n) == n - 1 \in seqs \cup {0} /\ \A k \in seqs : k < n
<1>m. MaxRuns \in Nat /\ MaxRuns # 0
  BY ReviewAssumption
<1>1. seqs \in SUBSET (1..MaxRuns)
  BY DEF Id
<1>2. \E n \in 1..(MaxRuns + 1) : Next1(n)
  <2> DEFINE T == {n \in 1..(MaxRuns + 1) : \A k \in seqs : k < n}
  <2> HIDE DEF seqs
  <2>1. MaxRuns + 1 \in T
    BY <1>m, <1>1
  <2>2. T \in SUBSET Nat /\ T # {}
    BY <1>m, <2>1
  <2>3. PICK n \in T : \A m \in T : n <= m
    BY <2>2, LeastExists
  <2>4. n - 1 \in seqs \cup {0}
    <3>1. CASE n = 1
      BY <3>1
    <3>2. CASE n # 1 /\ n - 1 \notin seqs
      <4>1. n - 1 \in 1..(MaxRuns + 1)
        BY <1>m, <3>2
      <4>2. \A k \in seqs : k < n - 1
        BY <1>1, <1>m, <3>2
      <4>3. n - 1 \in T /\ ~(n <= n - 1)
        BY <1>m, <4>1, <4>2
      <4> QED  BY <2>3, <4>3
    <3> QED  BY <3>1, <3>2
  <2> QED  BY <2>3, <2>4
<1>3. PICK n \in 1..(MaxRuns + 1) : n = NextRunSeq(slug, attempt) /\ Next1(n)
  <2>1. NextRunSeq(slug, attempt) = CHOOSE n \in 1..(MaxRuns + 1) : Next1(n)
    BY DEF NextRunSeq, Recorded
  <2> HIDE DEF Next1
  <2> QED  BY <1>2, <2>1
<1>4. \A m \in seqs : m <= Cardinality(D)
  (* The ids below one of D are in D: as many as its number. *)
  <2>1. ASSUME NEW m \in seqs PROVE m <= Cardinality(D)
    <3> DEFINE Below == {k \in 1..m : k \notin seqs}
    <3>m. m \in 1..MaxRuns
      BY <1>1, <2>1
    <3>1. Below = {}
      <4> DEFINE T == {j \in 0..m : m - j \in Below}
      <4>1. SUFFICES ASSUME Below # {} PROVE FALSE
        OBVIOUS
      <4>2. T # {} /\ T \in SUBSET Nat
        <5>1. PICK k \in Below : TRUE
          BY <4>1
        <5>2. m - k \in 0..m /\ m - (m - k) = k
          BY <3>m
        <5> QED  BY <5>1, <5>2
      <4>3. PICK j \in T : \A y \in T : j <= y
        BY <4>2, LeastExists
      <4>4. m - j \in 1..m /\ m - j \notin seqs /\ j \in 0..m
        BY <4>3
      <4>5. j # 0
        BY <2>1, <4>4, <3>m
      <4>6. m - (j - 1) \in seqs
        <5>1. j - 1 \in 0..m /\ ~(j <= j - 1)
          BY <4>4, <4>5, <3>m
        <5>2. j - 1 \notin T
          BY <4>3, <5>1
        <5>3. m - (j - 1) \in 1..m
          BY <4>4, <4>5, <3>m
        <5> QED  BY <5>1, <5>2, <5>3
      <4>7. PICK i \in own : i.seq = m - (j - 1)
        BY <4>6
      <4>8. i.seq # 1 /\ i.seq - 1 = m - j
        BY <4>4, <4>5, <4>7, <3>m
      <4>9. \E h \in own : h.seq = m - j
        BY <4>7, <4>8 DEF NoGap
      <4> QED  BY <4>4, <4>9
    <3>2. \A k \in 1..m : \E i \in own : i.seq = k
      BY <3>1
    <3> DEFINE f == [k \in 1..m |-> [slug |-> slug, attempt |-> attempt, seq |-> k]]
    <3>3. \A k \in 1..m : f[k] \in D
      <4> SUFFICES ASSUME NEW k \in 1..m PROVE f[k] \in D
        OBVIOUS
      <4>1. PICK i \in own : i.seq = k
        BY <3>2
      <4>2. i = [slug |-> slug, attempt |-> attempt, seq |-> k]
        BY <4>1 DEF Id
      <4> QED  BY <4>1, <4>2
    <3>4. f \in Injection(1..m, D)
      <4>1. f \in [1..m -> D]
        BY <3>3
      <4>2. \A a, b \in 1..m : f[a] = f[b] => a = b
        OBVIOUS
      <4> QED  BY <4>1, <4>2 DEF Injection, IsInjective
    <3> HIDE DEF f
    <3>5. Cardinality(1..m) <= Cardinality(D)
      BY <3>4, FS_Injection
    <3>6. Cardinality(1..m) = m
      <4>1. 1 \in Int /\ m \in Int /\ ~(1 > m) /\ m - 1 + 1 = m
        BY <3>m
      <4> QED  BY <4>1, FS_Interval
    <3> QED  BY <3>5, <3>6
  <2> QED  BY <2>1
<1>5. n \in 1..MaxRuns
  <2>1. Cardinality(D) \in Nat
    BY FS_CardinalityType
  <2> HIDE DEF seqs
  <2>2. n - 1 = 0 \/ n - 1 \in seqs
    BY <1>3
  <2>3. n - 1 <= Cardinality(D)
    <3>1. CASE n - 1 = 0
      BY <2>1, <3>1
    <3>2. CASE n - 1 \in seqs
      BY <1>4, <3>2
    <3> QED  BY <2>2, <3>1, <3>2
  <2> QED  BY <1>m, <2>1, <2>3
<1>6. PICK i : i = [slug |-> slug, attempt |-> attempt, seq |-> n]
  OBVIOUS
<1>7. i \in Id /\ i.slug = slug /\ i.attempt = attempt /\ i.seq = n
  BY <1>5, <1>6 DEF Id
<1>8. i \notin D
  <2>1. i \in D => n \in seqs
    BY <1>7
  <2>2. n \in Nat /\ ~(n < n)
    BY <1>5
  <2> HIDE DEF seqs
  <2> QED  BY <1>3, <2>1, <2>2
<1>9. NoGap(D \cup {i})
  <2>1. i.seq # 1 => \E j \in D : j.slug = i.slug /\ j.attempt = i.attempt /\ j.seq = i.seq - 1
    BY <1>3, <1>5, <1>7
  <2> QED  BY <2>1 DEF NoGap
<1> QED  BY <1>3, <1>5, <1>6, <1>7, <1>8, <1>9

LEMMA HeldTyped ==
  ASSUME RunInv, NEW r \in Reviewers, rv[r].pc # "idle"
  PROVE  rv[r] \in Underway /\ rv[r].run \in AnyRun /\ ReviewerOk(rv[r])
BY DEF RunInv, Underway, Idle

(* One reviewer goes on; head, clock, directories and records only grow.    *)
LEMMA Advanced ==
  ASSUME RunInv, NEW r \in Reviewers, NEW v \in {Idle} \cup Underway,
         rv' = [rv EXCEPT ![r] = v], ReviewerOk(v)', FilesOk',
         slot' \in [slug : Slugs, attempt : 1..MaxAttempt], head' \in 1..MaxHead, head <= head',
         clock' \in Nat, clock <= clock', faults' \in Nat, dirs \subseteq dirs',
         runs \subseteq runs',
         \A q \in Reviewers :
           q # r /\ rv[q].pc \in Unsaved => rv[q].run.id \notin Recorded' \ Recorded,
         \A q \in Reviewers :
           q # r /\ rv[q].pc \in Numbered /\ v.pc \in Numbered => rv[q].run.id # v.run.id
  PROVE  RunInv'
<1>1. /\ rv \in [Reviewers -> {Idle} \cup Underway] /\ head \in Nat /\ head' \in Nat /\ clock \in Nat
      /\ \A q \in Reviewers : ReviewerOk(rv[q])
  BY DEF RunInv
<1>2. rv' \in [Reviewers -> {Idle} \cup Underway]
  BY <1>1
<1>3. OwnNumbers'
  <2>1. SUFFICES ASSUME NEW p \in Reviewers, NEW q \in Reviewers, rv'[p].pc \in Numbered,
                        rv'[q].pc \in Numbered, rv'[p].run.id = rv'[q].run.id
                 PROVE  p = q
    BY DEF OwnNumbers
  <2>2. CASE p = r \/ q = r
    BY <1>1, <2>1, <2>2
  <2>3. CASE p # r /\ q # r
    BY <1>1, <2>1, <2>3 DEF RunInv, OwnNumbers
  <2> QED  BY <2>2, <2>3
<1>4. \A q \in Reviewers : ReviewerOk(rv[q])'
  <2> SUFFICES ASSUME NEW q \in Reviewers PROVE ReviewerOk(rv[q])'
    OBVIOUS
  <2>1. CASE q = r
    <3>1. rv'[q] = v
      BY <1>1, <2>1
    <3> QED  BY <3>1
  <2>2. CASE q # r
    <3>1. PICK w \in {Idle} \cup Underway : w = rv[q] /\ w = rv'[q] /\ ReviewerOk(w)
      BY <1>1, <2>2
    <3>2. w.pc # "idle" => w.run \in AnyRun /\ w.run.input \in Nat /\ w.run.snap \in Nat
                           /\ w.run.at \in Nat
      BY <3>1 DEF Underway, AnyRun, Idle
    <3>3. w.pc \in Unsaved => w.run.id \notin Recorded'
      BY <2>2, <3>1 DEF ReviewerOk, Unsaved
    <3>4. ReviewerOk(w)'
      BY <1>1, <3>1, <3>2, <3>3 DEF ReviewerOk, Looked
    <3> QED  BY <3>1, <3>4
  <2> QED  BY <2>1, <2>2
<1> QED  BY <1>2, <1>3, <1>4 DEF RunInv

LEMMA FilesSame ==
  ASSUME RunInv, UNCHANGED <<runs, dirs>>, clock' \in Nat, clock <= clock'
  PROVE  FilesOk' /\ Recorded' = Recorded /\ \A n \in AnyRun : n.at <= clock => n.at <= clock'
<1>1. \A n \in AnyRun : n.at \in Nat /\ (n.at <= clock => n.at <= clock')
  BY DEF AnyRun, RunInv
<1> QED  BY <1>1 DEF RunInv, FilesOk, Recorded, Looked

(* The goal goes on, and the worker commits. *)
LEMMA AroundRuns ==
  ASSUME RunInv, UNCHANGED <<runs, dirs, rv, clock, faults>>,
         slot' \in [slug : Slugs, attempt : 1..MaxAttempt], head' \in 1..MaxHead, head <= head'
  PROVE  RunInv'
<1>1. clock' \in Nat /\ clock <= clock' /\ head \in Nat /\ head' \in Nat
  BY DEF RunInv
<1>2. FilesOk' /\ Recorded' = Recorded
  BY <1>1, FilesSame
<1>3. OwnNumbers'
  BY DEF RunInv, OwnNumbers
<1>4. \A r \in Reviewers : ReviewerOk(rv[r])'
  <2> SUFFICES ASSUME NEW r \in Reviewers PROVE ReviewerOk(rv[r])'
    OBVIOUS
  <2>1. PICK w : w = rv[r] /\ w = rv'[r] /\ ReviewerOk(w) /\ w \in {Idle} \cup Underway
    BY DEF RunInv
  <2>2. w.pc # "idle" => w.run.input \in Nat /\ w.run.snap \in Nat
    BY <2>1 DEF Underway, AnyRun, Idle
  <2>3. ReviewerOk(w)'
    BY <1>1, <1>2, <2>1, <2>2 DEF ReviewerOk, Looked
  <2> QED  BY <2>1, <2>3
<1> QED  BY <1>2, <1>3, <1>4 DEF RunInv

(* Reattempt, Rename, Commit, and nothing at all. *)
LEMMA GoalSteps ==
  ASSUME RunInv, \/ Reattempt \/ Commit \/ \E slug \in Slugs : Rename(slug)
                 \/ UNCHANGED run_vars
  PROVE  RunInv'
<1>1. slot \in [slug : Slugs, attempt : 1..MaxAttempt] /\ head \in 1..MaxHead
      /\ MaxAttempt \in Nat \ {0} /\ MaxHead \in Nat
  BY ReviewAssumption DEF RunInv
<1>2. CASE Reattempt
  <2>1. slot' \in [slug : Slugs, attempt : 1..MaxAttempt]
    <3>1. slot.attempt + 1 \in 1..MaxAttempt
      BY <1>1, <1>2 DEF Reattempt
    <3> QED  BY <1>1, <1>2, <3>1 DEF Reattempt
  <2> QED  BY <1>1, <1>2, <2>1, AroundRuns DEF Reattempt
<1>3. CASE Commit
  <2>1. head' \in 1..MaxHead /\ head <= head'
    BY <1>1, <1>3 DEF Commit
  <2> QED  BY <1>1, <1>3, <2>1, AroundRuns DEF Commit
<1>4. CASE \E slug \in Slugs : Rename(slug)
  <2>1. slot' \in [slug : Slugs, attempt : 1..MaxAttempt]
    BY <1>1, <1>4 DEF Rename
  <2> QED  BY <1>1, <1>4, <2>1, AroundRuns DEF Rename
<1>5. CASE UNCHANGED run_vars
  BY <1>1, <1>5, AroundRuns DEF run_vars
<1> QED  BY <1>2, <1>3, <1>4, <1>5

LEMMA AdmitStep ==
  ASSUME RunInv, NEW r \in Reviewers, NEW duty \in Duties, NEW purpose \in Purposes,
         Admit(r, duty, purpose)
  PROVE  RunInv'
<1>1. PICK id : id = [slug |-> slot.slug, attempt |-> slot.attempt, seq |-> 1]
  OBVIOUS
<1>2. id \in Id
  BY <1>1, ReviewAssumption DEF RunInv, Id
<1>3. PICK n : n = [id |-> id, duty |-> duty, purpose |-> purpose, head |-> head, input |-> head,
                    snap |-> head, at |-> 0, spawned |-> FALSE, valid |-> FALSE, reported |-> {}]
  OBVIOUS
<1>4. /\ n \in AnyRun /\ n.head = head /\ n.input = head /\ n.snap = head /\ n.at = 0 /\ ~n.valid
  BY <1>2, <1>3 DEF AnyRun, RunInv
<1>5. PICK v : v = [pc |-> "admitted", run |-> n]
  OBVIOUS
<1>6. v \in Underway /\ v.pc = "admitted" /\ v.run = n
  BY <1>4, <1>5 DEF Underway
<1>7. rv' = [rv EXCEPT ![r] = v] /\ UNCHANGED <<slot, head, runs, dirs, clock, faults>>
  BY <1>1, <1>3, <1>5 DEF Admit
<1>8. FilesOk' /\ Recorded' = Recorded /\ head \in Nat /\ clock \in Nat
  BY <1>7, FilesSame DEF RunInv
<1>9. ReviewerOk(v)'
  BY <1>4, <1>6, <1>7, <1>8 DEF ReviewerOk, Looked, Numbered, Unsaved
<1>10. /\ slot' \in [slug : Slugs, attempt : 1..MaxAttempt] /\ head' \in 1..MaxHead /\ head <= head'
       /\ clock' \in Nat /\ clock <= clock' /\ faults' \in Nat
       /\ dirs \subseteq dirs' /\ runs \subseteq runs'
  BY <1>7, <1>8 DEF RunInv
<1>11. \A q \in Reviewers : q # r /\ rv[q].pc \in Unsaved => rv[q].run.id \notin Recorded' \ Recorded
  BY <1>8
<1>12. v.pc \notin Numbered
  BY <1>6 DEF Numbered
<1> QED
  BY <1>6, <1>7, <1>8, <1>9, <1>10, <1>11, <1>12, Advanced

(* Under the lock: a number nobody has, and the input. *)
LEMMA PackStep == ASSUME RunInv, NEW r \in Reviewers, Pack(r) PROVE RunInv'
<1>1. rv[r].pc = "admitted" /\ Cardinality(dirs) < MaxRuns
      /\ UNCHANGED <<slot, head, runs, clock, faults>>
  BY DEF Pack
<1>2. rv[r].run \in AnyRun /\ ReviewerOk(rv[r])
  BY <1>1, HeldTyped
<1>3. /\ dirs \in SUBSET Id /\ IsFiniteSet(dirs) /\ NoGap(dirs) /\ dirs = dirs \cup Recorded
      /\ head \in 1..MaxHead /\ clock \in Nat /\ MaxRuns \in Nat
  BY ReviewAssumption DEF RunInv, FilesOk
<1>4. PICK old \in AnyRun : old = rv[r].run
  BY <1>2
<1>5. old.id \in Id /\ old.id.slug \in Slugs /\ old.id.attempt \in 1..MaxAttempt
  BY <1>4 DEF AnyRun, Id
<1>6. PICK n : n = NextRunSeq(old.id.slug, old.id.attempt)
  OBVIOUS
<1>7. PICK i : i = [slug |-> old.id.slug, attempt |-> old.id.attempt, seq |-> n]
  OBVIOUS
<1>8. n \in 1..MaxRuns /\ i \in Id /\ i \notin dirs /\ NoGap(dirs \cup {i})
  BY <1>1, <1>3, <1>5, <1>6, <1>7, NextIsNew
<1>9. PICK run : run = [old EXCEPT !.id.seq = n, !.input = head]
  OBVIOUS
<1>10. [old.id EXCEPT !.seq = n] = i
  BY <1>5, <1>7 DEF Id
<1>11. /\ run \in AnyRun /\ run.id = i /\ run.head = old.head /\ run.input = head
       /\ run.snap = old.snap /\ run.at = old.at /\ run.valid = old.valid
  BY <1>3, <1>8, <1>9, <1>10 DEF AnyRun
<1>12. PICK v : v = [pc |-> "packing", run |-> run]
  OBVIOUS
<1>13. v \in Underway /\ v.pc = "packing" /\ v.run = run
  BY <1>11, <1>12 DEF Underway
<1>14. rv' = [rv EXCEPT ![r] = v] /\ dirs' = dirs \cup {i}
  <2>1. buildInputPackage(reserveRun(rv[r].run)) = run
    BY <1>4, <1>6, <1>9 DEF buildInputPackage, reserveRun, AnyRun
  <2> QED  BY <1>11, <1>12, <2>1 DEF Pack
<1>15. FilesOk'
  <2>1. IsFiniteSet(dirs') /\ Cardinality(dirs') = Cardinality(dirs) + 1
    BY <1>3, <1>8, <1>14, FS_AddElement
  <2>2. Cardinality(dirs) \in Nat
    BY <1>3, FS_CardinalityType
  <2>3. Cardinality(dirs') <= MaxRuns
    BY <1>1, <1>3, <2>1, <2>2
  <2> QED  BY <1>1, <1>8, <1>14, <2>1, <2>3 DEF RunInv, FilesOk, Recorded, Looked
<1>16. ReviewerOk(v)'
  <2>1. ~old.valid /\ old.at <= clock /\ old.snap <= head /\ old.head <= old.input /\ old.input <= head
    BY <1>1, <1>2, <1>4 DEF ReviewerOk
  <2>2. old.head <= head
    BY <1>3, <2>1 DEF AnyRun
  <2>3. i \notin Recorded
    BY <1>3, <1>8
  <2> QED
    BY <1>1, <1>3, <1>11, <1>13, <1>14, <2>1, <2>2, <2>3
       DEF ReviewerOk, Looked, Numbered, Unsaved, Recorded
<1>17. \A q \in Reviewers : q # r /\ rv[q].pc \in Numbered => rv[q].run.id # i
  BY <1>8 DEF RunInv, ReviewerOk, Numbered
<1>18. /\ slot' \in [slug : Slugs, attempt : 1..MaxAttempt] /\ head' \in 1..MaxHead /\ head <= head'
       /\ clock' \in Nat /\ clock <= clock' /\ faults' \in Nat
       /\ dirs \subseteq dirs' /\ runs \subseteq runs'
  BY <1>1, <1>3, <1>14 DEF RunInv
<1>19. \A q \in Reviewers : q # r /\ rv[q].pc \in Unsaved => rv[q].run.id \notin Recorded' \ Recorded
  BY <1>1 DEF Recorded
<1> QED
  BY <1>11, <1>13, <1>14, <1>15, <1>16, <1>17, <1>18, <1>19, Advanced

(* One reviewer goes on and no file changes. *)
LEMMA GoesOn ==
  ASSUME RunInv, NEW r \in Reviewers, NEW v \in {Idle} \cup Underway,
         rv' = [rv EXCEPT ![r] = v], UNCHANGED <<slot, head, runs, dirs>>,
         clock' \in Nat, clock <= clock', faults' \in Nat, ReviewerOk(v)',
         v.pc \in Numbered => rv[r].pc \in Numbered /\ v.run.id = rv[r].run.id
  PROVE  RunInv'
<1>1. FilesOk' /\ Recorded' = Recorded
  BY FilesSame
<1>2. /\ slot' \in [slug : Slugs, attempt : 1..MaxAttempt] /\ head' \in 1..MaxHead /\ head <= head'
      /\ dirs \subseteq dirs' /\ runs \subseteq runs'
  BY DEF RunInv
<1>3. \A q \in Reviewers : q # r /\ rv[q].pc \in Unsaved => rv[q].run.id \notin Recorded' \ Recorded
  BY <1>1
<1>4. \A q \in Reviewers :
        q # r /\ rv[q].pc \in Numbered /\ v.pc \in Numbered => rv[q].run.id # v.run.id
  BY DEF RunInv, OwnNumbers
<1> QED
  BY <1>1, <1>2, <1>3, <1>4, Advanced

(* Refused, killed, or at its end. *)
LEMMA GivesUp ==
  ASSUME RunInv, NEW r \in Reviewers, rv' = [rv EXCEPT ![r] = Idle],
         UNCHANGED <<slot, head, runs, dirs, clock>>, faults' \in Nat
  PROVE  RunInv'
<1>1. clock' \in Nat /\ clock <= clock'
  BY DEF RunInv
<1>2. Idle.pc = "idle"
  BY DEF Idle
<1>3. ReviewerOk(Idle)' /\ Idle.pc \notin Numbered
  BY <1>2 DEF ReviewerOk, Numbered
<1> QED
  BY <1>1, <1>3, GoesOn

(* The tree is unpacked, now or never, and the session started on it. *)
LEMMA PrepareStep == ASSUME RunInv, NEW r \in Reviewers, NEW leaks \in BOOLEAN, Prepare(r, leaks) PROVE RunInv'
<1>1. rv[r].pc = "packing" /\ UNCHANGED <<slot, head, runs, dirs, faults>>
  BY DEF Prepare
<1>2. PICK old \in AnyRun : old = rv[r].run /\ ReviewerOk(rv[r])
  BY <1>1, HeldTyped
<1>3. /\ head \in 1..MaxHead /\ clock \in Nat /\ faults \in Nat /\ clock + 1 \in Nat
  BY DEF RunInv
<1>4. /\ ~old.valid /\ old.at <= clock /\ old.head <= old.input /\ old.input <= head
      /\ old.id \in dirs /\ old.id \notin Recorded
  BY <1>1, <1>2 DEF ReviewerOk, Numbered, Unsaved
<1>5. PICK n : n = IF leaks THEN [[old EXCEPT !.snap = head] EXCEPT !.at = clock + 1]
                   ELSE [[old EXCEPT !.snap = head] EXCEPT !.spawned = TRUE]
  OBVIOUS
<1>6. /\ n \in AnyRun /\ n.id = old.id /\ n.head = old.head /\ n.input = old.input
      /\ n.snap = head /\ n.valid = old.valid /\ n.at = IF leaks THEN clock + 1 ELSE old.at
  BY <1>3, <1>5 DEF AnyRun
<1>7. PICK v : v = [pc |-> IF leaks THEN "ended" ELSE "running", run |-> n]
  OBVIOUS
<1>8. v \in Underway /\ v.pc = (IF leaks THEN "ended" ELSE "running") /\ v.run = n
  BY <1>6, <1>7 DEF Underway
<1>9. rv' = [rv EXCEPT ![r] = v] /\ clock' = IF leaks THEN clock + 1 ELSE clock
  BY <1>2, <1>5, <1>7 DEF Prepare, materializeCandidate
<1>10. clock' \in Nat /\ clock <= clock' /\ faults' \in Nat
  BY <1>1, <1>3, <1>9
<1>11. Recorded' = Recorded
  BY <1>1 DEF Recorded
<1>12. n.at <= clock'
  BY <1>3, <1>4, <1>6, <1>9
<1>13. n.head <= n.input /\ n.input <= head /\ n.snap <= head /\ n.input <= n.snap /\ ~n.valid
  BY <1>3, <1>4, <1>6
<1>14. ReviewerOk(v)'
  BY <1>1, <1>4, <1>6, <1>8, <1>11, <1>12, <1>13 DEF ReviewerOk, Looked, Numbered, Unsaved
<1>15. rv[r].pc \in Numbered /\ v.run.id = rv[r].run.id
  BY <1>1, <1>2, <1>6, <1>8 DEF Numbered
<1> QED
  BY <1>1, <1>8, <1>9, <1>10, <1>14, <1>15, GoesOn

(* A run that ends as something else than a valid review: packing failed,   *)
(* or the lock stayed busy.                                                 *)
LEMMA Interrupted ==
  ASSUME RunInv, NEW r \in Reviewers, rv[r].pc \in {"packing", "ended"},
         NEW n \in AnyRun, n.id = rv[r].run.id, n.head = rv[r].run.head,
         n.input = rv[r].run.input, n.snap = rv[r].run.snap, ~n.valid, n.at = clock + 1,
         rv' = [rv EXCEPT ![r] = [pc |-> "interrupted", run |-> n]],
         clock' = clock + 1, faults' \in Nat, UNCHANGED <<slot, head, runs, dirs>>
  PROVE  RunInv'
<1>1. ReviewerOk(rv[r])
  BY HeldTyped
<1>2. clock' \in Nat /\ clock <= clock' /\ n.at <= clock'
  BY DEF RunInv
<1>3. PICK v : v = [pc |-> "interrupted", run |-> n]
  OBVIOUS
<1>4. v \in Underway /\ v.pc = "interrupted" /\ v.run = n
  BY <1>3 DEF Underway
<1>5. Recorded' = Recorded
  BY DEF Recorded
<1>6. ReviewerOk(v)'
  BY <1>1, <1>2, <1>4, <1>5 DEF ReviewerOk, Looked, Numbered, Unsaved
<1>7. rv[r].pc \in Numbered /\ v.run.id = rv[r].run.id
  BY <1>4 DEF Numbered
<1>8. rv' = [rv EXCEPT ![r] = v]
  BY <1>3
<1> QED
  BY <1>2, <1>4, <1>6, <1>7, <1>8, GoesOn

LEMMA PrepareFailedStep == ASSUME RunInv, NEW r \in Reviewers, PrepareFailed(r) PROVE RunInv'
<1>1. /\ rv[r].pc = "packing" /\ clock' = clock + 1 /\ faults' = faults + 1
      /\ UNCHANGED <<slot, head, runs, dirs>>
  BY DEF PrepareFailed
<1>2. PICK old \in AnyRun : old = rv[r].run /\ ReviewerOk(rv[r])
  BY <1>1, HeldTyped
<1>3. PICK n : n = [old EXCEPT !.at = clock + 1]
  OBVIOUS
<1>4. /\ n \in AnyRun /\ n.id = old.id /\ n.head = old.head /\ n.input = old.input
      /\ n.snap = old.snap /\ n.valid = old.valid /\ n.at = clock + 1
  BY <1>3 DEF AnyRun, RunInv
<1>5. rv' = [rv EXCEPT ![r] = [pc |-> "interrupted", run |-> n]]
  <2>1. rv \in [Reviewers -> {Idle} \cup Underway]
    BY DEF RunInv
  <2> QED  BY <1>2, <1>3, <2>1 DEF PrepareFailed
<1>6. faults' \in Nat /\ ~n.valid
  BY <1>1, <1>2, <1>4 DEF RunInv, ReviewerOk
<1> QED
  BY <1>1, <1>2, <1>4, <1>5, <1>6, Interrupted

(* The session is over, and its candidate what it was or not. *)
LEMMA JudgeStep ==
  ASSUME RunInv, NEW r \in Reviewers, NEW sound \in BOOLEAN, NEW reported \in SUBSET Fps,
         Judge(r, sound, reported)
  PROVE  RunInv'
<1>1. rv[r].pc = "running" /\ clock' = clock + 1 /\ UNCHANGED <<slot, head, runs, dirs, faults>>
  BY DEF Judge
<1>2. PICK old \in AnyRun : old = rv[r].run /\ ReviewerOk(rv[r])
  BY <1>1, HeldTyped
<1>3. /\ old.id \in dirs /\ old.id \notin Recorded /\ old.head <= old.input
      /\ old.input <= old.snap /\ old.snap <= head
  BY <1>1, <1>2 DEF ReviewerOk, Numbered, Unsaved
<1>4. PICK valid \in BOOLEAN : valid = (sound /\ ~Moved(old))
  OBVIOUS
<1>5. PICK n : n = [old EXCEPT !.at = clock + 1, !.valid = valid,
                               !.reported = IF valid THEN reported ELSE {}]
  OBVIOUS
<1>6. clock \in Nat /\ head \in Nat /\ clock + 1 \in Nat /\ faults \in Nat
  BY DEF RunInv
<1>7. /\ n \in AnyRun /\ n.id = old.id /\ n.head = old.head /\ n.input = old.input
      /\ n.snap = old.snap /\ n.valid = valid /\ n.at = clock + 1
  BY <1>5, <1>6 DEF AnyRun
<1>8. Looked(n)
  <2>1. old.head \in Nat /\ old.input \in Nat /\ old.snap \in Nat
    BY DEF AnyRun
  <2>2. valid => head = old.head
    BY <1>4 DEF Moved
  <2> QED  BY <1>3, <1>6, <1>7, <2>1, <2>2 DEF Looked
<1>9. PICK v : v = [pc |-> "ended", run |-> n]
  OBVIOUS
<1>10. v \in Underway /\ v.pc = "ended" /\ v.run = n
  BY <1>7, <1>9 DEF Underway
<1>11. rv' = [rv EXCEPT ![r] = v]
  BY <1>2, <1>4, <1>5, <1>9 DEF Judge
<1>12. clock' \in Nat /\ clock <= clock' /\ faults' \in Nat /\ n.at <= clock'
  BY <1>1, <1>6, <1>7
<1>13. Recorded' = Recorded
  BY <1>1 DEF Recorded
<1>14. n.head <= n.input /\ n.input <= head /\ n.snap <= head
  BY <1>2, <1>7, <1>1, <1>3 DEF ReviewerOk
<1>15. ReviewerOk(v)'
  BY <1>1, <1>3, <1>7, <1>8, <1>10, <1>12, <1>13, <1>14 DEF ReviewerOk, Looked, Numbered, Unsaved
<1>16. rv[r].pc \in Numbered /\ v.run.id = rv[r].run.id
  BY <1>1, <1>2, <1>7, <1>10 DEF Numbered
<1> QED
  BY <1>1, <1>10, <1>11, <1>12, <1>15, <1>16, GoesOn

(* Under the lock again: what it found is being written, then its record. *)
LEMMA WireStep == ASSUME RunInv, NEW r \in Reviewers, Wire(r) PROVE RunInv'
<1>1. rv[r].pc \in {"ended", "interrupted"} /\ UNCHANGED <<slot, head, runs, dirs, clock, faults>>
  BY DEF Wire
<1>2. PICK n \in AnyRun : n = rv[r].run /\ ReviewerOk(rv[r])
  BY <1>1, HeldTyped
<1>3. PICK v : v = [rv[r] EXCEPT !.pc = "wired"]
  OBVIOUS
<1>4. v \in Underway /\ v.pc = "wired" /\ v.run = n
  BY <1>1, <1>2, <1>3, HeldTyped DEF Underway
<1>5. rv' = [rv EXCEPT ![r] = v]
  BY <1>3 DEF Wire, RunInv
<1>6. Recorded' = Recorded /\ clock' \in Nat /\ clock <= clock' /\ faults' \in Nat
  BY <1>1 DEF Recorded, RunInv
<1>7. ReviewerOk(v)'
  BY <1>1, <1>2, <1>4, <1>6 DEF ReviewerOk, Looked, Numbered, Unsaved
<1>8. rv[r].pc \in Numbered /\ v.run.id = rv[r].run.id
  BY <1>1, <1>2, <1>4 DEF Numbered
<1> QED
  BY <1>1, <1>4, <1>5, <1>6, <1>7, <1>8, GoesOn

LEMMA SaveStep == ASSUME RunInv, NEW r \in Reviewers, SaveRun(r) PROVE RunInv'
<1>1. rv[r].pc = "wired" /\ UNCHANGED <<slot, head, dirs, clock, faults>>
  BY DEF SaveRun
<1>2. PICK n \in AnyRun : n = rv[r].run /\ ReviewerOk(rv[r])
  BY <1>1, HeldTyped
<1>3. n.id \in dirs /\ Looked(n) /\ n.at <= clock
  BY <1>1, <1>2 DEF ReviewerOk, Numbered
<1>4. PICK v : v = [rv[r] EXCEPT !.pc = "saved"]
  OBVIOUS
<1>5. v \in Underway /\ v.pc = "saved" /\ v.run = n
  BY <1>1, <1>2, <1>4, HeldTyped DEF Underway
<1>6. rv' = [rv EXCEPT ![r] = v] /\ runs' = runs \cup {n}
  BY <1>2, <1>4 DEF SaveRun, RunInv
<1>7. Recorded' = Recorded \cup {n.id}
  BY <1>6 DEF Recorded
<1>8. FilesOk'
  BY <1>1, <1>3, <1>6, <1>7 DEF RunInv, FilesOk, Looked
<1>9. ReviewerOk(v)'
  BY <1>1, <1>2, <1>5, <1>6 DEF ReviewerOk, Looked, Numbered, Unsaved
<1>10. /\ slot' \in [slug : Slugs, attempt : 1..MaxAttempt] /\ head' \in 1..MaxHead /\ head <= head'
       /\ clock' \in Nat /\ clock <= clock' /\ faults' \in Nat
       /\ dirs \subseteq dirs' /\ runs \subseteq runs'
  BY <1>1, <1>6 DEF RunInv
<1>11. \A q \in Reviewers : q # r /\ rv[q].pc \in Numbered => rv[q].run.id # n.id
  BY <1>1, <1>2 DEF RunInv, OwnNumbers, Numbered
<1>12. \A q \in Reviewers : q # r /\ rv[q].pc \in Unsaved => rv[q].run.id \notin Recorded' \ Recorded
  BY <1>7, <1>11 DEF Unsaved, Numbered
<1>13. \A q \in Reviewers :
         q # r /\ rv[q].pc \in Numbered /\ v.pc \in Numbered => rv[q].run.id # v.run.id
  BY <1>5, <1>11
<1> QED
  BY <1>5, <1>6, <1>8, <1>9, <1>10, <1>12, <1>13, Advanced

(* It is over, was killed, or the lock was busy. *)
LEMMA EndSteps ==
  ASSUME RunInv, NEW r \in Reviewers,
         Leave(r) \/ PrepareRefused(r) \/ LockRefused(r) \/ ReviewerKilled(r)
  PROVE  RunInv'
<1>0. faults \in Nat /\ clock \in Nat /\ faults + 1 \in Nat
  BY DEF RunInv
<1>1. CASE Leave(r)
  BY <1>0, <1>1, GivesUp DEF Leave
<1>2. CASE PrepareRefused(r)
  BY <1>0, <1>2, GivesUp DEF PrepareRefused
<1>3. CASE ReviewerKilled(r)
  BY <1>0, <1>3, GivesUp DEF ReviewerKilled
<1>4. CASE LockRefused(r)
  <2>1. faults' \in Nat /\ UNCHANGED <<slot, head, runs, dirs>>
    BY <1>0, <1>4 DEF LockRefused
  <2>2. ASSUME rv' = [rv EXCEPT ![r] = Idle], UNCHANGED clock PROVE RunInv'
    BY <2>1, <2>2, GivesUp
  <2>3. ASSUME rv[r].pc = "ended", clock' = clock + 1,
               rv' = [rv EXCEPT ![r] =
                 [pc |-> "interrupted",
                  run |-> [@.run EXCEPT !.valid = FALSE, !.reported = {}, !.at = clock + 1]]]
        PROVE  RunInv'
    <3>1. PICK old \in AnyRun : old = rv[r].run
      BY <2>3, HeldTyped
    <3>2. PICK n : n = [old EXCEPT !.valid = FALSE, !.reported = {}, !.at = clock + 1]
      OBVIOUS
    <3>3. /\ n \in AnyRun /\ n.id = old.id /\ n.head = old.head /\ n.input = old.input
          /\ n.snap = old.snap /\ ~n.valid /\ n.at = clock + 1
      <4>1. PICK no \in BOOLEAN : no = FALSE
        OBVIOUS
      <4>2. PICK nothing \in SUBSET Fps : nothing = {}
        OBVIOUS
      <4>3. PICK t \in Nat : t = clock + 1
        BY <1>0
      <4>4. n = [old EXCEPT !.valid = no, !.reported = nothing, !.at = t]
        BY <3>2, <4>1, <4>2, <4>3
      <4>5. /\ n \in AnyRun /\ n.id = old.id /\ n.head = old.head /\ n.input = old.input
            /\ n.snap = old.snap /\ n.valid = no /\ n.at = t
        BY <4>4 DEF AnyRun
      <4> QED  BY <4>1, <4>3, <4>5
    <3>4. rv' = [rv EXCEPT ![r] = [pc |-> "interrupted", run |-> n]]
      BY <2>3, <3>1, <3>2 DEF RunInv
    <3> QED  BY <2>1, <2>3, <3>1, <3>3, <3>4, Interrupted
  <2> QED  BY <1>4, <2>2, <2>3 DEF LockRefused
<1> QED  BY <1>1, <1>2, <1>3, <1>4

(* Whatever a reviewer does. *)
RunStep(r) ==
  \/ \E duty \in Duties, purpose \in Purposes : Admit(r, duty, purpose)
  \/ Pack(r) \/ \E leaks \in BOOLEAN : Prepare(r, leaks)
  \/ PrepareFailed(r) \/ PrepareRefused(r)
  \/ \E sound \in BOOLEAN, reported \in SUBSET Fps : Judge(r, sound, reported)
  \/ Wire(r) \/ SaveRun(r) \/ Leave(r) \/ LockRefused(r) \/ ReviewerKilled(r)

RunNext ==
  \/ Reattempt \/ Commit \/ \E slug \in Slugs : Rename(slug)
  \/ UNCHANGED run_vars
  \/ \E r \in Reviewers : RunStep(r)

LEMMA RunInvKept == RunInv /\ RunNext => RunInv'
<1> SUFFICES ASSUME RunInv, RunNext PROVE RunInv'
  OBVIOUS
<1>1. ASSUME NEW r \in Reviewers, RunStep(r) PROVE RunInv'
  BY <1>1, AdmitStep, PackStep, PrepareStep, PrepareFailedStep, JudgeStep, WireStep, SaveStep,
     EndSteps DEF RunStep
<1> QED
  BY <1>1, GoalSteps DEF RunNext

LEMMA RunInvStart == ReviewInit => RunInv
<1> SUFFICES ASSUME ReviewInit PROVE RunInv
  OBVIOUS
<1>1. slot \in [slug : Slugs, attempt : 1..MaxAttempt] /\ head \in 1..MaxHead
  BY ReviewAssumption DEF ReviewInit
<1>2. rv \in [Reviewers -> {Idle} \cup Underway] /\ \A r \in Reviewers : rv[r].pc = "idle"
  BY DEF ReviewInit, Idle
<1>3. FilesOk
  <2>1. IsFiniteSet(dirs) /\ Cardinality(dirs) = 0
    BY FS_EmptySet DEF ReviewInit
  <2> QED  BY <2>1, ReviewAssumption DEF ReviewInit, FilesOk, NoGap, Recorded
<1>4. OwnNumbers /\ \A r \in Reviewers : ReviewerOk(rv[r])
  BY <1>2 DEF OwnNumbers, ReviewerOk, Numbered
<1> QED  BY <1>1, <1>2, <1>3, <1>4 DEF RunInv, ReviewInit

LEMMA SoundOrNot == Soundness \subseteq BOOLEAN
BY DEF Soundness, Sound

LEMMA RunsCostSteps == BudgetNext \/ UNCHANGED all_budget => RunNext
<1>1. ASSUME UNCHANGED all_budget PROVE RunNext
  BY <1>1 DEF RunNext, all_budget, run_vars
<1>2. ASSUME NEW r \in Reviewers, ReviewerStep(r) PROVE RunNext
  <2>1. CASE Start(r)
    <3>1. "review" \in Purposes
      BY DEF Purposes
    <3> QED  BY <2>1, <3>1 DEF Start, RunNext, RunStep
  <2>2. CASE Charge(r) \/ Refused(r)
    BY <2>2 DEF Charge, Refused, RunNext, RunStep
  <2>3. CASE \E leaks \in BOOLEAN : Spawn(r, leaks)
    BY <2>3 DEF Spawn, RunNext, RunStep
  <2>4. ASSUME NEW metering \in Metering, End(r, metering) PROVE RunNext
    <3>1. PICK sound \in Soundness : Judge(r, sound /\ metering # "unknown", {})
      BY <2>4 DEF End
    <3>2. PICK b \in BOOLEAN : b = (sound /\ metering # "unknown")
      OBVIOUS
    <3>3. Judge(r, b, {}) /\ {} \in SUBSET Fps
      BY <3>1, <3>2
    <3> QED  BY <3>3 DEF RunNext, RunStep
  <2>5. CASE Pack(r) \/ Wire(r) \/ SaveRun(r) \/ PrepareRefused(r) \/ ReviewerKilled(r)
    BY <2>5 DEF RunNext, RunStep
  <2> QED  BY <1>2, <2>1, <2>2, <2>3, <2>4, <2>5 DEF ReviewerStep, Metering
<1>3. ASSUME AckMetering PROVE RunNext
  BY <1>3 DEF AckMetering, RunNext, run_vars
<1> QED  BY <1>1, <1>2, <1>3 DEF BudgetNext, RunNext

LEMMA RunsFoundSteps == FindingsNext \/ UNCHANGED all_findings => RunNext
<1>1. ASSUME UNCHANGED all_findings PROVE RunNext
  BY <1>1 DEF RunNext, all_findings, run_vars
<1>2. ASSUME NEW r \in Reviewers, ReviewStep(r) PROVE RunNext
  <2>1. CASE AdmitReview(r)
    <3>1. {"review", "recheck"} \cup Fps = Purposes
      BY DEF Purposes
    <3> QED  BY <2>1, <3>1 DEF AdmitReview, RunNext, RunStep
  <2>2. CASE WireFindings(r)
    BY <2>2 DEF WireFindings, RunNext, RunStep
  <2>3. CASE \E sound \in Soundness, reported \in SUBSET Fps : Judge(r, sound, reported)
    BY <2>3, SoundOrNot DEF RunNext, RunStep
  <2>4. CASE Pack(r) \/ Prepare(r, FALSE) \/ SaveRun(r) \/ Leave(r) \/ LockRefused(r)
             \/ ReviewerKilled(r)
    BY <2>4 DEF RunNext, RunStep
  <2> QED  BY <1>2, <2>1, <2>2, <2>3, <2>4 DEF ReviewStep
<1>3. ASSUME FindingCommand PROVE RunNext
  <2>1. UNCHANGED run_vars
    <3>1. CASE \E slug \in Slugs, fp \in Fps :
                 \/ RequestResolve(slug, fp) \/ Contest(slug, fp) \/ Diagnose(slug, fp)
                 \/ Reopen(slug, fp)
                 \/ \E run \in runs : Close(slug, fp, run) \/ Adjudicate(slug, fp, run)
      <4>1. PICK slug \in Slugs, fp \in Fps :
              \/ RequestResolve(slug, fp) \/ Contest(slug, fp) \/ Diagnose(slug, fp)
              \/ Reopen(slug, fp)
              \/ \E run \in runs : Close(slug, fp, run) \/ Adjudicate(slug, fp, run)
        BY <3>1
      <4>2. RequestResolve(slug, fp) => UNCHANGED run_vars
        BY DEF RequestResolve, Command
      <4>3. Contest(slug, fp) => UNCHANGED run_vars
        BY DEF Contest, Command
      <4>4. Diagnose(slug, fp) => UNCHANGED run_vars
        BY DEF Diagnose, Command
      <4>5. Reopen(slug, fp) => UNCHANGED run_vars
        BY DEF Reopen, Command
      <4>6. ASSUME NEW run \in runs PROVE Close(slug, fp, run) => UNCHANGED run_vars
        BY DEF Close, Command
      <4>7. ASSUME NEW run \in runs PROVE Adjudicate(slug, fp, run) => UNCHANGED run_vars
        BY DEF Adjudicate, Command
      <4> QED  BY <4>1, <4>2, <4>3, <4>4, <4>5, <4>6, <4>7
    <3>2. CASE (\E from, to \in Slugs : Relink(from, to)) \/ Save
      BY <3>2 DEF Relink, Save
    <3> QED  BY <1>3, <3>1, <3>2 DEF FindingCommand
  <2> QED  BY <2>1 DEF RunNext
<1> QED  BY <1>1, <1>2, <1>3 DEF FindingsNext, RunNext

(* A run that counts as a review of a candidate looked at that candidate    *)
(* and was told of it, however many reviewers and commits there are, killed *)
(* and refused at any step: where its cost is counted ...                   *)
THEOREM CostedReviewsLooked == BudgetSpec => []ReviewedWhatItNames
<1>1. RunInv => ReviewedWhatItNames
  BY DEF RunInv, FilesOk, Looked, ReviewedWhatItNames
<1>2. BudgetInit => RunInv
  BY RunInvStart DEF BudgetInit
<1>3. RunInv /\ [BudgetNext]_all_budget => RunInv'
  BY RunInvKept, RunsCostSteps
<1> QED  BY <1>1, <1>2, <1>3, PTL DEF BudgetSpec

(* ... and where what it reports is kept. *)
THEOREM FindingReviewsLooked == FindingsSpec => []ReviewedWhatItNames
<1>1. RunInv => ReviewedWhatItNames
  BY DEF RunInv, FilesOk, Looked, ReviewedWhatItNames
<1>2. FindingsInit => RunInv
  BY RunInvStart DEF FindingsInit
<1>3. RunInv /\ [FindingsNext]_all_findings => RunInv'
  BY RunInvKept, RunsFoundSteps
<1> QED  BY <1>1, <1>2, <1>3, PTL DEF FindingsSpec
-----------------------------------------------------------------------------
(* The ledger of findings (Findings).                                       *)

Counted(n) == n \in runs \/ \E r \in Reviewers : rv[r].pc # "idle" /\ rv[r].run = n

LEMMA CountedOf ==
  ASSUME RunInv, NEW r \in Reviewers, NEW v, rv' = [rv EXCEPT ![r] = v],
         \A n \in runs' \ runs : Counted(n),
         v.pc = "idle" \/ Counted(v.run) \/ ~v.run.valid \/ v.run.snap = head
  PROVE  \A n \in AnyRun : Counted(n)' /\ n.valid => Counted(n) \/ n.snap = head
<1> SUFFICES ASSUME NEW n \in AnyRun, Counted(n)', n.valid PROVE Counted(n) \/ n.snap = head
  OBVIOUS
<1>1. CASE n \in runs'
  BY <1>1 DEF Counted
<1>2. ASSUME NEW q \in Reviewers, rv'[q].pc # "idle", rv'[q].run = n
      PROVE  Counted(n) \/ n.snap = head
  <2>1. CASE q = r
    BY <1>2, <2>1 DEF RunInv
  <2>2. CASE q # r
    BY <1>2, <2>2 DEF RunInv, Counted
  <2> QED  BY <2>1, <2>2
<1> QED  BY <1>1, <1>2 DEF Counted

(* Time, candidates and records only grow, and a run that comes to count    *)
(* looked at the candidate there is.                                        *)
LEMMA OnlyLooksBack ==
  ASSUME RunInv, RunNext
  PROVE  /\ clock <= clock' /\ head <= head' /\ runs \subseteq runs'
         /\ \A n \in AnyRun : Counted(n)' /\ n.valid => Counted(n) \/ n.snap = head
<1>0. clock \in Nat /\ head \in 1..MaxHead /\ rv \in [Reviewers -> {Idle} \cup Underway]
      /\ clock <= clock + 1 /\ Idle.pc = "idle"
  BY DEF RunInv, Idle
<1>1. ASSUME UNCHANGED <<rv, runs, clock>>, head <= head'
      PROVE  /\ clock <= clock' /\ head <= head' /\ runs \subseteq runs'
             /\ \A n \in AnyRun : Counted(n)' /\ n.valid => Counted(n) \/ n.snap = head
  BY <1>0, <1>1 DEF Counted
<1>2. ASSUME Reattempt \/ Commit \/ (\E slug \in Slugs : Rename(slug)) \/ UNCHANGED run_vars
      PROVE  UNCHANGED <<rv, runs, clock>> /\ head <= head'
  BY <1>0, <1>2 DEF Reattempt, Commit, Rename, run_vars
<1>3. ASSUME NEW r \in Reviewers, RunStep(r)
      PROVE  /\ clock <= clock' /\ head <= head' /\ runs \subseteq runs'
             /\ \A n \in AnyRun : Counted(n)' /\ n.valid => Counted(n) \/ n.snap = head
  <2> DEFINE Result == /\ clock <= clock' /\ head <= head' /\ runs \subseteq runs'
                       /\ \A n \in AnyRun : Counted(n)' /\ n.valid => Counted(n) \/ n.snap = head
  <2>h. rv[r].pc # "idle" => rv[r].run \in AnyRun /\ ReviewerOk(rv[r]) /\ Counted(rv[r].run)
    BY HeldTyped DEF Counted
  <2>c. ASSUME NEW v, rv' = [rv EXCEPT ![r] = v], clock <= clock', head' = head, runs' = runs,
               v.pc = "idle" \/ Counted(v.run) \/ ~v.run.valid \/ v.run.snap = head
        PROVE  Result
    <3>1. \A n \in runs' \ runs : Counted(n)
      BY <2>c
    <3>2. \A n \in AnyRun : Counted(n)' /\ n.valid => Counted(n) \/ n.snap = head
      BY <2>c, <3>1, CountedOf
    <3>3. head <= head' /\ runs \subseteq runs'
      BY <1>0, <2>c
    <3> QED  BY <2>c, <3>2, <3>3
  <2> HIDE DEF Result
  <2>1. ASSUME NEW duty \in Duties, NEW purpose \in Purposes, Admit(r, duty, purpose) PROVE Result
    <3>1. PICK v : v = [pc |-> "admitted",
        run |-> [id |-> [slug |-> slot.slug, attempt |-> slot.attempt, seq |-> 1],
                 duty |-> duty, purpose |-> purpose, head |-> head, input |-> head,
                 snap |-> head, at |-> 0, spawned |-> FALSE, valid |-> FALSE, reported |-> {}]]
      OBVIOUS
    <3>2. rv' = [rv EXCEPT ![r] = v] /\ clock <= clock' /\ head' = head /\ runs' = runs
      BY <1>0, <2>1, <3>1 DEF Admit
    <3>3. ~v.run.valid
      BY <3>1
    <3> QED  BY <2>c, <3>2, <3>3
  <2>2. ASSUME Pack(r) PROVE Result
    <3>1. PICK v : v = [pc |-> "packing", run |-> buildInputPackage(reserveRun(rv[r].run))]
      OBVIOUS
    <3>2. rv' = [rv EXCEPT ![r] = v] /\ clock <= clock' /\ head' = head /\ runs' = runs
          /\ rv[r].pc = "admitted"
      BY <1>0, <2>2, <3>1 DEF Pack
    <3>3. ~rv[r].run.valid
      BY <2>h, <3>2 DEF ReviewerOk
    <3>4. ~v.run.valid
      BY <2>h, <3>1, <3>2, <3>3 DEF buildInputPackage, reserveRun, AnyRun
    <3> QED  BY <2>c, <3>2, <3>4
  <2>3. ASSUME NEW leaks \in BOOLEAN, Prepare(r, leaks) PROVE Result
    <3>1. PICK v : v = IF leaks THEN [pc |-> "ended", run |-> [materializeCandidate(rv[r].run) EXCEPT !.at = clock + 1]]
                       ELSE [pc |-> "running", run |-> [materializeCandidate(rv[r].run) EXCEPT !.spawned = TRUE]]
      OBVIOUS
    <3>2. rv' = [rv EXCEPT ![r] = v] /\ clock <= clock' /\ head' = head /\ runs' = runs
          /\ rv[r].pc = "packing"
      BY <1>0, <2>3, <3>1 DEF Prepare
    <3>3. ~rv[r].run.valid
      BY <2>h, <3>2 DEF ReviewerOk
    <3>4. ~v.run.valid
      BY <2>h, <3>1, <3>2, <3>3 DEF materializeCandidate, AnyRun
    <3> QED  BY <2>c, <3>2, <3>4
  <2>4. ASSUME PrepareFailed(r) PROVE Result
    <3>1. PICK v : v = [pc |-> "interrupted", run |-> [rv[r].run EXCEPT !.at = clock + 1]]
      OBVIOUS
    <3>2. rv' = [rv EXCEPT ![r] = v] /\ clock <= clock' /\ head' = head /\ runs' = runs
          /\ rv[r].pc = "packing"
      BY <1>0, <2>4, <3>1 DEF PrepareFailed
    <3>3. ~rv[r].run.valid
      BY <2>h, <3>2 DEF ReviewerOk
    <3>4. ~v.run.valid
      BY <2>h, <3>1, <3>2, <3>3 DEF AnyRun
    <3> QED  BY <2>c, <3>2, <3>4
  <2>5. ASSUME NEW sound \in BOOLEAN, NEW reported \in SUBSET Fps, Judge(r, sound, reported)
        PROVE  Result
    <3>1. PICK valid : valid = (sound /\ ~Moved(rv[r].run))
      OBVIOUS
    <3>2. PICK n : n = [rv[r].run EXCEPT !.at = clock + 1, !.valid = valid,
                                         !.reported = IF valid THEN reported ELSE {}]
      OBVIOUS
    <3>3. PICK v : v = [pc |-> "ended", run |-> n]
      OBVIOUS
    <3>4. rv' = [rv EXCEPT ![r] = v] /\ clock <= clock' /\ head' = head /\ runs' = runs
          /\ rv[r].pc = "running"
      BY <1>0, <2>5, <3>1, <3>2, <3>3 DEF Judge
    <3>5. v.run = n /\ n.valid = valid /\ n.snap = rv[r].run.snap
      BY <2>h, <3>2, <3>3, <3>4 DEF AnyRun
    <3>6. valid => rv[r].run.snap = head
      <4>1. /\ rv[r].run.head <= rv[r].run.input /\ rv[r].run.input <= rv[r].run.snap
            /\ rv[r].run.snap <= head
        BY <2>h, <3>4 DEF ReviewerOk
      <4>2. rv[r].run.head \in Nat /\ rv[r].run.input \in Nat /\ rv[r].run.snap \in Nat
        BY <2>h, <3>4 DEF AnyRun
      <4>3. valid => head = rv[r].run.head
        BY <3>1 DEF Moved
      <4> QED  BY <1>0, <4>1, <4>2, <4>3
    <3>7. ~v.run.valid \/ v.run.snap = head
      BY <3>5, <3>6
    <3> QED  BY <2>c, <3>4, <3>7
  <2>6. ASSUME Wire(r) PROVE Result
    <3>1. PICK v : v = [rv[r] EXCEPT !.pc = "wired"]
      OBVIOUS
    <3>2. rv' = [rv EXCEPT ![r] = v] /\ clock <= clock' /\ head' = head /\ runs' = runs
          /\ rv[r].pc # "idle"
      BY <1>0, <2>6, <3>1 DEF Wire
    <3>3. v.run = rv[r].run
      BY <1>0, <3>1, <3>2 DEF Underway, Idle
    <3>4. Counted(v.run)
      BY <2>h, <3>2, <3>3
    <3> QED  BY <2>c, <3>2, <3>4
  <2>7. ASSUME SaveRun(r) PROVE Result
    <3>1. PICK v : v = [rv[r] EXCEPT !.pc = "saved"]
      OBVIOUS
    <3>2. rv' = [rv EXCEPT ![r] = v] /\ clock <= clock' /\ head' = head
          /\ runs' = runs \cup {rv[r].run} /\ rv[r].pc # "idle"
      BY <1>0, <2>7, <3>1 DEF SaveRun
    <3>3. v.run = rv[r].run
      BY <1>0, <3>1, <3>2 DEF Underway, Idle
    <3>4. (\A n \in runs' \ runs : Counted(n)) /\ Counted(v.run)
      BY <2>h, <3>2, <3>3
    <3>5. \A n \in AnyRun : Counted(n)' /\ n.valid => Counted(n) \/ n.snap = head
      BY <3>2, <3>4, CountedOf
    <3> QED  BY <1>0, <3>2, <3>5 DEF Result
  <2>8. ASSUME Leave(r) \/ PrepareRefused(r) \/ LockRefused(r) \/ ReviewerKilled(r) PROVE Result
    <3>1. clock <= clock' /\ head' = head /\ runs' = runs
      BY <1>0, <2>8 DEF Leave, PrepareRefused, LockRefused, ReviewerKilled
    <3>2. ASSUME rv' = [rv EXCEPT ![r] = Idle] PROVE Result
      BY <1>0, <2>c, <3>1, <3>2
    <3>3. ASSUME rv[r].pc = "ended",
                 rv' = [rv EXCEPT ![r] =
                   [pc |-> "interrupted",
                    run |-> [@.run EXCEPT !.valid = FALSE, !.reported = {}, !.at = clock + 1]]]
          PROVE  Result
      <4>1. PICK v : v = [pc |-> "interrupted",
                          run |-> [rv[r].run EXCEPT !.valid = FALSE, !.reported = {}, !.at = clock + 1]]
        OBVIOUS
      <4>2. ~v.run.valid
        BY <2>h, <3>3, <4>1 DEF AnyRun
      <4>3. rv' = [rv EXCEPT ![r] = v]
        BY <1>0, <3>3, <4>1
      <4> QED  BY <2>c, <3>1, <4>2, <4>3
    <3> QED
      BY <2>8, <3>2, <3>3 DEF Leave, PrepareRefused, LockRefused, ReviewerKilled
  <2> QED
    BY <1>3, <2>1, <2>2, <2>3, <2>4, <2>5, <2>6, <2>7, <2>8 DEF RunStep, Result
<1> QED
  BY <1>1, <1>2, <1>3 DEF RunNext

AnyLedger == [aliases : SUBSET Slugs, found : [Fps -> AnyEntry \cup {None}]]

(* Whatever counts and ended after the mark looked at the commit of the     *)
(* mark or a later one.                                                     *)
Covers(m) ==
  /\ m.at <= clock /\ m.head <= head
  /\ \A n \in AnyRun : Counted(n) /\ n.valid /\ n.at > m.at => n.snap >= m.head

Cited(e, fp) ==
  \E n \in runs : /\ n.id = e.closure /\ n.valid /\ n.purpose # "review"
                  /\ n.duty = e.duty /\ fp \notin n.reported
                  /\ (MarkOf(e) # None => n.snap >= MarkOf(e).head)

(* An entry, on disk or about to be written there. *)
EntryOk(e, fp) ==
  /\ e.count >= Threshold <=> e.status = "diagnosis-required"
  /\ e.status = "contested" => e.contest # None
  /\ e.status = "resolve-requested" =>
       e.claim # None /\ (e.contest # None => e.contest.at <= e.claim.at)
  /\ e.claim # None => Covers(e.claim)
  /\ e.contest # None => Covers(e.contest)
  /\ e.status \in Closed => Cited(e, fp)

LedgerOk(l) == \A fp \in Fps : l.found[fp] # None => EntryOk(l.found[fp], fp)

AnyHand == [slug : Slugs, write : AnyLedger, missed : SUBSET Fps]

FindInv ==
  /\ RunInv
  /\ ledger \in [Slugs -> AnyLedger]
  /\ hand \in {None} \cup AnyHand
  /\ \A s \in Slugs : LedgerOk(ledger[s])
  /\ hand # None => LedgerOk(hand.write)

LEMMA EntryStays ==
  ASSUME RunInv, RunNext, NEW e \in AnyEntry, NEW fp, EntryOk(e, fp)
  PROVE  EntryOk(e, fp)'
<1>1. /\ clock <= clock' /\ head <= head' /\ runs \subseteq runs'
      /\ \A n \in AnyRun : Counted(n)' /\ n.valid => Counted(n) \/ n.snap = head
  BY OnlyLooksBack
<1>2. /\ clock \in Nat /\ clock' \in Nat /\ head \in Nat /\ head' \in Nat
  <2>1. RunInv'
    BY RunInvKept
  <2> QED  BY <2>1 DEF RunInv
<1>3. ASSUME NEW m \in AnyMark, Covers(m) PROVE Covers(m)'
  <2>1. m.at \in Nat /\ m.head \in Nat /\ m.at <= clock /\ m.head <= head
    BY <1>3 DEF AnyMark, Covers
  <2>2. m.at <= clock' /\ m.head <= head'
    BY <1>1, <1>2, <2>1
  <2>3. ASSUME NEW n \in AnyRun, Counted(n)', n.valid, n.at > m.at PROVE n.snap >= m.head
    <3>1. CASE Counted(n)
      BY <1>3, <2>3, <3>1 DEF Covers
    <3>2. CASE n.snap = head
      BY <1>2, <2>1, <3>2
    <3> QED  BY <1>1, <2>3, <3>1, <3>2
  <2> QED  BY <2>2, <2>3 DEF Covers
<1>4. (e.claim # None => Covers(e.claim)') /\ (e.contest # None => Covers(e.contest)')
  BY <1>3 DEF EntryOk, AnyEntry
<1>5. Cited(e, fp) => Cited(e, fp)'
  BY <1>1 DEF Cited, MarkOf
<1> QED  BY <1>4, <1>5 DEF EntryOk

(* Who writes down the moment writes down one that covers what counts. *)
LEMMA NowCovers ==
  ASSUME RunInv
  PROVE  Now \in AnyMark /\ Now # None /\ Covers(Now) /\ Now.at = clock
<1>1. clock \in Nat /\ head \in Nat
  BY DEF RunInv
<1>2. Now \in AnyMark /\ Now.at = clock /\ Now.head = head
  BY <1>1 DEF Now, AnyMark
<1>3. Now # None
  BY <1>2, FindingsAssumption DEF AnyMark
<1>4. ASSUME NEW n \in AnyRun, Counted(n) PROVE n.at \in Nat /\ n.at <= clock
  BY <1>4 DEF RunInv, FilesOk, ReviewerOk, Counted, AnyRun
<1>5. \A n \in AnyRun : Counted(n) => ~(n.at > clock)
  BY <1>1, <1>4
<1> QED  BY <1>1, <1>2, <1>3, <1>5 DEF Covers

-----------------------------------------------------------------------------
(* What a command writes.                                                   *)

LEMMA Claimed ==
  ASSUME RunInv, NEW e \in AnyEntry, NEW fp, EntryOk(e, fp), e.status \in Closed \cup {"open"},
         NEW n, n = [e EXCEPT !.status = "resolve-requested", !.claim = Now]
  PROVE  n \in AnyEntry /\ EntryOk(n, fp)
<1>1. PICK m \in AnyMark : m = Now /\ m # None /\ Covers(m) /\ m.at = clock
  BY NowCovers
<1>2. /\ n \in AnyEntry /\ n.status = "resolve-requested" /\ n.claim = m
      /\ n.count = e.count /\ n.contest = e.contest
  BY <1>1 DEF AnyEntry, Open
<1>3. ~(e.count >= Threshold)
  BY DEF EntryOk, Closed
<1>4. e.contest # None => e.contest.at <= m.at
  BY <1>1 DEF EntryOk, Covers
<1> QED  BY <1>1, <1>2, <1>3, <1>4 DEF EntryOk, Closed

LEMMA Contested ==
  ASSUME RunInv, NEW e \in AnyEntry, NEW fp, EntryOk(e, fp), e.status \in {"open", "contested"},
         NEW n, n = [e EXCEPT !.status = "contested", !.contest = Now]
  PROVE  n \in AnyEntry /\ EntryOk(n, fp)
<1>1. PICK m \in AnyMark : m = Now /\ m # None /\ Covers(m)
  BY NowCovers
<1>2. /\ n \in AnyEntry /\ n.status = "contested" /\ n.contest = m
      /\ n.count = e.count /\ n.claim = e.claim
  BY <1>1 DEF AnyEntry, Open
<1>3. ~(e.count >= Threshold)
  BY DEF EntryOk
<1> QED  BY <1>1, <1>2, <1>3 DEF EntryOk, Closed

LEMMA Diagnosed ==
  ASSUME NEW e \in AnyEntry, NEW fp, EntryOk(e, fp),
         NEW n, n = [e EXCEPT !.status = "open", !.count = 0]
  PROVE  n \in AnyEntry /\ EntryOk(n, fp)
<1>1. /\ n \in AnyEntry /\ n.status = "open" /\ n.count = 0
      /\ n.claim = e.claim /\ n.contest = e.contest
  BY DEF AnyEntry, Open
<1>2. ~(0 >= Threshold)
  BY FindingsAssumption
<1> QED  BY <1>1, <1>2 DEF EntryOk, Closed

(* A run that is cited is recorded, and ended after the mark. *)
LEMMA Cites ==
  ASSUME RunInv, NEW e \in AnyEntry, NEW fp, EntryOk(e, fp), NEW run \in runs, run.valid,
         run.duty = e.duty, run.purpose # "review", fp \notin run.reported,
         NEW st \in Closed, NEW n, n = [e EXCEPT !.status = st, !.closure = run.id],
         ~(e.count >= Threshold),
         \/ st = "closed-falsified" /\ e.contest # None /\ run.at > e.contest.at
         \/ e.claim # None /\ run.at > e.claim.at
              /\ (e.contest # None => e.contest.at <= e.claim.at)
  PROVE  n \in AnyEntry /\ EntryOk(n, fp)
<1>1. run \in AnyRun /\ run.id \in Id /\ run.at \in Nat /\ Counted(run)
  BY DEF RunInv, FilesOk, AnyRun, Counted
<1>2. /\ n \in AnyEntry /\ n.status = st /\ n.closure = run.id /\ n.duty = e.duty
      /\ n.count = e.count /\ n.claim = e.claim /\ n.contest = e.contest
  BY <1>1 DEF AnyEntry
<1>3. /\ e.claim # None => e.claim \in AnyMark /\ Covers(e.claim)
      /\ e.contest # None => e.contest \in AnyMark /\ Covers(e.contest)
  BY DEF AnyEntry, EntryOk
<1>4. MarkOf(n) # None => MarkOf(n) \in AnyMark /\ Covers(MarkOf(n)) /\ run.at > MarkOf(n).at
  <2>1. CASE st = "closed-falsified" /\ e.contest # None
    <3>1. MarkOf(n) = e.contest
      BY <1>2, <2>1 DEF MarkOf
    <3>2. run.at > e.contest.at
      <4>1. e.contest.at \in Nat /\ (e.claim # None => e.claim.at \in Nat)
        BY <1>3, <2>1 DEF AnyMark
      <4> QED  BY <1>1, <2>1, <4>1
    <3> QED  BY <1>3, <2>1, <3>1, <3>2
  <2>2. CASE ~(st = "closed-falsified" /\ e.contest # None)
    BY <1>2, <1>3, <2>2 DEF MarkOf
  <2> QED  BY <2>1, <2>2
<1>5. MarkOf(n) # None => run.snap >= MarkOf(n).head
  BY <1>1, <1>4 DEF Covers
<1>6. Cited(n, fp)
  BY <1>2, <1>5 DEF Cited
<1>7. n.status \notin {"contested", "resolve-requested", "diagnosis-required"}
  BY <1>2 DEF Closed
<1> QED  BY <1>2, <1>3, <1>6, <1>7 DEF EntryOk

(* What a valid run writes of a finding it reports. *)
LEMMA SightedOk ==
  ASSUME RunInv, NEW e \in AnyEntry \cup {None}, NEW fp, e # None => EntryOk(e, fp),
         NEW run \in AnyRun
  PROVE  Sighted(e, run) \in AnyEntry /\ EntryOk(Sighted(e, run), fp)
<1>r. run.duty \in Duties /\ run.at \in Nat
  BY DEF AnyRun
<1>t. Threshold \in Nat /\ ~(0 >= Threshold)
  BY FindingsAssumption
<1>1. PICK n : n = Sighted(e, run)
  OBVIOUS
<1>2. CASE e = None
  <2>1. n = NewEntry(run)
    BY <1>1, <1>2 DEF Sighted
  <2>2. /\ n \in AnyEntry /\ n.status = "open" /\ n.count = 0 /\ n.claim = None /\ n.contest = None
    BY <1>r, <2>1 DEF NewEntry, AnyEntry, Open
  <2> QED  BY <1>1, <1>t, <2>2 DEF EntryOk, Closed
<1>3. CASE e # None /\ e.status \in Closed
  <2>1. n = [e EXCEPT !.status = "open", !.last = run.at, !.count = 0,
                      !.claim = None, !.contest = None, !.closure = None]
    BY <1>1, <1>3 DEF Sighted, Closed
  <2>2. /\ n \in AnyEntry /\ n.status = "open" /\ n.count = 0 /\ n.claim = None /\ n.contest = None
    BY <1>r, <1>3, <2>1 DEF AnyEntry, Open
  <2> QED  BY <1>1, <1>t, <2>2 DEF EntryOk, Closed
<1>4. CASE e # None /\ e.status = "resolve-requested"
  <2>1. PICK st \in {"diagnosis-required", "open"} :
          st = IF e.count + 1 >= Threshold THEN "diagnosis-required" ELSE "open"
    OBVIOUS
  <2>2. n = [e EXCEPT !.status = st, !.last = run.at, !.count = @ + 1, !.claim = None]
    BY <1>1, <1>4, <2>1 DEF Sighted, Closed
  <2>3. /\ n \in AnyEntry /\ n.status = st /\ n.count = e.count + 1 /\ n.claim = None
        /\ n.contest = e.contest
    <3>1. PICK old \in AnyEntry : old = e
      BY <1>4
    <3>2. PICK c \in Nat : c = old.count + 1
      BY DEF AnyEntry
    <3>3. PICK no \in AnyMark \cup {None} : no = None
      OBVIOUS
    <3>4. n = [old EXCEPT !.status = st, !.last = run.at, !.count = c, !.claim = no]
      BY <2>2, <3>1, <3>2, <3>3
    <3>5. /\ n \in AnyEntry /\ n.status = st /\ n.count = c /\ n.claim = no
          /\ n.contest = old.contest
      BY <1>r, <3>4 DEF AnyEntry, Open
    <3> QED  BY <3>1, <3>2, <3>3, <3>5
  <2>4. n.count >= Threshold <=> st = "diagnosis-required"
    BY <2>1, <2>3
  <2> QED  BY <1>1, <1>4, <2>1, <2>3, <2>4 DEF EntryOk, Closed
<1>5. CASE e # None /\ e.status \notin Closed \cup {"resolve-requested"}
  <2>1. n = [e EXCEPT !.last = run.at]
    BY <1>1, <1>5 DEF Sighted
  <2>2. /\ n \in AnyEntry /\ n.status = e.status /\ n.count = e.count /\ n.claim = e.claim
        /\ n.contest = e.contest
    BY <1>r, <1>5, <2>1 DEF AnyEntry
  <2> QED  BY <1>1, <1>5, <2>2 DEF EntryOk
<1> QED  BY <1>2, <1>3, <1>4, <1>5

-----------------------------------------------------------------------------
(* The steps of the ledger.                                                 *)

LEMMA LedgerStays ==
  ASSUME FindInv, RunNext, NEW l \in AnyLedger, LedgerOk(l)
  PROVE  LedgerOk(l)'
<1> SUFFICES ASSUME NEW fp \in Fps, l.found[fp] # None PROVE EntryOk(l.found[fp], fp)'
  BY DEF LedgerOk
<1>1. PICK e \in AnyEntry : e = l.found[fp] /\ EntryOk(e, fp)
  BY DEF AnyLedger, LedgerOk
<1>2. EntryOk(e, fp)'
  BY <1>1, EntryStays DEF FindInv
<1> QED  BY <1>1, <1>2

(* A run goes on and no finding is touched. *)
LEMMA LedgerUntouched == ASSUME FindInv, RunNext, UNCHANGED findings_vars PROVE FindInv'
<1>1. RunInv'
  BY RunInvKept DEF FindInv
<1>2. ASSUME NEW s \in Slugs PROVE LedgerOk(ledger[s])'
  <2>1. PICK l \in AnyLedger : l = ledger[s] /\ l = ledger'[s] /\ LedgerOk(l)
    BY DEF FindInv, findings_vars
  <2>2. LedgerOk(l)'
    BY <2>1, LedgerStays
  <2> QED  BY <2>1, <2>2
<1>3. ASSUME hand' # None PROVE LedgerOk(hand.write)'
  <2>1. PICK l \in AnyLedger : l = hand.write /\ l = hand'.write /\ LedgerOk(l)
    BY <1>3 DEF FindInv, findings_vars, AnyHand
  <2>2. LedgerOk(l)'
    BY <2>1, LedgerStays
  <2> QED  BY <2>1, <2>2
<1>4. ledger' \in [Slugs -> AnyLedger] /\ hand' \in {None} \cup AnyHand
  BY DEF FindInv, findings_vars
<1> QED  BY <1>1, <1>2, <1>3, <1>4 DEF FindInv

(* A command takes a file in hand. *)
LEMMA Taken ==
  ASSUME FindInv, UNCHANGED <<run_vars, ledger>>, NEW slug \in Slugs, NEW l \in AnyLedger,
         LedgerOk(l), hand' = [slug |-> slug, write |-> l, missed |-> {}]
  PROVE  FindInv'
<1>1. RunNext
  BY DEF RunNext
<1>2. RunInv'
  BY <1>1, RunInvKept DEF FindInv
<1>3. ASSUME NEW s \in Slugs PROVE LedgerOk(ledger[s])'
  <2>1. PICK k \in AnyLedger : k = ledger[s] /\ k = ledger'[s] /\ LedgerOk(k)
    BY DEF FindInv
  <2>2. LedgerOk(k)'
    BY <1>1, <2>1, LedgerStays
  <2> QED  BY <2>1, <2>2
<1>4. LedgerOk(l)'
  BY <1>1, LedgerStays
<1>5. hand' \in AnyHand /\ hand'.write = l
  BY DEF AnyHand
<1>6. LedgerOk(hand.write)'
  BY <1>4, <1>5
<1> QED  BY <1>2, <1>3, <1>5, <1>6 DEF FindInv

LEMMA Written ==
  ASSUME FindInv, UNCHANGED <<run_vars, ledger>>, NEW slug \in Slugs, NEW fp \in Fps,
         NEW n \in AnyEntry, EntryOk(n, fp),
         hand' = [slug |-> slug, write |-> [ledger[slug] EXCEPT !.found[fp] = n], missed |-> {}]
  PROVE  FindInv'
<1>1. ledger[slug] \in AnyLedger /\ LedgerOk(ledger[slug])
  BY DEF FindInv
<1>2. PICK l : l = [ledger[slug] EXCEPT !.found[fp] = n]
  OBVIOUS
<1>3. /\ l \in AnyLedger /\ l.found[fp] = n
      /\ \A other \in Fps : other # fp => l.found[other] = ledger[slug].found[other]
  <2>1. PICK old \in AnyLedger : old = ledger[slug]
    BY <1>1
  <2>2. PICK f : f = [old.found EXCEPT ![fp] = n]
    OBVIOUS
  <2>3. /\ f \in [Fps -> AnyEntry \cup {None}] /\ f[fp] = n
        /\ \A other \in Fps : other # fp => f[other] = old.found[other]
    BY <2>2 DEF AnyLedger
  <2>4. l = [old EXCEPT !.found = f]
    BY <1>2, <2>1, <2>2
  <2>5. l \in AnyLedger /\ l.found = f
    BY <2>3, <2>4 DEF AnyLedger
  <2> QED  BY <2>1, <2>3, <2>5
<1>4. LedgerOk(l)
  BY <1>1, <1>3 DEF LedgerOk
<1>5. hand' = [slug |-> slug, write |-> l, missed |-> {}]
  BY <1>2
<1> QED  BY <1>3, <1>4, <1>5, Taken

(* What a command finds: one entry of one ledger. *)
LEMMA Looked_up ==
  ASSUME FindInv, NEW slug \in Slugs, NEW fp \in Fps,
         \E through \in Slugs : Hits(through, fp) = {slug}
  PROVE  ledger[slug].found[fp] \in AnyEntry /\ EntryOk(ledger[slug].found[fp], fp)
<1>1. ledger[slug].found[fp] # None
  BY DEF Hits
<1>2. ledger[slug] \in AnyLedger /\ LedgerOk(ledger[slug])
  BY DEF FindInv
<1> QED  BY <1>1, <1>2 DEF AnyLedger, LedgerOk

LEMMA CommandSteps ==
  ASSUME FindInv, NEW slug \in Slugs, NEW fp \in Fps,
         \/ RequestResolve(slug, fp) \/ Contest(slug, fp) \/ Diagnose(slug, fp)
         \/ Reopen(slug, fp)
         \/ \E run \in runs : Close(slug, fp, run) \/ Adjudicate(slug, fp, run)
  PROVE  FindInv'
<1>i. RunInv
  BY DEF FindInv
<1> DEFINE Asked == UNCHANGED <<run_vars, ledger>> /\ \E through \in Slugs : Hits(through, fp) = {slug}
           e == ledger[slug].found[fp]
           Writes(n) == hand' = [slug |-> slug, write |-> [ledger[slug] EXCEPT !.found[fp] = n],
                                 missed |-> {}]
<1>a. Asked => e \in AnyEntry /\ EntryOk(e, fp)
  BY Looked_up
<1>w. ASSUME NEW n \in AnyEntry, EntryOk(n, fp), Asked, Writes(n) PROVE FindInv'
  BY <1>w, Written
<1>1. CASE RequestResolve(slug, fp)
  <2>1. PICK n : /\ Asked /\ Writes(n) /\ e.status = "open"
                 /\ n = [e EXCEPT !.status = "resolve-requested", !.claim = Now]
    BY <1>1 DEF RequestResolve, Command
  <2> HIDE DEF Asked, e, Writes
  <2>2. n \in AnyEntry /\ EntryOk(n, fp)
    BY <1>i, <1>a, <2>1, Claimed
  <2> QED  BY <1>w, <2>1, <2>2
<1>2. CASE Contest(slug, fp)
  <2>1. PICK n : /\ Asked /\ Writes(n) /\ e.status \in {"open", "contested"}
                 /\ n = [e EXCEPT !.status = "contested", !.contest = Now]
    BY <1>2 DEF Contest, Command
  <2> HIDE DEF Asked, e, Writes
  <2>2. n \in AnyEntry /\ EntryOk(n, fp)
    BY <1>i, <1>a, <2>1, Contested
  <2> QED  BY <1>w, <2>1, <2>2
<1>3. CASE Diagnose(slug, fp)
  <2>1. PICK n : /\ Asked /\ Writes(n)
                 /\ n = [e EXCEPT !.status = "open", !.count = 0]
    BY <1>3 DEF Diagnose, Command
  <2> HIDE DEF Asked, e, Writes
  <2>2. n \in AnyEntry /\ EntryOk(n, fp)
    BY <1>a, <2>1, Diagnosed
  <2> QED  BY <1>w, <2>1, <2>2
<1>4. CASE Reopen(slug, fp)
  <2>1. PICK n : /\ Asked /\ Writes(n) /\ e.status \in Closed
                 /\ n = [e EXCEPT !.status = "resolve-requested", !.claim = Now]
    BY <1>4 DEF Reopen, Command
  <2> HIDE DEF Asked, e, Writes
  <2>2. n \in AnyEntry /\ EntryOk(n, fp)
    BY <1>i, <1>a, <2>1, Claimed
  <2> QED  BY <1>w, <2>1, <2>2
<1>5. ASSUME NEW run \in runs, Close(slug, fp, run) PROVE FindInv'
  <2>1. PICK st, n :
          /\ st \in Closed /\ Asked /\ Writes(n) /\ e.status = "resolve-requested" /\ run.purpose # "review"
          /\ Citable(run, slug, e, e.claim) /\ fp \notin run.reported
          /\ n = [e EXCEPT !.status = st, !.closure = run.id]
    BY <1>5 DEF Close, Command
  <2> HIDE DEF Asked, e, Writes
  <2>2. /\ e.claim # None /\ (e.contest # None => e.contest.at <= e.claim.at)
        /\ ~(e.count >= Threshold)
    BY <1>a, <2>1 DEF EntryOk
  <2>3. run.valid /\ run.duty = e.duty /\ run.at > e.claim.at
    BY <2>1, <2>2 DEF Citable, Later
  <2>4. n \in AnyEntry /\ EntryOk(n, fp)
    BY <1>i, <1>a, <2>1, <2>2, <2>3, Cites
  <2> QED  BY <1>w, <2>1, <2>4
<1>6. ASSUME NEW run \in runs, Adjudicate(slug, fp, run) PROVE FindInv'
  <2>1. PICK n :
          /\ Asked /\ Writes(n) /\ e.status = "contested" /\ run.purpose = fp
          /\ Citable(run, slug, e, e.contest)
          /\ n = IF fp \in run.reported THEN [e EXCEPT !.status = "open"]
                 ELSE [e EXCEPT !.status = "closed-falsified", !.closure = run.id]
    BY <1>6 DEF Adjudicate, Command
  <2> HIDE DEF Asked, e, Writes
  <2>2. e.contest # None /\ ~(e.count >= Threshold) /\ e \in AnyEntry /\ EntryOk(e, fp)
    BY <1>a, <2>1 DEF EntryOk
  <2>3. run.valid /\ run.duty = e.duty /\ run.at > e.contest.at /\ run.purpose # "review"
    BY <2>1, <2>2, ReviewAssumption DEF Citable, Later
  <2>4. CASE fp \in run.reported
    <3>1. /\ n \in AnyEntry /\ n.status = "open" /\ n.count = e.count
          /\ n.claim = e.claim /\ n.contest = e.contest
      BY <2>1, <2>2, <2>4 DEF AnyEntry, Open
    <3>2. EntryOk(n, fp)
      BY <2>2, <3>1 DEF EntryOk, Closed
    <3> QED  BY <1>w, <2>1, <3>1, <3>2
  <2>5. CASE fp \notin run.reported
    <3>1. "closed-falsified" \in Closed
      BY DEF Closed
    <3>2. n \in AnyEntry /\ EntryOk(n, fp)
      BY <1>i, <2>1, <2>2, <2>3, <2>5, <3>1, Cites
    <3> QED  BY <1>w, <2>1, <3>2
  <2> QED  BY <2>4, <2>5
<1> QED  BY <1>1, <1>2, <1>3, <1>4, <1>5, <1>6

LEMMA RelinkStep ==
  ASSUME FindInv, NEW from \in Slugs, NEW to \in Slugs, Relink(from, to) PROVE FindInv'
<1>1. ledger[to] \in AnyLedger /\ LedgerOk(ledger[to])
  BY DEF FindInv
<1>2. PICK l : l = [ledger[to] EXCEPT !.aliases = @ \cup {from}]
  OBVIOUS
<1>3. l \in AnyLedger /\ l.found = ledger[to].found
  BY <1>1, <1>2 DEF AnyLedger
<1>4. LedgerOk(l)
  BY <1>1, <1>3 DEF LedgerOk
<1>5. hand' = [slug |-> to, write |-> l, missed |-> {}] /\ UNCHANGED <<run_vars, ledger>>
  BY <1>2 DEF Relink
<1> QED  BY <1>3, <1>4, <1>5, Taken

(* One file is written, under whatever the runs do meanwhile. *)
LEMMA FileWritten ==
  ASSUME FindInv, RunNext, NEW slug \in Slugs, NEW l \in AnyLedger, LedgerOk(l)',
         ledger' = [ledger EXCEPT ![slug] = l],
         hand' = None \/ (hand # None /\ hand' \in AnyHand /\ hand'.write = hand.write)
  PROVE  FindInv'
<1>1. RunInv'
  BY RunInvKept DEF FindInv
<1>2. ledger' \in [Slugs -> AnyLedger]
  BY DEF FindInv
<1>3. ASSUME NEW s \in Slugs PROVE LedgerOk(ledger[s])'
  <2>1. CASE s = slug
    BY <2>1 DEF FindInv
  <2>2. CASE s # slug
    <3>1. PICK k \in AnyLedger : k = ledger[s] /\ k = ledger'[s] /\ LedgerOk(k)
      BY <2>2 DEF FindInv
    <3>2. LedgerOk(k)'
      BY <3>1, LedgerStays
    <3> QED  BY <3>1, <3>2
  <2> QED  BY <2>1, <2>2
<1>4. ASSUME hand' # None PROVE LedgerOk(hand.write)'
  <2>1. PICK k \in AnyLedger : k = hand.write /\ k = hand'.write /\ LedgerOk(k)
    BY <1>4 DEF FindInv, AnyHand
  <2>2. LedgerOk(k)'
    BY <2>1, LedgerStays
  <2> QED  BY <2>1, <2>2
<1>5. hand' \in {None} \cup AnyHand
  OBVIOUS
<1> QED  BY <1>1, <1>2, <1>3, <1>4, <1>5 DEF FindInv

LEMMA LedgerSaved == ASSUME FindInv, Save PROVE FindInv'
<1>1. RunNext
  BY DEF RunNext, Save
<1>2. PICK l \in AnyLedger : l = hand.write /\ LedgerOk(l) /\ hand.slug \in Slugs
  BY DEF FindInv, Save, AnyHand
<1>3. LedgerOk(l)'
  BY <1>1, <1>2, LedgerStays
<1>4. ledger' = [ledger EXCEPT ![hand.slug] = l]
  BY <1>2 DEF Save
<1>5. hand' = None \/ (hand # None /\ hand' \in AnyHand /\ hand'.write = hand.write)
  BY DEF Save
<1> QED  BY <1>1, <1>2, <1>3, <1>4, <1>5, FileWritten

(* A run that ends writes what it found into the ledger of its goal. *)
LEMMA WiredStep == ASSUME FindInv, NEW r \in Reviewers, WireFindings(r) PROVE FindInv'
<1>1. RunNext /\ RunInv
  BY DEF WireFindings, RunNext, RunStep, FindInv
<1>2. PICK run \in AnyRun : run = rv[r].run
  BY <1>1, HeldTyped DEF WireFindings, Wire
<1>3. CASE ~(run.valid /\ run.reported # {})
  BY <1>1, <1>2, <1>3, LedgerUntouched DEF WireFindings, findings_vars
<1>4. CASE run.valid /\ run.reported # {}
  <2>1. PICK slug \in Slugs : slug = run.id.slug
    BY DEF AnyRun, Id
  <2>2. PICK old \in AnyLedger : old = ledger[slug] /\ LedgerOk(old)
    BY DEF FindInv
  <2>3. PICK f : f = Sightings(run)
    OBVIOUS
  <2>4. ASSUME NEW fp \in Fps
        PROVE  /\ f[fp] \in AnyEntry \cup {None}
               /\ f[fp] # None => EntryOk(f[fp], fp)
    <3>1. PICK e \in AnyEntry \cup {None} : e = old.found[fp] /\ (e # None => EntryOk(e, fp))
      BY <2>2 DEF AnyLedger, LedgerOk
    <3>2. f[fp] = IF fp \in run.reported THEN Sighted(e, run) ELSE e
      BY <2>1, <2>2, <2>3, <3>1 DEF Sightings
    <3> QED  BY <1>1, <3>1, <3>2, SightedOk
  <2>5. f \in [Fps -> AnyEntry \cup {None}]
    BY <2>3, <2>4 DEF Sightings
  <2>6. PICK l : l = [old EXCEPT !.found = f]
    OBVIOUS
  <2>7. l \in AnyLedger /\ l.found = f
    BY <2>5, <2>6 DEF AnyLedger
  <2>8. LedgerOk(l)
    BY <2>4, <2>7 DEF LedgerOk
  <2>9. LedgerOk(l)'
    BY <1>1, <2>7, <2>8, LedgerStays
  <2>10. ledger' = [ledger EXCEPT ![slug] = l]
    <3>1. ledger' = [ledger EXCEPT ![run.id.slug].found = Sightings(run)]
      BY <1>2, <1>4 DEF WireFindings, Report
    <3> QED  BY <2>1, <2>2, <2>3, <2>6, <3>1
  <2>11. CASE hand = None
    <3>1. hand' = None
      BY <1>2, <1>4, <2>11 DEF WireFindings, Report
    <3>2. hand' = None \/ (hand # None /\ hand' \in AnyHand /\ hand'.write = hand.write)
      BY <3>1
    <3> QED  BY <1>1, <2>7, <2>9, <2>10, <3>2, FileWritten
  <2>12. CASE hand # None
    <3>1. PICK h \in AnyHand : h = hand
      BY <2>12 DEF FindInv
    <3>2. PICK m \in SUBSET Fps : hand' = h \/ hand' = [h EXCEPT !.missed = m]
      BY <1>2, <1>4, <2>12, <3>1 DEF WireFindings, Report, Failed, AnyRun, AnyHand
    <3>3. hand' \in AnyHand /\ hand'.write = h.write
      BY <3>2 DEF AnyHand
    <3>4. hand' = None \/ (hand # None /\ hand' \in AnyHand /\ hand'.write = hand.write)
      BY <2>12, <3>1, <3>3
    <3> QED  BY <1>1, <2>7, <2>9, <2>10, <3>4, FileWritten
  <2> QED  BY <2>11, <2>12
<1> QED  BY <1>3, <1>4

LEMMA FindInvKept == ASSUME FindInv, [FindingsNext]_all_findings PROVE FindInv'
<1>1. RunNext
  BY RunsFoundSteps
<1>2. ASSUME UNCHANGED findings_vars PROVE FindInv'
  BY <1>1, <1>2, LedgerUntouched
<1>3. CASE UNCHANGED all_findings
  BY <1>2, <1>3 DEF all_findings
<1>4. ASSUME NEW r \in Reviewers, ReviewStep(r) PROVE FindInv'
  BY <1>2, <1>4, WiredStep DEF ReviewStep, AdmitReview
<1>5. CASE FindingCommand
  BY <1>5, CommandSteps, RelinkStep, LedgerSaved DEF FindingCommand
<1> QED  BY <1>2, <1>3, <1>4, <1>5 DEF FindingsNext

-----------------------------------------------------------------------------
(* The failed fixes and the counts of the entries.                          *)

CountOf(l, fp) == IF l.found[fp] = None THEN 0 ELSE l.found[fp].count

(* No entry that nobody saved over counts less than has failed, on disk or  *)
(* in a hand that was there before.                                         *)
FailInv ==
  /\ failures \in [Slugs -> [Fps -> Nat]]
  /\ \A s \in Slugs, fp \in Fps :
       <<s, fp>> \notin forgotten => failures[s][fp] <= CountOf(ledger[s], fp)
  /\ hand # None => \A fp \in Fps :
       fp \notin hand.missed /\ <<hand.slug, fp>> \notin forgotten =>
         failures[hand.slug][fp] <= CountOf(hand.write, fp)

LEMMA CountTyped ==
  ASSUME NEW l \in AnyLedger, NEW fp \in Fps PROVE CountOf(l, fp) \in Nat
<1>1. l.found[fp] \in AnyEntry \cup {None}
  BY DEF AnyLedger
<1> QED  BY <1>1 DEF CountOf, AnyEntry

(* A command takes a file that counts as much. *)
LEMMA FailTaken ==
  ASSUME FindInv, FailInv, UNCHANGED ledger, Unfailing, NEW slug \in Slugs, NEW l,
         \A fp \in Fps : CountOf(l, fp) = CountOf(ledger[slug], fp),
         hand' = [slug |-> slug, write |-> l, missed |-> {}]
  PROVE  FailInv'
<1>1. hand'.slug = slug /\ hand'.write = l
  OBVIOUS
<1>2. ASSUME NEW fp \in Fps, <<slug, fp>> \notin forgotten' PROVE failures'[slug][fp] <= CountOf(hand'.write, fp)
  <2>1. failures[slug][fp] <= CountOf(ledger[slug], fp)
    BY <1>2 DEF FailInv, Unfailing
  <2> QED  BY <1>1, <2>1 DEF Unfailing
<1>3. ASSUME NEW s \in Slugs, NEW fp \in Fps, <<s, fp>> \notin forgotten'
      PROVE  failures'[s][fp] <= CountOf(ledger'[s], fp)
  BY <1>3 DEF FailInv, Unfailing
<1>4. failures' \in [Slugs -> [Fps -> Nat]]
  BY DEF FailInv, Unfailing
<1> QED  BY <1>1, <1>2, <1>3, <1>4 DEF FailInv, CountOf

(* The file a command on one finding writes. *)
LEMMA Counts ==
  ASSUME FindInv, NEW slug \in Slugs, NEW fp \in Fps, NEW n \in AnyEntry,
         NEW l, l = [ledger[slug] EXCEPT !.found[fp] = n]
  PROVE  \A f \in Fps : CountOf(l, f) = IF f = fp THEN n.count ELSE CountOf(ledger[slug], f)
<1>1. PICK old \in AnyLedger : old = ledger[slug]
  BY DEF FindInv
<1>2. PICK g : g = [old.found EXCEPT ![fp] = n]
  OBVIOUS
<1>3. g[fp] = n /\ \A f \in Fps : f # fp => g[f] = old.found[f]
  BY <1>2 DEF AnyLedger
<1>4. l.found = g
  BY <1>1, <1>2 DEF AnyLedger
<1>5. n # None
  BY FindingsAssumption
<1>6. ASSUME NEW f \in Fps PROVE CountOf(l, f) = IF f = fp THEN n.count ELSE CountOf(ledger[slug], f)
  <2>1. CASE f = fp
    <3>1. l.found[f] = n
      BY <1>3, <1>4, <2>1
    <3> QED  BY <1>5, <2>1, <3>1 DEF CountOf
  <2>2. CASE f # fp
    <3>1. l.found[f] = ledger[slug].found[f]
      BY <1>1, <1>3, <1>4, <2>2
    <3> QED  BY <2>2, <3>1 DEF CountOf
  <2> QED  BY <2>1, <2>2
<1> QED  BY <1>6

(* What a command on one finding does to the counts.                        *)
LEMMA FailCommand ==
  ASSUME FindInv, FailInv, NEW slug \in Slugs, NEW fp \in Fps,
         \/ RequestResolve(slug, fp) \/ Contest(slug, fp) \/ Diagnose(slug, fp)
         \/ Reopen(slug, fp)
         \/ \E run \in runs : Close(slug, fp, run) \/ Adjudicate(slug, fp, run)
  PROVE  FailInv'
<1> DEFINE e == ledger[slug].found[fp]
           Writes(n) == hand' = [slug |-> slug, write |-> [ledger[slug] EXCEPT !.found[fp] = n],
                                 missed |-> {}]
<1>1. UNCHANGED ledger /\ e \in AnyEntry /\ e # None
  <2>1. UNCHANGED ledger /\ \E through \in Slugs : Hits(through, fp) = {slug}
    BY DEF RequestResolve, Contest, Diagnose, Reopen, Close, Adjudicate, Command
  <2> QED  BY <2>1, Looked_up, FindingsAssumption
<1>2. ASSUME Unfailing, NEW n \in AnyEntry, n.count = e.count, Writes(n) PROVE FailInv'
  <2>1. PICK l : l = [ledger[slug] EXCEPT !.found[fp] = n]
    OBVIOUS
  <2>2. \A f \in Fps : CountOf(l, f) = CountOf(ledger[slug], f)
    <3>1. CountOf(ledger[slug], fp) = e.count
      BY <1>1 DEF CountOf
    <3> QED  BY <1>2, <2>1, <3>1, Counts
  <2>3. hand' = [slug |-> slug, write |-> l, missed |-> {}]
    BY <1>2, <2>1
  <2> QED  BY <1>1, <1>2, <2>2, <2>3, FailTaken
<1>3. CASE Diagnose(slug, fp)
  <2>1. PICK n : n = [e EXCEPT !.status = "open", !.count = 0] /\ Writes(n)
    BY <1>3 DEF Diagnose, Command
  <2>2. n \in AnyEntry /\ n.count = 0
    BY <1>1, <2>1 DEF AnyEntry, Open
  <2>3. failures' = [failures EXCEPT ![slug][fp] = 0] /\ forgotten' = forgotten \ {<<slug, fp>>}
    BY <1>3 DEF Diagnose
  <2>4. /\ failures' \in [Slugs -> [Fps -> Nat]]
        /\ failures'[slug][fp] = 0
        /\ \A s \in Slugs, f \in Fps :
             s # slug \/ f # fp => failures'[s][f] = failures[s][f]
                                   /\ (<<s, f>> \notin forgotten' => <<s, f>> \notin forgotten)
    BY <2>3 DEF FailInv
  <2>5. ASSUME NEW s \in Slugs, NEW f \in Fps, <<s, f>> \notin forgotten'
        PROVE  failures'[s][f] <= CountOf(ledger[s], f)
    <3>1. CountOf(ledger[s], f) \in Nat
      BY CountTyped DEF FindInv
    <3> QED  BY <2>4, <2>5, <3>1 DEF FailInv
  <2>6. PICK l : l = [ledger[slug] EXCEPT !.found[fp] = n]
    OBVIOUS
  <2>7. \A f \in Fps : CountOf(l, f) = IF f = fp THEN 0 ELSE CountOf(ledger[slug], f)
    BY <2>2, <2>6, Counts
  <2>8. hand'.slug = slug /\ hand'.write = l
    BY <2>1, <2>6
  <2>9. ASSUME NEW f \in Fps, <<hand'.slug, f>> \notin forgotten'
        PROVE  failures'[hand'.slug][f] <= CountOf(hand'.write, f)
    BY <2>4, <2>5, <2>7, <2>8, <2>9
  <2>10. \A s \in Slugs, f \in Fps :
           <<s, f>> \notin forgotten' => failures'[s][f] <= CountOf(ledger'[s], f)
    BY <1>1, <2>5
  <2> QED  BY <2>4, <2>9, <2>10 DEF FailInv, CountOf
<1>4. CASE RequestResolve(slug, fp) \/ Reopen(slug, fp)
  <2>1. PICK n : n = [e EXCEPT !.status = "resolve-requested", !.claim = Now] /\ Writes(n) /\ Unfailing
    BY <1>4 DEF RequestResolve, Reopen, Command
  <2>2. n \in AnyEntry /\ n.count = e.count
    <3>1. Now \in AnyMark
      BY NowCovers DEF FindInv
    <3> QED  BY <1>1, <2>1, <3>1 DEF AnyEntry, Open
  <2> QED  BY <1>2, <2>1, <2>2
<1>5. CASE Contest(slug, fp)
  <2>1. PICK n : n = [e EXCEPT !.status = "contested", !.contest = Now] /\ Writes(n) /\ Unfailing
    BY <1>5 DEF Contest, Command
  <2>2. n \in AnyEntry /\ n.count = e.count
    <3>1. Now \in AnyMark
      BY NowCovers DEF FindInv
    <3> QED  BY <1>1, <2>1, <3>1 DEF AnyEntry, Open
  <2> QED  BY <1>2, <2>1, <2>2
<1>6. ASSUME NEW run \in runs, Close(slug, fp, run) \/ Adjudicate(slug, fp, run) PROVE FailInv'
  <2>1. PICK n, st : /\ st \in Closed /\ Writes(n) /\ Unfailing
                     /\ \/ n = [e EXCEPT !.status = "open"]
                        \/ n = [e EXCEPT !.status = st, !.closure = run.id]
    BY <1>6 DEF Close, Adjudicate, Command, Closed
  <2>2. n \in AnyEntry /\ n.count = e.count
    <3>1. run.id \in Id
      BY DEF FindInv, RunInv, FilesOk, AnyRun
    <3> QED  BY <1>1, <2>1, <3>1 DEF AnyEntry, Open
  <2> QED  BY <1>2, <2>1, <2>2
<1> QED  BY <1>3, <1>4, <1>5, <1>6

LEMMA FailRelink ==
  ASSUME FindInv, FailInv, NEW from \in Slugs, NEW to \in Slugs, Relink(from, to) PROVE FailInv'
<1>1. PICK l : l = [ledger[to] EXCEPT !.aliases = @ \cup {from}]
  OBVIOUS
<1>2. l.found = ledger[to].found
  <2>1. ledger[to] \in AnyLedger
    BY DEF FindInv
  <2> QED  BY <1>1, <2>1 DEF AnyLedger
<1>3. \A fp \in Fps : CountOf(l, fp) = CountOf(ledger[to], fp)
  BY <1>2 DEF CountOf
<1>4. hand' = [slug |-> to, write |-> l, missed |-> {}] /\ UNCHANGED ledger /\ Unfailing
  BY <1>1 DEF Relink
<1> QED  BY <1>3, <1>4, FailTaken

LEMMA FailSave == ASSUME FindInv, FailInv, Save PROVE FailInv'
<1>1. /\ hand # None /\ hand' = None /\ UNCHANGED failures
      /\ forgotten' = forgotten \cup ({hand.slug} \X hand.missed)
      /\ ledger' = [ledger EXCEPT ![hand.slug] = hand.write]
  BY DEF Save
<1>2. hand.slug \in Slugs
  BY <1>1 DEF FindInv, AnyHand
<1>3. ASSUME NEW s \in Slugs, NEW fp \in Fps, <<s, fp>> \notin forgotten'
      PROVE  failures[s][fp] <= CountOf(ledger'[s], fp)
  <2>1. <<s, fp>> \notin forgotten /\ (s = hand.slug => fp \notin hand.missed)
    BY <1>1, <1>3
  <2>2. CASE s = hand.slug
    <3>1. ledger'[s] = hand.write
      BY <1>1, <1>2, <2>2 DEF FindInv
    <3> QED  BY <1>1, <2>1, <2>2, <3>1 DEF FailInv
  <2>3. CASE s # hand.slug
    <3>1. ledger'[s] = ledger[s]
      BY <1>1, <2>3 DEF FindInv
    <3> QED  BY <2>1, <3>1 DEF FailInv
  <2> QED  BY <2>2, <2>3
<1> QED  BY <1>1, <1>3 DEF FailInv

(* What a run reports adds to both alike. *)
LEMMA FailReport ==
  ASSUME FindInv, FailInv, NEW run \in AnyRun, Report(run) PROVE FailInv'
<1>1. PICK slug \in Slugs : slug = run.id.slug
  BY DEF AnyRun, Id
<1>2. PICK old \in AnyLedger : old = ledger[slug]
  BY DEF FindInv
<1>3. /\ \A s \in Slugs : s # slug => ledger'[s] = ledger[s]
      /\ ledger'[slug].found = Sightings(run)
  <2>1. ledger' = [ledger EXCEPT ![slug].found = Sightings(run)]
    BY <1>1 DEF Report
  <2> QED  BY <1>2, <2>1 DEF FindInv, AnyLedger
<1>4. /\ failures' \in [Slugs -> [Fps -> Nat]]
      /\ \A s \in Slugs : s # slug => failures'[s] = failures[s]
      /\ \A fp \in Fps : failures'[slug][fp] =
           IF fp \in Returned(run) THEN 0
           ELSE IF fp \in Failed(run) THEN failures[slug][fp] + 1 ELSE failures[slug][fp]
  <2>1. failures' = [failures EXCEPT ![slug] =
                      [fp \in Fps |->
                         IF fp \in Returned(run) THEN 0
                         ELSE IF fp \in Failed(run) THEN failures[slug][fp] + 1 ELSE failures[slug][fp]]]
    BY <1>1 DEF Report, FailInv
  <2>2. \A fp \in Fps : failures[slug][fp] \in Nat /\ failures[slug][fp] + 1 \in Nat
    BY DEF FailInv
  <2> QED  BY <2>1, <2>2 DEF FailInv
<1>5. ASSUME NEW s \in Slugs, NEW fp \in Fps, <<s, fp>> \notin forgotten'
      PROVE  <<s, fp>> \notin forgotten \/ (s = slug /\ fp \in Returned(run))
  <2>1. forgotten' = forgotten \ ({slug} \X Returned(run))
    BY <1>1 DEF Report
  <2>2. <<s, fp>> \in {slug} \X Returned(run) => s = slug /\ fp \in Returned(run)
    OBVIOUS
  <2> QED  BY <1>5, <2>1, <2>2
<1>6. ASSUME NEW s \in Slugs, NEW fp \in Fps, <<s, fp>> \notin forgotten'
      PROVE  failures'[s][fp] <= CountOf(ledger'[s], fp)
  <2>1. CASE s # slug
    BY <1>3, <1>4, <1>5, <1>6, <2>1 DEF FailInv
  <2>2. CASE s = slug
    <3>1. PICK e : e = old.found[fp] /\ (e # None => e \in AnyEntry)
      BY DEF AnyLedger
    <3>2. PICK n : n = ledger'[slug].found[fp] /\ n = IF fp \in run.reported THEN Sighted(e, run) ELSE e
      BY <1>1, <1>2, <1>3, <3>1 DEF Sightings
    <3>3. /\ fp \in Returned(run) <=> fp \in run.reported /\ e # None /\ e.status \in Closed
          /\ fp \in Failed(run) <=> fp \in run.reported /\ e # None /\ e.status = "resolve-requested"
      BY <1>1, <1>2, <3>1 DEF Returned, Failed, In
    <3>n. fp \in run.reported => n # None
      <4>1. RunInv /\ (e # None => EntryOk(e, fp))
        BY <1>2, <3>1 DEF FindInv, LedgerOk
      <4>2. Sighted(e, run) \in AnyEntry
        BY <3>1, <4>1, SightedOk
      <4> QED  BY <3>2, <4>2, FindingsAssumption
    <3>4. CountOf(ledger'[slug], fp) = IF n = None THEN 0 ELSE n.count
      BY <3>2 DEF CountOf
    <3>5. CASE fp \in Returned(run)
      <4>1. failures'[slug][fp] = 0
        BY <1>4, <3>5
      <4>2. e \in AnyEntry /\ n = [e EXCEPT !.status = "open", !.last = run.at, !.count = 0,
                                           !.claim = None, !.contest = None, !.closure = None]
        BY <3>1, <3>2, <3>3, <3>5 DEF Sighted, Closed
      <4>3. n.count = 0
        BY <4>2 DEF AnyEntry
      <4> QED  BY <2>2, <3>4, <4>1, <4>3
    <3>6. CASE fp \notin Returned(run)
      <4>1. failures[slug][fp] \in Nat /\ failures[slug][fp] <= IF e = None THEN 0 ELSE e.count
        BY <1>2, <1>5, <1>6, <2>2, <3>1, <3>6 DEF FailInv, CountOf
      <4>2. CASE fp \in Failed(run)
        <5>1. failures'[slug][fp] = failures[slug][fp] + 1
          BY <1>4, <3>6, <4>2
        <5>2. e \in AnyEntry /\ n = [e EXCEPT !.status = IF e.count + 1 >= Threshold THEN "diagnosis-required" ELSE "open",
                            !.last = run.at, !.count = @ + 1, !.claim = None]
          BY <3>1, <3>2, <3>3, <4>2 DEF Sighted, Closed
        <5>3. n.count = e.count + 1 /\ e.count \in Nat
          BY <5>2 DEF AnyEntry
        <5> QED  BY <2>2, <3>3, <3>4, <3>n, <4>1, <4>2, <5>1, <5>3
      <4>3. CASE fp \notin Failed(run) /\ fp \in run.reported /\ e # None
        <5>1. failures'[slug][fp] = failures[slug][fp]
          BY <1>4, <3>6, <4>3
        <5>2. n = [e EXCEPT !.last = run.at] /\ e \in AnyEntry
          BY <3>1, <3>2, <3>3, <3>6, <4>3 DEF Sighted
        <5>3. n.count = e.count /\ e.count \in Nat
          BY <5>2 DEF AnyEntry
        <5> QED  BY <2>2, <3>4, <3>n, <4>1, <4>3, <5>1, <5>3
      <4>4. CASE fp \notin Failed(run) /\ fp \in run.reported /\ e = None
        <5>1. failures'[slug][fp] = failures[slug][fp]
          BY <1>4, <3>6, <4>4
        <5>2. n.count = 0
          BY <3>2, <4>4 DEF Sighted, NewEntry
        <5> QED  BY <2>2, <3>4, <4>1, <4>4, <5>1, <5>2
      <4>5. CASE fp \notin run.reported
        <5>1. failures'[slug][fp] = failures[slug][fp] /\ n = e
          BY <1>4, <3>2, <3>3, <3>6, <4>5
        <5> QED  BY <2>2, <3>4, <4>1, <5>1
      <4> QED  BY <4>2, <4>3, <4>4, <4>5
    <3> QED  BY <3>5, <3>6
  <2> QED  BY <2>1, <2>2
<1>7. ASSUME hand' # None, NEW fp \in Fps, fp \notin hand'.missed, <<hand'.slug, fp>> \notin forgotten'
      PROVE  failures'[hand'.slug][fp] <= CountOf(hand'.write, fp)
  <2>1. hand # None
    BY <1>7 DEF Report
  <2>2. PICK h \in AnyHand : h = hand
    BY <2>1 DEF FindInv
  <2>3. hand' = IF h.slug = slug THEN [h EXCEPT !.missed = (h.missed \cup Failed(run)) \ Returned(run)]
                ELSE h
    BY <1>1, <2>1, <2>2 DEF Report
  <2>4. hand'.slug = h.slug /\ hand'.write = h.write /\ h.slug \in Slugs /\ h.write \in AnyLedger
    BY <2>3 DEF AnyHand
  <2>5. CountOf(h.write, fp) \in Nat
    BY <2>4, CountTyped
  <2>6. CASE h.slug # slug
    <3>1. fp \notin h.missed /\ <<h.slug, fp>> \notin forgotten /\ failures'[h.slug][fp] = failures[h.slug][fp]
      BY <1>4, <1>5, <1>7, <2>3, <2>4, <2>6
    <3> QED  BY <2>1, <2>2, <2>4, <3>1 DEF FailInv
  <2>7. CASE h.slug = slug
    <3>1. hand'.missed = (h.missed \cup Failed(run)) \ Returned(run)
      BY <2>3, <2>7 DEF AnyHand
    <3>2. CASE fp \in Returned(run)
      <4>1. failures'[slug][fp] = 0
        BY <1>4, <3>2
      <4> QED  BY <2>4, <2>5, <2>7, <4>1
    <3>3. CASE fp \notin Returned(run)
      <4>1. fp \notin h.missed /\ fp \notin Failed(run) /\ <<h.slug, fp>> \notin forgotten
        BY <1>5, <1>7, <2>4, <3>1, <3>3
      <4>2. failures'[slug][fp] = failures[slug][fp]
        BY <1>4, <3>3, <4>1
      <4> QED  BY <2>1, <2>2, <2>4, <2>7, <4>1, <4>2 DEF FailInv
    <3> QED  BY <3>2, <3>3
  <2> QED  BY <2>6, <2>7
<1> QED  BY <1>4, <1>6, <1>7 DEF FailInv

LEMMA FailKept == ASSUME FindInv, FailInv, [FindingsNext]_all_findings PROVE FailInv'
<1>1. ASSUME UNCHANGED findings_vars PROVE FailInv'
  BY <1>1 DEF FailInv, findings_vars, CountOf
<1>2. CASE UNCHANGED all_findings
  BY <1>1, <1>2 DEF all_findings
<1>3. ASSUME NEW r \in Reviewers, WireFindings(r) PROVE FailInv'
  <2>1. PICK run \in AnyRun : run = rv[r].run
    BY <1>3, HeldTyped DEF WireFindings, Wire, FindInv
  <2> QED  BY <1>1, <1>3, <2>1, FailReport DEF WireFindings
<1>4. ASSUME NEW r \in Reviewers, ReviewStep(r) PROVE FailInv'
  BY <1>1, <1>3, <1>4 DEF ReviewStep, AdmitReview
<1>5. CASE FindingCommand
  BY <1>5, FailCommand, FailRelink, FailSave DEF FindingCommand
<1> QED  BY <1>1, <1>2, <1>4, <1>5 DEF FindingsNext

(* A finding is closed only on a valid second review, of its duty and not   *)
(* reporting it, that looked at the commit of the claim or of the objection *)
(* or at a later one, whoever writes the ledger across whom.  And fixed in  *)
(* vain Threshold times since it was last diagnosed or came back, it waits  *)
(* for a diagnosis, unless a command that had read the ledger before saved  *)
(* over one of the failed fixes.                                            *)
THEOREM FindingsCloseInOrder == FindingsSpec => []ClosedInOrder
<1>1. FindInv /\ FailInv => ClosedInOrder
  <2> SUFFICES ASSUME FindInv, FailInv PROVE ClosedInOrder
    OBVIOUS
  <2>1. ASSUME NEW s \in Slugs, NEW fp \in Fps, ledger[s].found[fp] # None
        PROVE  EntryOk(ledger[s].found[fp], fp)
    BY <2>1 DEF FindInv, LedgerOk
  <2>2. ClosedOnClaimedTree
    BY <2>1 DEF ClosedOnClaimedTree, EntryOk, Cited
  <2>3. ASSUME NEW s \in Slugs, NEW fp \in Fps, failures[s][fp] >= Threshold,
               <<s, fp>> \notin forgotten
        PROVE  In(s, fp, {"diagnosis-required"})
    <3>1. /\ failures[s][fp] \in Nat /\ Threshold \in Nat /\ ~(0 >= Threshold)
          /\ failures[s][fp] <= CountOf(ledger[s], fp)
      BY <2>3, FindingsAssumption DEF FailInv
    <3>2. CountOf(ledger[s], fp) \in Nat
      BY CountTyped DEF FindInv
    <3>3. ledger[s].found[fp] # None /\ ledger[s].found[fp].count >= Threshold
      BY <2>3, <3>1, <3>2 DEF CountOf
    <3> QED  BY <2>1, <3>3 DEF EntryOk, In
  <2> QED  BY <2>2, <2>3 DEF ClosedInOrder, DiagnosedFirst
<1>2. FindingsInit => FindInv /\ FailInv
  <2> SUFFICES ASSUME FindingsInit PROVE FindInv /\ FailInv
    OBVIOUS
  <2>1. RunInv /\ hand = None
    BY RunInvStart DEF FindingsInit
  <2>2. PICK l : l = [aliases |-> {}, found |-> [fp \in Fps |-> None]]
    OBVIOUS
  <2>3. l \in AnyLedger /\ \A fp \in Fps : l.found[fp] = None
    BY <2>2 DEF AnyLedger
  <2>4. ledger = [s \in Slugs |-> l]
    BY <2>2 DEF FindingsInit
  <2>5. FindInv
    BY <2>1, <2>3, <2>4 DEF FindInv, LedgerOk
  <2>6. failures \in [Slugs -> [Fps -> Nat]] /\ \A s \in Slugs, fp \in Fps : failures[s][fp] = 0
    BY DEF FindingsInit
  <2>7. \A s \in Slugs, fp \in Fps : CountOf(ledger[s], fp) = 0
    BY <2>3, <2>4 DEF CountOf
  <2> QED  BY <2>1, <2>5, <2>6, <2>7 DEF FailInv
<1>3. FindInv /\ FailInv /\ [FindingsNext]_all_findings => FindInv' /\ FailInv'
  BY FindInvKept, FailKept
<1> QED  BY <1>1, <1>2, <1>3, PTL DEF FindingsSpec
-----------------------------------------------------------------------------
(* What reviews cost (ReviewBudget).  First, counting.                      *)

LEMMA OneByOne ==
  ASSUME NEW S, IsFiniteSet(S)
  PROVE  /\ Cardinality(S) \in Nat
         /\ \E f \in [S -> 1..Cardinality(S)] : \A x, y \in S : f[x] = f[y] => x = y
         /\ \E f \in [1..Cardinality(S) -> S] :
              \A x, y \in 1..Cardinality(S) : f[x] = f[y] => x = y
<1>1. Cardinality(S) \in Nat /\ ExistsBijection(1..Cardinality(S), S)
  BY FS_CardinalityType
<1>2. ExistsBijection(S, 1..Cardinality(S))
  BY <1>1, Fun_ExistsBijSymmetric
<1> QED
  BY <1>1, <1>2 DEF ExistsBijection, Bijection, Injection, IsInjective

LEMMA UnionAtMost ==
  ASSUME NEW S, NEW T, IsFiniteSet(S), IsFiniteSet(T)
  PROVE  IsFiniteSet(S \cup T) /\ Cardinality(S \cup T) <= Cardinality(S) + Cardinality(T)
<1>1. PICK s \in Nat : s = Cardinality(S)
  BY OneByOne
<1>2. PICK t \in Nat : t = Cardinality(T)
  BY OneByOne
<1>3. PICK f \in [S -> 1..s] : \A x, y \in S : f[x] = f[y] => x = y
  BY <1>1, OneByOne
<1>4. PICK g \in [T -> 1..t] : \A x, y \in T : g[x] = g[y] => x = y
  BY <1>2, OneByOne
<1> DEFINE h == [x \in S \cup T |-> IF x \in S THEN f[x] ELSE s + g[x]]
<1>5. h \in [S \cup T -> 1..(s + t)]
  BY <1>3, <1>4
<1>6. ASSUME NEW x \in S \cup T, NEW y \in S \cup T, h[x] = h[y] PROVE x = y
  <2>1. CASE x \in S /\ y \in S
    BY <1>3, <1>6, <2>1
  <2>2. CASE x \notin S /\ y \notin S
    <3>1. g[x] \in Nat /\ g[y] \in Nat /\ s + g[x] = s + g[y]
      BY <1>4, <1>6, <2>2
    <3>2. g[x] = g[y]
      BY <3>1
    <3> QED  BY <1>4, <2>2, <3>2
  <2>3. ASSUME NEW a \in S, NEW b \in T, b \notin S PROVE h[a] # h[b]
    <3>1. f[a] \in 1..s /\ g[b] \in 1..t /\ h[a] = f[a] /\ h[b] = s + g[b]
      BY <1>3, <1>4, <2>3
    <3> HIDE DEF h
    <3> QED  BY <3>1
  <2> HIDE DEF h
  <2> QED  BY <1>6, <2>1, <2>2, <2>3
<1>7. h \in Injection(S \cup T, 1..(s + t))
  BY <1>5, <1>6 DEF Injection, IsInjective
<1>8. IsFiniteSet(1..(s + t)) /\ Cardinality(1..(s + t)) = s + t
  <2>1. 1 \in Int /\ s + t \in Int /\ (IF 1 > s + t THEN 0 ELSE s + t - 1 + 1) = s + t
    OBVIOUS
  <2> QED  BY <2>1, FS_Interval
<1> HIDE DEF h
<1> QED
  BY <1>1, <1>2, <1>7, <1>8, FS_Injection

LEMMA DisjointAtLeast ==
  ASSUME NEW S, NEW T, NEW U, IsFiniteSet(U), S \cup T \subseteq U, S \cap T = {}
  PROVE  /\ Cardinality(S) \in Nat /\ Cardinality(T) \in Nat /\ Cardinality(U) \in Nat
         /\ Cardinality(S) + Cardinality(T) <= Cardinality(U)
<1>0. IsFiniteSet(S) /\ IsFiniteSet(T)
  BY FS_Subset
<1>1. PICK s \in Nat : s = Cardinality(S)
  BY <1>0, OneByOne
<1>2. PICK t \in Nat : t = Cardinality(T)
  BY <1>0, OneByOne
<1>3. PICK f \in [1..s -> S] : \A x, y \in 1..s : f[x] = f[y] => x = y
  BY <1>0, <1>1, OneByOne
<1>4. PICK g \in [1..t -> T] : \A x, y \in 1..t : g[x] = g[y] => x = y
  <2>1. \E g \in [1..Cardinality(T) -> T] :
          \A x, y \in 1..Cardinality(T) : g[x] = g[y] => x = y
    BY <1>0, OneByOne
  <2> QED  BY <1>2, <2>1
<1> DEFINE h == [k \in 1..(s + t) |-> IF k <= s THEN f[k] ELSE g[k - s]]
<1>5. \A k \in 1..(s + t) : k <= s => k \in 1..s
  OBVIOUS
<1>6. \A k \in 1..(s + t) : ~(k <= s) => k - s \in 1..t
  OBVIOUS
<1>7. h \in [1..(s + t) -> U]
  BY <1>3, <1>4, <1>5, <1>6
<1>8. ASSUME NEW x \in 1..(s + t), NEW y \in 1..(s + t), h[x] = h[y] PROVE x = y
  <2>1. CASE x <= s /\ y <= s
    BY <1>3, <1>5, <1>8, <2>1
  <2>2. CASE ~(x <= s) /\ ~(y <= s)
    <3>1. x - s = y - s
      BY <1>4, <1>6, <1>8, <2>2
    <3> QED  BY <3>1
  <2>3. ASSUME NEW a \in 1..(s + t), NEW b \in 1..(s + t), a <= s, ~(b <= s) PROVE h[a] # h[b]
    <3>1. h[a] = f[a] /\ h[b] = g[b - s]
      BY <2>3
    <3>2. f[a] \in S /\ g[b - s] \in T
      BY <1>3, <1>4, <1>5, <1>6, <2>3
    <3> QED  BY <3>1, <3>2
  <2> HIDE DEF h
  <2> QED  BY <1>8, <2>1, <2>2, <2>3
<1>9. h \in Injection(1..(s + t), U)
  BY <1>7, <1>8 DEF Injection, IsInjective
<1>10. Cardinality(1..(s + t)) = s + t
  <2>1. 1 \in Int /\ s + t \in Int /\ (IF 1 > s + t THEN 0 ELSE s + t - 1 + 1) = s + t
    OBVIOUS
  <2> QED  BY <2>1, FS_Interval
<1>11. Cardinality(U) \in Nat
  BY FS_CardinalityType
<1> HIDE DEF h
<1> QED
  BY <1>1, <1>2, <1>9, <1>10, <1>11, FS_Injection

LEMMA ImageAtMost ==
  ASSUME NEW S, IsFiniteSet(S), NEW f, DOMAIN f = S, f = [x \in S |-> f[x]]
  PROVE  /\ IsFiniteSet({f[x] : x \in S}) /\ Cardinality({f[x] : x \in S}) <= Cardinality(S)
<1>1. f \in Surjection(S, {f[x] : x \in S})
  BY DEF Surjection
<1> QED
  BY <1>1, FS_Surjection

(* The ids that take up points of the cap, or may yet, and those a session  *)
(* that was started can be found by.                                        *)
Adm == {r \in Reviewers : rv[r].pc = "admitted"}
Busies == {r \in Reviewers : rv[r].pc \in Numbered}
BusyIds == {rv[r].run.id : r \in Busies}
SpentIds == {rv[r].run.id : r \in {r \in Busies : rv[r].run.spawned}}
GapIds == {n.id : n \in {n \in runs : NotKnown(n)}}
UnknownIds == {n.id : n \in {n \in runs : use[n.id] = "unknown"}}
Committed == BusyIds \cup charged \cup GapIds
Accounted == SpentIds \cup charged \cup UnknownIds

HandOk(v) ==
  v.pc # "idle" =>
    /\ v.run.id.slug = slot.slug /\ v.run.id.attempt <= slot.attempt
    /\ v.pc \in {"admitted", "packing"} => ~v.run.spawned
    /\ v.pc \in Unsaved => v.run.id \notin charged
    /\ v.run.spawned => use[v.run.id] \in {"metered", "partial", "unknown"}

BooksOk ==
  /\ use \in [Id -> Metering] /\ charged \subseteq dirs /\ IsFiniteSet(runs)
  /\ acks \in [Slugs -> Nat] /\ acks[slot.slug] <= clock
  /\ burnt \in [Slugs -> Nat] /\ \A s \in Slugs : s # slot.slug => burnt[s] = 0
  /\ \A i \in dirs : i.slug = slot.slug /\ i.attempt <= slot.attempt

(* Who was let through while there were points left takes one each. *)
Bounded == Cardinality(Adm) + Cardinality(Committed) <= Cap + Cardinality(Reviewers) - 1

(* A session that was started is under way, charged, recorded as unknown,   *)
(* or was lost to a fault.                                                  *)
Traced == burnt[slot.slug] <= Cardinality(Accounted) + faults

CostInv ==
  /\ RunInv /\ BooksOk /\ Bounded /\ Traced
  /\ \A r \in Reviewers : HandOk(rv[r])

LEMMA InDirs ==
  RunInv /\ charged \subseteq dirs =>
    /\ Adm \subseteq Reviewers /\ Busies \subseteq Reviewers
    /\ Committed \subseteq dirs /\ Accounted \subseteq dirs /\ IsFiniteSet(dirs)
<1> SUFFICES ASSUME RunInv, charged \subseteq dirs
             PROVE  /\ Adm \subseteq Reviewers /\ Busies \subseteq Reviewers
                    /\ Committed \subseteq dirs /\ Accounted \subseteq dirs /\ IsFiniteSet(dirs)
  OBVIOUS
<1>1. BusyIds \subseteq dirs /\ SpentIds \subseteq BusyIds
  BY DEF RunInv, ReviewerOk, BusyIds, SpentIds, Busies, Numbered
<1>2. GapIds \subseteq Recorded /\ UnknownIds \subseteq Recorded
  BY DEF GapIds, UnknownIds, Recorded
<1> QED  BY <1>1, <1>2 DEF RunInv, FilesOk, Adm, Busies, Committed, Accounted

LEMMA InDirsThen == RunInv' /\ (charged \subseteq dirs)' =>
  /\ (Adm \subseteq Reviewers)' /\ (Busies \subseteq Reviewers)'
  /\ (Committed \subseteq dirs)' /\ (Accounted \subseteq dirs)' /\ IsFiniteSet(dirs)'
BY InDirs, PTL

LEMMA Sizes ==
  ASSUME RunInv, RunInv', charged \subseteq dirs, (charged \subseteq dirs)'
  PROVE  /\ IsFiniteSet(Adm) /\ IsFiniteSet(Committed) /\ IsFiniteSet(Accounted)
         /\ IsFiniteSet(Adm') /\ IsFiniteSet(Committed') /\ IsFiniteSet(Accounted')
         /\ Cardinality(Adm) \in Nat /\ Cardinality(Committed) \in Nat
         /\ Cardinality(Accounted) \in Nat /\ Cardinality(Adm') \in Nat
         /\ Cardinality(Committed') \in Nat /\ Cardinality(Accounted') \in Nat
<1>1. /\ Adm \in SUBSET Reviewers /\ Committed \in SUBSET dirs /\ Accounted \in SUBSET dirs
      /\ IsFiniteSet(dirs) /\ IsFiniteSet(Reviewers)
  BY InDirs, ReviewAssumption
<1>2. /\ Adm' \in SUBSET Reviewers /\ Committed' \in SUBSET dirs' /\ Accounted' \in SUBSET dirs'
      /\ IsFiniteSet(dirs')
  BY InDirsThen
<1>3. /\ IsFiniteSet(Adm) /\ IsFiniteSet(Committed) /\ IsFiniteSet(Accounted)
  BY <1>1, FS_Subset
<1>4. /\ IsFiniteSet(Adm') /\ IsFiniteSet(Committed') /\ IsFiniteSet(Accounted')
  BY <1>1, <1>2, FS_Subset
<1> QED  BY <1>3, <1>4, FS_CardinalityType

(* What one reviewer's step does to these sets. *)
LEMMA Effects ==
  ASSUME RunInv, NEW r \in Reviewers, NEW v, rv' = [rv EXCEPT ![r] = v]
  PROVE  /\ v.pc # "admitted" => Adm' = Adm \ {r}
         /\ v.pc = "admitted" => Adm' = Adm \cup {r}
         /\ v.pc \in Numbered => BusyIds' \subseteq BusyIds \cup {v.run.id}
         /\ v.pc \notin Numbered => BusyIds' \subseteq BusyIds
         /\ SpentIds \subseteq SpentIds' \cup {rv[r].run.id}
         /\ ~(rv[r].pc \in Numbered /\ rv[r].run.spawned) => SpentIds \subseteq SpentIds'
         /\ v.pc \in Numbered /\ v.run.spawned => v.run.id \in SpentIds'
<1>1. rv'[r] = v /\ \A q \in Reviewers : q # r => rv'[q] = rv[q]
  BY DEF RunInv
<1>2. /\ v.pc # "admitted" => Adm' = Adm \ {r}
      /\ v.pc = "admitted" => Adm' = Adm \cup {r}
  BY <1>1 DEF Adm
<1>3. /\ v.pc \in Numbered => BusyIds' \subseteq BusyIds \cup {v.run.id}
      /\ v.pc \notin Numbered => BusyIds' \subseteq BusyIds
  BY <1>1 DEF BusyIds, Busies
<1>4. SpentIds \subseteq SpentIds' \cup {rv[r].run.id}
  BY <1>1 DEF SpentIds, Busies
<1>5. ~(rv[r].pc \in Numbered /\ rv[r].run.spawned) => SpentIds \subseteq SpentIds'
  BY <1>1 DEF SpentIds, Busies
<1>6. v.pc \in Numbered /\ v.run.spawned => v.run.id \in SpentIds'
  BY <1>1 DEF SpentIds, Busies
<1> QED  BY <1>2, <1>3, <1>4, <1>5, <1>6

LEMMA RecordsGrow ==
  ASSUME RunInv, acks' = acks, runs \subseteq runs',
         \A n \in runs : use'[n.id] = use[n.id]
  PROVE  /\ GapIds' \subseteq GapIds \cup {n.id : n \in runs' \ runs}
         /\ UnknownIds \subseteq UnknownIds'
<1>1. ASSUME NEW n \in runs, NotKnown(n)' PROVE NotKnown(n)
  BY <1>1 DEF NotKnown
<1> QED  BY <1>1 DEF GapIds, UnknownIds

LEMMA BoundKept ==
  ASSUME CostInv, RunInv', (charged \subseteq dirs)', Adm' \subseteq Adm,
         Committed' \subseteq Committed
  PROVE  Bounded'
<1>1. /\ IsFiniteSet(Adm) /\ IsFiniteSet(Committed)
      /\ Cardinality(Adm) \in Nat /\ Cardinality(Committed) \in Nat
      /\ Cardinality(Adm') \in Nat /\ Cardinality(Committed') \in Nat
  BY Sizes DEF CostInv, BooksOk
<1>2. Cardinality(Adm') <= Cardinality(Adm) /\ Cardinality(Committed') <= Cardinality(Committed)
  BY <1>1, FS_Subset
<1>3. Cardinality(Reviewers) \in Nat /\ Cap \in Nat
  BY ReviewAssumption, CapAssumption, FS_CardinalityType
<1> QED  BY <1>1, <1>2, <1>3 DEF CostInv, Bounded

(* What was started stays accounted for, but for one that a fault takes. *)
LEMMA TraceKept ==
  ASSUME CostInv, RunInv', (charged \subseteq dirs)', slot'.slug = slot.slug, burnt' = burnt,
         NEW i,
         \/ Accounted \subseteq Accounted' /\ faults <= faults'
         \/ Accounted \subseteq Accounted' \cup {i} /\ faults' = faults + 1
  PROVE  Traced'
<1>1. /\ IsFiniteSet(Accounted) /\ IsFiniteSet(Accounted')
      /\ Cardinality(Accounted) \in Nat /\ Cardinality(Accounted') \in Nat
  BY Sizes DEF CostInv, BooksOk
<1>2. faults \in Nat /\ faults' \in Nat /\ burnt[slot.slug] \in Nat
  BY DEF CostInv, RunInv, BooksOk
<1>3. burnt[slot.slug] <= Cardinality(Accounted) + faults
  BY DEF CostInv, Traced
<1>4. CASE Accounted \subseteq Accounted' /\ faults <= faults'
  <2>1. Cardinality(Accounted) <= Cardinality(Accounted')
    BY <1>1, <1>4, FS_Subset
  <2> QED  BY <1>1, <1>2, <1>3, <1>4, <2>1 DEF Traced
<1>5. CASE Accounted \subseteq Accounted' \cup {i} /\ faults' = faults + 1
  <2>1. /\ IsFiniteSet(Accounted' \cup {i}) /\ Cardinality(Accounted' \cup {i}) \in Nat
        /\ Cardinality(Accounted' \cup {i}) <= Cardinality(Accounted') + 1
    <3>1. PICK A : A = Accounted'
      OBVIOUS
    <3>2. /\ IsFiniteSet(A \cup {i})
          /\ Cardinality(A \cup {i}) = IF i \in A THEN Cardinality(A) ELSE Cardinality(A) + 1
      BY <1>1, <3>1, FS_AddElement
    <3>3. Cardinality(A) \in Nat
      BY <1>1, <3>1
    <3> QED  BY <3>1, <3>2, <3>3
  <2>2. Cardinality(Accounted) <= Cardinality(Accounted' \cup {i})
    BY <1>5, <2>1, FS_Subset
  <2> QED  BY <1>1, <1>2, <1>3, <1>5, <2>1, <2>2 DEF Traced
<1> QED  BY <1>4, <1>5

LEMMA CostStep ==
  ASSUME CostInv, RunNext, NEW r \in Reviewers, NEW v, rv' = [rv EXCEPT ![r] = v],
         UNCHANGED <<slot, acks>>, IsFiniteSet(runs'),
         \A i \in dirs' \ dirs : i.slug = slot.slug /\ i.attempt <= slot.attempt,
         use' \in [Id -> Metering], (charged \subseteq dirs)', burnt' \in [Slugs -> Nat],
         \A s \in Slugs : s # slot.slug => burnt'[s] = burnt[s], HandOk(v)',
         \A q \in Reviewers : q # r /\ rv[q].pc \in Numbered =>
           use'[rv[q].run.id] = use[rv[q].run.id] /\ rv[q].run.id \notin charged' \ charged,
         Bounded', Traced'
  PROVE  CostInv'
<1>1. RunInv' /\ clock <= clock' /\ clock \in Nat /\ clock' \in Nat
  <2>1. RunInv'
    BY RunInvKept DEF CostInv
  <2> QED  BY <2>1, OnlyLooksBack DEF CostInv, RunInv
<1>2. BooksOk'
  <2>1. slot.slug \in Slugs /\ acks[slot.slug] \in Nat /\ acks[slot.slug] <= clock
    BY DEF CostInv, RunInv, BooksOk
  <2>2. acks'[slot'.slug] <= clock'
    BY <1>1, <2>1
  <2> QED  BY <2>2 DEF CostInv, BooksOk
<1>3. ASSUME NEW q \in Reviewers PROVE HandOk(rv[q])'
  <2>1. CASE q = r
    <3>1. rv'[q] = v
      BY <2>1 DEF CostInv, RunInv
    <3> QED  BY <3>1
  <2>2. CASE q # r
    <3>1. PICK w : w = rv[q] /\ w = rv'[q] /\ HandOk(w)
      BY <2>2 DEF CostInv, RunInv
    <3>2. w \in {Idle} \cup Underway
      BY <3>1 DEF CostInv, RunInv
    <3>3. CASE w.pc \in Numbered
      <4>1. use'[w.run.id] = use[w.run.id] /\ w.run.id \notin charged' \ charged
        BY <2>2, <3>1, <3>3
      <4>2. HandOk(w)'
        BY <3>1, <4>1 DEF HandOk
      <4> QED  BY <3>1, <4>2
    <3>4. CASE w.pc \notin Numbered
      <4>1. w.pc \in {"idle", "admitted"}
        BY <3>2, <3>4 DEF Underway, Idle, Numbered
      <4>2. HandOk(w)'
        BY <3>1, <4>1 DEF HandOk, Unsaved
      <4> QED  BY <3>1, <4>2
    <3> QED  BY <3>3, <3>4
  <2> QED  BY <2>1, <2>2
<1> QED  BY <1>1, <1>2, <1>3 DEF CostInv

(* Ids of other runs under way are other ids, and not of a record. *)
LEMMA OwnId ==
  ASSUME RunInv, NEW r \in Reviewers, rv[r].pc \in Numbered
  PROVE  /\ rv[r].run \in AnyRun /\ rv[r].run.id \in dirs /\ rv[r].run.id \in Id
         /\ rv[r].run.id \in BusyIds
         /\ \A q \in Reviewers : q # r /\ rv[q].pc \in Numbered => rv[q].run.id # rv[r].run.id
         /\ rv[r].pc \in Unsaved => \A n \in runs : n.id # rv[r].run.id
         /\ rv[r].pc = "saved" => rv[r].run \in runs
<1>1. rv[r].run \in AnyRun /\ ReviewerOk(rv[r])
  BY HeldTyped DEF Numbered
<1>2. \A q \in Reviewers : q # r /\ rv[q].pc \in Numbered => rv[q].run.id # rv[r].run.id
  BY DEF RunInv, OwnNumbers
<1>3. rv[r].run.id \in BusyIds
  BY DEF BusyIds, Busies
<1> QED  BY <1>1, <1>2, <1>3 DEF AnyRun, ReviewerOk, Recorded, Numbered

(* A run under way stays under way, its use is read or its record written. *)
LEMMA StaysBusy ==
  ASSUME CostInv, RunNext, NEW r \in Reviewers, NEW v, rv' = [rv EXCEPT ![r] = v],
         UNCHANGED <<slot, acks, dirs, charged, burnt>>, faults <= faults',
         rv[r].pc \in Numbered, v.pc \in Numbered \ {"packing"}, v.run.id = rv[r].run.id,
         v.run.spawned <=> rv[r].run.spawned, v.pc \in Unsaved => rv[r].pc \in Unsaved,
         runs' = runs \/ runs' = runs \cup {rv[r].run},
         \/ use' = use
         \/ rv[r].pc \in Unsaved /\ \E m \in {"metered", "partial", "unknown"} :
              use' = [use EXCEPT ![rv[r].run.id] = m]
  PROVE  CostInv'
<1> PICK id : id = rv[r].run.id
  OBVIOUS
<1>1. /\ RunInv /\ BooksOk /\ HandOk(rv[r]) /\ RunInv' /\ (charged \subseteq dirs)'
  BY RunInvKept DEF CostInv, BooksOk
<1>2. /\ id \in Id /\ id \in BusyIds
      /\ \A q \in Reviewers : q # r /\ rv[q].pc \in Numbered => rv[q].run.id # id
      /\ rv[r].pc \in Unsaved => \A n \in runs : n.id # id
  BY <1>1, OwnId
<1>3. /\ use' \in [Id -> Metering] /\ \A n \in runs : use'[n.id] = use[n.id]
      /\ \A q \in Reviewers : q # r /\ rv[q].pc \in Numbered => use'[rv[q].run.id] = use[rv[q].run.id]
      /\ use[id] \in {"metered", "partial", "unknown"} => use'[id] \in {"metered", "partial", "unknown"}
  <2>1. \A n \in runs : n.id \in Id
    BY <1>1 DEF RunInv, FilesOk, AnyRun
  <2>2. \A q \in Reviewers : rv[q].pc \in Numbered => rv[q].run.id \in Id
    BY <1>1, OwnId
  <2>3. CASE use' = use
    BY <1>1, <2>3 DEF BooksOk
  <2>4. ASSUME NEW m \in {"metered", "partial", "unknown"}, rv[r].pc \in Unsaved,
               use' = [use EXCEPT ![id] = m]
        PROVE  /\ use' \in [Id -> Metering] /\ \A n \in runs : use'[n.id] = use[n.id]
               /\ \A q \in Reviewers :
                    q # r /\ rv[q].pc \in Numbered => use'[rv[q].run.id] = use[rv[q].run.id]
               /\ use'[id] \in {"metered", "partial", "unknown"}
    <3>1. use \in [Id -> Metering] /\ m \in Metering
      BY <1>1 DEF BooksOk, Metering
    <3> QED  BY <1>2, <2>1, <2>2, <2>4, <3>1
  <2> QED  BY <2>3, <2>4
<1>4. IsFiniteSet(runs')
  BY <1>1, FS_AddElement DEF BooksOk
<1>5. GapIds' \subseteq GapIds \cup {id} /\ UnknownIds \subseteq UnknownIds'
  BY <1>1, <1>3, RecordsGrow
<1>6. /\ Adm' \subseteq Adm /\ BusyIds' \subseteq BusyIds /\ SpentIds \subseteq SpentIds'
  <2>1. /\ v.pc # "admitted" => Adm' = Adm \ {r}
        /\ v.pc \in Numbered => BusyIds' \subseteq BusyIds \cup {v.run.id}
        /\ SpentIds \subseteq SpentIds' \cup {rv[r].run.id}
        /\ ~(rv[r].pc \in Numbered /\ rv[r].run.spawned) => SpentIds \subseteq SpentIds'
        /\ v.pc \in Numbered /\ v.run.spawned => v.run.id \in SpentIds'
    BY <1>1, Effects
  <2>2. v.pc \in Numbered /\ v.pc # "admitted"
    BY DEF Numbered
  <2> QED  BY <1>2, <2>1, <2>2
<1>7. Bounded'
  BY <1>1, <1>2, <1>5, <1>6, BoundKept DEF Committed
<1>8. Traced'
  BY <1>1, <1>5, <1>6, TraceKept DEF Accounted
<1>9. HandOk(v)'
  BY <1>1, <1>3 DEF HandOk, Numbered
<1> QED
  BY <1>1, <1>3, <1>4, <1>7, <1>8, <1>9, CostStep DEF BooksOk

(* A run is over, was refused or killed. *)
LEMMA LeavesCost ==
  ASSUME CostInv, RunNext, NEW r \in Reviewers, rv' = [rv EXCEPT ![r] = Idle],
         UNCHANGED <<slot, acks, dirs, burnt, use, runs>>, rv[r].pc # "idle",
         charged \subseteq charged', charged' = charged \/
           (rv[r].pc = "saved" /\ charged' = charged \cup {rv[r].run.id}),
         \/ faults' = faults + 1
         \/ faults' = faults /\ rv[r].pc = "admitted"
         \/ faults' = faults /\ rv[r].pc = "saved"
              /\ (use[rv[r].run.id] \in {"metered", "partial"} => rv[r].run.id \in charged')
  PROVE  CostInv'
<1> PICK id : id = rv[r].run.id
  OBVIOUS
<1>1. /\ RunInv /\ BooksOk /\ HandOk(rv[r]) /\ RunInv' /\ faults \in Nat
  BY RunInvKept DEF CostInv, RunInv
<1>2. rv[r].pc \in Numbered =>
        /\ id \in dirs /\ id \in BusyIds
        /\ \A q \in Reviewers : q # r /\ rv[q].pc \in Numbered => rv[q].run.id # id
        /\ rv[r].pc = "saved" => rv[r].run \in runs
  BY <1>1, OwnId
<1>3. (charged \subseteq dirs)'
  BY <1>1, <1>2 DEF BooksOk, Numbered
<1>4. Idle.pc = "idle"
  BY DEF Idle
<1>5. /\ Adm' \subseteq Adm /\ BusyIds' \subseteq BusyIds
      /\ SpentIds \subseteq SpentIds' \cup {id}
      /\ ~(rv[r].pc \in Numbered /\ rv[r].run.spawned) => SpentIds \subseteq SpentIds'
  <2>1. PICK v : v = Idle
    OBVIOUS
  <2>2. /\ v.pc # "admitted" => Adm' = Adm \ {r}
        /\ v.pc \notin Numbered => BusyIds' \subseteq BusyIds
        /\ SpentIds \subseteq SpentIds' \cup {rv[r].run.id}
        /\ ~(rv[r].pc \in Numbered /\ rv[r].run.spawned) => SpentIds \subseteq SpentIds'
    BY <1>1, <2>1, Effects
  <2>3. v.pc \notin Numbered /\ v.pc # "admitted"
    BY <1>4, <2>1 DEF Numbered
  <2> QED  BY <2>2, <2>3
<1>6. GapIds' \subseteq GapIds /\ UnknownIds \subseteq UnknownIds'
  BY <1>1, RecordsGrow
<1>7. Bounded'
  <2>1. Committed' \subseteq Committed
    BY <1>2, <1>5, <1>6 DEF Committed, Numbered
  <2> QED  BY <1>1, <1>3, <1>5, <2>1, BoundKept
<1>8. Traced'
  <2>1. Accounted \subseteq Accounted' \cup {id}
    BY <1>5, <1>6 DEF Accounted
  <2>2. CASE faults' = faults + 1
    BY <1>1, <1>3, <2>1, <2>2, TraceKept
  <2>3. CASE rv[r].pc = "admitted" /\ faults' = faults
    <3>1. Accounted \subseteq Accounted'
      BY <1>5, <1>6, <2>3 DEF Accounted, Numbered
    <3> QED  BY <1>1, <1>3, <2>3, <3>1, TraceKept
  <2>4. CASE /\ rv[r].pc = "saved" /\ faults' = faults
             /\ use[id] \in {"metered", "partial"} => id \in charged'
    <3>1. ASSUME rv[r].run.spawned PROVE id \in charged' \cup UnknownIds'
      <4>1. use[id] \in {"metered", "partial", "unknown"}
        BY <1>1, <2>4, <3>1 DEF HandOk
      <4>2. use[id] = "unknown" => id \in UnknownIds
        BY <1>2, <2>4 DEF UnknownIds, Numbered
      <4> QED  BY <1>6, <2>4, <4>1, <4>2
    <3>2. Accounted \subseteq Accounted'
      BY <1>5, <1>6, <3>1 DEF Accounted
    <3> QED  BY <1>1, <1>3, <2>4, <3>2, TraceKept
  <2> QED  BY <2>2, <2>3, <2>4
<1>9. HandOk(Idle)'
  BY <1>4 DEF HandOk
<1>10. \A q \in Reviewers : q # r /\ rv[q].pc \in Numbered =>
         use'[rv[q].run.id] = use[rv[q].run.id] /\ rv[q].run.id \notin charged' \ charged
  BY <1>2 DEF Numbered
<1> QED
  BY <1>1, <1>3, <1>7, <1>8, <1>9, <1>10, CostStep DEF BooksOk

(* Nobody is let through once the cap is reached or a use is not known; who  *)
(* is let through at the same time may be every other reviewer.             *)
LEMMA StartStep == ASSUME CostInv, NEW r \in Reviewers, Start(r) PROVE CostInv'
<1>1. PICK duty \in Duties : Admit(r, duty, "review")
  BY DEF Start
<1>2. /\ RunNext /\ RunInv /\ BooksOk /\ RunInv' /\ slot.slug \in Slugs
  <2>1. "review" \in Purposes
    BY DEF Purposes
  <2>2. RunNext
    BY <1>1, <2>1 DEF RunNext, RunStep
  <2> QED  BY <2>2, RunInvKept DEF CostInv, RunInv
<1>3. PICK v : v = [pc |-> "admitted",
        run |-> [id |-> [slug |-> slot.slug, attempt |-> slot.attempt, seq |-> 1],
                 duty |-> duty, purpose |-> "review", head |-> head, input |-> head,
                 snap |-> head, at |-> 0, spawned |-> FALSE, valid |-> FALSE, reported |-> {}]]
  OBVIOUS
<1>4. /\ rv' = [rv EXCEPT ![r] = v] /\ v.pc = "admitted" /\ ~v.run.spawned
      /\ v.run.id.slug = slot.slug /\ v.run.id.attempt = slot.attempt /\ rv[r] = Idle
      /\ UNCHANGED <<slot, runs, dirs, clock, faults, use, charged, acks, burnt>>
  BY <1>1, <1>3 DEF Admit, Start, use_vars
<1>5. rv[r].pc = "idle" /\ slot.attempt \in Nat
  BY <1>2, <1>4 DEF Idle, RunInv
<1>6. (charged \subseteq dirs)' /\ v.pc \notin Numbered /\ v.pc \notin Unsaved
  BY <1>2, <1>4 DEF BooksOk, Numbered, Unsaved
<1>7. /\ Adm' = Adm \cup {r} /\ BusyIds' \subseteq BusyIds /\ SpentIds \subseteq SpentIds'
  <2>1. /\ v.pc = "admitted" => Adm' = Adm \cup {r}
        /\ v.pc \notin Numbered => BusyIds' \subseteq BusyIds
        /\ ~(rv[r].pc \in Numbered /\ rv[r].run.spawned) => SpentIds \subseteq SpentIds'
    BY <1>2, <1>4, Effects
  <2> QED  BY <1>4, <1>5, <1>6, <2>1 DEF Numbered
<1>8. GapIds' \subseteq GapIds /\ UnknownIds \subseteq UnknownIds'
  BY <1>2, <1>4, RecordsGrow
<1>9. GapIds = {} /\ Cardinality(charged) < Cap
  <2>1. Preflight(slot.slug, slot.attempt)
    BY DEF Start
  <2>2. \A n \in runs : n.id.slug = slot.slug /\ n.id.attempt <= slot.attempt
    BY <1>2 DEF RunInv, FilesOk, BooksOk, Recorded
  <2>3. {i \in charged : i.slug = slot.slug} = charged
    BY <1>2 DEF BooksOk
  <2>4. \A n \in runs : ~NotKnown(n)
    BY <2>1, <2>2 DEF Preflight, Gaps
  <2> QED  BY <2>1, <2>3, <2>4 DEF Preflight, Used, GapIds
<1>10. Bounded'
  <2>1. Committed' \subseteq BusyIds \cup charged
    BY <1>4, <1>7, <1>8, <1>9 DEF Committed
  <2>2. /\ IsFiniteSet(Reviewers) /\ IsFiniteSet(Busies) /\ IsFiniteSet(charged)
        /\ Cardinality(charged) \in Nat /\ Cardinality(Busies) \in Nat
    <3>1. IsFiniteSet(Reviewers) /\ IsFiniteSet(dirs) /\ Busies \in SUBSET Reviewers
          /\ charged \in SUBSET dirs
      BY <1>2, InDirs, ReviewAssumption DEF BooksOk
    <3> QED  BY <3>1, FS_Subset, FS_CardinalityType
  <2>3. IsFiniteSet(BusyIds) /\ Cardinality(BusyIds) <= Cardinality(Busies)
    <3>1. PICK f : f = [q \in Busies |-> rv[q].run.id]
      OBVIOUS
    <3>2. BusyIds = {f[q] : q \in Busies} /\ DOMAIN f = Busies /\ f = [q \in Busies |-> f[q]]
      BY <3>1 DEF BusyIds
    <3> QED  BY <2>2, <3>2, ImageAtMost
  <2>4. /\ IsFiniteSet(BusyIds \cup charged)
        /\ Cardinality(BusyIds \cup charged) <= Cardinality(BusyIds) + Cardinality(charged)
    BY <2>2, <2>3, UnionAtMost
  <2>5. Cardinality(Committed') <= Cardinality(BusyIds \cup charged)
    BY <2>1, <2>4, FS_Subset
  <2>6. Adm' \cup Busies \subseteq Reviewers /\ Adm' \cap Busies = {}
    BY <1>5, <1>7 DEF Adm, Busies, Numbered
  <2>7. /\ Cardinality(Adm') \in Nat /\ Cardinality(Reviewers) \in Nat
        /\ Cardinality(Adm') + Cardinality(Busies) <= Cardinality(Reviewers)
    BY <2>2, <2>6, DisjointAtLeast
  <2>8. /\ Cardinality(Committed') \in Nat /\ Cardinality(BusyIds) \in Nat
        /\ Cardinality(BusyIds \cup charged) \in Nat /\ Cap \in Nat
    <3>1. Cardinality(Committed') \in Nat
      BY <1>2, <1>6, Sizes DEF BooksOk
    <3> QED  BY <3>1, <2>3, <2>4, FS_CardinalityType, CapAssumption
  <2>9. Cardinality(Adm') + Cardinality(Committed') <= Cap + Cardinality(Reviewers) - 1
    BY <1>9, <2>2, <2>3, <2>4, <2>5, <2>7, <2>8
  <2> QED  BY <2>9 DEF Bounded
<1>11. Traced'
  <2>1. Accounted \subseteq Accounted' /\ faults <= faults'
    BY <1>2, <1>4, <1>7, <1>8 DEF Accounted, RunInv
  <2> QED  BY <1>2, <1>4, <1>6, <2>1, TraceKept
<1>12. HandOk(v)'
  BY <1>4, <1>5, <1>6 DEF HandOk
<1> QED
  BY <1>2, <1>4, <1>6, <1>10, <1>11, <1>12, CostStep DEF BooksOk

LEMMA PackCost == ASSUME CostInv, NEW r \in Reviewers, Pack(r), UNCHANGED use_vars PROVE CostInv'
<1>1. /\ RunNext /\ RunInv /\ BooksOk /\ RunInv' /\ HandOk(rv[r]) /\ rv[r].pc = "admitted"
      /\ UNCHANGED <<slot, runs, clock, faults, use, charged, acks, burnt>>
  <2>1. RunNext
    BY DEF RunNext, RunStep
  <2> QED  BY <2>1, RunInvKept DEF CostInv, Pack, use_vars
<1>2. PICK old \in AnyRun : old = rv[r].run
  BY <1>1, HeldTyped
<1>3. PICK n : n = NextRunSeq(old.id.slug, old.id.attempt)
  OBVIOUS
<1>4. PICK i : i = [slug |-> old.id.slug, attempt |-> old.id.attempt, seq |-> n]
  OBVIOUS
<1>5. i \notin dirs
  <2>1. /\ dirs \in SUBSET Id /\ IsFiniteSet(dirs) /\ NoGap(dirs) /\ dirs = dirs \cup Recorded
        /\ Cardinality(dirs) < MaxRuns
    BY <1>1 DEF RunInv, FilesOk, Pack
  <2>2. old.id.slug \in Slugs /\ old.id.attempt \in 1..MaxAttempt
    BY DEF AnyRun, Id
  <2> QED  BY <1>3, <1>4, <2>1, <2>2, NextIsNew
<1>6. PICK run : run = buildInputPackage(reserveRun(old))
  OBVIOUS
<1>7. run.id = i /\ run.spawned = old.spawned
  <2>1. [old.id EXCEPT !.seq = n] = i
    BY <1>4 DEF AnyRun, Id
  <2> QED  BY <1>3, <1>6, <2>1 DEF buildInputPackage, reserveRun, AnyRun
<1>8. PICK v : v = [pc |-> "packing", run |-> run]
  OBVIOUS
<1>9. /\ rv' = [rv EXCEPT ![r] = v] /\ dirs' = dirs \cup {i}
      /\ v.pc = "packing" /\ v.run = run
  BY <1>2, <1>6, <1>7, <1>8 DEF Pack
<1>10. /\ i.slug = slot.slug /\ i.attempt <= slot.attempt /\ ~run.spawned /\ i \notin charged'
       /\ (charged \subseteq dirs)'
  BY <1>1, <1>2, <1>4, <1>5, <1>7, <1>9 DEF HandOk, BooksOk
<1>11. /\ Adm' = Adm \ {r} /\ BusyIds' \subseteq BusyIds \cup {i} /\ SpentIds \subseteq SpentIds'
  <2>1. /\ v.pc # "admitted" => Adm' = Adm \ {r}
        /\ v.pc \in Numbered => BusyIds' \subseteq BusyIds \cup {v.run.id}
        /\ ~(rv[r].pc \in Numbered /\ rv[r].run.spawned) => SpentIds \subseteq SpentIds'
    BY <1>1, <1>9, Effects
  <2> QED  BY <1>1, <1>7, <1>9, <2>1 DEF Numbered
<1>12. GapIds' \subseteq GapIds /\ UnknownIds \subseteq UnknownIds'
  BY <1>1, RecordsGrow
<1>13. Bounded'
  <2>1. Committed' \subseteq Committed \cup {i}
    BY <1>1, <1>11, <1>12 DEF Committed
  <2>2. /\ IsFiniteSet(Adm) /\ IsFiniteSet(Committed) /\ Cardinality(Adm) \in Nat
        /\ Cardinality(Committed) \in Nat /\ Cardinality(Adm') \in Nat
        /\ Cardinality(Committed') \in Nat
    BY <1>1, <1>10, Sizes DEF BooksOk
  <2>3. Cardinality(Adm') = Cardinality(Adm) - 1
    <3>1. r \in Adm
      BY <1>1 DEF Adm
    <3> QED  BY <1>11, <2>2, <3>1, FS_RemoveElement
  <2>4. Cardinality(Committed') <= Cardinality(Committed) + 1
    <3>1. PICK C : C = Committed
      OBVIOUS
    <3>2. /\ IsFiniteSet(C \cup {i})
          /\ Cardinality(C \cup {i}) = IF i \in C THEN Cardinality(C) ELSE Cardinality(C) + 1
      BY <2>2, <3>1, FS_AddElement
    <3>3. Cardinality(Committed') <= Cardinality(C \cup {i})
      BY <2>1, <3>1, <3>2, FS_Subset
    <3>4. Cardinality(C \cup {i}) \in Nat
      BY <3>2, FS_CardinalityType
    <3> QED  BY <2>2, <3>1, <3>2, <3>3, <3>4
  <2>5. Cardinality(Reviewers) \in Nat /\ Cap \in Nat
    BY ReviewAssumption, CapAssumption, FS_CardinalityType
  <2> QED  BY <2>2, <2>3, <2>4, <2>5 DEF CostInv, Bounded
<1>14. Traced'
  <2>1. Accounted \subseteq Accounted' /\ faults <= faults'
    BY <1>1, <1>11, <1>12 DEF Accounted, RunInv
  <2> QED  BY <1>1, <1>10, <2>1, TraceKept
<1>15. HandOk(v)'
  BY <1>1, <1>7, <1>9, <1>10 DEF HandOk
<1>16. /\ \A j \in dirs' \ dirs : j.slug = slot.slug /\ j.attempt <= slot.attempt
       /\ IsFiniteSet(runs') /\ use' \in [Id -> Metering] /\ burnt' \in [Slugs -> Nat]
  BY <1>1, <1>9, <1>10 DEF BooksOk
<1> QED
  BY <1>1, <1>9, <1>10, <1>13, <1>14, <1>15, <1>16, CostStep

(* A session is started: one more id that it can be found by. *)
LEMMA SpawnCost ==
  ASSUME CostInv, NEW r \in Reviewers, NEW leaks \in BOOLEAN, Spawn(r, leaks) PROVE CostInv'
<1>1. /\ RunNext /\ RunInv /\ BooksOk /\ RunInv' /\ HandOk(rv[r]) /\ rv[r].pc = "packing"
      /\ UNCHANGED <<slot, runs, dirs, faults, charged, acks>> /\ faults \in Nat
  <2>1. RunNext
    BY DEF RunNext, RunStep, Spawn
  <2> QED  BY <2>1, RunInvKept DEF CostInv, Spawn, Prepare, RunInv
<1>2. PICK old \in AnyRun : old = rv[r].run
  BY <1>1, HeldTyped
<1>3. PICK i : i = old.id
  OBVIOUS
<1>4. /\ i \in Id /\ i \in dirs /\ i.slug = slot.slug /\ i.attempt <= slot.attempt
      /\ ~old.spawned /\ i \notin charged /\ \A n \in runs : n.id # i
      /\ \A q \in Reviewers : q # r /\ rv[q].pc \in Numbered => rv[q].run.id # i
  BY <1>1, <1>2, <1>3, OwnId DEF HandOk, Numbered, Unsaved
<1>5. CASE leaks
  <2>1. PICK run : run = [materializeCandidate(old) EXCEPT !.at = clock + 1]
    OBVIOUS
  <2>2. run.id = i /\ run.spawned = old.spawned
    BY <1>3, <2>1 DEF materializeCandidate, AnyRun
  <2>3. PICK v : v = [pc |-> "ended", run |-> run]
    OBVIOUS
  <2>4. rv' = [rv EXCEPT ![r] = v] /\ use' = use /\ burnt' = burnt /\ v.pc = "ended" /\ v.run = run
    BY <1>2, <1>5, <2>1, <2>3 DEF Spawn, Prepare
  <2>5. v.pc \in Numbered \ {"packing"} /\ rv[r].pc \in Numbered /\ rv[r].pc \in Unsaved
    BY <1>1, <2>4 DEF Numbered, Unsaved
  <2>6. v.run.id = rv[r].run.id /\ (v.run.spawned <=> rv[r].run.spawned)
    BY <1>2, <1>3, <2>2, <2>4
  <2>7. UNCHANGED <<slot, acks, dirs, charged, burnt>> /\ runs' = runs /\ faults <= faults'
    BY <1>1, <2>4
  <2> QED  BY <1>1, <2>4, <2>5, <2>6, <2>7, StaysBusy
<1>6. CASE ~leaks
  <2>1. PICK run : run = [materializeCandidate(old) EXCEPT !.spawned = TRUE]
    OBVIOUS
  <2>2. run.id = i /\ run.spawned
    BY <1>3, <2>1 DEF materializeCandidate, AnyRun
  <2>3. PICK v : v = [pc |-> "running", run |-> run]
    OBVIOUS
  <2>4. /\ rv' = [rv EXCEPT ![r] = v] /\ v.pc = "running" /\ v.run = run
    BY <1>2, <1>6, <2>1, <2>3 DEF Spawn, Prepare
  <2>5. rv'[r].run.id = i
    BY <1>1, <2>2, <2>4 DEF RunInv
  <2>6. use' = [use EXCEPT ![i] = "unknown"] /\ burnt' = [burnt EXCEPT ![i.slug] = @ + 1]
    BY <1>6, <2>5 DEF Spawn
  <2>7. /\ use' \in [Id -> Metering] /\ use'[i] = "unknown"
        /\ \A n \in runs : use'[n.id] = use[n.id]
        /\ \A q \in Reviewers :
             q # r /\ rv[q].pc \in Numbered => use'[rv[q].run.id] = use[rv[q].run.id]
    <3>1. use \in [Id -> Metering] /\ "unknown" \in Metering
      BY <1>1 DEF BooksOk, Metering
    <3>2. \A n \in runs : n.id \in Id
      BY <1>1 DEF RunInv, FilesOk, AnyRun
    <3>3. \A q \in Reviewers : rv[q].pc \in Numbered => rv[q].run.id \in Id
      BY <1>1, OwnId
    <3> QED  BY <1>4, <2>6, <3>1, <3>2, <3>3
  <2>8. /\ burnt' \in [Slugs -> Nat] /\ burnt'[slot.slug] = burnt[slot.slug] + 1
        /\ \A s \in Slugs : s # slot.slug => burnt'[s] = burnt[s]
    <3>1. burnt \in [Slugs -> Nat] /\ slot.slug \in Slugs
      BY <1>1 DEF BooksOk, RunInv
    <3> QED  BY <1>4, <2>6, <3>1
  <2>9. /\ Adm' \subseteq Adm /\ BusyIds' \subseteq BusyIds
        /\ SpentIds \subseteq SpentIds' /\ i \in SpentIds'
    <3>1. /\ v.pc # "admitted" => Adm' = Adm \ {r}
          /\ v.pc \in Numbered => BusyIds' \subseteq BusyIds \cup {v.run.id}
          /\ ~(rv[r].pc \in Numbered /\ rv[r].run.spawned) => SpentIds \subseteq SpentIds'
          /\ v.pc \in Numbered /\ v.run.spawned => v.run.id \in SpentIds'
      BY <1>1, <2>4, Effects
    <3>2. i \in BusyIds
      BY <1>1, <1>2, <1>3, OwnId DEF Numbered
    <3>3. v.pc \in Numbered /\ v.pc # "admitted"
      BY <2>4 DEF Numbered
    <3> QED  BY <1>2, <1>4, <2>2, <2>4, <3>1, <3>2, <3>3
  <2>10. i \notin Accounted
    <3>1. i \notin SpentIds
      BY <1>1, <1>2, <1>3, <1>4 DEF SpentIds, Busies
    <3>2. i \notin UnknownIds
      BY <1>4 DEF UnknownIds
    <3> QED  BY <1>4, <3>1, <3>2 DEF Accounted
  <2>11. GapIds' \subseteq GapIds /\ UnknownIds \subseteq UnknownIds'
    BY <1>1, <2>7, RecordsGrow
  <2>12. (charged \subseteq dirs)'
    BY <1>1 DEF BooksOk
  <2>13. Bounded'
    <3>1. Committed' \subseteq Committed
      BY <1>1, <2>9, <2>11 DEF Committed
    <3> QED  BY <1>1, <2>9, <2>12, <3>1, BoundKept
  <2>14. Traced'
    <3>1. /\ IsFiniteSet(Accounted) /\ IsFiniteSet(Accounted')
          /\ Cardinality(Accounted) \in Nat /\ Cardinality(Accounted') \in Nat
      BY <1>1, <2>12, Sizes DEF BooksOk
    <3>2. Accounted \cup {i} \subseteq Accounted'
      BY <1>1, <2>9, <2>11 DEF Accounted
    <3>3. PICK A : A = Accounted
      OBVIOUS
    <3>4. Cardinality(A \cup {i}) = Cardinality(A) + 1
      BY <2>10, <3>1, <3>3, FS_AddElement
    <3>5. Cardinality(A \cup {i}) <= Cardinality(Accounted')
      BY <3>1, <3>2, <3>3, FS_Subset
    <3>6. burnt[slot.slug] <= Cardinality(Accounted) + faults
      BY DEF CostInv, Traced
    <3>7. burnt[slot.slug] \in Nat
      BY <1>1 DEF BooksOk, RunInv
    <3> QED  BY <1>1, <2>8, <3>1, <3>3, <3>4, <3>5, <3>6, <3>7 DEF Traced
  <2>15. HandOk(v)'
    BY <1>1, <1>4, <2>2, <2>4, <2>7 DEF HandOk
  <2> QED
    BY <1>1, <2>4, <2>7, <2>8, <2>12, <2>13, <2>14, <2>15, CostStep DEF BooksOk
<1> QED  BY <1>5, <1>6

(* The session is over and its use read. *)
LEMMA EndCost ==
  ASSUME CostInv, NEW r \in Reviewers, NEW m \in {"metered", "partial", "unknown"}, End(r, m)
  PROVE  CostInv'
<1>1. PICK sound \in Soundness : Judge(r, sound /\ m # "unknown", {})
  BY DEF End
<1>2. PICK b \in BOOLEAN : b = (sound /\ m # "unknown") /\ Judge(r, b, {})
  BY <1>1
<1>3. RunNext /\ RunInv
  <2>1. {} \in SUBSET Fps
    OBVIOUS
  <2> QED  BY <1>2, <2>1 DEF RunNext, RunStep, CostInv
<1>4. /\ rv[r].pc = "running" /\ use' = [use EXCEPT ![rv[r].run.id] = m]
      /\ UNCHANGED <<slot, dirs, runs, acks, charged, burnt, faults>>
  BY <1>2 DEF Judge, End
<1>5. PICK old \in AnyRun : old = rv[r].run
  BY <1>3, <1>4, HeldTyped
<1>6. PICK valid : valid = (b /\ ~Moved(old))
  OBVIOUS
<1>7. PICK n : n = [old EXCEPT !.at = clock + 1, !.valid = valid,
                               !.reported = IF valid THEN {} ELSE {}]
  OBVIOUS
<1>8. n.id = old.id /\ n.spawned = old.spawned
  BY <1>7 DEF AnyRun
<1>9. PICK v : v = [pc |-> "ended", run |-> n]
  OBVIOUS
<1>10. rv' = [rv EXCEPT ![r] = v]
  BY <1>2, <1>5, <1>6, <1>7, <1>9 DEF Judge
<1>11. /\ v.pc \in Numbered \ {"packing"} /\ rv[r].pc \in Numbered /\ rv[r].pc \in Unsaved
       /\ v.run.id = rv[r].run.id /\ (v.run.spawned <=> rv[r].run.spawned)
  BY <1>4, <1>5, <1>8, <1>9 DEF Numbered, Unsaved
<1>12. faults <= faults'
  BY <1>3, <1>4 DEF RunInv
<1> QED  BY <1>3, <1>4, <1>10, <1>11, <1>12, StaysBusy

(* Recorded as interrupted, its use is not known. *)
LEMMA InterruptedCost ==
  ASSUME CostInv, RunNext, NEW r \in Reviewers, rv[r].pc \in {"packing", "ended"}, NEW n,
         n.id = rv[r].run.id, n.spawned = rv[r].run.spawned,
         rv' = [rv EXCEPT ![r] = [pc |-> "interrupted", run |-> n]],
         faults' = faults + 1, UNCHANGED <<slot, dirs, runs, acks, charged, burnt>>,
         use' = IF rv'[r].pc = "interrupted" THEN [use EXCEPT ![rv[r].run.id] = "unknown"] ELSE use
  PROVE  CostInv'
<1>1. PICK v : v = [pc |-> "interrupted", run |-> n]
  OBVIOUS
<1>2. rv' = [rv EXCEPT ![r] = v] /\ rv'[r].pc = "interrupted"
  BY <1>1 DEF CostInv, RunInv
<1>3. /\ v.pc \in Numbered \ {"packing"} /\ rv[r].pc \in Numbered /\ rv[r].pc \in Unsaved
      /\ v.run.id = rv[r].run.id /\ (v.run.spawned <=> rv[r].run.spawned)
  BY <1>1 DEF Numbered, Unsaved
<1>4. \E m \in {"metered", "partial", "unknown"} : use' = [use EXCEPT ![rv[r].run.id] = m]
  BY <1>2
<1>5. faults <= faults'
  BY DEF CostInv, RunInv
<1> QED  BY <1>2, <1>3, <1>4, <1>5, StaysBusy

LEMMA RefusedCost == ASSUME CostInv, NEW r \in Reviewers, Refused(r) PROVE CostInv'
<1>1. RunNext /\ RunInv /\ UNCHANGED <<charged, acks, burnt>>
      /\ use' = IF rv'[r].pc = "interrupted" THEN [use EXCEPT ![rv[r].run.id] = "unknown"] ELSE use
  BY DEF Refused, RunNext, RunStep, CostInv
<1>2. faults' = faults + 1 /\ UNCHANGED <<slot, dirs, runs>>
  BY DEF Refused, LockRefused, PrepareFailed
<1>3. CASE PrepareFailed(r)
  <2>1. rv[r].pc = "packing"
    BY <1>3 DEF PrepareFailed
  <2>2. PICK old \in AnyRun : old = rv[r].run
    BY <1>1, <2>1, HeldTyped
  <2>3. PICK n : n = [old EXCEPT !.at = clock + 1]
    OBVIOUS
  <2>4. n.id = old.id /\ n.spawned = old.spawned
    BY <2>3 DEF AnyRun
  <2>5. rv' = [rv EXCEPT ![r] = [pc |-> "interrupted", run |-> n]]
    BY <1>1, <1>3, <2>2, <2>3 DEF PrepareFailed, RunInv
  <2> QED  BY <1>1, <1>2, <2>1, <2>2, <2>4, <2>5, InterruptedCost
<1>4. ASSUME rv[r].pc = "ended",
             rv' = [rv EXCEPT ![r] =
               [pc |-> "interrupted",
                run |-> [@.run EXCEPT !.valid = FALSE, !.reported = {}, !.at = clock + 1]]]
      PROVE  CostInv'
  <2>1. PICK old \in AnyRun : old = rv[r].run
    BY <1>1, <1>4, HeldTyped
  <2>2. PICK n : n = [old EXCEPT !.valid = FALSE, !.reported = {}, !.at = clock + 1]
    OBVIOUS
  <2>3. n.id = old.id /\ n.spawned = old.spawned
    BY <2>2 DEF AnyRun
  <2>4. rv' = [rv EXCEPT ![r] = [pc |-> "interrupted", run |-> n]]
    BY <1>1, <1>4, <2>1, <2>2 DEF RunInv
  <2> QED  BY <1>1, <1>2, <1>4, <2>1, <2>3, <2>4, InterruptedCost
<1>5. ASSUME rv[r].pc # "idle", rv' = [rv EXCEPT ![r] = Idle] PROVE CostInv'
  <2>1. rv'[r].pc = "idle"
    BY <1>1, <1>5 DEF RunInv, Idle
  <2> QED  BY <1>1, <1>2, <1>5, <2>1, LeavesCost
<1> QED  BY <1>3, <1>4, <1>5 DEF Refused, LockRefused

(* It is written down. *)
LEMMA WrittenCost ==
  ASSUME CostInv, NEW r \in Reviewers, Wire(r) \/ SaveRun(r), UNCHANGED use_vars PROVE CostInv'
<1>1. /\ RunNext /\ RunInv /\ UNCHANGED <<slot, dirs, faults, use, charged, acks, burnt>>
      /\ rv[r].pc \in {"ended", "interrupted", "wired"}
      /\ (runs' = runs \/ runs' = runs \cup {rv[r].run}) /\ faults <= faults'
  BY DEF Wire, SaveRun, RunNext, RunStep, use_vars, CostInv, RunInv
<1>2. PICK pc \in {"wired", "saved"} :
        rv' = [rv EXCEPT ![r].pc = pc] /\ (pc \in Unsaved => rv[r].pc \in Unsaved)
  BY DEF Wire, SaveRun, Unsaved
<1>3. PICK v : v = [rv[r] EXCEPT !.pc = pc]
  OBVIOUS
<1>4. rv[r] \in Underway
  BY <1>1, HeldTyped
<1>5. v.pc = pc /\ v.run = rv[r].run /\ rv' = [rv EXCEPT ![r] = v]
  BY <1>2, <1>3, <1>4 DEF Underway
<1>6. v.pc \in Numbered \ {"packing"} /\ rv[r].pc \in Numbered /\ (v.pc \in Unsaved => rv[r].pc \in Unsaved)
  BY <1>1, <1>2, <1>5 DEF Numbered
<1> QED  BY <1>1, <1>5, <1>6, StaysBusy

LEMMA EndedCost ==
  ASSUME CostInv, NEW r \in Reviewers,
         \/ Charge(r)
         \/ (PrepareRefused(r) \/ ReviewerKilled(r)) /\ UNCHANGED use_vars
  PROVE  CostInv'
<1>0. RunInv /\ faults \in Nat
  BY DEF CostInv, RunInv
<1>1. CASE Charge(r)
  <2>1. /\ RunNext /\ rv' = [rv EXCEPT ![r] = Idle] /\ rv[r].pc = "saved"
        /\ UNCHANGED <<slot, acks, dirs, burnt, use, runs, faults>>
        /\ charged' = IF use[rv[r].run.id] \in {"metered", "partial"}
                      THEN charged \cup {rv[r].run.id} ELSE charged
    BY <1>1 DEF Charge, Leave, RunNext, RunStep
  <2> QED  BY <2>1, LeavesCost
<1>2. CASE PrepareRefused(r) /\ UNCHANGED use_vars
  <2>1. /\ RunNext /\ rv' = [rv EXCEPT ![r] = Idle] /\ rv[r].pc = "admitted"
        /\ UNCHANGED <<slot, acks, dirs, burnt, use, runs, faults, charged>>
    BY <1>2 DEF PrepareRefused, RunNext, RunStep, use_vars
  <2> QED  BY <2>1, LeavesCost
<1>3. CASE ReviewerKilled(r) /\ UNCHANGED use_vars
  <2>1. /\ RunNext /\ rv' = [rv EXCEPT ![r] = Idle] /\ rv[r] # Idle /\ faults' = faults + 1
        /\ UNCHANGED <<slot, acks, dirs, burnt, use, runs, charged>>
    BY <1>3 DEF ReviewerKilled, RunNext, RunStep, use_vars
  <2>2. rv[r].pc # "idle"
    BY <1>0, <2>1 DEF RunInv, Underway, Idle
  <2> QED  BY <2>1, <2>2, LeavesCost
<1> QED  BY <1>1, <1>2, <1>3

(* The goal goes on, the worker commits, or what is not known is waved      *)
(* through.                                                                 *)
LEMMA AroundCost ==
  ASSUME CostInv, \/ (Reattempt \/ Commit) /\ UNCHANGED use_vars
                  \/ AckMetering \/ UNCHANGED all_budget
  PROVE  CostInv'
<1>1. /\ UNCHANGED <<rv, runs, dirs, clock, faults, use, charged, burnt>> /\ RunNext
      /\ slot'.slug = slot.slug /\ slot.attempt <= slot'.attempt
      /\ acks' = acks \/ (slot' = slot /\ acks' = [acks EXCEPT ![slot.slug] = clock])
  <2>1. slot.attempt \in Nat /\ slot \in [slug : Slugs, attempt : 1..MaxAttempt]
    BY DEF CostInv, RunInv
  <2>2. CASE Reattempt /\ UNCHANGED use_vars
    BY <2>1, <2>2 DEF Reattempt, use_vars, RunNext
  <2>3. CASE Commit /\ UNCHANGED use_vars
    BY <2>1, <2>3 DEF Commit, use_vars, RunNext
  <2>4. CASE AckMetering \/ UNCHANGED all_budget
    BY <2>1, <2>4 DEF use_vars, AckMetering, all_budget, run_vars, RunNext
  <2> QED  BY <2>2, <2>3, <2>4
<1>2. RunInv' /\ RunInv /\ BooksOk /\ clock \in Nat /\ slot.slug \in Slugs /\ slot.attempt \in Nat
      /\ slot'.attempt \in Nat
  <2>1. RunInv'
    BY <1>1, RunInvKept DEF CostInv
  <2> QED  BY <2>1 DEF CostInv, RunInv
<1>3. /\ acks' \in [Slugs -> Nat] /\ acks'[slot.slug] <= clock
      /\ acks[slot.slug] <= acks'[slot.slug]
  BY <1>1, <1>2 DEF BooksOk
<1>4. \A i \in dirs : i.slug = slot.slug /\ i.attempt <= slot'.attempt
  <2>1. \A i \in dirs : i.attempt \in Nat
    BY <1>2 DEF RunInv, FilesOk, Id
  <2> QED  BY <1>1, <1>2, <2>1 DEF BooksOk
<1>5. BooksOk' /\ (charged \subseteq dirs)'
  BY <1>1, <1>2, <1>3, <1>4 DEF BooksOk
<1>6. Adm' = Adm /\ BusyIds' = BusyIds /\ SpentIds' = SpentIds /\ UnknownIds' = UnknownIds
  BY <1>1 DEF Adm, BusyIds, SpentIds, Busies, UnknownIds
<1>7. GapIds' \subseteq GapIds
  <2>1. ASSUME NEW n \in runs, NotKnown(n)' PROVE NotKnown(n)
    <3>1. n.id.slug = slot.slug /\ n.at \in Nat
      BY <1>2 DEF RunInv, FilesOk, BooksOk, Recorded, AnyRun
    <3>2. acks[slot.slug] \in Nat /\ acks'[slot.slug] \in Nat
      BY <1>2, <1>3 DEF BooksOk
    <3>3. n.at > acks'[slot.slug] => n.at > acks[slot.slug]
      BY <1>3, <3>1, <3>2
    <3> QED  BY <1>1, <2>1, <3>1, <3>3 DEF NotKnown
  <2> QED  BY <1>1, <2>1 DEF GapIds
<1>8. Bounded'
  <2>1. Committed' \subseteq Committed /\ Adm' \subseteq Adm
    BY <1>1, <1>6, <1>7 DEF Committed
  <2> QED  BY <1>2, <1>5, <2>1, BoundKept
<1>9. Traced'
  BY <1>1, <1>6 DEF CostInv, Traced, Accounted
<1>10. ASSUME NEW r \in Reviewers PROVE HandOk(rv[r])'
  <2>1. PICK w \in {Idle} \cup Underway : w = rv[r] /\ w = rv'[r] /\ HandOk(w)
    BY <1>1 DEF CostInv, RunInv
  <2>2. w.pc # "idle" => w.run.id.attempt \in Nat
    BY <2>1 DEF Underway, AnyRun, Id, Idle
  <2>3. HandOk(w)'
    BY <1>1, <1>2, <2>1, <2>2 DEF HandOk
  <2> QED  BY <2>1, <2>3
<1> QED  BY <1>2, <1>5, <1>8, <1>9, <1>10 DEF CostInv

LEMMA CostInvKept == ASSUME CostInv, [BudgetNext]_all_budget PROVE CostInv'
<1>1. ASSUME NEW r \in Reviewers, ReviewerStep(r) PROVE CostInv'
  BY <1>1, StartStep, EndedCost, RefusedCost, SpawnCost, EndCost, PackCost, WrittenCost
     DEF ReviewerStep
<1> QED  BY <1>1, AroundCost DEF BudgetNext

LEMMA CostInvStart == ASSUME BudgetInit PROVE CostInv
<1>1. /\ RunInv /\ slot.slug \in Slugs /\ runs = {} /\ dirs = {} /\ clock = 0 /\ faults = 0
      /\ charged = {} /\ \A r \in Reviewers : rv[r].pc = "idle"
  BY RunInvStart DEF BudgetInit, ReviewInit, Idle, RunInv
<1>2. /\ use \in [Id -> Metering] /\ acks \in [Slugs -> Nat] /\ acks[slot.slug] = 0
      /\ burnt \in [Slugs -> Nat] /\ \A s \in Slugs : burnt[s] = 0
  BY <1>1 DEF BudgetInit, Metering
<1>3. IsFiniteSet({}) /\ Cardinality({}) = 0
  BY FS_EmptySet
<1>4. Adm = {} /\ Committed = {} /\ Accounted = {}
  BY <1>1 DEF Adm, Committed, Accounted, BusyIds, SpentIds, Busies, GapIds, UnknownIds, Numbered
<1>5. Cardinality(Reviewers) \in Nat /\ Cardinality(Reviewers) # 0 /\ Cap \in Nat
  BY ReviewAssumption, CapAssumption, FS_CardinalityType, FS_EmptySet
<1>6. Bounded /\ Traced
  BY <1>1, <1>2, <1>3, <1>4, <1>5 DEF Bounded, Traced
<1>7. BooksOk
  BY <1>1, <1>2, <1>3 DEF BooksOk
<1>8. \A r \in Reviewers : HandOk(rv[r])
  BY <1>1 DEF HandOk
<1> QED  BY <1>1, <1>6, <1>7, <1>8 DEF CostInv

(* What is waved through is on record. *)
LEMMA WithinBound == CostInv => ReviewsBounded
<1> SUFFICES ASSUME CostInv, NEW s \in Slugs
             PROVE  burnt[s] <= Cap + (Cardinality(Reviewers) - 1)
                                  + Cardinality(WavedThrough(s)) + faults
  BY DEF ReviewsBounded
<1>1. /\ RunInv /\ BooksOk /\ faults \in Nat /\ Cap \in Nat /\ Cardinality(Reviewers) \in Nat
      /\ Cardinality(Reviewers) # 0
  BY ReviewAssumption, CapAssumption, FS_CardinalityType, FS_EmptySet DEF CostInv, RunInv
<1> PICK W : W = WavedThrough(s)
  OBVIOUS
<1>2. W \subseteq runs /\ IsFiniteSet(W) /\ Cardinality(W) \in Nat
  <2>1. W \subseteq runs /\ IsFiniteSet(runs)
    BY <1>1 DEF WavedThrough, BooksOk
  <2> QED  BY <2>1, FS_Subset, FS_CardinalityType
<1>3. CASE s # slot.slug
  BY <1>1, <1>2, <1>3 DEF BooksOk
<1>4. CASE s = slot.slug
  <2>1. PICK f : f = [n \in W |-> n.id]
    OBVIOUS
  <2> PICK Waved : Waved = {f[n] : n \in W}
    OBVIOUS
  <2>2. IsFiniteSet(Waved) /\ Cardinality(Waved) <= Cardinality(W)
    <3>1. DOMAIN f = W /\ f = [n \in W |-> f[n]]
      BY <2>1
    <3> QED  BY <1>2, <3>1, ImageAtMost
  <2>3. UnknownIds \subseteq GapIds \cup Waved
    <3>1. ASSUME NEW n \in runs, use[n.id] = "unknown" PROVE n.id \in GapIds \cup Waved
      <4>1. n.id.slug = slot.slug /\ n.at \in Nat /\ acks[slot.slug] \in Nat
        BY <1>1 DEF RunInv, FilesOk, BooksOk, Recorded, AnyRun
      <4>2. CASE n.at > acks[slot.slug]
        BY <3>1, <4>1, <4>2 DEF GapIds, NotKnown
      <4>3. CASE n.at <= acks[slot.slug]
        <5>1. n \in W
          BY <1>4, <3>1, <4>1, <4>3 DEF WavedThrough
        <5> QED  BY <2>1, <5>1
      <4> QED  BY <4>1, <4>2, <4>3
    <3> QED  BY <3>1 DEF UnknownIds
  <2>4. Accounted \subseteq Committed \cup Waved
    BY <2>3 DEF Accounted, Committed, SpentIds, BusyIds
  <2>5. /\ IsFiniteSet(Adm) /\ IsFiniteSet(Committed) /\ IsFiniteSet(Accounted)
        /\ Cardinality(Adm) \in Nat /\ Cardinality(Committed) \in Nat
        /\ Cardinality(Accounted) \in Nat
    <3>1. /\ Adm \in SUBSET Reviewers /\ Committed \in SUBSET dirs /\ Accounted \in SUBSET dirs
          /\ IsFiniteSet(dirs) /\ IsFiniteSet(Reviewers)
      BY <1>1, InDirs, ReviewAssumption DEF BooksOk
    <3> QED  BY <3>1, FS_Subset, FS_CardinalityType
  <2>6. /\ IsFiniteSet(Committed \cup Waved)
        /\ Cardinality(Committed \cup Waved) <= Cardinality(Committed) + Cardinality(Waved)
    BY <2>2, <2>5, UnionAtMost
  <2>7. Cardinality(Accounted) <= Cardinality(Committed \cup Waved)
    BY <2>4, <2>6, FS_Subset
  <2>8. Cardinality(Waved) \in Nat /\ Cardinality(Committed \cup Waved) \in Nat
    BY <2>2, <2>6, FS_CardinalityType
  <2>9. /\ burnt[s] \in Nat /\ burnt[s] <= Cardinality(Accounted) + faults
        /\ Cardinality(Adm) + Cardinality(Committed) <= Cap + Cardinality(Reviewers) - 1
    BY <1>1, <1>4 DEF CostInv, Traced, Bounded, BooksOk
  <2> QED
    BY <1>1, <1>2, <2>2, <2>5, <2>6, <2>7, <2>8, <2>9
<1> QED  BY <1>3, <1>4

(* No goal buys more reviews than its cap, one less than there are          *)
(* reviewers, what the user waved through and what faults kept out of the   *)
(* books: for any number of reviewers, runs and faults.                     *)
THEOREM ReviewsStayBounded == BudgetSpec => []ReviewsBounded
<1> QED  BY CostInvStart, CostInvKept, WithinBound, PTL DEF BudgetSpec

-----------------------------------------------------------------------------
(***************************************************************************)
(* For any number of sessions, hooks, goals, plans and contracts: a gate    *)
(* that waits for the word of a human opens only on an approval that was    *)
(* asked for by name and was not withdrawn, and what a goal adopts on it is *)
(* what was approved.                                                      *)
(*                                                                         *)
(* Two things carry the argument (Spoken).  What a goal, an item or a       *)
(* dispatch asks for was shown to a human under its name before a record    *)
(* can answer it (GoalAsked, Shown, HookOk); and a withdrawal carries a     *)
(* time at least as late as every approval it takes back (HookOk while it   *)
(* is being written, TakenBack once it is), so an approval that is younger  *)
(* than the last withdrawal was not withdrawn.                              *)
(***************************************************************************)
-----------------------------------------------------------------------------
(* Types. *)

Messages ==
  [at : {"heard", "checked"}, ledger : {"auth", "plan"}, kind : {"approval", "withdrawal"},
   slug : Names, hash : Plans \cup Contracts, path : Paths \cup {"plan", "none"},
   time : 0..MaxWords, since : SUBSET Nat]

Requests == [hash : Contracts, path : Paths]

Stages == {"slot", "clear", "load", "register", "adopt", "start", "B", "C"}
Commands ==
  [op : {"none"}] \cup [op : {"register"}, slug : Names, own : Contents]
  \cup [op : {"request"}, ep : Eps, hash : Contracts]
  \cup [op : {"act"}, ep : Eps, target : Contracts]
  \cup [op : {"queue"}, at : Stages, own : Contents]

HumanTypes ==
  /\ plan \in Plans /\ file \in [Paths -> Contents]
  /\ goal \in Goals \cup {Nil} /\ item \in Items \cup {Nil}
  /\ approvals \subseteq Names \X Plans
  /\ auth \in Seq(Entries) /\ void \subseteq DOMAIN auth /\ stamp \in 0..MaxWords
  /\ hook \in [Hooks -> Messages \cup {Nil}]
  /\ cmd \in [Sessions -> Commands]

(* What the goal and the item ask for was shown to a human. *)
GoalAsked(g, as) ==
  g # Nil =>
    /\ g.asks # Nil => <<g.slug, g.asks.hash>> \in as
    /\ g.planAsked # Nil => <<g.slug, g.planAsked>> \in as
Shown(i, as) ==
  /\ i \in Items
  /\ \A ep \in Eps : i.bound[ep] # Nil => <<i.slug, i.bound[ep]>> \in as
ItemAsked(i, as) == i # Nil => Shown(i, as)

(* What a hook is about to record: an approval of what was asked for, or a  *)
(* withdrawal, whose time is no earlier than that of what it takes back.    *)
HookOk(h, as, au, now) ==
  h # Nil =>
    /\ h.ledger = "plan" => h.kind = "approval" /\ h.hash \in Plans
    /\ h.ledger = "auth" => h.hash \in Contracts
    /\ h.kind = "approval" => <<h.slug, h.hash>> \in as /\ h.since = {}
    /\ h.at = "checked" => h.time <= now
    /\ \A i \in h.since :
         /\ i \in DOMAIN au
         /\ au[i].kind = "approval" /\ au[i].slug = h.slug /\ au[i].hash = h.hash
         /\ h.at = "checked" => au[i].at <= h.time

(* What was withdrawn has a withdrawal on record that is no older. *)
TakenBack(i, au) ==
  \E j \in DOMAIN au :
    /\ au[j].kind = "withdrawal" /\ au[j].slug = au[i].slug /\ au[j].hash = au[i].hash
    /\ au[i].at <= au[j].at

Spoken ==
  /\ GoalAsked(goal, asked) /\ ItemAsked(item, asked)
  /\ \A s \in Sessions : cmd[s].op = "queue" => Shown(item, asked)
  /\ ApprovedWasAsked
  /\ \A k \in Hooks : HookOk(hook[k], asked, auth, stamp)
  /\ \A i \in DOMAIN auth : auth[i].at <= stamp
  /\ \A i \in void : TakenBack(i, auth)

HumanInv == HumanTypes /\ Spoken

-----------------------------------------------------------------------------
(* What the gates rest on. *)

LEMMA RecordsTyped ==
  ASSUME HumanInv
  PROVE  \A j \in DOMAIN auth : auth[j] \in Entries /\ auth[j].at \in Nat
<1>1. \A j \in DOMAIN auth : auth[j] \in Entries
  BY DEF HumanInv, HumanTypes
<1>2. \A j \in DOMAIN auth : auth[j].at \in 0..MaxWords
  BY <1>1 DEF Entries
<1> QED
  BY <1>1, <1>2, BoundsAssumption

(* A word that counts now was not taken back. *)
LEMMA WordStands ==
  ASSUME HumanInv, NEW slug, NEW hash, Authorized(slug, hash)
  PROVE  Stands(slug, hash)
<1>1. PICK i \in About(slug, hash) :
        /\ auth[i].kind = "approval"
        /\ \A j \in About(slug, hash) :
             \/ auth[j].at < auth[i].at
             \/ auth[j].at = auth[i].at /\ auth[j].kind = "approval"
  BY DEF Authorized
<1>2. \A j \in DOMAIN auth : auth[j].at \in Nat
  BY RecordsTyped
<1>3. i \notin void
  <2> SUFFICES ASSUME i \in void PROVE FALSE
    OBVIOUS
  <2>1. PICK j \in DOMAIN auth :
          /\ auth[j].kind = "withdrawal" /\ auth[j].slug = auth[i].slug
          /\ auth[j].hash = auth[i].hash /\ auth[i].at <= auth[j].at
    BY DEF HumanInv, Spoken, TakenBack
  <2>2. j \in About(slug, hash)
    BY <2>1 DEF About
  <2> QED
    BY <1>1, <1>2, <2>1, <2>2 DEF About
<1> QED
  BY <1>1, <1>3 DEF Stands

LEMMA OpenIsSaid == HumanInv => OpenedOnAWord
<1> SUFFICES ASSUME HumanInv PROVE OpenedOnAWord
  OBVIOUS
<1>1. \/ goal # Nil /\ goal.own # Nil /\ ContractGate(plan, TRUE)
      \/ ContractFacts
      => Stands(goal.slug, goal.own)
  BY WordStands DEF ContractFacts, ContractGate
<1>2. \A ep \in Eps : DeliveryGate(ep) =>
        /\ Stands(goal.slug, goal.bound["C"])
        /\ ep = "B" => Stands(goal.slug, goal.bound["B"])
  BY WordStands DEF DeliveryGate
<1>3. item # Nil /\ ItemGate(item) =>
        \A c \in {item.own} \cup {item.bound[ep] : ep \in Declared(item)} : Stands(item.slug, c)
  BY WordStands DEF ItemGate
<1> QED
  BY <1>1, <1>2, <1>3 DEF OpenedOnAWord, OpenOnAWord, HumanInv, Spoken

-----------------------------------------------------------------------------
(* Steps on files, goal, item and commands leave what was said alone. *)

LEMMA InitInv == Init => HumanInv
<1> SUFFICES ASSUME Init PROVE HumanInv
  OBVIOUS
<1> USE DEF Init
<1>1. HumanTypes
  BY ContractsAssumption, BoundsAssumption
  DEF HumanTypes, Paths, Contents, Commands, Free
<1> QED
  BY <1>1 DEF HumanInv, Spoken, ApprovedWasAsked, GoalAsked, ItemAsked, HookOk, Free

(* When nothing is said, it is enough that what is asked for by now was shown. *)
LEMMA NothingSaid ==
  ASSUME HumanInv, UNCHANGED word, HumanTypes', asked \subseteq asked',
         GoalAsked(goal, asked)', ItemAsked(item, asked)',
         \A s \in Sessions : cmd'[s].op = "queue" => Shown(item, asked)'
  PROVE  HumanInv'
<1>1. \A k \in Hooks : HookOk(hook[k], asked, auth, stamp)'
  BY DEF HumanInv, Spoken, HookOk, word
<1>2. ApprovedWasAsked'
  BY DEF HumanInv, Spoken, ApprovedWasAsked, word
<1> QED
  BY <1>1, <1>2 DEF HumanInv, Spoken, word, TakenBack

(* Steps that neither speak nor ask, and leave goal and item. *)
LEMMA Silent ==
  ASSUME HumanInv, UNCHANGED <<word, goal, item, asked>>,
         plan' \in Plans, file' \in [Paths -> Contents], cmd' \in [Sessions -> Commands],
         \A s \in Sessions : cmd'[s].op = "queue" => Shown(item, asked)
  PROVE  HumanInv'
<1>1. HumanTypes'
  BY DEF HumanInv, HumanTypes, word
<1> QED
  BY <1>1, NothingSaid DEF HumanInv, Spoken, GoalAsked, ItemAsked, Shown

LEMMA EditInv == ASSUME HumanInv, Edit PROVE HumanInv'
<1>1. plan' \in Plans /\ file' \in [Paths -> Contents]
  BY DEF HumanInv, HumanTypes, Edit
<1> QED
  BY <1>1, Silent DEF HumanInv, HumanTypes, Spoken, Edit

(* What a session does next. *)
LEMMA CommandSet ==
  ASSUME HumanInv, NEW s \in Sessions, NEW c \in Commands, cmd' = [cmd EXCEPT ![s] = c],
         c.op # "queue" \/ Shown(item, asked)
  PROVE  /\ cmd' \in [Sessions -> Commands]
         /\ \A t \in Sessions : cmd'[t].op = "queue" => Shown(item, asked)
BY DEF HumanInv, HumanTypes, Spoken

LEMMA LoadContractInv ==
  ASSUME HumanInv, NEW s \in Sessions, NEW slug \in Names, NEW own \in Contents,
         LoadContract(s, slug, own)
  PROVE  HumanInv'
<1> DEFINE c == [op |-> "register", slug |-> slug, own |-> own]
<1>1. c \in Commands /\ c.op # "queue" /\ cmd' = [cmd EXCEPT ![s] = c]
  BY DEF LoadContract, Commands
<1> HIDE DEF c
<1>2. UNCHANGED <<word, goal, item, asked, plan, file>>
  BY DEF LoadContract, papers
<1> QED
  BY <1>1, <1>2, CommandSet, Silent DEF HumanInv, HumanTypes

LEMMA LoadRequestInv ==
  ASSUME HumanInv, NEW s \in Sessions, NEW ep \in Eps, LoadRequest(s, ep)
  PROVE  HumanInv'
<1> DEFINE c == [op |-> "request", ep |-> ep, hash |-> file[ep]]
<1>0. file[ep] \in Contracts
  BY DEF LoadRequest, Readable, HumanInv, HumanTypes, Contents, Eps, Paths
<1>1. c \in Commands /\ c.op # "queue" /\ cmd' = [cmd EXCEPT ![s] = c]
  BY <1>0 DEF LoadRequest, Commands
<1> HIDE DEF c
<1>2. UNCHANGED <<word, goal, item, asked, plan, file>>
  BY DEF LoadRequest, papers
<1> QED
  BY <1>1, <1>2, CommandSet, Silent DEF HumanInv, HumanTypes

LEMMA ReadTargetInv ==
  ASSUME HumanInv, NEW s \in Sessions, NEW ep \in Eps, ReadTarget(s, ep)
  PROVE  HumanInv'
<1> DEFINE c == [op |-> "act", ep |-> ep, target |-> file[ep]]
<1>0. file[ep] \in Contracts
  BY DEF ReadTarget, Readable, HumanInv, HumanTypes, Contents, Eps, Paths
<1>1. c \in Commands /\ c.op # "queue" /\ cmd' = [cmd EXCEPT ![s] = c]
  BY <1>0 DEF ReadTarget, Commands
<1> HIDE DEF c
<1>2. UNCHANGED <<word, goal, item, asked, plan, file>>
  BY DEF ReadTarget, papers
<1> QED
  BY <1>1, <1>2, CommandSet, Silent DEF HumanInv, HumanTypes

-----------------------------------------------------------------------------
(* The goal and the item as the steps leave them. *)

Statuses == {"planning", "executing", "done", "abandoned"}
States == {"waiting", "taken", "over"}

LEMMA RegisteredGoal ==
  ASSUME NEW slug \in Names, NEW own \in Contents, NEW as
  PROVE  Registered(slug, own) \in Goals /\ GoalAsked(Registered(slug, own), as)
<1>1. [ep \in Eps |-> Nil] \in [Eps -> Contents]
  BY DEF Contents
<1>2. PICK b \in [Eps -> Contents] : b = [ep \in Eps |-> Nil]
  BY <1>1
<1>3. Registered(slug, own) = [slug |-> slug, status |-> "planning", own |-> own, plan |-> Nil,
         planAsked |-> Nil, asks |-> Nil, bound |-> b]
  BY <1>2 DEF Registered
<1> QED
  BY <1>3 DEF Goals, GoalAsked

LEMMA MovedGoal ==
  ASSUME NEW g \in Goals, NEW st \in Statuses, NEW as, GoalAsked(g, as), g # Nil
  PROVE  [g EXCEPT !.status = st] \in Goals /\ GoalAsked([g EXCEPT !.status = st], as)
<1>1. [g EXCEPT !.status = st] \in Goals
  BY DEF Goals, Statuses
<1> QED
  BY <1>1 DEF GoalAsked, Goals

LEMMA AskingGoal ==
  ASSUME NEW g \in Goals, NEW ask \in Requests, NEW as, GoalAsked(g, as), g # Nil
  PROVE  /\ [g EXCEPT !.asks = ask] \in Goals
         /\ GoalAsked([g EXCEPT !.asks = ask], as \cup {<<g.slug, ask.hash>>})
<1>1. [g EXCEPT !.asks = ask] \in Goals
  BY DEF Goals, Requests
<1> QED
  BY <1>1 DEF GoalAsked, Goals

LEMMA QuietGoal ==
  ASSUME NEW g \in Goals, NEW as, GoalAsked(g, as), g # Nil
  PROVE  [g EXCEPT !.asks = Nil] \in Goals /\ GoalAsked([g EXCEPT !.asks = Nil], as)
<1>1. [g EXCEPT !.asks = Nil] \in Goals
  BY DEF Goals
<1> QED
  BY <1>1 DEF GoalAsked, Goals

LEMMA PlanningGoal ==
  ASSUME NEW g \in Goals, NEW p \in Plans, NEW as, GoalAsked(g, as), g # Nil
  PROVE  /\ [g EXCEPT !.planAsked = p] \in Goals
         /\ GoalAsked([g EXCEPT !.planAsked = p], as \cup {<<g.slug, p>>})
         /\ [g EXCEPT !.plan = p, !.planAsked = Nil] \in Goals
         /\ GoalAsked([g EXCEPT !.plan = p, !.planAsked = Nil], as)
         /\ [[g EXCEPT !.plan = p, !.planAsked = Nil] EXCEPT !.asks = Nil] \in Goals
         /\ GoalAsked([[g EXCEPT !.plan = p, !.planAsked = Nil] EXCEPT !.asks = Nil], as)
<1> DEFINE h == [g EXCEPT !.plan = p, !.planAsked = Nil]
<1>1. [g EXCEPT !.planAsked = p] \in Goals /\ h \in Goals
  BY DEF Goals
<1>2. GoalAsked([g EXCEPT !.planAsked = p], as \cup {<<g.slug, p>>}) /\ GoalAsked(h, as)
  BY <1>1 DEF GoalAsked, Goals
<1>3. [h EXCEPT !.asks = Nil] \in Goals
  BY <1>1 DEF Goals
<1>4. GoalAsked([h EXCEPT !.asks = Nil], as)
  BY <1>1, <1>2, <1>3 DEF GoalAsked, Goals
<1> QED
  BY <1>1, <1>2, <1>3, <1>4

LEMMA BindingGoal ==
  ASSUME NEW g \in Goals, NEW ep \in Eps, NEW hash \in Contracts, NEW as,
         GoalAsked(g, as), g # Nil
  PROVE  LET h == [g EXCEPT !.bound[ep] = hash, !.asks = [hash |-> hash, path |-> ep]]
         IN  h \in Goals /\ GoalAsked(h, as \cup {<<g.slug, hash>>})
<1>1. PICK b \in [Eps -> Contents] : b = [g.bound EXCEPT ![ep] = hash]
  BY DEF Goals, Contents
<1>2. PICK ask \in Requests : ask = [hash |-> hash, path |-> ep]
  BY DEF Requests, Eps, Paths
<1> DEFINE h == [g EXCEPT !.bound = b, !.asks = ask]
<1>3. h \in Goals
  BY DEF Goals, Requests
<1>4. GoalAsked(h, as \cup {<<g.slug, hash>>})
  BY <1>2, <1>3 DEF GoalAsked, Goals
<1> QED
  BY <1>1, <1>2, <1>3, <1>4

(* A step of the goal that says nothing and leaves the item. *)
LEMMA OnGoal ==
  ASSUME HumanInv, UNCHANGED <<word, plan, file, item>>, asked \subseteq asked',
         goal' \in Goals \cup {Nil}, GoalAsked(goal', asked'),
         cmd' \in [Sessions -> Commands], \A s \in Sessions : cmd'[s].op = "queue" => Shown(item, asked)
  PROVE  HumanInv'
<1>1. HumanTypes'
  BY DEF HumanInv, HumanTypes, word
<1>2. Shown(item, asked) => Shown(item, asked)'
  BY DEF Shown
<1>3. ItemAsked(item, asked)'
  BY <1>2 DEF HumanInv, Spoken, ItemAsked
<1> QED
  BY <1>1, <1>2, <1>3, NothingSaid

LEMMA RegisterInv == ASSUME HumanInv, NEW s \in Sessions, Register(s) PROVE HumanInv'
<1>1. cmd' = [cmd EXCEPT ![s] = Free] /\ Free \in Commands /\ Free.op # "queue"
  BY DEF Register, Drop, Commands, Free
<1>2. cmd[s].slug \in Names /\ cmd[s].own \in Contents
  BY DEF Register, Is, HumanInv, HumanTypes, Commands
<1>3. goal' \in Goals \cup {Nil} /\ GoalAsked(goal', asked)
  BY <1>2, RegisteredGoal DEF Register, HumanInv, HumanTypes, Spoken
<1>4. UNCHANGED <<word, plan, file, item, asked>>
  BY DEF Register, papers
<1> QED
  BY <1>1, <1>3, <1>4, CommandSet, OnGoal

(* What the word of a human, or the want of it, makes of the goal. *)
LEMMA HumanWordGoal ==
  ASSUME HumanInv, goal # Nil, HumanWord
  PROVE  /\ goal' \in Goals /\ GoalAsked(goal', asked') /\ asked \subseteq asked'
<1>1. goal \in Goals /\ GoalAsked(goal, asked) /\ plan \in Plans
  BY DEF HumanInv, HumanTypes, Spoken
<1>2. CASE goal.own = Nil
  BY <1>1, <1>2, PlanningGoal DEF HumanWord, OnApproval, Adopted
<1>3. CASE goal.own # Nil
  <2>1. PICK unmoved \in BOOLEAN : UnderContract(unmoved)
    BY <1>3 DEF HumanWord
  <2>2. PICK ask \in Requests : ask = [hash |-> goal.own, path |-> "own"]
    BY <1>1, <1>3 DEF Goals, Contents, Requests, Paths
  <2>3. CASE ContractGate(plan, unmoved)
    BY <1>1, <2>1, <2>3, PlanningGoal DEF UnderContract, Adopted
  <2>4. CASE ~ContractGate(plan, unmoved)
    <3>1. goal' = [goal EXCEPT !.asks = ask] /\ asked' = asked \cup {<<goal.slug, ask.hash>>}
      BY <2>1, <2>2, <2>4 DEF UnderContract, AskContract
    <3> QED
      BY <1>1, <3>1, AskingGoal
  <2> QED
    BY <2>3, <2>4
<1> QED
  BY <1>2, <1>3

LEMMA AdoptInv == ASSUME HumanInv, Adopt \/ Supersede PROVE HumanInv'
<1>1. goal # Nil /\ HumanWord /\ UNCHANGED <<word, plan, file, item, cmd>>
  BY DEF Adopt, Supersede, papers
<1> QED
  BY <1>1, HumanWordGoal, OnGoal DEF HumanInv, HumanTypes, Spoken

LEMMA MoveInv ==
  ASSUME HumanInv, NEW from \in Statuses, NEW to \in Statuses, MoveGoal(from, to)
  PROVE  HumanInv'
<1>1. goal' \in Goals /\ GoalAsked(goal', asked)
  BY MovedGoal DEF MoveGoal, HumanInv, HumanTypes, Spoken
<1>2. UNCHANGED <<word, plan, file, item, cmd, asked>>
  BY DEF MoveGoal, papers
<1> QED
  BY <1>1, <1>2, OnGoal DEF HumanInv, HumanTypes, Spoken

LEMMA ResetInv == ASSUME HumanInv, Reset PROVE HumanInv'
<1>1. goal' = Nil /\ GoalAsked(goal', asked)
  BY DEF Reset, GoalAsked
<1>2. UNCHANGED <<word, plan, file, item, cmd, asked>>
  BY DEF Reset, papers
<1> QED
  BY <1>1, <1>2, OnGoal DEF HumanInv, HumanTypes, Spoken

LEMMA BoundToGoal ==
  ASSUME HumanInv, goal # Nil, NEW ep \in Eps, NEW hash \in Contracts, BoundTo(ep, hash)
  PROVE  /\ goal' \in Goals /\ GoalAsked(goal', asked') /\ asked \subseteq asked'
<1>1. goal \in Goals /\ GoalAsked(goal, asked)
  BY DEF HumanInv, HumanTypes, Spoken
<1> QED
  BY <1>1, BindingGoal DEF BoundTo

LEMMA BindInv == ASSUME HumanInv, NEW s \in Sessions, Bind(s) PROVE HumanInv'
<1>1. cmd' = [cmd EXCEPT ![s] = Free] /\ Free \in Commands /\ Free.op # "queue"
  BY DEF Bind, Drop, Commands, Free
<1>2. cmd[s].ep \in Eps /\ cmd[s].hash \in Contracts
  BY DEF Bind, Is, HumanInv, HumanTypes, Commands
<1>3. goal' \in Goals \cup {Nil} /\ GoalAsked(goal', asked') /\ asked \subseteq asked'
  <2>1. CASE goal # Nil /\ goal.status = "executing"
    <3>1. BoundTo(cmd[s].ep, cmd[s].hash)
      BY <2>1 DEF Bind
    <3> QED
      BY <1>2, <2>1, <3>1, BoundToGoal
  <2>2. CASE ~(goal # Nil /\ goal.status = "executing")
    BY <2>2 DEF Bind, HumanInv, HumanTypes, Spoken
  <2> QED
    BY <2>1, <2>2
<1>4. UNCHANGED <<word, plan, file, item>>
  BY DEF Bind, papers
<1> QED
  BY <1>1, <1>3, <1>4, CommandSet, OnGoal

LEMMA ActInv == ASSUME HumanInv, NEW s \in Sessions, Act(s) PROVE HumanInv'
<1>1. cmd' = [cmd EXCEPT ![s] = Free] /\ Free \in Commands /\ Free.op # "queue"
  BY DEF Act, Drop, Commands, Free
<1>2. goal \in Goals \cup {Nil} /\ GoalAsked(goal, asked)
  BY DEF HumanInv, HumanTypes, Spoken
<1>3. DeliveryGate(cmd[s].ep) => goal # Nil
  BY DEF DeliveryGate, Context
<1>4. goal' = goal \/ (DeliveryGate(cmd[s].ep) /\ goal' = Settled(cmd[s].ep))
  BY DEF Act
<1>5. goal' \in Goals \cup {Nil} /\ GoalAsked(goal', asked)
  BY <1>2, <1>3, <1>4, QuietGoal DEF Settled
<1>6. UNCHANGED <<word, plan, file, item, asked>>
  BY DEF Act, papers
<1> QED
  BY <1>1, <1>5, <1>6, CommandSet, OnGoal

-----------------------------------------------------------------------------
(* The queue. *)

LEMMA MovedItem ==
  ASSUME NEW i, NEW st \in States, NEW as, Shown(i, as)
  PROVE  Shown([i EXCEPT !.state = st], as)
<1>1. i \in Items
  BY DEF Shown
<1>2. [i EXCEPT !.state = st] \in Items
  BY <1>1 DEF Items, States
<1> QED
  BY <1>1, <1>2 DEF Shown, Items

(* A step of the queue: the item is shown before and after. *)
LEMMA OnItem ==
  ASSUME HumanInv, UNCHANGED <<word, plan, file>>, asked \subseteq asked',
         goal' \in Goals \cup {Nil}, GoalAsked(goal', asked'),
         Shown(item', asked'), cmd' \in [Sessions -> Commands]
  PROVE  HumanInv'
<1>1. HumanTypes'
  BY DEF HumanInv, HumanTypes, word, Shown
<1>2. ItemAsked(item, asked)'
  BY DEF ItemAsked
<1> QED
  BY <1>1, <1>2, NothingSaid

(* The same, for a step that asks nothing. *)
LEMMA OnItemOnly ==
  ASSUME HumanInv, UNCHANGED <<word, plan, file, asked>>,
         goal' \in Goals \cup {Nil}, GoalAsked(goal', asked),
         Shown(item', asked), cmd' \in [Sessions -> Commands]
  PROVE  HumanInv'
<1>1. Shown(item', asked') /\ GoalAsked(goal', asked')
  OBVIOUS
<1> QED
  BY <1>1, OnItem

LEMMA Staged ==
  ASSUME HumanInv, NEW s \in Sessions, Is(s, "queue")
  PROVE  /\ cmd[s] \in [op : {"queue"}, at : Stages, own : Contents]
         /\ Shown(item, asked) /\ item.slug \in Names
         /\ \A ep \in Eps : item.bound[ep] \in Contents
         /\ goal \in Goals \cup {Nil} /\ GoalAsked(goal, asked)
BY DEF HumanInv, HumanTypes, Spoken, Is, Commands, Shown, Items

LEMMA NextStage ==
  ASSUME HumanInv, NEW s \in Sessions, Is(s, "queue"), NEW stage \in Stages, ToStage(s, stage)
  PROVE  cmd' \in [Sessions -> Commands]
<1>1. cmd[s] \in [op : {"queue"}, at : Stages, own : Contents]
  BY Staged
<1>2. [cmd[s] EXCEPT !.at = stage] \in [op : {"queue"}, at : Stages, own : Contents]
  BY <1>1
<1>3. [cmd[s] EXCEPT !.at = stage] \in Commands
  BY <1>2 DEF Commands
<1> QED
  BY <1>3 DEF ToStage, HumanInv, HumanTypes

LEMMA Dropped ==
  ASSUME HumanInv, NEW s \in Sessions, Drop(s)
  PROVE  cmd' \in [Sessions -> Commands]
BY DEF Drop, Free, Commands, HumanInv, HumanTypes

LEMMA GivenUp ==
  ASSUME HumanInv, NEW s \in Sessions, Is(s, "queue"), GiveUp(s)
  PROVE  Shown(item', asked) /\ cmd' \in [Sessions -> Commands]
BY MovedItem, Staged, Dropped DEF GiveUp, States

LEMMA EnqueueInv == ASSUME HumanInv, NEW slug \in Names, Enqueue(slug) PROVE HumanInv'
<1>1. PICK eps \in {{}, {"B", "C"}} :
        /\ \A ep \in eps : Readable(ep) /\ Endpoint[file[ep]] = ep
        /\ item' = [slug |-> slug, state |-> "waiting", own |-> file["own"],
                    bound |-> [ep \in Eps |-> IF ep \in eps THEN file[ep] ELSE Nil]]
        /\ asked' = asked \cup {<<slug, file[ep]>> : ep \in eps}
  BY DEF Enqueue
<1>2. file["own"] \in Contracts /\ file["B"] \in Contents /\ file["C"] \in Contents
  BY DEF Enqueue, Readable, HumanInv, HumanTypes, Contents, Paths
<1>3. PICK b \in [Eps -> Contents] : b = [ep \in Eps |-> IF ep \in eps THEN file[ep] ELSE Nil]
  BY <1>2 DEF Eps, Contents
<1>4. item' = [slug |-> slug, state |-> "waiting", own |-> file["own"], bound |-> b]
  BY <1>1, <1>3
<1>5. item' \in Items
  BY <1>2, <1>4 DEF Items
<1>6. item'.slug = slug /\ item'.bound = b
  BY <1>4
<1>7. \A ep \in Eps : b[ep] # Nil => <<slug, b[ep]>> \in asked'
  BY <1>1, <1>3
<1>8. Shown(item', asked')
  BY <1>5, <1>6, <1>7 DEF Shown
<1>9. asked \subseteq asked' /\ UNCHANGED <<word, plan, file, goal, cmd>>
  BY <1>1 DEF Enqueue, papers
<1>10. GoalAsked(goal', asked')
  BY <1>9 DEF HumanInv, Spoken, GoalAsked
<1> QED
  BY <1>8, <1>9, <1>10, OnItem DEF HumanInv, HumanTypes

LEMMA DispatchInv == ASSUME HumanInv, NEW s \in Sessions, Dispatch(s) PROVE HumanInv'
<1>1. Shown(item, asked) /\ goal \in Goals \cup {Nil} /\ GoalAsked(goal, asked)
      /\ cmd \in [Sessions -> Commands]
  BY DEF Dispatch, HumanInv, HumanTypes, Spoken, ItemAsked
<1>2. [op |-> "queue", at |-> "slot", own |-> Nil] \in Commands
  BY DEF Commands, Stages, Contents
<1>3. /\ \/ item' = [item EXCEPT !.state = "taken"]
         \/ item' = [item EXCEPT !.state = "over"]
      /\ \/ cmd' = [cmd EXCEPT ![s] = [op |-> "queue", at |-> "slot", own |-> Nil]]
         \/ cmd' = cmd
  BY DEF Dispatch, Over
<1>4. Shown(item', asked)
  BY <1>1, <1>3, MovedItem DEF States
<1>5. cmd' \in [Sessions -> Commands]
  BY <1>1, <1>2, <1>3
<1>6. UNCHANGED <<word, plan, file, goal, asked>>
  BY DEF Dispatch, papers
<1> QED
  BY <1>1, <1>4, <1>5, <1>6, OnItemOnly

LEMMA QueueSlotInv == ASSUME HumanInv, NEW s \in Sessions, QueueSlot(s) PROVE HumanInv'
<1>1. Is(s, "queue") /\ UNCHANGED <<word, plan, file, goal, asked>>
  BY DEF QueueSlot, AtStage, papers
<1>2. \/ UNCHANGED item /\ \E stage \in Stages : ToStage(s, stage)
      \/ item' = [item EXCEPT !.state = "over"] /\ Drop(s)
  BY DEF QueueSlot, Over, Stages
<1>3. Shown([item EXCEPT !.state = "over"], asked)
  BY <1>1, Staged, MovedItem DEF States
<1>4. Shown(item', asked)
  BY <1>1, <1>2, <1>3, Staged
<1>5. cmd' \in [Sessions -> Commands]
  BY <1>1, <1>2, NextStage, Dropped
<1> QED
  BY <1>1, <1>4, <1>5, Staged, OnItemOnly

LEMMA QueueClearInv == ASSUME HumanInv, NEW s \in Sessions, QueueClear(s) PROVE HumanInv'
<1>1. Is(s, "queue") /\ UNCHANGED <<word, plan, file, asked>>
  BY DEF QueueClear, AtStage, papers
<1>2. \/ goal' = Nil /\ UNCHANGED item /\ ToStage(s, "load")
      \/ goal' = goal /\ GiveUp(s)
  BY DEF QueueClear
<1>3. goal' \in Goals \cup {Nil} /\ GoalAsked(goal', asked)
  BY <1>1, <1>2, Staged DEF GoalAsked
<1>4. Shown(item', asked) /\ cmd' \in [Sessions -> Commands]
  BY <1>1, <1>2, Staged, NextStage, GivenUp DEF Stages
<1> QED
  BY <1>1, <1>3, <1>4, OnItemOnly

LEMMA QueueLoadInv == ASSUME HumanInv, NEW s \in Sessions, QueueLoad(s) PROVE HumanInv'
<1>1. Is(s, "queue") /\ UNCHANGED <<word, plan, file, goal, asked>>
  BY DEF QueueLoad, AtStage, papers
<1>2. CASE Readable("own")
  <2>1. /\ cmd' = [cmd EXCEPT ![s].at = "register", ![s].own = file["own"]]
        /\ item' = item
    BY <1>2 DEF QueueLoad
  <2>2. /\ file["own"] \in Contents /\ cmd \in [Sessions -> Commands]
        /\ cmd[s] \in [op : {"queue"}, at : Stages, own : Contents]
    BY <1>1, Staged DEF HumanInv, HumanTypes, Paths
  <2>3. [cmd[s] EXCEPT !.at = "register", !.own = file["own"]]
          \in [op : {"queue"}, at : Stages, own : Contents]
    BY <2>2 DEF Stages
  <2>4. cmd' = [cmd EXCEPT ![s] = [cmd[s] EXCEPT !.at = "register", !.own = file["own"]]]
    BY <2>1, <2>2
  <2>5. cmd' \in [Sessions -> Commands]
    BY <2>2, <2>3, <2>4 DEF Commands
  <2> QED
    BY <1>1, <2>1, <2>5, Staged, OnItemOnly
<1>3. CASE ~Readable("own")
  <2>1. GiveUp(s)
    BY <1>3 DEF QueueLoad
  <2> QED
    BY <1>1, <2>1, Staged, GivenUp, OnItemOnly
<1> QED
  BY <1>2, <1>3

LEMMA QueueRegisterInv == ASSUME HumanInv, NEW s \in Sessions, QueueRegister(s) PROVE HumanInv'
<1>1. Is(s, "queue") /\ UNCHANGED <<word, plan, file, asked>>
  BY DEF QueueRegister, AtStage, papers
<1>2. \/ /\ goal' = Registered(item.slug, cmd[s].own) /\ UNCHANGED item
         /\ ToStage(s, "adopt")
      \/ goal' = goal /\ GiveUp(s)
  BY DEF QueueRegister
<1>3. goal' \in Goals \cup {Nil} /\ GoalAsked(goal', asked)
  BY <1>1, <1>2, Staged, RegisteredGoal
<1>4. Shown(item', asked) /\ cmd' \in [Sessions -> Commands]
  BY <1>1, <1>2, Staged, NextStage, GivenUp DEF Stages
<1> QED
  BY <1>1, <1>3, <1>4, OnItemOnly

LEMMA QueueAdoptInv == ASSUME HumanInv, NEW s \in Sessions, QueueAdopt(s) PROVE HumanInv'
<1>1. Is(s, "queue") /\ UNCHANGED <<word, plan, file>>
  BY DEF QueueAdopt, AtStage, papers
<1>2. /\ \/ goal # Nil /\ HumanWord
         \/ goal' = goal /\ asked' = asked
      /\ \/ UNCHANGED item /\ ToStage(s, "start")
         \/ GiveUp(s)
  BY DEF QueueAdopt
<1>3. asked \subseteq asked' /\ goal' \in Goals \cup {Nil} /\ GoalAsked(goal', asked')
  BY <1>1, <1>2, Staged, HumanWordGoal
<1>4. Shown(item', asked) /\ cmd' \in [Sessions -> Commands]
  BY <1>1, <1>2, Staged, NextStage, GivenUp DEF Stages
<1>5. Shown(item', asked')
  BY <1>3, <1>4 DEF Shown
<1> QED
  BY <1>1, <1>3, <1>4, <1>5, OnItem

LEMMA QueueStartInv == ASSUME HumanInv, NEW s \in Sessions, QueueStart(s) PROVE HumanInv'
<1>1. Is(s, "queue") /\ UNCHANGED <<word, plan, file, asked>>
  BY DEF QueueStart, AtStage, papers
<1>2. \/ /\ goal # Nil /\ goal' = [goal EXCEPT !.status = "executing"] /\ UNCHANGED item
         /\ ToStage(s, "B")
      \/ goal' = goal /\ GiveUp(s)
  BY DEF QueueStart
<1>3. goal # Nil =>
        LET h == [goal EXCEPT !.status = "executing"] IN h \in Goals /\ GoalAsked(h, asked)
  BY <1>1, Staged, MovedGoal DEF Statuses
<1>4. goal' \in Goals \cup {Nil} /\ GoalAsked(goal', asked)
  BY <1>1, <1>2, <1>3, Staged
<1>5. Shown(item', asked) /\ cmd' \in [Sessions -> Commands]
  BY <1>1, <1>2, Staged, NextStage, GivenUp DEF Stages
<1> QED
  BY <1>1, <1>4, <1>5, OnItemOnly

LEMMA QueueBindInv ==
  ASSUME HumanInv, NEW s \in Sessions, NEW ep \in Eps, QueueBind(s, ep)
  PROVE  HumanInv'
<1>1. Is(s, "queue") /\ UNCHANGED <<word, plan, file>>
  BY DEF QueueBind, AtStage, papers
<1>2. /\ \/ UNCHANGED item /\ (ToStage(s, "C") \/ Drop(s))
         \/ GiveUp(s)
      /\ \/ goal' = goal /\ asked' = asked
         \/ goal # Nil /\ item.bound[ep] # Nil /\ BoundTo(ep, item.bound[ep])
  BY DEF QueueBind
<1>3. asked \subseteq asked' /\ goal' \in Goals \cup {Nil} /\ GoalAsked(goal', asked')
  BY <1>1, <1>2, Staged, BoundToGoal DEF Contents
<1>4. Shown(item', asked) /\ cmd' \in [Sessions -> Commands]
  BY <1>1, <1>2, Staged, NextStage, Dropped, GivenUp DEF Stages
<1>5. Shown(item', asked')
  BY <1>3, <1>4 DEF Shown
<1> QED
  BY <1>1, <1>3, <1>4, <1>5, OnItem

-----------------------------------------------------------------------------
(* The hook. *)

LEMMA HookTurn ==
  ASSUME HumanInv, NEW k \in Hooks, NEW h \in Messages \cup {Nil},
         hook' = [hook EXCEPT ![k] = h], HookOk(h, asked, auth, stamp'),
         stamp' \in 0..MaxWords, stamp <= stamp',
         UNCHANGED <<papers, goal, item, approvals, auth, void, cmd, asked>>
  PROVE  HumanInv'
<1>1. stamp \in Nat /\ stamp' \in Nat
  BY BoundsAssumption DEF HumanInv, HumanTypes
<1>2. HumanTypes'
  BY DEF HumanInv, HumanTypes, papers
<1>3. \A l \in Hooks : HookOk(hook[l], asked, auth, stamp)'
  <2> SUFFICES ASSUME NEW l \in Hooks PROVE HookOk(hook'[l], asked, auth, stamp')
    OBVIOUS
  <2>1. CASE l = k
    BY <2>1 DEF HumanInv, HumanTypes
  <2>2. CASE l # k
    <3>1. hook'[l] = hook[l] /\ hook[l] \in Messages \cup {Nil} /\ HookOk(hook[l], asked, auth, stamp)
      BY <2>2 DEF HumanInv, HumanTypes, Spoken
    <3>2. hook[l] # Nil => hook[l].time \in Nat
      BY <3>1, BoundsAssumption DEF Messages
    <3> QED
      BY <1>1, <3>1, <3>2 DEF HookOk
  <2> QED
    BY <2>1, <2>2
<1>4. \A i \in DOMAIN auth : auth[i].at <= stamp'
  BY <1>1, RecordsTyped DEF HumanInv, Spoken
<1> QED
  BY <1>2, <1>3, <1>4
  DEF HumanInv, Spoken, GoalAsked, ItemAsked, Shown, ApprovedWasAsked, TakenBack

(* A code means something that was asked for. *)
LEMMA MeantAsked ==
  ASSUME HumanInv, NEW code \in Plans \cup Contracts, Meant(code) # Nil
  PROVE  Meant(code) \in Messages /\ HookOk(Meant(code), asked, auth, stamp)
<1> DEFINE msg(book, slug, path) ==
      [at |-> "heard", ledger |-> book, kind |-> "approval", slug |-> slug, hash |-> code,
       path |-> path, time |-> 0, since |-> {}]
<1>1. ASSUME NEW book \in {"auth", "plan"}, NEW slug \in Names,
             NEW path \in Paths \cup {"plan"}, <<slug, code>> \in asked,
             book = "plan" => code \in Plans, book = "auth" => code \in Contracts
      PROVE  msg(book, slug, path) \in Messages
             /\ HookOk(msg(book, slug, path), asked, auth, stamp)
  <2>1. 0 \in 0..MaxWords
    BY BoundsAssumption
  <2>2. msg(book, slug, path) \in Messages
    BY <1>1, <2>1 DEF Messages
  <2> QED
    BY <1>1, <2>2 DEF HookOk
<1>2. CASE goal # Nil /\ goal.asks # Nil
  <2>1. /\ goal \in Goals /\ goal.asks \in Requests /\ goal.slug \in Names
        /\ <<goal.slug, goal.asks.hash>> \in asked
    BY <1>2 DEF HumanInv, HumanTypes, Spoken, GoalAsked, Goals, Requests
  <2>2. /\ code = goal.asks.hash /\ code \in Contracts /\ goal.asks.path \in Paths
        /\ Meant(code) = msg("auth", goal.slug, goal.asks.path)
    BY <1>2, <2>1 DEF Meant, Target, Requests
  <2> QED
    BY <1>1, <2>1, <2>2
<1>3. CASE goal # Nil /\ goal.asks = Nil /\ goal.planAsked # Nil
  <2>1. /\ goal \in Goals /\ goal.planAsked \in Plans /\ goal.slug \in Names
        /\ <<goal.slug, goal.planAsked>> \in asked
    BY <1>3 DEF HumanInv, HumanTypes, Spoken, GoalAsked, Goals
  <2>2. code = goal.planAsked /\ Meant(code) = msg("plan", goal.slug, "plan")
    BY <1>3 DEF Meant, Target
  <2> QED
    BY <1>1, <2>1, <2>2
<1>4. CASE ~(goal # Nil /\ goal.asks # Nil) /\ ~(goal # Nil /\ goal.asks = Nil /\ goal.planAsked # Nil)
  <2>1. Meant(code) = OfItem(code)
    BY <1>4 DEF Meant
  <2> DEFINE eps == {ep \in Eps : item.bound[ep] = code}
             it == CHOOSE ep \in Eps : item.bound[ep] = code
  <2>2. item # Nil /\ Cardinality(eps) = 1 /\ Meant(code) = msg("auth", item.slug, it)
    BY <2>1 DEF OfItem, Target
  <2>3. eps # {}
    BY <2>2, FS_EmptySet
  <2>4. it \in Eps /\ item.bound[it] = code
    BY <2>3
  <2>5. /\ item \in Items /\ item.slug \in Names /\ item.bound[it] \in Contents
        /\ code # Nil => <<item.slug, code>> \in asked
    BY <2>2, <2>4 DEF HumanInv, HumanTypes, Spoken, ItemAsked, Shown, Items
  <2>6. code \in Contracts /\ code # Nil
    BY <2>4, <2>5, ContractsAssumption DEF Contents
  <2> QED
    BY <1>1, <2>2, <2>4, <2>5, <2>6 DEF Eps, Paths
<1> QED
  BY <1>2, <1>3, <1>4

LEMMA ApproveInv ==
  ASSUME HumanInv, NEW k \in Hooks, NEW code \in Plans \cup Contracts, Approve(k, code)
  PROVE  HumanInv'
<1>1. stamp \in Nat /\ stamp <= stamp /\ stamp \in 0..MaxWords
  BY BoundsAssumption DEF HumanInv, HumanTypes
<1> QED
  BY <1>1, MeantAsked, HookTurn DEF Approve

LEMMA WithdrawInv ==
  ASSUME HumanInv, NEW k \in Hooks, NEW code \in Contracts, Withdraw(k, code)
  PROVE  HumanInv'
<1> DEFINE taken == {i \in About(goal.slug, code) : auth[i].kind = "approval"}
<1>1. PICK r : r = Target("auth", goal.slug, code, "none")
  OBVIOUS
<1>2. stamp \in Nat /\ stamp <= stamp /\ stamp \in 0..MaxWords /\ 0 \in 0..MaxWords
  BY BoundsAssumption DEF HumanInv, HumanTypes
<1>3. goal.slug \in Names
  BY DEF Withdraw, HumanInv, HumanTypes, Goals
<1>4. taken \subseteq DOMAIN auth /\ DOMAIN auth \subseteq Nat
  BY DEF About, HumanInv, HumanTypes
<1>5. /\ r \in Messages /\ r.ledger = "auth" /\ r.slug = goal.slug /\ r.hash = code
      /\ r.at = "heard"
  BY <1>1, <1>2, <1>3 DEF Target, Messages
<1> DEFINE h == [r EXCEPT !.kind = "withdrawal", !.since = taken]
<1>6. hook' = [hook EXCEPT ![k] = h]
  BY <1>1 DEF Withdraw
<1>7. h \in Messages
  BY <1>4, <1>5 DEF Messages
<1>8. /\ h.ledger = "auth" /\ h.slug = goal.slug /\ h.hash = code /\ h.at = "heard"
      /\ h.kind = "withdrawal" /\ h.since = taken
  BY <1>5 DEF Messages
<1> HIDE DEF h
<1>9. HookOk(h, asked, auth, stamp)
  BY <1>8 DEF HookOk, About
<1> QED
  BY <1>2, <1>6, <1>7, <1>9, HookTurn DEF Withdraw

LEMMA CheckInv == ASSUME HumanInv, NEW k \in Hooks, Check(k) PROVE HumanInv'
<1>1. stamp \in Nat /\ stamp \in 0..MaxWords /\ MaxWords \in Nat
  BY BoundsAssumption DEF HumanInv, HumanTypes
<1>2. ASSUME hook' = [hook EXCEPT ![k] = Nil], stamp' = stamp PROVE HumanInv'
  <2>1. /\ Nil \in Messages \cup {Nil} /\ HookOk(Nil, asked, auth, stamp')
        /\ stamp <= stamp' /\ stamp' \in 0..MaxWords
    BY <1>1, <1>2 DEF HookOk
  <2> QED
    BY <1>2, <2>1, HookTurn DEF Check
<1>3. ASSUME NEW t \in {stamp, stamp + 1} \cap (0..MaxWords), stamp' = t,
             hook' = [hook EXCEPT ![k].at = "checked", ![k].time = t]
      PROVE  HumanInv'
  <2>1. PICK h : h = hook[k]
    OBVIOUS
  <2>2. h \in Messages /\ HookOk(h, asked, auth, stamp) /\ h # Nil
    BY <2>1 DEF Check, HumanInv, HumanTypes, Spoken
  <2> DEFINE c == [h EXCEPT !.at = "checked", !.time = t]
  <2>3. c \in Messages
    BY <2>2, <1>3 DEF Messages
  <2>4. /\ c.ledger = h.ledger /\ c.kind = h.kind /\ c.slug = h.slug /\ c.hash = h.hash
        /\ c.since = h.since /\ c.at = "checked" /\ c.time = t
    BY <2>2 DEF Messages
  <2>5. hook' = [hook EXCEPT ![k] = c]
    BY <1>3, <2>1 DEF HumanInv, HumanTypes
  <2>6. t \in Nat /\ stamp <= t
    BY <1>1, <1>3
  <2>7. \A i \in DOMAIN auth : auth[i].at <= t
    BY <1>1, <2>6, RecordsTyped DEF HumanInv, Spoken
  <2> HIDE DEF c
  <2>8. HookOk(c, asked, auth, t)
    BY <2>2, <2>4, <2>6, <2>7 DEF HookOk
  <2> QED
    BY <1>3, <2>3, <2>5, <2>6, <2>8, HookTurn DEF Check
<1> QED
  BY <1>2, <1>3 DEF Check

LEMMA LoseInv == ASSUME HumanInv, NEW k \in Hooks, Lose(k) PROVE HumanInv'
<1>1. stamp \in Nat /\ stamp <= stamp /\ stamp \in 0..MaxWords
  BY BoundsAssumption DEF HumanInv, HumanTypes
<1> QED
  BY <1>1, HookTurn DEF Lose, HookOk

(* The ledger only grows: what is said of its entries stays true. *)
LEMMA Longer ==
  ASSUME NEW au \in Seq(Entries), NEW e \in Entries
  PROVE  /\ Append(au, e) \in Seq(Entries) /\ DOMAIN au \subseteq DOMAIN Append(au, e)
         /\ \A i \in DOMAIN au : Append(au, e)[i] = au[i]
         /\ \A i \in DOMAIN Append(au, e) : i \in DOMAIN au \/ i = Len(au) + 1
         /\ Len(au) + 1 \in DOMAIN Append(au, e) /\ Append(au, e)[Len(au) + 1] = e
OBVIOUS

LEMMA RecordInv == ASSUME HumanInv, NEW k \in Hooks, Record(k) PROVE HumanInv'
<1>1. PICK h : h = hook[k]
  OBVIOUS
<1>2. /\ h # Nil /\ h \in Messages /\ h.at = "checked"
      /\ HookOk(h, asked, auth, stamp)
      /\ hook' = [hook EXCEPT ![k] = Nil]
      /\ UNCHANGED <<papers, goal, item, stamp, cmd, asked>>
  BY <1>1 DEF Record, HumanInv, HumanTypes, Spoken
<1>3. stamp \in Nat
  BY BoundsAssumption DEF HumanInv, HumanTypes
<1>4. CASE h.ledger = "plan"
  <2>1. approvals' = approvals \cup {<<h.slug, h.hash>>} /\ UNCHANGED <<auth, void>>
    BY <1>1, <1>4 DEF Record, Slug
  <2>2. h.hash \in Plans /\ h.slug \in Names /\ <<h.slug, h.hash>> \in asked
    BY <1>2, <1>4 DEF HookOk, Messages
  <2>3. HumanTypes'
    BY <1>2, <2>1, <2>2 DEF HumanInv, HumanTypes, papers
  <2>4. \A l \in Hooks : HookOk(hook[l], asked, auth, stamp)'
    BY <1>2, <2>1 DEF HumanInv, HumanTypes, Spoken, HookOk
  <2> QED
    BY <1>2, <2>1, <2>2, <2>3, <2>4
    DEF HumanInv, Spoken, GoalAsked, ItemAsked, Shown, ApprovedWasAsked, TakenBack
<1>5. CASE h.ledger # "plan"
  <2> DEFINE n == Len(auth) + 1
             e == [kind |-> h.kind, slug |-> h.slug, hash |-> h.hash, at |-> h.time]
  <2>1. /\ auth' = Append(auth, e) /\ void' = void \cup h.since /\ approvals' = approvals
    BY <1>1, <1>5 DEF Record, Slug
  <2>2. e \in Entries /\ e.at <= stamp
    BY <1>2, <1>5 DEF HookOk, Messages, Entries
  <2>3. auth \in Seq(Entries) /\ void \subseteq DOMAIN auth
    BY DEF HumanInv, HumanTypes
  <2>4. /\ auth' \in Seq(Entries) /\ DOMAIN auth \subseteq DOMAIN auth'
        /\ \A i \in DOMAIN auth : auth'[i] = auth[i]
        /\ \A i \in DOMAIN auth' : i \in DOMAIN auth \/ i = n
        /\ n \in DOMAIN auth' /\ auth'[n] = e
    BY <2>1, <2>2, <2>3, Longer
  <2>5. /\ h.since \subseteq DOMAIN auth
        /\ \A i \in h.since : /\ auth[i].kind = "approval" /\ auth[i].slug = e.slug
                              /\ auth[i].hash = e.hash /\ auth[i].at <= e.at
        /\ h.since # {} => e.kind = "withdrawal"
        /\ e.kind = "approval" => <<e.slug, e.hash>> \in asked
    BY <1>2 DEF HookOk, Messages
  <2> HIDE DEF e
  <2>6. HumanTypes'
    BY <1>2, <2>1, <2>3, <2>4, <2>5 DEF HumanInv, HumanTypes, papers
  <2>7. \A l \in Hooks : HookOk(hook[l], asked, auth, stamp)'
    <3> SUFFICES ASSUME NEW l \in Hooks PROVE HookOk(hook'[l], asked, auth', stamp)
      BY <1>2
    <3>1. CASE l = k
      BY <1>2, <3>1 DEF HookOk, HumanInv, HumanTypes
    <3>2. CASE l # k
      <4>1. hook'[l] = hook[l] /\ HookOk(hook[l], asked, auth, stamp)
        BY <1>2, <3>2 DEF HumanInv, HumanTypes, Spoken
      <4> QED
        BY <2>4, <4>1 DEF HookOk
    <3> QED
      BY <3>1, <3>2
  <2>8. \A i \in DOMAIN auth' : auth'[i].at <= stamp
    BY <2>2, <2>4 DEF HumanInv, Spoken
  <2>9. \A i \in void' : TakenBack(i, auth')
    <3> SUFFICES ASSUME NEW i \in void' PROVE TakenBack(i, auth')
      OBVIOUS
    <3>1. CASE i \in void
      <4>1. PICK j \in DOMAIN auth :
              /\ auth[j].kind = "withdrawal" /\ auth[j].slug = auth[i].slug
              /\ auth[j].hash = auth[i].hash /\ auth[i].at <= auth[j].at
        BY <3>1 DEF HumanInv, Spoken, TakenBack
      <4> QED
        BY <2>3, <2>4, <3>1, <4>1 DEF TakenBack
    <3>2. CASE i \in h.since
      BY <2>4, <2>5, <3>2 DEF TakenBack
    <3> QED
      BY <2>1, <3>1, <3>2
  <2>10. ApprovedWasAsked'
    BY <1>2, <2>1, <2>4, <2>5 DEF HumanInv, Spoken, ApprovedWasAsked
  <2> QED
    BY <1>2, <2>6, <2>7, <2>8, <2>9, <2>10
    DEF HumanInv, Spoken, GoalAsked, ItemAsked, Shown
<1> QED
  BY <1>4, <1>5

-----------------------------------------------------------------------------

LEMMA NextInv == ASSUME HumanInv, [Next]_vars PROVE HumanInv'
<1>1. CASE Edit
  BY <1>1, EditInv
<1>2. CASE Human
  BY <1>2, ApproveInv, WithdrawInv, CheckInv, RecordInv, LoseInv DEF Human
<1>3. CASE Loop
  <2>1. ASSUME StartLoop \/ Finish \/ Abandon PROVE HumanInv'
    BY <2>1, MoveInv DEF StartLoop, Finish, Abandon, Statuses
  <2> QED
    BY <1>3, <2>1, LoadContractInv, RegisterInv, AdoptInv, ResetInv DEF Loop
<1>4. CASE Deliver
  BY <1>4, LoadRequestInv, ReadTargetInv, BindInv, ActInv DEF Deliver
<1>5. CASE Queue
  BY <1>5, EnqueueInv, DispatchInv, QueueSlotInv, QueueClearInv, QueueLoadInv,
     QueueRegisterInv, QueueAdoptInv, QueueStartInv, QueueBindInv DEF Queue
<1>6. CASE UNCHANGED vars
  BY <1>6, Silent DEF vars, papers, HumanInv, HumanTypes, Spoken
<1> QED
  BY <1>1, <1>2, <1>3, <1>4, <1>5, <1>6 DEF Next

(* All of it holds throughout. *)
LEMMA Invariant == Spec => []HumanInv
  BY InitInv, NextInv, PTL DEF Spec

(* Goal, queue item, authorizations and every record keep their shapes. *)
THEOREM HumanTypeCorrect == Spec => []TypeOK
<1>1. HumanInv => TypeOK
  BY RecordsTyped DEF HumanInv, HumanTypes, TypeOK
<1> QED
  BY <1>1, Invariant, PTL

(* A gate of a goal or of an item is open only on an approval of what it     *)
(* asked for, under its name, that no message took back since; a file that   *)
(* was edited in between does not open it.                                  *)
THEOREM OpenOnWord == Spec => []OpenedOnAWord
  BY Invariant, OpenIsSaid, PTL

(* What the word of a human lets the goal adopt. *)
ByWord ==
  IF goal.own = Nil THEN <<goal.slug, goal'.plan>> \in approvals \cap asked
  ELSE Stands(goal.slug, goal.own) /\ <<goal.own, goal'.plan>> \in Within \cap Covered

LEMMA WordAdopts ==
  ASSUME HumanInv, goal # Nil, HumanWord, goal'.plan # goal.plan
  PROVE  ByWord
<1>1. goal \in Goals
  BY DEF HumanInv, HumanTypes
<1>2. CASE goal.own = Nil
  <2>1. Approved(goal.slug, plan) /\ goal' = Adopted
    BY <1>1, <1>2 DEF HumanWord, OnApproval, Goals
  <2>2. goal'.plan = plan
    BY <1>1, <2>1 DEF Adopted, Goals
  <2> QED
    BY <1>2, <2>1, <2>2 DEF ByWord, Approved, HumanInv, Spoken, ApprovedWasAsked
<1>3. CASE goal.own # Nil
  <2>1. PICK unmoved \in BOOLEAN : UnderContract(unmoved)
    BY <1>3 DEF HumanWord
  <2>2. /\ ContractGate(plan, unmoved) /\ Answers(plan)
        /\ goal' = [Adopted EXCEPT !.asks = Nil]
    BY <1>1, <2>1 DEF UnderContract, AskContract, Goals
  <2>3. goal'.plan = plan
    BY <1>1, <2>2 DEF Adopted, Goals
  <2> QED
    BY <1>3, <2>2, <2>3, WordStands DEF ByWord, ContractGate, Answers
<1> QED
  BY <1>2, <1>3

(* Every other step leaves the plan of the goal, or the goal ends or begins. *)
LEMMA PlanStays ==
  ASSUME HumanInv, Next, goal # Nil, goal' # Nil, goal'.plan # goal.plan
  PROVE  HumanWord
<1>1. goal \in Goals
  BY DEF HumanInv, HumanTypes
<1>2. CASE Edit \/ Human
  BY <1>2 DEF Edit, Human, Approve, Withdraw, Check, Record, Lose
<1>3. CASE Loop
  BY <1>1, <1>3 DEF Loop, LoadContract, Register, Adopt, Supersede, StartLoop, Finish, Abandon,
     MoveGoal, Reset, Goals
<1>4. ASSUME NEW ep, NEW hash, BoundTo(ep, hash) PROVE FALSE
  BY <1>1, <1>4 DEF BoundTo, Goals
<1>5. CASE Deliver
  BY <1>1, <1>4, <1>5 DEF Deliver, LoadRequest, ReadTarget, Bind, Act, Settled, Goals
<1>6. CASE Queue
  BY <1>1, <1>4, <1>6 DEF Queue, Enqueue, Dispatch, QueueSlot, QueueClear, QueueLoad,
     QueueRegister, QueueAdopt, QueueStart, QueueBind, Goals
<1> QED
  BY <1>2, <1>3, <1>5, <1>6 DEF Next

(* A goal that takes another plan takes one that was approved under its      *)
(* name, or that an approved contract covers.                               *)
THEOREM AdoptOnWord == Spec => AdoptedAsApproved
<1>1. HumanInv /\ [Next]_vars =>
        [goal # Nil /\ goal' # Nil /\ goal'.plan # goal.plan =>
           IF goal.own = Nil THEN <<goal.slug, goal'.plan>> \in approvals \cap asked
           ELSE Stands(goal.slug, goal.own) /\ <<goal.own, goal'.plan>> \in Within \cap Covered]_vars
  BY WordAdopts, PlanStays DEF ByWord
<1> QED
  BY <1>1, Invariant, PTL DEF Spec, AdoptedAsApproved
=============================================================================
