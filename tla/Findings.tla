------------------------------ MODULE Findings ------------------------------
(***************************************************************************)
(* The ledger of blocking findings, core/findings.js, with the commands     *)
(* that move it (lzy finding, lzy review recheck) and the reviews that      *)
(* write to it (ReviewRun).                                                 *)
(*                                                                         *)
(* A finding is closed only on the word of an independent second review     *)
(* that started from a claim that it is fixed, or from a written objection. *)
(* A ledger belongs to the name of a goal; when a goal goes on under        *)
(* another name its old ledger is linked from the new one, and what is open *)
(* in either blocks.                                                        *)
(*                                                                         *)
(* A command reads the file of one ledger, decides, and writes the whole    *)
(* file back without the lock; a review that ends in between holds it.      *)
(***************************************************************************)
EXTENDS ReviewRun

CONSTANT Threshold    \* DIAGNOSIS_REQUIRED_THRESHOLD

VARIABLES
  ledger,    \* .lazyzcode/findings/<slug>.json
  hand,      \* the finding command under way: the file it will write
  failures,  \* history: per finding, how often a claim that it is fixed failed since
             \* it was last diagnosed, or came back after it was closed
  forgotten  \* history: the findings of which a command saved over a failed fix since

findings_vars == <<ledger, hand, failures, forgotten>>
all_findings == <<run_vars, findings_vars>>

-----------------------------------------------------------------------------
Open   == {"open", "resolve-requested", "contested", "diagnosis-required"}
Closed == {"closed-fixed", "closed-falsified"}

(* The forms of a mark and of an entry; None is neither.                     *)
AnyMark == [at : Nat, head : Nat]
AnyEntry == [status : Open \cup Closed, duty : Duties, count : Nat, last : Nat,
             claim : AnyMark \cup {None}, contest : AnyMark \cup {None}, closure : Id \cup {None}]

ASSUME FindingsAssumption == Threshold \in Nat \ {0} /\ None \notin AnyMark \cup AnyEntry

(* Times are as in ReviewRun; a mark also remembers, as history, the commit *)
(* it was made at.                                                          *)
Mark == [at : Times, head : 1..MaxHead]

Entry == [status : Open \cup Closed, duty : Duties,
          count : 0..Threshold,           \* invalidFixCount
          last : Times,                   \* lastSeen
          claim : Mark \cup {None},       \* resolveRequest
          contest : Mark \cup {None},
          closure : Id \cup {None}]       \* recheckRunId

Ledger == [aliases : SUBSET Slugs, found : [Fps -> Entry \cup {None}]]

FindingsTypeOK ==
  /\ ReviewTypeOK
  /\ ledger \in [Slugs -> Ledger]
  /\ hand \in {None} \cup [slug : Slugs, write : Ledger, missed : SUBSET Fps]
  /\ failures \in [Slugs -> [Fps -> Nat]] /\ forgotten \subseteq Slugs \X Fps

(* The names a ledger is read through, and the names that reach one of them. *)
Scope(slug) ==
  CHOOSE S \in SUBSET Slugs :
    /\ slug \in S /\ \A s \in S : ledger[s].aliases \subseteq S
    /\ \A T \in SUBSET Slugs :
         (slug \in T /\ \A t \in T : ledger[t].aliases \subseteq T) => S \subseteq T

Family(slug) == Scope(slug) \cup {s \in Slugs : ledger[s].aliases \cap Scope(slug) # {}}

Hits(slug, fp) == {s \in Scope(slug) : ledger[s].found[fp] # None}

OpenHits(slug, fp) == {s \in Hits(slug, fp) : ledger[s].found[fp].status \in Open}

Now == [at |-> clock, head |-> head]

-----------------------------------------------------------------------------
(* What a valid run reports (recordFindingSightings). *)

NewEntry(run) ==
  [status |-> "open", duty |-> run.duty, count |-> 0, last |-> run.at,
   claim |-> None, contest |-> None, closure |-> None]

(* Mutant: one more fix that did not hold is let through. *)
SightedLate(e, run) ==
  IF e = None THEN NewEntry(run)
  ELSE CASE e.status \in Closed ->
              [e EXCEPT !.status = "open", !.last = run.at, !.count = 0,
                        !.claim = None, !.contest = None, !.closure = None]
         [] e.status = "resolve-requested" ->
              [e EXCEPT !.status = IF e.count + 1 > Threshold THEN "diagnosis-required" ELSE "open",
                        !.last = run.at, !.count = @ + 1, !.claim = None]
         [] OTHER -> [e EXCEPT !.last = run.at]

Sighted(e, run) ==
  IF e = None THEN NewEntry(run)
  ELSE CASE e.status \in Closed ->
              [e EXCEPT !.status = "open", !.last = run.at, !.count = 0,
                        !.claim = None, !.contest = None, !.closure = None]
         [] e.status = "resolve-requested" ->
              [e EXCEPT !.status = IF e.count + 1 >= Threshold THEN "diagnosis-required" ELSE "open",
                        !.last = run.at, !.count = @ + 1, !.claim = None]
         [] OTHER -> [e EXCEPT !.last = run.at]

Sightings(run) ==
  [fp \in Fps |-> IF fp \in run.reported THEN Sighted(ledger[run.id.slug].found[fp], run)
                  ELSE ledger[run.id.slug].found[fp]]

(* The reported findings that were claimed to be fixed, and were closed.     *)
In(slug, fp, statuses) ==
  ledger[slug].found[fp] # None /\ ledger[slug].found[fp].status \in statuses

Failed(run) == {fp \in run.reported : In(run.id.slug, fp, {"resolve-requested"})}
Returned(run) == {fp \in run.reported : In(run.id.slug, fp, Closed)}

Report(run) ==
  LET slug == run.id.slug IN
    /\ ledger' = [ledger EXCEPT ![slug].found = Sightings(run)]
    /\ failures' = [failures EXCEPT ![slug] =
                      [fp \in Fps |-> IF fp \in Returned(run) THEN 0
                                     ELSE IF fp \in Failed(run) THEN @[fp] + 1 ELSE @[fp]]]
    /\ forgotten' = forgotten \ ({slug} \X Returned(run))
    /\ hand' = IF hand # None /\ hand.slug = slug
               THEN [hand EXCEPT !.missed = (@ \cup Failed(run)) \ Returned(run)] ELSE hand

WireFindings(r) ==
  /\ Wire(r)
  /\ LET run == rv[r].run IN
       IF run.valid /\ run.reported # {} THEN Report(run) ELSE UNCHANGED findings_vars

(* A review is started for a duty; a recheck may be asked to judge one      *)
(* contested finding, which it looks up by its fingerprint alone: of two    *)
(* ledgers that hold it, the one it was seen in first.                      *)
AdmitReview(r) ==
  /\ \/ \E duty \in Duties, purpose \in {"review", "recheck"} : Admit(r, duty, purpose)
     \/ \E duty \in Duties, fp \in Fps :
          /\ \E s \in Hits(slot.slug, fp) :
               /\ ledger[s].found[fp].status = "contested"
               /\ \A t \in Hits(slot.slug, fp) : ledger[s].found[fp].last <= ledger[t].found[fp].last
          /\ Cardinality({s \in Hits(slot.slug, fp) :
                            ledger[s].found[fp].status = "contested"}) = 1
          /\ Admit(r, duty, fp)
  /\ UNCHANGED findings_vars

-----------------------------------------------------------------------------
(* The commands.  A fingerprint is looked up in the scope of the goal (or   *)
(* of the name given with --goal) and must be there once; what it leads to  *)
(* is the file the command will write.                                      *)

Command(slug, fp, New(_, _)) ==
  /\ hand = None
  /\ \E through \in Slugs : Hits(through, fp) = {slug}
  /\ LET e == ledger[slug].found[fp] IN
       \E n \in New(slug, e) :
         hand' = [slug |-> slug, write |-> [ledger[slug] EXCEPT !.found[fp] = n], missed |-> {}]
  /\ UNCHANGED <<run_vars, ledger>>

Unfailing == UNCHANGED <<failures, forgotten>>

RequestResolve(slug, fp) ==
  LET New(s, e) == {n \in {[e EXCEPT !.status = "resolve-requested", !.claim = Now]} :
                      e.status = "open"}
  IN  Command(slug, fp, New) /\ Unfailing

Contest(slug, fp) ==
  LET New(s, e) == {n \in {[e EXCEPT !.status = "contested", !.contest = Now]} :
                      e.status \in {"open", "contested"}}
  IN  Command(slug, fp, New) /\ Unfailing

Diagnose(slug, fp) ==
  LET New(s, e) == {n \in {[e EXCEPT !.status = "open", !.count = 0]} :
                      e.status = "diagnosis-required"}
  IN  /\ Command(slug, fp, New)
      /\ failures' = [failures EXCEPT ![slug][fp] = 0]
      /\ forgotten' = forgotten \ {<<slug, fp>>}

Reopen(slug, fp) ==
  LET New(s, e) == {n \in {[e EXCEPT !.status = "resolve-requested", !.claim = Now]} :
                      e.status \in Closed}
  IN  Command(slug, fp, New) /\ Unfailing

(* Mutant: the time of the claim is not looked at. *)
LaterAny(run, mark) == TRUE

Later(run, mark) == mark = None \/ run.at > mark.at

(* A second review that can be cited for an entry of the ledger slug: valid,*)
(* of the same duty, of the attempt that is current, under a name of the    *)
(* family, and over after the mark.                                         *)
Citable(run, slug, e, mark) ==
  /\ run.valid /\ run.duty = e.duty /\ run.id.attempt = slot.attempt
  /\ run.id.slug \in Family(slug) /\ Later(run, mark)

Close(slug, fp, run) ==
  LET New(s, e) ==
        {n \in {[e EXCEPT !.status = st, !.closure = run.id] : st \in Closed} :
           /\ e.status = "resolve-requested" /\ run.purpose # "review"
           /\ Citable(run, s, e, e.claim) /\ fp \notin run.reported}
  IN  Command(slug, fp, New) /\ Unfailing

Adjudicate(slug, fp, run) ==
  LET New(s, e) ==
        {n \in {IF fp \in run.reported THEN [e EXCEPT !.status = "open"]
                ELSE [e EXCEPT !.status = "closed-falsified", !.closure = run.id]} :
           /\ e.status = "contested" /\ run.purpose = fp
           /\ Citable(run, s, e, e.contest)}
  IN  Command(slug, fp, New) /\ Unfailing

Held(slug) == {ledger[slug].found[fp] : fp \in Fps} \ {None}

Older(to, from) ==
  /\ Held(to) # {}
  /\ \E e \in Held(from) : \A n \in Held(to) : n.last < e.last

(* relink: the ledger of to is read through from on.  Neither a ring nor a  *)
(* link from the older ledger to the newer one.                             *)
Relink(from, to) ==
  /\ hand = None /\ from # to /\ from \notin ledger[to].aliases
  /\ to \notin Scope(from)
  /\ ~Older(to, from)
  /\ hand' = [slug |-> to, write |-> [ledger[to] EXCEPT !.aliases = @ \cup {from}],
              missed |-> {}]
  /\ UNCHANGED <<run_vars, ledger>> /\ Unfailing

Save ==
  /\ hand # None
  /\ ledger' = [ledger EXCEPT ![hand.slug] = hand.write]
  /\ forgotten' = forgotten \cup ({hand.slug} \X hand.missed)
  /\ hand' = None
  /\ UNCHANGED <<run_vars, failures>>

-----------------------------------------------------------------------------
FindingsInit ==
  /\ ReviewInit
  /\ ledger = [s \in Slugs |-> [aliases |-> {}, found |-> [fp \in Fps |-> None]]]
  /\ hand = None
  /\ failures = [s \in Slugs |-> [fp \in Fps |-> 0]] /\ forgotten = {}

FindingCommand ==
  \/ \E slug \in Slugs, fp \in Fps :
       \/ RequestResolve(slug, fp) \/ Contest(slug, fp) \/ Diagnose(slug, fp) \/ Reopen(slug, fp)
       \/ \E run \in runs : Close(slug, fp, run) \/ Adjudicate(slug, fp, run)
  \/ \E from, to \in Slugs : Relink(from, to)
  \/ Save

ReviewStep(r) ==
  \/ AdmitReview(r) \/ WireFindings(r)
  \/ /\ \/ Pack(r) \/ Prepare(r, FALSE) \/ SaveRun(r) \/ Leave(r)
        \/ LockRefused(r) \/ ReviewerKilled(r)
        \/ \E sound \in Soundness, reported \in SUBSET Fps : Judge(r, sound, reported)
     /\ UNCHANGED findings_vars

FindingsNext ==
  \/ /\ Reattempt \/ Commit \/ \E slug \in Slugs : Rename(slug)
     /\ UNCHANGED findings_vars
  \/ \E r \in Reviewers : ReviewStep(r)
  \/ FindingCommand

FindingsSpec == FindingsInit /\ [][FindingsNext]_all_findings

-----------------------------------------------------------------------------
(* Nothing is closed on a look at a tree older than the claim that it is    *)
(* fixed, or than the objection to it: the review a closure cites is on     *)
(* record, valid, of the finding's duty, did not report it, and looked at   *)
(* the commit of the claim or a later one.  A review may well have begun    *)
(* before the claim, and only its end is compared.                          *)
MarkOf(e) == IF e.status = "closed-falsified" /\ e.contest # None THEN e.contest ELSE e.claim

ClosedOnClaimedTree ==
  \A s \in Slugs, fp \in Fps :
    LET e == ledger[s].found[fp] IN
      e # None => (e.status \in Closed =>
        \E n \in runs : /\ n.id = e.closure /\ n.valid /\ n.purpose # "review"
                        /\ n.duty = e.duty /\ fp \notin n.reported
                        /\ (MarkOf(e) # None => n.snap >= MarkOf(e).head))

(* A finding that was claimed to be fixed and seen again Threshold times     *)
(* waits for a diagnosis: it cannot be claimed again nor closed before.      *)
(* Every failed fix counts, whatever claims, closures, returns and reviews   *)
(* come in between, but one that a command saved over: it read the ledger    *)
(* before the review wrote there, without the lock (see DiagnosisIsTheExit). *)
DiagnosedFirst ==
  \A s \in Slugs, fp \in Fps :
    failures[s][fp] >= Threshold /\ <<s, fp>> \notin forgotten =>
      In(s, fp, {"diagnosis-required"})

(* What the code says of lzy finding diagnose, "the only way out" of         *)
(* diagnosis-required: so many fixes failed since, so a diagnosis is due.    *)
(* A command that saves over the last failed fix is a way out as well.       *)
DiagnosisIsTheExit ==
  \A s \in Slugs, fp \in Fps :
    failures[s][fp] >= Threshold => In(s, fp, {"diagnosis-required"})

(* A finding is closed for what was claimed, and diagnosed when that fails. *)
ClosedInOrder == ClosedOnClaimedTree /\ DiagnosedFirst
=============================================================================
