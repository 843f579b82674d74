----------------------------- MODULE Headless -----------------------------
(***************************************************************************)
(* One call of the engine without a desktop (src/core/headless.js,          *)
(* spawnHeadless and defaultRun): a child process with its descendants, a   *)
(* wall-clock budget, a signal of the caller that may cancel, and the       *)
(* events of the child - error, exit, close - each of which may come before *)
(* or after any of these.                                                   *)
(*                                                                         *)
(* A handler of an event or a timer is one step, as it is in the one        *)
(* thread of Node.  A descendant may hold the child's streams, and outlive  *)
(* it; one that leaves the process group, or belongs to another user, is    *)
(* left out.  Killing the group is denied (EPERM) or takes effect at once.  *)
(***************************************************************************)
EXTENDS Naturals

VARIABLES
  engine,   \* "unborn", "stillborn" (it could not be started), "running" or "gone"
  kin,      \* "none", "loose" or "holding": descendants, and whether they keep its streams
  said,     \* what it wrote and was read: "nothing", "half" or "all" of its summary
  code,     \* its exit code: "ok", "bad", "killed", or "none" so far
  heard,    \* the events of the child that were delivered
  call,     \* what defaultRun keeps of the call
  result    \* what spawnHeadless resolved with; "none" yet

callVars == <<engine, kin, said, code, heard, call, result>>

Alive == engine = "running" \/ kin # "none"

(* tree: processTree was asked for.  cut: the streams were destroyed.       *)
Called(tree) ==
  [tree |-> tree, timers |-> {}, timedOut |-> FALSE, aborted |-> FALSE, failed |-> FALSE,
   cleaned |-> FALSE, denied |-> FALSE, cut |-> FALSE]

CallInit ==
  /\ call \in {Called(tree) : tree \in BOOLEAN}
  /\ engine = "unborn" /\ kin = "none" /\ said = "nothing" /\ code = "none"
  /\ heard = {} /\ result = "none"

-----------------------------------------------------------------------------
(* The operating system *)

Spawn ==
  /\ engine = "unborn" /\ result = "none"
  /\ engine' \in {"running", "stillborn"}
  /\ call' = [call EXCEPT !.timers = {"deadline"}]
  /\ UNCHANGED <<kin, said, code, heard, result>>

(* The signal was given before the call: no child is started. *)
Unstarted ==
  /\ engine = "unborn" /\ result = "none"
  /\ result' = "aborted"
  /\ UNCHANGED <<engine, kin, said, code, heard, call>>

Write ==
  /\ engine = "running" /\ ~call.cut /\ said # "all"
  /\ said' = IF said = "nothing" THEN "half" ELSE "all"
  /\ UNCHANGED <<engine, kin, code, heard, call, result>>

Fork ==
  /\ engine = "running" /\ kin = "none"
  /\ kin' \in {"loose", "holding"}
  /\ UNCHANGED <<engine, said, code, heard, call, result>>

EngineExits ==
  /\ engine = "running"
  /\ engine' = "gone"
  /\ code' \in {"ok", "bad"}
  /\ UNCHANGED <<kin, said, heard, call, result>>

KinExits ==
  /\ kin # "none"
  /\ kin' = "none"
  /\ UNCHANGED <<engine, said, code, heard, call, result>>

-----------------------------------------------------------------------------
(* defaultRun *)

(* kill: the group, or the child alone, at most once for a call, since the  *)
(* number of a group that is gone may belong to another run.                *)
KillGroup(c) ==
  LET cleaned == [c EXCEPT !.cleaned = TRUE]
  IN  IF c.cleaned THEN {[call |-> c, hit |-> FALSE]}
      ELSE {[call |-> cleaned, hit |-> TRUE]}
           \cup IF c.tree /\ Alive THEN {[call |-> [cleaned EXCEPT !.denied = TRUE], hit |-> FALSE]}
                ELSE {}

Struck(hit) ==
  IF hit /\ engine = "running"
  THEN /\ engine' = "gone" /\ code' = "killed"
       /\ kin' = IF call.tree THEN "none" ELSE kin
  ELSE /\ UNCHANGED <<engine, code>>
       /\ kin' = IF hit /\ call.tree THEN "none" ELSE kin

(* What spawnHeadless makes of the raw result, in the order it asks. *)
Outcome(c, exit) ==
  IF      c.aborted     THEN "aborted"
  ELSE IF c.denied      THEN "cleanup"
  ELSE IF c.failed      THEN "spawn"
  ELSE IF c.timedOut    THEN "timeout"
  ELSE IF exit # "ok"   THEN "nonzero"
  ELSE IF said # "all"  THEN "unparsed"
  ELSE "ok"

Settle(c, exit) ==
  IF result # "none" THEN call' = c /\ UNCHANGED result
  ELSE /\ call' = [c EXCEPT !.timers = {}, !.cut = TRUE]
       /\ result' = Outcome(c, exit)

Later(c, timer) == /\ call' = [c EXCEPT !.timers = @ \cup {timer}] /\ UNCHANGED result

OnAbort ==
  /\ engine # "unborn" /\ result = "none"
  /\ \E k \in KillGroup([call EXCEPT !.aborted = TRUE]) :
       Struck(k.hit) /\ Settle(k.call, "none")
  /\ UNCHANGED <<said, heard>>

(* SIGKILL, and 1.5 seconds on the call resolves whatever becomes of it. *)
OnDeadline ==
  /\ "deadline" \in call.timers
  /\ LET late == [call EXCEPT !.timedOut = TRUE, !.cut = TRUE, !.timers = @ \ {"deadline"}]
     IN \E k \in KillGroup(late) : Struck(k.hit) /\ Later(k.call, "after")
  /\ UNCHANGED <<said, heard>>

OnError ==
  /\ engine = "stillborn" /\ "error" \notin heard
  /\ heard' = heard \cup {"error"}
  /\ LET failed == [call EXCEPT !.failed = TRUE, !.cleaned = @ \/ call.tree]
     IN Later(failed, "error")
  /\ UNCHANGED <<engine, kin, said, code>>

(* Mutant: a child that ended by itself is taken to have left nothing. *)
Reclaimed_never(c) == {[call |-> c, hit |-> FALSE]}

(* A child that ended by itself may have left descendants in its group. *)
Reclaimed(c) == IF c.tree THEN KillGroup(c) ELSE {[call |-> c, hit |-> FALSE]}

(* The grace of 200 ms for output that is still under way. *)
OnExit ==
  /\ engine = "gone" /\ "exit" \notin heard
  /\ heard' = heard \cup {"exit"}
  /\ \E k \in Reclaimed([call EXCEPT !.timers = @ \ {"deadline"}]) :
       Struck(k.hit) /\ Later(k.call, "grace")
  /\ UNCHANGED said

(* close comes when the streams are at their end. *)
OnClose ==
  /\ "exit" \in heard \/ "error" \in heard
  /\ "close" \notin heard
  /\ call.cut \/ kin # "holding"
  /\ heard' = heard \cup {"close"}
  /\ \E k \in Reclaimed(call) : Struck(k.hit) /\ Settle(k.call, code)
  /\ UNCHANGED said

(* Mutant: after the deadline the call waits for the child to be gone.      *)
Due_whenGone == {t \in call.timers \ {"deadline"} : t = "after" => engine = "gone"}

Due == call.timers \ {"deadline"}

OnTimer ==
  /\ \E t \in Due :
       Settle([call EXCEPT !.timers = @ \ {t}], IF t = "grace" THEN code ELSE "none")
  /\ UNCHANGED <<engine, kin, said, code, heard>>

Handlers == OnDeadline \/ OnError \/ OnExit \/ OnClose \/ OnTimer

CallNext ==
  \/ Spawn \/ Unstarted \/ Write \/ Fork \/ EngineExits \/ KinExits
  \/ OnAbort \/ Handlers

(* The event loop delivers what is due; nothing is asked of the child, of   *)
(* its descendants or of the system that may refuse to kill them.           *)
CallFairness == WF_callVars(Handlers)
CallSpec == CallInit /\ [][CallNext]_callVars /\ CallFairness

-----------------------------------------------------------------------------
(* Properties *)

(* A call that was started comes back, though the child never ends, a       *)
(* descendant holds its streams for ever and the kill is denied: an         *)
(* unattended call must never hang (assertTimeoutMs, defaultRun).           *)
CallResolves == engine # "unborn" ~> result # "none"

(* What is left of the process group of a call that was not cancelled is     *)
(* said in its result ("a first failure remains visible",                   *)
(* src/core/headless.js:218).                                               *)
LeftIsSaid == call.tree /\ Alive => call.aborted \/ result = "cleanup"

(* A call comes back, and when it does it says what is left.                *)
CallComesBack == CallResolves /\ [](result # "none" => LeftIsSaid)

CallTypeOK ==
  /\ engine \in {"unborn", "stillborn", "running", "gone"}
  /\ kin \in {"none", "loose", "holding"}
  /\ said \in {"nothing", "half", "all"}
  /\ code \in {"none", "ok", "bad", "killed"}
  /\ heard \subseteq {"error", "exit", "close"}
  /\ call \in [tree : BOOLEAN, timers : SUBSET {"deadline", "after", "error", "grace"},
               timedOut : BOOLEAN, aborted : BOOLEAN, failed : BOOLEAN,
               cleaned : BOOLEAN, denied : BOOLEAN, cut : BOOLEAN]
  /\ result \in {"none", "aborted", "cleanup", "spawn", "timeout", "nonzero", "unparsed", "ok"}
=============================================================================
