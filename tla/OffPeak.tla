------------------------------ MODULE OffPeak ------------------------------
(***************************************************************************)
(* The hours a schedule should avoid (src/core/ratelimit.js,                *)
(* scheduleAdvisory and overlapSegments): from the three hours of the day   *)
(* that hold most rate limits an eight-hour window is taken in the middle   *)
(* of the other 21, and the walk below marks its parts that fall on the     *)
(* peak prices of the platforms.                                            *)
(*                                                                         *)
(* Time is counted in hours of a week of UTC+8, from Sunday midnight.  The  *)
(* window lies in local hours; the local clock is Shift hours ahead.  Zones *)
(* that are not whole hours, and changes to summer time, are left out.      *)
(***************************************************************************)
EXTENDS Integers, Sequences

CONSTANTS
  Shift,      \* hours the local clock may be ahead of UTC+8
  Now,        \* hours of the week in which the question may be asked
  Start       \* hours of the day at which the concentration may start

ASSUME OffPeakAssumption ==
  /\ Shift \subseteq 0..23 /\ Now \subseteq 0..167 /\ Start \subseteq 0..23

VARIABLES
  shift, asked, window,   \* the question
  hour,                   \* the hour the walk is at
  left,                   \* hours of the window still to be visited
  before,                 \* the hour visited before: one, or none yet
  open,                   \* the hour the arc being drawn started at, if any
  arcs                    \* the arcs, as pairs of local hours

walkVars == <<shift, asked, window, hour, left, before, open, arcs>>

Local(t) == (t + shift) % 24
Hour8(t) == t % 24
Day8(t) == (t \div 24) % 7

(* GLM 14-18, DeepSeek 9-12 and 14-18, Monday to Friday. *)
PEAK_WINDOWS == {[days |-> 1..5, hours |-> 14..17],
                 [days |-> 1..5, hours |-> 9..11],
                 [days |-> 1..5, hours |-> 14..17]}
Peak(t) == \E w \in PEAK_WINDOWS : Day8(t) \in w.days /\ Hour8(t) \in w.hours

(* Eight hours from the sixth after the end of the concentration. *)
WindowOf(start) == [start |-> (start + 3 + 6) % 24, end |-> (start + 3 + 6 + 8) % 24]
InWindow(h) ==
  IF window.start < window.end THEN h >= window.start /\ h < window.end
  ELSE h >= window.start \/ h < window.end
Total == LET n == (window.end - window.start + 24) % 24 IN IF n = 0 THEN 24 ELSE n

(* nextWindowHour: the first whole hour of the window from t on. *)
NextIn(t) ==
  CHOOSE u \in t..(t + 47) : InWindow(Local(u)) /\ \A v \in t..(u - 1) : ~InWindow(Local(v))

WalkInit ==
  /\ shift \in Shift /\ asked \in Now
  /\ window \in {WindowOf(s) : s \in Start}
  /\ hour = NextIn(asked)
  /\ left = Total
  /\ before = {} /\ open = {} /\ arcs = <<>>

Passed == CHOOSE t \in before : TRUE
OpenedAt == CHOOSE h \in open : TRUE
After(t) == (Local(t) + 1) % 24

(* Mutant: an arc runs on over the end of the window. *)
Seam_never == FALSE

(* The walk has come from the end of the window to its start. *)
Seam == before # {} /\ hour # Passed + 1

(* What the arcs are once the seam is passed, and whether one is still      *)
(* being drawn.                                                             *)
Broken ==
  IF Seam /\ open # {} THEN [arcs |-> Append(arcs, <<OpenedAt, After(Passed)>>), open |-> {}]
  ELSE [arcs |-> arcs, open |-> open]

Visit ==
  /\ left > 0
  /\ LET b == Broken
     IN CASE Peak(hour) ->
               /\ open' = IF b.open = {} THEN {Local(hour)} ELSE b.open
               /\ arcs' = b.arcs
          [] ~Peak(hour) /\ b.open # {} ->
               /\ open' = {}
               /\ arcs' = Append(b.arcs, <<OpenedAt, Local(hour)>>)
          [] OTHER -> open' = b.open /\ arcs' = b.arcs
  /\ before' = {hour}
  /\ hour' = IF InWindow(Local(hour + 1)) THEN hour + 1 ELSE NextIn(hour + 1)
  /\ left' = left - 1
  /\ UNCHANGED <<shift, asked, window>>

EndOfWalk ==
  /\ left = 0 /\ open # {}
  /\ arcs' = Append(arcs, <<OpenedAt, After(Passed)>>)
  /\ open' = {}
  /\ UNCHANGED <<shift, asked, window, hour, left, before>>

WalkNext == Visit \/ EndOfWalk
WalkSpec == WalkInit /\ [][WalkNext]_walkVars

-----------------------------------------------------------------------------
(* Properties *)

(* The coming occurrence of a local hour, the hour under way included. *)
Coming(h) == CHOOSE t \in asked..(asked + 23) : Local(t) = h
Spanned(arc) == {(arc[1] + k) % 24 : k \in 0..((arc[2] - arc[1] - 1 + 24) % 24)}

(* The arcs name the hours of the window whose coming occurrence is at peak *)
(* price, each once, and an arc is one stretch of time: the part of today   *)
(* and the part of tomorrow are never drawn as one (overlapSegments).       *)
ArcsAreThePeaks ==
  left = 0 /\ open = {} =>
    /\ UNION {Spanned(arcs[i]) : i \in DOMAIN arcs}
         = {h \in 0..23 : InWindow(h) /\ Peak(Coming(h))}
    /\ \A i, j \in DOMAIN arcs : i # j => Spanned(arcs[i]) \cap Spanned(arcs[j]) = {}
    /\ \A i \in DOMAIN arcs :
         \A h \in Spanned(arcs[i]) :
           h # arcs[i][1] => Coming(h) = Coming((h + 23) % 24) + 1
=============================================================================
