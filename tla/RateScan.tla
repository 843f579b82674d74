----------------------------- MODULE RateScan -----------------------------
(***************************************************************************)
(* The scan of the engine's logs for rate limits (src/core/ratelimit.js):   *)
(* collectRateLimitStats reads log lines one by one and files each under    *)
(* one family - begun, completed, rate limited, content kill, transport     *)
(* death - and draws from the count what the advice on parallel work says.  *)
(*                                                                         *)
(* The files are read newest first, a large one from its tail, until the    *)
(* time is up, while the engine appends to the newest: any sequence of the  *)
(* lines may be read, in any order of time.  A minute is a bucket, and      *)
(* PerHour of them make an hour.  Lines without a usable timestamp or       *)
(* session, which the code passes over, are left out.                       *)
(***************************************************************************)
EXTENDS Integers, Sequences, FiniteSets, FiniteSetsExt, SequencesExt

CONSTANTS
  Sessions, Turns, Providers,
  Minutes,      \* bound: the minutes lines are stamped with
  Log,          \* bound: the lines that may be read
  PerHour,      \* minutes of an hour
  Day,          \* hours of a day
  Share, ShareTurns, ShareStarted,  \* CONC_SHARE_MIN in percent, _TURNS_MIN, _STARTED_MIN
  Sample,       \* buckets a band needs on both sides
  MaxLines,     \* bound: lines read
  NoTurn

(* An engine that is rate limited writes several lines with that reason,    *)
(* one of them the failed request itself; a line the scan reads while it is *)
(* written does not parse.                                                  *)
Keyed == [at : Minutes, sid : Sessions, turn : Turns \cup {NoTurn}, attempt : {1, 2}]
Lines ==
  [kind : {"started", "kill"}, at : Minutes, sid : Sessions]
  \cup [kind : {"completed"}, at : Minutes, sid : Sessions, pid : Providers]
  \cup [kind : {"limited"}, failed : BOOLEAN, pid : Providers, line : Keyed]
  \cup [kind : {"transport"}, line : Keyed]
  \cup [kind : {"other", "half"}]

ASSUME ScanAssumption ==
  /\ Minutes \subseteq Nat /\ IsFiniteSet(Minutes) /\ Minutes # {}
  /\ PerHour \in Nat \ {0} /\ Day \in Nat \ {0, 1, 2}
  /\ {Share, ShareTurns, ShareStarted, Sample, MaxLines} \subseteq Nat
  /\ NoTurn \notin Turns
  /\ Log \subseteq Lines

VARIABLES
  read,    \* history: the lines read, in the order they were read
  tally,   \* what the scan has counted
  report   \* the statistics drawn at the end: one record, or none yet

scanVars == <<read, tally, report>>

Hours == 0..(Day - 1)
HourOf(m) == (m \div PerHour) % Day
Keys == Sessions \X Turns
NoTime == -1

(* first, last: of the lines noteTs sees, which are the begun and the       *)
(* limited ones.                                                            *)
Nothing ==
  [first |-> NoTime, last |-> NoTime,
   active |-> [m \in Minutes |-> {}], begun |-> [h \in Hours |-> 0],
   limited |-> 0, failed |-> 0, fatal |-> 0, lastAt |-> NoTime, dirty |-> {},
   keyed |-> 0, seen |-> [k \in Keys |-> NoTime], tries |-> [h \in Hours |-> 0],
   done |-> [p \in Providers |-> [m \in Minutes |-> {}]],
   hit |-> [p \in Providers |-> {}],
   deaths |-> 0, deathKeyed |-> 0, deathSeen |-> [k \in Keys |-> NoTime],
   deathTries |-> 0, kills |-> 0, lastKill |-> NoTime, killed |-> {}]

ScanInit ==
  /\ read = <<>>
  /\ tally = Nothing
  /\ report = {}

-----------------------------------------------------------------------------
(* One line *)

HasKey(l) == l.turn # NoTurn
KeyOf(l) == <<l.sid, l.turn>>
Earlier(a, b) == IF a = NoTime \/ b < a THEN b ELSE a
Later(a, b) == IF b > a THEN b ELSE a
Add(cond) == IF cond THEN 1 ELSE 0

(* Mutant: the first time a turn is read is kept, though the newest file    *)
(* is read first.                                                           *)
Noted_first(seen, l) ==
  IF HasKey(l) /\ seen[KeyOf(l)] = NoTime THEN [seen EXCEPT ![KeyOf(l)] = l.at] ELSE seen

(* turnSeen, tSeen: the earliest time of each turn, whichever file is read  *)
(* first.                                                                   *)
Noted(seen, l) ==
  IF HasKey(l) THEN [seen EXCEPT ![KeyOf(l)] = Earlier(@, l.at)] ELSE seen

Started(t, l) ==
  [t EXCEPT !.active[l.at] = @ \cup {l.sid}, !.begun[HourOf(l.at)] = @ + 1,
            !.first = Earlier(@, l.at), !.last = Later(@, l.at)]

(* maxAttempts is 2: the second attempt that is limited is the last. *)
Limited(t, failed, pid, l) ==
  [t EXCEPT !.first = Earlier(@, l.at), !.last = Later(@, l.at),
            !.limited = @ + 1,
            !.failed = @ + Add(failed),
            !.hit[pid] = @ \cup {l.at},
            !.fatal = @ + Add(l.attempt = 2),
            !.lastAt = Later(@, l.at),
            !.dirty = @ \cup {l.at},
            !.keyed = @ + Add(HasKey(l)),
            !.seen = Noted(@, l),
            !.tries[HourOf(l.at)] = @ + Add(l.attempt = 1)]

Completed(t, l) == [t EXCEPT !.done[l.pid][l.at] = @ \cup {l.sid}]

(* The session of the last line read, the time of the latest. *)
Killed(t, l) ==
  [t EXCEPT !.kills = @ + 1, !.lastKill = Later(@, l.at), !.killed = {l.sid}]

Death(t, l) ==
  [t EXCEPT !.deaths = @ + 1,
            !.deathKeyed = @ + Add(HasKey(l)),
            !.deathSeen = Noted(@, l),
            !.deathTries = @ + Add(l.attempt = 1)]

(* The families of a line, in the order they are tried; each ends the line. *)
Filed(t, l) ==
  CASE l.kind = "started"   -> Started(t, l)
    [] l.kind = "limited"   -> Limited(t, l.failed, l.pid, l.line)
    [] l.kind = "completed" -> Completed(t, l)
    [] l.kind = "kill"      -> Killed(t, l)
    [] l.kind = "transport" -> Death(t, l.line)
    [] OTHER                -> t

ReadLine ==
  /\ report = {} /\ Len(read) < MaxLines
  /\ \E l \in Log :
       /\ read' = Append(read, l)
       /\ tally' = Filed(tally, l)
  /\ UNCHANGED report

-----------------------------------------------------------------------------
(* What is drawn from the count *)

(* Turns count once when nine lines in ten have a key; otherwise first      *)
(* attempts are counted.                                                    *)
ByTurn(all, keyed) == all > 0 /\ 10 * keyed >= 9 * all
SeenTurns(seen) == {k \in Keys : seen[k] # NoTime}

TurnsOf(t) ==
  IF ByTurn(t.limited, t.keyed) THEN Cardinality(SeenTurns(t.seen)) ELSE SumFunction(t.tries)
DeathsOf(t) ==
  IF ByTurn(t.deaths, t.deathKeyed) THEN Cardinality(SeenTurns(t.deathSeen)) ELSE t.deathTries

(* At least minDirty sessions were active in a minute that was hit, at most *)
(* maxClean in one that was not.                                            *)
Band(active, dirty) ==
  LET known == {m \in dirty : active[m] # {}}
      clean == {m \in Minutes \ dirty : active[m] # {}}
      least == IF known = {} THEN 0 ELSE Min({Cardinality(active[m]) : m \in known})
      most  == Max({0} \cup {Cardinality(active[m]) : m \in clean})
  IN [minDirty |-> least, maxClean |-> most,
      coherent |-> /\ Cardinality(known) >= Sample
                   /\ Cardinality(clean) >= Sample
                   /\ least > most]

ProvidersSeen(t) == {p \in Providers : t.hit[p] # {} \/ \E m \in Minutes : t.done[p][m] # {}}
ProviderBands(t) ==
  [p \in IF Cardinality(ProvidersSeen(t)) < 2 THEN {} ELSE ProvidersSeen(t)
     |-> Band(t.done[p], t.hit[p])]

(* The longest run of minutes that were hit, over the minutes in order. *)
RunOn(acc, m) ==
  LET run == IF m = acc.last + 1 THEN acc.run + 1 ELSE 1
  IN [run |-> run, last |-> m, best |-> Later(acc.best, run)]
LongestRun(dirty) ==
  FoldLeft(RunOn, [run |-> 0, last |-> NoTime, best |-> 0],
           SetToSortSeq(dirty, LAMBDA x, y : x < y)).best

HourTurns(t) ==
  IF ByTurn(t.limited, t.keyed)
  THEN [h \in Hours |-> Cardinality({k \in SeenTurns(t.seen) : HourOf(t.seen[k]) = h})]
  ELSE t.tries

(* Three hours of the day, round midnight, that hold most of the turns: the *)
(* first of the fullest, by its first hour.                                 *)
Ring(f, h) == f[h] + f[(h + 1) % Day] + f[(h + 2) % Day]
Concentration(t) ==
  LET turns == HourTurns(t)
      held == {h \in Hours : /\ 100 * Ring(turns, h) >= Share * TurnsOf(t)
                             /\ Ring(turns, h) >= ShareTurns
                             /\ Ring(t.begun, h) >= ShareStarted}
      most == {h \in held : \A k \in held : Ring(turns, k) <= Ring(turns, h)}
  IN IF TurnsOf(t) = 0 \/ held = {} THEN {} ELSE {Min(most)}

Report(t) ==
  [turns |-> TurnsOf(t), deaths |-> DeathsOf(t), band |-> Band(t.active, t.dirty),
   bands |-> ProviderBands(t), run |-> LongestRun(t.dirty), held |-> Concentration(t)]

EndOfScan ==
  /\ report = {}
  /\ report' = {Report(tally)}
  /\ UNCHANGED <<read, tally>>

ScanNext == ReadLine \/ EndOfScan
ScanSpec == ScanInit /\ [][ScanNext]_scanVars

-----------------------------------------------------------------------------
(* Properties *)

Of(kind) == {i \in DOMAIN read : read[i].kind = kind}
Hits == {read[i].line : i \in Of("limited")}
HitTimes == {l.at : l \in Hits}
Working(m) == {read[i].sid : i \in {k \in Of("started") : read[k].at = m}}
Turn(key) == {l \in Hits : HasKey(l) /\ KeyOf(l) = key}

(* A turn counts once, at its earliest line, in whatever order the files    *)
(* were read.                                                               *)
TurnsCountOnce(r) ==
  LET lines == Of("limited")
      keyed == {i \in lines : HasKey(read[i].line)}
      first == {i \in lines : read[i].line.attempt = 1}
      hit == {key \in Keys : Turn(key) # {}}
  IN /\ r.turns = IF ByTurn(Cardinality(lines), Cardinality(keyed))
                  THEN Cardinality(hit) ELSE Cardinality(first)
     /\ \A key \in hit : tally.seen[key] = Min({l.at : l \in Turn(key)})

(* A coherent band separates: every minute that was hit and whose load is   *)
(* known had more sessions than any minute that was not.                    *)
BandSeparates(r) ==
  r.band.coherent =>
    \A m \in HitTimes, n \in Minutes \ HitTimes :
      Working(m) # {} => Cardinality(Working(m)) > Cardinality(Working(n))

(* The longest run is one of the log, and no longer one is.                 *)
RunIsInTheLog(r) ==
  LET InRow(n) == \E m \in Minutes : \A k \in 0..(n - 1) : m + k \in HitTimes
  IN InRow(r.run) /\ ~InRow(r.run + 1)

(* What the scan says of rate limits is drawn from the begun and the rate-  *)
(* limited requests of the log alone, whatever else was in it and in        *)
(* whatever order it was read (collectRateLimitStats).                      *)
MeasuredApart ==
  \A r \in report : TurnsCountOnce(r) /\ BandSeparates(r) /\ RunIsInTheLog(r)

(* lastSessionId is "the session that died most recently"                   *)
(* (src/core/ratelimit.js:115): the one whose content was killed at the     *)
(* time shown beside it.                                                    *)
KilledIsTheLatest ==
  \A s \in tally.killed :
    \E i \in Of("kill") : read[i].sid = s /\ read[i].at = tally.lastKill
=============================================================================
