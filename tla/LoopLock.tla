------------------------------ MODULE LoopLock ------------------------------
(***************************************************************************)
(* The cross-process lock of the loop directory: withLock in               *)
(* src/core/loop.js.  The lock is the directory .lazyzcode/loop/.lock;      *)
(* creating it with mkdir is atomic, owner.json inside it carries the       *)
(* holder's token, and a waiter removes a lock whose mtime is older than    *)
(* LOCK_STALE_MS.  The critical section modelled is the one the lock is     *)
(* for: read goal.json, then write back the copy with one change added.     *)
(*                                                                         *)
(* Time is not counted.  A lock "turns stale" by a step of its own (Age),   *)
(* enabled once the process that last wrote to the lock is no longer in     *)
(* its section: LOCK_STALE_MS is chosen above the length of every section   *)
(* (loop.js:241-242), so only the lock of a killed process gets that old.   *)
(***************************************************************************)
EXTENDS Naturals

CONSTANTS
  Procs,          \* the lzy processes that contend for the lock
  MaxCommands,    \* bound: commands each process runs
  MaxCrashes,     \* bound: processes killed between two steps
  NoLock          \* no lock directory; no owner.json in it

ASSUME ProcsAssumption == Procs # {}
ASSUME LockBounds == MaxCommands \in Nat /\ MaxCrashes \in Nat

VARIABLES
  lock,     \* the lock directory, or NoLock
  at,       \* where each process stands in withLock
  runs,     \* commands each process has started (its token is <<p, runs[p]>>)
  copy,     \* the goal each process read inside its section
  goalFile, \* goal.json: the set of changes it contains
  done,     \* the changes whose write returned to the caller
  crashes   \* processes killed so far

lockVars == <<lock, at, runs, copy, goalFile, done, crashes>>

Tokens == Procs \X (0..MaxCommands)
LockDirs == [by : Procs, owner : Tokens \cup {NoLock}, stale : BOOLEAN]

ASSUME NoLockAssumption == NoLock \notin LockDirs /\ NoLock \notin Tokens

Waiting == {"try", "steal"}
Section == {"own", "read", "write", "check", "remove"}
LockStages == {"idle", "dead"} \cup Waiting \cup Section

(* Mutant: the token does not tell two runs of a process apart. *)
Token_perProcess(p) == p

Token(p) == <<p, runs[p]>>

LockInit ==
  /\ lock = NoLock
  /\ at = [p \in Procs |-> "idle"]
  /\ runs = [p \in Procs |-> 0]
  /\ copy = [p \in Procs |-> {}]
  /\ goalFile = {}
  /\ done = {}
  /\ crashes = 0

LockGoto(p, stage) == at' = [at EXCEPT ![p] = stage]

(* A command enters withLock. *)
Start(p) ==
  /\ at[p] = "idle"
  /\ runs[p] < MaxCommands
  /\ runs' = [runs EXCEPT ![p] = @ + 1]
  /\ LockGoto(p, "try")
  /\ UNCHANGED <<lock, copy, goalFile, done, crashes>>

(* Mutant: mkdir with recursive, for which an existing directory is no error. *)
MkdirWins_recursive == TRUE

MkdirWins == lock = NoLock

MkdirLock(p) ==
  /\ at[p] = "try"
  /\ MkdirWins
  /\ lock' = [by |-> p, owner |-> NoLock, stale |-> FALSE]
  /\ LockGoto(p, "own")
  /\ UNCHANGED <<runs, copy, goalFile, done, crashes>>

(* Mutant: the age is read from owner.json alone, so the lock of a process  *)
(* killed before it wrote that file never counts as old.                    *)
Stealable_ownerOnly == lock # NoLock /\ lock.stale /\ lock.owner # NoLock

(* EEXIST, and the age of owner.json, or of the directory when there is no  *)
(* owner.json, is past LOCK_STALE_MS.                                       *)
Stealable == lock # NoLock /\ lock.stale

SeeStale(p) ==
  /\ at[p] = "try"
  /\ Stealable
  /\ LockGoto(p, "steal")
  /\ UNCHANGED <<lock, runs, copy, goalFile, done, crashes>>

(* rmSync of whatever is at the path now, then back to mkdir. *)
RemoveStale(p) ==
  /\ at[p] = "steal"
  /\ lock' = NoLock
  /\ LockGoto(p, "try")
  /\ UNCHANGED <<runs, copy, goalFile, done, crashes>>

(* EEXIST, not stale, deadline passed: the command fails. *)
GiveUp(p) ==
  /\ at[p] = "try"
  /\ lock # NoLock
  /\ ~Stealable
  /\ LockGoto(p, "idle")
  /\ UNCHANGED <<lock, runs, copy, goalFile, done, crashes>>

(* writeFileSync(owner.json): it overwrites what is there, and throws       *)
(* ENOENT, skipping the section, when the directory is gone.                *)
WriteOwner(p) ==
  /\ at[p] = "own"
  /\ IF lock = NoLock
     THEN LockGoto(p, "check") /\ UNCHANGED lock
     ELSE /\ lock' = [by |-> p, owner |-> Token(p), stale |-> FALSE]
          /\ LockGoto(p, "read")
  /\ UNCHANGED <<runs, copy, goalFile, done, crashes>>

(* Mutant: the goal was read before the lock was taken. *)
GoalRead_early(p) == copy[p]

GoalRead(p) == goalFile

ReadGoal(p) ==
  /\ at[p] = "read"
  /\ copy' = [copy EXCEPT ![p] = GoalRead(p)]
  /\ LockGoto(p, "write")
  /\ UNCHANGED <<lock, runs, goalFile, done, crashes>>

WriteGoal(p) ==
  /\ at[p] = "write"
  /\ goalFile' = copy[p] \cup {Token(p)}
  /\ done' = done \cup {Token(p)}
  /\ LockGoto(p, "check")
  /\ UNCHANGED <<lock, runs, copy, crashes>>

(* finally: read owner.json; another token, or none to read, keeps the lock. *)
CheckOwner(p) ==
  /\ at[p] = "check"
  /\ IF lock # NoLock /\ lock.owner = Token(p)
     THEN LockGoto(p, "remove")
     ELSE LockGoto(p, "idle")
  /\ UNCHANGED <<lock, runs, copy, goalFile, done, crashes>>

RemoveOwn(p) ==
  /\ at[p] = "remove"
  /\ lock' = NoLock
  /\ LockGoto(p, "idle")
  /\ UNCHANGED <<runs, copy, goalFile, done, crashes>>

(* The process is killed; nothing of its cleanup runs. *)
Crash(p) ==
  /\ at[p] \in Waiting \cup Section
  /\ crashes < MaxCrashes
  /\ crashes' = crashes + 1
  /\ LockGoto(p, "dead")
  /\ UNCHANGED <<lock, runs, copy, goalFile, done>>

(* LOCK_STALE_MS pass since the last write to the lock. *)
Age ==
  /\ lock # NoLock
  /\ ~lock.stale
  /\ at[lock.by] \notin Section
  /\ lock' = [lock EXCEPT !.stale = TRUE]
  /\ UNCHANGED <<at, runs, copy, goalFile, done, crashes>>

Step(p) ==
  \/ MkdirLock(p) \/ SeeStale(p) \/ RemoveStale(p) \/ GiveUp(p)
  \/ WriteOwner(p) \/ ReadGoal(p) \/ WriteGoal(p)
  \/ CheckOwner(p) \/ RemoveOwn(p)

LockNext ==
  \/ \E p \in Procs : Start(p) \/ Step(p) \/ Crash(p)
  \/ Age

LockSpec == LockInit /\ [][LockNext]_lockVars

(* A command that runs keeps running, and the clock advances. *)
Fairness == WF_lockVars(Age) /\ \A p \in Procs : WF_lockVars(Step(p))
FairLockSpec == LockSpec /\ Fairness

-----------------------------------------------------------------------------
(* The state components keep their shapes. *)
LockTypeOK ==
  /\ lock \in LockDirs \cup {NoLock}
  /\ at \in [Procs -> LockStages]
  /\ runs \in [Procs -> 0..MaxCommands]
  /\ copy \in [Procs -> SUBSET Tokens]
  /\ goalFile \in SUBSET Tokens
  /\ done \in SUBSET Tokens
  /\ crashes \in 0..MaxCrashes

InSection(p) == at[p] \in {"read", "write"}

(* At most one process is between its read of goal.json and the write that *)
(* follows it (the mutual exclusion withLock is written for).              *)
MutualExclusion ==
  \A p, q \in Procs : InSection(p) /\ InSection(q) => p = q

(* No change whose command returned is missing from goal.json: a later     *)
(* write never overwrites an earlier one (loop.js:240).                *)
NoLostUpdate == done \subseteq goalFile

(* A lock left behind by a killed process is taken down once a command      *)
(* that waits for it lives on: it never blocks the loop for good.           *)
Orphan == lock # NoLock /\ lock.stale
OrphanReclaimed ==
  \A p \in Procs :
    (Orphan /\ at[p] = "try") ~> (lock = NoLock \/ ~lock.stale \/ at[p] = "dead")
=============================================================================
