------------------------- MODULE LoopGuards_proof -------------------------
(***************************************************************************)
(* Four parts that guard the loop, one after the other.                    *)
(*                                                                         *)
(* The lock (LoopLock).  For any number of processes and commands: as long  *)
(* as none of them is killed inside withLock no lock turns stale, so there  *)
(* is one process at most in the section, and no change of goal.json is     *)
(* lost.  A process past mkdir is the one the lock names, and what it read  *)
(* is still the goal (LockInv).                                             *)
(*                                                                         *)
(* The lease (RuntimeLease).  For any number of runs, goals and writes: as  *)
(* long as runtime.json is not deleted by hand, fences are issued once,     *)
(* only the run that took its lease last gets writes through and writes     *)
(* only to the goal it was started for, and a run that was taken over       *)
(* charges its successor's budget once at most, which bounds how far a      *)
(* budget is overrun.  The counter never falls below a fence that was       *)
(* issued (Issued), the lease in the ledger is the newest one               *)
(* (LeaseNewest), and a run which finds the budget opened by another has a  *)
(* fence below the counter, so its next heartbeat fails (Overtaken).  On    *)
(* these rest Charged, for the budget, and LeaseBound, for the goal.        *)
(*                                                                         *)
(* The gate (Gate).  For any files, scopes and candidates: a goal that is   *)
(* finished was reviewed, checked and obliged as its gate says, of the tree *)
(* it is finished on.  What is judged of a review is judged of commits,     *)
(* which do not change (ReviewsOk, ScopingOk); a receipt that reuses a run  *)
(* repeats it on the same inputs (ReceiptsOk); and a policy record keeps    *)
(* what it did not cancel in time (PolicyOk).                               *)
(*                                                                         *)
(* The call of the engine (Headless).  Whatever ends a call struck its      *)
(* process group before (StruckFirst), and a group that was struck is gone  *)
(* unless that was denied (Cleaned), which the result then says             *)
(* (DenialIsSaid).                                                          *)
(***************************************************************************)
EXTENDS LoopLock, Headless, RuntimeLease, Gate, FiniteSetTheorems, SequenceTheorems, TLAPS

Held(p) == at[p] \in {"read", "write", "check", "remove"}

NobodyDied == \A p \in Procs : at[p] \notin {"steal", "dead"}

LockMatches ==
  /\ lock # NoLock => ~lock.stale /\ at[lock.by] \in Section
  /\ \A p \in Procs : at[p] \in Section => lock # NoLock /\ lock.by = p
  /\ \A p \in Procs : Held(p) => lock.owner = Token(p)

CopyFresh == \A p \in Procs : at[p] = "write" => copy[p] = goalFile

LockInv == LockTypeOK /\ NobodyDied /\ LockMatches /\ CopyFresh /\ NoLostUpdate

(* The state components keep their shapes, crashes or not. *)
THEOREM LockTypeCorrect == LockSpec => []LockTypeOK
<1> USE ProcsAssumption, LockBounds, NoLockAssumption
<1>1. LockInit => LockTypeOK
  BY DEF LockInit, LockTypeOK, LockStages
<1>2. LockTypeOK /\ [LockNext]_lockVars => LockTypeOK'
  <2> SUFFICES ASSUME LockTypeOK, [LockNext]_lockVars
               PROVE  LockTypeOK'
    OBVIOUS
  <2> USE DEF LockTypeOK, LockStages, Waiting, Section, LockGoto
  <2>1. ASSUME NEW p \in Procs, Start(p)
        PROVE  LockTypeOK'
    BY <2>1 DEF Start
  <2>2. ASSUME NEW p \in Procs, MkdirLock(p)
        PROVE  LockTypeOK'
    BY <2>2 DEF MkdirLock, MkdirWins, LockDirs
  <2>3. ASSUME NEW p \in Procs, SeeStale(p)
        PROVE  LockTypeOK'
    BY <2>3 DEF SeeStale
  <2>4. ASSUME NEW p \in Procs, RemoveStale(p)
        PROVE  LockTypeOK'
    BY <2>4 DEF RemoveStale
  <2>5. ASSUME NEW p \in Procs, GiveUp(p)
        PROVE  LockTypeOK'
    BY <2>5 DEF GiveUp
  <2>6. ASSUME NEW p \in Procs, WriteOwner(p)
        PROVE  LockTypeOK'
    <3>1. Token(p) \in Tokens
      BY DEF Token, Tokens
    <3>2. [by |-> p, owner |-> Token(p), stale |-> FALSE] \in LockDirs
      BY <3>1 DEF LockDirs
    <3>3. lock' \in LockDirs \cup {NoLock}
      BY <2>6, <3>2 DEF WriteOwner
    <3> QED
      BY <2>6, <3>3 DEF WriteOwner
  <2>7. ASSUME NEW p \in Procs, ReadGoal(p)
        PROVE  LockTypeOK'
    BY <2>7 DEF ReadGoal, GoalRead
  <2>8. ASSUME NEW p \in Procs, WriteGoal(p)
        PROVE  LockTypeOK'
    BY <2>8 DEF WriteGoal, Token, Tokens
  <2>9. ASSUME NEW p \in Procs, CheckOwner(p)
        PROVE  LockTypeOK'
    BY <2>9 DEF CheckOwner
  <2>10. ASSUME NEW p \in Procs, RemoveOwn(p)
         PROVE  LockTypeOK'
    BY <2>10 DEF RemoveOwn
  <2>11. ASSUME NEW p \in Procs, Crash(p)
         PROVE  LockTypeOK'
    BY <2>11 DEF Crash
  <2>12. CASE Age
    BY <2>12 DEF Age, LockDirs
  <2>13. CASE UNCHANGED lockVars
    BY <2>13 DEF lockVars
  <2> QED
    BY <2>1, <2>2, <2>3, <2>4, <2>5, <2>6, <2>7, <2>8, <2>9, <2>10, <2>11,
       <2>12, <2>13 DEF LockNext, Step
<1> QED
  BY <1>1, <1>2, PTL DEF LockSpec

(* With no process killed, IInv is inductive. *)
THEOREM LockInductive == MaxCrashes = 0 => (LockSpec => []LockInv)
<1> SUFFICES ASSUME MaxCrashes = 0
             PROVE  LockSpec => []LockInv
  OBVIOUS
<1> USE ProcsAssumption, LockBounds, NoLockAssumption
<1>1. LockInit => LockInv
  BY DEF LockInit, LockInv, LockTypeOK, LockStages, NobodyDied, LockMatches, CopyFresh,
         NoLostUpdate, Held, Section
<1>2. LockInv /\ LockTypeOK' /\ [LockNext]_lockVars => LockInv'
  <2> SUFFICES ASSUME LockInv, LockTypeOK', [LockNext]_lockVars
               PROVE  LockInv'
    OBVIOUS
  <2> USE DEF LockInv, NobodyDied, LockMatches, CopyFresh, NoLostUpdate, Held,
              Waiting, Section, LockGoto, Token
  <2>0. at \in [Procs -> LockStages] /\ lock \in LockDirs \cup {NoLock}
        /\ runs \in [Procs -> 0..MaxCommands] /\ crashes = 0
        /\ copy \in [Procs -> SUBSET Tokens]
    BY DEF LockTypeOK
  <2>1. ASSUME NEW p \in Procs, Start(p)
        PROVE  LockInv'
    BY <2>0, <2>1 DEF Start, LockDirs
  <2>2. ASSUME NEW p \in Procs, MkdirLock(p)
        PROVE  LockInv'
    <3>1. lock' # NoLock /\ ~lock'.stale /\ lock'.by = p
      BY <2>2, [by |-> p, owner |-> NoLock, stale |-> FALSE] \in LockDirs
      DEF MkdirLock, MkdirWins, LockDirs
    <3>2. at' = [at EXCEPT ![p] = "own"] /\ UNCHANGED <<runs, copy, goalFile, done>>
      BY <2>2 DEF MkdirLock
    <3>3. \A q \in Procs : at[q] \notin Section
      BY <2>2 DEF MkdirLock, MkdirWins
    <3> QED
      BY <2>0, <3>1, <3>2, <3>3
  <2>3. ASSUME NEW p \in Procs, SeeStale(p)
        PROVE  LockInv'
    BY <2>0, <2>3 DEF SeeStale, Stealable
  <2>4. ASSUME NEW p \in Procs, RemoveStale(p)
        PROVE  LockInv'
    BY <2>0, <2>4 DEF RemoveStale
  <2>5. ASSUME NEW p \in Procs, GiveUp(p)
        PROVE  LockInv'
    BY <2>0, <2>5 DEF GiveUp, LockDirs
  <2>6. ASSUME NEW p \in Procs, WriteOwner(p)
        PROVE  LockInv'
    <3>1. Token(p) \in Tokens
      BY <2>0 DEF Tokens
    <3>2. lock' # NoLock /\ ~lock'.stale /\ lock'.by = p /\ lock'.owner = Token(p)
      <4>1. [by |-> p, owner |-> Token(p), stale |-> FALSE] \in LockDirs
        BY <3>1 DEF LockDirs
      <4>2. lock' = [by |-> p, owner |-> Token(p), stale |-> FALSE]
        BY <2>6 DEF WriteOwner
      <4> QED
        BY <4>1, <4>2
    <3>3. at' = [at EXCEPT ![p] = "read"] /\ UNCHANGED <<runs, copy, goalFile, done>>
      BY <2>6 DEF WriteOwner
    <3>4. \A q \in Procs : q # p => at[q] \notin Section
      BY <2>6 DEF WriteOwner
    <3> QED
      BY <2>0, <3>2, <3>3, <3>4
  <2>7. ASSUME NEW p \in Procs, ReadGoal(p)
        PROVE  LockInv'
    BY <2>0, <2>7 DEF ReadGoal, GoalRead, LockDirs
  <2>8. ASSUME NEW p \in Procs, WriteGoal(p)
        PROVE  LockInv'
    BY <2>0, <2>8 DEF WriteGoal, LockDirs
  <2>9. ASSUME NEW p \in Procs, CheckOwner(p)
        PROVE  LockInv'
    BY <2>0, <2>9 DEF CheckOwner, LockDirs
  <2>10. ASSUME NEW p \in Procs, RemoveOwn(p)
         PROVE  LockInv'
    BY <2>0, <2>10 DEF RemoveOwn
  <2>11. ASSUME NEW p \in Procs, Crash(p)
         PROVE  LockInv'
    BY <2>0, <2>11 DEF Crash
  <2>12. CASE Age
    BY <2>0, <2>12 DEF Age, LockDirs
  <2>13. CASE UNCHANGED lockVars
    BY <2>13 DEF lockVars
  <2> QED
    BY <2>1, <2>2, <2>3, <2>4, <2>5, <2>6, <2>7, <2>8, <2>9, <2>10, <2>11,
       <2>12, <2>13 DEF LockNext, Step
<1> QED
  BY <1>1, <1>2, LockTypeCorrect, PTL DEF LockSpec

(* One process at a time between the read and the write of goal.json, and   *)
(* no change lost, whatever the number of processes and commands, as long   *)
(* as nobody is killed in withLock.                                         *)
THEOREM ExclusiveWithoutCrash ==
  MaxCrashes = 0 => (LockSpec => [](MutualExclusion /\ NoLostUpdate))
<1> SUFFICES ASSUME MaxCrashes = 0
             PROVE  LockSpec => [](MutualExclusion /\ NoLostUpdate)
  OBVIOUS
<1>1. LockInv => MutualExclusion /\ NoLostUpdate
  BY DEF LockInv, LockMatches, MutualExclusion, InSection, Section
<1> QED
  BY <1>1, LockInductive, PTL

-----------------------------------------------------------------------------
(* The lease. *)

Issued ==
  /\ \A r \in Runs : fence[r] <= Loaded.counter
  /\ \A r, s \in Runs : fence[r] # 0 /\ fence[r] = fence[s] => r = s
  /\ \A r \in Runs : fence[r] # 0 /\ fence[r] = Loaded.counter => turn[r] = acquired

LeaseNewest == Loaded.lease # None => Loaded.lease.fence = Loaded.counter

Overtaken ==
  \A r \in Runs :
    /\ pc[r] \in {"idle", "starting"} => stray[r] = 0 /\ fence[r] = 0
    /\ pc[r] \in {"gate", "segment"} /\ opener # r => fence[r] < Loaded.counter
    /\ pc[r] \in {"gate", "segment"} /\ stray[r] > 0 =>
         pc[r] = "gate" /\ fence[r] < Loaded.counter
    /\ stray[r] <= 1

IInv == TypeOK /\ (deletes = 0 => Issued /\ LeaseNewest /\ Overtaken)

-----------------------------------------------------------------------------
(* What an absent ledger reads as has the shape of a ledger. *)
LEMMA LoadedType ==
  ASSUME TypeOK
  PROVE  Loaded \in Ledgers /\ (ledger # None => ledger \in Ledgers /\ Loaded = ledger)
<1>1. FreshState \in Ledgers
  BY DEF FreshState, Ledgers
<1> QED
  BY <1>1 DEF Loaded, TypeOK

(* acquireLease always issues a fence above the counter. *)
LEMMA NextFenceUp ==
  ASSUME TypeOK
  PROVE  NextFence \in Nat /\ NextFence > Loaded.counter /\ NextFence # 0
<1>1. Loaded.counter \in Nat
  BY LoadedType DEF Ledgers
<1> QED
  BY <1>1, BoundsAssumption DEF NextFence

(* An active lease lies in a ledger that exists. *)
LEMMA ActiveLease ==
  ASSUME TypeOK, LeaseActive(Loaded.lease)
  PROVE  ledger \in Ledgers /\ Loaded = ledger /\ ledger # None /\ ledger.lease \in Leases
<1>1. Loaded.lease # None
  BY DEF LeaseActive
<1>2. ledger # None
  BY <1>1 DEF Loaded, FreshState
<1> QED
  BY <1>1, <1>2, LoadedType DEF Ledgers

(* The ledger acquireLease writes. *)
LEMMA AcquiredLedger ==
  ASSUME TypeOK, NEW r \in Runs, NEW slug \in Slugs \cup {None},
         NEW spent \in Nat \cup {-1}, Acquire(r, slug, spent)
  PROVE  /\ ledger' \in Ledgers /\ ledger' # None
         /\ Loaded'.counter = NextFence
         /\ Loaded'.lease.fence = NextFence
<1> DEFINE lease == [fence |-> NextFence, slug |-> slug, host |-> r, expired |-> FALSE]
           new == [counter |-> NextFence, lease |-> lease, spent |-> spent]
<1>1. lease \in Leases
  BY NextFenceUp DEF Leases
<1>2. new \in Ledgers
  BY <1>1, NextFenceUp DEF Ledgers
<1>3. ledger' = new
  BY DEF Acquire
<1>4. new # None
  BY <1>2, NoneAssumption
<1>5. Loaded' = new
  BY <1>3, <1>4 DEF Loaded
<1> QED
  BY <1>2, <1>3, <1>4, <1>5

-----------------------------------------------------------------------------
(* The state components keep their shapes, whoever deletes what. *)
THEOREM TypeCorrect == Spec => []TypeOK
<1>1. Init => TypeOK
  BY BoundsAssumption DEF Init, TypeOK, Stages
<1>2. TypeOK /\ [Next]_vars => TypeOK'
  <2> SUFFICES ASSUME TypeOK, [Next]_vars
               PROVE  TypeOK'
    OBVIOUS
  <2> USE BoundsAssumption
  <2>1. ASSUME NEW r \in Runs, StartDrive(r)
        PROVE  TypeOK'
    BY <2>1 DEF StartDrive, TypeOK, Goto, Stages
  <2>2. ASSUME NEW r \in Runs, AcquireDrive(r)
        PROVE  TypeOK'
    <3>1. bound[r] \in Slugs \cup {None} /\ OpenedBudget \in Nat \cup {-1}
      BY DEF TypeOK, OpenedBudget
    <3>2. ledger' \in Ledgers
      BY <2>2, <3>1, AcquiredLedger DEF AcquireDrive
    <3> QED
      BY <2>2, <3>2, NextFenceUp DEF AcquireDrive, Acquire, TypeOK, Goto, Stages
  <2>3. ASSUME NEW r \in Runs, RefuseDrive(r)
        PROVE  TypeOK'
    BY <2>3 DEF RefuseDrive, TypeOK, Goto, Stages
  <2>4. ASSUME NEW r \in Runs, AcquireManual(r)
        PROVE  TypeOK'
    <3>1. None \in Slugs \cup {None} /\ Loaded.spent \in Nat \cup {-1}
      BY LoadedType DEF Ledgers
    <3>2. ledger' \in Ledgers
      BY <2>4, <3>1, AcquiredLedger DEF AcquireManual
    <3> QED
      BY <2>4, <3>2, NextFenceUp DEF AcquireManual, Acquire, TypeOK, Goto, Stages
  <2>5. ASSUME NEW r \in Runs, Kill(r)
        PROVE  TypeOK'
    BY <2>5 DEF Kill, TypeOK, Goto, Stages
  <2>6. ASSUME NEW r \in Runs, Heartbeat(r)
        PROVE  TypeOK'
    BY <2>6 DEF Heartbeat, TypeOK, Goto, Stages
  <2>7. ASSUME NEW r \in Runs, WindDown(r)
        PROVE  TypeOK'
    BY <2>7 DEF WindDown, TypeOK, Goto, Stages
  <2>8. ASSUME NEW r \in Runs, Release(r)
        PROVE  TypeOK'
    <3>1. ledger' \in Ledgers \cup {None}
      <4>1. CASE LeaseHeld(r)
        <5>1. ledger \in Ledgers
          BY <4>1, ActiveLease DEF LeaseHeld
        <5> QED
          BY <2>8, <4>1, <5>1 DEF Release, Ledgers
      <4>2. CASE ~LeaseHeld(r)
        BY <2>8, <4>2 DEF Release, TypeOK
      <4> QED
        BY <4>1, <4>2
    <3> QED
      BY <2>8, <3>1 DEF Release, TypeOK, Goto, Stages
  <2>9. ASSUME NEW r \in Runs, NEW n \in 1..MaxSpend, Spend(r, n)
        PROVE  TypeOK'
    <3>1. CASE Loaded.spent = -1
      BY <2>9, <3>1 DEF Spend, TypeOK, Goto, Stages
    <3>2. CASE Loaded.spent # -1
      <4>1. ledger \in Ledgers
        BY <3>2, LoadedType DEF Loaded, FreshState
      <4>2. Loaded = ledger /\ ledger.spent \in Nat
        BY <3>2, <4>1, LoadedType, NoneAssumption DEF Ledgers
      <4>3. ledger' = [ledger EXCEPT !.spent = @ + n]
        BY <2>9, <3>2 DEF Spend
      <4>4. ledger' \in Ledgers
        BY <4>1, <4>2, <4>3, BudgetAssumption DEF Ledgers
      <4>5. stray' \in [Runs -> 0..2]
        BY <2>9, <3>2 DEF Spend, TypeOK
      <4>6. pc' \in [Runs -> Stages]
        BY <2>9, <3>2 DEF Spend, TypeOK, Goto, AfterSpend, Stages
      <4> QED
        BY <2>9, <4>4, <4>5, <4>6 DEF Spend, TypeOK
    <3> QED
      BY <3>1, <3>2
  <2>10. ASSUME NEW r \in Runs, NEW leavesMark \in BOOLEAN, GuardedWrite(r, leavesMark)
         PROVE  TypeOK'
    BY <2>10 DEF GuardedWrite, TypeOK
  <2>11. ASSUME NEW s \in Slugs, Register(s)
         PROVE  TypeOK'
    BY <2>11 DEF Register, TypeOK
  <2>12. CASE Reset
    BY <2>12 DEF Reset, TypeOK
  <2>13. CASE DeleteLedger
    BY <2>13 DEF DeleteLedger, TypeOK
  <2>14. CASE Expire
    <3>1. ledger \in Ledgers /\ ledger.lease \in Leases
      BY <2>14, ActiveLease DEF Expire
    <3>2. [ledger.lease EXCEPT !.expired = TRUE] \in Leases
      BY <3>1 DEF Leases
    <3>3. ledger' = [ledger EXCEPT !.lease = [ledger.lease EXCEPT !.expired = TRUE]]
      BY <2>14 DEF Expire
    <3>4. ledger' \in Ledgers
      BY <3>1, <3>2, <3>3 DEF Ledgers
    <3> QED
      BY <2>14, <3>4 DEF Expire, TypeOK
  <2>15. ASSUME NEW force \in BOOLEAN, Reclaim(force)
         PROVE  TypeOK'
    <3>1. ledger \in Ledgers
      BY <2>15, ActiveLease DEF Reclaim
    <3>2. ledger' \in Ledgers
      BY <2>15, <3>1 DEF Reclaim, Ledgers
    <3> QED
      BY <2>15, <3>2 DEF Reclaim, TypeOK
  <2>16. CASE UNCHANGED vars
    BY <2>16 DEF vars, TypeOK
  <2> QED
    BY <2>1, <2>2, <2>3, <2>4, <2>5, <2>6, <2>7, <2>8, <2>9, <2>10, <2>11,
       <2>12, <2>13, <2>14, <2>15, <2>16 DEF Next, RunStep
<1> QED
  BY <1>1, <1>2, PTL DEF Spec

-----------------------------------------------------------------------------
(* IInv is inductive. *)
LEMMA Inductive == Spec => []IInv
<1>1. Init => IInv
  <2> SUFFICES ASSUME Init
               PROVE  IInv
    OBVIOUS
  <2>1. TypeOK
    BY BoundsAssumption DEF Init, TypeOK, Stages
  <2>2. Loaded.counter = 0 /\ Loaded.lease = None
    BY DEF Init, Loaded, FreshState
  <2> QED
    BY <2>1, <2>2 DEF Init, IInv, Issued, LeaseNewest, Overtaken
<1>2. IInv /\ TypeOK' /\ [Next]_vars => IInv'
  <2> SUFFICES ASSUME IInv, TypeOK', [Next]_vars, deletes' = 0
               PROVE  (Issued /\ LeaseNewest /\ Overtaken)'
    BY DEF IInv
  <2>a. ASSUME UNCHANGED deletes
        PROVE  deletes = 0 /\ Issued /\ LeaseNewest /\ Overtaken
    BY <2>a DEF IInv
  <2>t. TypeOK /\ Loaded.counter \in Nat /\ fence \in [Runs -> Nat]
    BY LoadedType DEF IInv, TypeOK, Ledgers
  <2>k. ASSUME UNCHANGED <<ledger, fence, turn, acquired>>
        PROVE  UNCHANGED Loaded /\ (Issued /\ LeaseNewest => (Issued /\ LeaseNewest)')
    BY <2>k DEF Loaded, Issued, LeaseNewest
  <2>1. ASSUME NEW r \in Runs, StartDrive(r)
        PROVE  (Issued /\ LeaseNewest /\ Overtaken)'
    BY <2>1, <2>a, <2>k, <2>t DEF StartDrive, Overtaken, Goto, TypeOK
  <2>2. ASSUME NEW r \in Runs, NEW slug \in Slugs \cup {None},
               NEW spent \in Nat \cup {-1}, Acquire(r, slug, spent),
               UNCHANGED <<stray, deletes>>, pc[r] \in {"idle", "starting"},
               \/ opener' = r /\ pc' = [pc EXCEPT ![r] = "gate"]
               \/ opener' = opener /\ pc' = [pc EXCEPT ![r] = "manual"]
        PROVE  (Issued /\ LeaseNewest /\ Overtaken)'
    <3>1. Loaded'.counter = NextFence /\ Loaded'.lease.fence = NextFence
      BY <2>2, <2>t, AcquiredLedger
    <3>2. /\ NextFence \in Nat /\ NextFence > Loaded.counter /\ NextFence # 0
      BY <2>t, NextFenceUp
    <3>3. /\ fence' = [fence EXCEPT ![r] = NextFence]
          /\ turn' = [turn EXCEPT ![r] = acquired + 1]
          /\ acquired' = acquired + 1
      BY <2>2 DEF Acquire
    <3>4. \A q \in Runs : fence[q] < NextFence
      BY <2>a, <2>2, <2>t, <3>2 DEF Issued
    <3>5. Issued'
      BY <2>a, <2>2, <2>t, <3>1, <3>2, <3>3, <3>4 DEF Issued, TypeOK
    <3>6. LeaseNewest'
      BY <3>1 DEF LeaseNewest
    <3>7. Overtaken'
      BY <2>a, <2>2, <2>t, <3>1, <3>2, <3>3, <3>4 DEF Overtaken, TypeOK
    <3> QED
      BY <3>5, <3>6, <3>7
  <2>3. ASSUME NEW r \in Runs, AcquireDrive(r)
        PROVE  (Issued /\ LeaseNewest /\ Overtaken)'
    BY <2>2, <2>3, <2>t DEF AcquireDrive, Goto, TypeOK, OpenedBudget
  <2>4. ASSUME NEW r \in Runs, AcquireManual(r)
        PROVE  (Issued /\ LeaseNewest /\ Overtaken)'
    <3>1. Loaded.spent \in Nat \cup {-1}
      BY <2>t, LoadedType DEF Ledgers
    <3> QED
      BY <2>2, <2>4, <3>1 DEF AcquireManual, Goto
  <2>5. ASSUME NEW r \in Runs, RefuseDrive(r) \/ Kill(r) \/ WindDown(r)
        PROVE  (Issued /\ LeaseNewest /\ Overtaken)'
    BY <2>5, <2>a, <2>k, <2>t DEF RefuseDrive, Kill, WindDown, Overtaken, Goto, TypeOK
  <2>6. ASSUME NEW r \in Runs, Heartbeat(r)
        PROVE  (Issued /\ LeaseNewest /\ Overtaken)'
    <3>1. LeaseHeld(r) => fence[r] = Loaded.counter
      BY <2>6, <2>a, <2>t, ActiveLease DEF LeaseHeld, LeaseActive, LeaseNewest, Heartbeat
    <3> QED
      BY <2>6, <2>a, <2>k, <2>t, <3>1 DEF Heartbeat, Overtaken, Goto, TypeOK
  <2>7. ASSUME NEW r \in Runs, Release(r)
        PROVE  (Issued /\ LeaseNewest /\ Overtaken)'
    <3>1. Loaded'.counter = Loaded.counter /\ (Loaded'.lease # None => Loaded' = Loaded)
      <4>1. CASE LeaseHeld(r)
        <5>1. ledger \in Ledgers /\ Loaded = ledger
          BY <4>1, <2>t, ActiveLease DEF LeaseHeld
        <5>2. ledger' = [ledger EXCEPT !.lease = None] /\ ledger' \in Ledgers
          BY <2>7, <4>1, <5>1 DEF Release, Ledgers
        <5> QED
          BY <5>1, <5>2, NoneAssumption DEF Loaded, Ledgers
      <4>2. CASE ~LeaseHeld(r)
        BY <2>7, <4>2 DEF Release, Loaded
      <4> QED
        BY <4>1, <4>2
    <3> QED
      BY <2>7, <2>a, <2>t, <3>1 DEF Release, Issued, LeaseNewest, Overtaken, Goto, TypeOK
  <2>8. ASSUME NEW r \in Runs, NEW n \in 1..MaxSpend, Spend(r, n)
        PROVE  (Issued /\ LeaseNewest /\ Overtaken)'
    <3>1. CASE Loaded.spent = -1
      BY <2>8, <2>a, <2>k, <2>t, <3>1 DEF Spend, Overtaken, Goto, TypeOK
    <3>2. CASE Loaded.spent # -1
      <4>1. ledger \in Ledgers /\ Loaded = ledger
        BY <3>2, <2>t, LoadedType DEF Loaded, FreshState
      <4>2. ledger' = [ledger EXCEPT !.spent = @ + n] /\ ledger' # None
        BY <2>8, <3>2, <4>1, NoneAssumption DEF Spend, Ledgers
      <4>3. Loaded'.counter = Loaded.counter /\ Loaded'.lease = Loaded.lease
        BY <4>1, <4>2 DEF Loaded, Ledgers
      <4>4. Issued' /\ LeaseNewest'
        BY <2>8, <2>a, <4>3 DEF Spend, Issued, LeaseNewest
      <4>5. pc[r] = "segment" /\ stray[r] = 0 /\ pc' = [pc EXCEPT ![r] = AfterSpend(Loaded.spent + n)]
        BY <2>8, <2>a, <2>t, <3>2 DEF Spend, Goto, Overtaken, TypeOK
      <4>6. AfterSpend(Loaded.spent + n) \in {"gate", "winding"}
        BY DEF AfterSpend
      <4>7. /\ opener = r => stray' = stray
            /\ opener # r => stray' = [stray EXCEPT ![r] = @ + 1]
        BY <2>8, <3>2, <4>5 DEF Spend
      <4>8. Overtaken'
        BY <2>8, <2>a, <2>t, <4>3, <4>5, <4>6, <4>7 DEF Spend, Overtaken, TypeOK
      <4> QED
        BY <4>4, <4>8
    <3> QED
      BY <3>1, <3>2
  <2>9. ASSUME NEW r \in Runs, NEW leavesMark \in BOOLEAN, GuardedWrite(r, leavesMark)
        PROVE  (Issued /\ LeaseNewest /\ Overtaken)'
    BY <2>9, <2>a, <2>k DEF GuardedWrite, Overtaken
  <2>10. CASE Reset \/ (\E s \in Slugs : Register(s)) \/ UNCHANGED vars
    BY <2>10, <2>a, <2>k DEF Reset, Register, vars, Overtaken
  <2>11. CASE DeleteLedger
    BY <2>11, <2>t DEF DeleteLedger, TypeOK
  <2>12. CASE Expire
    <3>1. ledger \in Ledgers /\ ledger.lease \in Leases /\ Loaded = ledger
      BY <2>12, <2>t, ActiveLease DEF Expire
    <3>2. ledger' = [ledger EXCEPT !.lease = [ledger.lease EXCEPT !.expired = TRUE]]
      BY <2>12 DEF Expire
    <3>3. ledger' \in Ledgers
      BY <3>1, <3>2 DEF Ledgers, Leases
    <3>4. Loaded' = ledger'
      BY <3>3, NoneAssumption DEF Loaded
    <3>5. Loaded'.counter = Loaded.counter /\ Loaded'.lease.fence = Loaded.lease.fence
          /\ Loaded.lease # None
      BY <3>1, <3>2, <3>4, NoneAssumption DEF Ledgers, Leases
    <3> QED
      BY <2>12, <2>a, <3>5 DEF Expire, Issued, LeaseNewest, Overtaken
  <2>13. ASSUME NEW force \in BOOLEAN, Reclaim(force)
         PROVE  (Issued /\ LeaseNewest /\ Overtaken)'
    <3>1. ledger \in Ledgers /\ Loaded = ledger
      BY <2>13, <2>t, ActiveLease DEF Reclaim
    <3>2. ledger' = [ledger EXCEPT !.lease = None] /\ ledger' \in Ledgers
      BY <2>13, <3>1 DEF Reclaim, Ledgers
    <3>3. Loaded'.counter = Loaded.counter /\ Loaded'.lease = None
      BY <3>1, <3>2, NoneAssumption DEF Loaded, Ledgers
    <3> QED
      BY <2>13, <2>a, <3>3 DEF Reclaim, Issued, LeaseNewest, Overtaken
  <2> QED
    BY <2>1, <2>3, <2>4, <2>5, <2>6, <2>7, <2>8, <2>9, <2>10, <2>11, <2>12,
       <2>13 DEF Next, RunStep
<1> QED
  BY <1>1, <1>2, TypeCorrect, PTL DEF Spec

(* As long as the ledger is kept, a fence names one run and writes to the   *)
(* goal are accepted from one run at a time.                                *)
THEOREM SingleWriter == Spec => []OneWriterWhileKept
<1>1. IInv => OneWriterWhileKept
  BY DEF IInv, Issued, OneWriterWhileKept, FencesUnique, OneWriter, CanWrite,
         FenceAccepted, LeaseHeld
<1> QED
  BY <1>1, Inductive, PTL

(* As long as the ledger is kept, every accepted write comes from the run   *)
(* that took its lease last.                                                *)
THEOREM NoZombieWrites == Spec => WritesFenced
<1>1. IInv /\ [Next]_vars =>
        [\A r \in Runs : written'[r] # written[r] /\ deletes = 0 => turn[r] = acquired]_vars
  <2> SUFFICES ASSUME IInv, Next, NEW r \in Runs, written'[r] # written[r], deletes = 0
               PROVE  turn[r] = acquired
    OBVIOUS
  <2>1. written \in [Runs -> 0..MaxWrites]
    BY DEF IInv, TypeOK
  <2>2. PICK q \in Runs, leavesMark \in BOOLEAN : GuardedWrite(q, leavesMark)
    BY DEF Next, RunStep, StartDrive, AcquireDrive, RefuseDrive, AcquireManual, Kill,
           Heartbeat, WindDown, Release, Spend, Register, Reset, DeleteLedger, Expire, Reclaim
  <2>3. q = r
    BY <2>1, <2>2 DEF GuardedWrite
  <2>4. fence[r] # 0 /\ LeaseHeld(r)
    BY <2>2, <2>3 DEF GuardedWrite, FenceAccepted
  <2>5. fence[r] = Loaded.counter
    BY <2>4, ActiveLease DEF LeaseHeld, LeaseActive, IInv, LeaseNewest
  <2> QED
    BY <2>4, <2>5 DEF IInv, Issued
<1> QED
  BY <1>1, Inductive, PTL DEF Spec, WritesFenced

(* As long as the ledger is kept, a run charges a budget that another run   *)
(* opened once at most.                                                     *)
THEOREM StraysBounded == Spec => []StraySpendOnce
<1>1. IInv => StraySpendOnce
  BY DEF IInv, Overtaken, StraySpendOnce
<1> QED
  BY <1>1, Inductive, PTL

-----------------------------------------------------------------------------
(* How far a budget is overrun. *)

(* The runs that charged a budget another run had opened. *)
Strays == {r \in Runs : stray[r] > 0}

(* The cap and k segments more. *)
Overrun(k) == Cap + MaxSpend * k

(* A run that may still charge its own budget has left one segment unused.  *)
Charged ==
  /\ Loaded.spent <= Overrun(Cardinality(Strays) + 1)
  /\ \A r \in Runs : opener = r /\ pc[r] \in {"gate", "segment"} =>
       Loaded.spent <= Overrun(Cardinality(Strays))

LEMMA OverrunGrows ==
  ASSUME NEW k \in Nat
  PROVE  Overrun(k) \in Nat /\ Overrun(k + 1) = Overrun(k) + MaxSpend /\ Cap <= Overrun(k)
<1>1. MaxSpend * k \in Nat /\ MaxSpend * (k + 1) = MaxSpend * k + MaxSpend
  BY BudgetAssumption
<1> QED
  BY <1>1, BudgetAssumption DEF Overrun

LEMMA StraysFinite == IsFiniteSet(Strays) /\ Cardinality(Strays) \in Nat
<1>1. Strays \subseteq Runs
  BY DEF Strays
<1> QED
  BY <1>1, RunsAssumption, FS_Subset, FS_CardinalityType

(* What other steps leave: the budget, or a smaller one, and fewer openers  *)
(* at work.                                                                 *)
LEMMA ChargedKept ==
  ASSUME TypeOK, Charged, stray' = stray, opener' = opener, Loaded'.spent <= Loaded.spent,
         Loaded'.spent \in Nat \cup {-1},
         \A r \in Runs : pc'[r] \in {"gate", "segment"} => pc[r] \in {"gate", "segment"}
  PROVE  Charged'
<1>1. Strays' = Strays
  BY DEF Strays
<1>2. Loaded.spent \in Nat \cup {-1}
  BY LoadedType DEF Ledgers
<1> DEFINE k == Cardinality(Strays)
<1>3. Overrun(k) \in Nat /\ Overrun(k + 1) \in Nat
  BY StraysFinite, OverrunGrows
<1>4. /\ Loaded.spent <= Overrun(k + 1)
      /\ \A r \in Runs : opener = r /\ pc[r] \in {"gate", "segment"} => Loaded.spent <= Overrun(k)
  BY DEF Charged
<1>5. Overrun(k)' = Overrun(k) /\ Overrun(k + 1)' = Overrun(k + 1)
  BY <1>1 DEF Overrun
<1> HIDE DEF k
<1>6. Loaded'.spent <= Overrun(k + 1)
  BY <1>2, <1>3, <1>4
<1>7. ASSUME NEW r \in Runs, opener = r, pc'[r] \in {"gate", "segment"}
      PROVE  Loaded'.spent <= Overrun(k)
  BY <1>2, <1>3, <1>4, <1>7
<1> QED
  BY <1>1, <1>6, <1>7 DEF Charged, k, Overrun

(* The end of a segment. *)
LEMMA ChargedSpend ==
  ASSUME IInv, deletes = 0, Charged, NEW r \in Runs, NEW n \in 1..MaxSpend, Spend(r, n),
         Loaded.spent # -1
  PROVE  Charged'
<1> DEFINE k == Cardinality(Strays)
<1>t. TypeOK /\ Overtaken
  BY DEF IInv
<1>1. ledger \in Ledgers /\ Loaded = ledger /\ ledger.spent \in Nat
  BY <1>t, LoadedType DEF Loaded, FreshState, Ledgers
<1>2. ledger' = [ledger EXCEPT !.spent = @ + n] /\ ledger' # None /\ n \in Nat
  BY <1>1, NoneAssumption, BudgetAssumption DEF Spend, Ledgers
<1>3. Loaded'.spent = Loaded.spent + n
  BY <1>1, <1>2 DEF Loaded, Ledgers
<1>4. /\ pc[r] = "segment" /\ opener' = opener
      /\ pc' = [pc EXCEPT ![r] = AfterSpend(Loaded.spent + n)]
      /\ stray' = IF opener = r \/ stray[r] = 2 THEN stray ELSE [stray EXCEPT ![r] = @ + 1]
  BY DEF Spend, Goto
<1>5. k \in Nat /\ IsFiniteSet(Strays)
  BY StraysFinite
<1>6. Overrun(k) \in Nat /\ Overrun(k + 1) = Overrun(k) + MaxSpend /\ Cap <= Overrun(k)
  BY <1>5, OverrunGrows
<1>c. /\ Loaded.spent <= Overrun(k + 1)
      /\ \A q \in Runs : opener = q /\ pc[q] \in {"gate", "segment"} => Loaded.spent <= Overrun(k)
  BY DEF Charged
<1>7. CASE opener = r
  <2>1. Strays' = Strays
    BY <1>4, <1>7 DEF Strays
  <2>2. Loaded.spent <= Overrun(k)
    BY <1>4, <1>7, <1>c
  <2>3. n <= MaxSpend /\ MaxSpend \in Nat
    BY BudgetAssumption
  <2>4. Loaded'.spent <= Overrun(k + 1)
    BY <1>1, <1>2, <1>3, <1>6, <2>2, <2>3
  <2>5. ASSUME NEW q \in Runs, opener' = q, pc'[q] \in {"gate", "segment"}
        PROVE  Loaded'.spent <= Overrun(k)
    <3>1. q = r
      BY <1>4, <1>7, <2>5
    <3>2. AfterSpend(Loaded.spent + n) # "winding"
      BY <1>4, <1>t, <2>5, <3>1 DEF TypeOK
    <3>3. ~(Loaded.spent + n > Cap)
      BY <3>2 DEF AfterSpend
    <3> QED
      BY <1>1, <1>2, <1>3, <1>6, <3>3, BudgetAssumption
  <2> HIDE DEF k
  <2> QED
    BY <2>1, <2>4, <2>5 DEF Charged, k, Overrun
<1>8. CASE opener # r
  <2>1. stray[r] = 0
    <3>1. stray[r] \in 0..2
      BY <1>t DEF TypeOK
    <3>2. ~(stray[r] > 0)
      BY <1>4, <1>t DEF Overtaken
    <3> QED
      BY <3>1, <3>2
  <2>2. stray' = [stray EXCEPT ![r] = 1]
    BY <1>4, <1>8, <2>1
  <2>3. Strays' = Strays \cup {r} /\ r \notin Strays
    BY <1>t, <2>1, <2>2 DEF Strays, TypeOK
  <2>4. Cardinality(Strays') = k + 1
    BY <1>5, <2>3, FS_AddElement
  <2>5. n <= MaxSpend /\ MaxSpend \in Nat
    BY BudgetAssumption
  <2>6. Overrun(k + 1 + 1) = Overrun(k + 1) + MaxSpend /\ Overrun(k + 1) \in Nat
    BY <1>5, OverrunGrows
  <2> HIDE DEF k
  <2>7. Loaded'.spent <= Overrun(k + 1 + 1)
    BY <1>1, <1>2, <1>3, <1>c, <2>5, <2>6
  <2>8. ASSUME NEW q \in Runs, opener' = q, pc'[q] \in {"gate", "segment"}
        PROVE  Loaded'.spent <= Overrun(k + 1)
    <3>1. pc[q] \in {"gate", "segment"} /\ opener = q
      BY <1>4, <1>8, <1>t, <2>8 DEF TypeOK
    <3>2. Loaded.spent <= Overrun(k)
      BY <1>c, <3>1
    <3> QED
      BY <1>1, <1>2, <1>3, <1>6, <2>5, <3>2
  <2> QED
    BY <2>4, <2>7, <2>8 DEF Charged, Overrun
<1> QED
  BY <1>7, <1>8

LEMMA ChargedStep ==
  (deletes = 0 => Charged) /\ IInv /\ TypeOK' /\ [Next]_vars => (deletes = 0 => Charged)'
<1> SUFFICES ASSUME deletes = 0 => Charged, IInv, TypeOK', [Next]_vars, deletes' = 0
             PROVE  Charged'
  OBVIOUS
<1>t. TypeOK /\ deletes \in Nat
  BY DEF IInv, TypeOK
<1>s. Loaded'.spent \in Nat \cup {-1}
  <2>1. FreshState \in Ledgers /\ (ledger' # None => ledger' \in Ledgers)
    BY DEF FreshState, Ledgers, TypeOK
  <2>2. Loaded' = IF ledger' = None THEN FreshState ELSE ledger'
    BY DEF Loaded, FreshState
  <2> QED
    BY <2>1, <2>2 DEF Ledgers
<1>n. ASSUME UNCHANGED deletes
      PROVE  deletes = 0 /\ Charged
  BY <1>n
(* The budget stays as it is, and no run comes to charge it. *)
<1>k. ASSUME UNCHANGED <<stray, opener, deletes>>, Loaded'.spent = Loaded.spent,
             \A r \in Runs : pc'[r] \in {"gate", "segment"} => pc[r] \in {"gate", "segment"}
      PROVE  Charged'
  <2>1. Loaded.spent \in Nat \cup {-1}
    BY <1>t, LoadedType DEF Ledgers
  <2> QED
    BY <1>k, <1>n, <1>s, <1>t, <2>1, ChargedKept
<1>u. ASSUME UNCHANGED ledger
      PROVE  Loaded' = Loaded
  BY <1>u DEF Loaded, FreshState
(* Only the lease in the ledger changes. *)
<1>l. ASSUME ledger \in Ledgers, ledger' \in Ledgers, ledger'.spent = ledger.spent
      PROVE  Loaded'.spent = Loaded.spent
  BY <1>l, NoneAssumption DEF Loaded
<1>1. ASSUME NEW r \in Runs, StartDrive(r) \/ RefuseDrive(r) \/ Kill(r) \/ WindDown(r)
      PROVE  Charged'
  BY <1>1, <1>k, <1>u, <1>t DEF StartDrive, RefuseDrive, Kill, WindDown, Goto, TypeOK
<1>2. ASSUME NEW r \in Runs, AcquireDrive(r)
      PROVE  Charged'
  <2>1. ledger' = [counter |-> NextFence,
                   lease   |-> [fence |-> NextFence, slug |-> bound[r], host |-> r,
                                expired |-> FALSE],
                   spent   |-> OpenedBudget]
    BY <1>2 DEF AcquireDrive, Acquire
  <2>2. ledger'.spent = 0
    BY <2>1 DEF OpenedBudget
  <2>3. ledger' # None
    BY <1>2, <1>t, AcquiredLedger DEF AcquireDrive, OpenedBudget, TypeOK
  <2>4. Loaded'.spent = 0 /\ stray' = stray
    BY <1>2, <2>2, <2>3 DEF Loaded, AcquireDrive
  <2>5. Strays' = Strays
    BY <2>4 DEF Strays
  <2> DEFINE k == Cardinality(Strays)
  <2>6. Overrun(k) \in Nat /\ Overrun(k + 1) \in Nat
    BY StraysFinite, OverrunGrows
  <2> HIDE DEF k
  <2>7. 0 <= Overrun(k) /\ 0 <= Overrun(k + 1)
    BY <2>6
  <2> QED
    BY <2>4, <2>5, <2>7 DEF Charged, k, Overrun
<1>3. ASSUME NEW r \in Runs, AcquireManual(r)
      PROVE  Charged'
  <2>1. ledger' = [counter |-> NextFence,
                   lease   |-> [fence |-> NextFence, slug |-> None, host |-> r,
                                expired |-> FALSE],
                   spent   |-> Loaded.spent]
    BY <1>3 DEF AcquireManual, Acquire
  <2>2. ledger'.spent = Loaded.spent
    BY <2>1
  <2>3. None \in Slugs \cup {None} /\ Loaded.spent \in Nat \cup {-1}
    BY <1>t, LoadedType DEF Ledgers
  <2>4. ledger' # None
    BY <1>3, <1>t, <2>3, AcquiredLedger DEF AcquireManual
  <2>5. Loaded'.spent = Loaded.spent
    BY <2>2, <2>4 DEF Loaded
  <2> QED
    BY <1>3, <1>k, <1>t, <2>5 DEF AcquireManual, Goto, TypeOK
<1>4. ASSUME NEW r \in Runs, Heartbeat(r)
      PROVE  Charged'
  BY <1>4, <1>k, <1>u, <1>t DEF Heartbeat, Goto, TypeOK
<1>5. ASSUME NEW r \in Runs, Release(r)
      PROVE  Charged'
  <2>1. Loaded'.spent = Loaded.spent
    <3>1. CASE LeaseHeld(r)
      <4>1. ledger \in Ledgers
        BY <3>1, <1>t, ActiveLease DEF LeaseHeld
      <4>2. ledger' = [ledger EXCEPT !.lease = None]
        BY <1>5, <3>1 DEF Release
      <4> QED
        BY <4>1, <4>2, <1>l DEF Ledgers
    <3>2. CASE ~LeaseHeld(r)
      BY <1>5, <3>2, <1>u DEF Release
    <3> QED
      BY <3>1, <3>2
  <2> QED
    BY <1>5, <1>k, <1>t, <2>1 DEF Release, Goto, TypeOK
<1>6. ASSUME NEW r \in Runs, NEW n \in 1..MaxSpend, Spend(r, n)
      PROVE  Charged'
  <2>1. CASE Loaded.spent = -1
    BY <1>6, <1>k, <1>u, <1>t, <2>1 DEF Spend, Goto, TypeOK
  <2>2. CASE Loaded.spent # -1
    <3>1. deletes = 0 /\ Charged
      BY <1>6, <1>n DEF Spend
    <3> QED
      BY <1>6, <2>2, <3>1, ChargedSpend
  <2> QED
    BY <2>1, <2>2
<1>7. ASSUME NEW r \in Runs, NEW leavesMark \in BOOLEAN, GuardedWrite(r, leavesMark)
      PROVE  Charged'
  BY <1>7, <1>k, <1>u DEF GuardedWrite
<1>8. CASE Reset \/ (\E s \in Slugs : Register(s)) \/ UNCHANGED vars
  BY <1>8, <1>k, <1>u DEF Reset, Register, vars
<1>9. CASE DeleteLedger
  BY <1>9, <1>t DEF DeleteLedger
<1>10. CASE Expire
  <2>1. ledger \in Ledgers /\ ledger.lease \in Leases
    BY <1>10, <1>t, ActiveLease DEF Expire
  <2>2. ledger' = [ledger EXCEPT !.lease = [ledger.lease EXCEPT !.expired = TRUE]]
    BY <1>10 DEF Expire
  <2>3. ledger' \in Ledgers /\ ledger'.spent = ledger.spent
    BY <2>1, <2>2 DEF Ledgers, Leases
  <2> QED
    BY <1>10, <1>k, <1>l, <2>1, <2>3 DEF Expire
<1>11. ASSUME NEW force \in BOOLEAN, Reclaim(force)
       PROVE  Charged'
  <2>1. ledger \in Ledgers
    BY <1>11, <1>t, ActiveLease DEF Reclaim
  <2>2. ledger' = [ledger EXCEPT !.lease = None]
    BY <1>11 DEF Reclaim
  <2>3. ledger' \in Ledgers /\ ledger'.spent = ledger.spent
    BY <2>1, <2>2 DEF Ledgers
  <2> QED
    BY <1>11, <1>k, <1>l, <2>1, <2>3 DEF Reclaim
<1> QED
  BY <1>1, <1>2, <1>3, <1>4, <1>5, <1>6, <1>7, <1>8, <1>9, <1>10, <1>11 DEF Next, RunStep

(* As long as the ledger is kept, a budget is overrun by one segment of the *)
(* run that opened it and one of each run that was taken over, never more:  *)
(* OverrunBounded.                                                          *)
THEOREM OverrunWithinSegments == Spec => []OverrunBounded
<1>1. Init => Charged
  <2> SUFFICES ASSUME Init
               PROVE  Charged
    OBVIOUS
  <2>1. Loaded.spent = -1 /\ opener \notin Runs
    BY NoneAssumption DEF Init, Loaded, FreshState
  <2>2. Overrun(Cardinality(Strays) + 1) \in Nat
    BY StraysFinite, OverrunGrows
  <2>3. Loaded.spent <= Overrun(Cardinality(Strays) + 1)
    BY <2>1, <2>2
  <2> QED
    BY <2>1, <2>3 DEF Charged
<1>2. TypeOK /\ (deletes = 0 => Charged) => OverrunBounded
  <2> SUFFICES ASSUME TypeOK, Charged, ledger # None
               PROVE  ledger.spent <= Cap + MaxSpend * (1 + Cardinality(Strays))
    BY DEF OverrunBounded, Strays
  <2>1. Cardinality(Strays) + 1 = 1 + Cardinality(Strays)
    BY StraysFinite
  <2>2. Loaded = ledger
    BY LoadedType
  <2> QED
    BY <2>1, <2>2 DEF Charged, Overrun
<1> QED
  BY <1>1, <1>2, ChargedStep, Inductive, TypeCorrect, PTL DEF Spec

-----------------------------------------------------------------------------
(* Whose goal a drive's workers write to. *)

(* A drive has read its goal, and a lease that carries its fence is bound   *)
(* to that goal.                                                            *)
LeaseBound ==
  \A r \in Drives :
    /\ pc[r] # "idle" => bound[r] # None
    /\ Loaded.lease # None /\ fence[r] # 0 /\ Loaded.lease.fence = fence[r] =>
         Loaded.lease.slug = bound[r]

LEMMA LeaseBoundStep ==
  (deletes = 0 => LeaseBound) /\ IInv /\ TypeOK' /\ [Next]_vars => (deletes = 0 => LeaseBound)'
<1> SUFFICES ASSUME deletes = 0 => LeaseBound, IInv, TypeOK', [Next]_vars, deletes' = 0
             PROVE  LeaseBound'
  OBVIOUS
<1>t. TypeOK /\ deletes \in Nat /\ Drives \subseteq Runs
  BY DEF IInv, TypeOK, Runs
<1>n. ASSUME UNCHANGED deletes
      PROVE  deletes = 0 /\ LeaseBound /\ Issued /\ Overtaken
  BY <1>n DEF IInv
<1>u. ASSUME UNCHANGED ledger
      PROVE  Loaded' = Loaded
  BY <1>u DEF Loaded, FreshState
(* The lease stays, perhaps expired, or goes. *)
<1>k. ASSUME UNCHANGED <<fence, bound, deletes>>,
             \/ Loaded'.lease = None
             \/ /\ Loaded.lease # None /\ Loaded'.lease.fence = Loaded.lease.fence
                /\ Loaded'.lease.slug = Loaded.lease.slug
             \/ Loaded'.lease = Loaded.lease,
             \A r \in Drives : pc'[r] # "idle" => pc[r] # "idle"
      PROVE  LeaseBound'
  BY <1>k, <1>n DEF LeaseBound
<1>l. ASSUME ledger \in Ledgers, ledger' \in Ledgers
      PROVE  Loaded' = ledger' /\ Loaded = ledger
  BY <1>l, NoneAssumption DEF Loaded
<1>1. ASSUME NEW r \in Runs, StartDrive(r)
      PROVE  LeaseBound'
  <2>1. /\ UNCHANGED <<ledger, fence, deletes>> /\ goal # None /\ fence[r] = 0
        /\ bound' = [bound EXCEPT ![r] = goal] /\ pc' = [pc EXCEPT ![r] = "starting"]
    BY <1>1, <1>n DEF StartDrive, Goto, Overtaken
  <2> QED
    BY <2>1, <1>n, <1>t, <1>u DEF LeaseBound, TypeOK
<1>2. ASSUME NEW r \in Runs, RefuseDrive(r) \/ Kill(r) \/ WindDown(r) \/ Heartbeat(r)
      PROVE  LeaseBound'
  BY <1>2, <1>k, <1>u, <1>t DEF RefuseDrive, Kill, WindDown, Heartbeat, Goto, TypeOK
(* A new lease carries a fence of its own. *)
<1>3. ASSUME NEW r \in Runs, NEW slug \in Slugs \cup {None}, NEW spent \in Nat \cup {-1},
             Acquire(r, slug, spent), UNCHANGED <<bound, deletes>>,
             r \in Drives => slug = bound[r] /\ pc[r] # "idle",
             \A q \in Runs : q # r => pc'[q] = pc[q]
      PROVE  LeaseBound'
  <2>1. /\ ledger' = [counter |-> NextFence,
                      lease   |-> [fence |-> NextFence, slug |-> slug, host |-> r,
                                   expired |-> FALSE],
                      spent   |-> spent]
        /\ fence' = [fence EXCEPT ![r] = NextFence]
    BY <1>3 DEF Acquire
  <2>2. Loaded' = ledger'
    BY <1>3, <1>t, AcquiredLedger DEF Loaded
  <2>3. Loaded'.lease.fence = NextFence /\ Loaded'.lease.slug = slug
    BY <2>1, <2>2
  <2>4. /\ NextFence \in Nat /\ NextFence > Loaded.counter
        /\ Loaded.counter \in Nat /\ fence \in [Runs -> Nat]
    BY <1>t, NextFenceUp, LoadedType DEF Ledgers, TypeOK
  <2>5. \A q \in Runs : fence[q] < NextFence
    BY <1>3, <1>n, <2>4 DEF Issued
  <2>6. \A q \in Runs : q # r => fence'[q] = fence[q]
    BY <2>1, <2>4
  <2>7. ASSUME NEW q \in Drives
        PROVE  /\ pc'[q] # "idle" => bound[q] # None
               /\ fence'[q] = NextFence => slug = bound[q]
    <3>1. CASE q = r
      BY <3>1, <1>3, <1>n DEF LeaseBound
    <3>2. CASE q # r
      BY <3>2, <1>3, <1>n, <1>t, <2>4, <2>5, <2>6 DEF LeaseBound
    <3> QED
      BY <3>1, <3>2
  <2> QED
    BY <1>3, <2>3, <2>7 DEF LeaseBound
<1>4. ASSUME NEW r \in Runs, AcquireDrive(r)
      PROVE  LeaseBound'
  <2>1. bound[r] \in Slugs \cup {None} /\ OpenedBudget \in Nat \cup {-1}
    BY <1>t DEF TypeOK, OpenedBudget
  <2> QED
    BY <1>4, <1>3, <1>t, <2>1 DEF AcquireDrive, Goto, TypeOK
<1>5. ASSUME NEW r \in Runs, AcquireManual(r)
      PROVE  LeaseBound'
  <2>1. r \notin Drives
    BY <1>5, RunsAssumption DEF AcquireManual
  <2>2. Loaded.spent \in Nat \cup {-1}
    BY <1>t, LoadedType DEF Ledgers
  <2> QED
    BY <1>5, <1>3, <1>t, <2>1, <2>2 DEF AcquireManual, Goto, TypeOK
<1>6. ASSUME NEW r \in Runs, Release(r)
      PROVE  LeaseBound'
  <2>1. Loaded'.lease \in {None, Loaded.lease}
    <3>1. CASE LeaseHeld(r)
      <4>1. ledger \in Ledgers
        BY <3>1, <1>t, ActiveLease DEF LeaseHeld
      <4>2. ledger' = [ledger EXCEPT !.lease = None]
        BY <1>6, <3>1 DEF Release
      <4> QED
        BY <4>1, <4>2, <1>l DEF Ledgers
    <3>2. CASE ~LeaseHeld(r)
      BY <1>6, <3>2, <1>u DEF Release
    <3> QED
      BY <3>1, <3>2
  <2> QED
    BY <1>6, <1>k, <1>t, <2>1 DEF Release, Goto, TypeOK
<1>7. ASSUME NEW r \in Runs, NEW n \in 1..MaxSpend, Spend(r, n)
      PROVE  LeaseBound'
  <2>1. Loaded'.lease = Loaded.lease
    <3>1. CASE Loaded.spent = -1
      BY <1>7, <3>1, <1>u DEF Spend
    <3>2. CASE Loaded.spent # -1
      <4>1. ledger \in Ledgers
        BY <3>2, <1>t, LoadedType DEF Loaded, FreshState
      <4>2. ledger' = [ledger EXCEPT !.spent = @ + n]
        BY <1>7, <3>2 DEF Spend
      <4>3. ledger' # None /\ Loaded = ledger
        BY <4>1, <4>2, NoneAssumption DEF Ledgers, Loaded
      <4>4. Loaded' = ledger'
        BY <4>3 DEF Loaded
      <4> QED
        BY <4>1, <4>2, <4>3, <4>4 DEF Ledgers
    <3> QED
      BY <3>1, <3>2
  <2>2. AfterSpend(Loaded.spent + n) # "idle"
    BY DEF AfterSpend
  <2>3. \A q \in Drives : pc'[q] # "idle" => pc[q] # "idle"
    BY <1>7, <1>t DEF Spend, Goto, TypeOK
  <2> QED
    BY <1>7, <1>k, <2>1, <2>3 DEF Spend
<1>8. ASSUME NEW r \in Runs, NEW leavesMark \in BOOLEAN, GuardedWrite(r, leavesMark)
      PROVE  LeaseBound'
  BY <1>8, <1>k, <1>u DEF GuardedWrite
<1>9. CASE Reset \/ (\E s \in Slugs : Register(s)) \/ UNCHANGED vars
  BY <1>9, <1>k, <1>u DEF Reset, Register, vars
<1>10. CASE DeleteLedger
  BY <1>10, <1>t DEF DeleteLedger
<1>11. CASE Expire
  <2>1. ledger \in Ledgers /\ ledger.lease \in Leases
    BY <1>11, <1>t, ActiveLease DEF Expire
  <2>2. ledger' = [ledger EXCEPT !.lease = [ledger.lease EXCEPT !.expired = TRUE]]
    BY <1>11 DEF Expire
  <2>3. /\ ledger' \in Ledgers /\ ledger'.lease.fence = ledger.lease.fence
        /\ ledger'.lease.slug = ledger.lease.slug /\ ledger.lease # None
    BY <2>1, <2>2, NoneAssumption DEF Ledgers, Leases
  <2> QED
    BY <1>11, <1>k, <1>l, <2>1, <2>3 DEF Expire
<1>12. ASSUME NEW force \in BOOLEAN, Reclaim(force)
       PROVE  LeaseBound'
  <2>1. ledger \in Ledgers
    BY <1>12, <1>t, ActiveLease DEF Reclaim
  <2>2. ledger' = [ledger EXCEPT !.lease = None]
    BY <1>12 DEF Reclaim
  <2>3. ledger' \in Ledgers /\ ledger'.lease = None
    BY <2>1, <2>2 DEF Ledgers
  <2> QED
    BY <1>12, <1>k, <1>l, <2>1, <2>3 DEF Reclaim
<1> QED
  BY <1>1, <1>2, <1>4, <1>5, <1>6, <1>7, <1>8, <1>9, <1>10, <1>11, <1>12 DEF Next, RunStep

(* As long as the ledger is kept, the workers of a drive write only to the  *)
(* goal the drive was started for, never to one registered under another    *)
(* name after a reset: WritesStayOnGoal.                                    *)
THEOREM OwnGoalWrites == Spec => WritesStayOnGoal
<1>1. Init => LeaseBound
  BY RunsAssumption DEF Init, LeaseBound, Runs
<1>2. IInv /\ (deletes = 0 => LeaseBound) /\ [Next]_vars =>
        [\A r \in Drives : written'[r] # written[r] => goal = bound[r] \/ deletes # 0]_vars
  <2> SUFFICES ASSUME IInv, LeaseBound, Next, NEW r \in Drives, written'[r] # written[r],
                      deletes = 0
               PROVE  goal = bound[r]
    OBVIOUS
  <2>1. written \in [Runs -> 0..MaxWrites] /\ r \in Runs
    BY DEF IInv, TypeOK, Runs
  <2>2. PICK q \in Runs, leavesMark \in BOOLEAN : GuardedWrite(q, leavesMark)
    BY DEF Next, RunStep, StartDrive, AcquireDrive, RefuseDrive, AcquireManual, Kill,
           Heartbeat, WindDown, Release, Spend, Register, Reset, DeleteLedger, Expire, Reclaim
  <2>3. q = r
    BY <2>1, <2>2 DEF GuardedWrite
  <2>4. fence[r] # 0 /\ LeaseHeld(r) /\ (ledger.lease.slug # None => ledger.lease.slug = goal)
    BY <2>2, <2>3 DEF GuardedWrite, FenceAccepted
  <2>5. Loaded = ledger /\ Loaded.lease # None /\ Loaded.lease.fence = fence[r]
    BY <2>4, ActiveLease DEF LeaseHeld, LeaseActive, IInv
  <2>6. pc[r] # "idle"
    BY <2>1, <2>4 DEF IInv, Overtaken
  <2> QED
    BY <2>4, <2>5, <2>6 DEF LeaseBound
<1> QED
  BY <1>1, <1>2, LeaseBoundStep, Inductive, TypeCorrect, PTL DEF Spec, WritesStayOnGoal

-----------------------------------------------------------------------------
(* The gate.  What the properties of a finished goal rest on while it is not finished. *)

(* A declaration was found good on the tree the review saw. *)
Granted(t, by) == by.granted => Challenged(t, by.scope)

(* A review is of a commit that exists, and what was judged of it was read  *)
(* from commits, which do not change.                                       *)
RunOk(run, ts, now) ==
  /\ run.head <= now
  /\ run.qualified # Nil => Granted(ts[run.head], run.qualified)
  /\ run.reused # Nil =>
       /\ run.reused.read <= now
       /\ Granted(ts[run.head], run.reused.by)
       /\ run.reused.applies =>
            Applies(ts[run.head], ts[run.reused.read], run.reused.by.scope)

ReviewsOk == \A d \in Duties : review[d] # Nil => RunOk(review[d], trees, head)

(* A reuse under way is of the review it was begun for: a review that comes *)
(* between ends it.                                                         *)
ScopingOk ==
  scoping # Nil =>
    /\ review[scoping.duty] \in Run /\ RunOk(review[scoping.duty], trees, head)
    /\ scoping.read <= head
    /\ Granted(trees[review[scoping.duty].head], scoping.by)

(* A reuse receipt repeats a real run, its time, and the inputs it hashed.  *)
Alike(h, k, ts) == \A p \in Inputs : ts[h][p] = ts[k][p]

Repeats(r, base, ts) ==
  /\ base.kind = "run" /\ base.at = r.at /\ base.ok = r.ok /\ base.manifest = r.manifest
  /\ Alike(base.inputs, r.inputs, ts)

ReceiptOk(r, rs, ts, now, last) ==
  /\ r.inputs <= now /\ r.at <= last
  /\ r.kind = "reuse" => r.base \in 1..Len(rs) /\ Repeats(r, rs[r.base], ts)

(* A reuse under way is of a run that hashed the inputs it was judged on. *)
JudgedOk(j, rs, ts, now) ==
  j # Nil => /\ j.base \in 1..Len(rs) /\ rs[j.base].kind = "run" /\ j.inputs <= now
             /\ Alike(rs[j.base].inputs, j.inputs, ts)

(* Every run that ended left a receipt; the latest one is what is needed. *)
ReceiptsOk ==
  /\ \A n \in 1..Len(receipts) : ReceiptOk(receipts[n], receipts, trees, head, ended)
  /\ ended # 0 =>
       \E n \in 1..Len(receipts) : receipts[n].kind = "run" /\ receipts[n].at = ended
  /\ checking # Nil => IF checking.stage = "tries" THEN ended # 0 ELSE ended < MaxRuns
  /\ JudgedOk(judged, receipts, trees, head)

(* What the record lacks of what its inputs oblige to was cancelled while   *)
(* the inputs of then did not.                                              *)
PolicyOk ==
  policy # Nil =>
    /\ "general" \in policy.obligations
    /\ \A o \in Derived(policy.inputs) \ policy.obligations :
         \E s \in Surfaces : <<o, s>> \in cancelled /\ o \notin Derived(s)

GateInv == GateTypeOK /\ ReviewsOk /\ ScopingOk /\ ReceiptsOk /\ PolicyOk

-----------------------------------------------------------------------------
LEMMA DerivedType ==
  ASSUME NEW s
  PROVE  Derived(s) \in SUBSET Obligations /\ "general" \in Derived(s)
BY DEF Derived, Obligations, Duties

LEMMA GateStart == GateInit => GateInv
<1> SUFFICES ASSUME GateInit PROVE GateInv
  OBVIOUS
<1> USE GateAssumption
<1>1. head \in Heads /\ trees \in [Heads -> Trees]
  BY DEF GateInit, Heads
<1>2. GateTypeOK
  BY <1>1 DEF GateInit, GateTypeOK
<1>3. ReviewsOk
  BY DEF GateInit, ReviewsOk
<1>4. ScopingOk /\ PolicyOk
  BY DEF GateInit, ScopingOk, PolicyOk
<1>5. ReceiptsOk
  BY DEF GateInit, ReceiptsOk, JudgedOk
<1> QED  BY <1>2, <1>3, <1>4, <1>5 DEF GateInv

-----------------------------------------------------------------------------
(* What happens to a review. *)

LEMMA RunOkLater ==
  ASSUME GateTypeOK, NEW t \in Trees, Commit(t), NEW run \in Run, RunOk(run, trees, head)
  PROVE  RunOk(run, trees', head')
<1>1. head' = head + 1 /\ head \in Nat /\ trees' = [trees EXCEPT ![head + 1] = t]
      /\ trees \in [Heads -> Trees] /\ head + 1 \in Heads
  BY GateAssumption DEF Commit, GateTypeOK, Heads
<1>2. \A h \in Heads : h <= head => trees'[h] = trees[h]
  BY <1>1 DEF Heads
<1>3. run.head \in Heads /\ (run.reused # Nil => run.reused.read \in Heads)
  BY DEF Run, Applicability
<1>4. trees'[run.head] = trees[run.head]
      /\ (run.reused # Nil => trees'[run.reused.read] = trees[run.reused.read])
  BY <1>2, <1>3 DEF RunOk
<1>5. run.head <= head' /\ (run.reused # Nil => run.reused.read <= head')
  BY <1>1, <1>3 DEF RunOk, Heads
<1> QED  BY <1>4, <1>5 DEF RunOk

LEMMA ReviewedFits ==
  ASSUME GateInv, NEW d \in Duties, NEW h \in Heads, NEW v \in {"pass", "blocked", "invalid"},
         NEW S \in SUBSET Paths, Reviewed(d, h, v, S)
  PROVE  /\ review' \in [Duties -> Run \cup {Nil}]
         /\ scoping' = Nil \/ scoping' = scoping
         /\ finding' \in [Paths -> {Nil, Opened} \cup Heads]
         /\ ReviewsOk' /\ ScopingOk'
<1>1. PICK r : r = [head |-> h, verdict |-> v, qualified |-> Nil, reused |-> Nil]
  OBVIOUS
<1>2. r \in Run /\ RunOk(r, trees, head)
  BY <1>1 DEF Run, RunOk, Reviewed
<1>3. review' = [review EXCEPT ![d] = r] /\ trees' = trees /\ head' = head
  BY <1>1 DEF Reviewed
<1>4. review \in [Duties -> Run \cup {Nil}] /\ finding \in [Paths -> {Nil, Opened} \cup Heads]
  BY DEF GateInv, GateTypeOK
<1>5. scoping' = Nil \/ (scoping' = scoping /\ scoping # Nil /\ scoping.duty # d)
  BY DEF Reviewed
<1>6. scoping # Nil => scoping.duty \in Duties
  BY DEF GateInv, GateTypeOK
<1>7. ReviewsOk'
  BY <1>2, <1>3, <1>4 DEF GateInv, ReviewsOk
<1>8. ScopingOk'
  <2>1. CASE scoping' = Nil
    BY <2>1 DEF ScopingOk
  <2>2. CASE scoping' = scoping /\ scoping # Nil /\ scoping.duty # d
    <3>1. review'[scoping.duty] = review[scoping.duty]
      BY <1>3, <1>4, <1>6, <2>2
    <3> QED  BY <1>3, <2>2, <3>1 DEF GateInv, ScopingOk
  <2> QED  BY <1>5, <2>1, <2>2
<1>9. finding' \in [Paths -> {Nil, Opened} \cup Heads]
  BY <1>4 DEF Reviewed
<1> QED  BY <1>2, <1>3, <1>4, <1>5, <1>7, <1>8, <1>9

LEMMA ManifestType == GateTypeOK => Manifest \in Surfaces
BY DEF GateTypeOK, Manifest, Surfaces

LEMMA QualifyFits ==
  ASSUME GateInv, NEW d \in Duties, NEW scope \in Scopes, Qualify(d, scope)
  PROVE  /\ review' \in [Duties -> Run \cup {Nil}]
         /\ ReviewsOk' /\ ScopingOk'
<1>1. PICK g \in BOOLEAN : g = Challenged(trees[review[d].head], scope)
  BY DEF Challenged
<1>2. PICK q : q = [scope |-> scope, granted |-> g, manifest |-> Manifest]
  OBVIOUS
<1>3. q \in Qualification /\ Granted(trees[review[d].head], q)
  BY <1>1, <1>2, ManifestType DEF Qualification, Granted, GateInv
<1>4. review \in [Duties -> Run \cup {Nil}] /\ review[d] \in Run /\ RunOk(review[d], trees, head)
  BY DEF GateInv, GateTypeOK, Qualify, Sound, ReviewsOk
<1>5. PICK r : r = [review[d] EXCEPT !.qualified = q]
  OBVIOUS
<1>6. r \in Run /\ r.head = review[d].head /\ r.qualified = q /\ r.reused = review[d].reused
  BY <1>3, <1>4, <1>5 DEF Run
<1>7. RunOk(r, trees, head)
  BY <1>3, <1>4, <1>6 DEF RunOk
<1>8. [scope |-> scope, granted |-> Challenged(trees[review[d].head], scope),
       manifest |-> Manifest] = q
  BY <1>1, <1>2
<1>9. review' = [review EXCEPT ![d] = r] /\ trees' = trees /\ head' = head /\ scoping' = scoping
  BY <1>5, <1>8 DEF Qualify
<1>10. scoping # Nil => scoping.duty \in Duties
  BY DEF GateInv, GateTypeOK
<1>11. ReviewsOk'
  BY <1>4, <1>6, <1>7, <1>9 DEF GateInv, ReviewsOk
<1>12. ScopingOk'
  <2>1. ASSUME scoping # Nil
        PROVE  /\ review'[scoping.duty] \in Run /\ RunOk(review'[scoping.duty], trees, head)
               /\ review'[scoping.duty].head = review[scoping.duty].head
    BY <1>4, <1>6, <1>7, <1>9, <1>10, <2>1 DEF GateInv, ScopingOk
  <2> QED  BY <1>9, <2>1 DEF GateInv, ScopingOk
<1> QED  BY <1>4, <1>6, <1>9, <1>11, <1>12

LEMMA ReuseReadFits ==
  ASSUME GateInv, NEW d \in Duties, ReuseRead(d)
  PROVE  /\ scoping' \in [duty : Duties, by : Qualification, read : Heads, manifest : Surfaces]
         /\ ReviewsOk' /\ ScopingOk'
<1>1. review[d] \in Run /\ RunOk(review[d], trees, head) /\ review[d].qualified \in Qualification
  BY DEF GateInv, GateTypeOK, ReuseRead, Sound, ReviewsOk, Run
<1>2. PICK s : s = [duty |-> d, by |-> review[d].qualified, read |-> head, manifest |-> Manifest]
  OBVIOUS
<1>3. scoping' = s /\ review' = review /\ trees' = trees /\ head' = head /\ head \in Heads
  BY <1>2 DEF ReuseRead, GateInv, GateTypeOK
<1>4. s \in [duty : Duties, by : Qualification, read : Heads, manifest : Surfaces]
  BY <1>1, <1>2, <1>3, ManifestType DEF GateInv
<1>5. Granted(trees[review[d].head], review[d].qualified)
  BY <1>1 DEF RunOk, ReuseRead
<1>6. s.duty = d /\ s.read = head /\ s.by = review[d].qualified /\ head <= head
  BY <1>2, <1>3 DEF Heads
<1> QED  BY <1>1, <1>3, <1>4, <1>5, <1>6 DEF GateInv, ReviewsOk, ScopingOk

LEMMA ReuseWriteFits ==
  ASSUME GateInv, ReuseWrite
  PROVE  /\ review' \in [Duties -> Run \cup {Nil}]
         /\ ReviewsOk' /\ ScopingOk'
<1> DEFINE d == scoping.duty
<1>1. d \in Duties /\ scoping.by \in Qualification /\ scoping.read \in Heads
      /\ review \in [Duties -> Run \cup {Nil}] /\ head \in Heads
  BY DEF GateInv, GateTypeOK, ReuseWrite
<1>2. review[d] \in Run /\ RunOk(review[d], trees, head) /\ scoping.read <= head
      /\ Granted(trees[review[d].head], scoping.by)
  BY DEF GateInv, ScopingOk, ReuseWrite
<1>3. PICK y \in BOOLEAN : y <=> /\ scoping.manifest = scoping.by.manifest
                                 /\ Applies(trees[review[d].head], trees[scoping.read], scoping.by.scope)
  OBVIOUS
<1>4. PICK a : a = [by |-> scoping.by, target |-> head, read |-> scoping.read, applies |-> y]
  OBVIOUS
<1>5. a \in Applicability /\ a.by = scoping.by /\ a.read = scoping.read /\ a.applies = y
  BY <1>1, <1>4 DEF Applicability
<1>6. PICK r : r = [review[d] EXCEPT !.reused = a]
  OBVIOUS
<1>7. r \in Run /\ r.head = review[d].head /\ r.qualified = review[d].qualified /\ r.reused = a
  BY <1>2, <1>5, <1>6 DEF Run
<1>8. RunOk(r, trees, head)
  BY <1>2, <1>3, <1>5, <1>7 DEF RunOk
<1>9. [by |-> scoping.by, target |-> head, read |-> scoping.read,
       applies |-> /\ scoping.manifest = scoping.by.manifest
                   /\ Applies(trees[review[d].head], trees[scoping.read], scoping.by.scope)] = a
  BY <1>3, <1>4
<1>10. review' = [review EXCEPT ![d] = r] /\ trees' = trees /\ head' = head /\ scoping' = Nil
  BY <1>6, <1>9 DEF ReuseWrite
<1> HIDE DEF d
<1>11. ReviewsOk'
  BY <1>1, <1>7, <1>8, <1>10 DEF GateInv, ReviewsOk
<1> QED  BY <1>1, <1>7, <1>10, <1>11 DEF ScopingOk

-----------------------------------------------------------------------------
(* What happens to receipts. *)

LEMMA ReceiptOkLater ==
  ASSUME GateTypeOK, NEW t \in Trees, Commit(t), ReceiptsOk
  PROVE  ReceiptsOk'
<1>1. head' = head + 1 /\ head \in Nat /\ trees' = [trees EXCEPT ![head + 1] = t]
      /\ trees \in [Heads -> Trees] /\ head + 1 \in Heads
      /\ receipts' = receipts /\ ended' = ended /\ checking' = checking /\ judged' = judged
  BY GateAssumption DEF Commit, GateTypeOK, Heads, check_vars
<1>2. \A h \in Heads : h <= head => trees'[h] = trees[h] /\ h <= head'
  BY <1>1 DEF Heads
<1>3. \A n \in 1..Len(receipts) : receipts[n] \in Receipt
  BY DEF GateTypeOK
<1>4. \A n \in 1..Len(receipts) : receipts[n].inputs \in Heads /\ receipts[n].inputs <= head
  BY <1>3 DEF ReceiptsOk, ReceiptOk, Receipt
<1>5. ASSUME NEW n \in 1..Len(receipts) PROVE ReceiptOk(receipts[n], receipts, trees', head', ended)
  <2>1. ReceiptOk(receipts[n], receipts, trees, head, ended)
    BY DEF ReceiptsOk
  <2>2. receipts[n].inputs <= head' /\ trees'[receipts[n].inputs] = trees[receipts[n].inputs]
    BY <1>2, <1>4
  <2>3. ASSUME receipts[n].kind = "reuse"
        PROVE  /\ receipts[n].base \in 1..Len(receipts)
               /\ Repeats(receipts[n], receipts[receipts[n].base], trees')
    <3>1. /\ receipts[n].base \in 1..Len(receipts)
          /\ Repeats(receipts[n], receipts[receipts[n].base], trees)
      BY <2>1, <2>3 DEF ReceiptOk
    <3>2. trees'[receipts[receipts[n].base].inputs] = trees[receipts[receipts[n].base].inputs]
      BY <1>2, <1>4, <3>1
    <3> QED  BY <2>2, <3>1, <3>2 DEF Repeats, Alike
  <2> QED  BY <2>1, <2>2, <2>3 DEF ReceiptOk
<1>6. JudgedOk(judged, receipts, trees', head')
  <2> SUFFICES ASSUME judged # Nil
               PROVE  /\ judged.inputs <= head'
                      /\ Alike(receipts[judged.base].inputs, judged.inputs, trees')
    BY DEF ReceiptsOk, JudgedOk
  <2>1. /\ judged.base \in 1..Len(receipts) /\ judged.inputs <= head /\ judged.inputs \in Heads
        /\ Alike(receipts[judged.base].inputs, judged.inputs, trees)
    BY DEF ReceiptsOk, JudgedOk, GateTypeOK
  <2>2. /\ trees'[judged.inputs] = trees[judged.inputs] /\ judged.inputs <= head'
        /\ trees'[receipts[judged.base].inputs] = trees[receipts[judged.base].inputs]
    BY <1>2, <1>4, <2>1
  <2> QED  BY <2>1, <2>2 DEF Alike
<1> QED  BY <1>1, <1>5, <1>6 DEF ReceiptsOk

(* A receipt is added to the others, which stay sound; so do the last run   *)
(* and the reuse under way.                                                 *)
LEMMA LeaveFits ==
  ASSUME GateInv, NEW r \in Receipt, Leave(r), NEW last \in Nat, ended <= last,
         ReceiptOk(r, receipts, trees, head, last),
         last = ended \/ (r.kind = "run" /\ r.at = last)
  PROVE  /\ receipts' \in Seq(Receipt)
         /\ \A n \in 1..Len(receipts') : ReceiptOk(receipts'[n], receipts', trees, head, last)
         /\ last # 0 =>
              \E n \in 1..Len(receipts') : receipts'[n].kind = "run" /\ receipts'[n].at = last
         /\ JudgedOk(judged, receipts', trees, head)
<1>1. /\ receipts \in Seq(Receipt) /\ ended \in Nat /\ Len(receipts) \in Nat
  BY GateAssumption DEF GateInv, GateTypeOK
<1>2. receipts' = Append(receipts, r)
  BY DEF Leave
<1>3. /\ receipts' \in Seq(Receipt) /\ Len(receipts') = Len(receipts) + 1
      /\ \A i \in 1..Len(receipts) : receipts'[i] = receipts[i]
      /\ receipts'[Len(receipts) + 1] = r
  BY <1>1, <1>2, AppendProperties
<1>4. 1..Len(receipts) \subseteq 1..Len(receipts') /\ Len(receipts') \in 1..Len(receipts')
  BY <1>1, <1>3
<1>5. ASSUME NEW q \in Receipt, ReceiptOk(q, receipts, trees, head, last)
      PROVE  ReceiptOk(q, receipts', trees, head, last)
  BY <1>3, <1>4, <1>5 DEF ReceiptOk
<1>6. ASSUME NEW n \in 1..Len(receipts') PROVE ReceiptOk(receipts'[n], receipts', trees, head, last)
  <2>1. CASE n \in 1..Len(receipts)
    <3>1. receipts[n] \in Receipt /\ ReceiptOk(receipts[n], receipts, trees, head, ended)
      BY <1>1, <2>1 DEF GateInv, ReceiptsOk
    <3>2. receipts[n].at \in Nat /\ MaxRuns \in Nat
      BY <3>1, GateAssumption DEF Receipt
    <3>3. ReceiptOk(receipts[n], receipts, trees, head, last)
      BY <1>1, <3>1, <3>2 DEF ReceiptOk
    <3> QED  BY <1>3, <1>5, <2>1, <3>1, <3>3
  <2>2. CASE n = Len(receipts) + 1
    BY <1>3, <1>5, <2>2
  <2> QED  BY <1>1, <1>3, <2>1, <2>2
<1>7. ASSUME last # 0
      PROVE  \E n \in 1..Len(receipts') : receipts'[n].kind = "run" /\ receipts'[n].at = last
  <2>1. CASE last = ended
    <3>1. PICK k \in 1..Len(receipts) : receipts[k].kind = "run" /\ receipts[k].at = ended
      BY <1>7, <2>1 DEF GateInv, ReceiptsOk
    <3>2. k \in 1..Len(receipts') /\ receipts'[k] = receipts[k]
      BY <1>3, <1>4, <3>1
    <3> QED  BY <2>1, <3>1, <3>2
  <2>2. CASE r.kind = "run" /\ r.at = last
    <3>1. receipts'[Len(receipts')] = r
      BY <1>1, <1>3
    <3> QED  BY <1>4, <2>2, <3>1
  <2> QED  BY <2>1, <2>2
<1>8. JudgedOk(judged, receipts', trees, head)
  BY <1>3, <1>4 DEF GateInv, ReceiptsOk, JudgedOk
<1> QED  BY <1>3, <1>6, <1>7, <1>8

LEMMA MadeType ==
  ASSUME GateInv, checking # Nil, NEW kind \in {"run", "qualification"}, NEW noted \in Heads,
         NEW ok \in BOOLEAN, NEW when \in 1..MaxRuns
  PROVE  /\ Made(kind, noted, ok, when) \in Receipt
         /\ Made(kind, noted, ok, when).kind = kind /\ Made(kind, noted, ok, when).at = when
         /\ \A rs : ReceiptOk(Made(kind, noted, ok, when), rs, trees, head, when)
<1>1. checking.manifest \in Surfaces /\ head \in Heads /\ head <= head /\ when <= when
  BY DEF GateInv, GateTypeOK, Check, Heads
<1>2. Made(kind, noted, ok, when) \in Receipt
  BY <1>1 DEF Made, Receipt
<1> QED  BY <1>1, <1>2 DEF Made, ReceiptOk

LEMMA CheckEndFits ==
  ASSUME GateInv, NEW ok \in BOOLEAN, CheckEnd(ok)
  PROVE  /\ receipts' \in Seq(Receipt) /\ ended' \in 0..MaxRuns /\ ReceiptsOk'
         /\ checking' \in {Nil} \cup Check
<1>1. /\ ended \in Nat /\ ended < MaxRuns /\ MaxRuns \in Nat
      /\ checking \in Check /\ checking.noted \in Heads
  BY GateAssumption DEF GateInv, GateTypeOK, ReceiptsOk, CheckEnd, Check
<1>2. PICK last : last = ended + 1
  OBVIOUS
<1>3. last \in Nat /\ last \in 1..MaxRuns /\ ended <= last /\ last # 0 /\ ended' = last
  BY <1>1, <1>2 DEF CheckEnd
<1>4. PICK r : r = Made("run", checking.noted, ok, last)
  OBVIOUS
<1>5. r \in Receipt /\ r.kind = "run" /\ r.at = last /\ ReceiptOk(r, receipts, trees, head, last)
  BY <1>1, <1>3, <1>4, MadeType DEF CheckEnd
<1>6. Leave(r) /\ judged' = judged /\ trees' = trees /\ head' = head
  BY <1>2, <1>4 DEF CheckEnd
<1>7. /\ receipts' \in Seq(Receipt)
      /\ \A n \in 1..Len(receipts') : ReceiptOk(receipts'[n], receipts', trees, head, last)
      /\ \E n \in 1..Len(receipts') : receipts'[n].kind = "run" /\ receipts'[n].at = last
      /\ JudgedOk(judged, receipts', trees, head)
  BY <1>3, <1>5, <1>6, LeaveFits
<1>8. /\ checking' \in {Nil} \cup Check
      /\ checking' # Nil => checking'.stage = "tries"
  BY <1>1 DEF CheckEnd, Check
<1>9. ReceiptsOk'
  BY <1>3, <1>6, <1>7, <1>8 DEF ReceiptsOk
<1> QED  BY <1>3, <1>7, <1>8, <1>9

LEMMA QualifiedFits ==
  ASSUME GateInv, Qualified
  PROVE  receipts' \in Seq(Receipt) /\ ReceiptsOk'
<1>1. /\ ended \in Nat /\ ended <= ended /\ ended # 0 /\ ended \in 1..MaxRuns /\ head \in Heads
      /\ checking # Nil
  BY GateAssumption DEF GateInv, GateTypeOK, ReceiptsOk, Qualified
<1>2. PICK r : r = Made("qualification", head, TRUE, ended)
  OBVIOUS
<1>3. r \in Receipt /\ ReceiptOk(r, receipts, trees, head, ended)
  BY <1>1, <1>2, MadeType
<1>4. Leave(r) /\ checking' = Nil /\ judged' = judged /\ ended' = ended /\ trees' = trees /\ head' = head
  BY <1>2 DEF Qualified
<1>5. /\ receipts' \in Seq(Receipt)
      /\ \A n \in 1..Len(receipts') : ReceiptOk(receipts'[n], receipts', trees, head, ended)
      /\ ended # 0 =>
           \E n \in 1..Len(receipts') : receipts'[n].kind = "run" /\ receipts'[n].at = ended
      /\ JudgedOk(judged, receipts', trees, head)
  BY <1>1, <1>3, <1>4, LeaveFits
<1> QED  BY <1>4, <1>5 DEF ReceiptsOk

LEMMA ReuseJudgeFits ==
  ASSUME GateInv, NEW m \in 1..MaxReceipts, ReuseJudge(m)
  PROVE  judged' \in [base : Nat, inputs : Heads] /\ ReceiptsOk'
<1>1. head \in Heads /\ head <= head /\ m \in Nat
  BY GateAssumption DEF GateInv, GateTypeOK, Heads
<1>2. PICK j : j = [base |-> m, inputs |-> head]
  OBVIOUS
<1>3. j \in [base : Nat, inputs : Heads] /\ j.base = m /\ j.inputs = head
  BY <1>1, <1>2
<1>4. /\ judged' = j /\ m \in 1..Len(receipts) /\ receipts[m].kind = "run"
      /\ Alike(receipts[m].inputs, head, trees)
      /\ UNCHANGED <<head, trees, receipts, checking, ended>>
  BY <1>2 DEF ReuseJudge, Reusable, SameInputs, Alike
<1>5. JudgedOk(j, receipts, trees, head)
  BY <1>1, <1>3, <1>4 DEF JudgedOk
<1> QED  BY <1>3, <1>4, <1>5 DEF GateInv, ReceiptsOk

LEMMA ReuseRunFits ==
  ASSUME GateInv, ReuseRun
  PROVE  receipts' \in Seq(Receipt) /\ ReceiptsOk'
<1> DEFINE m == judged.base
<1>1. /\ receipts \in Seq(Receipt) /\ ended \in Nat /\ ended <= ended /\ head \in Heads
      /\ m \in Nat /\ m \in 1..Len(receipts) /\ judged.inputs \in Heads /\ judged.inputs <= head
      /\ receipts[m].kind = "run" /\ Alike(receipts[m].inputs, judged.inputs, trees)
  BY GateAssumption DEF ReuseRun, GateInv, GateTypeOK, ReceiptsOk, JudgedOk
<1>2. PICK b : b = receipts[m]
  OBVIOUS
<1>3. b \in Receipt /\ b.at <= ended
  BY <1>1, <1>2 DEF GateInv, ReceiptsOk, ReceiptOk
<1>4. PICK r : r = [b EXCEPT !.kind = "reuse", !.head = head, !.inputs = judged.inputs, !.base = m]
  OBVIOUS
<1>5. /\ r \in Receipt /\ r.kind = "reuse" /\ r.inputs = judged.inputs /\ r.base = m
      /\ r.at = b.at /\ r.ok = b.ok /\ r.manifest = b.manifest
  <2> HIDE DEF m
  <2> QED  BY <1>1, <1>3, <1>4 DEF Receipt
<1>6. ReceiptOk(r, receipts, trees, head, ended)
  <2>1. Repeats(r, b, trees)
    BY <1>1, <1>2, <1>5 DEF Repeats
  <2> QED  BY <1>1, <1>2, <1>3, <1>5, <2>1 DEF ReceiptOk
<1>7. /\ Leave(r) /\ judged' = Nil
      /\ UNCHANGED <<head, trees, checking, ended>>
  BY <1>2, <1>4 DEF ReuseRun, Reused
<1> HIDE DEF m
<1>8. /\ receipts' \in Seq(Receipt)
      /\ \A n \in 1..Len(receipts') : ReceiptOk(receipts'[n], receipts', trees, head, ended)
      /\ ended # 0 =>
           \E n \in 1..Len(receipts') : receipts'[n].kind = "run" /\ receipts'[n].at = ended
  BY <1>1, <1>5, <1>6, <1>7, LeaveFits
<1>9. JudgedOk(judged', receipts', trees, head)
  BY <1>7 DEF JudgedOk
<1> QED  BY <1>7, <1>8, <1>9 DEF GateInv, ReceiptsOk

-----------------------------------------------------------------------------
(* What happens to the policy record. *)

LEMMA AdoptFits ==
  ASSUME GateInv, Adopt
  PROVE  /\ policy' \in {Nil} \cup [inputs : Surfaces, obligations : SUBSET Obligations]
         /\ PolicyOk'
<1>1. surface \in Surfaces /\ cancelled' = cancelled
      /\ policy \in {Nil} \cup [inputs : Surfaces, obligations : SUBSET Obligations]
  BY DEF GateInv, GateTypeOK, Adopt
<1>2. CASE policy' = policy
  BY <1>1, <1>2 DEF GateInv, PolicyOk
<1>3. CASE policy' = Record(surface)
  <2>1. PICK D : D = Derived(surface)
    OBVIOUS
  <2>2. PICK r : r = [inputs |-> surface, obligations |-> D]
    OBVIOUS
  <2>3. policy' = r /\ r.inputs = surface /\ r.obligations = Derived(surface)
        /\ r \in [inputs : Surfaces, obligations : SUBSET Obligations]
    BY <1>1, <1>3, <2>1, <2>2, DerivedType DEF Record
  <2>4. \A o : ~(o \in Derived(surface) \ Derived(surface))
    OBVIOUS
  <2> QED  BY <2>3, <2>4, DerivedType DEF PolicyOk
<1> QED  BY <1>2, <1>3 DEF Adopt

LEMMA ReassessFits ==
  ASSUME GateInv, NEW o \in Obligations, Reassess(o)
  PROVE  /\ policy' \in {Nil} \cup [inputs : Surfaces, obligations : SUBSET Obligations]
         /\ cancelled' \subseteq Obligations \X Surfaces
         /\ PolicyOk'
<1>1. policy \in [inputs : Surfaces, obligations : SUBSET Obligations] /\ surface \in Surfaces
      /\ cancelled \subseteq Obligations \X Surfaces
  BY DEF GateInv, GateTypeOK, Reassess
<1>2. PICK O : O = policy.obligations \ {o}
  OBVIOUS
<1>3. PICK r : r = [policy EXCEPT !.obligations = O]
  OBVIOUS
<1>4. policy' = r /\ cancelled' = cancelled \cup {<<o, surface>>}
  BY <1>2, <1>3 DEF Reassess, Cancel
<1>5. r.inputs = policy.inputs /\ r.obligations = policy.obligations \ {o}
      /\ r \in [inputs : Surfaces, obligations : SUBSET Obligations]
  BY <1>1, <1>2, <1>3
<1>6. o # "general" /\ o \notin Derived(surface) /\ policy # Nil
  BY DEF Reassess
<1>7. "general" \in r.obligations
  BY <1>5, <1>6 DEF GateInv, PolicyOk
<1>8. ASSUME NEW q \in Derived(r.inputs) \ r.obligations
      PROVE  \E s \in Surfaces : <<q, s>> \in cancelled' /\ q \notin Derived(s)
  <2>1. CASE q = o
    BY <1>1, <1>4, <1>6, <2>1
  <2>2. CASE q # o
    <3>1. q \in Derived(policy.inputs) \ policy.obligations
      BY <1>5, <1>8, <2>2
    <3>2. PICK s \in Surfaces : <<q, s>> \in cancelled /\ q \notin Derived(s)
      BY <1>6, <3>1 DEF GateInv, PolicyOk
    <3> QED  BY <1>4, <3>2
  <2> QED  BY <2>1, <2>2
<1> QED  BY <1>1, <1>4, <1>5, <1>7, <1>8 DEF PolicyOk

-----------------------------------------------------------------------------
LEMMA GateKept == GateInv /\ [GateNext]_gateVars => GateInv'
<1> SUFFICES ASSUME GateInv, [GateNext]_gateVars PROVE GateInv'
  OBVIOUS
<1>t. GateTypeOK /\ ReviewsOk /\ ScopingOk /\ ReceiptsOk /\ PolicyOk
  BY DEF GateInv
<1>a. UNCHANGED <<head, trees, review_vars>> => ReviewsOk' /\ ScopingOk'
  BY <1>t DEF ReviewsOk, ScopingOk, review_vars
<1>b. UNCHANGED <<head, trees, check_vars>> => ReceiptsOk'
  BY <1>t DEF ReceiptsOk, JudgedOk, check_vars
<1>c. UNCHANGED <<policy, cancelled>> => PolicyOk'
  BY <1>t DEF PolicyOk
<1>1. CASE Adopt
  <2>1. UNCHANGED <<status, head, trees, surface, drifts, cancelled, review_vars, check_vars, ci, finding>>
    BY <1>1 DEF Adopt
  <2>2. GateTypeOK'
    BY <1>1, <1>t, <2>1, AdoptFits DEF GateTypeOK, review_vars, check_vars
  <2> QED  BY <1>1, <1>a, <1>b, <2>1, <2>2, AdoptFits DEF GateInv
<1>2. CASE StartGoal
  <2>1. UNCHANGED <<head, trees, policy_vars, review_vars, check_vars, ci, finding>> /\ status' = "executing"
    BY <1>2 DEF StartGoal
  <2>2. GateTypeOK'
    BY <1>t, <2>1 DEF GateTypeOK, policy_vars, review_vars, check_vars
  <2> QED  BY <1>a, <1>b, <1>c, <2>1, <2>2 DEF GateInv, policy_vars
<1>3. ASSUME NEW f \in Features, Drift(f) PROVE GateInv'
  <2>1. UNCHANGED <<status, head, trees, policy, cancelled, review_vars, check_vars, ci, finding>>
    BY <1>3 DEF Drift
  <2>2. surface' \in Surfaces /\ drifts' \in 0..MaxDrifts
    BY <1>3, <1>t, GateAssumption DEF Drift, GateTypeOK, Surfaces
  <2>3. GateTypeOK'
    BY <1>t, <2>1, <2>2 DEF GateTypeOK, review_vars, check_vars
  <2> QED  BY <1>a, <1>b, <1>c, <2>1, <2>3 DEF GateInv
<1>4. ASSUME NEW o \in Obligations, Reassess(o) PROVE GateInv'
  <2>1. UNCHANGED <<status, head, trees, surface, drifts, review_vars, check_vars, ci, finding>>
    BY <1>4 DEF Reassess, Cancel
  <2>2. GateTypeOK'
    BY <1>4, <1>t, <2>1, ReassessFits DEF GateTypeOK, review_vars, check_vars
  <2> QED  BY <1>4, <1>a, <1>b, <2>1, <2>2, ReassessFits DEF GateInv
<1>5. ASSUME NEW d \in Duties, NEW h \in Heads, NEW v \in {"pass", "blocked", "invalid"},
             NEW S \in Reports, Reviewed(d, h, v, S)
      PROVE  GateInv'
  <2>1. UNCHANGED <<status, head, trees, policy_vars, check_vars, ci>>
    BY <1>5 DEF Reviewed
  <2>2. S \in SUBSET Paths
    BY DEF Reports
  <2>3. /\ review' \in [Duties -> Run \cup {Nil}] /\ (scoping' = Nil \/ scoping' = scoping)
        /\ finding' \in [Paths -> {Nil, Opened} \cup Heads] /\ ReviewsOk' /\ ScopingOk'
    BY <1>5, <2>2, ReviewedFits
  <2>4. GateTypeOK'
    BY <1>t, <2>1, <2>3 DEF GateTypeOK, policy_vars, check_vars
  <2> QED  BY <1>b, <1>c, <2>1, <2>3, <2>4 DEF GateInv, policy_vars
<1>6. ASSUME NEW d \in Duties, NEW scope \in Scopes, Qualify(d, scope) PROVE GateInv'
  <2>1. UNCHANGED <<status, head, trees, policy_vars, scoping, check_vars, ci, finding>>
    BY <1>6 DEF Qualify
  <2>2. review' \in [Duties -> Run \cup {Nil}] /\ ReviewsOk' /\ ScopingOk'
    BY <1>6, QualifyFits
  <2>3. GateTypeOK'
    BY <1>t, <2>1, <2>2 DEF GateTypeOK, policy_vars, check_vars
  <2> QED  BY <1>b, <1>c, <2>1, <2>2, <2>3 DEF GateInv, policy_vars
<1>7. ASSUME NEW d \in Duties, ReuseRead(d) PROVE GateInv'
  <2>1. UNCHANGED <<status, head, trees, policy_vars, review, check_vars, ci, finding>>
    BY <1>7 DEF ReuseRead
  <2>2. /\ scoping' \in [duty : Duties, by : Qualification, read : Heads, manifest : Surfaces]
        /\ ReviewsOk' /\ ScopingOk'
    BY <1>7, ReuseReadFits
  <2>3. GateTypeOK'
    BY <1>t, <2>1, <2>2 DEF GateTypeOK, policy_vars, check_vars
  <2> QED  BY <1>b, <1>c, <2>1, <2>2, <2>3 DEF GateInv, policy_vars
<1>8. CASE ReuseWrite
  <2>1. UNCHANGED <<status, head, trees, policy_vars, check_vars, ci, finding>> /\ scoping' = Nil
    BY <1>8 DEF ReuseWrite
  <2>2. review' \in [Duties -> Run \cup {Nil}] /\ ReviewsOk' /\ ScopingOk'
    BY <1>8, ReuseWriteFits
  <2>3. GateTypeOK'
    BY <1>t, <2>1, <2>2 DEF GateTypeOK, policy_vars, check_vars
  <2> QED  BY <1>b, <1>c, <2>1, <2>2, <2>3 DEF GateInv, policy_vars
<1>9. ASSUME NEW p \in Paths, NEW h \in Heads, Closes(p, h) PROVE GateInv'
  <2>1. UNCHANGED <<status, head, trees, policy_vars, review_vars, check_vars, ci>>
        /\ finding' = [finding EXCEPT ![p] = h]
    BY <1>9 DEF Closes
  <2>2. GateTypeOK'
    BY <1>t, <2>1 DEF GateTypeOK, policy_vars, review_vars, check_vars
  <2> QED  BY <1>a, <1>b, <1>c, <2>1, <2>2 DEF GateInv, policy_vars
<1>10. ASSUME NEW purpose \in {"run", "qualification"}, CheckStart(purpose) PROVE GateInv'
  <2>1. UNCHANGED <<status, head, trees, policy_vars, review_vars, receipts, judged, ended, ci,
                    finding>>
        /\ ended < MaxRuns
        /\ checking' = [purpose |-> purpose, manifest |-> Manifest, stage |-> "runs", noted |-> head]
    BY <1>10 DEF CheckStart
  <2>2. checking' \in Check /\ checking'.stage = "runs"
    BY <1>t, <2>1, ManifestType DEF GateTypeOK, Check
  <2>3. GateTypeOK'
    BY <1>t, <2>1, <2>2 DEF GateTypeOK, policy_vars, review_vars
  <2>4. ReceiptsOk'
    BY <1>t, <2>1, <2>2 DEF ReceiptsOk
  <2> QED  BY <1>a, <1>c, <2>1, <2>3, <2>4 DEF GateInv, policy_vars
<1>11. CASE CheckNoted
  <2>1. UNCHANGED <<status, head, trees, policy_vars, review_vars, receipts, judged, ended, ci,
                    finding>>
        /\ checking # Nil /\ checking.stage = "runs"
        /\ checking' = [checking EXCEPT !.stage = "noted", !.noted = head]
    BY <1>11 DEF CheckNoted
  <2>2. checking' \in Check /\ checking'.stage = "noted"
    BY <1>t, <2>1 DEF GateTypeOK, Check
  <2>3. GateTypeOK'
    BY <1>t, <2>1, <2>2 DEF GateTypeOK, policy_vars, review_vars
  <2>4. ReceiptsOk'
    BY <1>t, <2>1, <2>2 DEF ReceiptsOk
  <2> QED  BY <1>a, <1>c, <2>1, <2>3, <2>4 DEF GateInv, policy_vars
<1>12. CASE CheckKilled
  <2>1. UNCHANGED <<status, head, trees, policy_vars, review_vars, receipts, judged, ended, ci,
                    finding>>
        /\ checking' = Nil
    BY <1>12 DEF CheckKilled
  <2>2. GateTypeOK'
    BY <1>t, <2>1 DEF GateTypeOK, policy_vars, review_vars
  <2>3. ReceiptsOk'
    BY <1>t, <2>1 DEF ReceiptsOk
  <2> QED  BY <1>a, <1>c, <2>1, <2>2, <2>3 DEF GateInv, policy_vars
<1>13. ASSUME NEW ok \in BOOLEAN, CheckEnd(ok) PROVE GateInv'
  <2>1. UNCHANGED <<status, head, trees, policy_vars, review_vars, judged, ci, finding>>
    BY <1>13 DEF CheckEnd
  <2>2. /\ receipts' \in Seq(Receipt) /\ ended' \in 0..MaxRuns /\ ReceiptsOk'
        /\ checking' \in {Nil} \cup Check
    BY <1>13, CheckEndFits
  <2>3. GateTypeOK'
    BY <1>t, <2>1, <2>2 DEF GateTypeOK, policy_vars, review_vars
  <2> QED  BY <1>a, <1>c, <2>1, <2>2, <2>3 DEF GateInv, policy_vars
<1>18. CASE Qualified
  <2>1. UNCHANGED <<status, head, trees, policy_vars, review_vars, judged, ended, ci, finding>>
        /\ checking' = Nil
    BY <1>18 DEF Qualified
  <2>2. receipts' \in Seq(Receipt) /\ ReceiptsOk'
    BY <1>18, QualifiedFits
  <2>3. GateTypeOK'
    BY <1>t, <2>1, <2>2 DEF GateTypeOK, policy_vars, review_vars
  <2> QED  BY <1>a, <1>c, <2>1, <2>2, <2>3 DEF GateInv, policy_vars
<1>19. ASSUME NEW n \in 1..MaxReceipts, ReuseJudge(n) PROVE GateInv'
  <2>1. UNCHANGED <<status, head, trees, policy_vars, review_vars, receipts, checking, ended, ci,
                    finding>>
    BY <1>19 DEF ReuseJudge
  <2>2. judged' \in [base : Nat, inputs : Heads] /\ ReceiptsOk'
    BY <1>19, ReuseJudgeFits
  <2>3. GateTypeOK'
    BY <1>t, <2>1, <2>2 DEF GateTypeOK, policy_vars, review_vars
  <2> QED  BY <1>a, <1>c, <2>1, <2>2, <2>3 DEF GateInv, policy_vars
<1>20. CASE ReuseRun
  <2>1. UNCHANGED <<status, head, trees, policy_vars, review_vars, checking, ended, ci, finding>>
        /\ judged' = Nil
    BY <1>20 DEF ReuseRun
  <2>2. receipts' \in Seq(Receipt) /\ ReceiptsOk'
    BY <1>20, ReuseRunFits
  <2>3. GateTypeOK'
    BY <1>t, <2>1, <2>2 DEF GateTypeOK, policy_vars, review_vars
  <2> QED  BY <1>a, <1>c, <2>1, <2>2, <2>3 DEF GateInv, policy_vars
<1>14. ASSUME NEW sha \in Heads, NEW green \in BOOLEAN, QueryCi(sha, green) PROVE GateInv'
  <2>1. UNCHANGED <<status, head, trees, policy_vars, review_vars, check_vars, finding>>
        /\ ci' = [head |-> head, sha |-> sha, green |-> green]
    BY <1>14 DEF QueryCi
  <2>2. ci' \in [head : Heads, sha : Heads, green : BOOLEAN]
    BY <1>t, <2>1 DEF GateTypeOK
  <2>3. GateTypeOK'
    BY <1>t, <2>1, <2>2 DEF GateTypeOK, policy_vars, review_vars, check_vars
  <2> QED  BY <1>a, <1>b, <1>c, <2>1, <2>3 DEF GateInv, policy_vars
<1>15. CASE Finish
  <2>1. UNCHANGED <<head, trees, policy_vars, review_vars, check_vars, ci, finding>> /\ status' = "done"
    BY <1>15 DEF Finish
  <2>2. GateTypeOK'
    BY <1>t, <2>1 DEF GateTypeOK, policy_vars, review_vars, check_vars
  <2> QED  BY <1>a, <1>b, <1>c, <2>1, <2>2 DEF GateInv, policy_vars
<1>16. ASSUME NEW t \in Trees, Commit(t) PROVE GateInv'
  <2>1. UNCHANGED <<status, policy_vars, review_vars, check_vars, ci, finding>>
        /\ head' = head + 1 /\ head < MaxHead /\ trees' = [trees EXCEPT ![head + 1] = t]
    BY <1>16 DEF Commit
  <2>2. head' \in Heads /\ trees' \in [Heads -> Trees]
    BY <1>t, <2>1, GateAssumption DEF GateTypeOK, Heads
  <2>3. GateTypeOK'
    BY <1>t, <2>1, <2>2 DEF GateTypeOK, policy_vars, review_vars, check_vars
  <2>4. ReceiptsOk'
    BY <1>16, <1>t, ReceiptOkLater
  <2>5. review' = review /\ scoping' = scoping /\ review \in [Duties -> Run \cup {Nil}]
    BY <1>t, <2>1 DEF GateTypeOK, review_vars
  <2>6. ReviewsOk'
    <3>1. ASSUME NEW d \in Duties, review[d] # Nil PROVE RunOk(review[d], trees', head')
      <4>1. review[d] \in Run /\ RunOk(review[d], trees, head)
        BY <1>t, <2>5, <3>1 DEF ReviewsOk
      <4> QED  BY <1>16, <1>t, <4>1, RunOkLater
    <3> QED  BY <2>5, <3>1 DEF ReviewsOk
  <2>7. ScopingOk'
    <3> SUFFICES ASSUME scoping # Nil
                 PROVE  /\ RunOk(review[scoping.duty], trees', head')
                        /\ scoping.read <= head'
                        /\ Granted(trees'[review[scoping.duty].head], scoping.by)
      BY <1>t, <2>5 DEF ScopingOk
    <3>1. /\ review[scoping.duty] \in Run /\ RunOk(review[scoping.duty], trees, head)
          /\ scoping.read <= head /\ scoping.read \in Nat
          /\ Granted(trees[review[scoping.duty].head], scoping.by)
      BY <1>t DEF ScopingOk, GateTypeOK, Heads
    <3>2. review[scoping.duty].head \in Nat /\ review[scoping.duty].head <= head
          /\ review[scoping.duty].head \in Heads /\ head \in Nat
      BY <1>t, <3>1 DEF RunOk, Run, Heads, GateTypeOK
    <3>3. trees'[review[scoping.duty].head] = trees[review[scoping.duty].head]
      BY <1>t, <2>1, <3>2 DEF GateTypeOK
    <3>4. scoping.read <= head'
      BY <2>1, <3>1, <3>2
    <3> QED  BY <1>16, <1>t, <3>1, <3>3, <3>4, RunOkLater
  <2> QED  BY <1>c, <2>1, <2>3, <2>4, <2>6, <2>7 DEF GateInv, policy_vars
<1>17. CASE UNCHANGED gateVars
  <2>1. GateTypeOK'
    BY <1>t, <1>17 DEF gateVars, GateTypeOK, policy_vars, review_vars, check_vars
  <2> QED  BY <1>a, <1>b, <1>c, <1>17, <2>1 DEF gateVars, GateInv, policy_vars
<1> QED
  BY <1>1, <1>2, <1>3, <1>4, <1>5, <1>6, <1>7, <1>8, <1>9, <1>10, <1>11, <1>12, <1>13,
     <1>14, <1>15, <1>16, <1>17, <1>18, <1>19, <1>20
  DEF GateNext, PolicyStep, ReviewStep, CheckStep

(* The policy record, the reviews, the receipts and the findings keep their *)
(* types, and so does every command that is half way.                       *)
THEOREM GateTypeCorrect == GateSpec => []GateTypeOK
<1>1. GateInv => GateTypeOK
  BY DEF GateInv
<1> QED  BY <1>1, GateStart, GateKept, PTL DEF GateSpec

-----------------------------------------------------------------------------
(* A finished goal. *)

LEMMA FinishedReviewed == GateInv /\ Finish => ReviewedUpTo'
<1> SUFFICES ASSUME GateInv, Finish, NEW d \in policy.obligations \cap Duties
             PROVE  /\ review[d] # Nil /\ review[d].verdict = "pass"
                    /\ \/ review[d].head = head
                       \/ LET run == review[d]
                              scope == run.reused.by.scope
                              seen == IF run.reused.read = run.reused.target THEN head
                                      ELSE run.reused.read
                          IN  \A p \in Changed(trees[run.head], trees[seen]) :
                                /\ p \in scope.unrelated /\ p \notin scope.shared
                                /\ p \in Hinted => trees[run.head][p] = Absent
  BY DEF Finish, ReviewedUpTo, policy_vars, review_vars
<1>1. ReviewSatisfied(d)
  BY DEF Finish, GateOpen
<1>2. CASE review[d].head = head
  BY <1>1, <1>2 DEF ReviewSatisfied
<1>3. CASE ReuseHolds(review[d])
  <2> DEFINE run == review[d]
             scope == run.reused.by.scope
  <2>1. /\ run.reused # Nil /\ run.reused.applies /\ run.reused.target = head
        /\ run.reused.by.granted
    BY <1>3 DEF ReuseHolds
  <2>2. RunOk(run, trees, head)
    BY <1>1 DEF ReviewSatisfied, GateInv, ReviewsOk
  <2>3. Applies(trees[run.head], trees[run.reused.read], scope) /\ Challenged(trees[run.head], scope)
    BY <2>1, <2>2 DEF RunOk, Granted
  <2>4. (IF run.reused.read = run.reused.target THEN head ELSE run.reused.read) = run.reused.read
    BY <2>1
  <2>5. ASSUME NEW p \in Changed(trees[run.head], trees[run.reused.read])
        PROVE  /\ p \in scope.unrelated /\ p \notin scope.shared
               /\ p \in Hinted => trees[run.head][p] = Absent
    <3>1. Keeps(p, scope)
      BY <2>3, <2>5 DEF Applies
    <3>2. p \in Present(trees[run.head], Hinted) => ~Keeps(p, scope)
      BY <2>3 DEF Challenged
    <3> QED  BY <3>1, <3>2 DEF Keeps, Present
  <2> QED  BY <1>1, <2>4, <2>5 DEF ReviewSatisfied
<1> QED  BY <1>1, <1>2, <1>3 DEF ReviewSatisfied

LEMMA FinishedChecked == GateInv /\ Finish => LastRunDecides'
<1> DEFINE Seen(m) == IF receipts[m].inputs = receipts[m].head THEN head ELSE receipts[m].inputs
<1> SUFFICES ASSUME GateInv, Finish, "check" \in policy.obligations
             PROVE  \E m, n \in 1..Len(receipts) :
                      /\ Decides(m) /\ receipts[m].head = head
                      /\ n = IF receipts[m].kind = "reuse" THEN receipts[m].base ELSE m
                      /\ receipts[n].kind = "run" /\ receipts[n].ok /\ receipts[n].at = ended
                      /\ receipts[n].manifest = Manifest /\ SameInputs(receipts[n].inputs, Seen(m))
  BY DEF Finish, LastRunDecides, policy_vars, review_vars, check_vars, Manifest, SameInputs,
         Decides, Served
<1>1. PICK m \in Served : /\ Decides(m) /\ receipts[m].ok
                          /\ receipts[m].head = head /\ receipts[m].manifest = Manifest
  BY DEF Finish, GateOpen, CheckSatisfied
<1>2. m \in 1..Len(receipts) /\ receipts[m].kind \in {"run", "reuse"}
      /\ receipts[m].at \in Nat \ {0} /\ ended \in Nat /\ receipts[m].at <= ended
      /\ ReceiptOk(receipts[m], receipts, trees, head, ended)
  <2>1. m \in 1..Len(receipts) /\ receipts[m].kind # "qualification"
    BY DEF Served
  <2>2. receipts[m] \in Receipt /\ MaxRuns \in Nat
    BY <2>1, GateAssumption DEF GateInv, GateTypeOK
  <2>3. ReceiptOk(receipts[m], receipts, trees, head, ended) /\ ended \in Nat
    BY <2>1, <2>2 DEF GateInv, ReceiptsOk, GateTypeOK
  <2> QED  BY <2>1, <2>2, <2>3 DEF Receipt, ReceiptOk
<1>3. PICK k \in 1..Len(receipts) : receipts[k].kind = "run" /\ receipts[k].at = ended
  BY <1>2 DEF GateInv, ReceiptsOk
<1>4. receipts[m].at = ended
  <2>1. k \in Served
    BY <1>3 DEF Served
  <2>2. m = k \/ ended <= receipts[m].at
    BY <1>1, <1>2, <1>3, <2>1 DEF Decides
  <2> QED  BY <1>2, <1>3, <2>2
<1>5. receipts[m].inputs = Seen(m)
  <2>1. receipts[m].inputs = receipts[m].head => receipts[m].inputs = head
    BY <1>1
  <2> QED  BY <2>1
<1> HIDE DEF Seen
<1>6. CASE receipts[m].kind = "run"
  <2>1. SameInputs(receipts[m].inputs, Seen(m))
    BY <1>5 DEF SameInputs
  <2>2. m = IF receipts[m].kind = "reuse" THEN receipts[m].base ELSE m
    BY <1>6
  <2> QED  BY <1>1, <1>2, <1>4, <1>6, <2>1, <2>2
<1>7. CASE receipts[m].kind = "reuse"
  <2> DEFINE b == receipts[m].base
  <2>1. b \in 1..Len(receipts) /\ Repeats(receipts[m], receipts[b], trees)
    BY <1>2, <1>7 DEF ReceiptOk
  <2>2. SameInputs(receipts[b].inputs, Seen(m))
    BY <1>5, <2>1 DEF Repeats, Alike, SameInputs
  <2>3. /\ receipts[b].kind = "run" /\ receipts[b].ok /\ receipts[b].at = ended
        /\ receipts[b].manifest = Manifest
    BY <1>1, <1>4, <2>1 DEF Repeats
  <2>4. b = IF receipts[m].kind = "reuse" THEN receipts[m].base ELSE m
    BY <1>7
  <2> HIDE DEF b
  <2> QED  BY <1>1, <1>2, <2>1, <2>2, <2>3, <2>4
<1> QED  BY <1>2, <1>6, <1>7

LEMMA FinishedObliged == GateInv /\ Finish => MissingWasCancelled'
<1> SUFFICES ASSUME GateInv, Finish
             PROVE  /\ "general" \in policy.obligations
                    /\ \A o \in Derived(surface) \ policy.obligations :
                         \E s \in Surfaces : <<o, s>> \in cancelled /\ o \notin Derived(s)
  BY DEF Finish, MissingWasCancelled, policy_vars, Derived
<1>1. policy # Nil /\ policy.inputs = surface
  BY DEF Finish, GateOpen, PolicyCurrent
<1> QED  BY <1>1 DEF GateInv, PolicyOk

LEMMA FinishedClear == Finish => ClosedHere'
<1> SUFFICES ASSUME Finish, NEW p \in Paths
             PROVE  /\ finding[p] # Opened
                    /\ finding[p] \in Heads => trees[finding[p]][p] = trees[head][p]
  BY DEF Finish, ClosedHere
<1> QED  BY DEF Finish, GateOpen, FindingsClear

(* Only a finish finishes, and afterwards nothing moves. *)
LEMMA FinishedOnly ==
  ASSUME [GateNext]_gateVars
  PROVE  UNCHANGED gateVars \/ Finish \/ status' # "done"
BY DEF GateNext, PolicyStep, ReviewStep, CheckStep, Adopt, StartGoal, Drift, Reassess, Cancel,
       Reviewed, Qualify, ReuseRead, ReuseWrite, Closes, CheckStart, CheckNoted, CheckKilled,
       CheckEnd, Qualified, ReuseJudge, ReuseRun, QueryCi, Commit

(* Every review a finished goal was obliged to passed on what was finished, *)
(* or on a commit that differs from it in files only that a declaration,    *)
(* found good by the challenges, calls unrelated: for any number of commits *)
(* and edits, and whatever is reviewed, qualified or reused between them    *)
(* (evaluateGate, judgeReuseLeg).                                           *)
THEOREM FinishedAsReviewed == GateSpec => []ReviewedUpTo
<1>1. GateInit => ReviewedUpTo
  BY DEF GateInit, ReviewedUpTo
<1>2. GateInv /\ ReviewedUpTo /\ [GateNext]_gateVars => ReviewedUpTo'
  <2> SUFFICES ASSUME GateInv, ReviewedUpTo, [GateNext]_gateVars PROVE ReviewedUpTo'
    OBVIOUS
  <2>1. CASE UNCHANGED gateVars
    BY <2>1 DEF gateVars, policy_vars, review_vars, ReviewedUpTo
  <2>2. CASE status' # "done"
    BY <2>2 DEF ReviewedUpTo
  <2> QED  BY <2>1, <2>2, FinishedOnly, FinishedReviewed
<1> QED  BY <1>1, <1>2, GateStart, GateKept, PTL DEF GateSpec

(* A finished goal rests on the check that was really run last, or a reuse  *)
(* of it, on the inputs last judged, which are those finished but for a     *)
(* commit between their hashing and the note of the candidate; what it was  *)
(* not held to was cancelled when nothing obliged it to; and the files of   *)
(* its closed findings are as they were rechecked.                          *)
THEOREM FinishedOnLatest == GateSpec => []FinishedOnTheLatest
<1>1. GateInit => FinishedOnTheLatest
  BY DEF GateInit, FinishedOnTheLatest, LastRunDecides, MissingWasCancelled, ClosedHere
<1>2. GateInv /\ FinishedOnTheLatest /\ [GateNext]_gateVars => FinishedOnTheLatest'
  <2> SUFFICES ASSUME GateInv, FinishedOnTheLatest, [GateNext]_gateVars PROVE FinishedOnTheLatest'
    OBVIOUS
  <2>1. CASE UNCHANGED gateVars
    <3> USE <2>1 DEF gateVars, policy_vars, review_vars, check_vars, FinishedOnTheLatest
    <3>1. LastRunDecides'
      BY DEF LastRunDecides, Manifest, SameInputs, Decides, Served
    <3>2. MissingWasCancelled'
      BY DEF MissingWasCancelled
    <3>3. ClosedHere'
      BY DEF ClosedHere
    <3> QED  BY <3>1, <3>2, <3>3
  <2>2. CASE status' # "done"
    BY <2>2 DEF FinishedOnTheLatest, LastRunDecides, MissingWasCancelled, ClosedHere
  <2>3. CASE Finish
    BY <2>3, FinishedChecked, FinishedObliged, FinishedClear DEF FinishedOnTheLatest
  <2> QED  BY <2>1, <2>2, <2>3, FinishedOnly
<1> QED  BY <1>1, <1>2, GateStart, GateKept, PTL DEF GateSpec

-----------------------------------------------------------------------------
(* The call of the engine. *)

(* Before the engine is started there is nothing of the call but its descriptor. *)
NotBegun ==
  /\ engine = "unborn" => call.timers = {} /\ heard = {} /\ ~call.cleaned
  /\ engine \in {"unborn", "stillborn"} => kin = "none"

(* A group is struck once; unless that was denied nobody of it is left or comes back. *)
Cleaned ==
  /\ call.denied => call.tree /\ call.cleaned
  /\ call.tree /\ call.cleaned /\ ~call.denied => ~Alive

(* Whatever brings a call to its end struck the group before. *)
StruckFirst ==
  call.tree =>
    /\ call.timers \cap {"after", "error", "grace"} # {} => call.cleaned
    /\ result # "none" => call.aborted \/ engine = "unborn" \/ call.cleaned

DenialIsSaid ==
  call.denied /\ result # "none" => call.aborted \/ result = "cleanup"

CallInv == CallTypeOK /\ NotBegun /\ Cleaned /\ StruckFirst /\ DenialIsSaid

CallRecord ==
  [tree : BOOLEAN, timers : SUBSET {"deadline", "after", "error", "grace"},
   timedOut : BOOLEAN, aborted : BOOLEAN, failed : BOOLEAN,
   cleaned : BOOLEAN, denied : BOOLEAN, cut : BOOLEAN]

(* What KillGroup returns is the call it was given, marked as cleaned. *)
LEMMA KillGroupShape ==
  ASSUME NEW c \in CallRecord, NEW k \in KillGroup(c)
  PROVE  LET cleaned == [c EXCEPT !.cleaned = TRUE]
         IN  \/ c.cleaned /\ k.call = c /\ k.hit = FALSE
             \/ ~c.cleaned /\ k.hit = TRUE /\ k.call = cleaned
             \/ /\ ~c.cleaned /\ k.hit = FALSE /\ c.tree /\ Alive
                /\ k.call = [cleaned EXCEPT !.denied = TRUE]
<1> DEFINE tidy == [c EXCEPT !.cleaned = TRUE]
           denied == [tidy EXCEPT !.denied = TRUE]
<1>0. c.cleaned \in BOOLEAN
  BY DEF CallRecord
<1> HIDE DEF denied
<1>1. \/ c.cleaned /\ k = [call |-> c, hit |-> FALSE]
      \/ ~c.cleaned /\ k = [call |-> tidy, hit |-> TRUE]
      \/ ~c.cleaned /\ c.tree /\ Alive /\ k = [call |-> denied, hit |-> FALSE]
  <2> HIDE DEF tidy
  <2>1. KillGroup(c) = IF c.cleaned THEN {[call |-> c, hit |-> FALSE]}
                       ELSE {[call |-> tidy, hit |-> TRUE]}
                            \cup IF c.tree /\ Alive THEN {[call |-> denied, hit |-> FALSE]} ELSE {}
    BY DEF KillGroup, tidy, denied
  <2> QED  BY <1>0, <2>1
<1> HIDE DEF tidy
<1>2. \/ c.cleaned /\ k.call = c /\ k.hit = FALSE
      \/ ~c.cleaned /\ k.hit = TRUE /\ k.call = tidy
      \/ ~c.cleaned /\ k.hit = FALSE /\ c.tree /\ Alive /\ k.call = denied
  BY <1>1
<1> QED  BY <1>2 DEF tidy, denied

LEMMA OutcomeSaysIt ==
  ASSUME NEW c \in CallRecord, NEW e
  PROVE  /\ Outcome(c, e) \in {"aborted", "cleanup", "spawn", "timeout", "nonzero", "unparsed", "ok"}
         /\ c.denied => c.aborted \/ Outcome(c, e) = "cleanup"
  BY DEF Outcome, CallRecord

(* A handler that strikes the group, if it is to be struck, and goes on with the call as
   marked: what is left of the engine and of the call. *)
LEMMA StruckKeeps ==
  ASSUME CallInv, engine # "unborn", NEW c \in CallRecord, NEW k \in KillGroup(c),
         c.tree = call.tree, c.cleaned = call.cleaned, c.denied = call.denied,
         Struck(k.hit), UNCHANGED said
  PROVE  /\ k.call \in CallRecord /\ k.call.cleaned
         /\ k.call.tree = c.tree /\ k.call.timers = c.timers /\ k.call.aborted = c.aborted
         /\ k.call.denied => k.call.tree
         /\ call.cleaned => k.call = c
         /\ engine' \in {"stillborn", "running", "gone"} /\ kin' \in {"none", "loose", "holding"}
         /\ code' \in {"none", "ok", "bad", "killed"}
         /\ engine' = "stillborn" => kin' = "none"
         /\ k.call.tree /\ ~k.call.denied => engine' # "running" /\ kin' = "none"
<1>1. CASE c.cleaned /\ k.call = c /\ ~k.hit
  BY <1>1 DEF Struck, CallInv, CallTypeOK, NotBegun, Cleaned, Alive
<1>2. CASE ~c.cleaned /\ k.hit /\ k.call = [c EXCEPT !.cleaned = TRUE]
  BY <1>2 DEF Struck, CallInv, CallTypeOK, NotBegun, Cleaned, Alive, CallRecord
<1>3. CASE /\ ~c.cleaned /\ ~k.hit /\ c.tree /\ Alive
           /\ k.call = [[c EXCEPT !.cleaned = TRUE] EXCEPT !.denied = TRUE]
  BY <1>3 DEF Struck, CallInv, CallTypeOK, NotBegun, Cleaned, Alive, CallRecord
<1> QED  BY <1>1, <1>2, <1>3, KillGroupShape

(* Settling once, with a call whose group was struck. *)
LEMMA SettleKeeps ==
  ASSUME CallInv, engine # "unborn", NEW c \in CallRecord, NEW e, Settle(c, e),
         c.denied => c.tree,
         c.tree => c.cleaned,
         result # "none" /\ c.denied => c.aborted \/ result = "cleanup",
         c.tree /\ ~c.denied => engine' # "running" /\ kin' = "none",
         engine' \in {"stillborn", "running", "gone"}, kin' \in {"none", "loose", "holding"},
         code' \in {"none", "ok", "bad", "killed"}, engine' = "stillborn" => kin' = "none",
         said' \in {"nothing", "half", "all"},
         heard' \subseteq {"error", "exit", "close"}
  PROVE  CallInv'
<1>1. CASE result # "none"
  BY <1>1 DEF Settle, CallInv, CallTypeOK, NotBegun, Cleaned, StruckFirst, DenialIsSaid, Alive, CallRecord
<1>2. CASE result = "none"
  <2>1. call' \in CallRecord /\ call'.timers = {} /\ call'.denied = c.denied /\ call'.tree = c.tree
        /\ call'.aborted = c.aborted /\ call'.cleaned = c.cleaned
    BY <1>2 DEF Settle, CallRecord
  <2>2. result' = Outcome(c, e)
    BY <1>2 DEF Settle
  <2> QED
    BY <1>2, <2>1, <2>2, OutcomeSaysIt
    DEF CallInv, CallTypeOK, NotBegun, Cleaned, StruckFirst, DenialIsSaid, Alive, CallRecord
<1> QED  BY <1>1, <1>2

(* Setting a timer behind a struck group. *)
LEMMA LaterKeeps ==
  ASSUME CallInv, engine # "unborn", NEW c \in CallRecord,
         NEW timer \in {"after", "error", "grace"}, Later(c, timer),
         c.denied => c.tree,
         c.tree => c.cleaned,
         result # "none" /\ c.denied => c.aborted \/ result = "cleanup",
         c.tree /\ ~c.denied => engine' # "running" /\ kin' = "none",
         engine' \in {"stillborn", "running", "gone"}, kin' \in {"none", "loose", "holding"},
         code' \in {"none", "ok", "bad", "killed"}, engine' = "stillborn" => kin' = "none",
         said' \in {"nothing", "half", "all"},
         heard' \subseteq {"error", "exit", "close"}
  PROVE  CallInv'
<1>1. call' \in CallRecord /\ call'.denied = c.denied /\ call'.tree = c.tree
      /\ call'.aborted = c.aborted /\ call'.cleaned = c.cleaned
  BY DEF Later, CallRecord
<1> QED
  BY <1>1 DEF Later, CallInv, CallTypeOK, NotBegun, Cleaned, StruckFirst, DenialIsSaid, Alive, CallRecord

(* Each step of the call keeps CallInv. *)
LEMMA CallStep == CallInv /\ [CallNext]_callVars => CallInv'
<1> SUFFICES ASSUME CallInv, [CallNext]_callVars PROVE CallInv'
  OBVIOUS
<1> USE DEF CallInv
<1>0. call \in CallRecord
  BY DEF CallTypeOK, CallRecord
<1>1. CASE Spawn
  BY <1>1 DEF Spawn, CallTypeOK, NotBegun, Cleaned, StruckFirst, DenialIsSaid, Alive
<1>2. CASE Unstarted
  BY <1>2 DEF Unstarted, CallTypeOK, NotBegun, Cleaned, StruckFirst, DenialIsSaid, Alive
<1>3. CASE Write
  BY <1>3 DEF Write, CallTypeOK, NotBegun, Cleaned, StruckFirst, DenialIsSaid, Alive
<1>4. CASE Fork
  BY <1>4 DEF Fork, CallTypeOK, NotBegun, Cleaned, StruckFirst, DenialIsSaid, Alive
<1>5. CASE EngineExits
  BY <1>5 DEF EngineExits, CallTypeOK, NotBegun, Cleaned, StruckFirst, DenialIsSaid, Alive
<1>6. CASE KinExits
  BY <1>6 DEF KinExits, CallTypeOK, NotBegun, Cleaned, StruckFirst, DenialIsSaid, Alive
<1>7. CASE OnAbort
  <2> DEFINE c == [call EXCEPT !.aborted = TRUE]
  <2>1. c \in CallRecord /\ c.tree = call.tree /\ c.cleaned = call.cleaned /\ c.denied = call.denied
        /\ c.aborted
    BY <1>0 DEF CallRecord
  <2>2. PICK k \in KillGroup(c) : Struck(k.hit) /\ Settle(k.call, "none")
    BY <1>7 DEF OnAbort
  <2>3. engine # "unborn" /\ result = "none" /\ said' = said /\ heard' = heard
    BY <1>7 DEF OnAbort
  <2> HIDE DEF c
  <2> QED  BY <2>1, <2>2, <2>3, StruckKeeps, SettleKeeps DEF CallTypeOK
<1>8. CASE OnDeadline
  <2> DEFINE late == [call EXCEPT !.timedOut = TRUE, !.cut = TRUE, !.timers = @ \ {"deadline"}]
  <2>1. late \in CallRecord /\ late.tree = call.tree /\ late.cleaned = call.cleaned
        /\ late.denied = call.denied /\ late.aborted = call.aborted
    BY <1>0 DEF CallRecord
  <2>2. PICK k \in KillGroup(late) : Struck(k.hit) /\ Later(k.call, "after")
    BY <1>8 DEF OnDeadline
  <2>3. engine # "unborn" /\ said' = said /\ heard' = heard
    BY <1>8 DEF OnDeadline, NotBegun
  <2>4. call.tree /\ result # "none" => call.aborted \/ call.cleaned
    BY <2>3 DEF StruckFirst
  <2> HIDE DEF late
  <2>5. result # "none" /\ k.call.denied => k.call.aborted \/ result = "cleanup"
    BY <2>1, <2>2, <2>3, <2>4, StruckKeeps DEF DenialIsSaid
  <2> QED  BY <2>1, <2>2, <2>3, <2>5, StruckKeeps, LaterKeeps DEF CallTypeOK
<1>9. CASE OnError
  <2> DEFINE failed == [call EXCEPT !.failed = TRUE, !.cleaned = @ \/ call.tree]
  <2>1. failed \in CallRecord /\ failed.tree = call.tree /\ failed.denied = call.denied
        /\ failed.aborted = call.aborted /\ (failed.tree => failed.cleaned)
    BY <1>0 DEF CallRecord
  <2>2. Later(failed, "error") /\ heard' \subseteq {"error", "exit", "close"}
        /\ engine = "stillborn" /\ UNCHANGED <<engine, kin, said, code>>
    BY <1>9 DEF OnError, CallTypeOK
  <2> HIDE DEF failed
  <2>3. engine' # "running" /\ kin' = "none"
    BY <2>2 DEF NotBegun
  <2>4. /\ failed.denied => failed.tree
        /\ result # "none" /\ failed.denied => failed.aborted \/ result = "cleanup"
    BY <2>1 DEF Cleaned, DenialIsSaid
  <2> QED  BY <2>1, <2>2, <2>3, <2>4, LaterKeeps DEF CallTypeOK
<1>10. CASE OnExit
  <2> DEFINE c == [call EXCEPT !.timers = @ \ {"deadline"}]
  <2>1. c \in CallRecord /\ c.tree = call.tree /\ c.cleaned = call.cleaned
        /\ c.denied = call.denied /\ c.aborted = call.aborted
    BY <1>0 DEF CallRecord
  <2>2. PICK k \in Reclaimed(c) : Struck(k.hit) /\ Later(k.call, "grace")
    BY <1>10 DEF OnExit
  <2>3. engine # "unborn" /\ said' = said /\ heard' \subseteq {"error", "exit", "close"}
    BY <1>10 DEF OnExit, CallTypeOK
  <2> HIDE DEF c
  <2>4. CASE c.tree
    <3>1. k \in KillGroup(c)
      BY <2>2, <2>4 DEF Reclaimed
    <3>2. result # "none" => call.aborted \/ call.cleaned
      BY <2>1, <2>3, <2>4 DEF StruckFirst
    <3>3. result # "none" /\ k.call.denied => k.call.aborted \/ result = "cleanup"
      BY <2>1, <2>2, <2>3, <3>1, <3>2, StruckKeeps DEF DenialIsSaid
    <3> QED  BY <2>1, <2>2, <2>3, <3>1, <3>3, StruckKeeps, LaterKeeps DEF CallTypeOK
  <2>5. CASE ~c.tree
    <3>1. k.call = c /\ ~k.hit
      BY <2>2, <2>5 DEF Reclaimed
    <3>2. UNCHANGED <<engine, code, kin>>
      BY <2>2, <3>1 DEF Struck
    <3> QED
      BY <2>1, <2>2, <2>3, <2>5, <3>1, <3>2, LaterKeeps DEF CallTypeOK, NotBegun, Cleaned, DenialIsSaid
  <2> QED  BY <2>1, <2>4, <2>5 DEF CallRecord
<1>11. CASE OnClose
  <2>1. PICK k \in Reclaimed(call) : Struck(k.hit) /\ Settle(k.call, code)
    BY <1>11 DEF OnClose
  <2>2. engine # "unborn" /\ said' = said /\ heard' \subseteq {"error", "exit", "close"}
    BY <1>11 DEF OnClose, CallTypeOK, NotBegun
  <2>3. CASE call.tree
    <3>1. k \in KillGroup(call)
      BY <2>1, <2>3 DEF Reclaimed
    <3>2. result # "none" => call.aborted \/ call.cleaned
      BY <2>2, <2>3 DEF StruckFirst
    <3>3. result # "none" /\ k.call.denied => k.call.aborted \/ result = "cleanup"
      BY <1>0, <2>1, <2>2, <3>1, <3>2, StruckKeeps DEF DenialIsSaid
    <3> QED  BY <1>0, <2>1, <2>2, <3>1, <3>3, StruckKeeps, SettleKeeps DEF CallTypeOK
  <2>4. CASE ~call.tree
    <3>1. k.call = call /\ ~k.hit
      BY <2>1, <2>4 DEF Reclaimed
    <3>2. UNCHANGED <<engine, code, kin>>
      BY <2>1, <3>1 DEF Struck
    <3> QED
      BY <1>0, <2>1, <2>2, <2>4, <3>1, <3>2, SettleKeeps DEF CallTypeOK, NotBegun, Cleaned, DenialIsSaid
  <2> QED  BY <1>0, <2>3, <2>4 DEF CallRecord
<1>12. CASE OnTimer
  <2>1. PICK t \in Due :
          Settle([call EXCEPT !.timers = @ \ {t}], IF t = "grace" THEN code ELSE "none")
    BY <1>12 DEF OnTimer
  <2> DEFINE c == [call EXCEPT !.timers = @ \ {t}]
  <2>2. c \in CallRecord /\ c.tree = call.tree /\ c.cleaned = call.cleaned
        /\ c.denied = call.denied /\ c.aborted = call.aborted
    BY <1>0 DEF CallRecord
  <2>3. t \in call.timers /\ t \in {"after", "error", "grace"}
    BY <1>0, <2>1 DEF Due, CallRecord
  <2>4. engine # "unborn" /\ UNCHANGED <<engine, kin, said, code, heard>>
    BY <1>12, <2>3 DEF OnTimer, NotBegun
  <2>5. call.tree => call.cleaned
    BY <2>3 DEF StruckFirst
  <2>6. c.tree /\ ~c.denied => engine' # "running" /\ kin' = "none"
    BY <2>2, <2>4, <2>5 DEF Cleaned, Alive
  <2>7. /\ c.denied => c.tree
        /\ result # "none" /\ c.denied => c.aborted \/ result = "cleanup"
    BY <2>2 DEF Cleaned, DenialIsSaid
  <2>8. Settle(c, IF t = "grace" THEN code ELSE "none")
    BY <2>1
  <2> HIDE DEF c
  <2> QED  BY <2>2, <2>4, <2>5, <2>6, <2>7, <2>8, SettleKeeps DEF CallTypeOK, NotBegun
<1>13. CASE UNCHANGED callVars
  BY <1>13 DEF callVars, CallTypeOK, NotBegun, Cleaned, StruckFirst, DenialIsSaid, Alive
<1> QED
  BY <1>1, <1>2, <1>3, <1>4, <1>5, <1>6, <1>7, <1>8, <1>9, <1>10, <1>11, <1>12, <1>13
  DEF CallNext, Handlers

LEMMA CallAlways == CallSpec => []CallInv
<1>1. ASSUME CallInit PROVE CallInv
  <2>1. PICK tree \in BOOLEAN : call = Called(tree)
    BY <1>1 DEF CallInit
  <2>2. call \in CallRecord /\ call.timers = {} /\ ~call.cleaned /\ ~call.denied
    BY <2>1 DEF Called, CallRecord
  <2> QED
    BY <1>1, <2>2
    DEF CallInit, CallInv, CallTypeOK, CallRecord, NotBegun, Cleaned, StruckFirst, DenialIsSaid, Alive
<1> QED  BY <1>1, CallStep, PTL DEF CallSpec

(* A call keeps its shape through every order of its events (defaultRun,
   src/core/headless.js:190). *)
THEOREM CallTypeCorrect == CallSpec => []CallTypeOK
<1>1. CallInv => CallTypeOK
  BY DEF CallInv
<1> QED  BY <1>1, CallAlways, PTL

(* A call that came back and was not cancelled says in its result when somebody of its
   process group is left, in whatever order exit, close, error and deadline come, and
   though killing the group is tried once only (src/core/headless.js:214). *)
THEOREM LeftoversOfACallAreSaid == CallSpec => [](result # "none" => LeftIsSaid)
<1>1. CallInv => (result # "none" => LeftIsSaid)
  BY DEF CallInv, CallTypeOK, NotBegun, Cleaned, StruckFirst, DenialIsSaid, LeftIsSaid, Alive
<1> QED  BY <1>1, CallAlways, PTL
===========================================================================
