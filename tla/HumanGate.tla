------------------------------ MODULE HumanGate ------------------------------
(***************************************************************************)
(* The word of a human and the gates that wait for it.  A goal without a    *)
(* contract may adopt a plan that was approved; a goal with one may adopt   *)
(* any plan within a contract that was; a merge or a verification of pages  *)
(* needs the contracts of its endpoints approved; a queue item is           *)
(* dispatched when all the contracts it declares are (loop.js, delivery.js, *)
(* contract.js, queue.js).  The only writer of the word is the hook that    *)
(* sees the messages of a user (trigger.js): it reads the goal once, without *)
(* the lock, then the file the code is about, then writes a record.         *)
(*                                                                         *)
(* A contract or a plan is its hash; two hashes have different codes.  A    *)
(* withLock section is one step; what a command reads before it is a step   *)
(* of its own.  Left out: the verdict of the plan reviewer and the form of  *)
(* a plan, which only refuse (GoalLoop), what a dispatch charges (Queue), the *)
(* intents of an act (Delivery), goals without a plan snapshot, records that *)
(* are malformed, the flags a user may give in place of the fields of a      *)
(* delivery contract (the queue gives none), and the ablation switches.     *)
(***************************************************************************)
EXTENDS Naturals, Sequences, FiniteSets

CONSTANTS
  Names, Plans,
  Contracts,  \* contents of a contract file
  Endpoint,   \* of a contract: A, B or C
  Within,     \* <<contract, plan>>: the roots the plan names are in the scope
  Covered,    \* <<contract, plan>>: the plan answers each acceptance, and no other
  Original,   \* what is in the contract files at first
  Sessions,   \* processes that run commands or the queue
  Hooks,      \* messages being handled
  MaxEdits, MaxWords, MaxGoals,  \* bounds
  Nil

ASSUME ContractsAssumption ==
  /\ Endpoint \in [Contracts -> {"A", "B", "C"}]
  /\ Within \subseteq Contracts \X Plans /\ Covered \subseteq Contracts \X Plans
  /\ Original \in [{"own", "B", "C"} -> Contracts]
  /\ Nil \notin Contracts \cup Plans \cup Names
ASSUME BoundsAssumption == MaxEdits \in Nat /\ MaxWords \in Nat /\ MaxGoals \in Nat

VARIABLES
  plan,       \* the plan file
  file,       \* the contract files, Nil when one cannot be read
  goal,       \* goal.json
  item,       \* the queue item
  approvals,  \* loop/approvals: plans approved, under the name of a goal
  auth,       \* authorizations: approvals and withdrawals of contracts
  hook,       \* what each hook is about to record
  cmd,        \* what each command has read before it takes the lock
  stamp,      \* the time of the last record
  void,       \* history: approvals withdrawn by a message that came after them
  asked,      \* history: what a human was asked to approve, and for which goal
  goals, edits

papers == <<plan, file, edits>>
word == <<approvals, auth, hook, stamp, void>>
vars == <<papers, goal, item, word, cmd, asked, goals>>

Eps == {"B", "C"}
Paths == {"own", "B", "C"}
Contents == Contracts \cup {Nil}

Goals == [slug : Names, status : {"planning", "executing", "done", "abandoned"},
          own : Contents, plan : Plans \cup {Nil},
          planAsked : Plans \cup {Nil},                                  \* approvalPending
          asks : [hash : Contracts, path : Paths] \cup {Nil},            \* contractPending
          bound : [Eps -> Contents]]                                      \* delivery

Items == [slug : Names, state : {"waiting", "taken", "over"}, own : Contracts,
          bound : [Eps -> Contents]]

Entries == [kind : {"approval", "withdrawal"}, slug : Names, hash : Contracts, at : 0..MaxWords]

Free == [op |-> "none"]

Init ==
  /\ plan \in Plans /\ file = Original /\ edits = 0
  /\ goal = Nil /\ item = Nil
  /\ approvals = {} /\ auth = <<>> /\ void = {} /\ asked = {}
  /\ hook = [k \in Hooks |-> Nil] /\ cmd = [s \in Sessions |-> Free]
  /\ stamp = 0 /\ goals = 0

----------------------------------------------------------------------------
(* What was said, as the gates read it. *)

Approved(slug, p) == <<slug, p>> \in approvals

About(slug, hash) == {i \in DOMAIN auth : auth[i].slug = slug /\ auth[i].hash = hash}

(* Mutant: an approval stands whatever was said after it. *)
Authorized_once(slug, hash) == \E i \in About(slug, hash) : auth[i].kind = "approval"

(* The record with the latest time counts.  Of records of one millisecond   *)
(* the last by file name does, which begins with the kind.                  *)
Authorized(slug, hash) ==
  \E i \in About(slug, hash) :
    /\ auth[i].kind = "approval"
    /\ \A j \in About(slug, hash) :
         \/ auth[j].at < auth[i].at
         \/ auth[j].at = auth[i].at /\ auth[j].kind = "approval"

(* A contract file is there and all its sections parse. *)
Readable(path) == file[path] # Nil

(* Each acceptance of the contract is answered by the plan, and no other is. *)
Answers(p) == <<file["own"], p>> \in Covered

(* The contract gate of an adoption: the file is the one bound, its word    *)
(* stands, the roots are in its scope, the manifest is the one it names.    *)
ContractGate(p, unmoved) ==
  /\ file["own"] = goal.own
  /\ Authorized(goal.slug, goal.own)
  /\ <<file["own"], p>> \in Within
  /\ unmoved

(* What the unified gate reads of it: the same, of the plan adopted. *)
ContractFacts ==
  /\ goal # Nil /\ goal.own # Nil /\ goal.plan # Nil
  /\ ContractGate(goal.plan, TRUE) /\ Answers(goal.plan)

(* What an act on an endpoint needs: a merge publishes the pages, so it     *)
(* needs both words.                                                        *)
Context(ep) ==
  /\ goal # Nil /\ goal.status \in {"executing", "done"}
  /\ goal.bound[ep] # Nil

(* Mutant: a merge needs the word on the merge only. *)
DeliveryGate_single(ep) == Context(ep) /\ Authorized(goal.slug, goal.bound[ep])

DeliveryGate(ep) ==
  /\ Context(ep)
  /\ goal.bound["C"] # Nil /\ Authorized(goal.slug, goal.bound["C"])
  /\ ep = "B" => Authorized(goal.slug, goal.bound["B"])

Declared(i) == {ep \in Eps : i.bound[ep] # Nil}
ItemGate(i) ==
  /\ Authorized(i.slug, i.own)
  /\ \A ep \in Declared(i) : Authorized(i.slug, i.bound[ep])

----------------------------------------------------------------------------
(* The hook.  A code that is not the one asked for records nothing, nor     *)
(* does one that could mean two things.                                     *)

Target(book, slug, hash, path) ==
  [at |-> "heard", ledger |-> book, kind |-> "approval", slug |-> slug, hash |-> hash,
   path |-> path, time |-> 0, since |-> {}]

OfItem(hash) ==
  IF item # Nil /\ item.state # "over" /\ Cardinality({ep \in Eps : item.bound[ep] = hash}) = 1
  THEN Target("auth", item.slug, hash, CHOOSE ep \in Eps : item.bound[ep] = hash)
  ELSE Nil

(* The contract asked for hides the plan asked for, and both hide the queue. *)
Meant(code) ==
  CASE goal # Nil /\ goal.asks # Nil ->
         IF code = goal.asks.hash THEN Target("auth", goal.slug, code, goal.asks.path) ELSE Nil
    [] goal # Nil /\ goal.asks = Nil /\ goal.planAsked # Nil ->
         IF code = goal.planAsked THEN Target("plan", goal.slug, code, "plan") ELSE Nil
    [] OTHER -> OfItem(code)

Words == Len(auth) + Cardinality(approvals) + Cardinality({k \in Hooks : hook[k] # Nil})

Approve(k, code) ==
  /\ hook[k] = Nil /\ Words < MaxWords
  /\ Meant(code) # Nil
  /\ hook' = [hook EXCEPT ![k] = Meant(code)]
  /\ UNCHANGED <<papers, goal, item, approvals, auth, stamp, void, cmd, asked, goals>>

Bound == {ep \in Eps : goal.bound[ep] # Nil}

(* A withdrawal names a contract of the goal, and exactly one. *)
Withdraw(k, code) ==
  /\ hook[k] = Nil /\ Words < MaxWords
  /\ goal # Nil
  /\ Cardinality({ep \in Bound : goal.bound[ep] = code}) + (IF goal.own = code THEN 1 ELSE 0) = 1
  /\ hook' = [hook EXCEPT ![k] =
       [Target("auth", goal.slug, code, "none") EXCEPT !.kind = "withdrawal",
          !.since = {i \in About(goal.slug, code) : auth[i].kind = "approval"}]]
  /\ UNCHANGED <<papers, goal, item, approvals, auth, stamp, void, cmd, asked, goals>>

(* The file is hashed again and the record gets its time.  When the file is *)
(* another one by now, nothing is recorded.                                 *)
Unchanged(h) ==
  CASE h.kind = "withdrawal" -> TRUE
    [] h.kind = "approval" /\ h.ledger = "plan" -> plan = h.hash
    [] OTHER -> file[h.path] = h.hash

Check(k) ==
  /\ hook[k] # Nil /\ hook[k].at = "heard"
  /\ \/ /\ Unchanged(hook[k])
        /\ \E t \in {stamp, stamp + 1} \cap (0..MaxWords) :
             /\ stamp' = t
             /\ hook' = [hook EXCEPT ![k].at = "checked", ![k].time = t]
     \/ /\ ~Unchanged(hook[k])
        /\ hook' = [hook EXCEPT ![k] = Nil] /\ UNCHANGED stamp
  /\ UNCHANGED <<papers, goal, item, approvals, auth, void, cmd, asked, goals>>

(* Mutant: the record goes to the goal that is there by now. *)
Slug_now(h) == IF goal # Nil /\ h.kind = "approval" THEN goal.slug ELSE h.slug
Slug(h) == h.slug

Record(k) ==
  LET h == hook[k]
  IN  /\ h # Nil /\ h.at = "checked"
      /\ hook' = [hook EXCEPT ![k] = Nil]
      /\ IF h.ledger = "plan"
         THEN approvals' = approvals \cup {<<Slug(h), h.hash>>} /\ UNCHANGED <<auth, void>>
         ELSE /\ auth' = Append(auth, [kind |-> h.kind, slug |-> Slug(h), hash |-> h.hash,
                                       at |-> h.time])
              /\ void' = void \cup h.since
              /\ UNCHANGED approvals
      /\ UNCHANGED <<papers, goal, item, stamp, cmd, asked, goals>>

(* A write of the record fails, or the hook is killed. *)
Lose(k) ==
  /\ hook[k] # Nil /\ hook[k].at = "checked"
  /\ hook' = [hook EXCEPT ![k] = Nil]
  /\ UNCHANGED <<papers, goal, item, approvals, auth, stamp, void, cmd, asked, goals>>

----------------------------------------------------------------------------
(* Anyone edits the plan or a contract. *)

Edit ==
  /\ edits < MaxEdits /\ edits' = edits + 1
  /\ \/ \E p \in Plans \ {plan} : plan' = p /\ UNCHANGED file
     \/ \E path \in Paths : \E c \in Contents \ {file[path]} :
          file' = [file EXCEPT ![path] = c] /\ UNCHANGED plan
  /\ UNCHANGED <<goal, item, word, cmd, asked, goals>>

----------------------------------------------------------------------------
(* The goal. *)

Is(s, op) == cmd[s].op = op
Drop(s) == cmd' = [cmd EXCEPT ![s] = Free]

Registered(slug, own) ==
  [slug |-> slug, status |-> "planning", own |-> own, plan |-> Nil, planAsked |-> Nil,
   asks |-> Nil, bound |-> [ep \in Eps |-> Nil]]

(* The contract is read before the lock; one that cannot be is refused. *)
LoadContract(s, slug, own) ==
  /\ Is(s, "none") /\ own \in {Nil, file["own"]}
  /\ cmd' = [cmd EXCEPT ![s] = [op |-> "register", slug |-> slug, own |-> own]]
  /\ UNCHANGED <<papers, goal, item, word, asked, goals>>

Register(s) ==
  /\ Is(s, "register") /\ Drop(s)
  /\ IF goal = Nil /\ goals < MaxGoals
     THEN goal' = Registered(cmd[s].slug, cmd[s].own) /\ goals' = goals + 1
     ELSE UNCHANGED <<goal, goals>>
  /\ UNCHANGED <<papers, item, word, asked>>

(* A refused adoption leaves the code to ask for in the goal; a plan that   *)
(* does not answer the acceptances leaves nothing.                          *)
AskContract ==
  /\ goal' = [goal EXCEPT !.asks = [hash |-> goal.own, path |-> "own"]]
  /\ asked' = asked \cup {<<goal.slug, goal.own>>}

Adopted == [goal EXCEPT !.plan = plan, !.planAsked = Nil]

(* Mutant: the scope is that of the file, whichever it is. *)
UnderContract_unbound(unmoved) ==
  IF /\ Readable("own") /\ Authorized(goal.slug, goal.own)
     /\ <<file["own"], plan>> \in Within /\ unmoved
  THEN /\ goal' = IF Answers(plan) THEN [Adopted EXCEPT !.asks = Nil] ELSE goal
       /\ UNCHANGED asked
  ELSE AskContract

UnderContract(unmoved) ==
  IF ContractGate(plan, unmoved)
  THEN /\ goal' = IF Answers(plan) THEN [Adopted EXCEPT !.asks = Nil] ELSE goal
       /\ UNCHANGED asked
  ELSE AskContract

OnApproval ==
  IF Approved(goal.slug, plan) THEN goal' = Adopted /\ UNCHANGED asked
  ELSE /\ goal' = [goal EXCEPT !.planAsked = plan]
       /\ asked' = asked \cup {<<goal.slug, plan>>}

HumanWord == IF goal.own = Nil THEN OnApproval ELSE \E unmoved \in BOOLEAN : UnderContract(unmoved)

Adopt ==
  /\ goal # Nil /\ goal.status = "planning"
  /\ HumanWord
  /\ UNCHANGED <<papers, item, word, cmd, goals>>

(* A goal that executes changes its plan for another one only. *)
Supersede ==
  /\ goal # Nil /\ goal.status = "executing" /\ plan # goal.plan
  /\ HumanWord
  /\ UNCHANGED <<papers, item, word, cmd, goals>>

MoveGoal(from, to) ==
  /\ goal # Nil /\ goal.status = from
  /\ goal' = [goal EXCEPT !.status = to]
  /\ UNCHANGED <<papers, item, word, cmd, asked, goals>>

StartLoop == goal # Nil /\ goal.plan # Nil /\ MoveGoal("planning", "executing")
Finish == MoveGoal("executing", "done")
Abandon == MoveGoal("planning", "abandoned") \/ MoveGoal("executing", "abandoned")

(* A goal is removed in any state; the records of the word stay. *)
Reset ==
  /\ goal # Nil /\ goal' = Nil
  /\ UNCHANGED <<papers, item, word, cmd, asked, goals>>

----------------------------------------------------------------------------
(* Delivery.  A request reads the contract before the lock, and binds what   *)
(* it read; an act reads there what it will do, and the gate asks for the    *)
(* word on what is bound.                                                   *)

LoadRequest(s, ep) ==
  /\ Is(s, "none")
  /\ Readable(ep) /\ Endpoint[file[ep]] = ep
  /\ cmd' = [cmd EXCEPT ![s] = [op |-> "request", ep |-> ep, hash |-> file[ep]]]
  /\ UNCHANGED <<papers, goal, item, word, asked, goals>>

BoundTo(ep, hash) ==
  /\ goal' = [goal EXCEPT !.bound[ep] = hash, !.asks = [hash |-> hash, path |-> ep]]
  /\ asked' = asked \cup {<<goal.slug, hash>>}

Bind(s) ==
  /\ Is(s, "request") /\ Drop(s)
  /\ IF goal # Nil /\ goal.status = "executing" THEN BoundTo(cmd[s].ep, cmd[s].hash)
     ELSE UNCHANGED <<goal, asked>>
  /\ UNCHANGED <<papers, item, word, goals>>

ReadTarget(s, ep) ==
  /\ Is(s, "none") /\ Context(ep) /\ Readable(ep)
  /\ cmd' = [cmd EXCEPT ![s] = [op |-> "act", ep |-> ep, target |-> file[ep]]]
  /\ UNCHANGED <<papers, goal, item, word, asked, goals>>

(* The request of a contract whose gate was passed is cleared, no other. *)
Settled(ep) ==
  IF goal.asks # Nil /\ goal.asks.hash = goal.bound[ep]
  THEN [goal EXCEPT !.asks = Nil] ELSE goal

(* The unified gate may refuse too (Gate). *)
Act(s) ==
  /\ Is(s, "act") /\ Drop(s)
  /\ LET ep == cmd[s].ep
     IN  \E open \in BOOLEAN :
           goal' = IF DeliveryGate(ep) /\ open THEN Settled(ep) ELSE goal
  /\ UNCHANGED <<papers, item, word, asked, goals>>

----------------------------------------------------------------------------
(* The queue. *)

Enqueue(slug) ==
  /\ item = Nil
  /\ Readable("own")
  /\ \E eps \in {{}, {"B", "C"}} :
       /\ \A ep \in eps : Readable(ep) /\ Endpoint[file[ep]] = ep
       /\ item' = [slug |-> slug, state |-> "waiting", own |-> file["own"],
                   bound |-> [ep \in Eps |-> IF ep \in eps THEN file[ep] ELSE Nil]]
       /\ asked' = asked \cup {<<slug, file[ep]>> : ep \in eps}
  /\ UNCHANGED <<papers, goal, word, cmd, goals>>

Over == item' = [item EXCEPT !.state = "over"]

(* An item whose delivery contract is another by now is given up. *)
Dispatch(s) ==
  /\ Is(s, "none") /\ item # Nil /\ item.state = "waiting"
  /\ ItemGate(item)
  /\ IF \A ep \in Declared(item) : file[ep] = item.bound[ep]
     THEN /\ item' = [item EXCEPT !.state = "taken"]
          /\ cmd' = [cmd EXCEPT ![s] = [op |-> "queue", at |-> "slot", own |-> Nil]]
     ELSE Over /\ UNCHANGED cmd
  /\ UNCHANGED <<papers, goal, word, asked, goals>>

AtStage(s, stage) == Is(s, "queue") /\ cmd[s].at = stage
ToStage(s, stage) == cmd' = [cmd EXCEPT ![s].at = stage]

(* What a step throws puts the item back; its transaction stays open. *)
GiveUp(s) == item' = [item EXCEPT !.state = "waiting"] /\ Drop(s)

QueueSlot(s) ==
  /\ AtStage(s, "slot")
  /\ \/ goal = Nil /\ ToStage(s, "load") /\ UNCHANGED item
     \/ goal # Nil /\ goal.slug = item.slug /\ ToStage(s, "B") /\ UNCHANGED item
     \/ goal # Nil /\ goal.slug # item.slug /\ goal.status = "executing" /\ Over /\ Drop(s)
     \/ /\ goal # Nil /\ goal.slug # item.slug /\ goal.status # "executing"
        /\ ToStage(s, "clear") /\ UNCHANGED item
  /\ UNCHANGED <<papers, goal, word, asked, goals>>

(* The slot is cleared, whatever became of the goal read there meanwhile; an *)
(* empty one is refused when there is nothing else to clean up either.      *)
QueueClear(s) ==
  /\ AtStage(s, "clear")
  /\ \/ goal' = Nil /\ ToStage(s, "load") /\ UNCHANGED item
     \/ goal = Nil /\ GiveUp(s) /\ UNCHANGED goal
  /\ UNCHANGED <<papers, word, asked, goals>>

QueueLoad(s) ==
  /\ AtStage(s, "load")
  /\ IF Readable("own")
     THEN cmd' = [cmd EXCEPT ![s].at = "register", ![s].own = file["own"]] /\ UNCHANGED item
     ELSE GiveUp(s)
  /\ UNCHANGED <<papers, goal, word, asked, goals>>

QueueRegister(s) ==
  /\ AtStage(s, "register")
  /\ IF goal = Nil /\ goals < MaxGoals
     THEN /\ goal' = Registered(item.slug, cmd[s].own) /\ goals' = goals + 1
          /\ ToStage(s, "adopt") /\ UNCHANGED item
     ELSE GiveUp(s) /\ UNCHANGED <<goal, goals>>
  /\ UNCHANGED <<papers, word, asked>>

QueueAdopt(s) ==
  /\ AtStage(s, "adopt")
  /\ IF goal # Nil /\ goal.status = "planning"
     THEN /\ HumanWord
          /\ \/ goal'.plan = plan /\ goal' # goal /\ goal'.planAsked = Nil /\ goal'.asks = Nil
                /\ ToStage(s, "start") /\ UNCHANGED item
             \/ (goal' = goal \/ goal'.planAsked # Nil \/ goal'.asks # Nil) /\ GiveUp(s)
     ELSE GiveUp(s) /\ UNCHANGED <<goal, asked>>
  /\ UNCHANGED <<papers, word, goals>>

QueueStart(s) ==
  /\ AtStage(s, "start")
  /\ IF goal # Nil /\ goal.status = "planning" /\ goal.plan # Nil
     THEN goal' = [goal EXCEPT !.status = "executing"] /\ ToStage(s, "B") /\ UNCHANGED item
     ELSE GiveUp(s) /\ UNCHANGED goal
  /\ UNCHANGED <<papers, word, asked, goals>>

(* The item binds the contracts it was enqueued with, one after the other.  *)
QueueBind(s, ep) ==
  /\ AtStage(s, ep)
  /\ LET go == IF ep = "B" THEN ToStage(s, "C") /\ UNCHANGED item ELSE Drop(s) /\ UNCHANGED item
     IN  IF item.bound[ep] = Nil THEN go /\ UNCHANGED <<goal, asked>>
         ELSE IF goal # Nil /\ goal.status = "executing"
              THEN go /\ BoundTo(ep, item.bound[ep])
              ELSE GiveUp(s) /\ UNCHANGED <<goal, asked>>
  /\ UNCHANGED <<papers, word, goals>>

----------------------------------------------------------------------------
Human == \E k \in Hooks :
  \/ \E code \in Plans \cup Contracts : Approve(k, code)
  \/ \E code \in Contracts : Withdraw(k, code)
  \/ Check(k) \/ Record(k) \/ Lose(k)

Loop ==
  \/ \E s \in Sessions : \/ \E slug \in Names, own \in Contents : LoadContract(s, slug, own)
                         \/ Register(s)
  \/ Adopt \/ Supersede \/ StartLoop \/ Finish \/ Abandon \/ Reset

Deliver == \E s \in Sessions :
  \/ \E ep \in Eps : LoadRequest(s, ep) \/ ReadTarget(s, ep)
  \/ Bind(s) \/ Act(s)

Queue ==
  \/ \E slug \in Names : Enqueue(slug)
  \/ \E s \in Sessions :
       \/ Dispatch(s) \/ QueueSlot(s) \/ QueueClear(s) \/ QueueLoad(s)
       \/ QueueRegister(s) \/ QueueAdopt(s) \/ QueueStart(s)
       \/ \E ep \in Eps : QueueBind(s, ep)

Next == Edit \/ Human \/ Loop \/ Deliver \/ Queue

Spec == Init /\ [][Next]_vars

----------------------------------------------------------------------------
TypeOK ==
  /\ plan \in Plans /\ file \in [Paths -> Contents]
  /\ goal \in Goals \cup {Nil} /\ item \in Items \cup {Nil}
  /\ approvals \subseteq Names \X Plans
  /\ \A i \in DOMAIN auth : auth[i] \in Entries
  /\ void \subseteq DOMAIN auth

(* An approval that no withdrawal followed: none was sent after it was      *)
(* recorded.                                                                *)
Stands(slug, hash) ==
  \E i \in About(slug, hash) \ void : auth[i].kind = "approval"

(* No gate is open on a contract without a standing approval of a human: an *)
(* adoption, a merge (which needs two), a verification or a dispatch is      *)
(* refused from the record of a withdrawal to the next approval, however    *)
(* the messages of two sessions and the writes of their hooks interleave.   *)
OpenOnAWord ==
  /\ \/ goal # Nil /\ goal.own # Nil /\ ContractGate(plan, TRUE)
     \/ ContractFacts
     => Stands(goal.slug, goal.own)
  /\ \A ep \in Eps : DeliveryGate(ep) =>
       /\ Stands(goal.slug, goal.bound["C"])
       /\ ep = "B" => Stands(goal.slug, goal.bound["B"])
  /\ item # Nil /\ ItemGate(item) =>
       \A c \in {item.own} \cup {item.bound[ep] : ep \in Declared(item)} : Stands(item.slug, c)

(* A human is only ever taken to have approved what was asked of them, for   *)
(* the goal or the item it was asked for, also when the goal in the slot is  *)
(* another one by the time the record is written.                           *)
ApprovedWasAsked ==
  /\ approvals \subseteq asked
  /\ \A i \in DOMAIN auth : auth[i].kind = "approval" => <<auth[i].slug, auth[i].hash>> \in asked

(* What is open is open on the word of a human, and a word opens only what  *)
(* it was asked for.                                                        *)
OpenedOnAWord == OpenOnAWord /\ ApprovedWasAsked

(* A plan is adopted when that text was approved for that goal, or when it  *)
(* is within the contract that was, whatever the contract file is by then.  *)
AdoptedAsApproved ==
  [][goal # Nil /\ goal' # Nil /\ goal'.plan # goal.plan =>
       IF goal.own = Nil THEN <<goal.slug, goal'.plan>> \in approvals \cap asked
       ELSE Stands(goal.slug, goal.own) /\ <<goal.own, goal'.plan>> \in Within \cap Covered]_vars

(* docs/adr/0028: what an act does is in the contract that was approved.    *)
ActsAsApproved ==
  \A s \in Sessions :
    Is(s, "act") /\ DeliveryGate(cmd[s].ep) => cmd[s].target = goal.bound[cmd[s].ep]
=============================================================================
