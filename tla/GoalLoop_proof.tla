--------------------------- MODULE GoalLoop_proof ---------------------------
(***************************************************************************)
(* What GoalLoop guarantees of its files for any goals, plans, trees and     *)
(* bounds, in this order: they are well formed; "done" is said only of an   *)
(* attempt that is proved and closed; no two attempts are active and none   *)
(* comes back; goal.json and the ledger agree on the evidence; what an      *)
(* attestation cites; and, of all files together, the promise of            *)
(* GoalPromise.  Each part rests on the invariants of the parts before it.  *)
(***************************************************************************)
EXTENDS GoalLoop, WellFoundedInduction, TLAPS

-----------------------------------------------------------------------------
(* The greatest of a bounded set of numbers exists, so Latest finds it. *)

NatLess == {ss \in Nat \X Nat : ss[1] < ss[2]}

(* The order on the natural numbers is well founded. *)
LEMMA NatLessWF == IsWellFoundedOn(NatLess, Nat)
BY NatLessThanWellFounded DEF NatLess, OpToRel

(* A non-empty set of natural numbers has a least element. *)
LEMMA LeastExists ==
  ASSUME NEW D, D \subseteq Nat, D # {}
  PROVE  \E d \in D : \A e \in D : d <= e
<1>1. PICK d \in D : \A e \in D : <<e, d>> \notin NatLess
  BY NatLessWF, WFMin, Zenon
<1>2. ASSUME NEW e \in D PROVE d <= e
  <2>1. ~(e < d)  BY <1>1 DEF NatLess
  <2> QED  BY <2>1
<1> QED  BY <1>2

(* Latest is 0 of nothing and otherwise the greatest element: this is how   *)
(* the ledger picks the current one of several nodes.                       *)
LEMMA LatestIsGreatest ==
  ASSUME NEW N \in Nat, NEW ids, ids \subseteq 0..N
  PROVE  /\ Latest(ids) \in 0..N
         /\ ids = {} => Latest(ids) = 0
         /\ ids # {} => Latest(ids) \in ids /\ \A j \in ids : j <= Latest(ids)
<1>1. CASE ids = {}
  BY <1>1 DEF Latest
<1>2. CASE ids # {}
  <2> DEFINE D == {N - x : x \in ids}
  <2>a. \A x \in ids : N - x \in Nat  OBVIOUS
  <2>1. D \subseteq Nat /\ D # {}  BY <1>2, <2>a
  <2> HIDE DEF D
  <2>2. PICK d \in D : \A e \in D : d <= e  BY <2>1, LeastExists
  <2>3. PICK x \in ids : d = N - x  BY <2>2 DEF D
  <2>4. \A y \in ids : y <= x
    <3> SUFFICES ASSUME NEW y \in ids PROVE y <= x  OBVIOUS
    <3>1. N - y \in D  BY DEF D
    <3> QED  BY <3>1, <2>2, <2>3
  <2>5. \E i \in ids : \A j \in ids : j <= i  BY <2>4
  <2> QED  BY <1>2, <2>5 DEF Latest
<1> QED  BY <1>1, <1>2

-----------------------------------------------------------------------------
(* Type correctness. *)

(* Which files exist together: a goal, or a goal about to be written, has   *)
(* its lineage, and a finish works on an open goal with nothing to write.   *)
Linked ==
  /\ goal # None => lineage # None
  /\ pending.goal # None /\ pending.lineage = None => lineage # None
  /\ finish # None => goal # None /\ pending = Nothing

Shape == TypeOK /\ Linked

(* What a command leaves to write. *)
PendingType ==
  [dag : DagFile \cup {None}, attest : Attestation \cup {None},
   lineage : LineageFile \cup {None}, goal : GoalFile \cup {None}]

LEMMA NothingType == Nothing \in PendingType
BY DEF Nothing, PendingType

(* The lookups in the ledger return a node, or 0. *)
LEMMA LookupType ==
  ASSUME TypeOK, NEW ids, ids \subseteq DOMAIN dag.nodes
  PROVE  /\ Latest(ids) \in 0..Len(dag.nodes)
         /\ Latest(ids) # 0 => Latest(ids) \in ids
<1>1. dag.nodes \in Seq(Node)  BY DEF TypeOK, DagFile
<1>2. DOMAIN dag.nodes = 1..Len(dag.nodes) /\ Len(dag.nodes) \in Nat  BY <1>1
<1>3. ids \subseteq 0..Len(dag.nodes)  BY <1>2
<1> QED  BY <1>2, <1>3, LatestIsGreatest

LEMMA AnchorType ==
  ASSUME TypeOK, NEW f
  PROVE  /\ Anchor(f) \in Nat
         /\ Anchor(f) # 0 => Anchor(f) \in DOMAIN dag.nodes
<1> DEFINE gen == IF goal.gen[f] = 0 THEN 1 ELSE goal.gen[f]
           ids == {i \in Greens(f) : dag.nodes[i].gen = gen}
<1>1. ids \subseteq DOMAIN dag.nodes  BY DEF Greens, Nodes
<1>2. Anchor(f) = Latest(ids)  BY DEF Anchor
<1> HIDE DEF ids
<1>3. dag.nodes \in Seq(Node)  BY DEF TypeOK, DagFile
<1> QED  BY <1>1, <1>2, <1>3, LookupType

LEMMA ComparatorType == ASSUME TypeOK PROVE Comparator \in Nat
<1> DEFINE ids == {i \in Nodes({"comparator"}) : /\ dag.nodes[i].slug = goal.slug
                                                 /\ dag.nodes[i].plan = goal.plan}
<1>1. ids \subseteq DOMAIN dag.nodes  BY DEF Nodes
<1>2. Comparator = Latest(ids)  BY DEF Comparator
<1> HIDE DEF ids
<1>3. dag.nodes \in Seq(Node)  BY DEF TypeOK, DagFile
<1> QED  BY <1>1, <1>2, <1>3, LookupType

(* Appending a node, with edges among the nodes there then are, gives a     *)
(* ledger.                                                                  *)
LEMMA WithNodeType ==
  ASSUME TypeOK, NEW node \in Node, NEW edges,
         edges \subseteq (1..NewId) \X (1..NewId)
  PROVE  WithNode(node, edges) \in DagFile
<1>1. /\ dag.nodes \in Seq(Node) /\ dag.redOf \in SUBSET (Nat \X Nat)
      /\ dag.redOf \subseteq (DOMAIN dag.nodes) \X (DOMAIN dag.nodes)
  BY DEF TypeOK, DagFile
<1>2. Append(dag.nodes, node) \in Seq(Node)  BY <1>1
<1>3. DOMAIN dag.nodes = 1..Len(dag.nodes) /\ Len(dag.nodes) \in Nat  BY <1>1
<1>4. DOMAIN Append(dag.nodes, node) = 1..NewId  BY <1>1, <1>3 DEF NewId
<1>5. NewId \in Nat  BY <1>3 DEF NewId
<1>6. (DOMAIN dag.nodes) \X (DOMAIN dag.nodes) \subseteq (1..NewId) \X (1..NewId)
  BY <1>3 DEF NewId
<1>7. edges \cup dag.redOf \subseteq (1..NewId) \X (1..NewId)  BY <1>1, <1>6
<1>8. edges \cup dag.redOf \in SUBSET (Nat \X Nat)  BY <1>1, <1>5
<1> QED  BY <1>2, <1>4, <1>7, <1>8 DEF WithNode, DagFile

(* Setting the status of an attempt gives a lineage. *)
LEMMA WithStatusType ==
  ASSUME NEW l \in LineageFile, NEW n \in Attempts,
         NEW v \in {"active", "superseded", "completed", "abandoned"}
  PROVE  /\ [l EXCEPT !.status = WithStatus(@, n, v)] \in LineageFile
         /\ WithStatus(l.status, n, v)
              \in UNION {[D -> {"active", "superseded", "completed", "abandoned"}] :
                           D \in SUBSET Attempts}
<1> DEFINE S == {"active", "superseded", "completed", "abandoned"}
           st == WithStatus(l.status, n, v)
<1>1. PICK D \in SUBSET Attempts : l.status \in [D -> S]  BY DEF LineageFile
<1>2. st \in [D \cup {n} -> S]  BY <1>1 DEF WithStatus
<1>3. D \cup {n} \in SUBSET Attempts  BY <1>1
<1>4. st \in UNION {[E -> S] : E \in SUBSET Attempts}  BY <1>2, <1>3
<1> HIDE DEF st
<1>5. [l EXCEPT !.status = st] \in LineageFile  BY <1>4 DEF LineageFile
<1> QED  BY <1>4, <1>5 DEF st

(* The attempts the ledger and the lineage know. *)
LEMMA StampsType == ASSUME TypeOK, NEW s PROVE StampsOf(s) \cup AttemptsOf(s) \subseteq Attempts
<1>1. StampsOf(s) \subseteq Attempts
  <2>1. dag.nodes \in Seq(Node)  BY DEF TypeOK, DagFile
  <2>2. SUFFICES ASSUME NEW i \in DOMAIN dag.nodes,
                        dag.nodes[i].kind \in {"plan", "green", "red", "waived"}
                 PROVE  dag.nodes[i].attempt \in Attempts
    BY DEF StampsOf, Nodes
  <2>3. dag.nodes[i] \in Node  BY <2>1
  <2> QED  BY <2>2, <2>3 DEF Node
<1>2. AttemptsOf(s) \subseteq Attempts
  <2>1. CASE lineage # None /\ lineage.slug = s
    <3>1. lineage \in LineageFile  BY <2>1 DEF TypeOK
    <3> QED  BY <2>1, <3>1 DEF AttemptsOf, LineageFile
  <2>2. CASE ~(lineage # None /\ lineage.slug = s)  BY <2>2 DEF AttemptsOf
  <2> QED  BY <2>1, <2>2
<1> QED  BY <1>1, <1>2

(* A new attempt is above 0. *)
LEMMA NextAttemptType == ASSUME TypeOK, NEW s PROVE NextAttempt(s) \in Nat \ {0}
<1> DEFINE ids == StampsOf(s) \cup AttemptsOf(s)
<1>1. MaxAttempts \in Nat  BY BoundsAssumption
<1>2. ids \subseteq 0..MaxAttempts  BY <1>1, StampsType DEF Attempts
<1>3. Latest(ids) \in 0..MaxAttempts  BY <1>1, <1>2, LatestIsGreatest
<1>4. NextAttempt(s) = Latest(ids) + 1  BY DEF NextAttempt
<1> HIDE DEF ids
<1> QED  BY <1>1, <1>3, <1>4

LEMMA RegisteredType ==
  ASSUME TypeOK, NEW s \in Slugs, NEW n \in Attempts
  PROVE  Registered(s, n) \in LineageFile
<1> DEFINE S == {"active", "superseded", "completed", "abandoned"}
           U == UNION {[D -> S] : D \in SUBSET Attempts}
<1>1. CASE AttemptsOf(s) # {}
  <2>1. lineage \in LineageFile  BY <1>1 DEF AttemptsOf, TypeOK
  <2>2. PICK D \in SUBSET Attempts : lineage.status \in [D -> S]  BY <2>1 DEF LineageFile
  <2>3. Retired(lineage.status) \in [D -> S]  BY <2>2 DEF Retired
  <2>4. WithStatus(Retired(lineage.status), n, "active") \in [D \cup {n} -> S]
    BY <2>3 DEF WithStatus
  <2>5. WithStatus(Retired(lineage.status), n, "active") \in U
    <3>1. D \cup {n} \in SUBSET Attempts  OBVIOUS
    <3> QED  BY <3>1, <2>4
  <2>6. Registered(s, n) = [slug |-> s, status |-> WithStatus(Retired(lineage.status), n, "active")]
    BY <1>1 DEF Registered
  <2> HIDE DEF U
  <2>7. [slug |-> s, status |-> WithStatus(Retired(lineage.status), n, "active")]
          \in [slug : Slugs, status : U]
    BY <2>5
  <2> QED  BY <2>6, <2>7 DEF LineageFile, U
<1>2. CASE AttemptsOf(s) = {}
  <2>1. [k \in {n} |-> "active"] \in [{n} -> S]  OBVIOUS
  <2>2. [k \in {n} |-> "active"] \in U
    <3>1. {n} \in SUBSET Attempts  OBVIOUS
    <3> QED  BY <3>1, <2>1
  <2>3. Registered(s, n) = [slug |-> s, status |-> [k \in {n} |-> "active"]]
    BY <1>2 DEF Registered
  <2> HIDE DEF U
  <2>4. [slug |-> s, status |-> [k \in {n} |-> "active"]] \in [slug : Slugs, status : U]
    BY <2>2
  <2> QED  BY <2>3, <2>4 DEF LineageFile, U
<1> QED  BY <1>1, <1>2

LEMMA SupersededByType ==
  ASSUME TypeOK, goal # None, lineage # None, NEW to \in Attempts
  PROVE  SupersededBy(to) \in LineageFile
<1>1. goal.attempt \in Attempts  BY DEF TypeOK, GoalFile
<1>2. lineage \in LineageFile  BY DEF TypeOK
<1> DEFINE st == WithStatus(lineage.status, goal.attempt, "superseded")
           l  == [lineage EXCEPT !.status = st]
<1>3. l \in LineageFile /\ l.status = st
  BY <1>1, <1>2, WithStatusType DEF LineageFile
<1>4. [l EXCEPT !.status = WithStatus(@, to, "active")] \in LineageFile
  BY <1>3, WithStatusType
<1>5. SupersededBy(to) = [lineage EXCEPT !.status = WithStatus(st, to, "active")]
  BY <1>2 DEF SupersededBy, LineageFile
<1>6. [lineage EXCEPT !.status = WithStatus(st, to, "active")]
        = [l EXCEPT !.status = WithStatus(@, to, "active")]
  BY <1>2, <1>3 DEF LineageFile
<1> QED  BY <1>4, <1>5, <1>6

(* The goal files the commands write. *)
LEMMA GoalFileType ==
  ASSUME TypeOK, goal # None
  PROVE  /\ goal \in GoalFile
         /\ \A p \in Plans, n \in Attempts : Adopted(p, n) \in GoalFile
         /\ \A st \in {"executing", "done", "abandoned"} :
              [goal EXCEPT !.status = st] \in GoalFile
         /\ [goal EXCEPT !.tier = "heavy"] \in GoalFile
         /\ \A s \in Works : [goal EXCEPT !.done = @ \cup {s}] \in GoalFile
         /\ \A f \in Finals :
              [goal EXCEPT !.done = @ \cup {f}, !.gen[f] = CaptureGen(f), !.fp[f] = tree]
                \in GoalFile
<1>1. goal \in GoalFile /\ tree \in Trees  BY DEF TypeOK
<1>2. ASSUME NEW p \in Plans, NEW n \in Attempts PROVE Adopted(p, n) \in GoalFile
  BY <1>1 DEF Adopted, Fresh, GoalFile
<1>3. ASSUME NEW st \in {"executing", "done", "abandoned"}
      PROVE  [goal EXCEPT !.status = st] \in GoalFile
  BY <1>1 DEF GoalFile
<1>4. [goal EXCEPT !.tier = "heavy"] \in GoalFile  BY <1>1 DEF GoalFile
<1>5. ASSUME NEW s \in Steps PROVE [goal EXCEPT !.done = @ \cup {s}] \in GoalFile
  BY <1>1 DEF GoalFile
<1>6. ASSUME NEW f \in Finals
      PROVE  [goal EXCEPT !.done = @ \cup {f}, !.gen[f] = CaptureGen(f), !.fp[f] = tree]
               \in GoalFile
  <2> DEFINE gn == [goal.gen EXCEPT ![f] = CaptureGen(f)]
             fps == [goal.fp EXCEPT ![f] = tree]
  <2>1. gn \in [Finals -> Nat]  BY <1>1 DEF GoalFile, CaptureGen
  <2>2. fps \in [Finals -> Trees \cup {None}]  BY <1>1 DEF GoalFile
  <2>3. goal.done \cup {f} \in SUBSET Steps  BY <1>1 DEF GoalFile, Steps
  <2>4. [goal EXCEPT !.done = @ \cup {f}, !.gen[f] = CaptureGen(f), !.fp[f] = tree]
          = [goal EXCEPT !.done = goal.done \cup {f}, !.gen = gn, !.fp = fps]
    BY <1>1 DEF GoalFile
  <2> HIDE DEF gn, fps
  <2> QED  BY <1>1, <2>1, <2>2, <2>3, <2>4 DEF GoalFile
<1>7. Works \subseteq Steps  BY DEF Steps
<1> QED  BY <1>1, <1>2, <1>3, <1>4, <1>5, <1>6, <1>7

(* Every file it has written is off its list. *)
LEMMA WrittenType ==
  ASSUME TypeOK, NEW file \in {"dag", "attest", "lineage", "goal"}
  PROVE  [pending EXCEPT ![file] = None] \in PendingType
BY DEF TypeOK, PendingType

(* In Register, Adopt, Supersede, CompleteFinal, FinishGate and Abandon. *)
LEMMA QueuedType ==
  ASSUME NEW d \in DagFile \cup {None}, NEW a \in Attestation \cup {None},
         NEW l \in LineageFile \cup {None}, NEW g \in GoalFile
  PROVE  /\ [Nothing EXCEPT !.lineage = l, !.goal = g] \in PendingType
         /\ [Nothing EXCEPT !.dag = d, !.goal = g] \in PendingType
         /\ [Nothing EXCEPT !.dag = d, !.lineage = l, !.goal = g] \in PendingType
         /\ [Nothing EXCEPT !.attest = a, !.lineage = l, !.goal = g] \in PendingType
BY DEF Nothing, PendingType

(* What finish attests. *)
LEMMA AttestationType ==
  ASSUME TypeOK, goal # None, finish \in FinishStage
  PROVE  FinalAttestation \in Attestation
<1>1. [f \in Finals |-> Anchor(f)] \in [Finals -> Nat]  BY AnchorType
<1>2. (IF goal.tier = "heavy" THEN Comparator ELSE 0) \in Nat  BY ComparatorType
<1>3. goal \in GoalFile /\ era \in Nat  BY DEF TypeOK
<1>4. /\ goal.slug \in Slugs /\ goal.attempt \in Attempts
      /\ goal.plan \in Plans \cup {None} /\ goal.tier \in {"light", "heavy"}
  BY <1>3 DEF GoalFile
<1>5. finish.fp \in Trees /\ finish.head \in Trees \cup {None}  BY DEF FinishStage
<1> QED  BY <1>1, <1>2, <1>3, <1>4, <1>5 DEF FinalAttestation, Attestation

(* A new node of each command. *)
LEMMA NodesType ==
  ASSUME TypeOK, goal # None
  PROVE  /\ \A p \in Plans, n \in Attempts : WithNode(PlanNode(p, n), {}) \in DagFile
         /\ \A f \in Finals, h \in Harnesses :
              WithNode([kind |-> "green", slug |-> goal.slug, step |-> f,
                        gen |-> CaptureGen(f), attempt |-> goal.attempt,
                        tree |-> tree, harness |-> h, era |-> era],
                       {<<r, NewId>> : r \in Halves(f)}) \in DagFile
         /\ \A f \in Finals, half \in HalfKinds, h \in Harnesses :
              WithNode([kind |-> half, slug |-> goal.slug, step |-> f, attempt |-> goal.attempt,
                        harness |-> IF half = "red" THEN h ELSE None, era |-> era],
                       IF goal.gen[f] > 0 /\ Anchor(f) # 0 THEN {<<NewId, Anchor(f)>>} ELSE {})
                \in DagFile
         /\ \A items \in [Finals -> DOMAIN dag.nodes], match \in Verdicts :
              WithNode([kind |-> "comparator", slug |-> goal.slug, plan |-> goal.plan,
                        match |-> match, tree |-> tree, items |-> items], {}) \in DagFile
<1>1. goal \in GoalFile /\ tree \in Trees /\ era \in Nat  BY DEF TypeOK
<1>2. dag.nodes \in Seq(Node)  BY DEF TypeOK, DagFile
<1>3. DOMAIN dag.nodes = 1..Len(dag.nodes) /\ Len(dag.nodes) \in Nat /\ NewId = Len(dag.nodes) + 1
  BY <1>2 DEF NewId
<1>4. DOMAIN dag.nodes \subseteq 1..NewId /\ NewId \in 1..NewId  BY <1>3
<1>5. ASSUME NEW p \in Plans, NEW n \in Attempts
      PROVE  WithNode(PlanNode(p, n), {}) \in DagFile
  <2>1. PlanNode(p, n) \in Node  BY <1>1 DEF PlanNode, Node, GoalFile
  <2> QED  BY <2>1, WithNodeType
<1>6. ASSUME NEW f \in Finals, NEW h \in Harnesses
      PROVE  WithNode([kind |-> "green", slug |-> goal.slug, step |-> f,
                       gen |-> CaptureGen(f), attempt |-> goal.attempt,
                       tree |-> tree, harness |-> h, era |-> era],
                      {<<r, NewId>> : r \in Halves(f)}) \in DagFile
  <2>1. CaptureGen(f) \in Nat \ {0}  BY <1>1 DEF CaptureGen, GoalFile
  <2>2. goal.slug \in Slugs /\ goal.attempt \in Attempts  BY <1>1 DEF GoalFile
  <2>3. [kind |-> "green", slug |-> goal.slug, step |-> f,
         gen |-> CaptureGen(f), attempt |-> goal.attempt,
         tree |-> tree, harness |-> h, era |-> era] \in Node
    BY <1>1, <2>1, <2>2 DEF Node
  <2>4. {<<r, NewId>> : r \in Halves(f)} \subseteq (1..NewId) \X (1..NewId)
    <3>1. Halves(f) \subseteq DOMAIN dag.nodes  BY DEF Halves, Nodes
    <3> QED  BY <3>1, <1>4
  <2> QED  BY <2>3, <2>4, WithNodeType
<1>7. ASSUME NEW f \in Finals, NEW half \in HalfKinds, NEW h \in Harnesses
      PROVE  WithNode([kind |-> half, slug |-> goal.slug, step |-> f, attempt |-> goal.attempt,
                       harness |-> IF half = "red" THEN h ELSE None, era |-> era],
                      IF goal.gen[f] > 0 /\ Anchor(f) # 0 THEN {<<NewId, Anchor(f)>>} ELSE {})
               \in DagFile
  <2> DEFINE edges == IF goal.gen[f] > 0 /\ Anchor(f) # 0 THEN {<<NewId, Anchor(f)>>} ELSE {}
  <2>1. half \in {"red", "waived"}  BY InputsAssumption
  <2>2. goal.slug \in Slugs /\ goal.attempt \in Attempts  BY <1>1 DEF GoalFile
  <2>3. [kind |-> half, slug |-> goal.slug, step |-> f, attempt |-> goal.attempt,
         harness |-> IF half = "red" THEN h ELSE None, era |-> era] \in Node
    BY <1>1, <2>1, <2>2 DEF Node
  <2>4. edges \subseteq (1..NewId) \X (1..NewId)
    <3>1. Anchor(f) # 0 => Anchor(f) \in 1..NewId  BY <1>4, AnchorType
    <3> QED  BY <3>1, <1>4
  <2> QED  BY <2>3, <2>4, WithNodeType
<1>8. ASSUME NEW items \in [Finals -> DOMAIN dag.nodes], NEW match \in Verdicts
      PROVE  WithNode([kind |-> "comparator", slug |-> goal.slug, plan |-> goal.plan,
                       match |-> match, tree |-> tree, items |-> items], {}) \in DagFile
  <2>1. match \in BOOLEAN  BY InputsAssumption
  <2>2. goal.slug \in Slugs /\ goal.plan \in Plans \cup {None}  BY <1>1 DEF GoalFile
  <2>3. items \in [Finals -> Nat \ {0}]  BY <1>3
  <2>4. [kind |-> "comparator", slug |-> goal.slug, plan |-> goal.plan,
         match |-> match, tree |-> tree, items |-> items] \in Node
    BY <1>1, <2>1, <2>2, <2>3 DEF Node
  <2> QED  BY <2>4, WithNodeType
<1> QED  BY <1>5, <1>6, <1>7, <1>8

LEMMA ShapeInit == Init => Shape
<1> SUFFICES ASSUME Init PROVE Shape  OBVIOUS
<1>1. dag \in DagFile  BY DEF Init, DagFile
<1>2. pending \in PendingType  BY NothingType DEF Init
<1> QED  BY <1>1, <1>2 DEF Init, Shape, TypeOK, Linked, PendingType, Nothing

LEMMA ShapeStep == Shape /\ [Next]_vars => Shape'
<1> SUFFICES ASSUME Shape, [Next]_vars PROVE Shape'  OBVIOUS
<1> USE DEF Shape
<1>t. /\ goal \in GoalFile \cup {None} /\ dag \in DagFile
      /\ lineage \in LineageFile \cup {None} /\ attests \subseteq Attestation
      /\ tree \in Trees /\ era \in Nat /\ finish \in FinishStage \cup {None}
      /\ pending \in PendingType
  BY DEF TypeOK, PendingType
<1>n. pending = Nothing => pending.goal = None /\ pending.lineage = None  BY DEF Nothing
<1>s. ASSUME goal' \in GoalFile, goal # None,
             UNCHANGED <<dag, lineage, attests, tree, finish, pending, era>>
      PROVE  Shape'
  BY <1>s, <1>t, NoneAssumption DEF TypeOK, Linked, PendingType
<1>d. ASSUME dag' \in DagFile,
             UNCHANGED <<goal, lineage, attests, tree, finish, pending, era>>
      PROVE  Shape'
  BY <1>d, <1>t DEF TypeOK, Linked, PendingType
<1>q. ASSUME pending' \in PendingType, Untouched, Idle,
             pending'.lineage = None => lineage # None
      PROVE  Shape'
  BY <1>q, <1>t DEF TypeOK, Linked, PendingType, Untouched, Idle
<1>f. ASSUME finish' \in FinishStage \cup {None}, finish # None \/ (Idle /\ goal # None),
             UNCHANGED <<goal, dag, lineage, attests, tree, pending, era>>
      PROVE  Shape'
  BY <1>f, <1>t DEF TypeOK, Linked, PendingType, Idle
<1>1. ASSUME NEW s \in Slugs, NEW tier \in Tiers, Register(s, tier) PROVE Shape'
  <2> DEFINE n == NextAttempt(s)
             l == Registered(s, n)
             g == [slug |-> s, status |-> "planning", tier |-> tier, attempt |-> n,
                   plan |-> None, done |-> {}, gen |-> Fresh.gen, fp |-> Fresh.fp]
  <2>1. n \in Attempts  BY <1>1, NextAttemptType, BoundsAssumption DEF Register, Attempts
  <2>2. l \in LineageFile  BY <2>1, RegisteredType
  <2>3. g \in GoalFile  BY <2>1, InputsAssumption DEF GoalFile, Fresh
  <2>4. pending' = [Nothing EXCEPT !.lineage = l, !.goal = g] /\ Untouched /\ Idle
    BY <1>1 DEF Register
  <2> HIDE DEF n, l, g
  <2>5. pending' \in PendingType  BY <2>2, <2>3, <2>4, QueuedType
  <2>6. pending'.lineage = l  BY <2>4 DEF Nothing
  <2> QED  BY <2>2, <2>4, <2>5, <2>6, <1>q, NoneAssumption
<1>2. ASSUME NEW p \in Plans, Adopt(p) PROVE Shape'
  <2> DEFINE d == WithNode(PlanNode(p, goal.attempt), {})
             l == IF goal.attempt \in DOMAIN lineage.status
                  THEN lineage ELSE LineageWith(goal.attempt, "active")
             g == Adopted(p, goal.attempt)
  <2>1. goal # None /\ goal.attempt \in Attempts /\ lineage \in LineageFile
    BY <1>2, <1>t DEF Adopt, GoalFile, Linked
  <2>2. l \in LineageFile  BY <2>1, WithStatusType DEF LineageWith
  <2>3. g \in GoalFile /\ d \in DagFile  BY <2>1, GoalFileType, NodesType
  <2>4. pending' = [Nothing EXCEPT !.dag = d, !.lineage = l, !.goal = g] /\ Untouched /\ Idle
    BY <1>2 DEF Adopt
  <2> HIDE DEF d, l, g
  <2>5. pending' \in PendingType  BY <2>2, <2>3, <2>4, QueuedType
  <2>6. lineage # None  BY <2>1, NoneAssumption
  <2> QED  BY <2>4, <2>5, <2>6, <1>q
<1>3. ASSUME NEW p \in Plans, Supersede(p) PROVE Shape'
  <2> DEFINE m == NextOf(goal.attempt)
             d == WithNode(PlanNode(p, m), {})
             l == SupersededBy(m)
             g == Adopted(p, m)
  <2>1. goal # None /\ lineage # None /\ m \in Attempts
    BY <1>3, <1>t, BoundsAssumption DEF Supersede, GoalFile, Linked, NextOf, Attempts
  <2>2. l \in LineageFile  BY <2>1, SupersededByType
  <2>3. g \in GoalFile /\ d \in DagFile  BY <2>1, GoalFileType, NodesType
  <2>4. pending' = [Nothing EXCEPT !.dag = d, !.lineage = l, !.goal = g] /\ Untouched /\ Idle
    BY <1>3 DEF Supersede
  <2> HIDE DEF m, d, l, g
  <2>5. pending' \in PendingType  BY <2>2, <2>3, <2>4, QueuedType
  <2> QED  BY <2>1, <2>4, <2>5, <1>q
<1>4. ASSUME NEW s \in Works, CompleteWork(s) PROVE Shape'
  <2>1. goal # None  BY <1>4 DEF CompleteWork, Open
  <2>2. [goal EXCEPT !.done = @ \cup {s}] \in GoalFile  BY <2>1, GoalFileType
  <2> QED  BY <1>4, <2>1, <2>2, <1>s DEF CompleteWork, SaveGoal
<1>5. ASSUME NEW f \in Finals, NEW h \in Harnesses, CompleteFinal(f, h) PROVE Shape'
  <2> DEFINE d == WithNode([kind |-> "green", slug |-> goal.slug, step |-> f,
                            gen |-> CaptureGen(f), attempt |-> goal.attempt,
                            tree |-> tree, harness |-> h, era |-> era],
                           {<<r, NewId>> : r \in Halves(f)})
             g == [goal EXCEPT !.done = @ \cup {f}, !.gen[f] = CaptureGen(f), !.fp[f] = tree]
  <2>1. goal # None /\ lineage # None  BY <1>5 DEF CompleteFinal, Open, Linked
  <2>2. g \in GoalFile  BY <2>1, GoalFileType
  <2>3. d \in DagFile  BY <2>1, NodesType
  <2>4. pending' = [Nothing EXCEPT !.dag = d, !.goal = g] /\ Untouched /\ Idle
    BY <1>5 DEF CompleteFinal, Open
  <2> HIDE DEF d, g
  <2>5. pending' \in PendingType  BY <2>2, <2>3, <2>4, QueuedType
  <2> QED  BY <2>1, <2>4, <2>5, <1>q
<1>6. ASSUME NEW f \in Finals, NEW half \in HalfKinds, NEW h \in Harnesses,
             RecordHalf(f, half, h)
      PROVE  Shape'
  <2>1. goal # None  BY <1>6 DEF RecordHalf, Open
  <2>2. dag' \in DagFile  BY <1>6, <2>1, NodesType DEF RecordHalf, SaveDag
  <2> QED  BY <1>6, <2>2, <1>d DEF RecordHalf, SaveDag
<1>7. ASSUME NEW items \in [Finals -> DOMAIN dag.nodes], NEW match \in Verdicts,
             Compare(items, match)
      PROVE  Shape'
  <2>1. goal # None  BY <1>7 DEF Compare, Open
  <2>2. dag' \in DagFile  BY <1>7, <2>1, NodesType DEF Compare, SaveDag
  <2> QED  BY <1>7, <2>2, <1>d DEF Compare, SaveDag
<1>8. CASE RaiseTier
  <2>1. goal # None /\ [goal EXCEPT !.tier = "heavy"] \in GoalFile
    BY <1>8, GoalFileType DEF RaiseTier
  <2> QED  BY <1>8, <2>1, <1>s DEF RaiseTier, SaveGoal
<1>9. CASE Start
  <2>1. goal # None /\ [goal EXCEPT !.status = "executing"] \in GoalFile
    BY <1>9, GoalFileType DEF Start
  <2> QED  BY <1>9, <2>1, <1>s DEF Start, SaveGoal
<1>10. CASE Abandon
  <2> DEFINE l == LineageWith(goal.attempt, "abandoned")
             g == [goal EXCEPT !.status = "abandoned"]
  <2>1. goal # None /\ goal.attempt \in Attempts /\ lineage \in LineageFile
    BY <1>10, <1>t DEF Abandon, GoalFile, Linked
  <2>2. l \in LineageFile  BY <2>1, WithStatusType DEF LineageWith
  <2>3. g \in GoalFile  BY <2>1, GoalFileType
  <2>4. pending' = [Nothing EXCEPT !.lineage = l, !.goal = g] /\ Untouched /\ Idle
    BY <1>10 DEF Abandon
  <2> HIDE DEF l, g
  <2>5. pending' \in PendingType  BY <2>2, <2>3, <2>4, QueuedType
  <2>6. lineage # None  BY <2>1, NoneAssumption
  <2> QED  BY <2>4, <2>5, <2>6, <1>q
<1>11. CASE Reset
  BY <1>11, <1>t DEF Reset, TypeOK, Linked, PendingType, Idle
<1>12. CASE FinishVerify
  <2>1. [stage |-> "integrity", fp |-> tree, head |-> None] \in FinishStage
    BY <1>t DEF FinishStage
  <2> QED  BY <1>12, <2>1, <1>f DEF FinishVerify, Open
<1>13. ASSUME NEW clean \in BOOLEAN, FinishIntegrity(clean) PROVE Shape'
  <2>1. finish \in FinishStage  BY <1>13, <1>t DEF FinishIntegrity
  <2>2. [finish EXCEPT !.stage = "resample", !.head = tree] \in FinishStage
    BY <2>1, <1>t DEF FinishStage
  <2>3. /\ finish # None /\ finish' \in FinishStage \cup {None}
        /\ UNCHANGED <<goal, dag, lineage, attests, tree, pending, era>>
    BY <1>13, <2>2 DEF FinishIntegrity, FinishTo
  <2> QED  BY <2>3, <1>f
<1>14. CASE FinishResample
  <2>1. finish \in FinishStage  BY <1>14, <1>t DEF FinishResample
  <2>2. [finish EXCEPT !.stage = "gate"] \in FinishStage  BY <2>1 DEF FinishStage
  <2>3. /\ finish # None /\ finish' \in FinishStage \cup {None}
        /\ UNCHANGED <<goal, dag, lineage, attests, tree, pending, era>>
    BY <1>14, <2>2 DEF FinishResample, FinishTo
  <2> QED  BY <2>3, <1>f
<1>15. CASE FinishBlocked
  <2>1. /\ finish # None /\ finish' \in FinishStage \cup {None}
        /\ UNCHANGED <<goal, dag, lineage, attests, tree, pending, era>>
    BY <1>15 DEF FinishBlocked, FinishTo
  <2> QED  BY <2>1, <1>f
<1>16. CASE FinishGate
  <2> DEFINE a == FinalAttestation
             l == LineageWith(goal.attempt, "completed")
             g == [goal EXCEPT !.status = "done"]
  <2>1. /\ goal # None /\ goal \in GoalFile /\ lineage \in LineageFile
        /\ finish \in FinishStage
    BY <1>16, <1>t DEF FinishGate, Linked
  <2>2. l \in LineageFile  BY <2>1, WithStatusType DEF LineageWith, GoalFile
  <2>3. g \in GoalFile  BY <2>1, GoalFileType
  <2>4. a \in Attestation  BY <2>1, AttestationType
  <2>5. /\ pending' = [Nothing EXCEPT !.attest = a, !.lineage = l, !.goal = g]
        /\ finish' = None
        /\ UNCHANGED <<goal, dag, lineage, attests, tree, era>>
    BY <1>16 DEF FinishGate
  <2> HIDE DEF a, l, g
  <2>6. pending' \in PendingType  BY <2>2, <2>3, <2>4, <2>5, QueuedType
  <2>7. lineage # None  BY <2>1, NoneAssumption
  <2> QED  BY <2>5, <2>6, <2>7, <1>t DEF TypeOK, Linked, PendingType
<1>17. CASE WriteDag
  <2>1. pending' \in PendingType /\ dag' \in DagFile
    BY <1>17, <1>t, WrittenType DEF WriteDag, Ready, Written, PendingType
  <2>2. pending'.goal = pending.goal /\ pending'.lineage = pending.lineage /\ finish = None
    BY <1>17, <1>t DEF WriteDag, Ready, Written, PendingType, Linked, Nothing
  <2> QED  BY <1>17, <1>t, <2>1, <2>2 DEF WriteDag, TypeOK, Linked, PendingType
<1>18. CASE WriteAttestation
  <2>1. pending' \in PendingType /\ attests' \subseteq Attestation
    BY <1>18, <1>t, WrittenType DEF WriteAttestation, Ready, Written, PendingType
  <2>2. pending'.goal = pending.goal /\ pending'.lineage = pending.lineage /\ finish = None
    BY <1>18, <1>t DEF WriteAttestation, Ready, Written, PendingType, Linked, Nothing
  <2> QED  BY <1>18, <1>t, <2>1, <2>2 DEF WriteAttestation, TypeOK, Linked, PendingType
<1>19. CASE WriteLineage
  <2>1. pending' \in PendingType /\ lineage' \in LineageFile
    BY <1>19, <1>t, WrittenType DEF WriteLineage, Ready, Written, PendingType
  <2>2. finish = None /\ lineage' # None
    BY <1>19, <1>t DEF WriteLineage, Ready, Written, PendingType, Linked, Nothing
  <2> QED  BY <1>19, <1>t, <2>1, <2>2 DEF WriteLineage, TypeOK, Linked, PendingType
<1>20. CASE WriteGoal
  <2>1. pending' \in PendingType /\ goal' \in GoalFile /\ era' \in Nat
    BY <1>20, <1>t, WrittenType DEF WriteGoal, Ready, Written, PendingType
  <2>2. pending'.goal = None /\ finish = None /\ lineage # None
    BY <1>20, <1>t DEF WriteGoal, Ready, Written, PendingType, Linked, Nothing
  <2> QED  BY <1>20, <1>t, <2>1, <2>2 DEF WriteGoal, TypeOK, Linked, PendingType
<1>21. CASE Crash
  BY <1>21, <1>t, <1>n, NothingType DEF Crash, TypeOK, Linked, PendingType, Nothing
<1>22. ASSUME NEW t \in Trees, Commit(t) PROVE Shape'
  BY <1>22, <1>t DEF Commit, TypeOK, Linked, PendingType
<1>23. CASE UNCHANGED vars
  BY <1>23, <1>t DEF vars, TypeOK, Linked, PendingType
<1> QED
  BY <1>1, <1>2, <1>3, <1>4, <1>5, <1>6, <1>7, <1>8, <1>9, <1>10, <1>11, <1>12, <1>13,
     <1>14, <1>15, <1>16, <1>17, <1>18, <1>19, <1>20, <1>21, <1>22, <1>23
  DEF Next, Command, Write

(* Every file keeps its shape, whatever is killed and whenever: TypeOK. *)
THEOREM TypeCorrect == Spec => []TypeOK
<1>1. Shape => TypeOK  BY DEF Shape
<1> QED  BY ShapeInit, ShapeStep, <1>1, PTL DEF Spec

-----------------------------------------------------------------------------
(* "Done" is said of a proved and closed attempt. *)

Proves(a, g) == a.slug = g.slug /\ a.attempt = g.attempt /\ a.plan = g.plan
Closed(l, g) == l.status[g.attempt] \in {"completed", "abandoned"}

(* What makes DoneIsAttested inductive: a lineage on its way keeps a done   *)
(* goal closed, and a goal on its way to "done" has its proof and its       *)
(* closing either on disk or ahead of it in the order of the writes.        *)
Promised ==
  pending.goal # None /\ pending.goal.status = "done" =>
    /\ pending.attest = None => \E a \in attests : Proves(a, pending.goal)
    /\ pending.attest # None => Proves(pending.attest, pending.goal)
    /\ pending.lineage = None => Closed(lineage, pending.goal)
    /\ pending.lineage # None => Closed(pending.lineage, pending.goal)

DoneInv ==
  /\ goal # None /\ goal.status = "done" =>
       /\ \E a \in attests : Proves(a, goal)
       /\ Closed(lineage, goal)
       /\ pending.lineage # None => Closed(pending.lineage, goal)
  /\ Promised

(* The lineage after the status of one attempt is set. *)
LEMMA LineageWithFacts ==
  ASSUME Shape, goal # None,
         NEW v \in {"active", "superseded", "completed", "abandoned"}
  PROVE  LET l == LineageWith(goal.attempt, v)
         IN  /\ l \in LineageFile /\ l # None
             /\ DOMAIN l.status = DOMAIN lineage.status \cup {goal.attempt}
             /\ \A k \in DOMAIN l.status :
                  l.status[k] = IF k = goal.attempt THEN v ELSE lineage.status[k]
<1>1. goal.attempt \in Attempts /\ lineage \in LineageFile
  BY DEF Shape, TypeOK, Linked, GoalFile
<1> DEFINE l == LineageWith(goal.attempt, v)
<1>2. l \in LineageFile  BY <1>1, WithStatusType DEF LineageWith
<1>3. l.status = WithStatus(lineage.status, goal.attempt, v)
  BY <1>1 DEF LineageWith, LineageFile
<1>4. l # None  BY <1>2, NoneAssumption
<1> HIDE DEF l
<1> QED  BY <1>2, <1>3, <1>4 DEF WithStatus, l

LEMMA DoneInit == Init => DoneInv
BY DEF Init, DoneInv, Promised, Nothing

LEMMA DoneStep == Shape /\ DoneInv /\ [Next]_vars => DoneInv'
<1> SUFFICES ASSUME Shape, DoneInv, [Next]_vars PROVE DoneInv'  OBVIOUS
<1>t. /\ goal \in GoalFile \cup {None} /\ lineage \in LineageFile \cup {None}
      /\ pending \in PendingType
      /\ goal # None => lineage # None
      /\ finish # None => goal # None /\ pending = Nothing
  BY DEF Shape, TypeOK, Linked, PendingType
<1>n. pending = Nothing => /\ pending.goal = None /\ pending.lineage = None
                           /\ pending.attest = None
  BY DEF Nothing
<1>u. ASSUME UNCHANGED <<goal, lineage, attests, pending>> PROVE DoneInv'
  BY <1>u DEF DoneInv, Promised, Closed
<1>s. ASSUME goal # None, goal' \in GoalFile, Idle,
             goal'.status = "done" => goal.status = "done" /\ Proves(goal, goal'),
             UNCHANGED <<lineage, attests, pending>>
      PROVE  DoneInv'
  BY <1>s, <1>n DEF DoneInv, Promised, Closed, Proves, Idle
<1>q. ASSUME UNCHANGED <<goal, lineage, attests>>, pending'.goal.status # "done",
             goal # None /\ goal.status = "done" /\ pending'.lineage # None
               => Closed(pending'.lineage, goal)
      PROVE  DoneInv'
  BY <1>q DEF DoneInv, Promised, Closed
<1>1. ASSUME NEW s \in Slugs, NEW tier \in Tiers, Register(s, tier) PROVE DoneInv'
  <2>1. goal = None /\ pending'.goal.status = "planning" /\ Untouched
    BY <1>1 DEF Register, Nothing
  <2> QED  BY <2>1, <1>q DEF Untouched
<1>2. ASSUME NEW p \in Plans, Adopt(p) PROVE DoneInv'
  <2>1. goal # None /\ goal \in GoalFile /\ goal.status = "planning" /\ Untouched
    BY <1>2, <1>t DEF Adopt
  <2>2. Adopted(p, goal.attempt).status = "planning"  BY <2>1 DEF Adopted, GoalFile
  <2>3. pending'.goal = Adopted(p, goal.attempt)  BY <1>2 DEF Adopt, Nothing
  <2> QED  BY <2>1, <2>2, <2>3, <1>q DEF Untouched
<1>3. ASSUME NEW p \in Plans, Supersede(p) PROVE DoneInv'
  <2>1. goal # None /\ goal \in GoalFile /\ goal.status = "executing" /\ Untouched
    BY <1>3, <1>t DEF Supersede
  <2>2. Adopted(p, NextOf(goal.attempt)).status = "executing"  BY <2>1 DEF Adopted, GoalFile
  <2>3. pending'.goal = Adopted(p, NextOf(goal.attempt))  BY <1>3 DEF Supersede, Nothing
  <2> QED  BY <2>1, <2>2, <2>3, <1>q DEF Untouched
<1>4. ASSUME NEW s \in Works, CompleteWork(s) PROVE DoneInv'
  <2>1. goal # None /\ goal \in GoalFile /\ Idle  BY <1>4, <1>t DEF CompleteWork, Open
  <2>2. /\ goal' = [goal EXCEPT !.done = @ \cup {s}]
        /\ UNCHANGED <<lineage, attests, pending>>
    BY <1>4 DEF CompleteWork, SaveGoal
  <2>3. goal' \in GoalFile  BY <2>1, <2>2, GoalFileType DEF Shape
  <2>4. Proves(goal, goal') /\ goal'.status = goal.status  BY <2>1, <2>2 DEF GoalFile, Proves
  <2> QED  BY <2>1, <2>2, <2>3, <2>4, <1>s
<1>5. ASSUME NEW f \in Finals, NEW h \in Harnesses, CompleteFinal(f, h) PROVE DoneInv'
  <2> DEFINE g == [goal EXCEPT !.done = @ \cup {f}, !.gen[f] = CaptureGen(f), !.fp[f] = tree]
  <2>1. goal # None /\ goal \in GoalFile /\ Untouched  BY <1>5, <1>t DEF CompleteFinal, Open
  <2>2. Proves(goal, g) /\ g.status = goal.status  BY <2>1 DEF GoalFile, Proves
  <2>3. pending'.goal = g /\ pending'.lineage = None /\ pending'.attest = None
    BY <1>5 DEF CompleteFinal, Nothing
  <2> HIDE DEF g
  <2> QED  BY <2>1, <2>2, <2>3 DEF DoneInv, Promised, Closed, Proves, Untouched
<1>6. ASSUME NEW f \in Finals, NEW half \in HalfKinds, NEW h \in Harnesses,
             RecordHalf(f, half, h)
      PROVE  DoneInv'
  BY <1>6, <1>u DEF RecordHalf, SaveDag
<1>7. ASSUME NEW items \in [Finals -> DOMAIN dag.nodes], NEW match \in Verdicts,
             Compare(items, match)
      PROVE  DoneInv'
  BY <1>7, <1>u DEF Compare, SaveDag
<1>8. CASE RaiseTier
  <2>1. /\ goal # None /\ goal \in GoalFile /\ Idle /\ goal.status # "done"
        /\ goal' = [goal EXCEPT !.tier = "heavy"] /\ UNCHANGED <<lineage, attests, pending>>
    BY <1>8, <1>t DEF RaiseTier, SaveGoal
  <2>2. goal' \in GoalFile /\ goal'.status # "done"
    BY <2>1, GoalFileType DEF Shape, GoalFile
  <2> QED  BY <2>1, <2>2, <1>s
<1>9. CASE Start
  <2>1. /\ goal # None /\ goal \in GoalFile /\ Idle
        /\ goal' = [goal EXCEPT !.status = "executing"]
        /\ UNCHANGED <<lineage, attests, pending>>
    BY <1>9, <1>t DEF Start, SaveGoal
  <2>2. goal' \in GoalFile /\ goal'.status # "done"
    BY <2>1, GoalFileType DEF Shape, GoalFile
  <2> QED  BY <2>1, <2>2, <1>s
<1>10. CASE Abandon
  <2> DEFINE l == LineageWith(goal.attempt, "abandoned")
  <2>1. goal # None /\ goal \in GoalFile /\ Untouched  BY <1>10, <1>t DEF Abandon
  <2>2. pending'.lineage = l /\ pending'.goal = [goal EXCEPT !.status = "abandoned"]
    BY <1>10 DEF Abandon, Nothing
  <2>3. pending'.goal.status = "abandoned"  BY <2>1, <2>2 DEF GoalFile
  <2>4. Closed(l, goal)  BY <2>1, LineageWithFacts DEF Closed
  <2> QED  BY <2>1, <2>2, <2>3, <2>4, <1>q DEF Untouched
<1>11. CASE Reset
  BY <1>11, <1>n DEF Reset, Idle, DoneInv, Promised
<1>12. CASE FinishVerify
  BY <1>12, <1>u DEF FinishVerify
<1>13. ASSUME NEW clean \in BOOLEAN, FinishIntegrity(clean) PROVE DoneInv'
  BY <1>13, <1>u DEF FinishIntegrity, FinishTo
<1>14. CASE FinishResample
  BY <1>14, <1>u DEF FinishResample, FinishTo
<1>15. CASE FinishBlocked
  BY <1>15, <1>u DEF FinishBlocked, FinishTo
<1>16. CASE FinishGate
  <2> DEFINE a == FinalAttestation
             l == LineageWith(goal.attempt, "completed")
             g == [goal EXCEPT !.status = "done"]
  <2>1. /\ goal # None /\ goal \in GoalFile
        /\ pending' = [Nothing EXCEPT !.attest = a, !.lineage = l, !.goal = g]
        /\ UNCHANGED <<goal, lineage, attests>>
    BY <1>16, <1>t DEF FinishGate
  <2>2. Proves(a, g)  BY <2>1 DEF Proves, GoalFile, FinalAttestation
  <2>3. a # None
    <3>1. finish \in FinishStage  BY <1>16 DEF FinishGate, Shape, TypeOK
    <3> QED  BY <2>1, <3>1, AttestationType, NoneAssumption DEF Shape
  <2>4. Closed(l, goal) /\ l # None  BY <2>1, LineageWithFacts DEF Closed
  <2>5. Closed(l, g)  BY <2>1, <2>4 DEF Closed, GoalFile
  <2>6. pending'.attest = a /\ pending'.lineage = l /\ pending'.goal = g
    BY <2>1 DEF Nothing
  <2> HIDE DEF a, l, g
  <2> QED  BY <2>1, <2>2, <2>3, <2>4, <2>5, <2>6 DEF DoneInv, Promised, Closed
<1>17. CASE WriteDag
  <2>1. /\ pending'.goal = pending.goal /\ pending'.lineage = pending.lineage
        /\ pending'.attest = pending.attest /\ UNCHANGED <<goal, lineage, attests>>
    BY <1>17, <1>t DEF WriteDag, Written, PendingType
  <2> QED  BY <2>1 DEF DoneInv, Promised, Closed
<1>18. CASE WriteAttestation
  <2>1. /\ pending'.goal = pending.goal /\ pending'.lineage = pending.lineage
        /\ pending'.attest = None /\ pending.attest # None
        /\ attests' = attests \cup {pending.attest} /\ UNCHANGED <<goal, lineage>>
    BY <1>18, <1>t DEF WriteAttestation, Ready, Written, PendingType
  <2> QED  BY <2>1 DEF DoneInv, Promised, Closed
<1>19. CASE WriteLineage
  <2>1. /\ pending'.goal = pending.goal /\ pending'.lineage = None
        /\ pending'.attest = pending.attest /\ pending.lineage # None
        /\ lineage' = pending.lineage /\ UNCHANGED <<goal, attests>>
    BY <1>19, <1>t DEF WriteLineage, Ready, Written, PendingType
  <2> QED  BY <2>1 DEF DoneInv, Promised, Closed
<1>20. CASE WriteGoal
  <2>1. /\ pending'.goal = None /\ pending'.lineage = None
        /\ pending.attest = None /\ pending.lineage = None /\ pending.goal # None
        /\ goal' = pending.goal /\ UNCHANGED <<lineage, attests>>
    BY <1>20, <1>t DEF WriteGoal, Ready, Written, PendingType
  <2> QED  BY <2>1 DEF DoneInv, Promised, Closed
<1>21. CASE Crash
  <2>1. /\ pending'.goal = None /\ pending'.lineage = None
        /\ UNCHANGED <<goal, lineage, attests>>
    BY <1>21 DEF Crash, Nothing
  <2> QED  BY <2>1 DEF DoneInv, Promised, Closed
<1>22. ASSUME NEW t \in Trees, Commit(t) PROVE DoneInv'
  BY <1>22, <1>u DEF Commit
<1>23. CASE UNCHANGED vars
  BY <1>23, <1>u DEF vars
<1> QED
  BY <1>1, <1>2, <1>3, <1>4, <1>5, <1>6, <1>7, <1>8, <1>9, <1>10, <1>11, <1>12, <1>13,
     <1>14, <1>15, <1>16, <1>17, <1>18, <1>19, <1>20, <1>21, <1>22, <1>23
  DEF Next, Command, Write

(* A goal that says "done" has its attestation on disk and its attempt      *)
(* closed in the lineage, at whichever write a kill struck: DoneIsAttested. *)
THEOREM DoneOnlyWhenProved == Spec => []DoneIsAttested
<1>1. DoneInv => DoneIsAttested  BY DEF DoneInv, DoneIsAttested, Proves, Closed
<1> QED  BY ShapeInit, ShapeStep, DoneInit, DoneStep, <1>1, PTL DEF Spec

-----------------------------------------------------------------------------
(* One active attempt. *)

AtMostOne(l) == \A m, n \in Actives(l) : m = n

(* What a lineage may show while g is the goal: the attempt of g, and at     *)
(* most the next one is active (a supersede that was killed before it wrote *)
(* goal.json leaves it).                                                    *)
Suits(l, g) ==
  /\ g.attempt \in DOMAIN l.status
  /\ Actives(l) \subseteq {g.attempt, g.attempt + 1}

LineageToBe == IF pending.lineage = None THEN lineage ELSE pending.lineage

ActiveInv ==
  /\ AtMostOne(lineage) /\ AtMostOne(LineageToBe)
  /\ goal # None => Suits(lineage, goal) /\ Suits(LineageToBe, goal)
  /\ pending.goal # None => Suits(LineageToBe, pending.goal)

LEMMA ActiveInit == Init => ActiveInv
BY DEF Init, ActiveInv, AtMostOne, Actives, LineageToBe, Nothing

LEMMA ActiveStep == Shape /\ ActiveInv /\ [Next]_vars => ActiveInv'
<1> SUFFICES ASSUME Shape, ActiveInv, [Next]_vars PROVE ActiveInv'  OBVIOUS
<1>t. /\ goal \in GoalFile \cup {None} /\ lineage \in LineageFile \cup {None}
      /\ pending \in PendingType
      /\ goal # None => lineage # None
      /\ finish # None => goal # None /\ pending = Nothing
  BY DEF Shape, TypeOK, Linked, PendingType
<1>n. pending = Nothing => pending.goal = None /\ pending.lineage = None
  BY DEF Nothing
<1>u. ASSUME UNCHANGED <<goal, lineage, pending>> PROVE ActiveInv'
  BY <1>u DEF ActiveInv, AtMostOne, Actives, Suits, LineageToBe
(* The goal keeps its attempt and nothing is pending. *)
<1>s. ASSUME goal # None, goal'.attempt = goal.attempt, Idle,
             UNCHANGED <<lineage, pending>>
      PROVE  ActiveInv'
  BY <1>s, <1>n DEF ActiveInv, AtMostOne, Actives, Suits, LineageToBe, Idle
(* A command queues a lineage and a goal. *)
<1>q. ASSUME UNCHANGED <<goal, lineage>>, pending'.lineage # None,
             AtMostOne(pending'.lineage), Suits(pending'.lineage, pending'.goal),
             goal # None => Suits(pending'.lineage, goal)
      PROVE  ActiveInv'
  BY <1>q DEF ActiveInv, AtMostOne, Actives, Suits, LineageToBe
(* Closing the attempt of the goal leaves no more active than before. *)
<1>c. ASSUME NEW v \in {"completed", "abandoned"}, goal # None,
             UNCHANGED <<goal, lineage>>,
             pending'.lineage = LineageWith(goal.attempt, v),
             pending'.goal.attempt = goal.attempt
      PROVE  ActiveInv'
  <2> DEFINE l == LineageWith(goal.attempt, v)
  <2>1. /\ l \in LineageFile /\ l # None
        /\ DOMAIN l.status = DOMAIN lineage.status \cup {goal.attempt}
        /\ \A k \in DOMAIN l.status :
             l.status[k] = IF k = goal.attempt THEN v ELSE lineage.status[k]
    BY <1>c, LineageWithFacts
  <2>2. lineage # None  BY <1>c, <1>t
  <2> HIDE DEF l
  <2>3. Actives(l) \subseteq Actives(lineage)  BY <2>1, <2>2 DEF Actives
  <2>4. AtMostOne(l) /\ Suits(l, goal)
    BY <2>1, <2>3, <1>c DEF ActiveInv, AtMostOne, Suits
  <2>5. Suits(l, pending'.goal)  BY <2>4, <1>c DEF Suits
  <2>6. pending'.lineage = l  BY <1>c DEF l
  <2> QED  BY <2>1, <2>4, <2>5, <2>6, <1>c, <1>q
<1>1. ASSUME NEW s \in Slugs, NEW tier \in Tiers, Register(s, tier) PROVE ActiveInv'
  <2> DEFINE n == NextAttempt(s)
             l == Registered(s, n)
  <2>1. n \in Attempts
    BY <1>1, NextAttemptType, BoundsAssumption DEF Register, Attempts, Shape
  <2>2. l \in LineageFile /\ l # None  BY <2>1, RegisteredType, NoneAssumption DEF Shape
  <2>3. n \in DOMAIN l.status /\ Actives(l) \subseteq {n}
    <3>1. CASE AttemptsOf(s) # {}
      <4>1. l.status = WithStatus(Retired(lineage.status), n, "active")
        BY <3>1 DEF Registered
      <4>2. DOMAIN l.status = DOMAIN lineage.status \cup {n}
        BY <4>1 DEF WithStatus, Retired
      <4>3. ASSUME NEW k \in DOMAIN l.status, k # n PROVE l.status[k] # "active"
        BY <4>1, <4>2, <4>3 DEF WithStatus, Retired
      <4> QED  BY <2>2, <4>2, <4>3 DEF Actives
    <3>2. CASE AttemptsOf(s) = {}
      <4>1. l.status = [k \in {n} |-> "active"]  BY <3>2 DEF Registered
      <4> QED  BY <2>2, <4>1 DEF Actives
    <3> QED  BY <3>1, <3>2
  <2>4. goal = None /\ pending'.lineage = l /\ pending'.goal.attempt = n /\ Untouched
    BY <1>1 DEF Register, Nothing
  <2> HIDE DEF n, l
  <2>5. AtMostOne(l) /\ Suits(l, pending'.goal)  BY <2>3, <2>4 DEF AtMostOne, Suits
  <2> QED  BY <2>2, <2>4, <2>5, <1>q DEF Untouched
<1>2. ASSUME NEW p \in Plans, Adopt(p) PROVE ActiveInv'
  <2>1. goal # None /\ goal \in GoalFile /\ lineage # None /\ Untouched
    BY <1>2, <1>t DEF Adopt
  <2>2. AtMostOne(lineage) /\ Suits(lineage, goal)  BY <2>1 DEF ActiveInv
  <2>3. pending'.lineage = lineage /\ pending'.goal = Adopted(p, goal.attempt)
    BY <1>2, <2>2 DEF Adopt, Nothing, Suits
  <2>4. pending'.goal.attempt = goal.attempt  BY <2>1, <2>3 DEF Adopted, GoalFile
  <2>5. Suits(lineage, pending'.goal)  BY <2>2, <2>4 DEF Suits
  <2> QED  BY <2>1, <2>2, <2>3, <2>5, <1>q DEF Untouched
<1>3. ASSUME NEW p \in Plans, Supersede(p) PROVE ActiveInv'
  <2> DEFINE n == goal.attempt
             l == SupersededBy(n + 1)
  <2>1. /\ goal # None /\ goal \in GoalFile /\ lineage # None
        /\ lineage \in LineageFile /\ Untouched
    BY <1>3, <1>t DEF Supersede
  <2>2. n \in Attempts /\ n + 1 \in Attempts /\ n # n + 1
    BY <1>3, <2>1, BoundsAssumption DEF Supersede, GoalFile, Attempts
  <2>3. l \in LineageFile /\ l # None
    BY <2>1, <2>2, SupersededByType, NoneAssumption DEF Shape
  <2>4. l.status = WithStatus(WithStatus(lineage.status, n, "superseded"), n + 1, "active")
    BY <2>1 DEF SupersededBy, LineageFile
  <2>5. DOMAIN l.status = DOMAIN lineage.status \cup {n, n + 1}  BY <2>4 DEF WithStatus
  <2>6. /\ l.status[n] # "active"
        /\ \A k \in DOMAIN lineage.status : k \notin {n, n + 1} => l.status[k] = lineage.status[k]
    BY <2>2, <2>4, <2>5 DEF WithStatus
  <2>7. Actives(lineage) \subseteq {n, n + 1}  BY <2>1 DEF ActiveInv, Suits
  <2>8. Actives(l) \subseteq {n + 1}
    <3> SUFFICES ASSUME NEW k \in DOMAIN l.status, l.status[k] = "active" PROVE k = n + 1
      BY <2>3 DEF Actives
    <3>1. k # n  BY <2>6
    <3>2. CASE k \notin {n, n + 1}
      <4>1. k \in DOMAIN lineage.status /\ lineage.status[k] = "active"
        BY <3>2, <2>5, <2>6
      <4>2. k \in Actives(lineage)  BY <4>1, <2>1 DEF Actives
      <4> QED  BY <4>2, <2>7, <3>2
    <3> QED  BY <3>1, <3>2
  <2>9. pending'.lineage = l /\ pending'.goal = Adopted(p, n + 1)
    BY <1>3 DEF Supersede, NextOf, Nothing
  <2>10. pending'.goal.attempt = n + 1  BY <2>1, <2>9 DEF Adopted, GoalFile
  <2>11. n \in DOMAIN l.status /\ n + 1 \in DOMAIN l.status  BY <2>5
  <2> HIDE DEF l
  <2>12. AtMostOne(l)  BY <2>8 DEF AtMostOne
  <2>13. Suits(l, goal)  BY <2>8, <2>11 DEF Suits
  <2>14. Suits(l, pending'.goal)  BY <2>8, <2>10, <2>11 DEF Suits
  <2> QED  BY <2>1, <2>3, <2>9, <2>12, <2>13, <2>14, <1>q DEF Untouched
<1>4. ASSUME NEW s \in Works, CompleteWork(s) PROVE ActiveInv'
  <2>1. goal # None /\ goal \in GoalFile /\ Idle  BY <1>4, <1>t DEF CompleteWork, Open
  <2>2. goal'.attempt = goal.attempt /\ UNCHANGED <<lineage, pending>>
    BY <1>4, <2>1 DEF CompleteWork, SaveGoal, GoalFile
  <2> QED  BY <2>1, <2>2, <1>s
<1>5. ASSUME NEW f \in Finals, NEW h \in Harnesses, CompleteFinal(f, h) PROVE ActiveInv'
  <2> DEFINE g == [goal EXCEPT !.done = @ \cup {f}, !.gen[f] = CaptureGen(f), !.fp[f] = tree]
  <2>1. goal # None /\ goal \in GoalFile /\ Untouched  BY <1>5, <1>t DEF CompleteFinal, Open
  <2>2. g.attempt = goal.attempt  BY <2>1 DEF GoalFile
  <2>3. pending'.goal = g /\ pending'.lineage = None  BY <1>5 DEF CompleteFinal, Nothing
  <2> HIDE DEF g
  <2> QED
    BY <2>1, <2>2, <2>3 DEF ActiveInv, AtMostOne, Actives, Suits, LineageToBe, Untouched
<1>6. ASSUME NEW f \in Finals, NEW half \in HalfKinds, NEW h \in Harnesses,
             RecordHalf(f, half, h)
      PROVE  ActiveInv'
  BY <1>6, <1>u DEF RecordHalf, SaveDag
<1>7. ASSUME NEW items \in [Finals -> DOMAIN dag.nodes], NEW match \in Verdicts,
             Compare(items, match)
      PROVE  ActiveInv'
  BY <1>7, <1>u DEF Compare, SaveDag
<1>8. CASE RaiseTier
  <2>1. goal # None /\ goal \in GoalFile /\ Idle  BY <1>8, <1>t DEF RaiseTier
  <2>2. goal'.attempt = goal.attempt /\ UNCHANGED <<lineage, pending>>
    BY <1>8, <2>1 DEF RaiseTier, SaveGoal, GoalFile
  <2> QED  BY <2>1, <2>2, <1>s
<1>9. CASE Start
  <2>1. goal # None /\ goal \in GoalFile /\ Idle  BY <1>9, <1>t DEF Start
  <2>2. goal'.attempt = goal.attempt /\ UNCHANGED <<lineage, pending>>
    BY <1>9, <2>1 DEF Start, SaveGoal, GoalFile
  <2> QED  BY <2>1, <2>2, <1>s
<1>10. CASE Abandon
  <2>1. goal # None /\ goal \in GoalFile /\ Untouched  BY <1>10, <1>t DEF Abandon
  <2>2. /\ pending'.lineage = LineageWith(goal.attempt, "abandoned")
        /\ pending'.goal = [goal EXCEPT !.status = "abandoned"]
    BY <1>10 DEF Abandon, Nothing
  <2>3. pending'.goal.attempt = goal.attempt  BY <2>1, <2>2 DEF GoalFile
  <2> QED  BY <2>1, <2>2, <2>3, <1>c DEF Untouched
<1>11. CASE Reset
  <2>1. goal' = None /\ Idle /\ UNCHANGED <<lineage, pending>>  BY <1>11 DEF Reset
  <2> QED  BY <2>1, <1>n DEF Idle, ActiveInv, AtMostOne, Actives, Suits, LineageToBe
<1>12. CASE FinishVerify
  BY <1>12, <1>u DEF FinishVerify
<1>13. ASSUME NEW clean \in BOOLEAN, FinishIntegrity(clean) PROVE ActiveInv'
  BY <1>13, <1>u DEF FinishIntegrity, FinishTo
<1>14. CASE FinishResample
  BY <1>14, <1>u DEF FinishResample, FinishTo
<1>15. CASE FinishBlocked
  BY <1>15, <1>u DEF FinishBlocked, FinishTo
<1>16. CASE FinishGate
  <2>1. goal # None /\ goal \in GoalFile /\ UNCHANGED <<goal, lineage>>
    BY <1>16, <1>t DEF FinishGate
  <2>2. /\ pending'.lineage = LineageWith(goal.attempt, "completed")
        /\ pending'.goal = [goal EXCEPT !.status = "done"]
    BY <1>16 DEF FinishGate, Nothing
  <2>3. pending'.goal.attempt = goal.attempt  BY <2>1, <2>2 DEF GoalFile
  <2> QED  BY <2>1, <2>2, <2>3, <1>c
<1>17. CASE WriteDag
  <2>1. /\ pending'.goal = pending.goal /\ pending'.lineage = pending.lineage
        /\ UNCHANGED <<goal, lineage>>
    BY <1>17, <1>t DEF WriteDag, Written, PendingType
  <2> QED  BY <2>1 DEF ActiveInv, AtMostOne, Actives, Suits, LineageToBe
<1>18. CASE WriteAttestation
  <2>1. /\ pending'.goal = pending.goal /\ pending'.lineage = pending.lineage
        /\ UNCHANGED <<goal, lineage>>
    BY <1>18, <1>t DEF WriteAttestation, Written, PendingType
  <2> QED  BY <2>1 DEF ActiveInv, AtMostOne, Actives, Suits, LineageToBe
<1>19. CASE WriteLineage
  <2>1. /\ pending'.goal = pending.goal /\ pending'.lineage = None
        /\ pending.lineage # None /\ lineage' = pending.lineage /\ goal' = goal
    BY <1>19, <1>t DEF WriteLineage, Ready, Written, PendingType
  <2> QED  BY <2>1 DEF ActiveInv, AtMostOne, Actives, Suits, LineageToBe
<1>20. CASE WriteGoal
  <2>1. /\ pending'.goal = None /\ pending'.lineage = None /\ pending.lineage = None
        /\ pending.goal # None /\ goal' = pending.goal /\ lineage' = lineage
    BY <1>20, <1>t DEF WriteGoal, Ready, Written, PendingType
  <2> QED  BY <2>1 DEF ActiveInv, AtMostOne, Actives, Suits, LineageToBe
<1>21. CASE Crash
  <2>1. /\ pending'.goal = None /\ pending'.lineage = None
        /\ UNCHANGED <<goal, lineage>>
    BY <1>21 DEF Crash, Nothing
  <2> QED  BY <2>1 DEF ActiveInv, AtMostOne, Actives, Suits, LineageToBe
<1>22. ASSUME NEW t \in Trees, Commit(t) PROVE ActiveInv'
  BY <1>22, <1>u DEF Commit
<1>23. CASE UNCHANGED vars
  BY <1>23, <1>u DEF vars
<1> QED
  BY <1>1, <1>2, <1>3, <1>4, <1>5, <1>6, <1>7, <1>8, <1>9, <1>10, <1>11, <1>12, <1>13,
     <1>14, <1>15, <1>16, <1>17, <1>18, <1>19, <1>20, <1>21, <1>22, <1>23
  DEF Next, Command, Write

(* The lineage never shows two attempts as active, whatever a kill leaves   *)
(* half written: OneActive.                                                 *)
THEOREM NeverTwoActive == Spec => []OneActive
<1>1. ActiveInv => OneActive  BY DEF ActiveInv, AtMostOne, OneActive
<1> QED  BY ShapeInit, ShapeStep, ActiveInit, ActiveStep, <1>1, PTL DEF Spec
-----------------------------------------------------------------------------
(* Attempts do not come back. *)

(* A new attempt is above every number the ledger and the lineage know. *)
LEMMA NextAttemptAbove ==
  ASSUME TypeOK, NEW s
  PROVE  \A k \in StampsOf(s) \cup AttemptsOf(s) : k < NextAttempt(s)
<1> DEFINE ids == StampsOf(s) \cup AttemptsOf(s)
<1>1. ids \subseteq 0..MaxAttempts /\ MaxAttempts \in Nat
  BY StampsType, BoundsAssumption DEF Attempts
<1>2. NextAttempt(s) = Latest(ids) + 1  BY DEF NextAttempt
<1> HIDE DEF ids
<1>3. SUFFICES ASSUME NEW k \in ids PROVE k < NextAttempt(s)  BY DEF ids
<1>4. Latest(ids) \in 0..MaxAttempts /\ k <= Latest(ids)
  BY <1>1, LatestIsGreatest
<1> QED  BY <1>1, <1>2, <1>4

(* Beside its goal a lineage is of the same name and knows no attempt above *)
(* the next one; if a killed supersede left that one, it is active.         *)
Covers(l, g) ==
  /\ l.slug = g.slug
  /\ DOMAIN l.status \subseteq 1..(g.attempt + 1)
  /\ g.attempt + 1 \in DOMAIN l.status => l.status[g.attempt + 1] = "active"

(* Every attempt that m shows as active and l knows, l shows as active. *)
NoRevival(l, m) ==
  l.slug = m.slug => Actives(m) \cap DOMAIN l.status \subseteq Actives(l)

RevivalInv ==
  /\ goal # None => Covers(lineage, goal) /\ Covers(LineageToBe, goal)
  /\ pending.goal # None => Covers(LineageToBe, pending.goal)
  /\ lineage # None /\ pending.lineage # None => NoRevival(lineage, pending.lineage)

LEMMA RevivalInit == Init => RevivalInv
BY DEF Init, RevivalInv, Nothing

LEMMA RevivalStep == Shape /\ ActiveInv /\ RevivalInv /\ [Next]_vars => RevivalInv'
<1> SUFFICES ASSUME Shape, ActiveInv, RevivalInv, [Next]_vars PROVE RevivalInv'  OBVIOUS
<1>t. /\ goal \in GoalFile \cup {None} /\ lineage \in LineageFile \cup {None}
      /\ pending \in PendingType
      /\ goal # None => lineage # None
      /\ finish # None => goal # None /\ pending = Nothing
  BY DEF Shape, TypeOK, Linked, PendingType
<1>n. pending = Nothing => pending.goal = None /\ pending.lineage = None
  BY DEF Nothing
<1>u. ASSUME UNCHANGED <<goal, lineage, pending>> PROVE RevivalInv'
  BY <1>u DEF RevivalInv, Covers, NoRevival, Actives, LineageToBe
(* The goal keeps its name and its attempt, and nothing is pending. *)
<1>s. ASSUME goal # None, goal'.attempt = goal.attempt, goal'.slug = goal.slug, Idle,
             UNCHANGED <<lineage, pending>>
      PROVE  RevivalInv'
  BY <1>s, <1>n DEF RevivalInv, Covers, LineageToBe, Idle
(* A command queues a lineage and a goal. *)
<1>q. ASSUME UNCHANGED <<goal, lineage>>, pending'.lineage # None,
             lineage # None => NoRevival(lineage, pending'.lineage),
             Covers(pending'.lineage, pending'.goal),
             goal # None => Covers(pending'.lineage, goal)
      PROVE  RevivalInv'
  BY <1>q DEF RevivalInv, Covers, NoRevival, Actives, LineageToBe
(* The attempt of the goal is closed. *)
<1>c. ASSUME NEW v \in {"completed", "abandoned"}, goal # None,
             UNCHANGED <<goal, lineage>>,
             pending'.lineage = LineageWith(goal.attempt, v),
             pending'.goal.attempt = goal.attempt, pending'.goal.slug = goal.slug
      PROVE  RevivalInv'
  <2> DEFINE l == LineageWith(goal.attempt, v)
  <2>1. /\ l \in LineageFile /\ l # None
        /\ DOMAIN l.status = DOMAIN lineage.status \cup {goal.attempt}
        /\ \A k \in DOMAIN l.status :
             l.status[k] = IF k = goal.attempt THEN v ELSE lineage.status[k]
    BY <1>c, LineageWithFacts
  <2>2. lineage # None /\ lineage \in LineageFile  BY <1>c, <1>t
  <2>3. l.slug = lineage.slug  BY <2>2 DEF LineageWith, LineageFile
  <2>4. goal.attempt \in Attempts /\ goal.attempt \in Nat /\ goal.attempt + 1 # goal.attempt
        /\ goal.attempt \in 1..(goal.attempt + 1)
    BY <1>c, <1>t, BoundsAssumption DEF GoalFile, Attempts
  <2> HIDE DEF l
  <2>5. NoRevival(lineage, l)  BY <2>1, <2>2 DEF Actives, NoRevival
  <2>6. Covers(lineage, goal)  BY <1>c DEF RevivalInv
  <2>7. Covers(l, goal)  BY <2>1, <2>3, <2>4, <2>6 DEF Covers
  <2>8. Covers(l, pending'.goal)  BY <2>7, <1>c DEF Covers
  <2>9. pending'.lineage = l  BY <1>c DEF l
  <2> QED  BY <2>1, <2>5, <2>7, <2>8, <2>9, <1>c, <1>q
<1>1. ASSUME NEW s \in Slugs, NEW tier \in Tiers, Register(s, tier) PROVE RevivalInv'
  <2> DEFINE n == NextAttempt(s)
             l == Registered(s, n)
  <2>1. n \in Attempts /\ n \in Nat \ {0} /\ n # n + 1
    BY <1>1, NextAttemptType, BoundsAssumption DEF Register, Attempts, Shape
  <2>2. l \in LineageFile /\ l # None  BY <2>1, RegisteredType, NoneAssumption DEF Shape
  <2>3. \A k \in AttemptsOf(s) : k < n /\ k \in Nat \ {0}
    BY NextAttemptAbove, StampsType, BoundsAssumption DEF Shape, Attempts
  <2>4. l.slug = s /\ DOMAIN l.status = AttemptsOf(s) \cup {n}
        /\ \A k \in DOMAIN l.status : l.status[k] = "active" => k = n
    <3>1. CASE AttemptsOf(s) # {}
      <4>1. l.status = WithStatus(Retired(lineage.status), n, "active")
        BY <3>1 DEF Registered
      <4>2. DOMAIN l.status = DOMAIN lineage.status \cup {n}
        BY <4>1 DEF WithStatus, Retired
      <4>3. ASSUME NEW k \in DOMAIN l.status, k # n PROVE l.status[k] # "active"
        BY <4>1, <4>2, <4>3 DEF WithStatus, Retired
      <4> QED  BY <3>1, <4>2, <4>3 DEF Registered, AttemptsOf
    <3>2. CASE AttemptsOf(s) = {}
      BY <3>2 DEF Registered
    <3> QED  BY <3>1, <3>2
  <2>5. goal = None /\ pending'.lineage = l /\ Untouched
        /\ pending'.goal.attempt = n /\ pending'.goal.slug = s
    BY <1>1 DEF Register, Nothing
  <2>6. n \notin AttemptsOf(s)  BY <2>1, <2>3
  <2> HIDE DEF n, l
  <2>7. lineage # None => NoRevival(lineage, l)
    BY <2>4, <2>6 DEF NoRevival, Actives, AttemptsOf
  <2>8. Covers(l, pending'.goal)
    <3>1. DOMAIN l.status \subseteq 1..(n + 1)  BY <2>1, <2>3, <2>4
    <3>2. n + 1 \notin DOMAIN l.status  BY <2>1, <2>3, <2>4
    <3> QED  BY <3>1, <3>2, <2>4, <2>5 DEF Covers
  <2> QED  BY <2>2, <2>5, <2>7, <2>8, <1>q DEF Untouched
<1>2. ASSUME NEW p \in Plans, Adopt(p) PROVE RevivalInv'
  <2>1. goal # None /\ goal \in GoalFile /\ lineage # None /\ Untouched
    BY <1>2, <1>t DEF Adopt
  <2>2. Suits(lineage, goal) /\ Covers(lineage, goal)
    BY <2>1 DEF ActiveInv, RevivalInv
  <2>3. pending'.lineage = lineage /\ pending'.goal = Adopted(p, goal.attempt)
    BY <1>2, <2>2 DEF Adopt, Nothing, Suits
  <2>4. pending'.goal.attempt = goal.attempt /\ pending'.goal.slug = goal.slug
    BY <2>1, <2>3 DEF Adopted, GoalFile
  <2>5. Covers(lineage, pending'.goal)  BY <2>2, <2>4 DEF Covers
  <2>6. NoRevival(lineage, lineage)  BY DEF NoRevival
  <2> QED  BY <2>1, <2>2, <2>3, <2>5, <2>6, <1>q DEF Untouched
<1>3. ASSUME NEW p \in Plans, Supersede(p) PROVE RevivalInv'
  <2> DEFINE n == goal.attempt
             l == SupersededBy(n + 1)
  <2>1. /\ goal # None /\ goal \in GoalFile /\ lineage # None
        /\ lineage \in LineageFile /\ Untouched
    BY <1>3, <1>t DEF Supersede
  <2>2. n \in Attempts /\ n + 1 \in Attempts /\ n \in Nat \ {0} /\ n # n + 1
    BY <1>3, <2>1, BoundsAssumption DEF Supersede, GoalFile, Attempts
  <2>3. l \in LineageFile /\ l # None
    BY <2>1, <2>2, SupersededByType, NoneAssumption DEF Shape
  <2>4. l.status = WithStatus(WithStatus(lineage.status, n, "superseded"), n + 1, "active")
        /\ l.slug = lineage.slug
    BY <2>1 DEF SupersededBy, LineageFile
  <2>5. DOMAIN l.status = DOMAIN lineage.status \cup {n, n + 1}  BY <2>4 DEF WithStatus
  <2>6. /\ l.status[n] # "active" /\ l.status[n + 1] = "active"
        /\ \A k \in DOMAIN lineage.status : k \notin {n, n + 1} => l.status[k] = lineage.status[k]
    BY <2>2, <2>4, <2>5 DEF WithStatus
  <2>7. Covers(lineage, goal)  BY <2>1 DEF RevivalInv
  <2>8. NoRevival(lineage, l)
    <3> SUFFICES ASSUME NEW k \in DOMAIN lineage.status, l.status[k] = "active"
                 PROVE  lineage.status[k] = "active"
      BY <2>1, <2>3 DEF NoRevival, Actives
    <3> QED  BY <2>6, <2>7 DEF Covers
  <2>9. pending'.lineage = l /\ pending'.goal = Adopted(p, n + 1)
    BY <1>3 DEF Supersede, NextOf, Nothing
  <2>10. pending'.goal.attempt = n + 1 /\ pending'.goal.slug = goal.slug
    BY <2>1, <2>9 DEF Adopted, GoalFile
  <2> HIDE DEF l
  <2>11. DOMAIN l.status \subseteq 1..(n + 1)  BY <2>2, <2>5, <2>7 DEF Covers
  <2>12. Covers(l, goal)  BY <2>4, <2>6, <2>7, <2>11 DEF Covers
  <2>13. Covers(l, pending'.goal)
    <3>1. DOMAIN l.status \subseteq 1..(n + 2) /\ n + 2 \notin DOMAIN l.status
          /\ (n + 1) + 1 = n + 2
      BY <2>2, <2>11
    <3> QED  BY <3>1, <2>4, <2>7, <2>10 DEF Covers
  <2> QED  BY <2>1, <2>3, <2>8, <2>9, <2>12, <2>13, <1>q DEF Untouched
<1>4. ASSUME NEW s \in Works, CompleteWork(s) PROVE RevivalInv'
  <2>1. goal # None /\ goal \in GoalFile /\ Idle  BY <1>4, <1>t DEF CompleteWork, Open
  <2>2. goal'.attempt = goal.attempt /\ goal'.slug = goal.slug /\ UNCHANGED <<lineage, pending>>
    BY <1>4, <2>1 DEF CompleteWork, SaveGoal, GoalFile
  <2> QED  BY <2>1, <2>2, <1>s
<1>5. ASSUME NEW f \in Finals, NEW h \in Harnesses, CompleteFinal(f, h) PROVE RevivalInv'
  <2> DEFINE g == [goal EXCEPT !.done = @ \cup {f}, !.gen[f] = CaptureGen(f), !.fp[f] = tree]
  <2>1. goal # None /\ goal \in GoalFile /\ Untouched  BY <1>5, <1>t DEF CompleteFinal, Open
  <2>2. g.attempt = goal.attempt /\ g.slug = goal.slug  BY <2>1 DEF GoalFile
  <2>3. pending'.goal = g /\ pending'.lineage = None  BY <1>5 DEF CompleteFinal, Nothing
  <2> HIDE DEF g
  <2> QED
    BY <2>1, <2>2, <2>3 DEF RevivalInv, Covers, LineageToBe, Untouched
<1>6. ASSUME NEW f \in Finals, NEW half \in HalfKinds, NEW h \in Harnesses,
             RecordHalf(f, half, h)
      PROVE  RevivalInv'
  BY <1>6, <1>u DEF RecordHalf, SaveDag
<1>7. ASSUME NEW items \in [Finals -> DOMAIN dag.nodes], NEW match \in Verdicts,
             Compare(items, match)
      PROVE  RevivalInv'
  BY <1>7, <1>u DEF Compare, SaveDag
<1>8. CASE RaiseTier
  <2>1. goal # None /\ goal \in GoalFile /\ Idle  BY <1>8, <1>t DEF RaiseTier
  <2>2. goal'.attempt = goal.attempt /\ goal'.slug = goal.slug /\ UNCHANGED <<lineage, pending>>
    BY <1>8, <2>1 DEF RaiseTier, SaveGoal, GoalFile
  <2> QED  BY <2>1, <2>2, <1>s
<1>9. CASE Start
  <2>1. goal # None /\ goal \in GoalFile /\ Idle  BY <1>9, <1>t DEF Start
  <2>2. goal'.attempt = goal.attempt /\ goal'.slug = goal.slug /\ UNCHANGED <<lineage, pending>>
    BY <1>9, <2>1 DEF Start, SaveGoal, GoalFile
  <2> QED  BY <2>1, <2>2, <1>s
<1>10. CASE Abandon
  <2>1. goal # None /\ goal \in GoalFile /\ Untouched  BY <1>10, <1>t DEF Abandon
  <2>2. /\ pending'.lineage = LineageWith(goal.attempt, "abandoned")
        /\ pending'.goal = [goal EXCEPT !.status = "abandoned"]
    BY <1>10 DEF Abandon, Nothing
  <2>3. pending'.goal.attempt = goal.attempt /\ pending'.goal.slug = goal.slug
    BY <2>1, <2>2 DEF GoalFile
  <2> QED  BY <2>1, <2>2, <2>3, <1>c DEF Untouched
<1>11. CASE Reset
  <2>1. goal' = None /\ Idle /\ UNCHANGED <<lineage, pending>>  BY <1>11 DEF Reset
  <2> QED  BY <2>1, <1>n DEF Idle, RevivalInv
<1>12. CASE FinishVerify
  BY <1>12, <1>u DEF FinishVerify
<1>13. ASSUME NEW clean \in BOOLEAN, FinishIntegrity(clean) PROVE RevivalInv'
  BY <1>13, <1>u DEF FinishIntegrity, FinishTo
<1>14. CASE FinishResample
  BY <1>14, <1>u DEF FinishResample, FinishTo
<1>15. CASE FinishBlocked
  BY <1>15, <1>u DEF FinishBlocked, FinishTo
<1>16. CASE FinishGate
  <2>1. goal # None /\ goal \in GoalFile /\ UNCHANGED <<goal, lineage>>
    BY <1>16, <1>t DEF FinishGate
  <2>2. /\ pending'.lineage = LineageWith(goal.attempt, "completed")
        /\ pending'.goal = [goal EXCEPT !.status = "done"]
    BY <1>16 DEF FinishGate, Nothing
  <2>3. pending'.goal.attempt = goal.attempt /\ pending'.goal.slug = goal.slug
    BY <2>1, <2>2 DEF GoalFile
  <2> QED  BY <2>1, <2>2, <2>3, <1>c
<1>17. CASE WriteDag
  <2>1. /\ pending'.goal = pending.goal /\ pending'.lineage = pending.lineage
        /\ UNCHANGED <<goal, lineage>>
    BY <1>17, <1>t DEF WriteDag, Written, PendingType
  <2> QED  BY <2>1 DEF RevivalInv, Covers, NoRevival, Actives, LineageToBe
<1>18. CASE WriteAttestation
  <2>1. /\ pending'.goal = pending.goal /\ pending'.lineage = pending.lineage
        /\ UNCHANGED <<goal, lineage>>
    BY <1>18, <1>t DEF WriteAttestation, Written, PendingType
  <2> QED  BY <2>1 DEF RevivalInv, Covers, NoRevival, Actives, LineageToBe
<1>19. CASE WriteLineage
  <2>1. /\ pending'.goal = pending.goal /\ pending'.lineage = None
        /\ pending.lineage # None /\ lineage' = pending.lineage /\ goal' = goal
    BY <1>19, <1>t DEF WriteLineage, Ready, Written, PendingType
  <2> QED  BY <2>1 DEF RevivalInv, Covers, LineageToBe
<1>20. CASE WriteGoal
  <2>1. /\ pending'.goal = None /\ pending'.lineage = None /\ pending.lineage = None
        /\ pending.goal # None /\ goal' = pending.goal /\ lineage' = lineage
    BY <1>20, <1>t DEF WriteGoal, Ready, Written, PendingType
  <2> QED  BY <2>1 DEF RevivalInv, Covers, LineageToBe
<1>21. CASE Crash
  <2>1. /\ pending'.goal = None /\ pending'.lineage = None
        /\ UNCHANGED <<goal, lineage>>
    BY <1>21 DEF Crash, Nothing
  <2> QED  BY <2>1 DEF RevivalInv, Covers, LineageToBe
<1>22. ASSUME NEW t \in Trees, Commit(t) PROVE RevivalInv'
  BY <1>22, <1>u DEF Commit
<1>23. CASE UNCHANGED vars
  BY <1>23, <1>u DEF vars
<1> QED
  BY <1>1, <1>2, <1>3, <1>4, <1>5, <1>6, <1>7, <1>8, <1>9, <1>10, <1>11, <1>12, <1>13,
     <1>14, <1>15, <1>16, <1>17, <1>18, <1>19, <1>20, <1>21, <1>22, <1>23
  DEF Next, Command, Write

(* An attempt that was superseded, completed or abandoned is not active     *)
(* again: NeverRevived.                                                     *)
THEOREM AttemptsStayClosed == Spec => NeverRevived
<1>1. Shape /\ RevivalInv /\ [Next]_vars =>
        [lineage # None /\ lineage'.slug = lineage.slug =>
           \A n \in Actives(lineage') \cap DOMAIN lineage.status :
             n \in Actives(lineage)]_lineage
  <2> SUFFICES ASSUME Shape, RevivalInv, [Next]_vars, lineage' # lineage,
                      lineage # None, lineage'.slug = lineage.slug,
                      NEW n \in Actives(lineage') \cap DOMAIN lineage.status
               PROVE  n \in Actives(lineage)
    OBVIOUS
  <2>1. WriteLineage
    BY DEF Next, Command, Write, Untouched, SaveGoal, SaveDag, FinishTo, Register, Adopt,
           Supersede, CompleteWork, CompleteFinal, RecordHalf, Compare, RaiseTier, Start,
           Abandon, Reset, FinishVerify, FinishIntegrity, FinishResample, FinishBlocked,
           FinishGate, WriteDag, WriteAttestation, WriteGoal, Crash, Commit, vars
  <2>2. pending.lineage # None /\ lineage' = pending.lineage
    BY <2>1 DEF WriteLineage, Ready
  <2> QED  BY <2>2 DEF RevivalInv, NoRevival
<1> QED
  BY ShapeInit, ShapeStep, ActiveInit, ActiveStep, RevivalInit, RevivalStep, <1>1, PTL
  DEF Spec, NeverRevived

-----------------------------------------------------------------------------
(* goal.json and the ledger agree. *)

DagToBe == IF pending.dag = None THEN dag ELSE pending.dag

(* Captures of a name, of a goal's own attempt, and its green ones of a step. *)
Captures == {"green", "red", "waived"}
Captured(d, s) == {i \in DOMAIN d.nodes : d.nodes[i].kind \in Captures /\ d.nodes[i].slug = s}
Own(d, g) == {i \in Captured(d, g.slug) : d.nodes[i].attempt = g.attempt}
OwnGreens(d, g, f) == {i \in Own(d, g) : d.nodes[i].kind = "green" /\ d.nodes[i].step = f}

(* No capture of the name is of a later attempt, or even of this one. *)
Behind(d, g) == \A i \in Captured(d, g.slug) : d.nodes[i].attempt <= g.attempt
Barren(d, g) == \A i \in Captured(d, g.slug) : d.nodes[i].attempt < g.attempt

(* The last green node of the generation g records holds the tree g records. *)
Anchored(d, g, f) ==
  \E i \in OwnGreens(d, g, f) :
    /\ d.nodes[i].gen = g.gen[f] /\ d.nodes[i].tree = g.fp[f]
    /\ \A j \in OwnGreens(d, g, f) : d.nodes[j].gen = g.gen[f] => j <= i

(* A ledger may be one capture ahead of goal.json, never two: a killed      *)
(* capture is repeated under the number it had.                             *)
Agrees(d, g) ==
  /\ Behind(d, g)
  /\ g.status = "planning" => Barren(d, g)
  /\ \A f \in Finals : \A i \in OwnGreens(d, g, f) : d.nodes[i].gen <= g.gen[f] + 1
  /\ \A f \in g.done \cap Finals : g.gen[f] > 0 /\ Anchored(d, g, f)

(* What is of the goal's attempt was captured in this instance of it. *)
OfNow(d, g) == \A i \in Own(d, g) : d.nodes[i].era = era

(* An edge leads from a half to a green node of the same instance, and a    *)
(* comparison came after what it compares.                                  *)
WellPaired(d) ==
  \A e \in d.redOf : d.nodes[e[2]].kind = "green" /\ d.nodes[e[1]].era = d.nodes[e[2]].era
ComparedBefore(d) ==
  \A i \in DOMAIN d.nodes : d.nodes[i].kind = "comparator" =>
    \A f \in Finals : d.nodes[i].items[f] < i
Sound(d) == WellPaired(d) /\ ComparedBefore(d)

EvidenceInv ==
  /\ Sound(dag) /\ Sound(DagToBe)
  /\ goal # None => /\ Agrees(dag, goal) /\ Agrees(DagToBe, goal)
                    /\ OfNow(dag, goal) /\ OfNow(DagToBe, goal)
  /\ pending.goal # None => /\ Agrees(DagToBe, pending.goal)
                            /\ NewInstance => Barren(DagToBe, pending.goal)

(* What a node is, of any kind. *)
LEMMA NodeFacts ==
  ASSUME NEW d \in DagFile
  PROVE  /\ DOMAIN d.nodes = 1..Len(d.nodes) /\ Len(d.nodes) \in Nat
         /\ \A i \in DOMAIN d.nodes :
              /\ d.nodes[i] \in Node /\ i \in Nat \ {0}
              /\ d.nodes[i].kind \in Captures =>
                   d.nodes[i].step \in Finals /\ d.nodes[i].attempt \in Attempts
              /\ d.nodes[i].kind = "green" => d.nodes[i].gen \in Nat \ {0}
<1>1. d.nodes \in Seq(Node)  BY DEF DagFile
<1>2. ASSUME NEW i \in DOMAIN d.nodes
      PROVE  /\ d.nodes[i] \in Node /\ i \in Nat \ {0}
             /\ d.nodes[i].kind \in Captures =>
                  d.nodes[i].step \in Finals /\ d.nodes[i].attempt \in Attempts
             /\ d.nodes[i].kind = "green" => d.nodes[i].gen \in Nat \ {0}
  <2>1. d.nodes[i] \in Node /\ i \in Nat \ {0}  BY <1>1
  <2> QED  BY <2>1 DEF Node, Captures
<1> QED  BY <1>1, <1>2

LEMMA AppendFacts ==
  ASSUME TypeOK, NEW node \in Node, NEW edges
  PROVE  LET e == WithNode(node, edges)
         IN  /\ DOMAIN e.nodes = DOMAIN dag.nodes \cup {NewId}
             /\ NewId \in Nat \ {0} /\ e.nodes[NewId] = node
             /\ \A i \in DOMAIN dag.nodes : e.nodes[i] = dag.nodes[i] /\ i \in Nat /\ i < NewId
             /\ e.redOf = dag.redOf \cup edges
             /\ dag \in DagFile
             /\ \A x \in dag.redOf : x[1] \in DOMAIN dag.nodes /\ x[2] \in DOMAIN dag.nodes
<1>1. dag \in DagFile /\ dag.nodes \in Seq(Node)  BY DEF TypeOK, DagFile
<1>2. DOMAIN dag.nodes = 1..Len(dag.nodes) /\ Len(dag.nodes) \in Nat
      /\ NewId = Len(dag.nodes) + 1
  BY <1>1 DEF NewId
<1>3. dag.redOf \subseteq (DOMAIN dag.nodes) \X (DOMAIN dag.nodes)  BY <1>1 DEF DagFile
<1> QED  BY <1>1, <1>2, <1>3 DEF WithNode

(* A plan or a comparison changes nothing for the captures. *)
LEMMA OtherNode ==
  ASSUME TypeOK, NEW node \in Node, node.kind \in {"plan", "comparator"}, NEW edges, NEW g
  PROVE  LET e == WithNode(node, edges)
         IN  /\ Agrees(dag, g) => Agrees(e, g)
             /\ Barren(dag, g) => Barren(e, g)
             /\ OfNow(dag, g) => OfNow(e, g)
<1> DEFINE e == WithNode(node, edges)
<1>1. node.kind \notin Captures  BY DEF Captures
<1>2. /\ DOMAIN e.nodes = DOMAIN dag.nodes \cup {NewId} /\ e.nodes[NewId] = node
      /\ \A i \in DOMAIN dag.nodes : e.nodes[i] = dag.nodes[i]
  BY AppendFacts
<1> HIDE DEF e
<1>3. \A s : Captured(e, s) = Captured(dag, s)  BY <1>1, <1>2 DEF Captured
<1>4. \A s : \A i \in Captured(dag, s) : e.nodes[i] = dag.nodes[i]  BY <1>2 DEF Captured
<1>5. Own(e, g) = Own(dag, g)  BY <1>3, <1>4 DEF Own
<1>6. \A i \in Own(dag, g) : e.nodes[i] = dag.nodes[i]  BY <1>4 DEF Own
<1>7. \A f : OwnGreens(e, g, f) = OwnGreens(dag, g, f)  BY <1>5, <1>6 DEF OwnGreens
<1>8. \A f : \A i \in OwnGreens(dag, g, f) : e.nodes[i] = dag.nodes[i]
  BY <1>6 DEF OwnGreens
<1>9. (Behind(dag, g) => Behind(e, g)) /\ (Barren(dag, g) => Barren(e, g))
  BY <1>3, <1>4 DEF Behind, Barren
<1>10. \A f : Anchored(dag, g, f) => Anchored(e, g, f)  BY <1>7, <1>8 DEF Anchored
<1>11. OfNow(dag, g) => OfNow(e, g)  BY <1>5, <1>6 DEF OfNow
<1>12. Agrees(dag, g) => Agrees(e, g)  BY <1>7, <1>8, <1>9, <1>10 DEF Agrees
<1> QED  BY <1>9, <1>11, <1>12 DEF e

(* A goal that has captured nothing and to whose attempt nothing belongs.   *)
LEMMA BarrenAgrees ==
  ASSUME NEW d \in DagFile, NEW g \in GoalFile, Barren(d, g), g.done = {}
  PROVE  Agrees(d, g) /\ Own(d, g) = {}
<1>1. g.attempt \in Nat  BY BoundsAssumption DEF GoalFile, Attempts
<1>2. \A i \in Captured(d, g.slug) : d.nodes[i].attempt \in Nat
  BY NodeFacts, BoundsAssumption DEF Captured, Attempts
<1>3. Own(d, g) = {}  BY <1>1, <1>2 DEF Own, Barren
<1>4. Behind(d, g)  BY <1>1, <1>2 DEF Behind, Barren
<1> QED  BY <1>3, <1>4 DEF Agrees, OwnGreens

(* The goal captures: the new node is the newest of its attempt. *)
LEMMA OwnNode ==
  ASSUME TypeOK, goal # None, goal.status # "planning",
         NEW node \in Node, NEW edges, node.kind \in Captures,
         node.slug = goal.slug, node.attempt = goal.attempt, node.era = era,
         node.kind = "green" => node.gen = goal.gen[node.step] + 1,
         Agrees(dag, goal), OfNow(dag, goal)
  PROVE  LET e == WithNode(node, edges)
         IN  Agrees(e, goal) /\ OfNow(e, goal)
<1> DEFINE e == WithNode(node, edges)
<1>1. /\ DOMAIN e.nodes = DOMAIN dag.nodes \cup {NewId} /\ e.nodes[NewId] = node
      /\ \A i \in DOMAIN dag.nodes : e.nodes[i] = dag.nodes[i] /\ i \in Nat /\ i < NewId
      /\ NewId \in Nat \ {0} /\ dag \in DagFile
  BY AppendFacts
<1>g. goal \in GoalFile /\ goal.attempt \in Nat /\ goal.gen \in [Finals -> Nat]
  BY BoundsAssumption DEF TypeOK, GoalFile, Attempts
<1> HIDE DEF e
<1>2. \A i \in Captured(e, goal.slug) :
        i = NewId \/ (i \in Captured(dag, goal.slug) /\ e.nodes[i] = dag.nodes[i])
  <2> SUFFICES ASSUME NEW i \in Captured(e, goal.slug), i # NewId
               PROVE  i \in Captured(dag, goal.slug) /\ e.nodes[i] = dag.nodes[i]
    OBVIOUS
  <2>1. i \in DOMAIN dag.nodes /\ e.nodes[i] = dag.nodes[i]  BY <1>1 DEF Captured
  <2> QED  BY <2>1 DEF Captured
<1>3. \A i \in Own(e, goal) : i = NewId \/ (i \in Own(dag, goal) /\ e.nodes[i] = dag.nodes[i])
  BY <1>2 DEF Own
<1>4. \A f : \A i \in OwnGreens(e, goal, f) :
        \/ i = NewId /\ node.kind = "green" /\ node.step = f
        \/ i \in OwnGreens(dag, goal, f) /\ e.nodes[i] = dag.nodes[i]
  BY <1>1, <1>3 DEF OwnGreens
<1>5. \A f : OwnGreens(dag, goal, f) \subseteq OwnGreens(e, goal, f)
  BY <1>1 DEF OwnGreens, Own, Captured
<1>6. \A f : \A i \in OwnGreens(dag, goal, f) : e.nodes[i] = dag.nodes[i]
  BY <1>1 DEF OwnGreens, Own, Captured
<1>7. Behind(e, goal)  BY <1>1, <1>2, <1>g DEF Behind, Agrees
<1>8. ASSUME NEW f \in Finals, NEW i \in OwnGreens(e, goal, f)
      PROVE  e.nodes[i].gen <= goal.gen[f] + 1
  BY <1>1, <1>4, <1>g DEF Agrees
<1>9. ASSUME NEW f \in goal.done \cap Finals PROVE goal.gen[f] > 0 /\ Anchored(e, goal, f)
  <2>1. goal.gen[f] > 0 /\ goal.gen[f] \in Nat  BY <1>g DEF Agrees
  <2>2. PICK i \in OwnGreens(dag, goal, f) :
          /\ dag.nodes[i].gen = goal.gen[f] /\ dag.nodes[i].tree = goal.fp[f]
          /\ \A j \in OwnGreens(dag, goal, f) : dag.nodes[j].gen = goal.gen[f] => j <= i
    BY DEF Agrees, Anchored
  <2>3. i \in OwnGreens(e, goal, f) /\ e.nodes[i] = dag.nodes[i]  BY <1>5, <1>6
  <2>4. ASSUME NEW j \in OwnGreens(e, goal, f), e.nodes[j].gen = goal.gen[f] PROVE j <= i
    <3>1. j # NewId
      <4> SUFFICES ASSUME j = NewId PROVE FALSE  OBVIOUS
      <4>1. node.kind = "green" /\ node.step = f  BY <1>1, <2>4 DEF OwnGreens
      <4> QED  BY <4>1, <1>1, <2>1, <2>4
    <3> QED  BY <3>1, <1>4, <2>2, <2>4
  <2> QED  BY <2>1, <2>2, <2>3, <2>4 DEF Anchored
<1>10. OfNow(e, goal)  BY <1>1, <1>3 DEF OfNow
<1>11. Agrees(e, goal)  BY <1>7, <1>8, <1>9 DEF Agrees
<1> QED  BY <1>10, <1>11 DEF e

(* The goal.json that is written after a green node agrees with it. *)
LEMMA GreenNode ==
  ASSUME TypeOK, goal # None, goal.status # "planning", NEW f \in Finals, NEW h, NEW edges,
         Agrees(dag, goal), NEW node \in Node,
         node = [kind |-> "green", slug |-> goal.slug, step |-> f,
                 gen |-> CaptureGen(f), attempt |-> goal.attempt,
                 tree |-> tree, harness |-> h, era |-> era]
  PROVE  Agrees(WithNode(node, edges),
                [goal EXCEPT !.done = @ \cup {f}, !.gen[f] = CaptureGen(f), !.fp[f] = tree])
<1> DEFINE e == WithNode(node, edges)
           g == [goal EXCEPT !.done = @ \cup {f}, !.gen[f] = CaptureGen(f), !.fp[f] = tree]
<1>1. /\ DOMAIN e.nodes = DOMAIN dag.nodes \cup {NewId} /\ e.nodes[NewId] = node
      /\ \A i \in DOMAIN dag.nodes : e.nodes[i] = dag.nodes[i] /\ i \in Nat /\ i < NewId
      /\ NewId \in Nat \ {0} /\ dag \in DagFile
  BY AppendFacts
<1>g. /\ goal \in GoalFile /\ goal.attempt \in Nat /\ goal.gen \in [Finals -> Nat]
      /\ goal.fp \in [Finals -> Trees \cup {None}]
  BY BoundsAssumption DEF TypeOK, GoalFile, Attempts
<1>2. /\ g.slug = goal.slug /\ g.attempt = goal.attempt /\ g.status = goal.status
      /\ g.done = goal.done \cup {f}
      /\ g.gen = [goal.gen EXCEPT ![f] = goal.gen[f] + 1]
      /\ g.fp = [goal.fp EXCEPT ![f] = tree]
  BY <1>g DEF GoalFile, CaptureGen
<1>3. node.kind = "green" /\ node.slug = goal.slug /\ node.attempt = goal.attempt
      /\ node.step = f /\ node.gen = goal.gen[f] + 1 /\ node.tree = tree
  BY DEF CaptureGen
<1> HIDE DEF e, g
<1>4. \A i \in Captured(e, goal.slug) :
        i = NewId \/ (i \in Captured(dag, goal.slug) /\ e.nodes[i] = dag.nodes[i])
  <2> SUFFICES ASSUME NEW i \in Captured(e, goal.slug), i # NewId
               PROVE  i \in Captured(dag, goal.slug) /\ e.nodes[i] = dag.nodes[i]
    OBVIOUS
  <2>1. i \in DOMAIN dag.nodes /\ e.nodes[i] = dag.nodes[i]  BY <1>1 DEF Captured
  <2> QED  BY <2>1 DEF Captured
<1>5. \A x : \A i \in OwnGreens(e, g, x) :
        \/ i = NewId /\ x = f
        \/ i \in OwnGreens(dag, goal, x) /\ e.nodes[i] = dag.nodes[i]
  BY <1>1, <1>2, <1>3 DEF OwnGreens, Own, Captured
<1>6. \A x : \A i \in OwnGreens(dag, goal, x) : i \in OwnGreens(e, g, x) /\ e.nodes[i] = dag.nodes[i]
  BY <1>1, <1>2 DEF OwnGreens, Own, Captured
<1>7. NewId \in OwnGreens(e, g, f)
  BY <1>1, <1>2, <1>3 DEF OwnGreens, Own, Captured, Captures
<1>8. \A x : \A i \in OwnGreens(dag, goal, x) : dag.nodes[i].gen \in Nat /\ i \in Nat /\ i < NewId
  BY <1>1, NodeFacts DEF OwnGreens, Own, Captured
<1>9. Behind(e, g)  BY <1>1, <1>2, <1>3, <1>4, <1>g DEF Behind, Agrees
<1>10. ASSUME NEW x \in Finals, NEW i \in OwnGreens(e, g, x)
       PROVE  e.nodes[i].gen <= g.gen[x] + 1
  <2>1. goal.gen[x] \in Nat /\ (x # f => g.gen[x] = goal.gen[x])
        /\ (x = f => g.gen[x] = goal.gen[x] + 1)
    BY <1>2, <1>g
  <2>2. CASE i = NewId  BY <2>1, <2>2, <1>1, <1>3, <1>5, <1>8
  <2>3. CASE i # NewId
    <3>1. i \in OwnGreens(dag, goal, x) /\ e.nodes[i] = dag.nodes[i]  BY <2>3, <1>5
    <3>2. dag.nodes[i].gen <= goal.gen[x] + 1 /\ dag.nodes[i].gen \in Nat
      BY <3>1, <1>8 DEF Agrees
    <3> QED  BY <2>1, <3>1, <3>2
  <2> QED  BY <2>2, <2>3
<1>11. ASSUME NEW x \in g.done \cap Finals PROVE g.gen[x] > 0 /\ Anchored(e, g, x)
  <2>1. CASE x = f
    <3>1. g.gen[f] = goal.gen[f] + 1 /\ g.fp[f] = tree /\ goal.gen[f] \in Nat  BY <1>2, <1>g
    <3>2. \A j \in OwnGreens(e, g, f) : j <= NewId  BY <1>1, <1>5, <1>8
    <3> QED  BY <1>1, <1>3, <1>7, <2>1, <3>1, <3>2 DEF Anchored
  <2>2. CASE x # f
    <3>1. g.gen[x] = goal.gen[x] /\ g.fp[x] = goal.fp[x] /\ x \in goal.done \cap Finals
      BY <1>2, <1>g, <2>2
    <3>2. goal.gen[x] > 0 /\ Anchored(dag, goal, x)  BY <3>1 DEF Agrees
    <3>3. OwnGreens(e, g, x) = OwnGreens(dag, goal, x)
      <4>1. OwnGreens(e, g, x) \subseteq OwnGreens(dag, goal, x)  BY <1>5, <2>2
      <4>2. OwnGreens(dag, goal, x) \subseteq OwnGreens(e, g, x)  BY <1>6
      <4> QED  BY <4>1, <4>2
    <3> QED  BY <1>6, <3>1, <3>2, <3>3 DEF Anchored
  <2> QED  BY <2>1, <2>2
<1>12. g.status # "planning"  BY <1>2
<1>13. Agrees(e, g)  BY <1>9, <1>10, <1>11, <1>12 DEF Agrees
<1> QED  BY <1>13 DEF e, g

(* The same name, attempt and captures: only the state of the goal differs. *)
LEMMA SameEvidence ==
  ASSUME NEW d, NEW g, NEW h, h.slug = g.slug, h.attempt = g.attempt,
         h.gen = g.gen, h.fp = g.fp, h.done \cap Finals = g.done \cap Finals,
         h.status = "planning" => g.status = "planning"
  PROVE  /\ Agrees(d, g) => Agrees(d, h)
         /\ OfNow(d, g) => OfNow(d, h)
         /\ Barren(d, g) => Barren(d, h)
<1>1. Own(d, h) = Own(d, g)  BY DEF Own
<1>2. \A f : OwnGreens(d, h, f) = OwnGreens(d, g, f)  BY <1>1 DEF OwnGreens
<1>3. (Behind(d, g) => Behind(d, h)) /\ (Barren(d, g) => Barren(d, h))  BY DEF Behind, Barren
<1>4. \A f : Anchored(d, g, f) => Anchored(d, h, f)  BY <1>2 DEF Anchored
<1> QED  BY <1>1, <1>2, <1>3, <1>4 DEF Agrees, OfNow

(* The anchor is a capture of the goal's own, and Anchored says which.      *)
LEMMA AnchorFacts ==
  ASSUME TypeOK, goal # None, NEW f \in Finals
  PROVE  /\ Anchor(f) # 0 => Anchor(f) \in OwnGreens(dag, goal, f)
         /\ goal.gen[f] > 0 /\ Anchored(dag, goal, f) =>
              Anchor(f) # 0 /\ dag.nodes[Anchor(f)].tree = goal.fp[f]
<1> DEFINE gen == IF goal.gen[f] = 0 THEN 1 ELSE goal.gen[f]
           ids == {i \in Greens(f) : dag.nodes[i].gen = gen}
<1>1. Greens(f) = OwnGreens(dag, goal, f)
  BY DEF Greens, Nodes, OwnGreens, Own, Captured, Captures
<1>2. dag \in DagFile  BY DEF TypeOK
<1>3. DOMAIN dag.nodes = 1..Len(dag.nodes) /\ Len(dag.nodes) \in Nat  BY <1>2, NodeFacts
<1>4. ids \subseteq DOMAIN dag.nodes  BY DEF Greens, Nodes
<1>5. Anchor(f) = Latest(ids)  BY DEF Anchor
<1>6. ids \subseteq 0..Len(dag.nodes)  BY <1>3, <1>4
<1>7. \A i \in ids : i \in OwnGreens(dag, goal, f) /\ i \in Nat \ {0}  BY <1>1, <1>3, <1>4
<1>8. goal.gen[f] > 0 /\ goal.gen[f] \in Nat => gen = goal.gen[f]  OBVIOUS
<1>9. goal.gen[f] \in Nat  BY DEF TypeOK, GoalFile
<1>10. \A i \in OwnGreens(dag, goal, f) : dag.nodes[i].gen = gen => i \in ids  BY <1>1
<1>11. \A i \in ids : dag.nodes[i].gen = gen  OBVIOUS
<1> HIDE DEF ids, gen
<1>12. /\ ids = {} => Latest(ids) = 0
       /\ ids # {} => Latest(ids) \in ids /\ \A j \in ids : j <= Latest(ids)
  BY <1>3, <1>6, LatestIsGreatest
<1>13. Anchor(f) # 0 => Anchor(f) \in OwnGreens(dag, goal, f)  BY <1>5, <1>7, <1>12
<1>14. ASSUME goal.gen[f] > 0, Anchored(dag, goal, f)
       PROVE  Anchor(f) # 0 /\ dag.nodes[Anchor(f)].tree = goal.fp[f]
  <2>1. PICK i \in OwnGreens(dag, goal, f) :
          /\ dag.nodes[i].gen = goal.gen[f] /\ dag.nodes[i].tree = goal.fp[f]
          /\ \A j \in OwnGreens(dag, goal, f) : dag.nodes[j].gen = goal.gen[f] => j <= i
    BY <1>14 DEF Anchored
  <2>2. i \in ids  BY <2>1, <1>8, <1>9, <1>10, <1>14
  <2>3. Latest(ids) \in ids /\ i <= Latest(ids)  BY <2>2, <1>12
  <2>4. Latest(ids) <= i  BY <2>1, <2>3, <1>7, <1>8, <1>9, <1>11, <1>14
  <2>5. Latest(ids) = i  BY <2>2, <2>3, <2>4, <1>7
  <2> QED  BY <2>1, <2>2, <2>5, <1>5, <1>7
<1> QED  BY <1>13, <1>14

(* What each command appends keeps the ledger sound. *)
LEMMA SoundNode ==
  ASSUME TypeOK, Sound(dag), NEW node \in Node, NEW edges,
         node.kind = "comparator" => \A f \in Finals : node.items[f] \in DOMAIN dag.nodes,
         \A x \in edges : LET e == WithNode(node, edges)
                          IN  e.nodes[x[2]].kind = "green" /\ e.nodes[x[1]].era = e.nodes[x[2]].era
  PROVE  Sound(WithNode(node, edges))
<1> DEFINE e == WithNode(node, edges)
<1>1. /\ DOMAIN e.nodes = DOMAIN dag.nodes \cup {NewId} /\ e.nodes[NewId] = node
      /\ \A i \in DOMAIN dag.nodes : e.nodes[i] = dag.nodes[i] /\ i \in Nat /\ i < NewId
      /\ e.redOf = dag.redOf \cup edges
      /\ \A x \in dag.redOf : x[1] \in DOMAIN dag.nodes /\ x[2] \in DOMAIN dag.nodes
  BY AppendFacts
<1> HIDE DEF e
<1>2. WellPaired(e)
  <2>1. ASSUME NEW x \in dag.redOf
        PROVE  e.nodes[x[2]].kind = "green" /\ e.nodes[x[1]].era = e.nodes[x[2]].era
    BY <1>1 DEF Sound, WellPaired
  <2>2. ASSUME NEW x \in edges
        PROVE  e.nodes[x[2]].kind = "green" /\ e.nodes[x[1]].era = e.nodes[x[2]].era
    BY DEF e
  <2> QED  BY <1>1, <2>1, <2>2 DEF WellPaired
<1>3. ComparedBefore(e)
  <2> SUFFICES ASSUME NEW i \in DOMAIN e.nodes, e.nodes[i].kind = "comparator",
                      NEW f \in Finals
               PROVE  e.nodes[i].items[f] < i
    BY DEF ComparedBefore
  <2>1. CASE i = NewId  BY <1>1, <2>1
  <2>2. CASE i # NewId  BY <1>1, <2>2 DEF Sound, ComparedBefore
  <2> QED  BY <2>1, <2>2
<1> QED  BY <1>2, <1>3 DEF Sound, e

(* The command that adds a capture of the goal. *)
LEMMA GreenSound ==
  ASSUME TypeOK, goal # None, Sound(dag), OfNow(dag, goal), NEW f \in Finals,
         NEW node \in Node, node.kind = "green", node.era = era
  PROVE  Sound(WithNode(node, {<<r, NewId>> : r \in Halves(f)}))
<1> DEFINE edges == {<<r, NewId>> : r \in Halves(f)}
           e == WithNode(node, edges)
<1>1. /\ e.nodes[NewId] = node
      /\ \A i \in DOMAIN dag.nodes : e.nodes[i] = dag.nodes[i]
  BY AppendFacts
<1>2. Halves(f) \subseteq Own(dag, goal) /\ Halves(f) \subseteq DOMAIN dag.nodes
  BY DEF Halves, Nodes, Own, Captured, Captures
<1>3. ASSUME NEW x \in edges
      PROVE  e.nodes[x[2]].kind = "green" /\ e.nodes[x[1]].era = e.nodes[x[2]].era
  <2>1. PICK r \in Halves(f) : x = <<r, NewId>>  OBVIOUS
  <2>2. dag.nodes[r].era = era  BY <1>2 DEF OfNow
  <2>3. e.nodes[r] = dag.nodes[r]  BY <1>1, <1>2
  <2> HIDE DEF e
  <2> QED  BY <1>1, <2>1, <2>2, <2>3
<1> HIDE DEF edges
<1>4. node.kind # "comparator"  OBVIOUS
<1> QED  BY <1>3, <1>4, SoundNode DEF e, edges

LEMMA HalfSound ==
  ASSUME TypeOK, goal # None, Sound(dag), OfNow(dag, goal), NEW f \in Finals,
         NEW node \in Node, node.kind \in {"red", "waived"}, node.era = era
  PROVE  Sound(WithNode(node, IF goal.gen[f] > 0 /\ Anchor(f) # 0
                              THEN {<<NewId, Anchor(f)>>} ELSE {}))
<1> DEFINE edges == IF goal.gen[f] > 0 /\ Anchor(f) # 0 THEN {<<NewId, Anchor(f)>>} ELSE {}
           e == WithNode(node, edges)
<1>1. /\ e.nodes[NewId] = node
      /\ \A i \in DOMAIN dag.nodes : e.nodes[i] = dag.nodes[i]
  BY AppendFacts
<1>2. ASSUME NEW x \in edges
      PROVE  e.nodes[x[2]].kind = "green" /\ e.nodes[x[1]].era = e.nodes[x[2]].era
  <2>1. x = <<NewId, Anchor(f)>> /\ Anchor(f) # 0  OBVIOUS
  <2>2. Anchor(f) \in OwnGreens(dag, goal, f)  BY <2>1, AnchorFacts
  <2>3. /\ Anchor(f) \in DOMAIN dag.nodes /\ dag.nodes[Anchor(f)].kind = "green"
        /\ dag.nodes[Anchor(f)].era = era
    BY <2>2 DEF OwnGreens, Own, Captured, OfNow
  <2> HIDE DEF e, edges
  <2> QED  BY <1>1, <2>1, <2>3
<1> HIDE DEF edges
<1>3. node.kind # "comparator"  OBVIOUS
<1> QED  BY <1>2, <1>3, SoundNode DEF e, edges

LEMMA EvidenceInit == Init => EvidenceInv
BY DEF Init, EvidenceInv, Nothing, DagToBe, Sound, WellPaired, ComparedBefore

LEMMA EvidenceStep == Shape /\ RevivalInv /\ EvidenceInv /\ [Next]_vars => EvidenceInv'
<1> SUFFICES ASSUME Shape, RevivalInv, EvidenceInv, [Next]_vars PROVE EvidenceInv'  OBVIOUS
<1>t. /\ goal \in GoalFile \cup {None} /\ dag \in DagFile /\ TypeOK
      /\ pending \in PendingType
      /\ finish # None => goal # None /\ pending = Nothing
  BY DEF Shape, TypeOK, Linked, PendingType
<1>n. pending = Nothing => pending.goal = None /\ pending.dag = None  BY DEF Nothing
<1>u. ASSUME UNCHANGED <<goal, dag, era>>, pending'.dag = pending.dag, pending'.goal = pending.goal
      PROVE  EvidenceInv'
  BY <1>u DEF EvidenceInv, DagToBe, OfNow, NewInstance
<1>v. ASSUME UNCHANGED <<goal, dag, pending, era>> PROVE EvidenceInv'
  BY <1>u, <1>v
(* The goal keeps its captures. *)
<1>s. ASSUME goal # None, goal' # None, Idle, UNCHANGED <<dag, pending, era>>,
             goal'.slug = goal.slug, goal'.attempt = goal.attempt,
             goal'.gen = goal.gen, goal'.fp = goal.fp,
             goal'.done \cap Finals = goal.done \cap Finals,
             goal'.status = "planning" => goal.status = "planning"
      PROVE  EvidenceInv'
  <2>1. Agrees(dag, goal) /\ OfNow(dag, goal) /\ Sound(dag)  BY <1>s DEF EvidenceInv
  <2>2. Agrees(dag, goal') /\ OfNow(dag, goal')  BY <1>s, <2>1, SameEvidence
  <2>3. OfNow(dag, goal)'  BY <1>s, <2>2 DEF OfNow
  <2>4. pending'.goal = None /\ pending'.dag = None  BY <1>s, <1>n DEF Idle
  <2> QED  BY <1>s, <2>1, <2>2, <2>3, <2>4 DEF EvidenceInv, DagToBe
(* A command appends to the ledger at once. *)
<1>d. ASSUME goal # None, Idle, UNCHANGED <<goal, pending, era>>,
             Agrees(dag', goal), OfNow(dag', goal), Sound(dag')
      PROVE  EvidenceInv'
  <2>1. pending'.goal = None /\ pending'.dag = None  BY <1>d, <1>n DEF Idle
  <2>2. OfNow(dag, goal)'  BY <1>d DEF OfNow
  <2> QED  BY <1>d, <2>1, <2>2 DEF EvidenceInv, DagToBe
(* A command queues a ledger, or none, and a goal. *)
<1>q. ASSUME Idle, UNCHANGED <<goal, dag, era>>, NEW d \in DagFile,
             IF pending'.dag = None THEN d = dag ELSE d = pending'.dag,
             Sound(d), goal # None => Agrees(d, goal) /\ OfNow(d, goal),
             Agrees(d, pending'.goal),
             goal = None \/ pending'.goal.attempt # goal.attempt => Barren(d, pending'.goal)
      PROVE  EvidenceInv'
  <2>1. DagToBe' = d  BY <1>q DEF DagToBe
  <2>2. goal # None => OfNow(dag, goal)' /\ OfNow(d, goal)'
    BY <1>q DEF EvidenceInv, OfNow
  <2> QED  BY <1>q, <2>1, <2>2 DEF EvidenceInv, NewInstance
<1>1. ASSUME NEW s \in Slugs, NEW tier \in Tiers, Register(s, tier) PROVE EvidenceInv'
  <2> DEFINE n == NextAttempt(s)
             g == [slug |-> s, status |-> "planning", tier |-> tier, attempt |-> n,
                   plan |-> None, done |-> {}, gen |-> Fresh.gen, fp |-> Fresh.fp]
  <2>1. n \in Attempts
    BY <1>1, <1>t, NextAttemptType, BoundsAssumption DEF Register, Attempts
  <2>2. g \in GoalFile  BY <2>1, InputsAssumption DEF GoalFile, Fresh
  <2>3. goal = None /\ Idle /\ Untouched /\ pending'.dag = None /\ pending'.goal = g
    BY <1>1 DEF Register, Nothing
  <2>4. Barren(dag, g)
    <3> SUFFICES ASSUME NEW i \in Captured(dag, s) PROVE dag.nodes[i].attempt < n
      BY DEF Barren
    <3>1. dag.nodes[i].attempt \in StampsOf(s)
      BY DEF Captured, Captures, StampsOf, Nodes
    <3> QED  BY <3>1, <1>t, NextAttemptAbove
  <2>5. g.done = {} /\ g.attempt = n  OBVIOUS
  <2> HIDE DEF g, n
  <2>6. Agrees(dag, g)  BY <1>t, <2>2, <2>4, <2>5, BarrenAgrees
  <2>7. Sound(dag)  BY DEF EvidenceInv
  <2> QED  BY <1>t, <2>3, <2>4, <2>6, <2>7, <1>q DEF Untouched
<1>2. ASSUME NEW p \in Plans, Adopt(p) PROVE EvidenceInv'
  <2> DEFINE node == PlanNode(p, goal.attempt)
             d == WithNode(node, {})
             g == Adopted(p, goal.attempt)
  <2>1. goal # None /\ goal \in GoalFile /\ goal.status = "planning" /\ Idle /\ Untouched
    BY <1>2, <1>t DEF Adopt
  <2>2. pending'.dag = d /\ pending'.goal = g  BY <1>2 DEF Adopt, Nothing
  <2>3. node \in Node /\ node.kind = "plan"  BY <2>1 DEF PlanNode, Node, GoalFile
  <2>4. d \in DagFile /\ g \in GoalFile
    BY <1>t, <2>1, NodesType, GoalFileType DEF GoalFile
  <2>5. g.slug = goal.slug /\ g.attempt = goal.attempt /\ g.done = {}
    BY <2>1 DEF Adopted, Fresh, GoalFile
  <2>6. Agrees(dag, goal) /\ OfNow(dag, goal) /\ Sound(dag)  BY <2>1 DEF EvidenceInv
  <2>7. Barren(dag, g)  BY <2>1, <2>5, <2>6 DEF Agrees, Barren
  <2>8. Agrees(d, goal) /\ OfNow(d, goal) /\ Barren(d, g)
    BY <1>t, <2>3, <2>6, <2>7, OtherNode
  <2>9. Sound(d)  BY <1>t, <2>3, <2>6, SoundNode
  <2> HIDE DEF d, g, node
  <2>10. Agrees(d, g)  BY <2>4, <2>5, <2>8, BarrenAgrees
  <2>11. d # None  BY <2>4, NoneAssumption
  <2> QED  BY <2>1, <2>2, <2>4, <2>8, <2>9, <2>10, <2>11, <1>q DEF Untouched
<1>3. ASSUME NEW p \in Plans, Supersede(p) PROVE EvidenceInv'
  <2> DEFINE n == goal.attempt + 1
             node == PlanNode(p, n)
             d == WithNode(node, {})
             g == Adopted(p, n)
  <2>1. goal # None /\ goal \in GoalFile /\ Idle /\ Untouched
    BY <1>3, <1>t DEF Supersede
  <2>2. pending'.dag = d /\ pending'.goal = g  BY <1>3 DEF Supersede, NextOf, Nothing
  <2>3. n \in Attempts /\ goal.attempt \in Nat
    BY <1>3, <2>1, BoundsAssumption DEF Supersede, GoalFile, Attempts
  <2>4. node \in Node /\ node.kind = "plan"  BY <2>1, <2>3 DEF PlanNode, Node, GoalFile
  <2>5. d \in DagFile /\ g \in GoalFile
    BY <1>t, <2>1, <2>3, NodesType, GoalFileType
  <2>6. g.slug = goal.slug /\ g.attempt = n /\ g.done = {}
    BY <2>1 DEF Adopted, Fresh, GoalFile
  <2>7. Agrees(dag, goal) /\ OfNow(dag, goal) /\ Sound(dag)  BY <2>1 DEF EvidenceInv
  <2>8. Barren(dag, g)
    <3>1. \A i \in Captured(dag, goal.slug) : dag.nodes[i].attempt \in Nat
      BY <1>t, NodeFacts, BoundsAssumption DEF Captured, Attempts
    <3> QED  BY <3>1, <2>3, <2>6, <2>7 DEF Agrees, Behind, Barren
  <2>9. Agrees(d, goal) /\ OfNow(d, goal) /\ Barren(d, g)
    BY <1>t, <2>4, <2>7, <2>8, OtherNode
  <2>10. Sound(d)  BY <1>t, <2>4, <2>7, SoundNode
  <2> HIDE DEF d, g, node, n
  <2>11. Agrees(d, g)  BY <2>5, <2>6, <2>9, BarrenAgrees
  <2>12. d # None  BY <2>5, NoneAssumption
  <2> QED  BY <2>1, <2>2, <2>5, <2>9, <2>10, <2>11, <2>12, <1>q DEF Untouched
<1>4. ASSUME NEW s \in Works, CompleteWork(s) PROVE EvidenceInv'
  <2>1. goal # None /\ goal \in GoalFile /\ Idle  BY <1>4, <1>t DEF CompleteWork, Open
  <2>2. goal' = [goal EXCEPT !.done = @ \cup {s}] /\ UNCHANGED <<dag, pending, era>>
    BY <1>4 DEF CompleteWork, SaveGoal
  <2>3. goal' \in GoalFile /\ goal' # None  BY <1>t, <2>1, <2>2, GoalFileType, NoneAssumption
  <2>4. /\ goal'.slug = goal.slug /\ goal'.attempt = goal.attempt /\ goal'.gen = goal.gen
        /\ goal'.fp = goal.fp /\ goal'.status = goal.status /\ goal'.done = goal.done \cup {s}
    BY <2>1, <2>2 DEF GoalFile
  <2>5. goal'.done \cap Finals = goal.done \cap Finals  BY <2>4, SetsAssumption
  <2> QED  BY <2>1, <2>2, <2>3, <2>4, <2>5, <1>s
<1>5. ASSUME NEW f \in Finals, NEW h \in Harnesses, CompleteFinal(f, h) PROVE EvidenceInv'
  <2> DEFINE node == [kind |-> "green", slug |-> goal.slug, step |-> f,
                      gen |-> CaptureGen(f), attempt |-> goal.attempt,
                      tree |-> tree, harness |-> h, era |-> era]
             edges == {<<r, NewId>> : r \in Halves(f)}
             d == WithNode(node, edges)
             g == [goal EXCEPT !.done = @ \cup {f}, !.gen[f] = CaptureGen(f), !.fp[f] = tree]
  <2>1. goal # None /\ goal \in GoalFile /\ goal.status # "planning" /\ Idle /\ Untouched
        /\ tree \in Trees /\ era \in Nat
    BY <1>5, <1>t DEF CompleteFinal, Open, TypeOK
  <2>2. pending'.dag = d /\ pending'.goal = g  BY <1>5 DEF CompleteFinal, Nothing
  <2>3. node \in Node
    <3>1. goal.slug \in Slugs /\ goal.attempt \in Attempts /\ CaptureGen(f) \in Nat \ {0}
      BY <2>1 DEF GoalFile, CaptureGen
    <3> QED  BY <3>1, <2>1 DEF Node
  <2>4. /\ node.kind = "green" /\ node.slug = goal.slug /\ node.attempt = goal.attempt
        /\ node.era = era /\ node.step = f /\ node.gen = goal.gen[f] + 1
    BY DEF CaptureGen
  <2>5. d \in DagFile  BY <1>t, <2>1, NodesType
  <2>6. Agrees(dag, goal) /\ OfNow(dag, goal) /\ Sound(dag)  BY <2>1 DEF EvidenceInv
  <2>7. Agrees(d, g)  BY <1>t, <2>1, <2>3, <2>6, GreenNode
  <2>8. g.attempt = goal.attempt  BY <2>1 DEF GoalFile
  <2> HIDE DEF node, g
  <2>9. Agrees(d, goal) /\ OfNow(d, goal)
    <3>1. node.kind \in Captures  BY <2>4 DEF Captures
    <3> HIDE DEF edges
    <3> QED  BY <1>t, <2>1, <2>3, <2>4, <2>6, <3>1, OwnNode
  <2>10. Sound(d)  BY <1>t, <2>1, <2>3, <2>4, <2>6, GreenSound
  <2> HIDE DEF d
  <2>11. d # None  BY <2>5, NoneAssumption
  <2> QED  BY <2>1, <2>2, <2>5, <2>7, <2>8, <2>9, <2>10, <2>11, <1>q DEF Untouched
<1>6. ASSUME NEW f \in Finals, NEW half \in HalfKinds, NEW h \in Harnesses,
             RecordHalf(f, half, h)
      PROVE  EvidenceInv'
  <2> DEFINE node == [kind |-> half, slug |-> goal.slug, step |-> f, attempt |-> goal.attempt,
                      harness |-> IF half = "red" THEN h ELSE None, era |-> era]
             edges == IF goal.gen[f] > 0 /\ Anchor(f) # 0 THEN {<<NewId, Anchor(f)>>} ELSE {}
             d == WithNode(node, edges)
  <2>1. goal # None /\ goal \in GoalFile /\ goal.status # "planning" /\ Idle
    BY <1>6, <1>t DEF RecordHalf, Open
  <2>2. dag' = d /\ UNCHANGED <<goal, pending, era>>  BY <1>6 DEF RecordHalf, SaveDag
  <2>3. half \in {"red", "waived"}  BY InputsAssumption
  <2>4. node \in Node
    <3>1. goal.slug \in Slugs /\ goal.attempt \in Attempts /\ era \in Nat
      BY <2>1, <1>t DEF GoalFile, TypeOK
    <3> QED  BY <3>1, <2>3 DEF Node
  <2>5. /\ node.kind \in {"red", "waived"} /\ node.kind # "green" /\ node.kind \in Captures
        /\ node.slug = goal.slug /\ node.attempt = goal.attempt /\ node.era = era
    BY <2>3 DEF Captures
  <2>6. Agrees(dag, goal) /\ OfNow(dag, goal) /\ Sound(dag)  BY <2>1 DEF EvidenceInv
  <2> HIDE DEF node
  <2>7. Sound(d)  BY <1>t, <2>1, <2>4, <2>5, <2>6, HalfSound
  <2> HIDE DEF edges
  <2>8. Agrees(d, goal) /\ OfNow(d, goal)
    BY <1>t, <2>1, <2>4, <2>5, <2>6, OwnNode
  <2> QED  BY <2>1, <2>2, <2>7, <2>8, <1>d
<1>7. ASSUME NEW items \in [Finals -> DOMAIN dag.nodes], NEW match \in Verdicts,
             Compare(items, match)
      PROVE  EvidenceInv'
  <2> DEFINE node == [kind |-> "comparator", slug |-> goal.slug, plan |-> goal.plan,
                      match |-> match, tree |-> tree, items |-> items]
             d == WithNode(node, {})
  <2>1. goal # None /\ goal \in GoalFile /\ Idle  BY <1>7, <1>t DEF Compare, Open
  <2>2. dag' = d /\ UNCHANGED <<goal, pending, era>>  BY <1>7 DEF Compare, SaveDag
  <2>3. node \in Node
    <3>1. goal.slug \in Slugs /\ goal.plan \in Plans \cup {None} /\ tree \in Trees
      BY <2>1, <1>t DEF GoalFile, TypeOK
    <3>2. items \in [Finals -> Nat \ {0}]  BY <1>t, NodeFacts
    <3>3. match \in BOOLEAN  BY InputsAssumption
    <3> QED  BY <3>1, <3>2, <3>3 DEF Node
  <2>4. node.kind = "comparator" /\ \A f \in Finals : node.items[f] \in DOMAIN dag.nodes
    OBVIOUS
  <2>5. Agrees(dag, goal) /\ OfNow(dag, goal) /\ Sound(dag)  BY <2>1 DEF EvidenceInv
  <2> HIDE DEF node
  <2>6. Agrees(d, goal) /\ OfNow(d, goal)  BY <1>t, <2>3, <2>4, <2>5, OtherNode
  <2>7. Sound(d)  BY <1>t, <2>3, <2>4, <2>5, SoundNode
  <2> QED  BY <2>1, <2>2, <2>6, <2>7, <1>d
<1>8. CASE RaiseTier
  <2>1. goal # None /\ goal \in GoalFile /\ Idle  BY <1>8, <1>t DEF RaiseTier
  <2>2. goal' = [goal EXCEPT !.tier = "heavy"] /\ UNCHANGED <<dag, pending, era>>
    BY <1>8 DEF RaiseTier, SaveGoal
  <2>3. goal' # None  BY <1>t, <2>1, <2>2, GoalFileType, NoneAssumption
  <2>4. /\ goal'.slug = goal.slug /\ goal'.attempt = goal.attempt /\ goal'.gen = goal.gen
        /\ goal'.fp = goal.fp /\ goal'.status = goal.status /\ goal'.done = goal.done
    BY <2>1, <2>2 DEF GoalFile
  <2> QED  BY <2>1, <2>2, <2>3, <2>4, <1>s
<1>9. CASE Start
  <2>1. goal # None /\ goal \in GoalFile /\ Idle  BY <1>9, <1>t DEF Start
  <2>2. goal' = [goal EXCEPT !.status = "executing"] /\ UNCHANGED <<dag, pending, era>>
    BY <1>9 DEF Start, SaveGoal
  <2>3. goal' # None  BY <1>t, <2>1, <2>2, GoalFileType, NoneAssumption
  <2>4. /\ goal'.slug = goal.slug /\ goal'.attempt = goal.attempt /\ goal'.gen = goal.gen
        /\ goal'.fp = goal.fp /\ goal'.status = "executing" /\ goal'.done = goal.done
    BY <2>1, <2>2 DEF GoalFile
  <2> QED  BY <2>1, <2>2, <2>3, <2>4, <1>s
(* Abandon and the end of finish change the state of the goal only. *)
<1>a. ASSUME goal # None, Idle, UNCHANGED <<goal, dag, era>>, pending'.dag = None,
             NEW st \in {"done", "abandoned"}, pending'.goal = [goal EXCEPT !.status = st]
      PROVE  EvidenceInv'
  <2> DEFINE g == [goal EXCEPT !.status = st]
  <2>1. goal \in GoalFile /\ dag \in DagFile  BY <1>a, <1>t
  <2>2. /\ g.slug = goal.slug /\ g.attempt = goal.attempt /\ g.gen = goal.gen
        /\ g.fp = goal.fp /\ g.status = st /\ g.done = goal.done
    BY <2>1 DEF GoalFile
  <2>3. Agrees(dag, goal) /\ OfNow(dag, goal) /\ Sound(dag)  BY <1>a DEF EvidenceInv
  <2>4. pending'.goal = g  BY <1>a
  <2> HIDE DEF g
  <2>5. Agrees(dag, g)  BY <2>2, <2>3, SameEvidence
  <2> QED  BY <1>a, <2>1, <2>2, <2>3, <2>4, <2>5, <1>q
<1>10. CASE Abandon
  <2>1. goal # None /\ Idle /\ Untouched  BY <1>10 DEF Abandon
  <2>2. pending'.dag = None /\ pending'.goal = [goal EXCEPT !.status = "abandoned"]
    BY <1>10 DEF Abandon, Nothing
  <2> QED  BY <2>1, <2>2, <1>a DEF Untouched
<1>11. CASE Reset
  <2>1. goal' = None /\ Idle /\ UNCHANGED <<dag, pending>>  BY <1>11 DEF Reset
  <2> QED  BY <2>1, <1>n DEF Idle, EvidenceInv, DagToBe
<1>12. CASE FinishVerify
  BY <1>12, <1>v DEF FinishVerify
<1>13. ASSUME NEW clean \in BOOLEAN, FinishIntegrity(clean) PROVE EvidenceInv'
  BY <1>13, <1>v DEF FinishIntegrity, FinishTo
<1>14. CASE FinishResample
  BY <1>14, <1>v DEF FinishResample, FinishTo
<1>15. CASE FinishBlocked
  BY <1>15, <1>v DEF FinishBlocked, FinishTo
<1>16. CASE FinishGate
  <2>1. goal # None /\ goal \in GoalFile /\ pending = Nothing /\ UNCHANGED <<goal, dag, era>>
    BY <1>16, <1>t DEF FinishGate
  <2>2. pending'.dag = None /\ pending'.goal = [goal EXCEPT !.status = "done"]
    BY <1>16 DEF FinishGate, Nothing
  <2> DEFINE g == [goal EXCEPT !.status = "done"]
  <2>3. /\ g.slug = goal.slug /\ g.attempt = goal.attempt /\ g.gen = goal.gen
        /\ g.fp = goal.fp /\ g.status = "done" /\ g.done = goal.done
    BY <2>1 DEF GoalFile
  <2>4. Agrees(dag, goal) /\ OfNow(dag, goal) /\ Sound(dag)  BY <2>1 DEF EvidenceInv
  <2>5. pending'.goal = g  BY <2>2
  <2> HIDE DEF g
  <2>6. Agrees(dag, g)  BY <2>3, <2>4, SameEvidence
  <2>7. DagToBe' = dag  BY <2>1, <2>2 DEF DagToBe
  <2>8. OfNow(dag, goal)'  BY <2>1, <2>4 DEF OfNow
  <2> QED  BY <2>1, <2>3, <2>4, <2>5, <2>6, <2>7, <2>8 DEF EvidenceInv, NewInstance
<1>17. CASE WriteDag
  <2>1. /\ pending'.goal = pending.goal /\ pending'.dag = None /\ pending.dag # None
        /\ dag' = pending.dag /\ UNCHANGED <<goal, era>>
    BY <1>17, <1>t DEF WriteDag, Ready, Written, PendingType
  <2>2. dag' = DagToBe /\ DagToBe' = DagToBe  BY <2>1 DEF DagToBe
  <2>3. goal # None => OfNow(dag, goal)' /\ OfNow(DagToBe, goal)'
    BY <2>1, <2>2 DEF EvidenceInv, OfNow
  <2> QED  BY <2>1, <2>2, <2>3 DEF EvidenceInv, NewInstance
<1>18. CASE WriteAttestation
  <2>1. /\ pending'.goal = pending.goal /\ pending'.dag = pending.dag
        /\ UNCHANGED <<goal, dag, era>>
    BY <1>18, <1>t DEF WriteAttestation, Written, PendingType
  <2> QED  BY <2>1, <1>u
<1>19. CASE WriteLineage
  <2>1. /\ pending'.goal = pending.goal /\ pending'.dag = pending.dag
        /\ UNCHANGED <<goal, dag, era>>
    BY <1>19, <1>t DEF WriteLineage, Written, PendingType
  <2> QED  BY <2>1, <1>u
<1>20. CASE WriteGoal
  <2>1. /\ pending'.goal = None /\ pending'.dag = None /\ pending.dag = None
        /\ pending.goal # None /\ goal' = pending.goal /\ dag' = dag
        /\ era' = IF NewInstance THEN era + 1 ELSE era
    BY <1>20, <1>t DEF WriteGoal, Ready, Written, PendingType
  <2>2. Agrees(dag, pending.goal) /\ Sound(dag)  BY <2>1 DEF EvidenceInv, DagToBe
  <2>3. OfNow(dag, goal)'
    <3>1. CASE NewInstance
      <4>1. Barren(dag, pending.goal)  BY <2>1, <3>1 DEF EvidenceInv, DagToBe
      <4>2. pending.goal \in GoalFile  BY <2>1, <1>t DEF PendingType
      <4>3. pending.goal.attempt \in Nat  BY <4>2, BoundsAssumption DEF GoalFile, Attempts
      <4>4. \A i \in Captured(dag, pending.goal.slug) : dag.nodes[i].attempt \in Nat
        BY <1>t, NodeFacts, BoundsAssumption DEF Captured, Attempts
      <4>5. Own(dag, pending.goal) = {}  BY <4>1, <4>3, <4>4 DEF Own, Barren
      <4> QED  BY <2>1, <4>5 DEF OfNow
    <3>2. CASE ~NewInstance
      <4>1. goal # None /\ pending.goal.attempt = goal.attempt  BY <3>2 DEF NewInstance
      <4>2. pending.goal.slug = goal.slug  BY <2>1, <4>1 DEF RevivalInv, Covers
      <4>3. OfNow(dag, goal)  BY <4>1 DEF EvidenceInv
      <4>4. Own(dag, pending.goal) = Own(dag, goal)  BY <4>1, <4>2 DEF Own
      <4> QED  BY <2>1, <3>2, <4>3, <4>4 DEF OfNow
    <3> QED  BY <3>1, <3>2
  <2> QED  BY <2>1, <2>2, <2>3 DEF EvidenceInv, DagToBe
<1>21. CASE Crash
  <2>1. pending'.goal = None /\ pending'.dag = None /\ UNCHANGED <<goal, dag, era>>
    BY <1>21 DEF Crash, Nothing
  <2> QED  BY <2>1 DEF EvidenceInv, DagToBe, OfNow
<1>22. ASSUME NEW t \in Trees, Commit(t) PROVE EvidenceInv'
  BY <1>22, <1>v DEF Commit
<1>23. CASE UNCHANGED vars
  BY <1>23, <1>v DEF vars
<1> QED
  BY <1>1, <1>2, <1>3, <1>4, <1>5, <1>6, <1>7, <1>8, <1>9, <1>10, <1>11, <1>12, <1>13,
     <1>14, <1>15, <1>16, <1>17, <1>18, <1>19, <1>20, <1>21, <1>22, <1>23
  DEF Next, Command, Write

(* goal.json and the ledger agree on every piece of evidence, whatever      *)
(* writes a kill lost: LedgerAgrees.                                        *)
THEOREM EvidenceIsFound == Spec => []LedgerAgrees
<1>1. Shape /\ EvidenceInv => LedgerAgrees
  <2> SUFFICES ASSUME Shape, EvidenceInv, goal # None, NEW f \in goal.done \cap Finals
               PROVE  Anchor(f) # 0 /\ dag.nodes[Anchor(f)].tree = goal.fp[f]
    BY DEF LedgerAgrees
  <2>1. goal.gen[f] > 0 /\ Anchored(dag, goal, f)  BY DEF EvidenceInv, Agrees
  <2> QED  BY <2>1, AnchorFacts DEF Shape
<1> QED
  BY ShapeInit, ShapeStep, ActiveInit, ActiveStep, RevivalInit, RevivalStep,
     EvidenceInit, EvidenceStep, <1>1, PTL
  DEF Spec

-----------------------------------------------------------------------------
(* What an attestation stands on. *)

(* What a finish has verified, on the tree whose fingerprint is fp: it is   *)
(* the ledger's doing, so git cannot take it back.                          *)
Attestable(fp) ==
  /\ goal # None /\ goal.status \in {"executing", "done"}
  /\ \A f \in Finals : Anchor(f) # 0 /\ dag.nodes[Anchor(f)].tree = fp
  /\ goal.tier = "heavy" =>
       /\ Comparator # 0 /\ dag.nodes[Comparator].match /\ dag.nodes[Comparator].tree = fp
       /\ \A f \in Finals :
            dag.nodes[Comparator].items[f] = Anchor(f) /\ PairedHalves(f) # {}

FinishInv == finish # None => Attestable(finish.fp)

(* The ledger only grows. *)
Extends(d, e) ==
  /\ \A i \in DOMAIN d.nodes : i \in DOMAIN e.nodes /\ e.nodes[i] = d.nodes[i]
  /\ d.redOf \subseteq e.redOf

(* The evidence an attestation names is there, of its goal and its instance. *)
Cites(a, d) ==
  \A f \in Finals :
    /\ a.evidence[f] \in DOMAIN d.nodes
    /\ LET n == d.nodes[a.evidence[f]]
       IN  /\ n.kind = "green" /\ n.step = f /\ n.tree = a.fp /\ n.era = a.era
           /\ n.slug = a.slug /\ n.attempt = a.attempt

(* While an attestation waits to be written the ledger is left alone. *)
AttestInv ==
  /\ pending.dag # None => Extends(dag, pending.dag)
  /\ pending.attest # None =>
       /\ pending.dag = None
       /\ Cites(pending.attest, dag)
       /\ pending.attest.tier = "heavy" => HeavyProof(pending.attest)
  /\ \A a \in attests : Cites(a, dag)

LEMMA ExtendsNode ==
  ASSUME TypeOK, NEW node, NEW edges PROVE Extends(dag, WithNode(node, edges))
<1>1. dag.nodes \in Seq(Node)  BY DEF TypeOK, DagFile
<1>2. /\ \A i \in DOMAIN dag.nodes :
           /\ i \in DOMAIN Append(dag.nodes, node)
           /\ Append(dag.nodes, node)[i] = dag.nodes[i]
  BY <1>1
<1> QED  BY <1>2 DEF Extends, WithNode

LEMMA CitesLater ==
  ASSUME NEW a, NEW d, NEW e, Cites(a, d), Extends(d, e) PROVE Cites(a, e)
BY DEF Cites, Extends

(* The comparison finish looks at is one of the goal and its plan. *)
LEMMA ComparatorFacts ==
  ASSUME TypeOK, Comparator # 0
  PROVE  /\ Comparator \in DOMAIN dag.nodes
         /\ dag.nodes[Comparator].kind = "comparator"
         /\ dag.nodes[Comparator].plan = goal.plan
         /\ dag.nodes[Comparator].items \in [Finals -> Nat \ {0}]
<1> DEFINE ids == {i \in Nodes({"comparator"}) : /\ dag.nodes[i].slug = goal.slug
                                                 /\ dag.nodes[i].plan = goal.plan}
<1>1. ids \subseteq DOMAIN dag.nodes  BY DEF Nodes
<1>2. Comparator = Latest(ids)  BY DEF Comparator
<1>3. \A i \in ids : dag.nodes[i].kind = "comparator" /\ dag.nodes[i].plan = goal.plan
  BY DEF Nodes
<1> HIDE DEF ids
<1>4. Comparator \in ids  BY <1>1, <1>2, LookupType
<1>5. dag.nodes[Comparator] \in Node  BY <1>1, <1>4, NodeFacts DEF TypeOK
<1> QED  BY <1>1, <1>3, <1>4, <1>5 DEF Node

LEMMA FinishInit == Init => FinishInv
BY DEF Init, FinishInv

LEMMA FinishStep == Shape /\ FinishInv /\ [Next]_vars => FinishInv'
<1> SUFFICES ASSUME Shape, FinishInv, [Next]_vars PROVE FinishInv'  OBVIOUS
<1>t. /\ finish # None => goal # None /\ pending = Nothing
      /\ finish \in FinishStage \cup {None}
      /\ dag \in DagFile
  BY DEF Shape, TypeOK, Linked
<1>n. Nothing.dag = None /\ Nothing.attest = None /\ Nothing.lineage = None /\ Nothing.goal = None
  BY DEF Nothing
<1>a. ASSUME finish # None, UNCHANGED <<goal, dag>>, finish' # None, finish'.fp = finish.fp
      PROVE  FinishInv'
  <2>1. Attestable(finish.fp)  BY <1>a DEF FinishInv
  <2>2. Comparator' = Comparator /\ \A f : Anchor(f)' = Anchor(f)
    BY <1>a DEF Comparator, Anchor, Greens, Nodes
  <2>3. \A f : PairedHalves(f)' = PairedHalves(f)
    BY <1>a, <2>2 DEF PairedHalves, Nodes
  <2> QED  BY <1>a, <2>1, <2>2, <2>3 DEF FinishInv, Attestable
<1>i. ASSUME Idle, finish' = finish PROVE FinishInv'
  BY <1>i DEF Idle, FinishInv
<1>f. ASSUME finish' = None PROVE FinishInv'
  BY <1>f DEF FinishInv
<1>1. ASSUME NEW s \in Slugs, NEW tier \in Tiers, Register(s, tier) PROVE FinishInv'
  BY <1>1, <1>i DEF Register, Untouched
<1>2. ASSUME NEW p \in Plans, Adopt(p) PROVE FinishInv'
  BY <1>2, <1>i DEF Adopt, Untouched
<1>3. ASSUME NEW p \in Plans, Supersede(p) PROVE FinishInv'
  BY <1>3, <1>i DEF Supersede, Untouched
<1>4. ASSUME NEW s \in Works, CompleteWork(s) PROVE FinishInv'
  BY <1>4, <1>i DEF CompleteWork, Open, SaveGoal
<1>5. ASSUME NEW f \in Finals, NEW h \in Harnesses, CompleteFinal(f, h) PROVE FinishInv'
  BY <1>5, <1>i DEF CompleteFinal, Open, Untouched
<1>6. ASSUME NEW f \in Finals, NEW half \in HalfKinds, NEW h \in Harnesses,
             RecordHalf(f, half, h)
      PROVE  FinishInv'
  BY <1>6, <1>i DEF RecordHalf, Open, SaveDag
<1>7. ASSUME NEW items \in [Finals -> DOMAIN dag.nodes], NEW match \in Verdicts,
             Compare(items, match)
      PROVE  FinishInv'
  BY <1>7, <1>i DEF Compare, Open, SaveDag
<1>8. CASE RaiseTier \/ Start
  BY <1>8, <1>i DEF RaiseTier, Start, SaveGoal
<1>9. CASE Abandon \/ Reset
  BY <1>9, <1>i DEF Abandon, Reset, Untouched
<1>10. CASE FinishVerify
  <2>1. /\ Open /\ EvidenceFresh /\ (goal.tier = "heavy" => HeavyGate)
        /\ finish' = [stage |-> "integrity", fp |-> tree, head |-> None]
        /\ UNCHANGED <<goal, dag>>
    BY <1>10 DEF FinishVerify
  <2>2. Attestable(tree)
    BY <2>1 DEF Attestable, Open, EvidenceFresh, HeavyGate, Compared
  <2>3. Comparator' = Comparator /\ \A f : Anchor(f)' = Anchor(f)
    BY <2>1 DEF Comparator, Anchor, Greens, Nodes
  <2>4. \A f : PairedHalves(f)' = PairedHalves(f)
    BY <2>1, <2>3 DEF PairedHalves, Nodes
  <2>5. finish'.fp = tree  BY <2>1
  <2> QED  BY <2>1, <2>2, <2>3, <2>4, <2>5 DEF FinishInv, Attestable
<1>11. ASSUME NEW clean \in BOOLEAN, FinishIntegrity(clean) PROVE FinishInv'
  <2>1. finish # None /\ finish \in FinishStage /\ UNCHANGED <<goal, dag>>
    BY <1>11, <1>t DEF FinishIntegrity, FinishTo
  <2>2. \/ finish' = None
        \/ finish' = [finish EXCEPT !.stage = "resample", !.head = tree]
    BY <1>11 DEF FinishIntegrity, FinishTo
  <2>3. finish' # None => finish'.fp = finish.fp  BY <2>1, <2>2 DEF FinishStage
  <2> QED  BY <2>1, <2>3, <1>a, <1>f
<1>12. CASE FinishResample
  <2>1. finish # None /\ finish \in FinishStage /\ UNCHANGED <<goal, dag>>
    BY <1>12, <1>t DEF FinishResample, FinishTo
  <2>2. finish' = None \/ finish' = [finish EXCEPT !.stage = "gate"]
    BY <1>12 DEF FinishResample, FinishTo
  <2>3. finish' # None => finish'.fp = finish.fp  BY <2>1, <2>2 DEF FinishStage
  <2> QED  BY <2>1, <2>3, <1>a, <1>f
<1>13. CASE FinishBlocked
  BY <1>13, <1>f DEF FinishBlocked, FinishTo
<1>14. CASE FinishGate
  BY <1>14, <1>f DEF FinishGate
<1>15. CASE Write
  <2>1. finish' = finish /\ pending # Nothing
    BY <1>15, <1>n DEF Write, WriteDag, WriteAttestation, WriteLineage, WriteGoal, Ready
  <2>2. finish = None  BY <2>1, <1>t
  <2> QED  BY <2>1, <2>2 DEF FinishInv
<1>16. CASE Crash
  BY <1>16, <1>f DEF Crash
<1>17. ASSUME NEW t \in Trees, Commit(t) PROVE FinishInv'
  BY <1>17, <1>a, <1>f DEF Commit
<1>18. CASE UNCHANGED vars
  BY <1>18, <1>a, <1>f DEF vars
<1> QED
  BY <1>1, <1>2, <1>3, <1>4, <1>5, <1>6, <1>7, <1>8, <1>9, <1>10, <1>11, <1>12, <1>13,
     <1>14, <1>15, <1>16, <1>17, <1>18
  DEF Next, Command

LEMMA AttestInit == Init => AttestInv
BY DEF Init, AttestInv, Nothing

(* What the last step of finish queues is true of the ledger. *)
LEMMA GateCites ==
  ASSUME Shape, EvidenceInv, FinishInv, finish # None
  PROVE  /\ Cites(FinalAttestation, dag)
         /\ FinalAttestation.tier = "heavy" => HeavyProof(FinalAttestation)
<1> DEFINE a == FinalAttestation
<1>t. goal # None /\ TypeOK /\ dag \in DagFile  BY DEF Shape, Linked, TypeOK
<1>1. /\ a.slug = goal.slug /\ a.attempt = goal.attempt /\ a.plan = goal.plan
      /\ a.tier = goal.tier /\ a.fp = finish.fp /\ a.era = era
      /\ a.evidence = [f \in Finals |-> Anchor(f)]
      /\ goal.tier = "heavy" => a.comparator = Comparator
  BY DEF FinalAttestation
<1> HIDE DEF a
<1>2. Attestable(finish.fp)  BY DEF FinishInv
<1>3. ASSUME NEW f \in Finals
      PROVE  /\ a.evidence[f] \in DOMAIN dag.nodes
             /\ LET n == dag.nodes[a.evidence[f]]
                IN  /\ n.kind = "green" /\ n.step = f /\ n.tree = a.fp /\ n.era = a.era
                    /\ n.slug = a.slug /\ n.attempt = a.attempt
  <2>1. a.evidence[f] = Anchor(f) /\ Anchor(f) # 0 /\ dag.nodes[Anchor(f)].tree = finish.fp
    BY <1>1, <1>2 DEF Attestable
  <2>2. Anchor(f) \in OwnGreens(dag, goal, f)  BY <1>t, <2>1, AnchorFacts
  <2>3. OfNow(dag, goal)  BY <1>t DEF EvidenceInv
  <2> QED  BY <1>1, <2>1, <2>2, <2>3 DEF OwnGreens, Own, Captured, OfNow
<1>4. ASSUME goal.tier = "heavy" PROVE HeavyProof(a)
  <2> DEFINE c == dag.nodes[Comparator]
  <2>1. /\ Comparator # 0 /\ c.match /\ c.tree = finish.fp
        /\ \A f \in Finals : c.items[f] = Anchor(f) /\ PairedHalves(f) # {}
    BY <1>2, <1>4 DEF Attestable
  <2>2. /\ Comparator \in DOMAIN dag.nodes /\ c.kind = "comparator" /\ c.plan = goal.plan
        /\ c.items \in [Finals -> Nat \ {0}]
    BY <1>t, <2>1, ComparatorFacts
  <2>3. c.items = a.evidence  BY <1>1, <2>1, <2>2
  <2>4. ASSUME NEW f \in Finals PROVE a.evidence[f] < Comparator
    <3>1. \A g \in Finals : c.items[g] < Comparator
      BY <2>2 DEF EvidenceInv, Sound, ComparedBefore
    <3> QED  BY <2>3, <3>1
  <2>5. ASSUME NEW f \in Finals PROVE \E e \in dag.redOf : e[2] = a.evidence[f]
    <3>1. PICK r \in PairedHalves(f) : TRUE  BY <2>1
    <3>2. <<r, Anchor(f)>> \in dag.redOf  BY DEF PairedHalves
    <3> QED  BY <1>1, <3>2
  <2>6. a.comparator = Comparator  BY <1>1, <1>4
  <2> QED  BY <1>1, <2>1, <2>2, <2>3, <2>4, <2>5, <2>6 DEF HeavyProof
<1>5. Cites(a, dag)  BY <1>3 DEF Cites
<1> QED  BY <1>1, <1>4, <1>5 DEF a

LEMMA AttestStep ==
  Shape /\ EvidenceInv /\ FinishInv /\ AttestInv /\ [Next]_vars => AttestInv'
<1> SUFFICES ASSUME Shape, EvidenceInv, FinishInv, AttestInv, [Next]_vars PROVE AttestInv'
  OBVIOUS
<1>t. /\ pending \in PendingType /\ TypeOK
      /\ finish # None => goal # None /\ pending = Nothing
  BY DEF Shape, TypeOK, Linked, PendingType
<1>n. Nothing.dag = None /\ Nothing.attest = None /\ Nothing.lineage = None /\ Nothing.goal = None
  BY DEF Nothing
(* The ledger stays or grows, and no attestation is queued. *)
<1>g. ASSUME Extends(dag, dag'), attests' = attests, pending'.attest = None,
             pending'.dag # None => Extends(dag', pending'.dag)
      PROVE  AttestInv'
  BY <1>g, CitesLater DEF AttestInv
<1>e. Extends(dag, dag)  BY DEF Extends
<1>u. ASSUME UNCHANGED <<dag, attests>>,
             pending'.attest = pending.attest, pending'.dag = pending.dag
      PROVE  AttestInv'
  BY <1>u DEF AttestInv, HeavyProof
(* Commands that write one file, and those that queue no ledger. *)
<1>s. ASSUME Idle, UNCHANGED <<dag, attests>>, pending'.dag = None, pending'.attest = None
      PROVE  AttestInv'
  BY <1>s, <1>e, <1>g
<1>1. ASSUME NEW s \in Slugs, NEW tier \in Tiers, Register(s, tier) PROVE AttestInv'
  <2>1. pending'.dag = None /\ pending'.attest = None /\ UNCHANGED <<dag, attests>>
    BY <1>1 DEF Register, Nothing, Untouched
  <2> QED  BY <2>1, <1>e, <1>g
<1>2. ASSUME NEW p \in Plans, Adopt(p) PROVE AttestInv'
  <2>1. /\ pending'.dag = WithNode(PlanNode(p, goal.attempt), {})
        /\ pending'.attest = None /\ UNCHANGED <<dag, attests>>
    BY <1>2 DEF Adopt, Nothing, Untouched
  <2> QED  BY <2>1, <1>t, <1>e, <1>g, ExtendsNode
<1>3. ASSUME NEW p \in Plans, Supersede(p) PROVE AttestInv'
  <2>1. /\ pending'.dag = WithNode(PlanNode(p, NextOf(goal.attempt)), {})
        /\ pending'.attest = None /\ UNCHANGED <<dag, attests>>
    BY <1>3 DEF Supersede, Nothing, Untouched
  <2> QED  BY <2>1, <1>t, <1>e, <1>g, ExtendsNode
<1>4. ASSUME NEW s \in Works, CompleteWork(s) PROVE AttestInv'
  BY <1>4, <1>u DEF CompleteWork, SaveGoal
<1>5. ASSUME NEW f \in Finals, NEW h \in Harnesses, CompleteFinal(f, h) PROVE AttestInv'
  <2> DEFINE node == [kind |-> "green", slug |-> goal.slug, step |-> f,
                      gen |-> CaptureGen(f), attempt |-> goal.attempt,
                      tree |-> tree, harness |-> h, era |-> era]
             edges == {<<r, NewId>> : r \in Halves(f)}
  <2>1. /\ pending'.dag = WithNode(node, edges)
        /\ pending'.attest = None /\ UNCHANGED <<dag, attests>>
    BY <1>5 DEF CompleteFinal, Nothing, Untouched
  <2> HIDE DEF node, edges
  <2> QED  BY <2>1, <1>t, <1>e, <1>g, ExtendsNode
<1>6. ASSUME NEW f \in Finals, NEW half \in HalfKinds, NEW h \in Harnesses,
             RecordHalf(f, half, h)
      PROVE  AttestInv'
  <2> DEFINE node == [kind |-> half, slug |-> goal.slug, step |-> f, attempt |-> goal.attempt,
                      harness |-> IF half = "red" THEN h ELSE None, era |-> era]
             edges == IF goal.gen[f] > 0 /\ Anchor(f) # 0 THEN {<<NewId, Anchor(f)>>} ELSE {}
  <2>1. dag' = WithNode(node, edges) /\ UNCHANGED <<pending, attests>> /\ Idle
    BY <1>6 DEF RecordHalf, SaveDag, Open
  <2> HIDE DEF node, edges
  <2>2. pending'.attest = None /\ pending'.dag = None  BY <2>1, <1>n DEF Idle
  <2> QED  BY <2>1, <2>2, <1>t, <1>g, ExtendsNode
<1>7. ASSUME NEW items \in [Finals -> DOMAIN dag.nodes], NEW match \in Verdicts,
             Compare(items, match)
      PROVE  AttestInv'
  <2> DEFINE node == [kind |-> "comparator", slug |-> goal.slug, plan |-> goal.plan,
                      match |-> match, tree |-> tree, items |-> items]
  <2>1. dag' = WithNode(node, {}) /\ UNCHANGED <<pending, attests>> /\ Idle
    BY <1>7 DEF Compare, SaveDag, Open
  <2> HIDE DEF node
  <2>2. pending'.attest = None /\ pending'.dag = None  BY <2>1, <1>n DEF Idle
  <2> QED  BY <2>1, <2>2, <1>t, <1>g, ExtendsNode
<1>8. CASE RaiseTier \/ Start \/ Reset
  BY <1>8, <1>u DEF RaiseTier, Start, Reset, SaveGoal
<1>9. CASE Abandon
  <2>1. pending'.dag = None /\ pending'.attest = None /\ UNCHANGED <<dag, attests>>
    BY <1>9 DEF Abandon, Nothing, Untouched
  <2> QED  BY <2>1, <1>e, <1>g
<1>10. CASE FinishVerify \/ FinishResample \/ FinishBlocked
  BY <1>10, <1>u DEF FinishVerify, FinishResample, FinishBlocked, FinishTo
<1>11. ASSUME NEW clean \in BOOLEAN, FinishIntegrity(clean) PROVE AttestInv'
  BY <1>11, <1>u DEF FinishIntegrity, FinishTo
<1>12. CASE FinishGate
  <2>1. /\ finish # None /\ pending'.attest = FinalAttestation /\ pending'.dag = None
        /\ UNCHANGED <<dag, attests>>
    BY <1>12 DEF FinishGate, Nothing
  <2>2. /\ Cites(FinalAttestation, dag)
        /\ FinalAttestation.tier = "heavy" => HeavyProof(FinalAttestation)
    BY <2>1, GateCites
  <2> DEFINE a == FinalAttestation
  <2>3. pending'.attest = a /\ Cites(a, dag) /\ (a.tier = "heavy" => HeavyProof(a))
    BY <2>1, <2>2
  <2> HIDE DEF a
  <2>4. (a.tier = "heavy" => HeavyProof(pending.attest)') /\ Cites(pending'.attest, dag')
    BY <2>1, <2>3 DEF HeavyProof
  <2> QED  BY <2>1, <2>3, <2>4 DEF AttestInv
<1>13. CASE WriteDag
  <2>1. /\ dag' = pending.dag /\ pending.dag # None /\ attests' = attests
        /\ pending'.dag = None /\ pending'.attest = pending.attest
    BY <1>13, <1>t DEF WriteDag, Ready, Written, PendingType
  <2>2. Extends(dag, dag') /\ pending'.attest = None  BY <2>1 DEF AttestInv
  <2> QED  BY <2>1, <2>2, <1>g
<1>14. CASE WriteAttestation
  <2>1. /\ pending.attest # None /\ attests' = attests \cup {pending.attest} /\ dag' = dag
        /\ pending'.attest = None /\ pending'.dag = pending.dag
    BY <1>14, <1>t DEF WriteAttestation, Ready, Written, PendingType
  <2>2. \A a \in attests' : Cites(a, dag')  BY <2>1 DEF AttestInv
  <2> QED  BY <2>1, <2>2 DEF AttestInv
<1>15. CASE WriteLineage \/ WriteGoal
  <2>1. /\ UNCHANGED <<dag, attests>>
        /\ pending'.attest = pending.attest /\ pending'.dag = pending.dag
    BY <1>15, <1>t DEF WriteLineage, WriteGoal, Written, PendingType
  <2> QED  BY <2>1, <1>u
<1>16. CASE Crash
  <2>1. pending'.dag = None /\ pending'.attest = None /\ UNCHANGED <<dag, attests>>
    BY <1>16, <1>n DEF Crash
  <2> QED  BY <2>1, <1>e, <1>g
<1>17. ASSUME NEW t \in Trees, Commit(t) PROVE AttestInv'
  BY <1>17, <1>u DEF Commit
<1>18. CASE UNCHANGED vars
  BY <1>18, <1>u DEF vars
<1> QED
  BY <1>1, <1>2, <1>3, <1>4, <1>5, <1>6, <1>7, <1>8, <1>9, <1>10, <1>11, <1>12, <1>13,
     <1>14, <1>15, <1>16, <1>17, <1>18
  DEF Next, Command, Write

(* Every attestation cites evidence of its own instance of the goal, taken  *)
(* on the tree it certifies, with halves of that instance: an old attempt's *)
(* evidence never counts (AttestedOnOwnEvidence).                           *)
THEOREM AttestedOnOwn == Spec => []AttestedOnOwnEvidence
<1>1. EvidenceInv /\ AttestInv => AttestedOnOwnEvidence
  <2> SUFFICES ASSUME EvidenceInv, AttestInv, NEW a \in attests, NEW f \in Finals
               PROVE  LET n == dag.nodes[a.evidence[f]]
                      IN  /\ n.kind = "green" /\ n.step = f /\ n.tree = a.fp /\ n.era = a.era
                          /\ \A e \in dag.redOf :
                               e[2] = a.evidence[f] => dag.nodes[e[1]].era = a.era
    BY DEF AttestedOnOwnEvidence
  <2>1. Cites(a, dag)  BY DEF AttestInv
  <2>2. WellPaired(dag)  BY DEF EvidenceInv, Sound
  <2> QED  BY <2>1, <2>2 DEF Cites, WellPaired
<1> QED
  BY ShapeInit, ShapeStep, ActiveInit, ActiveStep, RevivalInit, RevivalStep,
     EvidenceInit, EvidenceStep, FinishInit, FinishStep, AttestInit, AttestStep, <1>1, PTL
  DEF Spec

(* A heavy goal is attested on a matching comparison that came after the    *)
(* evidence and covers exactly it, and on a red half or a waiver for every  *)
(* step (HeavyIsProved).                                                    *)
THEOREM HeavyGoalsAreProved == Spec => HeavyIsProved
<1>1. Shape /\ AttestInv /\ [Next]_vars =>
        [\A a \in attests' \ attests : a.tier = "heavy" => HeavyProof(a)']_attests
  <2> SUFFICES ASSUME Shape, AttestInv, [Next]_vars, attests' # attests,
                      NEW a \in attests' \ attests, a.tier = "heavy"
               PROVE  HeavyProof(a)'
    OBVIOUS
  <2>1. WriteAttestation
    BY DEF Next, Command, Write, Untouched, SaveGoal, SaveDag, FinishTo, Register, Adopt,
           Supersede, CompleteWork, CompleteFinal, RecordHalf, Compare, RaiseTier, Start,
           Abandon, Reset, FinishVerify, FinishIntegrity, FinishResample, FinishBlocked,
           FinishGate, WriteDag, WriteLineage, WriteGoal, Crash, Commit, vars
  <2>2. a = pending.attest /\ pending.attest # None /\ dag' = dag
    BY <2>1 DEF WriteAttestation, Ready
  <2>3. HeavyProof(a)  BY <2>2 DEF AttestInv
  <2> QED  BY <2>2, <2>3 DEF HeavyProof
<1> QED
  BY ShapeInit, ShapeStep, ActiveInit, ActiveStep, RevivalInit, RevivalStep,
     EvidenceInit, EvidenceStep, FinishInit, FinishStep, AttestInit, AttestStep, <1>1, PTL
  DEF Spec, HeavyIsProved

-----------------------------------------------------------------------------
(* GoalLoop implements GoalPromise. *)

(* What goal.json may become by the write that is queued, seen as a step of *)
(* the promise.                                                             *)
MayBecome(g) ==
  IF goal = None
  THEN /\ g.status = "planning" /\ g.plan = None
       /\ \A a \in attests : a.slug = g.slug => a.attempt < g.attempt
  ELSE /\ g.slug = goal.slug
       /\ \/ /\ goal.status = "planning" /\ g.status = "planning"
             /\ g.attempt = goal.attempt /\ g.plan \in Plans
          \/ /\ goal.status = "executing" /\ g.status = "executing"
             /\ g.attempt = goal.attempt + 1 /\ g.plan \in Plans
          \/ /\ g.attempt = goal.attempt /\ g.plan = goal.plan
             /\ \/ g.status \in {goal.status, "abandoned"}
                \/ goal.status = "executing" /\ g.status = "done"

PromiseInv ==
  /\ pending.goal # None => MayBecome(pending.goal)
  /\ pending.attest # None =>
       /\ goal # None /\ goal.status \in {"executing", "done"}
       /\ Proves(pending.attest, goal)

LEMMA PromiseInit == Init => PromiseInv
BY DEF Init, PromiseInv, Nothing

(* A registration takes an attempt number above every attested one. *)
LEMMA AboveAttested ==
  ASSUME TypeOK, AttestInv, NEW s, NEW a \in attests, a.slug = s
  PROVE  a.attempt < NextAttempt(s)
<1>1. PICK f \in Finals : TRUE  BY SetsAssumption
<1>2. Cites(a, dag)  BY DEF AttestInv
<1> DEFINE i == a.evidence[f]
<1>3. i \in DOMAIN dag.nodes /\ dag.nodes[i].kind = "green" /\ dag.nodes[i].slug = s
      /\ dag.nodes[i].attempt = a.attempt
  BY <1>2 DEF Cites
<1>4. i \in {j \in Nodes({"plan", "green", "red", "waived"}) : dag.nodes[j].slug = s}
  BY <1>3 DEF Nodes
<1>5. dag.nodes[i].attempt \in StampsOf(s)  BY <1>4 DEF StampsOf
<1> QED  BY <1>3, <1>5, NextAttemptAbove

LEMMA PromiseStep ==
  Shape /\ FinishInv /\ AttestInv /\ PromiseInv /\ [Next]_vars => PromiseInv'
<1> SUFFICES ASSUME Shape, FinishInv, AttestInv, PromiseInv, [Next]_vars PROVE PromiseInv'
  OBVIOUS
<1>t. /\ goal \in GoalFile \cup {None} /\ pending \in PendingType /\ TypeOK
      /\ finish # None => goal # None /\ pending = Nothing
  BY DEF Shape, TypeOK, Linked, PendingType
<1>n. Nothing.dag = None /\ Nothing.attest = None /\ Nothing.lineage = None /\ Nothing.goal = None
  BY DEF Nothing
(* Nothing changes that the invariant speaks of. *)
<1>u. ASSUME goal' = goal, goal = None => attests' = attests,
             pending'.goal \in {None, pending.goal}, pending'.attest \in {None, pending.attest}
      PROVE  PromiseInv'
  BY <1>u DEF PromiseInv, MayBecome, Proves
(* Nothing is left to write. *)
<1>w. ASSUME pending'.goal = None, pending'.attest = None PROVE PromiseInv'
  BY <1>w DEF PromiseInv
(* A command queues the next goal.json. *)
<1>q. ASSUME MayBecome(pending'.goal), UNCHANGED <<goal, attests>>, pending'.attest = None
      PROVE  PromiseInv'
  BY <1>q DEF PromiseInv, MayBecome
<1>1. ASSUME NEW s \in Slugs, NEW tier \in Tiers, Register(s, tier) PROVE PromiseInv'
  <2>1. /\ goal = None /\ UNCHANGED <<goal, attests>> /\ pending'.attest = None
        /\ pending'.goal.slug = s /\ pending'.goal.status = "planning"
        /\ pending'.goal.plan = None /\ pending'.goal.attempt = NextAttempt(s)
    BY <1>1 DEF Register, Nothing, Untouched
  <2>2. MayBecome(pending'.goal)  BY <2>1, <1>t, AboveAttested DEF MayBecome
  <2> QED  BY <2>1, <2>2, <1>q
<1>2. ASSUME NEW p \in Plans, Adopt(p) PROVE PromiseInv'
  <2>1. /\ goal # None /\ goal \in GoalFile /\ goal.status = "planning"
        /\ UNCHANGED <<goal, attests>> /\ pending'.attest = None
        /\ pending'.goal = Adopted(p, goal.attempt)
    BY <1>2, <1>t DEF Adopt, Nothing, Untouched
  <2>2. /\ pending'.goal.slug = goal.slug /\ pending'.goal.status = goal.status
        /\ pending'.goal.attempt = goal.attempt /\ pending'.goal.plan = p
    BY <2>1 DEF Adopted, GoalFile
  <2> QED  BY <2>1, <2>2, <1>q DEF MayBecome
<1>3. ASSUME NEW p \in Plans, Supersede(p) PROVE PromiseInv'
  <2>1. /\ goal # None /\ goal \in GoalFile /\ goal.status = "executing"
        /\ UNCHANGED <<goal, attests>> /\ pending'.attest = None
        /\ pending'.goal = Adopted(p, goal.attempt + 1)
    BY <1>3, <1>t DEF Supersede, NextOf, Nothing, Untouched
  <2>2. /\ pending'.goal.slug = goal.slug /\ pending'.goal.status = goal.status
        /\ pending'.goal.attempt = goal.attempt + 1 /\ pending'.goal.plan = p
    BY <2>1 DEF Adopted, GoalFile
  <2> QED  BY <2>1, <2>2, <1>q DEF MayBecome
<1>4. ASSUME NEW s \in Works, CompleteWork(s) PROVE PromiseInv'
  BY <1>4, <1>n, <1>w DEF CompleteWork, Open, Idle, SaveGoal
<1>5. ASSUME NEW f \in Finals, NEW h \in Harnesses, CompleteFinal(f, h) PROVE PromiseInv'
  <2>1. /\ goal # None /\ goal \in GoalFile
        /\ UNCHANGED <<goal, attests>> /\ pending'.attest = None
        /\ pending'.goal = [goal EXCEPT !.done = @ \cup {f}, !.gen[f] = CaptureGen(f),
                                        !.fp[f] = tree]
    BY <1>5, <1>t DEF CompleteFinal, Open, Nothing, Untouched
  <2>2. /\ pending'.goal.slug = goal.slug /\ pending'.goal.status = goal.status
        /\ pending'.goal.attempt = goal.attempt /\ pending'.goal.plan = goal.plan
    BY <2>1 DEF GoalFile
  <2> QED  BY <2>1, <2>2, <1>q DEF MayBecome
<1>6. ASSUME NEW f \in Finals, NEW half \in HalfKinds, NEW h \in Harnesses,
             RecordHalf(f, half, h)
      PROVE  PromiseInv'
  BY <1>6, <1>n, <1>w DEF RecordHalf, Open, Idle, SaveDag
<1>7. ASSUME NEW items \in [Finals -> DOMAIN dag.nodes], NEW match \in Verdicts,
             Compare(items, match)
      PROVE  PromiseInv'
  BY <1>7, <1>n, <1>w DEF Compare, Open, Idle, SaveDag
<1>8. CASE RaiseTier \/ Start \/ Reset
  BY <1>8, <1>n, <1>w DEF RaiseTier, Start, Reset, Idle, SaveGoal
<1>9. CASE Abandon
  <2>1. /\ goal # None /\ goal \in GoalFile
        /\ UNCHANGED <<goal, attests>> /\ pending'.attest = None
        /\ pending'.goal = [goal EXCEPT !.status = "abandoned"]
    BY <1>9, <1>t DEF Abandon, Nothing, Untouched
  <2>2. /\ pending'.goal.slug = goal.slug /\ pending'.goal.status = "abandoned"
        /\ pending'.goal.attempt = goal.attempt /\ pending'.goal.plan = goal.plan
    BY <2>1 DEF GoalFile
  <2> QED  BY <2>1, <2>2, <1>q DEF MayBecome
<1>10. CASE FinishVerify \/ FinishResample \/ FinishBlocked
  BY <1>10, <1>u DEF FinishVerify, FinishResample, FinishBlocked, FinishTo
<1>11. ASSUME NEW clean \in BOOLEAN, FinishIntegrity(clean) PROVE PromiseInv'
  BY <1>11, <1>u DEF FinishIntegrity, FinishTo
<1>12. CASE FinishGate
  <2>1. /\ finish # None /\ goal \in GoalFile /\ goal # None
        /\ UNCHANGED <<goal, attests>> /\ pending'.attest = FinalAttestation
        /\ pending'.goal = [goal EXCEPT !.status = "done"]
    BY <1>12, <1>t DEF FinishGate, Nothing
  <2>2. goal.status \in {"executing", "done"}  BY <2>1 DEF FinishInv, Attestable
  <2>3. /\ pending'.goal.slug = goal.slug /\ pending'.goal.status = "done"
        /\ pending'.goal.attempt = goal.attempt /\ pending'.goal.plan = goal.plan
    BY <2>1 DEF GoalFile
  <2>4. Proves(FinalAttestation, goal)  BY DEF Proves, FinalAttestation
  <2>5. MayBecome(pending'.goal)  BY <2>1, <2>2, <2>3 DEF MayBecome
  <2> QED  BY <2>1, <2>2, <2>4, <2>5 DEF PromiseInv, Proves, MayBecome
<1>13. CASE WriteDag \/ WriteLineage
  <2>1. /\ UNCHANGED <<goal, attests>>
        /\ pending'.attest = pending.attest /\ pending'.goal = pending.goal
    BY <1>13, <1>t DEF WriteDag, WriteLineage, Written, PendingType
  <2> QED  BY <2>1, <1>u
<1>14. CASE WriteAttestation
  <2>1. /\ goal' = goal /\ pending.attest # None
        /\ pending'.attest = None /\ pending'.goal = pending.goal
    BY <1>14, <1>t DEF WriteAttestation, Ready, Written, PendingType
  <2>2. goal # None  BY <2>1 DEF PromiseInv
  <2> QED  BY <2>1, <2>2, <1>u
<1>15. CASE WriteGoal
  <2>1. pending'.attest = None /\ pending'.goal = None
    BY <1>15, <1>t DEF WriteGoal, Ready, Written, PendingType
  <2> QED  BY <2>1, <1>w
<1>16. CASE Crash
  BY <1>16, <1>n, <1>w DEF Crash
<1>17. ASSUME NEW t \in Trees, Commit(t) PROVE PromiseInv'
  BY <1>17, <1>u DEF Commit
<1>18. CASE UNCHANGED vars
  BY <1>18, <1>u DEF vars
<1> QED
  BY <1>1, <1>2, <1>3, <1>4, <1>5, <1>6, <1>7, <1>8, <1>9, <1>10, <1>11, <1>12, <1>13,
     <1>14, <1>15, <1>16, <1>17, <1>18
  DEF Next, Command, Write

(* The files as the promise sees them. *)
Proved == {<<a.slug, a.attempt, a.plan>> : a \in attests}
View(g) == [slug |-> g.slug, status |-> g.status, attempt |-> g.attempt, plan |-> g.plan]

(* A goal.json is never mistaken for none. *)
LEMMA ViewFacts ==
  ASSUME NEW g \in GoalFile PROVE View(g) \in PromisedFile /\ View(g) # None
<1>1. View(g) \in PromisedFile  BY DEF View, GoalFile, PromisedFile
<1> QED  BY <1>1, NoneAssumption

LEMMA PromisedInit == Init => Promise!Init
BY DEF Init, Promise!Init, PromisedGoal

(* Every step of the files is a step of the promise, or none of its business. *)
LEMMA PromisedStep ==
  Shape /\ DoneInv /\ PromiseInv /\ [Next]_vars => [Promise!Next]_(Promise!vars)
<1> SUFFICES ASSUME Shape, DoneInv, PromiseInv, [Next]_vars
             PROVE  Promise!Next \/ UNCHANGED Promise!vars
  OBVIOUS
<1>t. /\ goal \in GoalFile \cup {None} /\ pending \in PendingType /\ TypeOK
      /\ goal' \in GoalFile \cup {None}
  BY ShapeStep DEF Shape, TypeOK, PendingType
<1>v. PromisedGoal' = PromisedGoal /\ Proved' = Proved => UNCHANGED Promise!vars
  BY DEF Promise!vars, Proved
<1>p. PromisedGoal = IF goal = None THEN None ELSE View(goal)  BY DEF PromisedGoal, View
<1>q. PromisedGoal' = IF goal' = None THEN None ELSE View(goal')  BY DEF PromisedGoal, View
<1>c. (goal = None <=> PromisedGoal = None) /\ (goal' = None <=> PromisedGoal' = None)
  BY <1>t, <1>p, <1>q, ViewFacts
<1>u. ASSUME UNCHANGED <<goal, attests>> PROVE UNCHANGED Promise!vars
  BY <1>u, <1>p, <1>q, <1>v DEF Proved
<1>s. ASSUME goal # None, goal' # None, attests' = attests, View(goal') = View(goal)
      PROVE  UNCHANGED Promise!vars
  BY <1>s, <1>p, <1>q, <1>v DEF Proved
<1>1. CASE UNCHANGED <<goal, attests>>
  BY <1>1, <1>u
<1>2. ASSUME NEW s \in Works, CompleteWork(s) PROVE UNCHANGED Promise!vars
  <2>1. /\ goal # None /\ goal \in GoalFile /\ attests' = attests
        /\ goal' = [goal EXCEPT !.done = @ \cup {s}]
    BY <1>2, <1>t DEF CompleteWork, Open, SaveGoal
  <2>2. goal' \in GoalFile /\ goal' # None  BY <1>t, <2>1, GoalFileType, NoneAssumption
  <2> QED  BY <2>1, <2>2, <1>s DEF View, GoalFile
<1>3. CASE RaiseTier
  <2>1. /\ goal # None /\ goal \in GoalFile /\ attests' = attests
        /\ goal' = [goal EXCEPT !.tier = "heavy"]
    BY <1>3, <1>t DEF RaiseTier, SaveGoal
  <2>2. goal' \in GoalFile /\ goal' # None  BY <1>t, <2>1, GoalFileType, NoneAssumption
  <2> QED  BY <2>1, <2>2, <1>s DEF View, GoalFile
<1>4. CASE Start
  <2>1. /\ goal # None /\ goal \in GoalFile /\ attests' = attests
        /\ goal.status = "planning" /\ goal.plan # None
        /\ goal' = [goal EXCEPT !.status = "executing"]
    BY <1>4, <1>t DEF Start, SaveGoal
  <2>2. goal' \in GoalFile /\ goal' # None  BY <1>t, <2>1, GoalFileType, NoneAssumption
  <2>3. View(goal') = [View(goal) EXCEPT !.status = "executing"]
    BY <2>1 DEF View, GoalFile
  <2>4. View(goal).status = "planning" /\ View(goal).plan # None  BY <2>1 DEF View
  <2>5. Promise!Start
    BY <2>1, <2>2, <2>3, <2>4, <1>c, <1>p, <1>q DEF Promise!Start
  <2> QED  BY <2>5 DEF Promise!Next
<1>5. CASE Reset
  <2>1. goal # None /\ goal' = None /\ attests' = attests  BY <1>5 DEF Reset
  <2>2. Promise!Reset  BY <2>1, <1>c, <1>q DEF Promise!Reset
  <2> QED  BY <2>2 DEF Promise!Next
<1>6. CASE WriteAttestation
  <2>1. /\ pending.attest # None /\ attests' = attests \cup {pending.attest} /\ goal' = goal
    BY <1>6 DEF WriteAttestation, Ready
  <2>2. /\ goal # None /\ goal.status \in {"executing", "done"}
        /\ Proves(pending.attest, goal)
    BY <2>1 DEF PromiseInv
  <2>3. PromisedGoal # None /\ PromisedGoal.status \in {"executing", "done"}
        /\ PromisedGoal' = PromisedGoal
    BY <2>1, <2>2, <1>c, <1>p, <1>q DEF View
  <2>4. Promise!Current = <<pending.attest.slug, pending.attest.attempt, pending.attest.plan>>
    BY <2>2, <1>p DEF Promise!Current, Proves, View
  <2>5. Proved' = Proved \cup {Promise!Current}  BY <2>1, <2>4 DEF Proved
  <2>6. Promise!Prove  BY <2>3, <2>5 DEF Promise!Prove, Proved
  <2> QED  BY <2>6 DEF Promise!Next
<1>7. CASE WriteGoal
  <2> DEFINE g == pending.goal
  <2>1. /\ g # None /\ g \in GoalFile /\ goal' = g /\ attests' = attests
        /\ pending.attest = None
    BY <1>7, <1>t DEF WriteGoal, Ready, PendingType
  <2>2. MayBecome(g)  BY <2>1 DEF PromiseInv
  <2> HIDE DEF g
  <2>3. PromisedGoal' = View(g) /\ Proved' = Proved  BY <2>1, <1>q DEF Proved
  <2>4. View(g) \in PromisedFile  BY <2>1, ViewFacts
  <2>5. CASE goal = None
    <3>1. g.status = "planning" /\ g.plan = None
          /\ \A a \in attests : a.slug = g.slug => a.attempt < g.attempt
      BY <2>2, <2>5 DEF MayBecome
    <3>2. View(g) \in [slug : Slugs, status : {"planning"}, attempt : Nat \ {0}, plan : {None}]
      BY <3>1, <2>4, BoundsAssumption DEF View, PromisedFile, Attempts
    <3>3. g.attempt \in Nat  BY <2>1, BoundsAssumption DEF GoalFile, Attempts
    <3>4. \A p \in Plans : <<g.slug, g.attempt, p>> \notin Proved
      BY <3>1, <3>3 DEF Proved
    <3>5. View(g).slug = g.slug /\ View(g).attempt = g.attempt  BY DEF View
    <3>6. Promise!Register
      BY <2>3, <2>5, <3>2, <3>4, <3>5, <1>c DEF Promise!Register, Proved
    <3> QED  BY <3>6 DEF Promise!Next
  <2>6. CASE goal # None
    <3>1. /\ goal \in GoalFile /\ PromisedGoal = View(goal) /\ PromisedGoal # None
          /\ g.slug = goal.slug
      BY <2>2, <2>6, <1>t, <1>p, <1>c DEF MayBecome
    <3>2. CASE /\ goal.status = "planning" /\ g.status = "planning"
               /\ g.attempt = goal.attempt /\ g.plan \in Plans
      <4>1. View(g) = [View(goal) EXCEPT !.plan = g.plan]  BY <3>1, <3>2 DEF View
      <4>2. View(goal).status = "planning"  BY <3>2 DEF View
      <4>3. Promise!Adopt
        BY <2>3, <3>1, <3>2, <4>1, <4>2 DEF Promise!Adopt, Proved
      <4> QED  BY <4>3 DEF Promise!Next
    <3>3. CASE /\ goal.status = "executing" /\ g.status = "executing"
               /\ g.attempt = goal.attempt + 1 /\ g.plan \in Plans
      <4> DEFINE n == goal.attempt + 1
      <4>0. View(goal).attempt + 1 = n  BY DEF View
      <4>1. View(g) = [View(goal) EXCEPT !.attempt = n, !.plan = g.plan]
        <5>1. g.attempt = n  BY <3>3
        <5> HIDE DEF n
        <5>2. View(g) = [slug |-> goal.slug, status |-> goal.status, attempt |-> n,
                         plan |-> g.plan]
          BY <3>1, <3>3, <5>1 DEF View
        <5> DEFINE w == [View(goal) EXCEPT !.attempt = n]
        <5>3. w = [slug |-> goal.slug, status |-> goal.status, attempt |-> n,
                   plan |-> goal.plan]
          BY DEF View
        <5>4. [View(goal) EXCEPT !.attempt = n, !.plan = g.plan] = [w EXCEPT !.plan = g.plan]
          BY DEF View
        <5> HIDE DEF w
        <5>5. [w EXCEPT !.plan = g.plan] = View(g)  BY <5>2, <5>3
        <5> QED  BY <5>4, <5>5
      <4>2. View(goal).status = "executing"  BY <3>3 DEF View
      <4>3. Promise!Supersede
        BY <2>3, <3>1, <3>3, <4>0, <4>1, <4>2 DEF Promise!Supersede, Proved
      <4> QED  BY <4>3 DEF Promise!Next
    <3>4. CASE g.attempt = goal.attempt /\ g.plan = goal.plan /\ g.status = goal.status
      <4>1. View(g) = View(goal)  BY <3>1, <3>4 DEF View
      <4> QED  BY <2>3, <3>1, <4>1, <1>v
    <3>5. CASE g.attempt = goal.attempt /\ g.plan = goal.plan /\ g.status = "abandoned"
      <4>1. View(g) = [View(goal) EXCEPT !.status = "abandoned"]  BY <3>1, <3>5 DEF View
      <4>2. Promise!Abandon  BY <2>3, <3>1, <4>1 DEF Promise!Abandon, Proved
      <4> QED  BY <4>2 DEF Promise!Next
    <3>6. CASE /\ g.attempt = goal.attempt /\ g.plan = goal.plan
               /\ goal.status = "executing" /\ g.status = "done"
      <4>1. View(g) = [View(goal) EXCEPT !.status = "done"]  BY <3>1, <3>6 DEF View
      <4>2. PICK a \in attests : Proves(a, g)
        BY <2>1, <3>6 DEF DoneInv, Promised, g
      <4>3. Promise!Current = <<a.slug, a.attempt, a.plan>>
        BY <3>1, <3>6, <4>2 DEF Promise!Current, Proves, View
      <4>4. Promise!Current \in Proved  BY <4>3 DEF Proved
      <4>5. View(goal).status = "executing"  BY <3>6 DEF View
      <4>6. Promise!Finish
        BY <2>3, <3>1, <4>1, <4>4, <4>5 DEF Promise!Finish, Proved
      <4> QED  BY <4>6 DEF Promise!Next
    <3> QED  BY <2>2, <2>6, <3>2, <3>3, <3>4, <3>5, <3>6 DEF MayBecome
  <2> QED  BY <2>5, <2>6
<1> QED
  BY <1>1, <1>2, <1>3, <1>4, <1>5, <1>6, <1>7
  DEF Next, Command, Write, Untouched, SaveDag, FinishTo, Register, Adopt, Supersede,
      CompleteFinal, RecordHalf, Compare, Abandon, FinishVerify, FinishIntegrity,
      FinishResample, FinishBlocked, FinishGate, WriteDag, WriteLineage, Crash, Commit, vars

(* The files, written one after the other and cut off anywhere, keep the    *)
(* promise of GoalPromise (KeepsPromise).                                   *)
THEOREM FilesKeepPromise == Spec => KeepsPromise
<1> QED
  BY ShapeInit, ShapeStep, DoneInit, DoneStep, ActiveInit, ActiveStep,
     RevivalInit, RevivalStep, EvidenceInit, EvidenceStep, FinishInit, FinishStep,
     AttestInit, AttestStep, PromiseInit, PromiseStep, PromisedInit, PromisedStep, PTL
  DEF Spec, KeepsPromise, Promise!Spec
=============================================================================
