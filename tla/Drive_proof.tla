---------------------------- MODULE Drive_proof ----------------------------
(***************************************************************************)
(* For any plan, any number of workers, runs, waves and faults: a drive     *)
(* loses no work, finishes a goal with all of its work in the host, and     *)
(* gives up as stuck only after standing still; validateDeps accepts no plan whose items wait for each other, and *)
(* the depths, the critical path and the layers of an accepted one are the  *)
(* longest chains of its items.                                             *)
(*                                                                         *)
(* For the plan: a walk keeps black items closed under its edges; in every  *)
(* set of items validateDeps has closed, one waits for none of the others;  *)
(* and what is in the map for a black item is final.                        *)
(*                                                                         *)
(* For the drive: what a run did is in the host or in the branch of a       *)
(* worker that is yet to be merged (CreditOk); what reset the count of idle *)
(* segments shows in the signature from then on (IdleOk), which takes that   *)
(* the host has a worker's commits from the worker's tree only (CommitsOk), *)
(* and that a goal which takes the slot has none of the run's subjects      *)
(* (SubjectsOk).                                                            *)
(***************************************************************************)
EXTENDS Drive, Graph, FiniteSetTheorems, TLAPS

-----------------------------------------------------------------------------
(* Plans. *)

Frames == [id : Items, left : SUBSET Items]
Black == Of("black")

(* The edges of the walk that is under way. *)
Follows == [x \in Items |-> Edges(x)]

(* What every walk knows: the stack holds the grey items, each once and the  *)
(* next one at the end of an edge of it; what a frame has followed is black  *)
(* but for the frame above it; and what black items lead to is black.        *)
WalkShape ==
  /\ colour \in [Items -> {"white", "gray", "black"}]
  /\ stack \in Seq(Frames)
  /\ \A i \in 1..Len(stack) : colour[stack[i].id] = "gray"
  /\ \A x \in Items : colour[x] = "gray" => \E i \in 1..Len(stack) : stack[i].id = x
  /\ \A i, k \in 1..Len(stack) : stack[i].id = stack[k].id => i = k
WalkEdges ==
  /\ \A i \in 1..(Len(stack) - 1) : stack[i + 1].id \in Follows[stack[i].id]
  /\ \A i \in 1..Len(stack) : stack[i].left \subseteq Follows[stack[i].id]
  /\ \A i \in 1..Len(stack) : \A n \in Follows[stack[i].id] :
       \/ n \in stack[i].left
       \/ n \in Black
       \/ i < Len(stack) /\ n = stack[i + 1].id
WalkDone == \A x \in Black : Follows[x] \subseteq Black

(* In validateDeps black items never wait for each other all round. *)
BlackOrder == \A S \in SUBSET Black : S # {} => ~Waiting(S)

GraphInv ==
  /\ declares \in [Items -> SUBSET Names]
  /\ job \in Walks \cup Ends \cup {"declared", "path"}
  /\ job = "declared" => colour = Unseen
  /\ job \in {"declared", "path"} => stack = <<>>
  /\ job \notin {"declared", "misnamed"} => \A x \in Items : declares[x] \subseteq Items
  /\ job \in Walks => WalkShape /\ WalkEdges /\ WalkDone
  /\ job = "validate" => BlackOrder
  /\ Accepted => Orderable
  /\ job = "cyclic" => Circular(route)

LEMMA GraphInitInv == GraphInit => GraphInv
  BY DEF GraphInit, GraphInv, Walks, Ends, Accepted

LEMMA NameInv == ASSUME GraphInv, Name PROVE GraphInv'
<1>1. CASE Misnamed
  BY <1>1 DEF Name, GraphInv, Accepted, Orderable, Waiting, Walks, Ends
<1>2. CASE ~Misnamed
  <2>1. \A x \in Items : declares[x] \subseteq Items
    BY <1>2 DEF Misnamed
  <2>2. /\ job' = "validate" /\ declares' = declares
        /\ colour' = Unseen /\ stack' = <<>>
    BY <1>2 DEF Name, GraphInv
  <2>3. WalkShape'
    BY <2>2 DEF WalkShape, Unseen, Frames
  <2>4. Black' = {}
    BY <2>2 DEF Black, Of, Unseen
  <2>5. WalkEdges' /\ WalkDone' /\ BlackOrder'
    BY <2>2, <2>4 DEF WalkEdges, WalkDone, BlackOrder
  <2> QED
    BY <2>1, <2>2, <2>3, <2>5 DEF GraphInv, Accepted, Walks, Ends
<1> QED
  BY <1>1, <1>2

(* What is known during a walk, of which nothing changes the edges.         *)
LEMMA WalkFacts ==
  ASSUME GraphInv, job \in Walks
  PROVE  /\ WalkShape /\ WalkEdges /\ WalkDone
         /\ declares \in [Items -> SUBSET Items]
         /\ Follows \in [Items -> SUBSET Items]
         /\ \A x \in Items : Edges(x) = Follows[x]
         /\ job = "depth" => \A x, y \in Items : y \in Follows[x] <=> x \in declares[y]
         /\ job # "depth" => Follows = declares
         /\ Black \subseteq Items
<1>1. declares \in [Items -> SUBSET Items]
  BY DEF GraphInv, Walks, Ends
<1>2. \A x \in Items : Edges(x) \in SUBSET Items
  BY <1>1 DEF Edges, Dependents
<1>3. Follows \in [Items -> SUBSET Items] /\ \A x \in Items : Edges(x) = Follows[x]
  BY <1>2 DEF Follows
<1>4. job # "depth" => Follows = declares
  BY <1>1 DEF Follows, Edges
<1>5. job = "depth" => \A x, y \in Items : y \in Follows[x] <=> x \in declares[y]
  BY <1>3 DEF Edges, Dependents
<1>6. WalkShape /\ WalkEdges /\ WalkDone
  BY DEF GraphInv
<1> QED
  BY <1>1, <1>3, <1>4, <1>5, <1>6 DEF Black, Of

LEMMA SameEdges == ASSUME job' = job, declares' = declares PROVE Follows' = Follows
  BY DEF Follows, Edges, Dependents

(* What the parts are needed for when the walk goes on. *)
LEMMA GoesOn ==
  ASSUME GraphInv, job \in Walks, job' = job, declares' = declares,
         WalkShape', WalkEdges', WalkDone', job = "validate" => BlackOrder'
  PROVE  GraphInv'
  BY DEF GraphInv, Accepted, Walks, Ends, Orderable, Waiting

LEMMA EnterFirstInv == ASSUME GraphInv, EnterFirst PROVE GraphInv'
<1>2. job \in Walks
  BY DEF EnterFirst
<1>3. GraphInv'
  <2>1. PICK i \in DOMAIN Listing :
          /\ colour[Listing[i]] = "white"
          /\ stack' = <<[id |-> Listing[i], left |-> Edges(Listing[i])]>>
          /\ Enter(Listing[i])
    BY DEF EnterFirst
  <2> DEFINE it == Listing[i]
  <2>2. it \in Items
    BY DEF Items, ToSet
  <2>3. /\ stack = <<>> /\ job' = job /\ declares' = declares /\ Follows' = Follows
        /\ colour' = [colour EXCEPT ![it] = "gray"]
        /\ stack' = <<[id |-> it, left |-> Follows[it]]>>
    BY <1>2, <2>1, <2>2, WalkFacts, SameEdges DEF EnterFirst, Enter, Entered
  <2>4. /\ colour \in [Items -> {"white", "gray", "black"}]
        /\ \A x \in Items : colour[x] # "gray"
    BY <1>2, <2>3, WalkFacts DEF WalkShape
  <2>5. Black' = Black
    BY <2>1, <2>2, <2>3, <2>4 DEF Black, Of
  <2>6. WalkShape'
    BY <1>2, <2>2, <2>3, <2>4, WalkFacts DEF WalkShape, Frames
  <2>7. WalkEdges'
    BY <2>3 DEF WalkEdges
  <2>8. WalkDone' /\ (job = "validate" => BlackOrder')
    BY <1>2, <2>3, <2>5, WalkFacts DEF WalkDone, GraphInv, BlackOrder, Waiting
  <2> QED
    BY <1>2, <2>3, <2>6, <2>7, <2>8, GoesOn
<1> QED
  BY <1>3

(* A frame that has followed an edge. *)
LEMMA FrameFollowed ==
  ASSUME NEW f \in Frames, NEW n
  PROVE  /\ [id |-> f.id, left |-> f.left \ {n}] \in Frames
         /\ [f EXCEPT !.left = f.left \ {n}] = [id |-> f.id, left |-> f.left \ {n}]
<1>1. PICK x \in Items, s \in SUBSET Items : f = [id |-> x, left |-> s]
  BY DEF Frames
<1>2. f.id = x /\ f.left = s /\ s \ {n} \in SUBSET Items
  BY <1>1
<1>3. [f EXCEPT !.left = s \ {n}] = [id |-> x, left |-> s \ {n}]
  BY <1>1
<1> QED
  BY <1>2, <1>3 DEF Frames

LEMMA DescendInv == ASSUME GraphInv, Descend PROVE GraphInv'
<1>2. job \in Walks
  BY DEF Descend
<1>3. GraphInv'
  <2> DEFINE k == Len(stack)
  <2>1. PICK n \in Top.left :
          /\ colour[n] = "white"
          /\ stack' = Append(Consumed(n), [id |-> n, left |-> Edges(n)])
          /\ Enter(n)
    BY DEF Descend
  <2>2. /\ stack \in Seq(Frames) /\ k \in Nat \ {0}
        /\ \A i \in 1..k : stack[i] \in Frames
    BY <1>2, WalkFacts DEF Descend, WalkShape
  <2>3. n \in Items /\ k \in 1..k
    BY <2>2 DEF Top, Frames
  <2>4. /\ job' = job /\ declares' = declares /\ Follows' = Follows
        /\ colour' = [colour EXCEPT ![n] = "gray"]
        /\ colour \in [Items -> {"white", "gray", "black"}]
    BY <1>2, <2>1, WalkFacts, SameEdges DEF Descend, Enter, Entered, WalkShape
  <2>5. /\ stack' \in Seq(Frames) /\ Len(stack') = k + 1
        /\ \A i \in 1..(k - 1) : stack'[i] = stack[i]
        /\ stack'[k] = [id |-> stack[k].id, left |-> stack[k].left \ {n}]
        /\ stack'[k + 1] = [id |-> n, left |-> Follows[n]]
    <3> DEFINE rest == [id |-> stack[k].id, left |-> stack[k].left \ {n}]
    <3>5. stack[k] \in Frames /\ stack[k].left \ {n} \in SUBSET Items
      BY <2>2, <2>3 DEF Frames
    <3>0. rest \in Frames /\ [stack[k] EXCEPT !.left = stack[k].left \ {n}] = rest
      BY <3>5, FrameFollowed
    <3>4. Consumed(n) = [stack EXCEPT ![k] = rest]
      BY <3>0 DEF Consumed
    <3> HIDE DEF rest
    <3>1. Consumed(n) \in Seq(Frames) /\ Len(Consumed(n)) = k
      BY <2>2, <2>3, <3>0, <3>4
    <3>2. /\ \A i \in 1..(k - 1) : Consumed(n)[i] = stack[i]
          /\ Consumed(n)[k] = rest
      BY <2>2, <2>3, <3>0, <3>4
    <3>3. [id |-> n, left |-> Edges(n)] \in Frames /\ Edges(n) = Follows[n]
      BY <1>2, <2>3, WalkFacts DEF Frames
    <3> QED
      BY <2>1, <2>2, <3>1, <3>2, <3>3 DEF rest
  <2>6. Black' = Black
    BY <2>1, <2>3, <2>4 DEF Black, Of
  <2>7. \A i \in 1..k : stack'[i].id = stack[i].id /\ stack[i].id # n
    BY <1>2, <2>1, <2>2, <2>5, WalkFacts DEF WalkShape
  <2>8. WalkShape'
    <3>1. \A i \in 1..(k + 1) : colour'[stack'[i].id] = "gray"
      <4>1. \A i \in 1..k : colour[stack[i].id] = "gray" /\ stack[i].id \in Items
        BY <1>2, <2>2, WalkFacts DEF WalkShape, Frames
      <4>2. \A i \in 1..k : colour'[stack'[i].id] = "gray"
        BY <2>3, <2>4, <2>7, <4>1
      <4>3. colour'[stack'[k + 1].id] = "gray"
        BY <2>3, <2>4, <2>5
      <4>4. \A i \in 1..(k + 1) : i \in 1..k \/ i = k + 1
        BY <2>2
      <4> QED  BY <4>2, <4>3, <4>4
    <3>2. \A x \in Items : colour'[x] = "gray" => \E i \in 1..(k + 1) : stack'[i].id = x
      <4> SUFFICES ASSUME NEW x \in Items, colour'[x] = "gray"
                   PROVE  \E i \in 1..(k + 1) : stack'[i].id = x
        OBVIOUS
      <4>1. CASE x = n
        BY <4>1, <2>2, <2>5
      <4>2. CASE x # n
        <5>1. colour[x] = "gray"
          BY <4>2, <2>3, <2>4
        <5>2. PICK i \in 1..k : stack[i].id = x
          BY <1>2, <5>1, WalkFacts DEF WalkShape
        <5> QED
          BY <2>2, <2>7, <5>2
      <4> QED
        BY <4>1, <4>2
    <3>3. \A i, m \in 1..(k + 1) : stack'[i].id = stack'[m].id => i = m
      <4>1. \A i, m \in 1..k : stack[i].id = stack[m].id => i = m
        BY <1>2, WalkFacts DEF WalkShape
      <4>2. \A i \in 1..(k + 1) : i \in 1..k \/ i = k + 1
        BY <2>2
      <4> QED
        BY <2>5, <2>7, <4>1, <4>2
    <3> QED
      BY <2>4, <2>5, <3>1, <3>2, <3>3, <2>3 DEF WalkShape
  <2>9. WalkEdges'
    <3>1. n \in Follows[stack[k].id]
      BY <1>2, <2>2, <2>3, WalkFacts DEF Top, WalkEdges
    <3>2. \A i \in 1..k : stack'[i + 1].id \in Follows[stack'[i].id]
      <4> SUFFICES ASSUME NEW i \in 1..k PROVE stack'[i + 1].id \in Follows[stack'[i].id]
        OBVIOUS
      <4>1. CASE i = k
        BY <2>2, <2>5, <2>7, <3>1, <4>1
      <4>2. CASE i # k
        <5>1. i \in 1..(k - 1) /\ i + 1 \in 1..k
          BY <2>2, <4>2
        <5>2. stack[i + 1].id \in Follows[stack[i].id]
          BY <1>2, <5>1, WalkFacts DEF WalkEdges
        <5> QED
          BY <2>7, <5>1, <5>2
      <4> QED
        BY <4>1, <4>2
    <3>3. \A i \in 1..k : stack[i].left \subseteq Follows[stack[i].id]
      BY <1>2, WalkFacts DEF WalkEdges
    <3>4. \A i \in 1..(k + 1) : stack'[i].left \subseteq Follows[stack'[i].id]
      <4> SUFFICES ASSUME NEW i \in 1..(k + 1)
                   PROVE  stack'[i].left \subseteq Follows[stack'[i].id]
        OBVIOUS
      <4>1. CASE i = k + 1
        BY <2>5, <4>1
      <4>2. CASE i = k
        BY <2>5, <3>3, <2>3, <4>2
      <4>3. CASE i \in 1..(k - 1)
        <5>1. stack'[i] = stack[i] /\ i \in 1..k
          BY <2>2, <2>5, <4>3
        <5> QED
          BY <3>3, <5>1
      <4>4. i = k + 1 \/ i = k \/ i \in 1..(k - 1)
        BY <2>2
      <4> QED
        BY <4>1, <4>2, <4>3, <4>4
    <3>5. \A i \in 1..(k + 1) : \A m \in Follows[stack'[i].id] :
            \/ m \in stack'[i].left
            \/ m \in Black
            \/ i < k + 1 /\ m = stack'[i + 1].id
      <4> SUFFICES ASSUME NEW i \in 1..(k + 1), NEW m \in Follows[stack'[i].id]
                   PROVE  \/ m \in stack'[i].left
                          \/ m \in Black
                          \/ i < k + 1 /\ m = stack'[i + 1].id
        OBVIOUS
      <4>0. \A h \in 1..k : \A e \in Follows[stack[h].id] :
              \/ e \in stack[h].left
              \/ e \in Black
              \/ h < k /\ e = stack[h + 1].id
        BY <1>2, WalkFacts DEF WalkEdges
      <4>1. CASE i = k + 1
        BY <2>5, <4>1
      <4>2. CASE i = k
        <5>1. m \in Follows[stack[k].id] /\ stack'[i].left = stack[k].left \ {n}
          BY <2>5, <4>2
        <5>2. m \in stack[k].left \/ m \in Black
          BY <2>2, <2>3, <4>0, <5>1
        <5>3. i < k + 1 /\ stack'[i + 1].id = n
          BY <2>2, <2>5, <4>2
        <5> QED
          BY <5>1, <5>2, <5>3
      <4>3. CASE i \in 1..(k - 1)
        <5>1. i \in 1..k /\ i + 1 \in 1..k /\ stack'[i] = stack[i] /\ i < k /\ i < k + 1
          BY <2>2, <2>5, <4>3
        <5> QED
          BY <2>7, <4>0, <5>1
      <4> QED
        BY <2>2, <4>1, <4>2, <4>3
    <3>6. Len(stack') - 1 = k
      BY <2>2, <2>5
    <3> QED
      BY <2>4, <2>5, <2>6, <3>2, <3>4, <3>5, <3>6 DEF WalkEdges
  <2>10. WalkDone' /\ (job = "validate" => BlackOrder')
    BY <1>2, <2>4, <2>6, WalkFacts DEF WalkDone, GraphInv, BlackOrder, Waiting
  <2> QED
    BY <1>2, <2>4, <2>8, <2>9, <2>10, GoesOn
<1> QED
  BY <1>3

(* In an accepted graph a walk meets no grey item: it would lead round. *)
LEMMA NoGray ==
  ASSUME GraphInv, job \in {"depth", "layers"}, stack # <<>>, NEW n \in Top.left
  PROVE  colour[n] # "gray"
<1> SUFFICES ASSUME colour[n] = "gray" PROVE FALSE
  OBVIOUS
<1> DEFINE k == Len(stack)
<1>0. job \in Walks /\ Orderable
  BY DEF Walks, GraphInv, Accepted
<1>1. stack \in Seq(Frames) /\ k \in Nat /\ k \in 1..k /\ \A i \in 1..k : stack[i] \in Frames
  BY <1>0, WalkFacts DEF WalkShape
<1>2. n \in Items
  BY <1>1 DEF Top, Frames
<1>3. PICK h \in 1..k : stack[h].id = n
  BY <1>0, <1>2, WalkFacts DEF WalkShape
<1>4. n \in Follows[stack[k].id]
  BY <1>0, <1>1, WalkFacts DEF WalkEdges, Top
<1>5. \A i \in 1..(k - 1) : stack[i + 1].id \in Follows[stack[i].id]
  BY <1>0, WalkFacts DEF WalkEdges
<1> DEFINE S == {stack[i].id : i \in h..k}
<1>6. S \in SUBSET Items /\ S # {} /\ n \in S /\ stack[k].id \in S
  BY <1>1, <1>3 DEF Frames
<1>7. ASSUME NEW x \in S PROVE declares[x] \cap S # {}
  <2>1. PICK i \in h..k : x = stack[i].id
    BY <1>7
  <2>2. i \in 1..k /\ (i = k \/ (i \in 1..(k - 1) /\ i + 1 \in h..k))
        /\ (i = h \/ (i - 1 \in 1..(k - 1) /\ i - 1 \in h..k /\ (i - 1) + 1 = i))
    BY <1>1, <1>3
  <2>3. CASE job = "layers"
    <3>1. Follows = declares
      BY <1>0, <2>3, WalkFacts
    <3>2. CASE i = k
      BY <1>4, <1>6, <2>1, <3>1, <3>2
    <3>3. CASE i \in 1..(k - 1) /\ i + 1 \in h..k
      BY <1>5, <2>1, <3>1, <3>3
    <3> QED  BY <2>2, <3>2, <3>3
  <2>4. CASE job = "depth"
    <3>1. \A y, z \in Items : z \in Follows[y] => y \in declares[z]
      BY <1>0, <2>4, WalkFacts
    <3>2. CASE i = h
      BY <1>2, <1>3, <1>4, <1>6, <2>1, <3>1, <3>2
    <3>3. CASE i - 1 \in 1..(k - 1) /\ i - 1 \in h..k /\ (i - 1) + 1 = i
      <4>1. x \in Follows[stack[i - 1].id] /\ stack[i - 1].id \in S
        BY <1>5, <2>1, <3>3
      <4> QED  BY <1>6, <1>7, <3>1, <4>1
    <3> QED  BY <2>2, <3>2, <3>3
  <2> QED  BY <2>3, <2>4
<1> QED  BY <1>0, <1>6, <1>7 DEF Orderable, Waiting

LEMMA PassInv == ASSUME GraphInv, Pass PROVE GraphInv'
<1>2. job \in Walks
  BY DEF Pass
<1>3. GraphInv'
  <2> DEFINE k == Len(stack)
             rest(n) == [id |-> stack[k].id, left |-> stack[k].left \ {n}]
  <2>1. PICK n \in Top.left :
          colour[n] # "white" /\ colour[n] # "gray" /\ stack' = Consumed(n)
    BY <1>2, NoGray DEF Pass, Walks
  <2>2. /\ stack \in Seq(Frames) /\ k \in Nat \ {0} /\ k \in 1..k
        /\ \A i \in 1..k : stack[i] \in Frames
    BY <1>2, WalkFacts, SameEdges DEF Pass, WalkShape
  <2>3. n \in Items /\ stack[k] \in Frames /\ stack[k].left \ {n} \in SUBSET Items
    BY <2>2 DEF Top, Frames
  <2>4. /\ job' = job /\ declares' = declares /\ Follows' = Follows /\ colour' = colour
        /\ colour \in [Items -> {"white", "gray", "black"}]
    BY <1>2, WalkFacts, SameEdges DEF Pass, WalkShape
  <2>5. n \in Black /\ Black' = Black
    BY <2>1, <2>3, <2>4 DEF Black, Of
  <2>7. rest(n) \in Frames /\ [stack[k] EXCEPT !.left = stack[k].left \ {n}] = rest(n)
    BY <2>3, FrameFollowed
  <2>8. stack' = [stack EXCEPT ![k] = rest(n)]
    BY <2>1, <2>7 DEF Consumed
  <2>9. /\ stack' \in Seq(Frames) /\ Len(stack') = k
        /\ \A i \in 1..k : stack'[i].id = stack[i].id
        /\ \A i \in 1..(k - 1) : stack'[i] = stack[i]
        /\ stack'[k].left = stack[k].left \ {n}
    <3> HIDE DEF rest
    <3>1. /\ stack' \in Seq(Frames) /\ Len(stack') = k
          /\ \A i \in 1..(k - 1) : stack'[i] = stack[i]
          /\ stack'[k] = rest(n)
      BY <2>2, <2>7, <2>8
    <3>2. \A i \in 1..k : i \in 1..(k - 1) \/ i = k
      BY <2>2
    <3> QED
      BY <3>1, <3>2 DEF rest
  <2>10. WalkShape'
    <3>1. WalkShape
      BY <1>2, WalkFacts
    <3>2. /\ \A i \in 1..k : colour'[stack'[i].id] = "gray"
          /\ \A x \in Items : colour'[x] = "gray" => \E i \in 1..k : stack'[i].id = x
      BY <2>4, <2>9, <3>1 DEF WalkShape
    <3>3. \A i, h \in 1..k : stack'[i].id = stack'[h].id => i = h
      BY <2>9, <3>1 DEF WalkShape
    <3> QED
      BY <2>4, <2>9, <3>2, <3>3 DEF WalkShape
  <2>11. WalkEdges'
    <3>1. /\ \A i \in 1..(k - 1) : stack[i + 1].id \in Follows[stack[i].id]
          /\ \A i \in 1..k : stack[i].left \subseteq Follows[stack[i].id]
          /\ \A i \in 1..k : \A m \in Follows[stack[i].id] :
               \/ m \in stack[i].left
               \/ m \in Black
               \/ i < k /\ m = stack[i + 1].id
      BY <1>2, WalkFacts DEF WalkEdges
    <3>2. \A i \in 1..(k - 1) : i \in 1..k /\ i + 1 \in 1..k
      BY <2>2
    <3>3. \A i \in 1..k : i \in 1..(k - 1) \/ i = k
      BY <2>2
    <3>4. \A i \in 1..k : stack'[i].left \subseteq stack[i].left
      BY <2>9, <3>3
    <3>5. \A i \in 1..k : \A m \in Follows[stack[i].id] :
             \/ m \in stack'[i].left
             \/ m \in Black
             \/ i < k /\ m = stack'[i + 1].id
      <4> SUFFICES ASSUME NEW i \in 1..k, NEW m \in Follows[stack[i].id]
                   PROVE  \/ m \in stack'[i].left
                          \/ m \in Black
                          \/ i < k /\ m = stack'[i + 1].id
        OBVIOUS
      <4>1. CASE i = k
        BY <2>2, <2>5, <2>9, <3>1, <4>1
      <4>2. CASE i \in 1..(k - 1)
        <5>1. stack'[i] = stack[i] /\ i + 1 \in 1..k /\ i \in 1..k
          BY <2>9, <3>2, <4>2
        <5>2. stack'[i + 1].id = stack[i + 1].id
          BY <2>9, <5>1
        <5> QED
          BY <3>1, <5>1, <5>2
      <4> QED
        BY <3>3, <4>1, <4>2
    <3> QED
      BY <2>4, <2>5, <2>9, <3>1, <3>2, <3>4, <3>5 DEF WalkEdges
  <2>12. WalkDone' /\ (job = "validate" => BlackOrder')
    BY <1>2, <2>4, <2>5, WalkFacts DEF WalkDone, GraphInv, BlackOrder, Waiting
  <2> QED
    BY <1>2, <2>4, <2>10, <2>11, <2>12, GoesOn
<1> QED
  BY <1>3

LEMMA MeetGrayInv == ASSUME GraphInv, MeetGray PROVE GraphInv'
<1> DEFINE k == Len(stack)
<1>1. job = "validate" /\ job \in Walks /\ job' = "cyclic" /\ declares' = declares
  BY DEF MeetGray, Walks
<1>2. PICK n \in Top.left, h \in 1..k :
        /\ stack[h].id = n
        /\ route' = [i \in 1..(k - h + 1) |-> stack[h + i - 1].id]
  BY DEF MeetGray
<1>3. stack \in Seq(Frames) /\ k \in Nat /\ h \in Nat /\ 1 <= h /\ h <= k
  BY <1>1, WalkFacts DEF WalkShape
<1>4. n \in declares[stack[k].id]
  BY <1>1, <1>3, WalkFacts DEF WalkEdges, Top
<1>5. \A i \in 1..(k - 1) : stack[i + 1].id \in declares[stack[i].id]
  BY <1>1, WalkFacts DEF WalkEdges
<1> DEFINE m == k - h + 1
<1>6. /\ m \in Nat /\ m > 0 /\ Len(route') = m
      /\ \A i \in 1..m : route'[i] = stack[h + i - 1].id
  BY <1>2, <1>3
<1>7. \A i \in 1..m : route'[IF i = m THEN 1 ELSE i + 1] \in declares[route'[i]]
  <2> SUFFICES ASSUME NEW i \in 1..m
               PROVE  route'[IF i = m THEN 1 ELSE i + 1] \in declares[route'[i]]
    OBVIOUS
  <2>1. CASE i = m
    <3>1. 1 \in 1..m /\ m \in 1..m /\ h + m - 1 = k /\ h + 1 - 1 = h
      BY <1>3, <1>6
    <3>2. route'[m] = stack[k].id /\ route'[1] = n
      BY <1>2, <1>6, <3>1
    <3>3. route'[1] \in declares[route'[m]]
      BY <1>4, <3>2
    <3>4. (IF i = m THEN 1 ELSE i + 1) = 1
      BY <2>1
    <3> QED
      BY <2>1, <3>3, <3>4, Zenon
  <2>2. CASE i # m
    <3>0. i \in Nat /\ 1 <= i /\ i <= k - h + 1 /\ i # k - h + 1
      BY <1>3, <2>2
    <3>1. i + 1 \in 1..m /\ h + i - 1 \in 1..(k - 1) /\ h + (i + 1) - 1 = (h + i - 1) + 1
      <4> HIDE DEF k
      <4> QED
        BY <1>3, <3>0
    <3>2. route'[i] = stack[h + i - 1].id /\ route'[i + 1] = stack[(h + i - 1) + 1].id
      BY <1>6, <3>1
    <3> QED
      BY <1>5, <2>2, <3>1, <3>2
  <2> QED
    BY <2>1, <2>2
<1>8. Circular(route')
  BY <1>6, <1>7, <1>1 DEF Circular
<1>9. Circular(route)'
  BY <1>1, <1>6, <1>7 DEF Circular
<1> QED
  BY <1>1, <1>9 DEF GraphInv, Accepted, Walks, Ends

LEMMA LeaveInv == ASSUME GraphInv, Leave PROVE GraphInv'
<1>2. job \in Walks
  BY DEF Leave
<1>3. GraphInv'
  <2> DEFINE k == Len(stack)
             it == stack[k].id
  <2>1. /\ stack \in Seq(Frames) /\ k \in Nat \ {0} /\ k \in 1..k
        /\ \A i \in 1..k : stack[i] \in Frames
        /\ it \in Items /\ colour[it] = "gray" /\ stack[k].left = {}
    <3>1. /\ stack \in Seq(Frames) /\ stack # <<>> /\ stack[k].left = {}
          /\ \A i \in 1..k : colour[stack[i].id] = "gray"
      BY <1>2, WalkFacts DEF Leave, WalkShape, Top
    <3>2. /\ k \in Nat \ {0} /\ k \in 1..k
          /\ \A i \in 1..k : stack[i] \in Frames
      BY <3>1
    <3>3. it \in Items
      BY <3>2 DEF Frames
    <3> QED
      BY <3>1, <3>2, <3>3
  <2>2. /\ job' = job /\ declares' = declares /\ Follows' = Follows
        /\ colour' = [colour EXCEPT ![it] = "black"]
        /\ colour \in [Items -> {"white", "gray", "black"}]
    <3>1. colour' = [colour EXCEPT ![it] = "black"]
      BY DEF Leave, Top
    <3>2. job' = job /\ declares' = declares /\ Follows' = Follows
      BY SameEdges DEF Leave
    <3>3. colour \in [Items -> {"white", "gray", "black"}]
      BY <1>2, WalkFacts DEF WalkShape
    <3> QED
      BY <1>2, <3>1, <3>2, <3>3
  <2>3. /\ stack' \in Seq(Frames) /\ Len(stack') = k - 1
        /\ \A i \in 1..(k - 1) : stack'[i] = stack[i]
    <3>1. stack' = SubSeq(stack, 1, k - 1)
      BY DEF Leave
    <3>2. stack' = [i \in 1..(k - 1) |-> stack[i]]
      BY <2>1, <3>1
    <3> QED
      BY <2>1, <3>2
  <2>4. Black' = Black \cup {it} /\ it \notin Black
    BY <2>1, <2>2 DEF Black, Of
  <2>5. Follows[it] \subseteq Black
    BY <1>2, <2>1, WalkFacts DEF WalkEdges
  <2>6. \A i \in 1..k : i \in 1..(k - 1) \/ i = k
    BY <2>1
  <2>7. \A i \in 1..(k - 1) : i \in 1..k /\ stack[i].id # it
    <3>1. \A i, m \in 1..k : stack[i].id = stack[m].id => i = m
      BY <1>2, WalkFacts DEF WalkShape
    <3> QED
      BY <2>1, <3>1
  <2>8. WalkShape'
    <3>1. \A i \in 1..(k - 1) : colour'[stack'[i].id] = "gray"
      BY <1>2, <2>1, <2>2, <2>3, <2>7, WalkFacts DEF WalkShape, Frames
    <3>2. \A x \in Items : colour'[x] = "gray" => \E i \in 1..(k - 1) : stack'[i].id = x
      <4> SUFFICES ASSUME NEW x \in Items, colour'[x] = "gray"
                   PROVE  \E i \in 1..(k - 1) : stack'[i].id = x
        OBVIOUS
      <4>1. x # it /\ colour[x] = "gray"
        BY <2>1, <2>2
      <4>2. PICK i \in 1..k : stack[i].id = x
        BY <1>2, <4>1, WalkFacts DEF WalkShape
      <4> QED
        BY <2>3, <2>6, <4>1, <4>2
    <3>3. \A i, m \in 1..(k - 1) : stack'[i].id = stack'[m].id => i = m
      BY <1>2, <2>3, <2>7, WalkFacts DEF WalkShape
    <3> QED
      BY <2>1, <2>2, <2>3, <3>1, <3>2, <3>3 DEF WalkShape
  <2>9. WalkEdges'
    <3>1. /\ \A i \in 1..(k - 1) : stack[i + 1].id \in Follows[stack[i].id]
          /\ \A i \in 1..k : stack[i].left \subseteq Follows[stack[i].id]
          /\ \A i \in 1..k : \A m \in Follows[stack[i].id] :
               \/ m \in stack[i].left
               \/ m \in Black
               \/ i < k /\ m = stack[i + 1].id
      BY <1>2, WalkFacts DEF WalkEdges
    <3>2. \A i \in 1..((k - 1) - 1) : i \in 1..(k - 1) /\ i + 1 \in 1..(k - 1)
      BY <2>1
    <3>3. \A i \in 1..(k - 1) : \A m \in Follows[stack[i].id] :
             \/ m \in stack[i].left
             \/ m \in Black'
             \/ i < k - 1 /\ m = stack[i + 1].id
      <4> SUFFICES ASSUME NEW i \in 1..(k - 1), NEW m \in Follows[stack[i].id]
                   PROVE  \/ m \in stack[i].left
                          \/ m \in Black'
                          \/ i < k - 1 /\ m = stack[i + 1].id
        OBVIOUS
      <4>1. \/ m \in stack[i].left
            \/ m \in Black
            \/ i < k /\ m = stack[i + 1].id
        BY <2>7, <3>1
      <4>2. i = k - 1 \/ i < k - 1
        BY <2>1
      <4>3. i = k - 1 => stack[i + 1].id = it
        BY <2>1
      <4> QED
        BY <2>4, <4>1, <4>2, <4>3
    <3>4. \A i \in 1..((k - 1) - 1) : stack'[i + 1].id \in Follows'[stack'[i].id]
      BY <2>2, <2>3, <3>1, <3>2
    <3>5. \A i \in 1..(k - 1) : stack'[i].left \subseteq Follows'[stack'[i].id]
      BY <2>2, <2>3, <2>7, <3>1
    <3>6. \A i \in 1..(k - 1) : \A m \in Follows'[stack'[i].id] :
             \/ m \in stack'[i].left
             \/ m \in Black'
             \/ i < k - 1 /\ m = stack'[i + 1].id
      <4>1. \A i \in 1..(k - 1) : i < k - 1 => i + 1 \in 1..(k - 1)
        BY <2>1
      <4> QED
        BY <2>2, <2>3, <3>3, <4>1
    <3> QED
      BY <2>3, <3>4, <3>5, <3>6 DEF WalkEdges
  <2>10. WalkDone'
    BY <1>2, <2>2, <2>4, <2>5, WalkFacts DEF WalkDone
  <2>11. ASSUME job = "validate" PROVE BlackOrder'
    <3>1. /\ \A x \in Black : declares[x] \subseteq Black
          /\ \A S \in SUBSET Black : S # {} => ~Waiting(S)
      BY <1>2, <2>11, WalkFacts DEF WalkDone, GraphInv, BlackOrder
    <3>2. declares[it] \subseteq Black
      BY <1>2, <2>5, <2>11, WalkFacts
    <3>3. \A S \in SUBSET Black' : S # {} => ~(\A x \in S : declares[x] \cap S # {})
      <4> SUFFICES ASSUME NEW S \in SUBSET Black', S # {},
                          \A x \in S : declares[x] \cap S # {}
                   PROVE  FALSE
        OBVIOUS
      <4> DEFINE older == S \ {it}
      <4>1. older \in SUBSET Black
        BY <2>4
      <4>2. \A x \in older : declares[x] \cap older # {}
        BY <2>4, <3>1, <4>1
      <4>3. older # {}
        BY <2>4, <3>2
      <4> QED
        BY <3>1, <4>1, <4>2, <4>3 DEF Waiting
    <3> QED
      BY <2>2, <3>3 DEF BlackOrder, Waiting
  <2> QED
    BY <1>2, <2>2, <2>8, <2>9, <2>10, <2>11, GoesOn
<1> QED
  BY <1>3

(* A walk that begins: nothing is grey or black. *)
LEMMA FreshWalk ==
  ASSUME colour = Unseen, stack = <<>>, declares \in [Items -> SUBSET Items]
  PROVE  WalkShape /\ WalkEdges /\ WalkDone /\ Black = {}
<1>1. Black = {}
  BY DEF Black, Of, Unseen
<1>2. WalkShape
  BY DEF WalkShape, Unseen, Frames
<1> QED
  BY <1>1, <1>2 DEF WalkEdges, WalkDone

LEMMA OverInv == ASSUME GraphInv, Over PROVE GraphInv'
<1>0. stack = <<>> /\ stack' = stack /\ declares' = declares /\ declares \in [Items -> SUBSET Items]
  BY WalkFacts DEF Over
<1>1. CASE job # "validate"
  <2>1. job' \in {"path", "done"} /\ job \in {"depth", "layers"}
    BY <1>1 DEF Over, Walks
  <2> QED
    BY <1>0, <2>1 DEF GraphInv, Accepted, Orderable, Waiting, Walks, Ends
<1>2. CASE job = "validate"
  <2>1. job' = "depth" /\ Of("white") = {} /\ colour' = Unseen /\ job \in Walks
    BY <1>2 DEF Over
  <2>2. Black = Items
    <3>1. \A x \in Items : colour[x] \in {"white", "gray", "black"} /\ colour[x] # "gray"
      BY <1>0, <2>1, WalkFacts DEF WalkShape
    <3> QED
      BY <3>1, <2>1 DEF Black, Of
  <2>3. Orderable
    BY <1>2, <2>2 DEF GraphInv, BlackOrder, Orderable
  <2>4. (WalkShape /\ WalkEdges /\ WalkDone)'
    <3>1. (colour = Unseen)' /\ (stack = <<>>)' /\ (declares \in [Items -> SUBSET Items])'
      BY <1>0, <2>1 DEF Unseen
    <3> QED
      BY <3>1, FreshWalk, PTL
  <2> QED
    BY <1>0, <1>2, <2>1, <2>3, <2>4 DEF GraphInv, Accepted, Orderable, Waiting, Walks, Ends
<1> QED
  BY <1>1, <1>2

LEMMA ReadInv == ASSUME GraphInv, Extend \/ Arrive PROVE GraphInv'
<1>1. CASE Extend
  BY <1>1 DEF Extend, GraphInv, Accepted, Orderable, Waiting, Walks, Ends
<1>2. CASE Arrive
  <2>1. /\ job = "path" /\ job' = "layers" /\ colour' = Unseen /\ stack' = <<>> /\ declares' = declares
        /\ declares \in [Items -> SUBSET Items]
    BY <1>2 DEF Arrive, GraphInv
  <2>2. (WalkShape /\ WalkEdges /\ WalkDone)'
    <3>1. (colour = Unseen)' /\ (stack = <<>>)' /\ (declares \in [Items -> SUBSET Items])'
      BY <2>1 DEF Unseen
    <3> QED
      BY <3>1, FreshWalk, PTL
  <2> QED
    BY <2>1, <2>2 DEF GraphInv, Accepted, Orderable, Waiting, Walks, Ends
<1> QED
  BY <1>1, <1>2

LEMMA GraphStepInv == GraphInv /\ [GraphNext]_graphVars => GraphInv'
<1> SUFFICES ASSUME GraphInv, [GraphNext]_graphVars PROVE GraphInv'
  OBVIOUS
<1>1. CASE UNCHANGED graphVars
  BY <1>1, SameEdges DEF graphVars, GraphInv, WalkShape, WalkEdges, WalkDone, BlackOrder, Black, Of,
              Accepted, Orderable, Waiting, Circular
<1>2. CASE GraphNext
  BY <1>2, NameInv, EnterFirstInv, DescendInv, PassInv, MeetGrayInv, LeaveInv,
     OverInv, ReadInv DEF GraphNext
<1> QED
  BY <1>1, <1>2

(* Whatever the plan and in whatever order its lines are read, validateDeps  *)
(* accepts only a graph that has an order and names items of the plan, and   *)
(* what it shows of a refused one is a cycle.                                *)
THEOREM JustOrders == GraphSpec => []AcceptsJustOrders
<1>1. GraphInv => AcceptsJustOrders
  BY DEF GraphInv, AcceptsJustOrders, Accepted
<1> QED
  BY <1>1, GraphInitInv, GraphStepInv, PTL DEF GraphSpec

-----------------------------------------------------------------------------
(* Ranks. *)

(* In a finite set every set of sets has a smallest one. *)
LEMMA SmallestSubset ==
  ASSUME NEW S, IsFiniteSet(S), NEW T, T \subseteq SUBSET S, T # {}
  PROVE  \E U \in T : \A V \in T : V \subseteq U => V = U
<1>1. IsWellFoundedOn(StrictSubsetOrdering(S), FiniteSubsetsOf(S))
  BY FS_StrictSubsetOrderingWellFounded
<1>2. T \subseteq FiniteSubsetsOf(S)
  BY FS_FiniteSubsetsOfFinite
<1>3. PICK U \in T : \A V \in T : ~(<<V, U>> \in StrictSubsetOrdering(S))
  BY <1>1, <1>2, WFMin
<1>4. \A V \in T : V \subseteq U => V = U
  <2> SUFFICES ASSUME NEW V \in T, V \subseteq U, V # U PROVE FALSE
    OBVIOUS
  <2>1. <<V, U>> \in (SUBSET S) \X (SUBSET S)
    OBVIOUS
  <2>2. <<V, U>> \in StrictSubsetOrdering(S)
    BY <2>1 DEF StrictSubsetOrdering
  <2> QED  BY <1>3, <2>2
<1> QED  BY <1>4

LEMMA ItemsFinite == IsFiniteSet(Items)
<1>1. Listing \in Seq(Items)
  BY ListingAssumption
<1>2. Items = {Listing[i] : i \in 1..Len(Listing)}
  BY <1>1 DEF Items, ToSet
<1>3. Listing \in Surjection(1..Len(Listing), Items)
  BY <1>1, <1>2 DEF Surjection
<1>4. Len(Listing) \in Nat
  BY <1>1
<1>5. IsFiniteSet(1..Len(Listing))
  BY <1>4, FS_Interval
<1> QED  BY <1>3, <1>5, FS_Surjection

(* A function on a finite set has a greatest value. *)
LEMMA Greatest ==
  ASSUME NEW S, IsFiniteSet(S), S # {}, NEW f, \A x \in S : f[x] \in Nat
  PROVE  \E x \in S : \A y \in S : f[y] <= f[x]
<1> DEFINE T == {U \in SUBSET S : U # {} /\ ~ \E x \in U : \A y \in U : f[y] <= f[x]}
<1> SUFFICES ASSUME T # {} PROVE FALSE
  OBVIOUS
<1>1. PICK U \in T : \A V \in T : V \subseteq U => V = U
  <2> HIDE DEF T
  <2>1. T \subseteq SUBSET S
    BY DEF T
  <2> QED  BY <2>1, SmallestSubset
<1>2. PICK z \in U : z \in S
  OBVIOUS
<1> DEFINE V == U \ {z}
<1>3. V \notin T
  BY <1>1, <1>2
<1>4. CASE V = {}
  BY <1>1, <1>2, <1>4
<1>5. CASE V # {}
  <2>1. PICK x \in V : \A y \in V : f[y] <= f[x]
    BY <1>3, <1>5
  <2>2. f[x] \in Nat /\ f[z] \in Nat /\ \A y \in U : f[y] \in Nat
    BY <1>2
  <2>3. CASE f[z] <= f[x]
    BY <2>1, <2>3, <1>1
  <2>4. CASE f[x] <= f[z]
    <3>1. \A y \in U : f[y] <= f[z]
      BY <2>1, <2>2, <2>4
    <3> QED  BY <1>1, <1>2, <3>1
  <2> QED  BY <2>2, <2>3, <2>4
<1> QED  BY <1>4, <1>5

LEMMA MaxIs ==
  ASSUME NEW S \in SUBSET Int, NEW m \in S, \A y \in S : y <= m
  PROVE  Max(S) = m
<1>1. m \in Int /\ \A y \in S : y \in Int /\ m >= y
  OBVIOUS
<1>2. \E x \in S : \A y \in S : x >= y
  BY <1>1
<1>3. Max(S) \in S /\ \A y \in S : Max(S) >= y
  BY <1>2, Zenon DEF Max
<1>4. PICK x \in S : x = Max(S) /\ \A y \in S : x >= y
  BY <1>3
<1>5. x = m
  BY <1>1, <1>4
<1> QED  BY <1>4, <1>5

(* What Highest computes. *)
LEMMA HighestIs ==
  ASSUME NEW S, IsFiniteSet(S), NEW f, \A x \in S : f[x] \in Nat
  PROVE  /\ Max({0} \cup {f[y] : y \in S}) \in Nat
         /\ \A y \in S : f[y] <= Max({0} \cup {f[y1] : y1 \in S})
         /\ S = {} => Max({0} \cup {f[y] : y \in S}) = 0
         /\ \A x \in S : (\A y \in S : f[y] <= f[x]) =>
              /\ Max({0} \cup {f[y] : y \in S}) = f[x]
              /\ Max({f[y] : y \in S}) = f[x]
         /\ S # {} => Max({f[y] : y \in S}) = Max({0} \cup {f[y] : y \in S})
<1> DEFINE R == {f[y] : y \in S}
           Z == {0} \cup R
<1>1. R \in SUBSET Int /\ Z \in SUBSET Int
  OBVIOUS
<1>2. ASSUME NEW x \in S, \A y \in S : f[y] <= f[x] PROVE Max(Z) = f[x] /\ Max(R) = f[x]
  <2>1. f[x] \in R /\ f[x] \in Z /\ \A r \in R : r <= f[x]
    BY <1>2
  <2>2. \A r \in Z : r <= f[x]
    BY <2>1
  <2> HIDE DEF R, Z
  <2> QED  BY <1>1, <2>1, <2>2, MaxIs
<1>3. CASE S = {}
  <2>1. Z = {0}
    BY <1>3
  <2>2. Max(Z) = 0
    <3> HIDE DEF Z
    <3> QED  BY <2>1, MaxIs
  <2> QED  BY <1>3, <2>2
<1>4. CASE S # {}
  <2>1. PICK x \in S : \A y \in S : f[y] <= f[x]
    BY <1>4, Greatest
  <2>2. Max(Z) = f[x] /\ Max(R) = f[x]
    BY <1>2, <2>1
  <2> QED  BY <1>2, <1>4, <2>1, <2>2
<1> QED  BY <1>3, <1>4

LEMMA HighestAt ==
  ASSUME NEW S, IsFiniteSet(S), NEW f, \A x \in S : f[x] \in Nat,
         NEW x \in S, \A y \in S : f[y] <= f[x]
  PROVE  Max({0} \cup {f[y] : y \in S}) = f[x]
  BY HighestIs

LEMMA HighestOfNone ==
  ASSUME NEW S, S = {}, NEW f
  PROVE  Max({0} \cup {f[y] : y \in S}) = 0
<1>1. {0} \cup {f[y] : y \in S} = {0}
  OBVIOUS
<1>2. Max({0}) = 0
  BY MaxIs
<1> QED  BY <1>1, <1>2

(* The recursive definitions, as conditions on a function. *)
IsUnlocks(f) == f = [x \in Items |-> 1 + Max({0} \cup {f[y] : y \in Dependents(x)})]
IsWaits(f) ==
  f = [x \in Items |-> IF declares[x] = {} THEN 0 ELSE 1 + Max({f[y] : y \in declares[x]})]

(* What waits for nothing within a set is there in every set; so is what nothing in the
   set waits for. *)
LEMMA LastOfAll ==
  ASSUME Orderable, declares \in [Items -> SUBSET Items], NEW S \in SUBSET Items, S # {}
  PROVE  \E x \in S : Dependents(x) \cap S = {}
<1> DEFINE T == {U \in SUBSET S : U # {} /\ \A x \in U : Dependents(x) \cap U # {}}
<1> SUFFICES ASSUME T # {} PROVE FALSE
  OBVIOUS
<1>1. IsFiniteSet(S)
  BY ItemsFinite, FS_Subset
<1>2. PICK U \in T : \A V \in T : V \subseteq U => V = U
  <2> HIDE DEF T
  <2>1. T \subseteq SUBSET S
    BY DEF T
  <2> QED  BY <1>1, <2>1, SmallestSubset
<1>3. PICK z \in U : declares[z] \cap U = {}
  BY <1>2 DEF Orderable, Waiting
<1> DEFINE V == U \ {z}
<1>4. \A x \in U : Dependents(x) \cap V # {}
  BY <1>2, <1>3 DEF Dependents
<1>5. V \in T
  BY <1>2, <1>3, <1>4
<1> QED  BY <1>2, <1>3, <1>5

LEMMA UnlocksUnique ==
  ASSUME Orderable, declares \in [Items -> SUBSET Items],
         NEW f, NEW g, IsUnlocks(f), IsUnlocks(g)
  PROVE  f = g
<1> DEFINE T == {x \in Items : f[x] # g[x]}
<1>1. ASSUME T # {} PROVE FALSE
  <2>1. PICK x \in T : Dependents(x) \cap T = {}
    BY <1>1, LastOfAll
  <2>2. \A y \in Dependents(x) : f[y] = g[y]
    BY <2>1 DEF Dependents
  <2>3. {f[y] : y \in Dependents(x)} = {g[y] : y \in Dependents(x)}
    BY <2>2
  <2>4. /\ f[x] = 1 + Max({0} \cup {f[y] : y \in Dependents(x)})
        /\ g[x] = 1 + Max({0} \cup {g[y] : y \in Dependents(x)})
    BY <2>1 DEF IsUnlocks
  <2> QED  BY <2>1, <2>3, <2>4
<1>2. \A x \in Items : f[x] = g[x]
  BY <1>1
<1>3. f = [x \in Items |-> f[x]] /\ g = [x \in Items |-> g[x]]
  BY DEF IsUnlocks
<1> QED  BY <1>2, <1>3

LEMMA WaitsUnique ==
  ASSUME Orderable, declares \in [Items -> SUBSET Items],
         NEW f, NEW g, IsWaits(f), IsWaits(g)
  PROVE  f = g
<1> DEFINE T == {x \in Items : f[x] # g[x]}
<1>1. ASSUME T # {} PROVE FALSE
  <2>1. PICK x \in T : declares[x] \cap T = {}
    BY <1>1 DEF Orderable, Waiting
  <2>2. \A y \in declares[x] : f[y] = g[y]
    BY <2>1
  <2>3. {f[y] : y \in declares[x]} = {g[y] : y \in declares[x]}
    BY <2>2
  <2>4. /\ f[x] = IF declares[x] = {} THEN 0 ELSE 1 + Max({f[y] : y \in declares[x]})
        /\ g[x] = IF declares[x] = {} THEN 0 ELSE 1 + Max({g[y] : y \in declares[x]})
    BY <2>1 DEF IsWaits
  <2> QED  BY <2>1, <2>3, <2>4
<1>2. \A x \in Items : f[x] = g[x]
  BY <1>1
<1>3. f = [x \in Items |-> f[x]] /\ g = [x \in Items |-> g[x]]
  BY DEF IsWaits
<1> QED  BY <1>2, <1>3

(* Where a function satisfies the condition, the recursive definition does. *)
LEMMA UnlocksIs == ASSUME NEW f, IsUnlocks(f) PROVE IsUnlocks(Unlocks)
<1>1. Unlocks = CHOOSE g : IsUnlocks(g)
  BY DEF Unlocks, IsUnlocks
<1> QED  BY <1>1, Zenon

LEMMA WaitsIs == ASSUME NEW f, IsWaits(f) PROVE IsWaits(Waits)
<1>1. Waits = CHOOSE g : IsWaits(g)
  BY DEF Waits, IsWaits
<1> QED  BY <1>1, Zenon

(* What a walk leaves in the map for an item, in terms of its edges. *)
Held(x) == IF job = "layers" /\ Follows[x] = {} THEN 0 ELSE 1 + Highest(Follows[x])

Chain(r) == \A i \in 1..(Len(r) - 1) : r[i] \in declares[r[i + 1]]

(* The critical path so far begins at a deepest item and goes down one at a *)
(* time.                                                                    *)
Descends(r) ==
  r # <<>> => /\ \A x \in Items : rank[x] <= rank[r[1]]
              /\ rank[r[Len(r)]] + Len(r) = rank[r[1]] + 1

(* What was computed for the black items is final.                         *)
RankInv ==
  /\ rank \in [Items -> Nat]
  /\ job \in {"declared", "validate", "depth"} => route = <<>>
  /\ job \in {"depth", "layers"} => \A x \in Black : rank[x] = Held(x)
  /\ job = "path" => IsUnlocks(rank) /\ route \in Seq(Items) /\ Chain(route) /\ Descends(route)
  /\ job = "layers" =>
       /\ Chain(route)
       /\ \E f : IsUnlocks(f) /\ Len(route) = Max({0} \cup {f[x] : x \in Items})
  /\ job = "done" => IsWaits(rank)

LEMMA GraphInitRank == GraphInit => RankInv
  BY DEF GraphInit, RankInv, Unranked

LEMMA ItemsAreFinite == \A S \in SUBSET Items : IsFiniteSet(S)
  BY ItemsFinite, FS_Subset

LEMMA SameHeld ==
  ASSUME job' = job, Follows' = Follows, NEW x, \A y \in Follows[x] : rank'[y] = rank[y]
  PROVE  Held(x)' = Held(x)
<1>1. {rank'[y] : y \in Follows[x]} = {rank[y] : y \in Follows[x]}
  OBVIOUS
<1> QED  BY <1>1 DEF Held, Highest

(* The graph the later walks read is an accepted one. *)
LEMMA SameGraph ==
  ASSUME declares' = declares
  PROVE  /\ \A r : Chain(r)' = Chain(r)
         /\ \A f : IsUnlocks(f)' = IsUnlocks(f)
         /\ \A f : IsWaits(f)' = IsWaits(f)
  BY DEF Chain, IsUnlocks, IsWaits, Dependents

(* A step of a walk that changes the rank of one item that is not black. *)
LEMMA WalkRank ==
  ASSUME GraphInv, RankInv, job \in Walks, job' = job, declares' = declares, route' = route,
         NEW it \in Items, it \notin Black, NEW r \in Nat, rank' = [rank EXCEPT ![it] = r],
         \A x \in Black' : x \in Black \/ (Follows[x] \subseteq Black /\ rank'[x] = Held(x))
  PROVE  RankInv'
<1>1. Follows' = Follows
  BY SameEdges
<1>2. rank \in [Items -> Nat] /\ rank' \in [Items -> Nat]
  BY DEF RankInv
<1>3. \A x \in Black : Follows[x] \subseteq Black /\ x \in Items
  BY WalkFacts DEF WalkDone
<1>4. \A y \in Black : rank'[y] = rank[y]
  BY <1>2, <1>3
<1>5. ASSUME job \in {"depth", "layers"}, NEW x \in Black' PROVE rank'[x] = Held(x)'
  <2>1. Follows[x] \subseteq Black /\ rank'[x] = Held(x)
    BY <1>3, <1>4, <1>5 DEF RankInv
  <2>2. Held(x)' = Held(x)
    BY <1>1, <1>4, <2>1, SameHeld
  <2> QED  BY <2>1, <2>2
<1>6. ASSUME job = "layers"
      PROVE  Chain(route)' /\ \E f : IsUnlocks(f)' /\ Len(route') = Max({0} \cup {f[x] : x \in Items})
  <2>1. PICK f : IsUnlocks(f) /\ Len(route) = Max({0} \cup {f[x] : x \in Items})
    BY <1>6 DEF RankInv
  <2>2. Chain(route)
    BY <1>6 DEF RankInv
  <2>3. Chain(route)' /\ IsUnlocks(f)'
    BY <2>1, <2>2 DEF Chain, IsUnlocks, Dependents
  <2> QED  BY <2>1, <2>3
<1>7. job \notin {"declared", "path", "done"}
  BY DEF Walks
<1>8. job \in {"validate", "depth"} => route = <<>>
  BY DEF RankInv
<1> QED  BY <1>2, <1>5, <1>6, <1>7, <1>8 DEF RankInv

LEMMA EnterRank == ASSUME GraphInv, RankInv, EnterFirst \/ Descend PROVE RankInv'
<1>1. job \in Walks /\ job' = job /\ declares' = declares /\ route' = route
  BY DEF EnterFirst, Descend
<1>2. PICK n \in Items : colour[n] = "white" /\ Enter(n)
  <2>1. CASE EnterFirst
    BY <2>1 DEF EnterFirst, Items, ToSet
  <2>2. CASE Descend
    <3>1. Top.left \subseteq Items
      <4>1. stack \in Seq(Frames) /\ stack # <<>>
        BY <1>1, <2>2, WalkFacts DEF Descend, WalkShape
      <4>2. stack[Len(stack)] \in Frames
        BY <4>1
      <4> QED  BY <4>2 DEF Top, Frames
    <3> QED  BY <2>2, <3>1 DEF Descend
  <2> QED  BY <2>1, <2>2
<1>3. n \notin Black /\ Black' = Black /\ rank' = [rank EXCEPT ![n] = 0]
  <2>1. colour \in [Items -> {"white", "gray", "black"}]
    BY <1>1, WalkFacts DEF WalkShape
  <2> QED  BY <1>2, <2>1 DEF Black, Of, Enter, Entered
<1> QED  BY <1>1, <1>2, <1>3, WalkRank

LEMMA SameRank ==
  ASSUME RankInv, job' = job, declares' = declares, route' = route, rank' = rank, Black' = Black
  PROVE  RankInv'
<1>1. Follows' = Follows
  BY SameEdges
<1>2. \A x : Held(x)' = Held(x)
  BY <1>1, SameHeld
<1> QED  BY <1>2, SameGraph DEF RankInv, Descends

(* What an item is given when its frame is done. *)
LEMMA RankIsHeld ==
  ASSUME GraphInv, RankInv, job \in Walks, NEW x \in Items
  PROVE  RankOf(x) \in Nat /\ (job \in {"depth", "layers"} => RankOf(x) = Held(x))
<1>1. /\ Follows \in [Items -> SUBSET Items]
      /\ Edges(x) = Follows[x]
      /\ job = "depth" => Follows[x] = Dependents(x)
      /\ job = "layers" => Follows[x] = declares[x]
  BY WalkFacts DEF Edges
<1>2. Highest(Follows[x]) \in Nat
  <2>1. IsFiniteSet(Follows[x]) /\ \A y \in Follows[x] : rank[y] \in Nat
    BY <1>1, ItemsAreFinite DEF RankInv
  <2> QED  BY <2>1, HighestIs DEF Highest
<1> QED  BY <1>1, <1>2 DEF RankOf, Held, Walks

LEMMA LeaveRank == ASSUME GraphInv, RankInv, Leave PROVE RankInv'
<1> DEFINE it == Top.id
<1>1. job \in Walks /\ job' = job /\ declares' = declares /\ route' = route
  BY DEF Leave
<1>2. /\ stack \in Seq(Frames) /\ stack # <<>> /\ Top.left = {}
      /\ \A i \in 1..Len(stack) : colour[stack[i].id] = "gray"
      /\ colour \in [Items -> {"white", "gray", "black"}]
  BY <1>1, WalkFacts DEF Leave, WalkShape
<1>3. Top \in Frames /\ Len(stack) \in 1..Len(stack)
  BY <1>2 DEF Top
<1>4. it \in Items /\ colour[it] = "gray"
  BY <1>2, <1>3 DEF Top, Frames
<1>5. colour' = [colour EXCEPT ![it] = "black"] /\ rank' = [rank EXCEPT ![it] = RankOf(it)]
  BY DEF Leave
<1>6. it \notin Black /\ Black' = Black \cup {it}
  BY <1>2, <1>4, <1>5 DEF Black, Of
<1>7. Follows[it] \subseteq Black
  BY <1>1, <1>2, <1>3, WalkFacts DEF WalkEdges, Top
<1>8. RankOf(it) \in Nat /\ (job \in {"depth", "layers"} => RankOf(it) = Held(it))
  BY <1>1, <1>4, RankIsHeld
<1>9. rank'[it] = RankOf(it)
  BY <1>4, <1>5 DEF RankInv
<1>10. CASE job \in {"depth", "layers"}
  <2>1. \A x \in Black' : x \in Black \/ (Follows[x] \subseteq Black /\ rank'[x] = Held(x))
    BY <1>6, <1>7, <1>8, <1>9, <1>10
  <2> QED  BY <1>1, <1>4, <1>5, <1>6, <1>8, <2>1, WalkRank
<1>11. CASE job = "validate"
  BY <1>1, <1>4, <1>5, <1>8, <1>11 DEF RankInv
<1> QED  BY <1>1, <1>10, <1>11 DEF Walks

(* A walk is over when every item is black: its ranks are the recursive     *)
(* definition's.                                                            *)
LEMMA OverRank == ASSUME GraphInv, RankInv, Over PROVE RankInv'
<1>1. /\ job \in Walks /\ stack = <<>> /\ Of("white") = {}
      /\ rank' = rank /\ declares' = declares /\ route' = route
      /\ job' = CASE job = "validate" -> "depth" [] job = "depth" -> "path"
                  [] job = "layers" -> "done"
  BY DEF Over
<1>2. rank \in [Items -> Nat]
  BY DEF RankInv
<1>3. Black = Items
  <2>1. \A x \in Items : colour[x] \in {"white", "gray", "black"} /\ colour[x] # "gray"
    BY <1>1, WalkFacts DEF WalkShape
  <2> QED  BY <2>1, <1>1 DEF Black, Of
<1>4. CASE job = "validate"
  <2>1. job' = "depth" /\ colour' = Unseen /\ route = <<>>
    BY <1>1, <1>4 DEF Over, RankInv
  <2>2. Black' = {}
    BY <2>1 DEF Black, Of, Unseen
  <2> QED  BY <1>1, <1>2, <2>1, <2>2 DEF RankInv
<1>5. CASE job = "depth"
  <2>1. job' = "path" /\ route = <<>>
    BY <1>1, <1>5 DEF RankInv
  <2>2. ASSUME NEW x \in Items
        PROVE  rank[x] = 1 + Max({0} \cup {rank[y] : y \in Dependents(x)})
    <3>1. rank[x] = Held(x)
      BY <1>3, <1>5 DEF RankInv
    <3>2. Follows[x] = Dependents(x)
      BY <1>1, <1>5, WalkFacts DEF Edges
    <3> QED  BY <1>5, <3>1, <3>2 DEF Held, Highest
  <2>3. IsUnlocks(rank)
    BY <1>2, <2>2 DEF IsUnlocks
  <2>4. IsUnlocks(rank)'
    BY <1>1, <2>3 DEF IsUnlocks, Dependents
  <2>5. route' \in Seq(Items) /\ Chain(route)' /\ Descends(route)'
    BY <1>1, <2>1 DEF Chain, Descends
  <2> QED  BY <1>1, <1>2, <2>1, <2>4, <2>5 DEF RankInv
<1>6. CASE job = "layers"
  <2>1. job' = "done"
    BY <1>1, <1>6
  <2>2. ASSUME NEW x \in Items
        PROVE  rank[x] = IF declares[x] = {} THEN 0 ELSE 1 + Max({rank[y] : y \in declares[x]})
    <3>1. rank[x] = Held(x)
      BY <1>3, <1>6 DEF RankInv
    <3>2. Follows[x] = declares[x] /\ IsFiniteSet(declares[x])
          /\ \A y \in declares[x] : rank[y] \in Nat
      BY <1>1, <1>2, <1>6, WalkFacts, ItemsAreFinite
    <3>3. declares[x] # {} => Max({rank[y] : y \in declares[x]}) = Highest(declares[x])
      BY <3>2, HighestIs DEF Highest
    <3> QED  BY <1>6, <3>1, <3>2, <3>3 DEF Held
  <2>3. IsWaits(rank)
    BY <1>2, <2>2 DEF IsWaits
  <2>4. IsWaits(rank)'
    BY <1>1, <2>3 DEF IsWaits
  <2> QED  BY <1>1, <1>2, <2>1, <2>4 DEF RankInv
<1> QED  BY <1>1, <1>4, <1>5, <1>6 DEF Walks

(* The item the critical path goes on with. *)
LEMMA DeepestIs ==
  ASSUME RankInv, NEW S \in SUBSET Items, S # {}
  PROVE  Deepest(S) \in S /\ \A y \in S : rank[y] <= rank[Deepest(S)]
<1> DEFINE best == {x \in S : \A y \in S : rank[y] <= rank[x]}
           I == {i \in 1..Len(Listing) : Listing[i] \in best}
<1>1. Listing \in Seq(Items) /\ Len(Listing) \in Nat
  BY ListingAssumption
<1>2. best # {}
  <2>1. \A x \in S : rank[x] \in Nat
    BY DEF RankInv
  <2> QED  BY <2>1, ItemsAreFinite, Greatest
<1>3. I # {}
  <2>1. PICK x \in best : x \in Items
    BY <1>2
  <2>2. PICK i \in 1..Len(Listing) : Listing[i] = x
    BY <2>1 DEF Items, ToSet
  <2> QED  BY <2>1, <2>2
<1>4. PICK i \in I : \A j \in I : i <= j
  <2> DEFINE f == [j \in I |-> Len(Listing) - j]
  <2>1. IsFiniteSet(I)
    <3>1. IsFiniteSet(1..Len(Listing))
      BY <1>1, FS_Interval
    <3> QED  BY <3>1, FS_Subset
  <2>2. \A j \in I : f[j] \in Nat /\ j \in Int /\ f[j] = Len(Listing) - j
    BY <1>1
  <2> HIDE DEF f, I
  <2>3. PICK i \in I : \A j \in I : f[j] <= f[i]
    BY <1>3, <2>1, <2>2, Greatest
  <2>4. \A j \in I : i <= j
    BY <1>1, <2>2, <2>3
  <2> QED  BY <2>4
<1>5. Min(I) \in I
  BY <1>4, Zenon DEF Min
<1>6. Deepest(S) = Listing[Min(I)]
  BY <1>3 DEF Deepest, SelectInSeq
<1> QED  BY <1>5, <1>6

LEMMA ExtendRank == ASSUME GraphInv, RankInv, Extend PROVE RankInv'
<1> DEFINE n == Len(route)
           deepest == Deepest(Onward)
<1>1. /\ job = "path" /\ job' = job /\ Onward # {} /\ route' = Append(route, deepest)
      /\ declares' = declares /\ rank' = rank
  BY DEF Extend
<1>2. /\ rank \in [Items -> Nat] /\ IsUnlocks(rank) /\ route \in Seq(Items)
      /\ Chain(route) /\ Descends(route) /\ declares \in [Items -> SUBSET Items]
  BY <1>1 DEF RankInv, GraphInv
<1>3. Onward \in SUBSET Items
  BY DEF Onward, Dependents
<1>4. deepest \in Onward /\ deepest \in Items /\ \A y \in Onward : rank[y] <= rank[deepest]
  BY <1>1, <1>3, DeepestIs
<1> HIDE DEF deepest
<1>5. /\ n \in Nat /\ route' \in Seq(Items) /\ Len(route') = n + 1 /\ route'[n + 1] = deepest
      /\ \A i \in 1..n : route'[i] = route[i]
      /\ route' # <<>>
  BY <1>1, <1>2, <1>4
<1>6. Chain(route') /\ Descends(route')
  <2>1. CASE route = <<>>
    <3>1. n = 0 /\ Onward = Items
      BY <2>1 DEF Onward
    <3> QED  BY <1>2, <1>4, <1>5, <3>1 DEF Chain, Descends
  <2>2. CASE route # <<>>
    <3> DEFINE last == route[n]
    <3>1. n \in 1..n /\ last \in Items /\ 1 \in 1..n /\ Onward = Dependents(last)
      BY <1>2, <2>2 DEF Onward
    <3>2. last \in declares[deepest]
      BY <1>4, <3>1 DEF Dependents
    <3>3. rank[last] = 1 + rank[deepest]
      <4>1. rank[last] = 1 + Max({0} \cup {rank[y] : y \in Dependents(last)})
        BY <1>2, <3>1 DEF IsUnlocks
      <4>2. IsFiniteSet(Dependents(last)) /\ \A y \in Dependents(last) : rank[y] \in Nat
        BY <1>2, <1>3, <3>1, ItemsAreFinite
      <4>3. Max({0} \cup {rank[y] : y \in Dependents(last)}) = rank[deepest]
        BY <1>4, <3>1, <4>2, HighestAt
      <4> QED  BY <4>1, <4>3
    <3>4. Chain(route')
      <4>1. \A i \in 1..n : i = n \/ (i \in 1..(n - 1) /\ i \in 1..n /\ i + 1 \in 1..n)
        BY <1>5
      <4>2. \A i \in 1..(n - 1) : route[i] \in declares[route[i + 1]]
        BY <1>2 DEF Chain
      <4>3. \A i \in 1..n : route'[i] \in declares[route'[i + 1]]
        BY <1>5, <3>1, <3>2, <4>1, <4>2
      <4>4. Len(route') - 1 = n
        BY <1>5
      <4> QED  BY <4>3, <4>4 DEF Chain
    <3>5. Descends(route')
      <4>1. /\ \A x \in Items : rank[x] <= rank[route[1]]
            /\ rank[last] + n = rank[route[1]] + 1
        BY <1>2, <2>2 DEF Descends
      <4>2. route'[1] = route[1] /\ route'[Len(route')] = deepest
        BY <1>5, <3>1
      <4>3. rank[deepest] \in Nat /\ rank[last] \in Nat /\ rank[route[1]] \in Nat
        BY <1>2, <1>4, <3>1
      <4>4. rank[deepest] + (n + 1) = rank[route[1]] + 1
        <5>1. \A a, b, c, m \in Nat : a = 1 + b /\ a + m = c + 1 => b + (m + 1) = c + 1
          OBVIOUS
        <5>2. n \in Nat
          BY <1>5
        <5> HIDE DEF n, last
        <5> QED  BY <3>3, <4>1, <4>3, <5>1, <5>2
      <4> QED  BY <1>5, <4>1, <4>2, <4>4 DEF Descends
    <3> QED  BY <3>4, <3>5
  <2> QED  BY <2>1, <2>2
<1>7. Chain(route)' /\ Descends(route)' /\ IsUnlocks(rank)'
  <2>1. Chain(route)'
    BY <1>1, <1>6 DEF Chain
  <2>2. Descends(route)'
    BY <1>1, <1>6 DEF Descends
  <2>3. IsUnlocks(rank)'
    BY <1>1, <1>2 DEF IsUnlocks, Dependents
  <2> QED  BY <2>1, <2>2, <2>3
<1> QED  BY <1>1, <1>2, <1>5, <1>7 DEF RankInv

(* The path ends where nothing waits any more: it is as long as the ranks   *)
(* are deep.                                                                *)
LEMMA ArriveRank == ASSUME GraphInv, RankInv, Arrive PROVE RankInv'
<1>1. /\ job = "path" /\ job' = "layers" /\ Onward = {} /\ route' = route
      /\ declares' = declares /\ rank' = Unranked /\ colour' = Unseen
  BY DEF Arrive
<1>2. /\ rank \in [Items -> Nat] /\ IsUnlocks(rank) /\ route \in Seq(Items)
      /\ Chain(route) /\ Descends(route)
  BY <1>1 DEF RankInv
<1>3. IsFiniteSet(Items) /\ \A x \in Items : rank[x] \in Nat
  BY <1>2, ItemsFinite
<1>4. Len(route) = Max({0} \cup {rank[x] : x \in Items})
  <2>1. CASE route = <<>>
    <3>1. Items = {} /\ Len(route) = 0
      BY <1>1, <2>1 DEF Onward
    <3>2. {0} \cup {rank[x] : x \in Items} = {0} /\ Max({0}) = 0
      BY <3>1, MaxIs
    <3> QED  BY <3>1, <3>2
  <2>2. CASE route # <<>>
    <3> DEFINE last == route[Len(route)]
    <3>1. /\ Len(route) \in Nat /\ last \in Items /\ route[1] \in Items
          /\ Dependents(last) = {}
      BY <1>1, <1>2, <2>2 DEF Onward
    <3>2. rank[last] = 1
      <4>1. rank[last] = 1 + Max({0} \cup {rank[y] : y \in Dependents(last)})
        BY <1>2, <3>1 DEF IsUnlocks
      <4>2. Max({0} \cup {rank[y] : y \in Dependents(last)}) = 0
        BY <3>1, HighestOfNone
      <4> QED  BY <4>1, <4>2
    <3>3. /\ \A x \in Items : rank[x] <= rank[route[1]]
          /\ rank[last] + Len(route) = rank[route[1]] + 1
      BY <1>2, <2>2 DEF Descends
    <3>4. Max({0} \cup {rank[x] : x \in Items}) = rank[route[1]]
      BY <1>3, <3>1, <3>3, HighestAt
    <3>5. rank[route[1]] \in Nat
      BY <1>3, <3>1
    <3> QED  BY <3>1, <3>2, <3>3, <3>4, <3>5
  <2> QED  BY <2>1, <2>2
<1>5. Black' = {}
  BY <1>1 DEF Black, Of, Unseen
<1>6. rank' \in [Items -> Nat]
  BY <1>1 DEF Unranked
<1>7. Chain(route)' /\ \E f : IsUnlocks(f)' /\ Len(route') = Max({0} \cup {f[x] : x \in Items})
  <2>1. Chain(route)'
    BY <1>1, <1>2 DEF Chain
  <2>2. \A f : IsUnlocks(f)' = IsUnlocks(f)
    BY <1>1, SameGraph
  <2>3. \E f : IsUnlocks(f) /\ Len(route) = Max({0} \cup {f[x] : x \in Items})
    BY <1>2, <1>4
  <2> QED  BY <1>1, <2>1, <2>2, <2>3
<1> QED  BY <1>1, <1>5, <1>6, <1>7 DEF RankInv

LEMMA RankStepInv == GraphInv /\ RankInv /\ [GraphNext]_graphVars => RankInv'
<1> SUFFICES ASSUME GraphInv, RankInv, [GraphNext]_graphVars PROVE RankInv'
  OBVIOUS
<1>1. CASE UNCHANGED graphVars
  BY <1>1, SameRank DEF graphVars, Black, Of
<1>2. CASE Name
  BY <1>2 DEF Name, RankInv
<1>3. CASE EnterFirst \/ Descend
  BY <1>3, EnterRank
<1>4. CASE Pass
  BY <1>4, SameRank DEF Pass, Black, Of
<1>5. CASE MeetGray
  BY <1>5 DEF MeetGray, RankInv
<1> QED
  BY <1>1, <1>2, <1>3, <1>4, <1>5, LeaveRank, OverRank, ExtendRank, ArriveRank DEF GraphNext

(* Whatever the plan, the depths that rank the waves of a drive are the      *)
(* lengths of the longest chains of what waits, the critical path is such a  *)
(* chain, and the layers are the longest waits (criticalDepthMap,            *)
(* criticalPath, topoLayers): the walk's result satisfies the recursive      *)
(* definition, and an order leaves the definition one solution only.         *)
THEOREM RanksAreRight == GraphSpec => []RanksAreLongest
<1>1. GraphInv /\ RankInv => RanksAreLongest
  <2> SUFFICES ASSUME GraphInv, RankInv PROVE RanksAreLongest
    OBVIOUS
  <2>1. job \in {"path", "layers", "done"} =>
          Orderable /\ declares \in [Items -> SUBSET Items]
    BY DEF GraphInv, Accepted, Walks, Ends
  <2>2. \A f : IsUnlocks(f) /\ job \in {"path", "layers"} => f = Unlocks
    <3> SUFFICES ASSUME NEW f, IsUnlocks(f), job \in {"path", "layers"} PROVE f = Unlocks
      OBVIOUS
    <3>1. IsUnlocks(Unlocks)
      BY UnlocksIs
    <3> QED  BY <2>1, <3>1, UnlocksUnique
  <2>3. job = "done" => rank = Waits
    <3> SUFFICES ASSUME job = "done" PROVE rank = Waits
      OBVIOUS
    <3>1. IsWaits(rank)
      BY DEF RankInv
    <3>2. IsWaits(Waits)
      BY <3>1, WaitsIs
    <3> QED  BY <2>1, <3>1, <3>2, WaitsUnique
  <2>4. job = "path" => rank = Unlocks
    BY <2>2 DEF RankInv
  <2>5. ASSUME job = "layers"
        PROVE  Chain(route) /\ Len(route) = Max({0} \cup {Unlocks[x] : x \in Items})
    <3>1. PICK f : IsUnlocks(f) /\ Len(route) = Max({0} \cup {f[x] : x \in Items})
      BY <2>5 DEF RankInv
    <3>2. f = Unlocks
      BY <2>2, <2>5, <3>1
    <3> QED  BY <2>5, <3>1, <3>2 DEF RankInv
  <2> QED  BY <2>3, <2>4, <2>5 DEF RanksAreLongest, Chain
<1>2. GraphInit => GraphInv /\ RankInv
  BY GraphInitInv, GraphInitRank
<1>3. GraphInv /\ RankInv /\ [GraphNext]_graphVars => (GraphInv /\ RankInv)'
  BY GraphStepInv, RankStepInv
<1> QED
  BY <1>1, <1>2, <1>3, PTL DEF GraphSpec

-----------------------------------------------------------------------------
(* The drive: its inductive invariant. *)

(* Where a run is: not begun or over, on the way to its first segment, or in *)
(* a segment (wave) that was dispatched.                                     *)
Ended == {"idle", "cleanup", "end"}
Starting == {"acquire", "assemble", "subject"}
Waves == {"running", "merge", "spend", "release", "judge"}
InWaves == d.pc \in Waves \cup {"gate"}

Goals == [id : 1..MaxGoals, status : {"executing", "done"}, done : SUBSET Steps,
          claim : [Steps -> 0..MaxRuns], subjects : SUBSET Trees]
Worktrees == [on : BOOLEAN, branch : BOOLEAN, commits : SUBSET Commits]
Processes(signature) ==
  [run : 0..MaxRuns, n : {0, 1, Workers}, id : 0..MaxGoals, pc : Stages, lease : BOOLEAN,
   wave : 0..MaxSegments, at : 1..Workers + 1, ready : SUBSET Team,
   group : [Team -> SUBSET Steps], sess : [Team -> {"off", "on", "ok", "bad"}],
   release : SUBSET Steps, streak : Nat, seen : Goals, sig : {signature}, out : Outcomes, renewed : BOOLEAN]

Types ==
  /\ goal \in Goals
  /\ host \in SUBSET Commits
  /\ dirty \in SUBSET (Trees \cup {Host})
  /\ tree \in [Trees -> Worktrees]
  /\ d \in Processes(d.sig)
  /\ idle \in Nat /\ faults \in 0..MaxFaults
  /\ credit \in [Steps -> (0..MaxRuns) \X (0..Workers)]

StagesOk ==
  /\ d.pc \in {"assemble", "subject", "merge", "release", "cleanup"} => Fast
  /\ d.pc = "subject" => d.at \in Team
  /\ d.pc = "acquire" => d.at = 1
  /\ d.pc # "idle" => d.run # 0
  /\ d.run = 0 => goal.status = "executing"
  /\ d.out # "none" => d.pc \in Ended
  /\ Fast /\ d.pc \notin Ended => goal.status = "executing"
  /\ d.id <= goal.id

(* The workers' trees stand while there are workers; what is not committed  *)
(* lies in trees that stand, and none of it is this run's before it starts. *)
TreesOk ==
  /\ d.pc \in {"assemble", "subject"} =>
       \A i \in Team : i < d.at \/ (d.pc = "subject" /\ i = d.at) => tree[Tree(i)].on
  /\ Fast /\ InWaves => \A i \in Team : tree[Tree(i)].on
  /\ \A t \in dirty \ {Host} :
       tree[t].on /\ t[1] <= d.run /\ (d.pc \in Starting => t[1] # d.run)

(* Commits are of runs begun, and the host has those of a worker from the   *)
(* worker's own tree only.                                                   *)
CommitsOk ==
  /\ \A x \in host : x[1] <= d.run /\ (d.pc \in Starting => x[1] # d.run)
  /\ \A t \in Trees : \A x \in tree[t].commits :
       x[1] <= d.run /\ (d.pc \in Starting => x[1] # d.run)
  /\ Fast /\ InWaves =>
       /\ \A i \in Team : \A x \in tree[Tree(i)].commits : x[1] = d.run => x[2] = i
       /\ \A x \in host : x[1] = d.run => x[2] \in Team /\ x \in tree[Tree(x[2])].commits

(* A step this run did is in the host, or will be when the wave is merged,  *)
(* or the run ended without finishing the goal.                             *)
Awaited(s) ==
  LET i == credit[s][2] IN
  /\ Fast /\ d.pc \in {"running", "merge"}
  /\ i \in Team /\ s \in d.group[i] /\ <<d.run, i, s>> \in tree[Tree(i)].commits
  /\ d.pc = "merge" => d.at <= i
Safe(s) ==
  \/ <<d.run, credit[s][2], s>> \in host
  \/ d.pc \in Ended /\ goal.status = "executing"
  \/ Awaited(s)
CreditOk ==
  \A s \in Steps :
    /\ credit[s][1] <= d.run /\ (d.pc \in Starting => credit[s][1] # d.run)
    /\ d.run # 0 /\ credit[s][1] = d.run => Safe(s)

(* The goal in the slot is the one the run was started on. *)
SameGoal == goal.id = d.id /\ ~d.renewed

SubjectsOk ==
  /\ \A t \in goal.subjects : t[1] <= d.run /\ (t[1] = d.run => goal.id = d.id)
  /\ d.pc \in {"assemble", "subject"} /\ SameGoal =>
       \A i \in Team : i < d.at => Tree(i) \in goal.subjects
  /\ Fast /\ InWaves /\ SameGoal => \A i \in Team : Tree(i) \in goal.subjects

(* The signature a wave is compared with: it was taken of the host as it    *)
(* was, and of the goal the run is for, unless that is gone since.          *)
SignatureOk ==
  /\ d.pc \in Starting => d.seen.id = d.id /\ (SameGoal => goal.done = d.seen.done)
  /\ d.pc \in {"assemble", "subject"} => d.wave = 1
  /\ InWaves =>
       /\ d.sig[1] \in Nat
       /\ d.sig[2][1] \subseteq host
       /\ SameGoal => d.sig[1] <= Cardinality(goal.done)
       /\ d.wave = 1 => \A x \in d.sig[2][1] : x[1] # d.run
       /\ Fast /\ d.wave > 1 /\ ~d.renewed /\ (goal.id = d.id \/ d.pc \in Waves) =>
            Tree(1) \in DOMAIN d.sig[2][2]
       /\ d.wave >= 1

(* What will tell the signature after this wave from the one before it.      *)
NewWork == \E x \in host : x \notin d.sig[2][1]
NewBranch ==
  /\ Fast /\ d.pc \in {"running", "merge"}
  /\ \E i \in Team :
       /\ d.group[i] # {} /\ (d.pc = "merge" => d.at <= i)
       /\ \E x \in tree[Tree(i)].commits : x \notin d.sig[2][1]
NewState ==
  /\ Fast => d.wave > 1
  /\ goal.id = d.id => d.sig[1] < Cardinality(goal.done)
Moved == NewWork \/ NewBranch \/ NewState

IdleOk ==
  /\ d.pc \in Starting => d.streak = 0
  /\ d.pc = "gate" => d.streak <= idle \/ d.renewed
  /\ d.pc \in Waves => d.streak < idle \/ Moved \/ d.renewed
  /\ d.out = "stuck" => idle >= StuckLimit \/ d.renewed

DriveInv ==
  /\ Types /\ StagesOk /\ TreesOk /\ CommitsOk /\ CreditOk /\ SubjectsOk /\ SignatureOk /\ IdleOk

(* What a step of the process leaves as it is. *)
SameRun == d'.run = d.run /\ d'.n = d.n /\ d'.id = d.id /\ d'.renewed = d.renewed
SameWave ==
  /\ SameRun /\ d'.wave = d.wave /\ d'.group = d.group /\ d'.streak = d.streak
  /\ d'.seen = d.seen /\ d'.sig = d.sig /\ d'.out = d.out

LEMMA StagesAre ==
  /\ {"idle", "acquire", "assemble", "subject", "gate", "running", "merge", "spend",
      "release", "judge", "cleanup", "end"} \subseteq Stages
  /\ {"none", "ok", "stuck", "bad", "conflict", "taken"} = Outcomes
BY DEF Stages, Outcomes

LEMMA FreshGoalType == ASSUME NEW k \in 1..MaxGoals PROVE FreshGoal(k) \in Goals
BY BoundsAssumption DEF Goals, FreshGoal

LEMMA ProcessType ==
  ASSUME NEW run \in 0..MaxRuns, NEW n \in {0, 1, Workers}, NEW id \in 0..MaxGoals,
         NEW stage \in Stages
  PROVE  Process(run, n, id, stage) \in Processes(<<>>)
<1>1. PICK g \in Goals : g = FreshGoal(1)
  BY FreshGoalType, BoundsAssumption
<1>2. PICK group \in [Team -> SUBSET Steps] : group = [i \in Team |-> {}]
  OBVIOUS
<1>3. PICK sess \in [Team -> {"off", "on", "ok", "bad"}] : sess = [i \in Team |-> "off"]
  OBVIOUS
<1>4. Process(run, n, id, stage) =
        [run |-> run, n |-> n, id |-> id, pc |-> stage, lease |-> FALSE, wave |-> 0,
         at |-> 1, ready |-> {}, group |-> group, sess |-> sess, release |-> {},
         streak |-> 0, seen |-> g, sig |-> <<>>, out |-> "none", renewed |-> FALSE]
  BY <1>1, <1>2, <1>3 DEF Process
<1>5. 1 \in 1..Workers + 1 /\ 0 \in 0..MaxSegments /\ "none" \in Outcomes /\ 0 \in Nat
  BY PlanAssumption, BoundsAssumption DEF Outcomes
<1> HIDE <1>1, <1>2, <1>3
<1> QED  BY <1>4, <1>5 DEF Processes

LEMMA StopMove ==
  ASSUME Types, NEW kind \in Outcomes, Stop(kind)
  PROVE  /\ d' \in Processes(d'.sig) /\ SameRun
         /\ d'.pc = (IF kind \in Clean /\ Fast THEN "cleanup" ELSE "end")
         /\ d'.out = kind
<1>1. /\ d.run \in 0..MaxRuns /\ d.n \in {0, 1, Workers} /\ d.id \in 0..MaxGoals
      /\ d.lease \in BOOLEAN /\ d.ready \in SUBSET Team /\ d.renewed \in BOOLEAN
  BY DEF Types, Processes
<1>2. PICK stage \in Stages : stage = IF kind \in Clean /\ Fast THEN "cleanup" ELSE "end"
  BY DEF Stages
<1>3. PICK p \in Processes(<<>>) : p = Process(d.run, d.n, d.id, stage)
  BY <1>1, ProcessType
<1>4. d' = [p EXCEPT !.out = kind, !.lease = d.lease, !.ready = d.ready,
                      !.renewed = d.renewed]
  BY <1>2, <1>3 DEF Stop
<1>5. /\ d' \in Processes(<<>>) /\ d'.sig = <<>> /\ d'.run = p.run /\ d'.n = p.n
      /\ d'.id = p.id /\ d'.pc = p.pc /\ d'.out = kind /\ d'.renewed = d.renewed
  BY <1>1, <1>4 DEF Processes
<1>6. p.run = d.run /\ p.n = d.n /\ p.id = d.id /\ p.pc = stage
  BY <1>3 DEF Process
<1> QED  BY <1>2, <1>5, <1>6 DEF SameRun

LEMMA CleanupMove ==
  ASSUME Types, d.at \in d.ready, d' = [d EXCEPT !.at = d.at + 1]
  PROVE  d' \in Processes(d'.sig) /\ SameWave /\ d'.pc = d.pc /\ d'.ready = d.ready
<1>1. d \in Processes(d.sig) /\ d.at \in Team
  BY DEF Types, Processes
<1>2. d.at + 1 \in 1..Workers + 1
  BY <1>1, PlanAssumption DEF Team
<1> QED  BY <1>1, <1>2 DEF Processes, SameWave, SameRun

LEMMA CleanedUpMove ==
  ASSUME Types, d' = [d EXCEPT !.pc = "end"]
  PROVE  d' \in Processes(d'.sig) /\ SameWave /\ d'.pc = "end"
BY StagesAre DEF Types, Processes, SameWave, SameRun

LEMMA ReturnMove ==
  ASSUME Types, d' = [d EXCEPT !.pc = "idle", !.lease = FALSE, !.ready = {}]
  PROVE  d' \in Processes(d'.sig) /\ SameWave /\ d'.pc = "idle"
BY StagesAre DEF Types, Processes, SameWave, SameRun

LEMMA StartMove ==
  ASSUME Types, NEW n \in {1, Workers}, Start(n)
  PROVE  /\ d' \in Processes(d'.sig)
         /\ d'.run = d.run + 1 /\ d'.n = n /\ d'.id = goal.id /\ d'.pc = "acquire" /\ d'.at = 1
         /\ d'.streak = 0 /\ d'.seen = goal /\ d'.out = "none" /\ ~d'.renewed
<1>1. /\ d.run + 1 \in 0..MaxRuns /\ n \in {0, 1, Workers} /\ goal.id \in 0..MaxGoals
      /\ goal \in Goals /\ "acquire" \in Stages
  BY BoundsAssumption DEF Types, Processes, Goals, Start, Stages
<1>2. PICK p \in Processes(<<>>) : p = Process(d.run + 1, n, goal.id, "acquire")
  BY <1>1, ProcessType
<1>3. d' = [p EXCEPT !.seen = goal]
  BY <1>2 DEF Start
<1>4. /\ d' \in Processes(<<>>) /\ d'.sig = <<>> /\ d'.run = p.run /\ d'.n = p.n
      /\ d'.id = p.id /\ d'.pc = p.pc /\ d'.at = p.at /\ d'.streak = p.streak /\ d'.seen = goal
      /\ d'.out = p.out /\ d'.renewed = p.renewed
  BY <1>1, <1>3 DEF Processes
<1>5. /\ p.run = d.run + 1 /\ p.n = n /\ p.id = goal.id /\ p.pc = "acquire"
      /\ p.at = 1 /\ p.streak = 0 /\ p.out = "none" /\ ~p.renewed
  BY <1>2 DEF Process
<1> QED  BY <1>4, <1>5

LEMMA AcquireMove ==
  ASSUME Types, NEW stage \in Stages, NEW s,
         d' = [d EXCEPT !.lease = TRUE, !.pc = stage, !.wave = 1, !.sig = s]
  PROVE  /\ d' \in Processes(d'.sig) /\ SameRun /\ d'.pc = stage /\ d'.wave = 1
         /\ d'.sig = s /\ d'.at = d.at /\ d'.streak = d.streak /\ d'.seen = d.seen /\ d'.out = d.out
<1>1. d \in Processes(d.sig) /\ 1 \in 0..MaxSegments
  BY BoundsAssumption DEF Types
<1> QED  BY <1>1 DEF Processes, SameRun

LEMMA AddTreeMove ==
  ASSUME Types, d' = [d EXCEPT !.pc = "subject"]
  PROVE  d' \in Processes(d'.sig) /\ SameWave /\ d'.pc = "subject" /\ d'.at = d.at
BY StagesAre DEF Types, Processes, SameWave, SameRun

LEMMA AddSubjectMove ==
  ASSUME Types, d.at \in Team,
         d' = [d EXCEPT !.pc = "assemble", !.ready = @ \cup {d.at}, !.at = d.at + 1]
  PROVE  d' \in Processes(d'.sig) /\ SameWave /\ d'.pc = "assemble" /\ d'.at = d.at + 1
<1>1. d \in Processes(d.sig) /\ d.at + 1 \in 1..Workers + 1 /\ "assemble" \in Stages
  BY PlanAssumption, StagesAre DEF Types, Team
<1>2. d.ready \cup {d.at} \in SUBSET Team
  BY <1>1 DEF Processes
<1> QED  BY <1>1, <1>2 DEF Processes, SameWave, SameRun

LEMMA AssembledMove ==
  ASSUME Types, NEW s, d' = [d EXCEPT !.pc = "gate", !.sig = s]
  PROVE  /\ d' \in Processes(d'.sig) /\ SameRun /\ d'.pc = "gate" /\ d'.sig = s
         /\ d'.wave = d.wave /\ d'.streak = d.streak /\ d'.out = d.out
BY StagesAre DEF Types, Processes, SameRun

LEMMA DispatchMove ==
  ASSUME Types, NEW group \in [Team -> SUBSET Steps],
         NEW sess \in [Team -> {"off", "on", "ok", "bad"}],
         d' = [d EXCEPT !.pc = "running", !.group = group, !.sess = sess]
  PROVE  /\ d' \in Processes(d'.sig) /\ SameRun /\ d'.pc = "running" /\ d'.group = group
         /\ d'.wave = d.wave /\ d'.streak = d.streak /\ d'.sig = d.sig /\ d'.out = d.out
BY StagesAre DEF Types, Processes, SameRun

LEMMA SessionEndsMove ==
  ASSUME Types, NEW i \in Team, NEW r \in {"ok", "bad"}, d' = [d EXCEPT !.sess[i] = r]
  PROVE  d' \in Processes(d'.sig) /\ SameWave /\ d'.pc = d.pc /\ d'.at = d.at
BY DEF Types, Processes, SameWave, SameRun

LEMMA SettledMove ==
  ASSUME Types, NEW stage \in Stages, Settled(stage)
  PROVE  d' \in Processes(d'.sig) /\ SameWave /\ d'.pc = stage /\ d'.at = 1
<1>1. d \in Processes(d.sig) /\ 1 \in 1..Workers + 1
  BY PlanAssumption DEF Types
<1>2. PICK sess \in [Team -> {"off", "on", "ok", "bad"}] : sess = [i \in Team |-> "off"]
  OBVIOUS
<1>3. PICK left \in SUBSET Steps :
        left = IF Fast THEN {s \in Steps \ goal.done : goal.claim[s] >= d.run} ELSE {}
  OBVIOUS
<1>4. d' = [d EXCEPT !.pc = stage, !.at = 1, !.sess = sess, !.release = left]
  BY <1>2, <1>3 DEF Settled
<1> HIDE <1>2, <1>3
<1> QED  BY <1>1, <1>4 DEF Processes, SameWave, SameRun

LEMMA MergeMove ==
  ASSUME Types, d.at <= Workers, d' = [d EXCEPT !.at = d.at + 1]
  PROVE  d' \in Processes(d'.sig) /\ SameWave /\ d'.pc = d.pc /\ d'.at = d.at + 1
<1>1. d \in Processes(d.sig) /\ d.at \in 1..Workers + 1
  BY DEF Types, Processes
<1>2. d.at + 1 \in 1..Workers + 1
  BY <1>1, PlanAssumption
<1> QED  BY <1>1, <1>2 DEF Processes, SameWave, SameRun

LEMMA MergedMove ==
  ASSUME Types, d' = [d EXCEPT !.pc = "spend", !.at = 1, !.group = [i \in Team |-> {}]]
  PROVE  /\ d' \in Processes(d'.sig) /\ SameRun /\ d'.pc = "spend" /\ d'.wave = d.wave
         /\ d'.streak = d.streak /\ d'.sig = d.sig /\ d'.out = d.out
<1>1. d \in Processes(d.sig) /\ 1 \in 1..Workers + 1 /\ "spend" \in Stages
  BY PlanAssumption, StagesAre DEF Types
<1>2. PICK group \in [Team -> SUBSET Steps] : group = [i \in Team |-> {}]
  OBVIOUS
<1>3. d' = [d EXCEPT !.pc = "spend", !.at = 1, !.group = group]
  BY <1>2
<1> HIDE <1>2
<1> QED  BY <1>1, <1>3 DEF Processes, SameRun

LEMMA SpendMove ==
  ASSUME Types, NEW stage \in Stages, d' = [d EXCEPT !.pc = stage]
  PROVE  d' \in Processes(d'.sig) /\ SameWave /\ d'.pc = stage
BY DEF Types, Processes, SameWave, SameRun

LEMMA ReleaseMove ==
  ASSUME Types, d' = [d EXCEPT !.pc = "judge", !.release = {}]
  PROVE  d' \in Processes(d'.sig) /\ SameWave /\ d'.pc = "judge"
BY StagesAre DEF Types, Processes, SameWave, SameRun

LEMMA JudgeMove ==
  ASSUME Types, d.wave < MaxSegments, NEW k \in Nat, NEW s,
         d' = [d EXCEPT !.pc = "gate", !.wave = @ + 1, !.streak = k, !.sig = s]
  PROVE  /\ d' \in Processes(d'.sig) /\ SameRun /\ d'.pc = "gate" /\ d'.wave = d.wave + 1
         /\ d'.streak = k /\ d'.sig = s /\ d'.out = d.out
<1>1. d \in Processes(d.sig) /\ "gate" \in Stages
  BY StagesAre DEF Types
<1>2. PICK wave \in 0..MaxSegments : wave = d.wave + 1
  BY <1>1, BoundsAssumption DEF Processes
<1>3. d' = [d EXCEPT !.pc = "gate", !.wave = wave, !.streak = k, !.sig = s]
  BY <1>2
<1> HIDE <1>2
<1>4. d' \in Processes(d'.sig) /\ SameRun /\ d'.pc = "gate" /\ d'.wave = wave
         /\ d'.streak = k /\ d'.sig = s /\ d'.out = d.out
  BY <1>1, <1>3 DEF Processes, SameRun
<1> QED  BY <1>2, <1>4

LEMMA KillMove ==
  ASSUME Types, d' = [Process(d.run, d.n, d.id, "idle") EXCEPT !.renewed = d.renewed]
  PROVE  d' \in Processes(d'.sig) /\ SameRun /\ d'.pc = "idle" /\ d'.out = "none"
<1>1. PICK p \in Processes(<<>>) : p = Process(d.run, d.n, d.id, "idle")
  BY ProcessType, StagesAre DEF Types, Processes
<1>2. d.renewed \in BOOLEAN
  BY DEF Types, Processes
<1>3. p.run = d.run /\ p.n = d.n /\ p.id = d.id /\ p.pc = "idle" /\ p.out = "none"
  BY <1>1 DEF Process
<1>4. /\ d' \in Processes(<<>>) /\ d'.sig = <<>> /\ d'.run = p.run /\ d'.n = p.n
      /\ d'.id = p.id /\ d'.pc = p.pc /\ d'.out = p.out /\ d'.renewed = d.renewed
  BY <1>1, <1>2 DEF Processes
<1> QED  BY <1>3, <1>4 DEF SameRun

LEMMA LoseLeaseMove ==
  ASSUME Types, d' = [d EXCEPT !.lease = FALSE]
  PROVE  /\ d' \in Processes(d'.sig) /\ SameWave /\ d'.pc = d.pc /\ d'.at = d.at
         /\ d'.ready = d.ready
BY DEF Types, Processes, SameWave, SameRun

-----------------------------------------------------------------------------
(* The steps: ending. *)

(* A goal that is done has what this run did of it in the host. *)
LEMMA DoneIsMerged ==
  DriveInv /\ goal.status = "done" /\ d.run # 0 =>
    \A s \in Steps : credit[s][1] = d.run => <<d.run, credit[s][2], s>> \in host
<1> SUFFICES ASSUME DriveInv, goal.status = "done", d.run # 0, NEW s \in Steps,
                    credit[s][1] = d.run
             PROVE  <<d.run, credit[s][2], s>> \in host
  OBVIOUS
<1>1. Safe(s)
  BY DEF DriveInv, CreditOk
<1>2. ~Awaited(s)
  BY DEF DriveInv, StagesOk, Awaited, Ended
<1> QED  BY <1>1, <1>2 DEF Safe

LEMMA StopKeeps ==
  ASSUME DriveInv, d.pc \notin Ended,
         NEW kind \in Outcomes, Stop(kind), kind = "stuck" => idle >= StuckLimit \/ d.renewed,
         goal' \in Goals, goal'.id = goal.id, goal'.subjects \subseteq goal.subjects,
         goal'.status = "done" =>
           \A s \in Steps : credit[s][1] = d.run => <<d.run, credit[s][2], s>> \in host,
         tree' \in [Trees -> Worktrees],
         \A t \in Trees : tree'[t].commits = tree[t].commits,
         \A t \in dirty \ {Host} : tree'[t].on,
         faults' \in 0..MaxFaults, UNCHANGED <<host, dirty, idle, credit>>
  PROVE  DriveInv'
<1>1. /\ d' \in Processes(d'.sig) /\ SameRun /\ d'.pc \in Ended \ {"idle"} /\ d'.out = kind
      /\ d'.pc = "cleanup" => Fast'
  BY StopMove DEF DriveInv, SameRun, Ended, Fast
<1>2. Types'
  BY <1>1 DEF DriveInv, Types
<1>3. d'.run # 0 /\ d'.pc \notin Starting /\ ~InWaves'
  BY <1>1 DEF DriveInv, StagesOk, Starting, InWaves, Waves, Ended, SameRun
<1>4. StagesOk'
  BY <1>1, <1>3 DEF DriveInv, StagesOk, Ended, SameRun
<1>5. TreesOk'
  BY <1>1, <1>3 DEF DriveInv, TreesOk, Ended, SameRun
<1>6. CommitsOk'
  BY <1>1, <1>3 DEF DriveInv, CommitsOk, SameRun
<1>7. CreditOk'
  <2>1. ASSUME NEW s \in Steps, credit[s][1] = d.run
        PROVE  Safe(s)'
    <3>1. goal'.status \in {"executing", "done"}
      BY DEF Goals
    <3> QED  BY <1>1, <2>1, <3>1 DEF Safe, SameRun
  <2> QED  BY <1>1, <1>3, <2>1 DEF DriveInv, CreditOk, SameRun
<1>8. SubjectsOk'
  BY <1>1, <1>3 DEF DriveInv, SubjectsOk, SameGoal, Ended, SameRun
<1>9. SignatureOk'
  BY <1>1, <1>3 DEF SignatureOk, SameGoal, Ended
<1>10. IdleOk'
  BY <1>1, <1>3 DEF IdleOk, InWaves, Ended, SameRun
<1> QED  BY <1>2, <1>4, <1>5, <1>6, <1>7, <1>8, <1>9, <1>10 DEF DriveInv

(* The same, when the goal and the trees stay. *)
LEMMA StopOnly ==
  ASSUME DriveInv, d.pc \notin Ended,
         NEW kind \in Outcomes, Stop(kind), kind = "stuck" => idle >= StuckLimit \/ d.renewed,
         UNCHANGED <<goal, host, dirty, tree, idle, credit, faults>>
  PROVE  DriveInv'
<1>1. d.run # 0
  BY DEF DriveInv, StagesOk, Ended
<1>2. goal \in Goals /\ tree \in [Trees -> Worktrees] /\ faults \in 0..MaxFaults
  BY DEF DriveInv, Types
<1>3. \A t \in dirty \ {Host} : tree[t].on
  BY DEF DriveInv, TreesOk
<1> QED  BY <1>1, <1>2, <1>3, DoneIsMerged, StopKeeps

LEMMA CleanupKeeps == DriveInv /\ Cleanup => DriveInv'
<1> SUFFICES ASSUME DriveInv, Cleanup PROVE DriveInv'
  OBVIOUS
<1>1. Types /\ d.pc = "cleanup" /\ d.at \in d.ready /\ d.ready \in SUBSET Team
  BY DEF DriveInv, Cleanup, Types, Processes
<1>2. d' \in Processes(d'.sig) /\ SameWave /\ d'.pc = "cleanup"
  BY <1>1, CleanupMove DEF Cleanup
<1>3. Tree(d.at) \in Trees
  BY <1>1 DEF Tree, Trees, Team, Types, Processes, DriveInv, StagesOk
<1>4. /\ tree' \in [Trees -> Worktrees]
      /\ \A t \in Trees : tree'[t].commits = tree[t].commits
      /\ \A t \in dirty \ {Host} : tree'[t].on = tree[t].on
  <2>1. Dropped(Tree(d.at)) \in Worktrees /\ Dropped(Tree(d.at)).commits = tree[Tree(d.at)].commits
    BY <1>1, <1>3 DEF Dropped, Worktrees, Types, Unmerged
  <2>2. CASE Removable(Tree(d.at))
    <3>1. tree' = [tree EXCEPT ![Tree(d.at)] = Dropped(Tree(d.at))]
      BY <2>2 DEF Cleanup
    <3> QED  BY <1>1, <1>3, <2>1, <2>2, <3>1 DEF Types, Removable, Trees
  <2>3. CASE ~Removable(Tree(d.at))
    BY <2>3, <1>1 DEF Cleanup, Types
  <2> QED  BY <2>2, <2>3
<1>5. /\ goal' \in Goals /\ goal'.id = goal.id /\ goal'.status = goal.status
      /\ goal'.subjects \subseteq goal.subjects
  BY <1>1 DEF Cleanup, Types, Goals, Fault
<1>6. dirty' \subseteq dirty /\ UNCHANGED <<host, idle, credit>> /\ faults' \in 0..MaxFaults
  BY <1>1, BoundsAssumption DEF Cleanup, Types, Fault
<1>7. Types'
  BY <1>1, <1>2, <1>4, <1>5, <1>6 DEF Types
<1>8. d'.pc \notin Starting /\ ~InWaves' /\ d'.pc \in Ended
  BY <1>2 DEF Starting, InWaves, Waves, Ended
<1>9. StagesOk'
  BY <1>1, <1>2, <1>5, <1>8 DEF DriveInv, StagesOk, SameWave, SameRun, Fast, Ended
<1>10. TreesOk'
  BY <1>2, <1>4, <1>6, <1>8 DEF DriveInv, TreesOk, SameWave, SameRun
<1>11. CommitsOk'
  BY <1>2, <1>4, <1>6, <1>8 DEF DriveInv, CommitsOk, SameWave, SameRun
<1>12. CreditOk'
  <2>1. ASSUME NEW s \in Steps, credit[s][1] = d.run, d.run # 0
        PROVE  Safe(s)'
    <3>1. Safe(s) /\ ~Awaited(s)
      BY <1>1, <2>1 DEF DriveInv, CreditOk, Awaited
    <3> QED  BY <1>2, <1>5, <1>6, <1>8, <3>1 DEF Safe, SameWave, SameRun
  <2> QED  BY <1>2, <1>6, <1>8, <2>1 DEF DriveInv, CreditOk, SameWave, SameRun
<1>13. SubjectsOk'
  BY <1>2, <1>5, <1>8 DEF DriveInv, SubjectsOk, SameGoal, SameWave, SameRun
<1>14. SignatureOk'
  BY <1>2, <1>8 DEF SignatureOk, SameGoal
<1>15. IdleOk'
  BY <1>2, <1>6, <1>8 DEF DriveInv, IdleOk, SameWave, SameRun, InWaves
<1> QED  BY <1>7, <1>9, <1>10, <1>11, <1>12, <1>13, <1>14, <1>15 DEF DriveInv

(* The process comes to rest, or is killed. *)
LEMMA RestKeeps ==
  ASSUME DriveInv, d.pc # "idle", d' \in Processes(d'.sig), SameRun,
         d'.pc \in {"end", "idle"},
         d'.out = "none" \/ d'.out = d.out,
         UNCHANGED <<goal, host, dirty, tree, idle, credit>>, faults' \in 0..MaxFaults
  PROVE  DriveInv'
<1>1. d'.pc \notin Starting /\ ~InWaves' /\ d'.pc \in Ended /\ d.run # 0
  BY DEF Starting, InWaves, Waves, Ended, DriveInv, StagesOk
<1>2. Types'
  BY DEF DriveInv, Types
<1>3. StagesOk' /\ SignatureOk'
  BY <1>1 DEF DriveInv, StagesOk, SignatureOk, SameGoal, SameRun, Ended
<1>4. TreesOk' /\ SubjectsOk'
  BY <1>1 DEF DriveInv, TreesOk, SubjectsOk, SameGoal, SameRun
<1>5. CommitsOk'
  BY <1>1 DEF DriveInv, CommitsOk, SameRun
<1>6. CreditOk'
  <2>1. ASSUME NEW s \in Steps, credit[s][1] = d.run
        PROVE  Safe(s)'
    <3>1. goal.status \in {"executing", "done"}
      BY DEF DriveInv, Types, Goals
    <3>2. goal.status = "done" => <<d.run, credit[s][2], s>> \in host
      BY <1>1, <2>1, DoneIsMerged
    <3> QED  BY <1>1, <3>1, <3>2 DEF Safe, SameRun
  <2> QED  BY <1>1, <2>1 DEF DriveInv, CreditOk, SameRun
<1>7. IdleOk'
  BY <1>1 DEF DriveInv, IdleOk, InWaves, SameRun
<1> QED  BY <1>2, <1>3, <1>4, <1>5, <1>6, <1>7 DEF DriveInv

LEMMA CleanedUpKeeps == DriveInv /\ CleanedUp => DriveInv'
BY CleanedUpMove, RestKeeps DEF CleanedUp, DriveInv, Types, SameWave

LEMMA ReturnKeeps == DriveInv /\ Return => DriveInv'
BY ReturnMove, RestKeeps DEF Return, DriveInv, Types, SameWave

LEMMA KillKeeps == DriveInv /\ Kill => DriveInv'
<1> SUFFICES ASSUME DriveInv, Kill PROVE DriveInv'
  OBVIOUS
<1>1. faults' \in 0..MaxFaults
  BY BoundsAssumption DEF Kill, Fault, DriveInv, Types
<1>2. d' \in Processes(d'.sig) /\ SameRun /\ d'.pc = "idle" /\ d'.out = "none"
  BY KillMove DEF Kill, DriveInv
<1> QED  BY <1>1, <1>2, RestKeeps DEF Kill

-----------------------------------------------------------------------------
(* The steps: starting. *)

LEMMA StartKeeps == ASSUME NEW n \in {1, Workers}, DriveInv, Start(n) PROVE DriveInv'
<1>1. /\ d' \in Processes(d'.sig)
      /\ d'.run = d.run + 1 /\ d'.n = n /\ d'.id = goal.id /\ d'.pc = "acquire" /\ d'.at = 1
      /\ d'.streak = 0 /\ d'.seen = goal /\ d'.out = "none"
  BY StartMove DEF DriveInv
<1>2. /\ UNCHANGED <<goal, host, dirty, tree, credit, faults>> /\ idle' = 0
      /\ goal.status = "executing" /\ goal.id \in Nat
  BY BoundsAssumption DEF Start, DriveInv, Types, Goals
<1>3. d.run \in Nat
  BY BoundsAssumption DEF DriveInv, Types, Processes
<1>4. ~InWaves' /\ d'.pc \in Starting
  BY <1>1 DEF InWaves, Waves, Starting
<1>5. Types'
  BY <1>1, <1>2 DEF DriveInv, Types
<1>6. StagesOk' /\ SignatureOk'
  BY <1>1, <1>2, <1>3, <1>4 DEF StagesOk, SignatureOk, SameGoal
<1>7. TreesOk'
  <2>1. \A t \in dirty \ {Host} : tree[t].on /\ t[1] <= d.run /\ t[1] \in Nat
    BY DEF DriveInv, Types, TreesOk, Trees
  <2> QED  BY <1>1, <1>2, <1>3, <1>4, <2>1 DEF TreesOk
<1>8. CommitsOk'
  <2>1. \A x \in host : x[1] <= d.run /\ x[1] \in Nat
    BY DEF DriveInv, Types, CommitsOk, Commits
  <2>2. \A t \in Trees : \A x \in tree[t].commits : x[1] <= d.run /\ x[1] \in Nat
    BY DEF DriveInv, Types, CommitsOk, Commits, Worktrees
  <2> QED  BY <1>1, <1>2, <1>3, <1>4, <2>1, <2>2 DEF CommitsOk
<1>9. CreditOk'
  <2>1. \A s \in Steps : credit[s][1] <= d.run /\ credit[s][1] \in Nat
    BY DEF DriveInv, Types, CreditOk
  <2> QED  BY <1>1, <1>2, <1>3, <1>4, <2>1 DEF CreditOk
<1>10. SubjectsOk'
  <2>1. \A t \in goal.subjects : t[1] <= d.run /\ t[1] \in Nat
    BY DEF DriveInv, Types, SubjectsOk, SameGoal, Goals, Trees
  <2> QED  BY <1>1, <1>2, <1>3, <1>4, <2>1 DEF SubjectsOk, SameGoal
<1>11. IdleOk'
  BY <1>1 DEF IdleOk, Waves, Starting
<1> QED  BY <1>5, <1>6, <1>7, <1>8, <1>9, <1>10, <1>11 DEF DriveInv

LEMMA StepsFinite ==
  /\ IsFiniteSet(Steps)
  /\ \A S \in SUBSET Steps : IsFiniteSet(S) /\ Cardinality(S) \in Nat
<1>1. Plan \in Surjection(1..Len(Plan), Steps) /\ Len(Plan) \in Nat
  BY PlanAssumption DEF Steps, ToSet, Surjection
<1>2. IsFiniteSet(1..Len(Plan))
  BY <1>1, FS_Interval
<1>3. IsFiniteSet(Steps)
  BY <1>1, <1>2, FS_Surjection
<1> QED  BY <1>3, FS_Subset, FS_CardinalityType

LEMMA SignatureIs ==
  ASSUME NEW g
  PROVE  /\ Signature(g)[1] = Cardinality(g.done) /\ Signature(g)[2][1] = host
         /\ DOMAIN Signature(g)[2][2] = g.subjects
BY DEF Signature, Heads

LEMMA SeenCount ==
  ASSUME Types PROVE Cardinality(d.seen.done) \in Nat /\ Cardinality(goal.done) \in Nat
<1>1. d.seen.done \in SUBSET Steps /\ goal.done \in SUBSET Steps
  BY DEF Types, Processes, Goals
<1> QED  BY <1>1, StepsFinite

LEMMA PrunedTree ==
  ASSUME Types, NEW t \in Trees
  PROVE  /\ Pruned(t) \in Worktrees /\ Pruned(t).commits = tree[t].commits
         /\ t[1] = d.run \/ t \in dirty => Pruned(t).on = tree[t].on
<1>1. /\ Reclaimed(t) \in Worktrees /\ Reclaimed(t).commits = tree[t].commits
      /\ t[1] = d.run \/ t \in dirty => Reclaimed(t).on = tree[t].on
  BY DEF Reclaimed, Types, Worktrees, Stale
<1>2. PICK b \in BOOLEAN : b = (Reclaimed(t).branch /\ (Reclaimed(t).on \/ Unmerged(t)))
  BY <1>1 DEF Worktrees
<1>3. Pruned(t) = [Reclaimed(t) EXCEPT !.branch = b]
  BY <1>2 DEF Pruned
<1> QED  BY <1>1, <1>3 DEF Worktrees

LEMMA AcquireKeeps == DriveInv /\ Acquire => DriveInv'
<1> SUFFICES ASSUME DriveInv, Acquire PROVE DriveInv'
  OBVIOUS
<1>1. Types /\ d.pc = "acquire" /\ d.at = 1 /\ UNCHANGED <<goal, host, idle, credit, faults>>
  BY DEF DriveInv, Acquire, StagesOk
<1>2. /\ tree' \in [Trees -> Worktrees]
      /\ \A t \in Trees : tree'[t].commits = tree[t].commits
  BY <1>1, PrunedTree DEF Acquire, Types
<1>3. dirty' \subseteq dirty /\ \A t \in dirty' \ {Host} : tree'[t].on
  BY DEF Acquire
<1>4. PICK stage \in Stages : stage = IF Fast THEN "assemble" ELSE "gate"
  BY StagesAre
<1>5. PICK s : s = IF Fast THEN <<>> ELSE Signature(d.seen)
  OBVIOUS
<1>6. /\ d' \in Processes(d'.sig) /\ SameRun /\ d'.pc = stage /\ d'.wave = 1
      /\ d'.sig = s /\ d'.at = 1 /\ d'.streak = d.streak /\ d'.seen = d.seen /\ d'.out = d.out
  <2>1. d' = [d EXCEPT !.lease = TRUE, !.pc = stage, !.wave = 1, !.sig = s]
    BY <1>4, <1>5 DEF Acquire
  <2> QED  BY <1>1, <2>1, AcquireMove
<1>7. /\ d.pc \in Starting /\ Fast' = Fast /\ ~(Fast /\ InWaves')
      /\ Fast => d'.pc = "assemble"
      /\ ~Fast => d'.pc = "gate"
  BY <1>1, <1>4, <1>6 DEF Starting, Fast, SameRun, InWaves, Waves
<1>8. Types'
  BY <1>1, <1>2, <1>3, <1>6 DEF Types
<1>9. StagesOk'
  BY <1>1, <1>6, <1>7 DEF DriveInv, StagesOk, SameRun, Ended
<1>10. TreesOk'
  <2>1. \A i \in Team : ~(i < d'.at) /\ d'.pc # "subject"
    BY <1>6, <1>7 DEF Team
  <2>2. \A t \in dirty' \ {Host} : t[1] <= d'.run /\ t[1] # d'.run
    BY <1>3, <1>6, <1>7 DEF DriveInv, TreesOk, SameRun
  <2> QED  BY <1>3, <1>7, <2>1, <2>2 DEF TreesOk
<1>11. CommitsOk'
  BY <1>1, <1>2, <1>6, <1>7 DEF DriveInv, CommitsOk, SameRun
<1>12. CreditOk'
  BY <1>1, <1>6, <1>7 DEF DriveInv, CreditOk, SameRun
<1>13. SubjectsOk'
  <2>1. \A i \in Team : ~(i < d'.at)
    BY <1>6 DEF Team
  <2> QED  BY <1>1, <1>6, <1>7, <2>1 DEF DriveInv, SubjectsOk, SameGoal, SameRun
<1>14. SignatureOk'
  <2>1. CASE Fast
    BY <2>1, <1>1, <1>6, <1>7 DEF DriveInv, SignatureOk, SameGoal, SameRun, InWaves, Waves, Starting
  <2>2. CASE ~Fast
    <3>1. /\ d.sig'[1] = Cardinality(d.seen.done) /\ d.sig'[2][1] = host
          /\ Cardinality(d.seen.done) \in Nat
      BY <2>2, <1>1, <1>5, <1>6, SignatureIs, SeenCount
    <3>2. SameGoal => Cardinality(d.seen.done) = Cardinality(goal.done)
      BY <1>7 DEF DriveInv, SignatureOk, SameGoal
    <3>3. \A x \in host : x[1] # d.run
      BY <1>7 DEF DriveInv, CommitsOk
    <3> QED  BY <2>2, <1>1, <1>6, <1>7, <3>1, <3>2, <3>3 DEF SignatureOk, SameGoal, SameRun, Starting
  <2> QED  BY <2>1, <2>2
<1>15. IdleOk'
  <2>1. d.streak = 0 /\ idle \in Nat
    BY <1>7 DEF DriveInv, IdleOk, Types
  <2> QED  BY <1>1, <1>6, <1>7, <2>1 DEF DriveInv, IdleOk, StagesOk, Waves, Ended
<1> QED  BY <1>8, <1>9, <1>10, <1>11, <1>12, <1>13, <1>14, <1>15 DEF DriveInv

LEMMA AddTreeKeeps == DriveInv /\ AddTree => DriveInv'
<1> SUFFICES ASSUME DriveInv, AddTree PROVE DriveInv'
  OBVIOUS
<1>1. /\ Types /\ d.pc = "assemble" /\ d.at \in Team /\ Fast
      /\ UNCHANGED <<goal, host, dirty, idle, credit, faults>>
  BY DEF DriveInv, AddTree, StagesOk
<1>2. d' \in Processes(d'.sig) /\ SameWave /\ d'.pc = "subject" /\ d'.at = d.at
  BY AddTreeMove DEF DriveInv, AddTree
<1>3. /\ Tree(d.at) \in Trees
      /\ tree' = [tree EXCEPT ![Tree(d.at)] = [on |-> TRUE, branch |-> TRUE, commits |-> host]]
  BY <1>1 DEF AddTree, Tree, Trees, Types, Processes, DriveInv, StagesOk
<1>4. /\ tree' \in [Trees -> Worktrees]
      /\ tree'[Tree(d.at)].on /\ tree'[Tree(d.at)].commits = host
      /\ \A t \in Trees \ {Tree(d.at)} : tree'[t] = tree[t]
  BY <1>1, <1>3 DEF Types, Worktrees
<1>5. ~InWaves' /\ d'.pc \in Starting /\ d.pc \in Starting /\ Fast'
  BY <1>1, <1>2 DEF InWaves, Waves, Starting, SameWave, SameRun, Fast
<1>6. Types'
  BY <1>1, <1>2, <1>4 DEF Types
<1>7. StagesOk'
  BY <1>1, <1>2, <1>5 DEF DriveInv, StagesOk, SameWave, SameRun, Ended
<1>8. TreesOk'
  <2>1. \A i \in Team : i < d.at \/ i = d.at => tree'[Tree(i)].on
    <3>1. \A i \in Team : Tree(i) \in Trees /\ (i # d.at => Tree(i) # Tree(d.at))
      BY <1>1 DEF Tree, Trees, Types, Processes, DriveInv, StagesOk
    <3> QED  BY <1>1, <1>4, <3>1 DEF DriveInv, TreesOk
  <2>2. \A t \in dirty \ {Host} : tree'[t].on
    BY <1>1, <1>4 DEF DriveInv, TreesOk, Types
  <2> QED  BY <1>1, <1>2, <1>5, <2>1, <2>2 DEF DriveInv, TreesOk, SameWave, SameRun, Tree
<1>9. CommitsOk'
  BY <1>1, <1>2, <1>4, <1>5 DEF DriveInv, CommitsOk, SameWave, SameRun
<1>10. CreditOk'
  BY <1>1, <1>2, <1>5 DEF DriveInv, CreditOk, SameWave, SameRun
<1>11. SubjectsOk'
  BY <1>1, <1>2, <1>5 DEF DriveInv, SubjectsOk, SameGoal, SameWave, SameRun, Tree
<1>12. SignatureOk'
  BY <1>1, <1>2, <1>5 DEF DriveInv, SignatureOk, SameGoal, SameWave, SameRun
<1>13. IdleOk'
  BY <1>1, <1>2, <1>5 DEF DriveInv, IdleOk, SameWave, SameRun, Waves
<1> QED  BY <1>6, <1>7, <1>8, <1>9, <1>10, <1>11, <1>12, <1>13 DEF DriveInv

LEMMA AddSubjectKeeps == DriveInv /\ AddSubject => DriveInv'
<1> SUFFICES ASSUME DriveInv, AddSubject PROVE DriveInv'
  OBVIOUS
<1>1. /\ Types /\ d.pc = "subject" /\ d.at \in Team /\ Fast /\ goal.id = d.id
      /\ UNCHANGED <<host, dirty, tree, idle, credit, faults>>
  BY DEF DriveInv, AddSubject, StagesOk, Fenced
<1>2. d' \in Processes(d'.sig) /\ SameWave /\ d'.pc = "assemble" /\ d'.at = d.at + 1
  BY <1>1, AddSubjectMove DEF AddSubject
<1>3. Tree(d.at) \in Trees /\ Tree(d.at)[1] = d.run /\ d.run \in Nat
  BY <1>1, BoundsAssumption DEF Tree, Trees, Types, Processes, DriveInv, StagesOk
<1>4. /\ goal' \in Goals /\ goal'.id = goal.id /\ goal'.status = goal.status
      /\ goal'.done = goal.done /\ goal'.subjects = goal.subjects \cup {Tree(d.at)}
  BY <1>1, <1>3 DEF AddSubject, Types, Goals
<1>5. ~InWaves' /\ d'.pc \in Starting /\ d.pc \in Starting /\ Fast'
  BY <1>1, <1>2 DEF InWaves, Waves, Starting, SameWave, SameRun, Fast
<1>6. Types'
  BY <1>1, <1>2, <1>4 DEF Types
<1>7. StagesOk'
  BY <1>1, <1>2, <1>4, <1>5 DEF DriveInv, StagesOk, SameWave, SameRun, Ended
<1>8. TreesOk'
  BY <1>1, <1>2, <1>5 DEF DriveInv, TreesOk, SameWave, SameRun, Tree, Team
<1>9. CommitsOk'
  BY <1>1, <1>2, <1>5 DEF DriveInv, CommitsOk, SameWave, SameRun
<1>10. CreditOk'
  BY <1>1, <1>2, <1>5 DEF DriveInv, CreditOk, SameWave, SameRun
<1>11. SubjectsOk'
  BY <1>1, <1>2, <1>3, <1>4, <1>5 DEF DriveInv, SubjectsOk, SameGoal, SameWave, SameRun, Tree, Team
<1>12. SignatureOk'
  BY <1>1, <1>2, <1>4, <1>5 DEF DriveInv, SignatureOk, SameGoal, SameWave, SameRun
<1>13. IdleOk'
  BY <1>1, <1>2, <1>5 DEF DriveInv, IdleOk, SameWave, SameRun, Waves
<1> QED  BY <1>6, <1>7, <1>8, <1>9, <1>10, <1>11, <1>12, <1>13 DEF DriveInv

LEMMA AssembleFailsKeeps == DriveInv /\ AssembleFails => DriveInv'
<1> SUFFICES ASSUME DriveInv, AssembleFails PROVE DriveInv'
  OBVIOUS
<1>1. /\ Types /\ d.pc = "subject" /\ Stop("bad") /\ d.run # 0
      /\ UNCHANGED <<host, dirty, idle, credit>>
  BY DEF DriveInv, AssembleFails, StagesOk
<1>2. /\ goal' \in Goals /\ goal'.id = goal.id /\ goal'.status = goal.status
      /\ goal'.subjects \subseteq goal.subjects
  BY <1>1 DEF AssembleFails, Types, Goals
<1>3. /\ tree' \in [Trees -> Worktrees]
      /\ \A t \in Trees : tree'[t].commits = tree[t].commits
      /\ \A t \in Trees : t[1] # d.run => tree'[t] = tree[t]
  <2>1. tree' = [t \in Trees |-> IF t \in {Tree(i) : i \in d.ready}
                                 THEN [tree[t] EXCEPT !.on = FALSE] ELSE tree[t]]
    BY DEF AssembleFails
  <2>2. \A t \in Trees :
          /\ [tree[t] EXCEPT !.on = FALSE] \in Worktrees
          /\ [tree[t] EXCEPT !.on = FALSE].commits = tree[t].commits
    BY <1>1 DEF Types, Worktrees
  <2> QED  BY <1>1, <2>1, <2>2 DEF Types, Tree
<1>4. \A t \in dirty \ {Host} : tree'[t].on
  BY <1>1, <1>3 DEF DriveInv, TreesOk, Types, Starting
<1>5. faults' \in 0..MaxFaults
  BY <1>1, BoundsAssumption DEF AssembleFails, Types, Fault
<1>6. d.pc \notin Ended /\ "bad" \in Outcomes
  BY <1>1 DEF Ended, Outcomes
<1> QED  BY <1>1, <1>2, <1>3, <1>4, <1>5, <1>6, DoneIsMerged, StopKeeps

LEMMA AssembledKeeps == DriveInv /\ Assembled => DriveInv'
<1> SUFFICES ASSUME DriveInv, Assembled PROVE DriveInv'
  OBVIOUS
<1>1. /\ Types /\ d.pc = "assemble" /\ Fast /\ d.wave = 1
      /\ UNCHANGED <<goal, host, dirty, tree, idle, credit, faults>>
  BY DEF DriveInv, Assembled, StagesOk, SignatureOk, SameGoal
<1>2. /\ d' \in Processes(d'.sig) /\ SameRun /\ d'.pc = "gate" /\ d'.sig = Signature(d.seen)
      /\ d'.wave = d.wave /\ d'.streak = d.streak /\ d'.out = d.out
  BY AssembledMove DEF DriveInv, Assembled
<1>3. InWaves' /\ d'.pc \notin Waves /\ d'.pc \notin Starting /\ d.pc \in Starting /\ Fast'
  BY <1>1, <1>2 DEF InWaves, Waves, Starting, SameRun, Fast
<1>4. \A i \in Team : i < d.at
  BY <1>1, PlanAssumption DEF Assembled, Team, Types, Processes
<1>5. Types'
  BY <1>1, <1>2 DEF Types
<1>6. StagesOk'
  BY <1>1, <1>2, <1>3 DEF DriveInv, StagesOk, SameRun, Ended
<1>7. TreesOk'
  BY <1>1, <1>2, <1>3, <1>4 DEF DriveInv, TreesOk, SameRun, Tree
<1>8. CommitsOk'
  <2>1. \A i \in Team : Tree(i) \in Trees
    BY <1>1 DEF Tree, Trees, DriveInv, StagesOk, Types, Processes
  <2> QED  BY <1>1, <1>2, <1>3, <2>1 DEF DriveInv, CommitsOk, SameRun, Tree
<1>9. CreditOk'
  BY <1>1, <1>2, <1>3 DEF DriveInv, CreditOk, SameRun
<1>10. SubjectsOk'
  BY <1>1, <1>2, <1>3, <1>4 DEF DriveInv, SubjectsOk, SameGoal, SameRun, Tree
<1>11. SignatureOk'
  <2>1. /\ d.sig'[1] = Cardinality(d.seen.done) /\ d.sig'[2][1] = host
        /\ Cardinality(d.seen.done) \in Nat
    BY <1>1, <1>2, SignatureIs, SeenCount
  <2>2. SameGoal => Cardinality(d.seen.done) = Cardinality(goal.done)
    BY <1>3 DEF DriveInv, SignatureOk, SameGoal
  <2>3. \A x \in host : x[1] # d.run
    BY <1>3 DEF DriveInv, CommitsOk
  <2> QED  BY <1>1, <1>2, <1>3, <2>1, <2>2, <2>3 DEF SignatureOk, SameGoal, SameRun
<1>12. IdleOk'
  <2>1. d.streak = 0 /\ idle \in Nat
    BY <1>3 DEF DriveInv, IdleOk, Types
  <2> QED  BY <1>1, <1>2, <1>3, <2>1 DEF DriveInv, IdleOk, StagesOk, Ended
<1> QED  BY <1>5, <1>6, <1>7, <1>8, <1>9, <1>10, <1>11, <1>12 DEF DriveInv

-----------------------------------------------------------------------------
(* The steps: before a wave, and what changes nothing that counts. *)

LEMMA RefuseKeeps == DriveInv /\ (Refuse \/ NotMine) => DriveInv'
<1> SUFFICES ASSUME DriveInv, Refuse \/ NotMine PROVE DriveInv'
  OBVIOUS
<1>1. PICK kind \in {"ok", "bad", "taken"} : Stop(kind)
  BY DEF Refuse, NotMine
<1>2. /\ d.pc \notin Ended /\ kind \in Outcomes
      /\ UNCHANGED <<goal, host, dirty, tree, idle, credit, faults>>
  BY DEF Refuse, NotMine, Ended, Outcomes
<1> QED  BY <1>1, <1>2, StopOnly

LEMMA FinishKeeps == DriveInv /\ Finish => DriveInv'
<1> SUFFICES ASSUME DriveInv, Finish PROVE DriveInv'
  OBVIOUS
<1>1. /\ Types /\ d.pc = "gate" /\ d.pc \notin Ended /\ d.run # 0
      /\ UNCHANGED <<host, dirty, tree, idle, credit, faults>>
  BY DEF Finish, DriveInv, StagesOk, Ended
<1>2. CASE UNCHANGED goal
  BY <1>1, <1>2, StopOnly DEF Finish, Outcomes
<1>3. CASE Stop("ok") /\ goal' = [goal EXCEPT !.status = "done"]
  <2>1. goal' \in Goals /\ goal'.id = goal.id /\ goal'.subjects = goal.subjects
    BY <1>1, <1>3 DEF Types, Goals
  <2>2. ASSUME NEW s \in Steps, credit[s][1] = d.run
        PROVE  <<d.run, credit[s][2], s>> \in host
    BY <1>1, <2>2 DEF DriveInv, CreditOk, Safe, Awaited
  <2>3. \A t \in dirty \ {Host} : tree[t].on
    BY DEF DriveInv, TreesOk
  <2> QED  BY <1>1, <1>3, <2>1, <2>2, <2>3, StopKeeps DEF Types, Outcomes
<1> QED  BY <1>2, <1>3 DEF Finish

LEMMA DispatchKeeps == DriveInv /\ Dispatch => DriveInv'
<1> SUFFICES ASSUME DriveInv, Dispatch PROVE DriveInv'
  OBVIOUS
<1>1. /\ Types /\ d.pc = "gate" /\ d.run # 0 /\ (Fast => goal.id = d.id)
      /\ UNCHANGED <<goal, host, dirty, tree, credit, faults>> /\ idle' = idle + 1
  BY DEF Dispatch, DriveInv, StagesOk
<1>2. PICK group \in [Team -> SUBSET Steps] :
        group = IF Fast THEN [i \in Team |-> Share(goal, i)]
                ELSE [i \in Team |-> IF i = 1 THEN Steps ELSE {}]
  <2>1. \A i \in Team : Share(goal, i) \in SUBSET Steps
    BY DEF Share, Claimable
  <2>2. [i \in Team |-> Share(goal, i)] \in [Team -> SUBSET Steps]
    BY <2>1
  <2>3. [i \in Team |-> IF i = 1 THEN Steps ELSE {}] \in [Team -> SUBSET Steps]
    OBVIOUS
  <2> QED  BY <2>2, <2>3
<1>3. PICK sess \in [Team -> {"off", "on", "ok", "bad"}] :
        sess = [i \in Team |-> IF group[i] = {} THEN "ok" ELSE "on"]
  OBVIOUS
<1>4. d' = [d EXCEPT !.pc = "running", !.group = group, !.sess = sess]
  BY <1>2, <1>3 DEF Dispatch
<1> HIDE <1>2, <1>3
<1>5. /\ d' \in Processes(d'.sig) /\ SameRun /\ d'.pc = "running" /\ d'.group = group
      /\ d'.wave = d.wave /\ d'.streak = d.streak /\ d'.sig = d.sig /\ d'.out = d.out
  BY <1>1, <1>4, DispatchMove
<1>6. InWaves /\ InWaves' /\ d'.pc \notin Starting /\ d'.pc \notin Ended /\ d.pc \notin Ended
      /\ Fast' = Fast
  BY <1>1, <1>5 DEF InWaves, Waves, Starting, Ended, SameRun, Fast
<1>7. Types'
  BY <1>1, <1>5 DEF Types
<1>8. StagesOk'
  BY <1>1, <1>5, <1>6 DEF DriveInv, StagesOk, SameRun
<1>9. TreesOk'
  BY <1>1, <1>5, <1>6 DEF DriveInv, TreesOk, SameRun, Tree
<1>10. CommitsOk'
  BY <1>1, <1>5, <1>6 DEF DriveInv, CommitsOk, SameRun, Tree
<1>11. CreditOk'
  <2>1. ASSUME NEW s \in Steps, credit[s][1] = d.run
        PROVE  <<d.run, credit[s][2], s>> \in host
    BY <1>1, <1>6, <2>1 DEF DriveInv, CreditOk, Safe, Awaited
  <2> QED  BY <1>1, <1>5, <1>6, <2>1 DEF DriveInv, CreditOk, SameRun, Safe
<1>12. SubjectsOk'
  BY <1>1, <1>5, <1>6 DEF DriveInv, SubjectsOk, SameGoal, SameRun, Tree
<1>13. SignatureOk'
  <2>1. Tree(1)' = Tree(1)
    BY <1>5 DEF Tree, SameRun
  <2> QED  BY <1>1, <1>5, <1>6, <2>1 DEF DriveInv, SignatureOk, SameGoal, SameRun
<1>14. IdleOk'
  <2>1. (d.streak <= idle \/ d.renewed) /\ d.streak \in Nat /\ idle \in Nat
    BY <1>1 DEF DriveInv, IdleOk, Types, Processes
  <2> QED  BY <1>1, <1>5, <1>6, <2>1 DEF DriveInv, StagesOk, IdleOk, SameRun
<1> QED  BY <1>7, <1>8, <1>9, <1>10, <1>11, <1>12, <1>13, <1>14 DEF DriveInv

(* A claim, a file written, a session that ends, a lease that is lost. *)
LEMMA QuietKeeps ==
  ASSUME DriveInv, d' \in Processes(d'.sig), SameWave, d'.pc = d.pc, d'.at = d.at,
         goal' \in Goals, goal'.id = goal.id, goal'.status = goal.status,
         goal'.done = goal.done, goal'.subjects = goal.subjects,
         dirty' \in SUBSET (Trees \cup {Host}),
         \A t \in dirty' \ {Host} :
           tree[t].on /\ t[1] <= d.run /\ (d.pc \in Starting => t[1] # d.run),
         faults' \in 0..MaxFaults, UNCHANGED <<host, tree, idle, credit>>
  PROVE  DriveInv'
<1>1. Fast' = Fast /\ InWaves' = InWaves /\ \A i \in Team : Tree(i)' = Tree(i)
  BY DEF Fast, InWaves, SameWave, SameRun, Tree
<1>2. Types'
  BY DEF DriveInv, Types
<1>3. StagesOk'
  BY <1>1 DEF DriveInv, StagesOk, SameWave, SameRun
<1>4. TreesOk'
  BY <1>1 DEF DriveInv, TreesOk, SameWave, SameRun
<1>5. CommitsOk'
  BY <1>1 DEF DriveInv, CommitsOk, SameWave, SameRun, Tree
<1>6. CreditOk'
  BY <1>1 DEF DriveInv, CreditOk, Safe, Awaited, SameWave, SameRun, Tree
<1>7. SubjectsOk'
  BY <1>1 DEF DriveInv, SubjectsOk, SameGoal, SameWave, SameRun
<1>8. SignatureOk'
  <2>1. Tree(1)' = Tree(1)
    BY DEF SameWave, SameRun, Tree
  <2> QED  BY <1>1, <2>1 DEF DriveInv, SignatureOk, SameGoal, SameWave, SameRun
<1>9. IdleOk'
  <2>1. Moved' = Moved
    BY <1>1 DEF Moved, NewWork, NewBranch, NewState, SameGoal, SameWave, SameRun, Tree
  <2> QED  BY <2>1 DEF DriveInv, IdleOk, SameWave, SameRun
<1> QED  BY <1>2, <1>3, <1>4, <1>5, <1>6, <1>7, <1>8, <1>9 DEF DriveInv

LEMMA StillTypes == d' = d /\ d \in Processes(d.sig) => d' \in Processes(d'.sig) /\ SameWave
BY DEF SameWave, SameRun

LEMMA ClaimKeeps ==
  ASSUME NEW i \in Team, NEW s \in Steps, DriveInv, Claim(i, s) PROVE DriveInv'
<1>1. /\ Types /\ d' = d /\ UNCHANGED <<host, dirty, tree, idle, credit, faults>>
      /\ goal' = [goal EXCEPT !.claim[s] = d.run]
  BY DEF DriveInv, Claim
<1>2. /\ goal' \in Goals /\ goal'.id = goal.id /\ goal'.status = goal.status
      /\ goal'.done = goal.done /\ goal'.subjects = goal.subjects
  <2>1. d.run \in 0..MaxRuns
    BY <1>1 DEF Types, Processes
  <2>2. PICK claim \in [Steps -> 0..MaxRuns] : claim = [goal.claim EXCEPT ![s] = d.run]
    BY <1>1, <2>1 DEF Types, Goals
  <2>3. goal' = [goal EXCEPT !.claim = claim]
    BY <1>1, <2>2
  <2> QED  BY <1>1, <2>3 DEF Types, Goals
<1>3. d' \in Processes(d'.sig) /\ SameWave /\ faults' \in 0..MaxFaults
  BY <1>1, StillTypes DEF Types
<1>4. /\ dirty' \in SUBSET (Trees \cup {Host})
      /\ \A t \in dirty' \ {Host} :
           tree[t].on /\ t[1] <= d.run /\ (d.pc \in Starting => t[1] # d.run)
  BY <1>1 DEF DriveInv, TreesOk, Types
<1> QED  BY <1>1, <1>2, <1>3, <1>4, QuietKeeps

LEMMA WriteKeeps == ASSUME NEW i \in Team, DriveInv, Write(i) PROVE DriveInv'
<1>1. /\ Types /\ d' = d /\ UNCHANGED <<goal, host, tree, idle, credit, faults>>
      /\ dirty' = dirty \cup {Place(i)} /\ d.pc = "running" /\ d.run # 0
  BY DEF DriveInv, Write, Working, StagesOk
<1>2. Place(i) = Host \/ (Fast /\ Place(i) = Tree(i))
  BY DEF Place
<1>3. /\ d' \in Processes(d'.sig) /\ SameWave /\ goal' \in Goals /\ faults' \in 0..MaxFaults
  BY <1>1, StillTypes DEF Types
<1>4. Tree(i) \in Trees /\ Tree(i)[1] = d.run /\ d.run \in Nat
  BY <1>1, BoundsAssumption DEF Tree, Trees, Types, Processes
<1>5. Fast => tree[Tree(i)].on
  BY <1>1 DEF DriveInv, TreesOk, InWaves, Waves
<1>6. dirty' \in SUBSET (Trees \cup {Host})
  BY <1>1, <1>2, <1>4 DEF Types
<1>7. \A t \in dirty' \ {Host} :
        tree[t].on /\ t[1] <= d.run /\ (d.pc \in Starting => t[1] # d.run)
  BY <1>1, <1>2, <1>4, <1>5 DEF DriveInv, TreesOk, Starting
<1> QED  BY <1>1, <1>3, <1>6, <1>7, QuietKeeps

LEMMA SessionEndsKeeps == ASSUME NEW i \in Team, DriveInv, SessionEnds(i) PROVE DriveInv'
<1>1. PICK r \in {"ok", "bad"} : d' = [d EXCEPT !.sess[i] = r]
  BY DEF SessionEnds
<1>2. Types /\ UNCHANGED <<goal, host, dirty, tree, idle, credit, faults>>
  BY DEF SessionEnds, DriveInv
<1>3. d' \in Processes(d'.sig) /\ SameWave /\ d'.pc = d.pc /\ d'.at = d.at
  BY <1>1, <1>2, SessionEndsMove
<1>4. /\ goal' \in Goals /\ faults' \in 0..MaxFaults /\ dirty' \in SUBSET (Trees \cup {Host})
      /\ \A t \in dirty' \ {Host} :
           tree[t].on /\ t[1] <= d.run /\ (d.pc \in Starting => t[1] # d.run)
  BY <1>2 DEF DriveInv, TreesOk, Types
<1> QED  BY <1>2, <1>3, <1>4, QuietKeeps

LEMMA LoseLeaseKeeps == DriveInv /\ LoseLease => DriveInv'
<1> SUFFICES ASSUME DriveInv, LoseLease PROVE DriveInv'
  OBVIOUS
<1>1. Types /\ UNCHANGED <<goal, host, dirty, tree, idle, credit>> /\ faults' \in 0..MaxFaults
  BY BoundsAssumption DEF LoseLease, DriveInv, Types, Fault
<1>2. d' \in Processes(d'.sig) /\ SameWave /\ d'.pc = d.pc /\ d'.at = d.at
  BY <1>1, LoseLeaseMove DEF LoseLease
<1>3. /\ goal' \in Goals /\ dirty' \in SUBSET (Trees \cup {Host})
      /\ \A t \in dirty' \ {Host} :
           tree[t].on /\ t[1] <= d.run /\ (d.pc \in Starting => t[1] # d.run)
  BY <1>1 DEF DriveInv, TreesOk, Types
<1> QED  BY <1>1, <1>2, <1>3, QuietKeeps

-----------------------------------------------------------------------------
(* The steps: the work of a session. *)

LEMMA CommitKeeps ==
  ASSUME NEW i \in Team, NEW s \in Steps, DriveInv, Commit(i, s) PROVE DriveInv'
<1>1. /\ Types /\ d' = d /\ d.pc = "running" /\ d.run # 0 /\ dirty' \subseteq dirty
      /\ UNCHANGED <<goal, credit, faults>> /\ idle' = 0
      /\ s \in d.group[i] /\ Work(i, s) \notin Committed(i)
  BY DEF DriveInv, Commit, Working, StagesOk
<1>2. /\ d' \in Processes(d'.sig) /\ Fast' = Fast /\ InWaves' = InWaves /\ InWaves
      /\ d.pc \notin Starting /\ d.pc \notin Ended /\ d.pc \in Waves
      /\ \A k \in Team : Tree(k)' = Tree(k)
  BY <1>1 DEF Types, Fast, InWaves, Waves, Starting, Ended, Tree
<1>3. Tree(i) \in Trees /\ d.run \in 1..MaxRuns /\ Author(i) \in 0..Workers /\ i \in 1..Workers
  <2>1. i \in 1..Workers /\ Workers \in Nat
    BY PlanAssumption DEF Team
  <2>2. d.run \in 1..MaxRuns
    BY <1>1, BoundsAssumption DEF Types, Processes
  <2>3. Author(i) \in 0..Workers
    BY <2>1 DEF Author
  <2> QED  BY <2>1, <2>2, <2>3 DEF Tree, Trees, Team
<1>4. Work(i, s) \in Commits /\ Work(i, s)[1] = d.run /\ Work(i, s)[2] = Author(i)
  BY <1>3 DEF Work, Commits
<1>5. /\ host' \in SUBSET Commits /\ host \subseteq host'
      /\ tree' \in [Trees -> Worktrees]
      /\ \A t \in Trees : tree'[t].on = tree[t].on /\ tree[t].commits \subseteq tree'[t].commits
      /\ Fast => host' = host /\ tree'[Tree(i)].commits = tree[Tree(i)].commits \cup {Work(i, s)}
      /\ Fast => \A t \in Trees \ {Tree(i)} : tree'[t] = tree[t]
      /\ ~Fast => tree' = tree /\ host' = host \cup {Work(i, s)}
  <2>1. CASE Fast
    <3>1. /\ tree' = [tree EXCEPT ![Tree(i)].commits = @ \cup {Work(i, s)}] /\ host' = host
      BY <2>1 DEF Commit
    <3>2. PICK w \in Worktrees : w = tree[Tree(i)]
      BY <1>1, <1>3 DEF Types
    <3>3. PICK after \in SUBSET Commits : after = w.commits \cup {Work(i, s)}
      BY <3>2, <1>4 DEF Worktrees
    <3>4. PICK new : new = [w EXCEPT !.commits = after]
      OBVIOUS
    <3>5. new \in Worktrees /\ new.on = w.on /\ new.commits = after
      BY <3>2, <3>4 DEF Worktrees
    <3>6. tree' = [tree EXCEPT ![Tree(i)] = new]
      BY <3>1, <3>2, <3>3, <3>4
    <3> QED  BY <1>1, <1>3, <2>1, <3>1, <3>2, <3>3, <3>5, <3>6 DEF Types
  <2>2. CASE ~Fast
    BY <1>1, <1>4, <2>2 DEF Commit, Types
  <2> QED  BY <2>1, <2>2
<1>6. Types'
  <2>1. dirty' \in SUBSET (Trees \cup {Host}) /\ idle' \in Nat
    BY <1>1 DEF Types
  <2> QED  BY <1>1, <1>2, <1>5, <2>1 DEF Types
<1>7. StagesOk'
  BY <1>1, <1>2 DEF DriveInv, StagesOk
<1>8. TreesOk'
  <2>1. \A t \in dirty' \ {Host} : t \in Trees /\ tree'[t].on /\ t[1] <= d.run
    BY <1>1, <1>5 DEF DriveInv, TreesOk, Types
  <2>2. Fast => \A k \in Team : tree'[Tree(k)].on
    <3>1. \A k \in Team : Tree(k) \in Trees
      BY <1>3 DEF Tree, Trees
    <3> QED  BY <1>2, <1>5, <3>1 DEF DriveInv, TreesOk
  <2> QED  BY <1>1, <1>2, <2>1, <2>2 DEF TreesOk, Starting
<1>9. CommitsOk'
  <2>1. \A x \in host' : x[1] <= d.run
    BY <1>3, <1>4, <1>5 DEF DriveInv, CommitsOk
  <2>2. \A t \in Trees : \A x \in tree'[t].commits : x[1] <= d.run
    BY <1>3, <1>4, <1>5 DEF DriveInv, CommitsOk
  <2>3. ASSUME Fast
        PROVE  /\ \A k \in Team : \A x \in tree'[Tree(k)].commits : x[1] = d.run => x[2] = k
               /\ \A x \in host' : x[1] = d.run =>
                    x[2] \in Team /\ x \in tree'[<<d.run, x[2]>>].commits
    <3>1. \A k \in Team : Tree(k) \in Trees /\ (k # i => Tree(k) # Tree(i))
      BY <1>3 DEF Tree, Trees
    <3>2. Author(i) = i
      BY <2>3 DEF Author
    <3> QED  BY <1>2, <1>4, <1>5, <2>3, <3>1, <3>2 DEF DriveInv, CommitsOk, Tree
  <2> QED  BY <1>1, <1>2, <2>1, <2>2, <2>3 DEF CommitsOk, Tree
<1>10. CreditOk'
  <2>1. ASSUME NEW u \in Steps, Safe(u)
        PROVE  Safe(u)'
    <3>1. Awaited(u) => Awaited(u)'
      <4>1. \A k \in Team : Tree(k) \in Trees
        BY <1>3 DEF Tree, Trees
      <4> QED  BY <1>1, <1>2, <1>5, <4>1 DEF Awaited
    <3> QED  BY <1>1, <1>5, <2>1, <3>1 DEF Safe
  <2> QED  BY <1>1, <2>1 DEF DriveInv, CreditOk
<1>11. SubjectsOk'
  BY <1>1, <1>2 DEF DriveInv, SubjectsOk, SameGoal
<1>12. SignatureOk'
  BY <1>1, <1>2, <1>5 DEF DriveInv, SignatureOk, SameGoal, Tree
<1>13. IdleOk'
  <2>1. d.sig[2][1] \subseteq host
    BY <1>2 DEF DriveInv, SignatureOk, SameGoal
  <2>2. Work(i, s) \notin d.sig[2][1]
    <3>1. CASE Fast
      <4>1. Work(i, s) \notin tree[Tree(i)].commits /\ Author(i) = i
        BY <1>1, <3>1 DEF Committed, Author
      <4>2. Work(i, s) \notin host
        BY <1>2, <1>4, <3>1, <4>1 DEF DriveInv, CommitsOk, Tree
      <4> QED  BY <2>1, <4>2
    <3>2. CASE ~Fast
      BY <1>1, <2>1, <3>2 DEF Committed
    <3> QED  BY <3>1, <3>2
  <2>3. Moved'
    <3>1. CASE Fast
      <4>1. Work(i, s) \in tree'[Tree(i)].commits /\ d.group[i] # {}
        BY <1>1, <1>5, <3>1
      <4> QED  BY <1>1, <1>2, <2>2, <3>1, <4>1 DEF Moved, NewBranch
    <3>2. CASE ~Fast
      BY <1>1, <1>5, <2>2, <3>2 DEF Moved, NewWork
    <3> QED  BY <3>1, <3>2
  <2> QED  BY <1>1, <1>2, <2>3 DEF DriveInv, IdleOk, StagesOk, Waves
<1> QED  BY <1>6, <1>7, <1>8, <1>9, <1>10, <1>11, <1>12, <1>13 DEF DriveInv

LEMMA StepDoneKeeps ==
  ASSUME NEW i \in Team, NEW s \in Steps, DriveInv, StepDone(i, s) PROVE DriveInv'
<1>1. /\ Types /\ d' = d /\ d.pc = "running" /\ d.run # 0 /\ goal.id = d.id
      /\ goal.status = "executing" /\ UNCHANGED <<host, dirty, tree, faults>> /\ idle' = 0
      /\ s \in d.group[i] \ goal.done /\ Work(i, s) \in Committed(i)
      /\ credit' = [credit EXCEPT ![s] = <<d.run, Author(i)>>]
  BY DEF DriveInv, StepDone, Working, StagesOk, Writable, Fenced
<1>2. /\ d' \in Processes(d'.sig) /\ Fast' = Fast /\ InWaves' = InWaves /\ InWaves
      /\ d.pc \notin Starting /\ d.pc \notin Ended /\ d.pc \in Waves
      /\ \A k \in Team : Tree(k)' = Tree(k)
  BY <1>1 DEF Types, Fast, InWaves, Waves, Starting, Ended, Tree
<1>3. /\ d.run \in 1..MaxRuns /\ Author(i) \in 0..Workers /\ d.id \in 0..MaxGoals
      /\ 0 \in 0..MaxRuns /\ Tree(i) \in Trees
  <2>1. d.run \in 0..MaxRuns /\ d.id \in 0..MaxGoals
    BY <1>1 DEF Types, Processes
  <2>2. d.run \in 1..MaxRuns /\ 0 \in 0..MaxRuns
    BY <1>1, <2>1, BoundsAssumption
  <2>3. Author(i) \in 0..Workers
    BY PlanAssumption DEF Team, Author
  <2> QED  BY <2>1, <2>2, <2>3 DEF Tree, Trees
<1>4. /\ goal' \in Goals /\ goal'.id = goal.id /\ goal'.status = goal.status
      /\ goal'.subjects = goal.subjects /\ goal'.done = goal.done \cup {s}
  <2>1. PICK claim \in [Steps -> 0..MaxRuns] : claim = [goal.claim EXCEPT ![s] = 0]
    BY <1>1, <1>3 DEF Types, Goals
  <2>2. goal' = [goal EXCEPT !.done = goal.done \cup {s}, !.claim = claim]
    BY <2>1 DEF StepDone
  <2> QED  BY <1>1, <2>2 DEF Types, Goals
<1>5. Types'
  <2>1. credit' \in [Steps -> (0..MaxRuns) \X (0..Workers)]
    BY <1>1, <1>3 DEF Types
  <2> QED  BY <1>1, <1>2, <1>4, <2>1 DEF Types
<1>6. StagesOk'
  BY <1>1, <1>2, <1>4 DEF DriveInv, StagesOk
<1>7. TreesOk' /\ CommitsOk'
  BY <1>1, <1>2 DEF DriveInv, TreesOk, CommitsOk, Tree
<1>8. CreditOk'
  <2>1. /\ credit'[s][1] = d.run /\ credit'[s][2] = Author(i)
        /\ \A u \in Steps \ {s} : credit'[u] = credit[u]
    BY <1>1 DEF Types
  <2>2. Safe(s)'
    <3>1. CASE Fast
      <4>1. Author(i) = i /\ <<d.run, i, s>> \in tree[Tree(i)].commits
        BY <1>1, <3>1 DEF Author, Committed, Work
      <4> QED  BY <1>1, <1>2, <2>1, <3>1, <4>1 DEF Safe, Awaited
    <3>2. CASE ~Fast
      BY <1>1, <2>1, <3>2 DEF Safe, Committed, Work
    <3> QED  BY <3>1, <3>2
  <2>3. ASSUME NEW u \in Steps \ {s}, Safe(u)
        PROVE  Safe(u)'
    <3>1. Awaited(u)' = Awaited(u)
      BY <1>1, <1>2, <2>1 DEF Awaited, Tree
    <3> QED  BY <1>1, <1>2, <2>1, <2>3, <3>1 DEF Safe
  <2>4. \A u \in Steps : credit'[u][1] <= d.run
    BY <1>3, <2>1 DEF DriveInv, CreditOk
  <2> QED  BY <1>1, <1>2, <2>1, <2>2, <2>3, <2>4 DEF DriveInv, CreditOk
<1>9. SubjectsOk'
  BY <1>1, <1>2, <1>4 DEF DriveInv, SubjectsOk, SameGoal
<1>10. goal.done \in SUBSET Steps /\ Cardinality(goal'.done) = Cardinality(goal.done) + 1
       /\ Cardinality(goal.done) \in Nat
  <2>1. goal.done \in SUBSET Steps
    BY <1>1 DEF Types, Goals
  <2>2. IsFiniteSet(goal.done) /\ Cardinality(goal.done) \in Nat
    BY <2>1, StepsFinite
  <2>3. Cardinality(goal.done \cup {s}) = Cardinality(goal.done) + 1
    BY <1>1, <2>2, FS_AddElement
  <2> QED  BY <1>4, <2>1, <2>2, <2>3
<1>11. /\ d.sig[1] \in Nat /\ d.wave >= 1
       /\ ~d.renewed => d.sig[1] <= Cardinality(goal.done)
  BY <1>1, <1>2 DEF DriveInv, SignatureOk, SameGoal
<1>12. SignatureOk'
  BY <1>1, <1>2, <1>4, <1>10, <1>11 DEF DriveInv, SignatureOk, SameGoal, Tree
<1>13. IdleOk'
  <2>1. CASE Fast /\ d.wave = 1
    <3>1. Work(i, s) \in tree[Tree(i)].commits /\ Work(i, s)[1] = d.run
      BY <1>1, <2>1 DEF Committed, Work
    <3>2. Work(i, s) \notin d.sig[2][1]
      BY <1>2, <2>1, <3>1 DEF DriveInv, SignatureOk, SameGoal
    <3>3. NewBranch'
      BY <1>1, <1>2, <2>1, <3>1, <3>2 DEF NewBranch
    <3> QED  BY <1>1, <1>2, <3>3 DEF DriveInv, IdleOk, StagesOk, Moved, Waves
  <2>2. CASE ~(Fast /\ d.wave = 1)
    <3>1. d.wave \in Nat
      BY <1>1, BoundsAssumption DEF Types, Processes
    <3>2. ~d.renewed => NewState'
      BY <1>1, <1>2, <1>4, <1>10, <1>11, <2>2, <3>1 DEF NewState
    <3> QED  BY <1>1, <1>2, <3>2 DEF DriveInv, IdleOk, StagesOk, Moved, Waves
  <2> QED  BY <2>1, <2>2
<1> QED  BY <1>5, <1>6, <1>7, <1>8, <1>9, <1>12, <1>13 DEF DriveInv

LEMMA SessionFinishesKeeps == DriveInv /\ SessionFinishes => DriveInv'
<1> SUFFICES ASSUME DriveInv, SessionFinishes PROVE DriveInv'
  OBVIOUS
<1>1. /\ Types /\ d' = d /\ d.pc = "running" /\ d.run # 0 /\ ~Fast
      /\ UNCHANGED <<host, dirty, tree, idle, credit, faults>>
  BY DEF DriveInv, SessionFinishes, Working, StagesOk
<1>2. /\ d' \in Processes(d'.sig) /\ Fast' = Fast /\ InWaves' = InWaves /\ InWaves
      /\ d.pc \notin Starting /\ d.pc \notin Ended
  BY <1>1 DEF Types, Fast, InWaves, Waves, Starting, Ended
<1>3. /\ goal' \in Goals /\ goal'.id = goal.id /\ goal'.done = goal.done
      /\ goal'.subjects = goal.subjects
  BY <1>1 DEF SessionFinishes, Types, Goals
<1>4. Types'
  BY <1>1, <1>2, <1>3 DEF Types
<1>5. StagesOk'
  BY <1>1, <1>2, <1>3 DEF DriveInv, StagesOk
<1>6. TreesOk' /\ CommitsOk'
  BY <1>1, <1>2 DEF DriveInv, TreesOk, CommitsOk
<1>7. CreditOk'
  <2>1. \A s \in Steps : Safe(s) => Safe(s)'
    BY <1>1, <1>2 DEF Safe, Awaited
  <2> QED  BY <1>1, <2>1 DEF DriveInv, CreditOk
<1>8. SubjectsOk' /\ SignatureOk'
  BY <1>1, <1>2, <1>3 DEF DriveInv, SubjectsOk, SameGoal, SignatureOk
<1>9. IdleOk'
  <2>1. Moved => Moved'
    BY <1>1, <1>2, <1>3 DEF Moved, NewWork, NewBranch, NewState, SameGoal
  <2> QED  BY <1>1, <2>1 DEF DriveInv, IdleOk
<1> QED  BY <1>4, <1>5, <1>6, <1>7, <1>8, <1>9 DEF DriveInv

-----------------------------------------------------------------------------
(* The steps: after a wave. *)

(* From one stage of a wave to the next. *)
LEMMA WaveKeeps ==
  ASSUME DriveInv, d.pc \in Waves, d' \in Processes(d'.sig), SameRun,
         d'.wave = d.wave, d'.streak = d.streak, d'.sig = d.sig, d'.out = d.out,
         d'.pc \in Waves, d'.pc \in {"merge", "release"} => Fast,
         goal' \in Goals, goal'.id = goal.id, goal'.status = goal.status,
         goal'.done = goal.done, goal'.subjects = goal.subjects,
         \A s \in Steps : Awaited(s) => Safe(s)', Moved => Moved',
         host' \in SUBSET Commits, host \subseteq host',
         \A x \in host' \ host :
           x[1] <= d.run /\
           (Fast /\ x[1] = d.run => x[2] \in Team /\ x \in tree[Tree(x[2])].commits),
         faults' \in 0..MaxFaults, UNCHANGED <<dirty, tree, idle, credit>>
  PROVE  DriveInv'
<1>1. /\ Fast' = Fast /\ InWaves /\ InWaves' /\ d.run # 0
      /\ d.pc \notin Starting /\ d'.pc \notin Starting /\ d.pc \notin Ended /\ d'.pc \notin Ended
      /\ d'.pc \notin {"gate", "subject", "assemble", "acquire", "cleanup", "idle"}
      /\ \A i \in Team : Tree(i)' = Tree(i)
  BY DEF Fast, InWaves, Waves, SameRun, Tree, Starting, Ended, DriveInv, StagesOk
<1>2. Types'
  BY DEF DriveInv, Types
<1>3. StagesOk'
  BY <1>1 DEF DriveInv, StagesOk, SameRun
<1>4. TreesOk'
  BY <1>1 DEF DriveInv, TreesOk, SameRun
<1>5. CommitsOk'
  <2>1. d'.run = d.run /\ tree' = tree
    BY DEF SameRun
  <2>2. ASSUME NEW x \in host'
        PROVE  /\ x[1] <= d.run
               /\ Fast /\ x[1] = d.run => x[2] \in Team /\ x \in tree[Tree(x[2])].commits
    <3>1. CASE x \in host
      BY <1>1, <3>1 DEF DriveInv, CommitsOk
    <3> QED  BY <2>2, <3>1
  <2>3. \A t \in Trees : \A x \in tree[t].commits : x[1] <= d.run
    BY DEF DriveInv, CommitsOk
  <2>4. Fast => \A i \in Team : \A x \in tree[Tree(i)].commits : x[1] = d.run => x[2] = i
    BY <1>1 DEF DriveInv, CommitsOk
  <2> QED  BY <1>1, <2>1, <2>2, <2>3, <2>4 DEF CommitsOk, Tree
<1>6. CreditOk'
  <2>1. ASSUME NEW s \in Steps, Safe(s)
        PROVE  Safe(s)'
    BY <1>1, <2>1 DEF Safe, SameRun
  <2> QED  BY <1>1, <2>1 DEF DriveInv, CreditOk, SameRun
<1>7. SubjectsOk'
  BY <1>1 DEF DriveInv, SubjectsOk, SameGoal, SameRun
<1>8. SignatureOk'
  <2>1. Tree(1)' = Tree(1)
    BY DEF SameRun, Tree
  <2> QED  BY <1>1, <2>1 DEF DriveInv, SignatureOk, SameGoal, SameRun
<1>9. IdleOk'
  BY <1>1 DEF DriveInv, IdleOk, StagesOk, SameRun
<1> QED  BY <1>2, <1>3, <1>4, <1>5, <1>6, <1>7, <1>8, <1>9 DEF DriveInv

LEMMA SettleKeeps == DriveInv /\ Settle => DriveInv'
<1> SUFFICES ASSUME DriveInv, Settle PROVE DriveInv'
  OBVIOUS
<1>1. /\ Types /\ d.pc = "running" /\ d.pc \notin Ended /\ d.pc \in Waves
      /\ UNCHANGED <<goal, host, dirty, tree, idle, credit, faults>>
  BY DEF Settle, DriveInv, Ended, Waves
<1>2. CASE \E kind \in {"ok", "bad"} : Stop(kind)
  BY <1>1, <1>2, StopOnly DEF Outcomes
<1>3. ASSUME NEW stage \in {"spend", "merge"}, Settled(stage),
             stage = "merge" => Fast, stage = "spend" => ~Fast
      PROVE  DriveInv'
  <2>1. d' \in Processes(d'.sig) /\ SameWave /\ d'.pc = stage /\ d'.at = 1
    BY <1>1, <1>3, SettledMove, StagesAre
  <2>2. Fast' = Fast /\ d'.pc \in Waves /\ \A i \in Team : Tree(i)' = Tree(i) /\ 1 <= i
    BY <1>3, <2>1 DEF Fast, Waves, SameWave, SameRun, Tree, Team
  <2>3. \A s \in Steps : Awaited(s) => Safe(s)'
    BY <1>1, <1>3, <2>1, <2>2 DEF Safe, Awaited, SameWave, SameRun
  <2>4. Moved => Moved'
    BY <1>1, <1>3, <2>1, <2>2 DEF Moved, NewWork, NewBranch, NewState, SameGoal, SameWave, SameRun
  <2>5. goal' \in Goals /\ host' \in SUBSET Commits /\ faults' \in 0..MaxFaults
    BY <1>1 DEF Types
  <2> QED  BY <1>1, <1>3, <2>1, <2>2, <2>3, <2>4, <2>5, WaveKeeps DEF SameWave
<1> QED  BY <1>2, <1>3 DEF Settle

LEMMA MergeKeeps == DriveInv /\ Merge => DriveInv'
<1> SUFFICES ASSUME DriveInv, Merge PROVE DriveInv'
  OBVIOUS
<1>1. /\ Types /\ d.pc = "merge" /\ d.pc \notin Ended /\ d.pc \in Waves /\ Fast /\ InWaves
      /\ d.run # 0 /\ UNCHANGED <<goal, dirty, tree, idle, credit, faults>>
      /\ d.at \in Team
  <2>1. /\ Types /\ d.pc = "merge" /\ Fast /\ d.run # 0
        /\ UNCHANGED <<goal, dirty, tree, idle, credit, faults>>
    BY DEF Merge, DriveInv, StagesOk
  <2>2. d.pc \notin Ended /\ d.pc \in Waves /\ InWaves
    BY <2>1 DEF Ended, Waves, InWaves
  <2>3. d.at \in Team
    BY <2>1, PlanAssumption DEF Merge, LastMerged, Types, Processes, Team
  <2> QED  BY <2>1, <2>2, <2>3
<1>2. CASE Stop("conflict") /\ UNCHANGED host
  BY <1>1, <1>2, StopOnly DEF Outcomes
<1>3. CASE /\ host' = host \cup (IF d.group[d.at] = {} THEN {} ELSE tree[Tree(d.at)].commits)
           /\ d' = [d EXCEPT !.at = d.at + 1]
  <2>1. d' \in Processes(d'.sig) /\ SameWave /\ d'.pc = "merge" /\ d'.at = d.at + 1
    BY <1>1, <1>3, MergeMove DEF Team
  <2>2. /\ Fast' = Fast /\ d'.pc \in Waves
        /\ \A i \in Team : /\ Tree(i)' = Tree(i) /\ Tree(i) \in Trees
                           /\ d.at <= i => i = d.at \/ d'.at <= i
    BY <1>1, <2>1 DEF Fast, Waves, SameWave, SameRun, Tree, Team, Trees, Types, Processes
  <2>3. host' \in SUBSET Commits /\ host \subseteq host'
    BY <1>1, <1>3, <2>2 DEF Types, Worktrees
  <2>4. \A x \in host' \ host :
          x[1] <= d.run /\ (x[1] = d.run => x[2] \in Team /\ x \in tree[Tree(x[2])].commits)
    BY <1>1, <1>3, <2>2 DEF DriveInv, CommitsOk
  <2>5. ASSUME NEW s \in Steps, Awaited(s)
        PROVE  Safe(s)'
    <3>1. CASE credit[s][2] = d.at
      <4>1. <<d.run, credit[s][2], s>> \in host'
        BY <1>3, <2>5, <3>1 DEF Awaited
      <4> QED  BY <1>1, <2>1, <4>1 DEF Safe, SameWave, SameRun
    <3>2. CASE credit[s][2] # d.at
      <4>1. Awaited(s)'
        BY <1>1, <2>1, <2>2, <2>5, <3>2 DEF Awaited, SameWave, SameRun
      <4> QED  BY <4>1 DEF Safe
    <3> QED  BY <3>1, <3>2
  <2>6. ASSUME Moved
        PROVE  Moved'
    <3>1. NewWork => NewWork'
      BY <2>1, <2>3 DEF NewWork, SameWave
    <3>2. NewState => NewState'
      BY <1>1, <2>1, <2>2 DEF NewState, SameGoal, SameWave, SameRun
    <3>3. NewBranch => NewBranch' \/ NewWork'
      <4> SUFFICES ASSUME NewBranch PROVE NewBranch' \/ NewWork'
        OBVIOUS
      <4>1. PICK i \in Team : /\ d.group[i] # {} /\ d.at <= i
                              /\ \E x \in tree[Tree(i)].commits : x \notin d.sig[2][1]
        BY <1>1 DEF NewBranch
      <4>2. CASE i = d.at
        BY <1>3, <2>1, <4>1, <4>2 DEF NewWork, SameWave
      <4>3. CASE i # d.at
        BY <1>1, <2>1, <2>2, <4>1, <4>3 DEF NewBranch, SameWave
      <4> QED  BY <4>2, <4>3
    <3> QED  BY <2>6, <3>1, <3>2, <3>3 DEF Moved
  <2>7. goal' \in Goals /\ faults' \in 0..MaxFaults
    BY <1>1 DEF Types
  <2> QED  BY <1>1, <2>1, <2>2, <2>3, <2>4, <2>5, <2>6, <2>7, WaveKeeps DEF SameWave
<1> QED  BY <1>2, <1>3 DEF Merge

LEMMA MergedKeeps == DriveInv /\ Merged => DriveInv'
<1> SUFFICES ASSUME DriveInv, Merged PROVE DriveInv'
  OBVIOUS
<1>1. /\ Types /\ d.pc = "merge" /\ d.pc \in Waves /\ Fast /\ ~(d.at <= Workers)
      /\ UNCHANGED <<goal, host, dirty, tree, idle, credit, faults>>
  BY PlanAssumption DEF Merged, DriveInv, StagesOk, Waves, LastMerged, Types, Processes
<1>2. /\ d' \in Processes(d'.sig) /\ SameRun /\ d'.pc = "spend" /\ d'.wave = d.wave
      /\ d'.streak = d.streak /\ d'.sig = d.sig /\ d'.out = d.out
  BY <1>1, MergedMove DEF Merged
<1>3. d'.pc \in Waves /\ Fast' = Fast /\ \A i \in Team : ~(d.at <= i)
  BY <1>1, <1>2, PlanAssumption DEF Waves, Fast, SameRun, Team, Types, Processes
<1>4. \A s \in Steps : ~Awaited(s)
  BY <1>1, <1>3 DEF Awaited
<1>5. Moved => Moved'
  BY <1>1, <1>2, <1>3 DEF Moved, NewWork, NewBranch, NewState, SameGoal, SameRun
<1>6. goal' \in Goals /\ host' \in SUBSET Commits /\ faults' \in 0..MaxFaults
  BY <1>1 DEF Types
<1> QED  BY <1>1, <1>2, <1>3, <1>4, <1>5, <1>6, WaveKeeps

LEMMA SpendKeeps == DriveInv /\ Spend => DriveInv'
<1> SUFFICES ASSUME DriveInv, Spend PROVE DriveInv'
  OBVIOUS
<1>1. /\ Types /\ d.pc = "spend" /\ d.pc \in Waves /\ d.pc \notin Ended
      /\ UNCHANGED <<goal, host, dirty, tree, idle, credit, faults>>
  BY DEF Spend, DriveInv, Waves, Ended
<1>2. CASE Stop("ok")
  BY <1>1, <1>2, StopOnly DEF Outcomes
<1>3. CASE d' = [d EXCEPT !.pc = IF Fast THEN "release" ELSE "judge"]
  <2>1. PICK stage \in Stages : stage = IF Fast THEN "release" ELSE "judge"
    BY StagesAre
  <2>2. d' \in Processes(d'.sig) /\ SameWave /\ d'.pc = stage
    BY <1>1, <1>3, <2>1, SpendMove
  <2>3. /\ d'.pc \in Waves /\ d'.pc # "merge" /\ (d'.pc = "release" => Fast)
        /\ Fast' = Fast /\ \A s \in Steps : ~Awaited(s)
    BY <1>1, <2>1, <2>2 DEF Waves, Fast, Awaited, SameWave, SameRun
  <2>4. Moved => Moved'
    BY <1>1, <2>2, <2>3 DEF Moved, NewWork, NewBranch, NewState, SameGoal, SameWave, SameRun
  <2>5. goal' \in Goals /\ host' \in SUBSET Commits /\ faults' \in 0..MaxFaults
    BY <1>1 DEF Types
  <2> QED  BY <1>1, <2>2, <2>3, <2>4, <2>5, WaveKeeps DEF SameWave
<1> QED  BY <1>2, <1>3 DEF Spend

LEMMA ReleaseClaimsKeeps == DriveInv /\ ReleaseClaims => DriveInv'
<1> SUFFICES ASSUME DriveInv, ReleaseClaims PROVE DriveInv'
  OBVIOUS
<1>1. /\ Types /\ d.pc = "release" /\ d.pc \in Waves /\ 0 \in 0..MaxRuns
      /\ UNCHANGED <<host, dirty, tree, idle, credit>> /\ faults' \in 0..MaxFaults
  BY BoundsAssumption DEF ReleaseClaims, DriveInv, Waves, Types, Fault
<1>2. d' \in Processes(d'.sig) /\ SameWave /\ d'.pc = "judge"
  BY <1>1, ReleaseMove DEF ReleaseClaims
<1>3. /\ goal' \in Goals /\ goal'.id = goal.id /\ goal'.status = goal.status
      /\ goal'.done = goal.done /\ goal'.subjects = goal.subjects
  <2>1. CASE UNCHANGED goal
    BY <1>1, <2>1 DEF Types
  <2>2. CASE goal' = [goal EXCEPT !.claim = [s \in Steps |-> IF s \in d.release THEN 0 ELSE @[s]]]
    <3>1. PICK claim \in [Steps -> 0..MaxRuns] :
            claim = [s \in Steps |-> IF s \in d.release THEN 0 ELSE goal.claim[s]]
      BY <1>1 DEF Types, Goals
    <3>2. goal' = [goal EXCEPT !.claim = claim]
      BY <2>2, <3>1
    <3> QED  BY <1>1, <3>2 DEF Types, Goals
  <2> QED  BY <2>1, <2>2 DEF ReleaseClaims
<1>4. /\ d'.pc \in Waves /\ Fast' = Fast /\ \A s \in Steps : ~Awaited(s)
  BY <1>1, <1>2 DEF Waves, Fast, Awaited, SameWave, SameRun
<1>5. Moved => Moved'
  BY <1>1, <1>2, <1>3, <1>4 DEF Moved, NewWork, NewBranch, NewState, SameGoal, SameWave, SameRun
<1>6. host' \in SUBSET Commits
  BY <1>1 DEF Types
<1> QED  BY <1>1, <1>2, <1>3, <1>4, <1>5, <1>6, WaveKeeps DEF SameWave

(* What moved shows in the signature, so a signature that did not change is *)
(* of a segment that did nothing.                                           *)
LEMMA SameSignature ==
  ASSUME DriveInv, d.pc = "judge", Signature(goal) = d.sig,
         goal.id = d.id \/ Fast
  PROVE  d.streak < idle \/ d.renewed
<1> SUFFICES ASSUME ~d.renewed PROVE d.streak < idle
  OBVIOUS
<1>1. /\ d.sig[1] = Cardinality(goal.done) /\ d.sig[2][1] = host
      /\ DOMAIN d.sig[2][2] = goal.subjects
  BY SignatureIs
<1>2. InWaves /\ d.pc \in Waves /\ Types /\ d.run # 0
  BY DEF InWaves, Waves, DriveInv, StagesOk
<1>3. ~NewWork /\ ~NewBranch
  BY <1>1 DEF NewWork, NewBranch
<1>4. ~NewState
  <2>1. CASE goal.id = d.id
    BY <1>1, <1>2, <2>1, SeenCount DEF NewState, SameGoal
  <2>2. CASE goal.id # d.id
    <3>1. SUFFICES ASSUME d.wave > 1 PROVE FALSE
      BY <2>2 DEF NewState, SameGoal
    <3>2. Tree(1) \in goal.subjects
      BY <1>1, <1>2, <2>2, <3>1 DEF DriveInv, SignatureOk, SameGoal
    <3>3. Tree(1)[1] = d.run
      BY DEF Tree
    <3> QED  BY <2>2, <3>2, <3>3 DEF DriveInv, SubjectsOk, SameGoal
  <2> QED  BY <2>1, <2>2
<1> QED  BY <1>2, <1>3, <1>4 DEF DriveInv, IdleOk, Moved

LEMMA JudgeKeeps == DriveInv /\ Judge => DriveInv'
<1> SUFFICES ASSUME DriveInv, Judge PROVE DriveInv'
  OBVIOUS
<1>1. /\ Types /\ d.pc = "judge" /\ d.pc \in Waves /\ d.pc \notin Ended /\ InWaves
      /\ d.pc \notin Starting /\ d.run # 0
      /\ UNCHANGED <<goal, host, dirty, tree, idle, credit, faults>>
  BY DEF Judge, DriveInv, StagesOk, Waves, Ended, InWaves, Starting
<1>2. /\ idle \in Nat /\ d.streak \in Nat /\ d.wave \in Nat /\ StuckLimit \in Nat \ {0}
      /\ Streak \in Nat
  BY <1>1, BoundsAssumption DEF Types, Processes, Streak
<1>3. (goal.id = d.id \/ Fast) => Streak <= idle \/ d.renewed
  BY <1>1, <1>2, SameSignature DEF Streak
<1>4. CASE Stop("ok") \/ Stop("bad")
  BY <1>1, <1>4, StopOnly DEF Outcomes
<1>5. CASE Stop("stuck") /\ Streak >= StuckLimit /\ (goal.id = d.id \/ Fast)
  <2>1. idle >= StuckLimit \/ d.renewed
    BY <1>2, <1>3, <1>5
  <2> QED  BY <1>1, <1>5, <2>1, StopOnly DEF Outcomes
<1>6. CASE /\ goal.id = d.id \/ Fast
           /\ d.wave < MaxSegments
           /\ d' = [d EXCEPT !.pc = "gate", !.wave = @ + 1, !.streak = Streak,
                             !.sig = Signature(goal)]
  <2>1. /\ d' \in Processes(d'.sig) /\ SameRun /\ d'.pc = "gate" /\ d'.wave = d.wave + 1
        /\ d'.streak = Streak /\ d'.sig = Signature(goal) /\ d'.out = d.out
    BY <1>1, <1>2, <1>6, JudgeMove
  <2>2. /\ InWaves' /\ d'.pc \notin Waves /\ d'.pc \notin Starting /\ d'.pc \notin Ended
        /\ Fast' = Fast /\ \A i \in Team : Tree(i)' = Tree(i)
    BY <2>1 DEF InWaves, Waves, Starting, Ended, SameRun, Fast, Tree
  <2>3. Types'
    BY <1>1, <2>1 DEF Types
  <2>4. StagesOk'
    BY <1>1, <2>1, <2>2 DEF DriveInv, StagesOk, SameRun
  <2>5. TreesOk'
    BY <1>1, <2>1, <2>2 DEF DriveInv, TreesOk, SameRun
  <2>6. CommitsOk'
    BY <1>1, <2>1, <2>2 DEF DriveInv, CommitsOk, SameRun, Tree
  <2>7. CreditOk'
    <3>1. \A s \in Steps : Safe(s) => Safe(s)'
      BY <1>1, <2>1, <2>2 DEF Safe, Awaited, SameRun
    <3> QED  BY <1>1, <2>1, <2>2, <3>1 DEF DriveInv, CreditOk, SameRun
  <2>8. SubjectsOk'
    BY <1>1, <2>1, <2>2 DEF DriveInv, SubjectsOk, SameGoal, SameRun
  <2>9. SignatureOk'
    <3>1. /\ d.sig'[1] = Cardinality(goal.done) /\ d.sig'[2][1] = host
          /\ DOMAIN d.sig'[2][2] = goal.subjects /\ Cardinality(goal.done) \in Nat
      BY <1>1, <2>1, SignatureIs, SeenCount
    <3>2. d.wave >= 1
      BY <1>1 DEF DriveInv, SignatureOk, SameGoal
    <3>3. Fast /\ SameGoal => Tree(1) \in goal.subjects /\ Tree(1)' = Tree(1)
      BY <1>1, <2>1, PlanAssumption DEF DriveInv, SubjectsOk, SameGoal, Team, Tree, SameRun
    <3> QED  BY <1>1, <1>2, <2>1, <2>2, <3>1, <3>2, <3>3 DEF SignatureOk, SameGoal, SameRun
  <2>10. IdleOk'
    BY <1>1, <1>3, <1>6, <2>1, <2>2 DEF DriveInv, IdleOk, StagesOk
  <2> QED  BY <2>3, <2>4, <2>5, <2>6, <2>7, <2>8, <2>9, <2>10 DEF DriveInv
<1> QED  BY <1>4, <1>5, <1>6 DEF Judge

(* Another goal takes the slot. *)
LEMMA ReplaceKeeps == DriveInv /\ Replace => DriveInv'
<1> SUFFICES ASSUME DriveInv, Replace PROVE DriveInv'
  OBVIOUS
<1>1. /\ Types /\ d' = d /\ goal.id \in 1..MaxGoals /\ goal.id + 1 \in 1..MaxGoals
      /\ goal' = FreshGoal(goal.id + 1) /\ credit' = [s \in Steps |-> Nobody]
      /\ UNCHANGED <<host, dirty, tree, idle, faults>>
  BY BoundsAssumption DEF DriveInv, Replace, Types, Goals
<1>2. /\ goal' \in Goals /\ goal'.id = goal.id + 1 /\ goal'.status = "executing"
      /\ goal'.done = {} /\ goal'.subjects = {}
  BY <1>1, FreshGoalType DEF FreshGoal
<1>3. /\ Fast' = Fast /\ InWaves' = InWaves /\ \A i \in Team : Tree(i)' = Tree(i)
      /\ d.id \in Nat /\ d.id <= goal.id /\ d.run \in Nat
  BY <1>1, BoundsAssumption DEF Fast, InWaves, Tree, DriveInv, StagesOk, Types, Processes
<1>4. goal'.id # d.id /\ d.id <= goal'.id
  BY <1>1, <1>2, <1>3
<1>5. Types'
  <2>1. credit' \in [Steps -> (0..MaxRuns) \X (0..Workers)]
    BY <1>1, BoundsAssumption, PlanAssumption DEF Nobody
  <2> QED  BY <1>1, <1>2, <2>1 DEF Types
<1>6. StagesOk'
  BY <1>1, <1>2, <1>3, <1>4 DEF DriveInv, StagesOk
<1>7. TreesOk' /\ CommitsOk'
  BY <1>1, <1>3 DEF DriveInv, TreesOk, CommitsOk, Tree
<1>8. CreditOk'
  <2>1. \A s \in Steps : credit'[s][1] = 0
    BY <1>1 DEF Nobody
  <2>2. d.pc \in Starting => d.run # 0
    BY DEF DriveInv, StagesOk, Starting
  <2> QED  BY <1>1, <1>3, <2>1, <2>2 DEF CreditOk
<1>9. SubjectsOk'
  BY <1>1, <1>2, <1>4 DEF SubjectsOk, SameGoal
<1>10. SignatureOk'
  BY <1>1, <1>2, <1>3, <1>4 DEF DriveInv, SignatureOk, SameGoal, Tree
<1>11. IdleOk'
  <2>1. NewWork' = NewWork /\ NewBranch' = NewBranch
    BY <1>1, <1>3 DEF NewWork, NewBranch
  <2>2. NewState => NewState'
    BY <1>1, <1>3, <1>4 DEF NewState, SameGoal
  <2> QED  BY <1>1, <2>1, <2>2 DEF DriveInv, IdleOk, Moved
<1> QED  BY <1>5, <1>6, <1>7, <1>8, <1>9, <1>10, <1>11 DEF DriveInv

(* The goal is registered again under its name: what it was is gone, and    *)
(* nothing is asked of the run's signatures any more.                       *)
LEMMA RenewKeeps == DriveInv /\ Renew => DriveInv'
<1> SUFFICES ASSUME DriveInv, Renew PROVE DriveInv'
  OBVIOUS
<1>1. /\ Types /\ d' = [d EXCEPT !.renewed = TRUE] /\ goal.id \in 1..MaxGoals
      /\ goal' = FreshGoal(goal.id) /\ credit' = [s \in Steps |-> Nobody]
      /\ UNCHANGED <<host, dirty, tree, idle, faults>>
  BY DEF DriveInv, Renew, Types, Goals
<1>2. /\ goal' \in Goals /\ goal'.id = goal.id /\ goal'.status = "executing"
      /\ goal'.done = {} /\ goal'.subjects = {}
  BY <1>1, FreshGoalType DEF FreshGoal
<1>3. /\ d' \in Processes(d'.sig) /\ d'.run = d.run /\ d'.n = d.n /\ d'.id = d.id
      /\ d'.wave = d.wave /\ d'.group = d.group /\ d'.streak = d.streak
      /\ d'.seen = d.seen /\ d'.sig = d.sig /\ d'.out = d.out /\ d'.pc = d.pc
      /\ d'.at = d.at /\ d'.renewed
  BY <1>1 DEF Types, Processes
<1>4. /\ Fast' = Fast /\ InWaves' = InWaves /\ \A i \in Team : Tree(i)' = Tree(i)
      /\ d.run \in Nat /\ ~SameGoal'
  BY <1>1, <1>3, BoundsAssumption DEF Fast, InWaves, Tree, SameGoal, Types, Processes
<1>5. Types'
  <2>1. credit' \in [Steps -> (0..MaxRuns) \X (0..Workers)]
    BY <1>1, BoundsAssumption, PlanAssumption DEF Nobody
  <2> QED  BY <1>1, <1>2, <1>3, <2>1 DEF Types
<1>6. StagesOk'
  BY <1>1, <1>2, <1>3, <1>4 DEF DriveInv, StagesOk
<1>7. TreesOk' /\ CommitsOk'
  BY <1>1, <1>3, <1>4 DEF DriveInv, TreesOk, CommitsOk, Tree
<1>8. CreditOk'
  <2>1. \A s \in Steps : credit'[s][1] = 0
    BY <1>1 DEF Nobody
  <2>2. d.pc \in Starting => d.run # 0
    BY DEF DriveInv, StagesOk, Starting
  <2> QED  BY <1>1, <1>3, <1>4, <2>1, <2>2 DEF CreditOk
<1>9. SubjectsOk'
  BY <1>1, <1>2, <1>4 DEF SubjectsOk, SameGoal
<1>10. SignatureOk'
  BY <1>1, <1>2, <1>3, <1>4 DEF DriveInv, SignatureOk, SameGoal, Tree
<1>11. IdleOk'
  BY <1>1, <1>3 DEF DriveInv, IdleOk
<1> QED  BY <1>5, <1>6, <1>7, <1>8, <1>9, <1>10, <1>11 DEF DriveInv

-----------------------------------------------------------------------------
LEMMA DriveStart == Init => DriveInv
<1> SUFFICES ASSUME Init PROVE DriveInv
  OBVIOUS
<1>1. d = Process(0, 0, 0, "idle") /\ goal = FreshGoal(1)
  BY DEF Init
<1>2. /\ 0 \in 0..MaxRuns /\ 0 \in 0..MaxGoals /\ "idle" \in Stages /\ 1 \in 1..MaxGoals
      /\ 0 \in 0..Workers /\ 0 \in 0..MaxFaults
  BY BoundsAssumption, PlanAssumption, StagesAre
<1>3. /\ d \in Processes(<<>>) /\ d.run = 0 /\ d.id = 0 /\ d.pc = "idle" /\ d.out = "none"
      /\ d.n = 0
  BY <1>1, <1>2, ProcessType DEF Process
<1>4. d.sig = <<>>
  BY <1>3 DEF Processes
<1>5. /\ goal \in Goals /\ goal.id = 1 /\ goal.status = "executing" /\ goal.subjects = {}
  BY <1>1, <1>2, FreshGoalType DEF FreshGoal
<1>6. Types
  <2>1. tree \in [Trees -> Worktrees]
    BY DEF Init, NoTree, Worktrees
  <2>2. credit \in [Steps -> (0..MaxRuns) \X (0..Workers)]
    BY <1>2 DEF Init, Nobody
  <2> QED  BY <1>2, <1>3, <1>4, <1>5, <2>1, <2>2 DEF Types, Init
<1>7. ~InWaves /\ d.pc \notin Starting /\ d.pc \in Ended /\ d.pc \notin Waves
  BY <1>3 DEF InWaves, Waves, Starting, Ended
<1>8. StagesOk
  BY <1>3, <1>5, <1>7 DEF StagesOk
<1>9. TreesOk /\ CommitsOk
  BY <1>3, <1>7 DEF TreesOk, CommitsOk, Init, NoTree
<1>10. CreditOk
  BY <1>3, <1>7 DEF CreditOk, Init, Nobody
<1>11. SubjectsOk /\ SignatureOk /\ IdleOk
  BY <1>3, <1>5, <1>7 DEF SubjectsOk, SameGoal, SignatureOk, IdleOk
<1> QED  BY <1>6, <1>8, <1>9, <1>10, <1>11 DEF DriveInv

LEMMA DriveKept == DriveInv /\ [Next]_vars => DriveInv'
<1> SUFFICES ASSUME DriveInv, [Next]_vars PROVE DriveInv'
  OBVIOUS
<1>1. CASE Start(1) \/ Start(Workers)
  BY <1>1, StartKeeps
<1>2. CASE Own
  BY <1>2, AcquireKeeps, AddTreeKeeps, AddSubjectKeeps, AssembleFailsKeeps, AssembledKeeps,
     RefuseKeeps, FinishKeeps, DispatchKeeps, SettleKeeps, MergeKeeps, MergedKeeps, SpendKeeps,
     ReleaseClaimsKeeps, JudgeKeeps, CleanupKeeps, CleanedUpKeeps, ReturnKeeps DEF Own
<1>3. CASE \E i \in Team : Session(i)
  BY <1>3, ClaimKeeps, CommitKeeps, StepDoneKeeps, WriteKeeps, SessionEndsKeeps DEF Session
<1>4. CASE SessionFinishes \/ Kill \/ LoseLease \/ Replace \/ Renew
  BY <1>4, SessionFinishesKeeps, KillKeeps, LoseLeaseKeeps, ReplaceKeeps, RenewKeeps
<1>5. CASE UNCHANGED vars
  <2> USE <1>5 DEF vars, DriveInv
  <2>1. Types'
    BY DEF Types
  <2>2. StagesOk' /\ TreesOk' /\ CommitsOk'
    BY DEF StagesOk, TreesOk, CommitsOk, InWaves, Fast, Tree
  <2>3. CreditOk'
    BY DEF CreditOk, Safe, Awaited, InWaves, Fast, Tree
  <2>4. SubjectsOk'
    BY DEF SubjectsOk, SameGoal, InWaves, Fast, Tree
  <2>5. SignatureOk'
    BY DEF SignatureOk, SameGoal, InWaves, Fast, Tree
  <2>6. IdleOk'
    BY DEF IdleOk, Moved, NewWork, NewBranch, NewState, SameGoal, InWaves, Fast, Tree
  <2> QED  BY <2>1, <2>2, <2>3, <2>4, <2>5, <2>6
<1> QED  BY <1>1, <1>2, <1>3, <1>4, <1>5 DEF Next

LEMMA DriveInvariant == Spec => []DriveInv
BY DriveStart, DriveKept, PTL DEF Spec

(* The goal, the trees, the process of a run and the history of its steps    *)
(* keep their types.                                                         *)
THEOREM TypeCorrect == Spec => []TypeOK
<1>1. DriveInv => TypeOK
  <2> SUFFICES ASSUME Types PROVE TypeOK
    BY DEF DriveInv
  <2>1. /\ d.run \in 0..MaxRuns /\ d.pc \in Stages /\ d.out \in Outcomes
        /\ d.n \in 0..Workers /\ d.at \in 1..Workers + 1 /\ d.wave \in 0..MaxSegments
        /\ d.ready \subseteq Team /\ d.group \in [Team -> SUBSET Steps]
        /\ d.sess \in [Team -> {"off", "on", "ok", "bad"}] /\ d.renewed \in BOOLEAN
    BY PlanAssumption DEF Types, Processes
  <2> QED  BY <2>1 DEF Types, TypeOK, Goals, Worktrees
<1> QED  BY <1>1, DriveInvariant, PTL

(* A goal that a run finished has in the host the work of every step the run *)
(* did, whatever its waves merged, wherever it was stopped before, and also  *)
(* when the goal was registered again under its name meanwhile; and a run    *)
(* that ends as stuck on the goal it was started on, or on one of another    *)
(* name, sent StuckLimit segments in a row that brought neither a commit nor *)
(* a step (runDrive, runDriveWorkers).                                       *)
THEOREM EndsTruly == Spec => []EndIsTrue
<1>1. DriveInv => EndIsTrue
  <2> SUFFICES ASSUME DriveInv PROVE EndIsTrue
    OBVIOUS
  <2>1. FinishIsWhole
    <3>1. goal.status = "done" => d.run # 0
      BY DEF DriveInv, StagesOk
    <3> QED  BY <3>1, DoneIsMerged DEF FinishIsWhole
  <2>2. StuckIsIdle
    BY DEF DriveInv, IdleOk, StuckIsIdle
  <2> QED  BY <2>1, <2>2 DEF EndIsTrue
<1> QED  BY <1>1, DriveInvariant, PTL

-----------------------------------------------------------------------------
(* What a step does to the trees. *)
KeptByStep ==
  /\ host \subseteq host'
  /\ \A t \in Trees :
       /\ tree[t].branch => tree'[t].branch \/ tree[t].commits \subseteq host'
       /\ t \in dirty /\ d.pc # "running" => t \in dirty' /\ tree'[t].on

LEMMA WorkKeptStep == DriveInv /\ [Next]_vars => KeptByStep
<1> SUFFICES ASSUME DriveInv, [Next]_vars PROVE KeptByStep
  OBVIOUS
<1>1. /\ Types /\ Host \notin Trees
      /\ \A t \in Trees : t \in dirty => tree[t].on
      /\ \A t \in Trees : t \in dirty /\ d.pc \in Starting => t[1] # d.run
  BY DEF DriveInv, TreesOk, Host, Trees
<1>2. CASE UNCHANGED <<tree, dirty>> /\ host \subseteq host'
  BY <1>1, <1>2 DEF KeptByStep
<1>3. CASE Acquire
  <2>1. host' = host /\ d.pc = "acquire"
    BY <1>3 DEF Acquire
  <2>2. CASE ~Fast
    <3>1. tree' = tree
      BY <1>3, <2>2 DEF Acquire
    <3> QED  BY <1>1, <1>3, <2>1, <3>1 DEF Acquire, KeptByStep
  <2>3. CASE Fast
    <3>1. tree' = [t \in Trees |-> Pruned(t)]
      BY <1>3, <2>3 DEF Acquire
    <3>2. ASSUME NEW t \in Trees, tree[t].branch
          PROVE  Pruned(t).branch \/ tree[t].commits \subseteq host
      <4>1. /\ Reclaimed(t) \in Worktrees /\ Reclaimed(t).branch = tree[t].branch
        BY <1>1 DEF Reclaimed, Types, Worktrees
      <4> QED  BY <3>2, <4>1 DEF Pruned, Unmerged, Worktrees
    <3>3. \A t \in Trees : t \in dirty => Pruned(t).on
      BY <1>1, PrunedTree
    <3>4. \A t \in Trees : t \in dirty => t \in dirty'
      BY <1>3, <3>1, <3>3 DEF Acquire
    <3> QED  BY <2>1, <3>1, <3>2, <3>3, <3>4 DEF KeptByStep
  <2> QED  BY <2>2, <2>3
<1>4. CASE AddTree
  <2>1. host' = host /\ dirty' = dirty /\ Tree(d.at) \in Trees
    BY <1>4 DEF AddTree, Tree, Trees, DriveInv, Types, Processes, StagesOk
  <2>2. tree' = [tree EXCEPT ![Tree(d.at)] = [on |-> TRUE, branch |-> TRUE, commits |-> host]]
    BY <1>4 DEF AddTree
  <2> QED  BY <1>1, <2>1, <2>2 DEF KeptByStep, Types
<1>5. CASE AssembleFails
  <2>1. /\ host' = host /\ dirty' = dirty /\ d.pc \in Starting
        /\ tree' = [t \in Trees |-> IF t \in {Tree(i) : i \in d.ready}
                                    THEN [tree[t] EXCEPT !.on = FALSE] ELSE tree[t]]
    BY <1>5 DEF AssembleFails, Starting
  <2>2. \A t \in Trees : [tree[t] EXCEPT !.on = FALSE].branch = tree[t].branch
    BY <1>1 DEF Types, Worktrees
  <2>3. \A t \in Trees : t \in dirty => t \notin {Tree(i) : i \in d.ready}
    BY <1>1, <2>1 DEF Tree
  <2> QED  BY <1>1, <2>1, <2>2, <2>3 DEF KeptByStep
<1>6. CASE Cleanup
  <2>1. host' = host /\ Tree(d.at) \in Trees
    BY <1>6 DEF Cleanup, Tree, Trees, Team, DriveInv, Types, Processes, StagesOk
  <2>2. CASE Removable(Tree(d.at))
    <3>1. tree' = [tree EXCEPT ![Tree(d.at)] = Dropped(Tree(d.at))]
      BY <1>6, <2>2 DEF Cleanup
    <3>2. tree[Tree(d.at)].branch =>
            Dropped(Tree(d.at)).branch \/ tree[Tree(d.at)].commits \subseteq host
      BY DEF Dropped, Unmerged
    <3>3. \A t \in Trees : t \in dirty => tree'[t].on
      BY <1>1, <2>1, <2>2, <3>1 DEF Removable, Types
    <3>4. \A t \in Trees : t \in dirty => t \in dirty'
      BY <1>6, <3>3 DEF Cleanup
    <3> QED  BY <1>1, <2>1, <3>1, <3>2, <3>3, <3>4 DEF KeptByStep, Types
  <2>3. CASE ~Removable(Tree(d.at))
    <3>1. tree' = tree
      BY <1>6, <2>3 DEF Cleanup
    <3> QED  BY <1>1, <1>6, <2>1, <3>1 DEF Cleanup, KeptByStep
  <2> QED  BY <2>2, <2>3
<1>7. CASE Own
  <2>1. CASE \/ AddSubject \/ Assembled \/ Refuse \/ NotMine \/ Finish \/ Dispatch \/ Settle
             \/ Merge \/ Merged \/ Spend \/ ReleaseClaims \/ Judge \/ CleanedUp \/ Return
    <3>1. UNCHANGED <<tree, dirty>> /\ host \subseteq host'
      BY <2>1 DEF AddSubject, Assembled, Refuse, NotMine, Finish, Dispatch, Settle, Merge,
         Merged, Spend, ReleaseClaims, Judge, CleanedUp, Return
    <3> QED  BY <1>2, <3>1
  <2> QED  BY <1>3, <1>4, <1>5, <1>6, <1>7, <2>1 DEF Own
<1>8. ASSUME NEW i \in Team, NEW s \in Steps, Commit(i, s)
      PROVE  KeptByStep
  <2>1. d.pc = "running" /\ Tree(i) \in Trees
    BY <1>8 DEF Commit, Working, Tree, Trees, DriveInv, Types, Processes, StagesOk
  <2>2. CASE Fast
    <3>1. host' = host /\ tree' = [tree EXCEPT ![Tree(i)].commits = @ \cup {Work(i, s)}]
      BY <1>8, <2>2 DEF Commit
    <3>2. \A t \in Trees : tree'[t].branch = tree[t].branch
      BY <1>1, <2>1, <3>1 DEF Types, Worktrees
    <3> QED  BY <2>1, <3>1, <3>2 DEF KeptByStep
  <2>3. CASE ~Fast
    BY <1>8, <2>1, <2>3 DEF Commit, KeptByStep
  <2> QED  BY <2>2, <2>3
<1>9. ASSUME NEW i \in Team, Write(i)
      PROVE  KeptByStep
  BY <1>9 DEF Write, Working, KeptByStep
<1>10. ASSUME NEW i \in Team, NEW s \in Steps, Claim(i, s) \/ StepDone(i, s)
       PROVE  KeptByStep
  BY <1>2, <1>10 DEF Claim, StepDone
<1>11. ASSUME NEW i \in Team, SessionEnds(i)
       PROVE  KeptByStep
  BY <1>2, <1>11 DEF SessionEnds
<1>12. CASE \/ Start(1) \/ Start(Workers) \/ SessionFinishes \/ Kill \/ LoseLease \/ Replace
            \/ Renew \/ UNCHANGED vars
  BY <1>2, <1>12 DEF Start, SessionFinishes, Kill, LoseLease, Replace, Renew, vars
<1> QED  BY <1>7, <1>8, <1>9, <1>10, <1>11, <1>12 DEF Next, Session

(* Commits stay reachable and what is not committed stays in a tree that     *)
(* exists, through failed waves, conflicts, kills, clean-up and reclaim, for *)
(* any number of runs and workers (cleanupPhase, reclaim; ADR-0026).         *)
THEOREM WorkStays == Spec => WorkKept
BY WorkKeptStep, DriveInvariant, PTL DEF Spec, WorkKept, KeptByStep

=============================================================================
