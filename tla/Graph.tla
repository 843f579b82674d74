------------------------------- MODULE Graph -------------------------------
(***************************************************************************)
(* The execution graph of a plan (src/core/graph.js): what a plan's deps:  *)
(* lines must satisfy before the plan is adopted (validateDeps, a           *)
(* three-colour walk with an explicit stack), and the orders read from an   *)
(* adopted graph: criticalDepthMap for the dispatch order of drive's waves, *)
(* criticalPath and topoLayers for lzy loop graph.                          *)
(*                                                                         *)
(* A frame of a walk is the item and the edges it has not followed yet.     *)
(* The code follows them in the order of the plan file; here any order is   *)
(* taken, so that what is shown holds however the file lists them.          *)
(***************************************************************************)
EXTENDS Integers, Sequences, FiniteSets, FiniteSetsExt, SequencesExt

CONSTANTS
  Listing,  \* the items of the plan, in plan order
  Strange   \* names a deps: line may hold that no item has

Items == ToSet(Listing)
Names == Items \cup Strange

ASSUME ListingAssumption ==
  /\ Listing \in Seq(Items)
  /\ Strange \cap Items = {}

VARIABLES
  declares,  \* the names on each item's deps: line
  job,       \* which function walks the graph, or what it ended with
  colour,    \* WHITE, GRAY and BLACK of validateDeps; in the other walks
             \* an item the map holds is not white
  stack,     \* the frames of the walk
  rank,      \* what a walk has computed: depth, then layer
  route      \* the cycle a refusal names; then the critical path

graphVars == <<declares, job, colour, stack, rank, route>>

Walks == {"validate", "depth", "layers"}
Ends == {"misnamed", "cyclic", "done"}

GraphTypeOK ==
  /\ declares \in [Items -> SUBSET Names]
  /\ job \in Walks \cup Ends \cup {"declared", "path"}
  /\ colour \in [Items -> {"white", "gray", "black"}]
  /\ stack \in Seq([id : Items, left : SUBSET Items])
  /\ rank \in [Items -> Nat]
  /\ route \in Seq(Items)

Of(c) == {x \in Items : colour[x] = c}
Dependents(x) == {y \in Items : x \in declares[y]}

(* Mutant: depth is measured along the dependencies instead of the        *)
(* dependents.                                                             *)
Edges_down(x) == declares[x]

(* The edges a walk follows from x: what x unlocks for the depth, what x   *)
(* waits for otherwise.                                                    *)
Edges(x) == IF job = "depth" THEN Dependents(x) ELSE declares[x]

Unseen == [x \in Items |-> "white"]
Unranked == [x \in Items |-> 0]

GraphInit ==
  /\ declares \in [Items -> SUBSET Names]
  /\ job = "declared"
  /\ colour = Unseen
  /\ stack = <<>>
  /\ rank = Unranked
  /\ route = <<>>

(* validateDeps, first loop: an item that waits for itself or for a name    *)
(* the plan does not have refuses the plan before any walk.                 *)
Misnamed == \E x \in Items : x \in declares[x] \/ ~(declares[x] \subseteq Items)

Name ==
  /\ job = "declared"
  /\ job' = IF Misnamed THEN "misnamed" ELSE "validate"
  /\ UNCHANGED <<declares, colour, stack, rank, route>>

(* Mutant: an item is closed when it is entered. *)
Entered_black == "black"

(* The colour of an item whose frame is on the stack. *)
Entered == "gray"

Enter(x) ==
  /\ colour' = [colour EXCEPT ![x] = Entered]
  /\ rank' = [rank EXCEPT ![x] = 0]

(* The outer loop: the first white item of the plan starts a walk. *)
EnterFirst ==
  /\ job \in Walks /\ stack = <<>>
  /\ \E i \in DOMAIN Listing :
       /\ colour[Listing[i]] = "white"
       /\ \A k \in 1..(i - 1) : colour[Listing[k]] # "white"
       /\ stack' = <<[id |-> Listing[i], left |-> Edges(Listing[i])]>>
       /\ Enter(Listing[i])
  /\ UNCHANGED <<declares, job, route>>

Top == stack[Len(stack)]
Consumed(n) == [stack EXCEPT ![Len(stack)].left = @ \ {n}]

(* An edge to a white item is entered. *)
Descend ==
  /\ job \in Walks /\ stack # <<>>
  /\ \E n \in Top.left :
       /\ colour[n] = "white"
       /\ stack' = Append(Consumed(n), [id |-> n, left |-> Edges(n)])
       /\ Enter(n)
  /\ UNCHANGED <<declares, job, route>>

(* An edge to an item that was seen is passed over, but for a grey one in   *)
(* validateDeps.                                                            *)
Pass ==
  /\ job \in Walks /\ stack # <<>>
  /\ \E n \in Top.left :
       /\ colour[n] # "white"
       /\ job = "validate" => colour[n] # "gray"
       /\ stack' = Consumed(n)
  /\ UNCHANGED <<declares, job, colour, rank, route>>

(* validateDeps meets a grey item: the plan is refused with the part of the *)
(* stack that begins there.                                                 *)
MeetGray ==
  /\ job = "validate" /\ stack # <<>>
  /\ \E n \in Top.left :
       /\ colour[n] = "gray"
       /\ \E k \in 1..Len(stack) :
            /\ stack[k].id = n
            /\ route' = [i \in 1..(Len(stack) - k + 1) |-> stack[k + i - 1].id]
  /\ job' = "cyclic"
  /\ UNCHANGED <<declares, colour, stack, rank>>

Highest(S) == Max({0} \cup {rank[y] : y \in S})

(* What a frame leaves in the map when its edges are followed. *)
RankOf(x) == CASE job = "depth"  -> 1 + Highest(Dependents(x))
               [] job = "layers" -> IF declares[x] = {} THEN 0 ELSE 1 + Highest(declares[x])
               [] OTHER          -> 0

Leave ==
  /\ job \in Walks /\ stack # <<>> /\ Top.left = {}
  /\ stack' = SubSeq(stack, 1, Len(stack) - 1)
  /\ colour' = [colour EXCEPT ![Top.id] = "black"]
  /\ rank' = [rank EXCEPT ![Top.id] = RankOf(Top.id)]
  /\ UNCHANGED <<declares, job, route>>

(* A walk is over.  Only an accepted graph is read further. *)
Over ==
  /\ job \in Walks /\ stack = <<>> /\ Of("white") = {}
  /\ job' = CASE job = "validate" -> "depth" [] job = "depth" -> "path"
              [] job = "layers" -> "done"
  /\ colour' = IF job = "validate" THEN Unseen ELSE colour
  /\ UNCHANGED <<declares, stack, rank, route>>

(* The deepest item of S, the first of them in plan order. *)
Deepest(S) ==
  LET best == {x \in S : \A y \in S : rank[y] <= rank[x]}
  IN Listing[SelectInSeq(Listing, LAMBDA x : x \in best)]

(* criticalPath: from the deepest item along the deepest dependent. *)
Onward == IF route = <<>> THEN Items ELSE Dependents(route[Len(route)])

Extend ==
  /\ job = "path" /\ Onward # {}
  /\ route' = Append(route, Deepest(Onward))
  /\ UNCHANGED <<declares, job, colour, stack, rank>>

Arrive ==
  /\ job = "path" /\ Onward = {}
  /\ job' = "layers"
  /\ colour' = Unseen
  /\ rank' = Unranked
  /\ UNCHANGED <<declares, stack, route>>

GraphNext == Name \/ EnterFirst \/ Descend \/ Pass \/ MeetGray \/ Leave \/ Over
               \/ Extend \/ Arrive
GraphSpec == GraphInit /\ [][GraphNext]_graphVars

-----------------------------------------------------------------------------
(* Properties *)

(* A set of items each of which waits for another of the set can never be   *)
(* finished: the graph has an order when there is none.                     *)
Waiting(S) == \A x \in S : declares[x] \cap S # {}
Orderable == \A S \in SUBSET Items : S # {} => ~Waiting(S)

Accepted == job \in {"depth", "path", "layers", "done"}

(* Each item of the route waits for the next one, the last for the first.   *)
Circular(r) ==
  /\ Len(r) > 0
  /\ \A i \in 1..Len(r) : r[IF i = Len(r) THEN 1 ELSE i + 1] \in declares[r[i]]

(* A plan is adopted only when its steps can be done in some order and name *)
(* no strange item, and what a refusal shows is a cycle of the plan         *)
(* (validateDeps): otherwise a plan is adopted whose steps wait for each    *)
(* other for ever, or a good one is refused.                                *)
AcceptsJustOrders ==
  /\ Accepted => /\ Orderable
                 /\ \A x \in Items : declares[x] \subseteq Items
  /\ job = "cyclic" => Circular(route)

(* The longest chain of items that begins at x, each waiting for the one    *)
(* before it; and the longest that ends there.                              *)
Unlocks[x \in Items] == 1 + Max({0} \cup {Unlocks[y] : y \in Dependents(x)})
Waits[x \in Items] == IF declares[x] = {} THEN 0
                      ELSE 1 + Max({Waits[y] : y \in declares[x]})

(* The depths that rank a wave are the lengths of the longest chains, the   *)
(* critical path is such a chain, and the layers are the longest waits:     *)
(* a walk that ranks an item before what it depends on has been ranked      *)
(* would send the wrong steps first.                                        *)
RanksAreLongest ==
  /\ job = "path" => rank = Unlocks
  /\ job = "layers" =>
       /\ \A i \in 1..(Len(route) - 1) : route[i] \in declares[route[i + 1]]
       /\ Len(route) = Max({0} \cup {Unlocks[x] : x \in Items})
  /\ job = "done" => rank = Waits
=============================================================================
