--------------------------- MODULE Delivery_proof ---------------------------
EXTENDS Delivery, SequenceTheorems, NaturalsInduction, WellFoundedInduction, TLAPS

-----------------------------------------------------------------------------
(* The last of a set of indexes. *)

LEMMA LeastExists ==
  ASSUME NEW T \in SUBSET Nat, T # {}
  PROVE  \E x \in T : \A y \in T : x <= y
<1>1. IsWellFoundedOn(OpToRel(<, Nat), Nat)
  BY NatLessThanWellFounded
<1>2. \E x \in T : \A y \in T : ~(<<y, x>> \in OpToRel(<, Nat))
  BY <1>1, WFMin
<1>3. PICK x \in T : \A y \in T : ~(<<y, x>> \in OpToRel(<, Nat))
  BY <1>2
<1>4. \A y \in T : ~(y < x)
  BY <1>3 DEF OpToRel
<1> QED  BY <1>4

LEMMA LastIsOne ==
  ASSUME NEW L \in Nat, NEW S \in SUBSET (1..L)
  PROVE  /\ S = {} => Last(S) = 0
         /\ S # {} => Last(S) \in S /\ \A m \in S : m <= Last(S)
<1>1. CASE S = {}
  BY <1>1 DEF Last
<1>2. CASE S # {}
  <2> DEFINE T == {m \in Nat : L - m \in S}
  <2>1. T # {}
    <3>1. PICK n \in S : TRUE
      BY <1>2
    <3>2. L - n \in Nat /\ L - (L - n) = n
      OBVIOUS
    <3> QED  BY <3>1, <3>2
  <2>2. PICK x \in T : \A y \in T : x <= y
    BY <2>1, LeastExists
  <2>3. L - x \in S /\ \A m \in S : m <= L - x
    <3>1. \A m \in S : L - m \in T
      OBVIOUS
    <3> QED  BY <2>2, <3>1
  <2> QED  BY <1>2, <2>3 DEF Last
<1> QED  BY <1>1, <1>2

-----------------------------------------------------------------------------
(* What holds of each file, process and service between two steps.          *)

Sending == {"push", "list", "view", "create", "created", "ci", "merge", "merged", "rejected",
            "settle"}
Seen == {"sawMerged", "sawOpen", "sawClosed"}
Showing == {"poll", "fetch", "aligned"}
WithPull == {"ci", "merge", "merged", "rejected", "settle"} \cup Seen

IsMerged(k) == k \in DOMAIN pulls /\ pulls[k].state = "MERGED"
ShownAt(of) == of <= site /\ IsMerged(of)
Declares(h) == \E n \in DOMAIN intents : intents[n].ep = "B" /\ intents[n].of = h

(* The merge an intent records happened, and was green if it says so; a     *)
(* verified endpoint C was deployed.                                        *)
IntentOk(r) ==
  /\ r.of # 0 /\ (r.ep = "B" => r.of \in Heads)
  /\ r.sha # 0 => IsMerged(r.sha) /\ (r.green => pulls[r.sha].green)
  /\ r.ep = "C" /\ r.status = "done" => ShownAt(r.of)

(* What an act merged was checked, and declared. *)
PullOk(r) == r.by = "act" => r.state = "MERGED" /\ r.head \in green /\ Declares(r.head)

(* So is what it asked to be merged. *)
FlightOk(m) == m.pr \in DOMAIN pulls /\ m.head \in green /\ Declares(m.head)

(* Where a process is, and what it has seen on its way there. *)
HandOk(k) ==
  /\ k.at \in ActStages \cup ReadStages => k.n \in DOMAIN intents /\ intents[k.n].ep = k.ep
  /\ k.at \in Sending \cup Seen => k.ep = "B"
  /\ k.at \in Showing => k.ep = "C"
  /\ k.at \in WithPull => k.pr \in DOMAIN pulls
  /\ k.at \in {"push", "list"} => k.pr = 0
  /\ k.at = "view" => k.pr = 0 \/ k.pr \in DOMAIN pulls
  /\ k.at = "merge" => intents[k.n].of \in green
  /\ k.at \in {"settle", "sawMerged"} => IsMerged(k.pr)
  /\ k.at \in {"fetch", "aligned"} => ShownAt(intents[k.n].of)
  /\ k.at \in ChainStages => k.item \in Items
  /\ k.at # "idle" /\ k.item # None /\ k.ep = "C" => Delivered(k.item, "B")
  /\ k.at = "reached" => \A ep \in Required(k.item) : Delivered(k.item, ep)

Good ==
  /\ \A n \in DOMAIN intents : IntentOk(intents[n])
  /\ \A k \in DOMAIN pulls : PullOk(pulls[k])
  /\ \A m \in inflight : FlightOk(m)
  /\ site # 0 => IsMerged(site)
  /\ \A p \in Hands : HandOk(hand[p])

Inv == TypeOK /\ Good

LEMMA Typed ==
  ASSUME TypeOK
  PROVE  /\ Len(intents) \in Nat /\ DOMAIN intents = 1..Len(intents)
         /\ \A n \in DOMAIN intents : intents[n] \in Intents
         /\ Len(pulls) \in Nat /\ DOMAIN pulls = 1..Len(pulls) /\ Len(pulls) <= MaxPulls
         /\ \A k \in DOMAIN pulls : pulls[k] \in Pulls /\ k \in Shas
         /\ head \in Nat /\ tip \in Nat /\ site \in Nat
<1>1. /\ Len(intents) \in Nat /\ DOMAIN intents = 1..Len(intents)
      /\ \A n \in DOMAIN intents : intents[n] \in Intents
  BY LenProperties DEF TypeOK
<1>2. /\ Len(pulls) \in Nat /\ DOMAIN pulls = 1..Len(pulls) /\ Len(pulls) <= MaxPulls
      /\ \A k \in DOMAIN pulls : pulls[k] \in Pulls
  BY LenProperties DEF TypeOK
<1>3. \A k \in DOMAIN pulls : k \in Shas
  BY <1>2, BoundsAssumption DEF Shas
<1>4. head \in Nat /\ tip \in Nat /\ site \in Nat
  BY BoundsAssumption DEF TypeOK, Heads, Shas
<1> QED  BY <1>1, <1>2, <1>3, <1>4

(* A step of the ledger: no intent loses its name, or the merge it records, *)
(* and none that is done is opened again; what it says now is true of the   *)
(* services before the step.                                                *)
LedgerOp ==
  /\ intents' \in Seq(Intents)
  /\ \A n \in DOMAIN intents :
       /\ n \in DOMAIN intents'
       /\ intents'[n].ep = intents[n].ep /\ intents'[n].of = intents[n].of
       /\ intents'[n].origin = intents[n].origin
       /\ intents[n].status = "done" => intents'[n].status = "done"
       /\ intents[n].sha # 0 => intents'[n].sha # 0
  /\ \A n \in DOMAIN intents' : IntentOk(intents'[n])

(* ... and one that sends nothing leaves no other intent unsettled. *)
Settling ==
  \A n \in DOMAIN intents' :
    intents'[n].status \in Unsettled => n \in DOMAIN intents /\ intents[n].status \in Unsettled

(* A step of the services: merges, checks and deployments stay, and what is *)
(* merged for an act was checked and declared.                              *)
ServiceOp ==
  /\ tip' \in 0..MaxHeads /\ pulls' \in Seq(Pulls) /\ Len(pulls') <= MaxPulls
  /\ green' \subseteq Heads /\ site' \in Shas
  /\ \A k \in DOMAIN pulls :
       /\ k \in DOMAIN pulls'
       /\ pulls[k].state = "MERGED" => pulls'[k].state = "MERGED"
       /\ pulls[k].green => pulls'[k].green
  /\ green \subseteq green' /\ site <= site'
  /\ site' # 0 => site' \in DOMAIN pulls' /\ pulls'[site'].state = "MERGED"
  /\ \A k \in DOMAIN pulls' :
       pulls'[k].by = "act" =>
         pulls'[k].state = "MERGED" /\ pulls'[k].head \in green' /\ Declares(pulls'[k].head)
  /\ inflight' \subseteq [pr : Shas, head : Heads]
  /\ \A m \in inflight' : m.pr \in DOMAIN pulls' /\ m.head \in green' /\ Declares(m.head)

(* What such steps leave true. *)
LEMMA Lasting ==
  ASSUME Inv, LedgerOp, ServiceOp
  PROVE  /\ \A n \in DOMAIN intents' : IntentOk(intents[n])'
         /\ \A k \in DOMAIN pulls' : PullOk(pulls[k])'
         /\ \A m \in inflight' : FlightOk(m)'
         /\ (site # 0 => IsMerged(site))'
         /\ \A i, ep : Delivered(i, ep) => Delivered(i, ep)'
         /\ \A k \in {Idle} \cup Busy : HandOk(k) => HandOk(k)'
<1>t. /\ site \in Nat /\ site' \in Nat
      /\ \A n \in DOMAIN intents : intents[n] \in Intents
      /\ \A n \in DOMAIN intents' : intents'[n] \in Intents
  BY Typed, LenProperties, BoundsAssumption DEF Inv, ServiceOp, LedgerOp, Shas
<1>m. \A k : IsMerged(k) => IsMerged(k)'
  BY DEF IsMerged, ServiceOp
<1>s. \A of \in Nat : ShownAt(of) => ShownAt(of)'
  BY <1>t, <1>m DEF ShownAt, ServiceOp
<1>d. \A h : Declares(h) => Declares(h)'
  BY DEF Declares, LedgerOp
<1>1. \A n \in DOMAIN intents' : IntentOk(intents[n])'
  <2> SUFFICES ASSUME NEW n \in DOMAIN intents' PROVE IntentOk(intents[n])'
    OBVIOUS
  <2>1. IntentOk(intents'[n]) /\ intents'[n].of \in Nat
    BY <1>t DEF LedgerOp, Intents
  <2>2. IsMerged(intents'[n].sha) /\ pulls[intents'[n].sha].green => pulls'[intents'[n].sha].green
    BY DEF IsMerged, ServiceOp
  <2> QED  BY <2>1, <2>2, <1>m, <1>s DEF IntentOk
<1>2. \A k \in DOMAIN pulls' : PullOk(pulls[k])'
  BY <1>d DEF PullOk, ServiceOp
<1>3. \A m \in inflight' : FlightOk(m)'
  BY <1>d DEF FlightOk, ServiceOp
<1>4. (site # 0 => IsMerged(site))'
  BY DEF IsMerged, ServiceOp
<1>5. ASSUME NEW i, NEW ep, Delivered(i, ep) PROVE Delivered(i, ep)'
  <2>1. PICK n \in DOMAIN intents :
          /\ intents[n].ep = ep /\ intents[n].origin = i /\ intents[n].status = "done"
          /\ ep = "B" => /\ IsMerged(intents[n].sha)
                         /\ \E k \in DOMAIN pulls : pulls[k].state = "MERGED" /\ pulls[k].green
          /\ ep # "B" => intents[n].of <= site
    BY <1>5 DEF Delivered, IsMerged
  <2>2. /\ n \in DOMAIN intents' /\ intents'[n].ep = ep /\ intents'[n].origin = i
        /\ intents'[n].status = "done" /\ intents'[n].of = intents[n].of
    BY <2>1 DEF LedgerOp
  <2>3. CASE ep = "B"
    <3>1. \E k \in DOMAIN pulls' : pulls'[k].state = "MERGED" /\ pulls'[k].green
      BY <2>1, <2>3 DEF ServiceOp
    <3>2. intents'[n].sha # 0
      BY <2>1, <2>3, Typed DEF LedgerOp, IsMerged, Inv
    <3>3. IsMerged(intents[n].sha)'
      BY <1>1, <2>2, <3>2 DEF IntentOk
    <3> QED  BY <2>2, <2>3, <3>1, <3>3 DEF Delivered, IsMerged
  <2>4. CASE ep # "B"
    <3>1. intents[n].of \in Nat /\ intents[n].of <= site
      BY <1>t, <2>1, <2>4 DEF Intents
    <3>2. intents'[n].of <= site'
      BY <1>t, <2>2, <3>1 DEF ServiceOp
    <3> QED  BY <2>2, <2>4, <3>2 DEF Delivered
  <2> QED  BY <2>3, <2>4
<1>6. ASSUME NEW k \in {Idle} \cup Busy, HandOk(k) PROVE HandOk(k)'
  <2>1. k.n \in DOMAIN intents =>
          /\ k.n \in DOMAIN intents' /\ intents'[k.n].ep = intents[k.n].ep
          /\ intents'[k.n].of = intents[k.n].of /\ intents[k.n].of \in Nat
    BY <1>t DEF LedgerOp, Intents
  <2>2. k.pr \in DOMAIN pulls => k.pr \in DOMAIN pulls'
    BY DEF ServiceOp
  <2>3. green \subseteq green'
    BY DEF ServiceOp
  <2>4. k.at \in {"merge", "fetch", "aligned"} => k.n \in DOMAIN intents
    BY <1>6 DEF HandOk, ActStages, ReadStages
  <2>5. k.at \in {"fetch", "aligned"} => ShownAt(intents[k.n].of)'
    <3>1. SUFFICES ASSUME k.at \in {"fetch", "aligned"} PROVE ShownAt(intents[k.n].of)'
      OBVIOUS
    <3>2. PICK of \in Nat : of = intents[k.n].of /\ of = intents'[k.n].of
      BY <2>1, <2>4, <3>1
    <3>3. ShownAt(of)
      BY <1>6, <3>1, <3>2 DEF HandOk
    <3>4. ShownAt(of)'
      BY <1>s, <3>3
    <3> QED  BY <3>2, <3>4
  <2>6. /\ k.at # "idle" /\ k.item # None /\ k.ep = "C" => Delivered(k.item, "B")'
        /\ k.at = "reached" => \A ep \in Required(k.item) : Delivered(k.item, ep)'
    BY <1>5, <1>6 DEF HandOk
  <2> QED  BY <1>6, <1>m, <2>1, <2>2, <2>3, <2>4, <2>5, <2>6 DEF HandOk
<1> QED  BY <1>1, <1>2, <1>3, <1>4, <1>5, <1>6

-----------------------------------------------------------------------------
(* The steps of the ledger. *)

LEMMA LedgerKept ==
  ASSUME Inv, intents' = intents
  PROVE  LedgerOp /\ Settling
<1>1. \A n \in DOMAIN intents : IntentOk(intents[n])
  BY DEF Inv, Good
<1> QED  BY <1>1 DEF Inv, TypeOK, LedgerOp, Settling

LEMMA LedgerChange ==
  ASSUME Inv, NEW n \in DOMAIN intents, NEW r \in Intents, intents' = [intents EXCEPT ![n] = r],
         r.ep = intents[n].ep, r.of = intents[n].of, r.origin = intents[n].origin,
         intents[n].status = "done" => r.status = "done",
         intents[n].sha # 0 => r.sha # 0, IntentOk(r)
  PROVE  /\ LedgerOp
         /\ (r.status \in Unsettled => intents[n].status \in Unsettled) => Settling
<1>1. \A m \in DOMAIN intents : IntentOk(intents[m])
  BY DEF Inv, Good
<1>2. /\ intents' \in Seq(Intents) /\ DOMAIN intents' = DOMAIN intents
      /\ \A m \in DOMAIN intents : intents'[m] = IF m = n THEN r ELSE intents[m]
  BY Typed, ExceptSeq, LenProperties DEF Inv, TypeOK
<1>3. LedgerOp
  BY <1>1, <1>2 DEF LedgerOp
<1>4. (r.status \in Unsettled => intents[n].status \in Unsettled) => Settling
  BY <1>2 DEF Settling
<1> QED  BY <1>3, <1>4

LEMMA Settled ==
  ASSUME Inv, NEW n \in DOMAIN intents, NEW to \in {"unknown", "failed", "refused", "intended"},
         Settle(n, to)
  PROVE  LedgerOp /\ Settling
<1>1. CASE intents' = intents
  BY <1>1, LedgerKept
<1>2. CASE intents' # intents
  <2>1. /\ to \in Transitions(intents[n].status)
        /\ intents' = [intents EXCEPT ![n] = [intents[n] EXCEPT !.status = to]]
    BY <1>2 DEF Settle
  <2>2. intents[n] \in Intents /\ IntentOk(intents[n])
    BY Typed DEF Inv, Good
  <2>3. PICK r : r = [intents[n] EXCEPT !.status = to]
    OBVIOUS
  <2>4. /\ r \in Intents /\ r.ep = intents[n].ep /\ r.of = intents[n].of
        /\ r.origin = intents[n].origin /\ r.status = to
        /\ r.sha = intents[n].sha /\ r.green = intents[n].green
    BY <2>2, <2>3 DEF Intents, Statuses
  <2>5. /\ intents[n].status # "done"
        /\ r.status \in Unsettled => intents[n].status \in Unsettled
    BY <2>1, <2>2, <2>4 DEF Transitions, Unsettled, Intents, Statuses
  <2>6. IntentOk(r)
    BY <2>2, <2>4 DEF IntentOk
  <2> QED  BY <2>1, <2>3, <2>4, <2>5, <2>6, LedgerChange
<1> QED  BY <1>1, <1>2

LEMMA Recorded ==
  ASSUME Inv, NEW n \in DOMAIN intents, intents[n].ep = "B", NEW k, IsMerged(k), NEW ok \in BOOLEAN,
         ok => pulls[k].green, SettleMerged(n, k, ok) \/ Annotate(n, k, ok)
  PROVE  LedgerOp /\ Settling
<1>1. CASE intents' = intents
  BY <1>1, LedgerKept
<1>2. CASE intents' # intents
  <2>1. intents[n] \in Intents /\ IntentOk(intents[n]) /\ k \in Shas /\ k # 0
    BY Typed DEF Inv, Good, IsMerged
  <2>2. PICK to \in {"done", intents[n].status} :
          intents' = [intents EXCEPT ![n] = [intents[n] EXCEPT !.status = to, !.sha = k, !.green = ok]]
    <3>1. CASE SettleMerged(n, k, ok)
      BY <1>2, <3>1 DEF SettleMerged
    <3>2. CASE Annotate(n, k, ok)
      <4>1. [intents[n] EXCEPT !.status = intents[n].status, !.sha = k, !.green = ok]
              = [intents[n] EXCEPT !.sha = k, !.green = ok]
        BY <2>1 DEF Intents
      <4> QED  BY <3>2, <4>1 DEF Annotate
    <3> QED  BY <3>1, <3>2
  <2>3. PICK r : r = [intents[n] EXCEPT !.status = to, !.sha = k, !.green = ok]
    OBVIOUS
  <2>4. to \in Statuses
    BY <2>1 DEF Intents, Statuses
  <2>5. /\ r \in Intents /\ r.ep = intents[n].ep /\ r.of = intents[n].of
        /\ r.origin = intents[n].origin /\ r.status = to /\ r.sha = k /\ r.green = ok
    BY <2>1, <2>3, <2>4 DEF Intents
  <2>6. IntentOk(r)
    BY <2>1, <2>5 DEF IntentOk
  <2>7. /\ intents[n].status = "done" => r.status = "done"
        /\ r.status \in Unsettled => intents[n].status \in Unsettled
    BY <2>2, <2>5 DEF Unsettled
  <2>8. intents' = [intents EXCEPT ![n] = r]
    BY <2>2, <2>3
  <2>9. r.sha # 0
    BY <2>1, <2>5
  <2> QED  BY <2>5, <2>6, <2>7, <2>8, <2>9, LedgerChange
<1> QED  BY <1>1, <1>2

LEMMA ShownSettled ==
  ASSUME Inv, NEW n \in DOMAIN intents, intents[n].ep = "C", ShownAt(intents[n].of), SettleShown(n)
  PROVE  LedgerOp /\ Settling
<1>1. CASE intents' = intents
  BY <1>1, LedgerKept
<1>2. CASE intents' # intents
  <2>1. intents[n] \in Intents /\ IntentOk(intents[n])
    BY Typed DEF Inv, Good
  <2>2. PICK r : r = [intents[n] EXCEPT !.status = "done", !.shown = TRUE]
    OBVIOUS
  <2>3. intents' = [intents EXCEPT ![n] = r]
    BY <1>2, <2>2 DEF SettleShown
  <2>4. /\ r \in Intents /\ r.ep = intents[n].ep /\ r.of = intents[n].of
        /\ r.origin = intents[n].origin /\ r.status = "done"
        /\ r.sha = intents[n].sha /\ r.green = intents[n].green
    BY <2>1, <2>2 DEF Intents, Statuses
  <2>5. IntentOk(r)
    BY <2>1, <2>4 DEF IntentOk
  <2> QED  BY <2>3, <2>4, <2>5, LedgerChange DEF Unsettled
<1> QED  BY <1>1, <1>2

LEMMA Remarked ==
  ASSUME Inv, NEW n \in DOMAIN intents, NEW b \in BOOLEAN,
         intents' = [intents EXCEPT ![n].shown = b]
  PROVE  LedgerOp /\ Settling
<1>1. intents[n] \in Intents /\ IntentOk(intents[n])
  BY Typed DEF Inv, Good
<1>2. PICK r : r = [intents[n] EXCEPT !.shown = b]
  OBVIOUS
<1>3. /\ r \in Intents /\ r.ep = intents[n].ep /\ r.of = intents[n].of
      /\ r.origin = intents[n].origin /\ r.status = intents[n].status
      /\ r.sha = intents[n].sha /\ r.green = intents[n].green
  BY <1>1, <1>2 DEF Intents
<1>4. IntentOk(r)
  BY <1>1, <1>3 DEF IntentOk
<1> QED  BY <1>2, <1>3, <1>4, LedgerChange

(* beginAct: an intent that may be acted on again, or a new one.  The only   *)
(* step that is not Settling.                                               *)
LEMMA Declaring ==
  ASSUME Inv, NEW ep \in Eps, NEW i \in Items \cup {None}, NEW of \in Nat,
         of # 0, ep = "B" => of \in Heads, Free(ep, of), Declared(ep, of, i)
  PROVE  LET n == IF IndexesOf(ep, of) = {} THEN Len(intents) + 1 ELSE Last(IndexesOf(ep, of)) IN
         /\ LedgerOp
         /\ n \in DOMAIN intents' /\ intents'[n].ep = ep /\ n \in Nat
         /\ \A m \in DOMAIN intents' : m # n => m \in DOMAIN intents /\ intents'[m] = intents[m]
<1> DEFINE S == IndexesOf(ep, of)
<1>t. /\ intents \in Seq(Intents) /\ Len(intents) \in Nat /\ DOMAIN intents = 1..Len(intents)
      /\ \A n \in DOMAIN intents : intents[n] \in Intents /\ IntentOk(intents[n])
  BY Typed DEF Inv, Good, TypeOK
<1>s. S \in SUBSET (1..Len(intents))
  BY <1>t DEF IndexesOf
<1>1. CASE S = {}
  <2>1. Last(S) = 0
    BY <1>1, <1>s, <1>t, LastIsOne
  <2>2. PICK r : r = [ep |-> ep, of |-> of, status |-> "acting", sha |-> 0, green |-> FALSE,
                      shown |-> FALSE, origin |-> i]
    OBVIOUS
  <2>3. r \in Intents
    BY <2>2, BoundsAssumption DEF Intents, Statuses, Shas
  <2>4. intents' = Append(intents, r)
    BY <2>1, <2>2 DEF Declared
  <2>5. /\ intents' \in Seq(Intents) /\ Len(intents') = Len(intents) + 1
        /\ \A m \in 1..Len(intents) : intents'[m] = intents[m]
        /\ intents'[Len(intents) + 1] = r
    BY <1>t, <2>3, <2>4, AppendProperties
  <2>6. DOMAIN intents' = 1..(Len(intents) + 1)
    BY <2>5, LenProperties
  <2>7. IntentOk(r)
    BY <2>2 DEF IntentOk
  <2>8. \A m \in DOMAIN intents' : m \in DOMAIN intents \/ m = Len(intents) + 1
    BY <1>t, <2>6
  <2>9. LedgerOp
    BY <1>t, <2>5, <2>6, <2>7, <2>8 DEF LedgerOp
  <2> QED  BY <1>1, <1>t, <2>2, <2>5, <2>6, <2>8, <2>9
<1>2. CASE S # {}
  <2>1. PICK n \in DOMAIN intents : n = Last(S) /\ intents[n].ep = ep /\ intents[n].of = of
                                    /\ intents[n].status \in Actable
    <3>1. Last(S) \in S
      BY <1>2, <1>s, <1>t, LastIsOne
    <3> QED  BY <3>1 DEF IndexesOf, Free
  <2>2. PICK r : r = [intents[n] EXCEPT !.status = "acting"]
    OBVIOUS
  <2>3. intents' = [intents EXCEPT ![n] = r]
    BY <1>t, <2>1, <2>2 DEF Declared
  <2>4. /\ r \in Intents /\ r.ep = ep /\ r.of = of /\ r.origin = intents[n].origin
        /\ r.status = "acting" /\ r.sha = intents[n].sha /\ r.green = intents[n].green
    BY <1>t, <2>1, <2>2 DEF Intents, Statuses
  <2>5. intents[n].status # "done"
    BY <2>1 DEF Actable
  <2>6. IntentOk(r)
    BY <1>t, <2>1, <2>4 DEF IntentOk
  <2>7. LedgerOp
    BY <2>1, <2>3, <2>4, <2>5, <2>6, LedgerChange
  <2>8. /\ DOMAIN intents' = DOMAIN intents
        /\ \A m \in DOMAIN intents : intents'[m] = IF m = n THEN r ELSE intents[m]
    BY <2>3
  <2> QED  BY <1>2, <1>t, <2>1, <2>4, <2>7, <2>8
<1> QED  BY <1>1, <1>2

-----------------------------------------------------------------------------
(* The steps of the services. *)

LEMMA ServiceTyped ==
  ASSUME Inv
  PROVE  /\ tip \in 0..MaxHeads /\ pulls \in Seq(Pulls) /\ green \subseteq Heads /\ site \in Shas
         /\ Len(pulls) \in Nat /\ Len(pulls) <= MaxPulls /\ DOMAIN pulls = 1..Len(pulls)
         /\ inflight \subseteq [pr : Shas, head : Heads] /\ site <= site
         /\ site # 0 => IsMerged(site)
         /\ \A k \in DOMAIN pulls : pulls[k] \in Pulls /\ PullOk(pulls[k])
         /\ \A m \in inflight : FlightOk(m)
BY Typed DEF Inv, Good, TypeOK

LEMMA ServiceKept ==
  ASSUME Inv, UNCHANGED service
  PROVE  ServiceOp
BY ServiceTyped DEF service, ServiceOp, PullOk, FlightOk, IsMerged

(* One request changes, and none of what was merged is lost. *)
LEMMA PullChange ==
  ASSUME Inv, NEW k \in DOMAIN pulls, NEW r \in Pulls, pulls' = [pulls EXCEPT ![k] = r],
         pulls[k].state = "MERGED" => r.state = "MERGED", pulls[k].green => r.green,
         PullOk(r), UNCHANGED <<tip, green, site>>,
         inflight' \subseteq [pr : Shas, head : Heads], \A m \in inflight' : FlightOk(m)
  PROVE  ServiceOp
<1>1. /\ pulls' \in Seq(Pulls) /\ Len(pulls') = Len(pulls) /\ DOMAIN pulls' = DOMAIN pulls
      /\ \A m \in DOMAIN pulls : pulls'[m] = IF m = k THEN r ELSE pulls[m]
  BY ServiceTyped, ExceptSeq, LenProperties
<1> QED  BY <1>1, ServiceTyped DEF ServiceOp, PullOk, FlightOk, IsMerged

(* A request is merged: for an act only at a commit that was checked.       *)
LEMMA Merging ==
  ASSUME Inv, NEW k \in DOMAIN pulls, NEW who \in {"act", "other"}, pulls[k].state = "OPEN",
         who = "act" => pulls[k].head \in green /\ Declares(pulls[k].head),
         Merged(k, who), UNCHANGED <<tip, green, site>>, inflight' \subseteq inflight
  PROVE  ServiceOp
<1>1. PICK r : r = [pulls[k] EXCEPT !.state = "MERGED", !.by = who]
  OBVIOUS
<1>2. pulls[k] \in Pulls
  BY ServiceTyped
<1>3. /\ r \in Pulls /\ r.state = "MERGED" /\ r.by = who /\ r.head = pulls[k].head
      /\ r.green = pulls[k].green
  BY <1>1, <1>2 DEF Pulls
<1>4. PullOk(r)
  BY <1>3 DEF PullOk
<1>5. pulls' = [pulls EXCEPT ![k] = r]
  BY <1>1 DEF Merged
<1> QED  BY <1>3, <1>4, <1>5, ServiceTyped, PullChange

(* A merge request is on its way. *)
LEMMA Sent ==
  ASSUME Inv, NEW m \in [pr : Shas, head : Heads], FlightOk(m), inflight' = inflight \cup {m},
         UNCHANGED <<tip, pulls, green, site>>
  PROVE  ServiceOp
BY ServiceTyped DEF ServiceOp, PullOk, FlightOk, IsMerged

LEMMA Pushing ==
  ASSUME Inv, Pushed, UNCHANGED <<green, site, inflight>>
  PROVE  ServiceOp
<1>1. /\ DOMAIN pulls' = DOMAIN pulls
      /\ \A k \in DOMAIN pulls :
           pulls'[k] = IF k \in OpenPulls THEN [pulls[k] EXCEPT !.head = head] ELSE pulls[k]
  BY DEF Pushed
<1>2. \A k \in OpenPulls : k \in DOMAIN pulls /\ pulls[k].state = "OPEN" /\ pulls[k].by # "act"
  BY ServiceTyped DEF OpenPulls, PullOk
<1>3. head \in Heads /\ tip' \in 0..MaxHeads
  BY BoundsAssumption DEF Inv, TypeOK, Heads, Pushed
<1>4. ASSUME NEW k \in DOMAIN pulls
      PROVE  /\ pulls'[k] \in Pulls
             /\ pulls'[k].state = pulls[k].state /\ pulls'[k].green = pulls[k].green
             /\ pulls'[k].by = pulls[k].by
             /\ pulls'[k].by = "act" => pulls'[k] = pulls[k]
  <2>1. pulls[k] \in Pulls
    BY ServiceTyped
  <2>2. CASE k \in OpenPulls
    <3>1. pulls'[k] = [pulls[k] EXCEPT !.head = head]
      BY <1>1, <2>2
    <3>2. /\ pulls'[k] \in Pulls /\ pulls'[k].state = pulls[k].state
          /\ pulls'[k].green = pulls[k].green /\ pulls'[k].by = pulls[k].by
      BY <1>3, <2>1, <3>1 DEF Pulls
    <3> QED  BY <1>2, <2>2, <3>2
  <2>3. CASE k \notin OpenPulls
    BY <1>1, <2>1, <2>3
  <2> QED  BY <2>2, <2>3
<1>5. pulls' \in Seq(Pulls) /\ Len(pulls') = Len(pulls)
  <2>1. pulls' \in [1..Len(pulls) -> Pulls]
    BY <1>1, <1>4, ServiceTyped DEF Pushed
  <2> QED  BY <2>1, ServiceTyped
<1> QED  BY <1>1, <1>3, <1>4, <1>5, ServiceTyped DEF ServiceOp, PullOk, FlightOk, IsMerged

LEMMA Creating ==
  ASSUME Inv, Creatable, Created, UNCHANGED <<tip, green, site, inflight>>
  PROVE  ServiceOp
<1>1. PICK r : r = [head |-> tip, state |-> "OPEN", by |-> None, green |-> FALSE]
  OBVIOUS
<1>2. tip \in Heads
  BY ServiceTyped, BoundsAssumption DEF Creatable, Heads
<1>3. r \in Pulls /\ r.by = None
  BY <1>1, <1>2 DEF Pulls
<1>4. pulls' = Append(pulls, r)
  BY <1>1 DEF Created
<1>5. /\ pulls' \in Seq(Pulls) /\ Len(pulls') = Len(pulls) + 1
      /\ \A k \in 1..Len(pulls) : pulls'[k] = pulls[k]
      /\ pulls'[Len(pulls) + 1] = r
  BY <1>3, <1>4, ServiceTyped, AppendProperties
<1>6. DOMAIN pulls' = 1..(Len(pulls) + 1) /\ Len(pulls') <= MaxPulls
  BY <1>5, LenProperties, ServiceTyped, BoundsAssumption DEF Creatable
<1>7. \A k \in DOMAIN pulls' : k \in DOMAIN pulls \/ k = Len(pulls) + 1
  BY <1>6, ServiceTyped
<1>8. \A k \in DOMAIN pulls : k \in DOMAIN pulls' /\ pulls'[k] = pulls[k]
  BY <1>5, <1>6, ServiceTyped
<1>9. r.by # "act"
  BY <1>3, NoneAssumption
<1> QED
  BY <1>5, <1>6, <1>7, <1>8, <1>9, ServiceTyped DEF ServiceOp, PullOk, FlightOk, IsMerged

-----------------------------------------------------------------------------
(* The steps of a process. *)

States == {"ready", "running"} \cup Terminal

(* What a step that begins no act leaves. *)
Sound == Inv' /\ LedgerOp /\ Settling

LEMMA Placed ==
  ASSUME Inv, LedgerOp, ServiceOp, NEW p \in Hands, NEW v \in {Idle} \cup Busy, HandOk(v)',
         hand' = [hand EXCEPT ![p] = v], head' \in Heads, item' \in [Items -> States],
         governed' = governed, faults' \in 0..MaxFaults
  PROVE  Inv'
<1>1. /\ hand \in [Hands -> {Idle} \cup Busy] /\ governed \in BOOLEAN
      /\ \A q \in Hands : HandOk(hand[q])
  BY DEF Inv, TypeOK, Good
<1>2. hand' \in [Hands -> {Idle} \cup Busy]
  BY <1>1
<1>3. TypeOK'
  BY <1>1, <1>2 DEF TypeOK, LedgerOp, ServiceOp, States
<1>4. \A q \in Hands : HandOk(hand[q])'
  <2> SUFFICES ASSUME NEW q \in Hands PROVE HandOk(hand[q])'
    OBVIOUS
  <2>1. PICK k \in {Idle} \cup Busy : k = hand'[q] /\ (k = v \/ k = hand[q])
    BY <1>1, <1>2
  <2>2. HandOk(k)'
    BY <1>1, <2>1, Lasting
  <2> QED  BY <2>1, <2>2
<1> QED  BY <1>3, <1>4, Lasting DEF Inv, Good

LEMMA Moved ==
  ASSUME Inv, LedgerOp, ServiceOp, NEW p \in Hands, NEW v \in {Idle} \cup Busy, HandOk(v),
         hand' = [hand EXCEPT ![p] = v], head' \in Heads, item' \in [Items -> States],
         governed' = governed, faults' \in 0..MaxFaults
  PROVE  Inv'
<1>1. HandOk(v)'
  BY Lasting
<1> QED  BY <1>1, Placed

(* The world moves while every process stands. *)
LEMMA Stood ==
  ASSUME Inv, LedgerOp, ServiceOp, UNCHANGED hand, head' \in Heads, item' \in [Items -> States],
         governed' = governed, faults' \in 0..MaxFaults
  PROVE  Inv'
<1>1. /\ hand \in [Hands -> {Idle} \cup Busy] /\ governed \in BOOLEAN
      /\ \A q \in Hands : HandOk(hand[q])
  BY DEF Inv, TypeOK, Good
<1>2. \A q \in Hands : HandOk(hand[q])'
  <2> SUFFICES ASSUME NEW q \in Hands PROVE HandOk(hand[q])'
    OBVIOUS
  <2>1. PICK k \in {Idle} \cup Busy : k = hand'[q] /\ k = hand[q]
    BY <1>1
  <2>2. HandOk(k)'
    BY <1>1, <2>1, Lasting
  <2> QED  BY <2>1, <2>2
<1>3. TypeOK'
  BY <1>1 DEF TypeOK, LedgerOp, ServiceOp, States
<1> QED  BY <1>2, <1>3, Lasting DEF Inv, Good

LEMMA Steady ==
  ASSUME Inv, NoFault \/ Fault
  PROVE  governed' = governed /\ faults' \in 0..MaxFaults /\ head \in Heads
         /\ item \in [Items -> States]
BY BoundsAssumption DEF Inv, TypeOK, NoFault, Fault, States

LEMMA Working ==
  ASSUME Inv, NEW p \in Hands, ~At(p, {"idle"})
  PROVE  hand[p] \in Busy /\ HandOk(hand[p])
BY DEF Inv, TypeOK, Good, At, Idle

LEMMA IdleOk == Idle.at = "idle" /\ HandOk(Idle)
BY DEF Idle, HandOk, ActStages, ReadStages, ChainStages, Sending, Seen, Showing, WithPull

(* A process of a chain goes on, one of a person ends. *)
LEMMA Returned ==
  ASSUME Inv, LedgerOp, Settling, ServiceOp, NEW p \in Hands, ~At(p, {"idle"}),
         NEW at \in {"back", "judge", "abort"}, Return(p, at), UNCHANGED <<head, item>>,
         NoFault \/ Fault
  PROVE  Sound
<1>k. hand[p] \in Busy /\ HandOk(hand[p])
  BY Working
<1>1. CASE hand[p].item = None
  <2>1. hand' = [hand EXCEPT ![p] = Idle]
    BY <1>1 DEF Return
  <2> QED  BY <2>1, IdleOk, Steady, Moved DEF Sound
<1>2. CASE hand[p].item # None
  <2>1. PICK v : v = Doing(at, hand[p].ep, hand[p].item, 0)
    OBVIOUS
  <2>2. hand' = [hand EXCEPT ![p] = v]
    BY <1>2, <2>1 DEF Return
  <2>i. hand[p].item \in Items /\ hand[p].ep \in Eps
    BY <1>k, <1>2 DEF Busy
  <2>z. 0 \in Shas /\ at \in ChainStages
    BY BoundsAssumption DEF Shas, ChainStages
  <2>3. /\ v.at = at /\ v.ep = hand[p].ep /\ v.item = hand[p].item /\ v.item \in Items
        /\ v \in Busy
    BY <2>i, <2>z, <2>1 DEF Doing, Busy
  <2>4. hand[p].at # "idle"
    BY DEF At
  <2>5. HandOk(v)
    BY <1>k, <2>3, <2>4 DEF HandOk, ActStages, ReadStages, ChainStages, Sending, Seen, Showing, WithPull
  <2> QED  BY <2>2, <2>3, <2>5, Steady, Moved DEF Sound
<1> QED  BY <1>1, <1>2

LEMMA Failed ==
  ASSUME Inv, ServiceOp, NEW p \in Hands, At(p, ActStages),
         NEW to \in {"unknown", "failed", "refused"}, Fail(p, to), NoFault \/ Fault
  PROVE  Sound
<1>1. ~At(p, {"idle"})
  BY DEF At, ActStages
<1>2. hand[p].n \in DOMAIN intents
  BY <1>1, Working DEF HandOk, At
<1>3. LedgerOp /\ Settling
  BY <1>2, Settled DEF Fail
<1> QED  BY <1>1, <1>3, Returned DEF Fail, Threw

(* A process moves from one stage to the next. *)
LEMMA Stepped ==
  ASSUME Inv, ServiceOp, UNCHANGED <<head, ledger>>, NEW p \in Hands,
         NEW v \in {Idle} \cup Busy, hand' = [hand EXCEPT ![p] = v], HandOk(v), NoFault \/ Fault
  PROVE  Sound
<1>1. LedgerOp /\ Settling
  BY LedgerKept DEF ledger
<1> QED  BY <1>1, Steady, Moved DEF Sound, ledger

LEMMA Gone ==
  ASSUME Inv, NEW p \in Hands, ~At(p, {"idle"}), NEW at \in ActStages \cup ChainStages, Go(p, at)
  PROVE  \E v \in Busy :
           /\ hand' = [hand EXCEPT ![p] = v]
           /\ v.at = at /\ v.ep = hand[p].ep /\ v.item = hand[p].item /\ v.n = hand[p].n
           /\ v.pr = hand[p].pr
<1>1. hand[p] \in Busy
  BY Working
<1>2. PICK v : v = [hand[p] EXCEPT !.at = at]
  OBVIOUS
<1>3. /\ v \in Busy /\ v.at = at /\ v.pr = hand[p].pr /\ v.ep = hand[p].ep
      /\ v.item = hand[p].item /\ v.n = hand[p].n
  BY <1>1, <1>2 DEF Busy
<1> QED  BY <1>2, <1>3 DEF Go

(* Which requests the services answer with. *)
LEMMA OpenOne ==
  ASSUME Inv, OpenPulls # {}
  PROVE  Last(OpenPulls) \in DOMAIN pulls /\ pulls[Last(OpenPulls)].state = "OPEN"
<1>1. OpenPulls \in SUBSET (1..Len(pulls))
  BY ServiceTyped DEF OpenPulls
<1>2. Last(OpenPulls) \in OpenPulls
  BY <1>1, ServiceTyped, LastIsOne
<1> QED  BY <1>2 DEF OpenPulls

LEMMA ViewedOne ==
  ASSUME Inv
  PROVE  /\ pulls # <<>> => Viewed \in DOMAIN pulls
         /\ Viewed # 0 => Viewed \in DOMAIN pulls
<1>1. CASE OpenPulls # {}
  BY <1>1, OpenOne DEF Viewed
<1>2. CASE OpenPulls = {}
  <2>1. pulls # <<>> => Len(pulls) # 0
    BY ServiceTyped
  <2> QED  BY <1>2, <2>1, ServiceTyped DEF Viewed
<1> QED  BY <1>1, <1>2

LEMMA BeginStep ==
  ASSUME Inv, NEW p \in Hands, NEW ep \in Eps, NEW i \in Items \cup {None}, Begin(p, ep, i),
         i # None /\ ep = "C" => Delivered(i, "B")
  PROVE  /\ Inv' /\ LedgerOp
         /\ governed => \A m, n \in DOMAIN intents' :
              intents'[m].status \in Unsettled /\ intents'[n].status \in Unsettled => m = n
<1> DEFINE of == Target(ep)
           n == IF IndexesOf(ep, of) = {} THEN Len(intents) + 1 ELSE Last(IndexesOf(ep, of))
<1>1. of \in Nat /\ (ep = "B" => of \in Heads)
  <2>1. CASE ep = "B"
    BY <2>1, Typed DEF Target, Inv, TypeOK
  <2>2. CASE ep # "B"
    <3> DEFINE S == {m \in DOMAIN intents : /\ intents[m].ep = "B" /\ intents[m].status = "done"
                                            /\ intents[m].sha # 0}
    <3>1. S \in SUBSET (1..Len(intents)) /\ Len(intents) \in Nat
      BY Typed DEF Inv
    <3>2. Last(S) = 0 \/ Last(S) \in DOMAIN intents
      BY <3>1, LastIsOne
    <3>3. \A m \in DOMAIN intents : intents[m].sha \in Nat
      BY Typed, BoundsAssumption DEF Inv, Intents, Shas
    <3> QED  BY <2>2, <3>2, <3>3 DEF Target, MergedB
  <2> QED  BY <2>1, <2>2
<1>2. Free(ep, of) /\ Declared(ep, of, i) /\ of # 0
  BY DEF Begin
<1>3. /\ LedgerOp /\ n \in DOMAIN intents' /\ intents'[n].ep = ep /\ n \in Nat
      /\ \A m \in DOMAIN intents' : m # n => m \in DOMAIN intents /\ intents'[m] = intents[m]
  BY <1>1, <1>2, Declaring
<1>4. ServiceOp
  BY ServiceKept DEF Begin
<1>5. PICK v : v = Doing(IF ep = "B" THEN "push" ELSE "poll", ep, i, n)
  OBVIOUS
<1>6. /\ v.at = (IF ep = "B" THEN "push" ELSE "poll") /\ v.ep = ep /\ v.item = i /\ v.n = n
      /\ v.pr = 0 /\ v \in Busy
  BY <1>3, <1>5, BoundsAssumption DEF Doing, Busy, ActStages, Shas
<1>7. hand' = [hand EXCEPT ![p] = v]
  BY <1>5 DEF Begin
<1>8. HandOk(v)'
  <2>1. i # None /\ ep = "C" => Delivered(i, "B")'
    BY <1>3, <1>4, Lasting
  <2>2. ep = "B" \/ ep = "C"
    BY DEF Eps
  <2>3. /\ v.n \in DOMAIN intents' /\ intents'[v.n].ep = v.ep
    BY <1>3, <1>6
  <2> QED
    BY <1>6, <2>1, <2>2, <2>3
       DEF HandOk, ActStages, ReadStages, ChainStages, Sending, Seen, Showing, WithPull
<1>9. Inv'
  <2>1. UNCHANGED <<head, item, governed, faults>>
    BY DEF Begin
  <2> QED  BY <1>3, <1>4, <1>6, <1>7, <1>8, <2>1, Placed DEF Inv, TypeOK, States
<1>10. governed => \A m \in DOMAIN intents' : intents'[m].status \in Unsettled => m = n
  BY <1>3 DEF Begin, Audited
<1> HIDE DEF n
<1> QED  BY <1>3, <1>9, <1>10

LEMMA PushStep == ASSUME Inv, NEW p \in Hands, Push(p) PROVE Sound
<1>1. ServiceOp
  BY Pushing, ServiceKept DEF Push, service
<1>2. At(p, ActStages) /\ ~At(p, {"idle"}) /\ hand[p].at = "push"
  BY DEF Push, At, ActStages
<1>k. hand[p] \in Busy /\ HandOk(hand[p])
  BY <1>2, Working
<1>3. CASE NoFault /\ Step(p, "list")
  <2>1. PICK v \in Busy :
          /\ hand' = [hand EXCEPT ![p] = v]
          /\ v.at = "list" /\ v.ep = hand[p].ep /\ v.item = hand[p].item /\ v.n = hand[p].n
          /\ v.pr = hand[p].pr
    BY <1>2, <1>3, Gone DEF Step, ActStages
  <2>2. HandOk(v)
    BY <1>2, <1>k, <2>1
       DEF HandOk, ActStages, ReadStages, ChainStages, Sending, Seen, Showing, WithPull
  <2> QED  BY <1>1, <1>3, <2>1, <2>2, Stepped DEF Step
<1>4. ASSUME NEW to \in {"failed", "unknown"}, NoFault \/ Fault, Fail(p, to) PROVE Sound
  BY <1>1, <1>2, <1>4, Failed
<1> QED  BY <1>3, <1>4 DEF Push

(* Steps of act B that only ask. *)
LEMMA AskedNext ==
  ASSUME Inv, ServiceOp, NEW p \in Hands, At(p, Sending), NoFault \/ Fault,
         NEW at \in {"create", "created", "merged", "rejected", "settle", "merge"},
         at \in {"merged", "rejected", "settle", "merge"} => hand[p].pr \in DOMAIN pulls,
         at = "settle" => IsMerged(hand[p].pr),
         at = "merge" => intents[hand[p].n].of \in green,
         Step(p, at)
  PROVE  Sound
<1>1. ~At(p, {"idle"}) /\ at \in ActStages
  BY DEF At, Sending, ActStages
<1>k. hand[p] \in Busy /\ HandOk(hand[p])
  BY <1>1, Working
<1>2. hand[p].at \in Sending /\ hand[p].at \in ActStages
  BY DEF At, Sending, ActStages
<1>3. PICK v \in Busy :
        /\ hand' = [hand EXCEPT ![p] = v]
        /\ v.at = at /\ v.ep = hand[p].ep /\ v.item = hand[p].item /\ v.n = hand[p].n
        /\ v.pr = hand[p].pr
  BY <1>1, Gone DEF Step
<1>4. /\ v.n \in DOMAIN intents /\ intents[v.n].ep = v.ep /\ v.ep = "B"
      /\ v.at # "reached" /\ v.at # "view" /\ v.at \notin ChainStages /\ v.at \notin Showing
      /\ v.at # "sawMerged" /\ v.at # "fetch" /\ v.at # "aligned"
  BY <1>k, <1>2, <1>3 DEF HandOk, ChainStages, Showing
<1>5. HandOk(v)
  BY <1>3, <1>4 DEF HandOk, WithPull, Seen
<1> QED  BY <1>3, <1>5, Stepped DEF Step

(* ... and those that find the request to be merged. *)
LEMMA FoundNext ==
  ASSUME Inv, UNCHANGED service, NEW p \in Hands, At(p, Sending), NoFault \/ Fault,
         NEW at \in {"view", "ci"}, NEW pr, pr \in DOMAIN pulls \/ (at = "view" /\ pr = 0),
         hand' = [hand EXCEPT ![p].at = at, ![p].pr = pr], UNCHANGED <<head, ledger>>
  PROVE  Sound
<1>1. ~At(p, {"idle"}) /\ at \in ActStages /\ pr \in Shas
  BY Typed, BoundsAssumption DEF At, Sending, ActStages, Shas, Inv
<1>k. hand[p] \in Busy /\ HandOk(hand[p])
  BY <1>1, Working
<1>2. hand[p].at \in Sending /\ hand[p].at \in ActStages
  BY DEF At, Sending, ActStages
<1>3. PICK v : v = [hand[p] EXCEPT !.at = at, !.pr = pr]
  OBVIOUS
<1>4. /\ v \in Busy /\ v.at = at /\ v.pr = pr /\ v.ep = hand[p].ep /\ v.item = hand[p].item
      /\ v.n = hand[p].n
  BY <1>k, <1>1, <1>3 DEF Busy
<1>5. hand' = [hand EXCEPT ![p] = v]
  BY <1>3
<1>6. HandOk(v)
  BY <1>k, <1>2, <1>4
     DEF HandOk, ActStages, ReadStages, ChainStages, Sending, Seen, Showing, WithPull
<1>7. ServiceOp
  BY ServiceKept
<1> QED  BY <1>4, <1>5, <1>6, <1>7, Stepped

LEMMA ListStep == ASSUME Inv, NEW p \in Hands, List(p) PROVE Sound
<1>1. At(p, Sending) /\ UNCHANGED service /\ UNCHANGED <<head, ledger>> /\ (NoFault \/ Fault)
      /\ ~At(p, {"idle"}) /\ hand[p].at = "list"
  BY DEF List, At, Sending
<1>k. hand[p] \in Busy /\ HandOk(hand[p])
  BY <1>1, Working
<1>2. CASE OpenPulls # {} /\ hand' = [hand EXCEPT ![p].at = "view", ![p].pr = Last(OpenPulls)]
  BY <1>1, <1>2, OpenOne, FoundNext
<1>3. CASE Go(p, "view")
  <2>1. PICK v \in Busy :
          /\ hand' = [hand EXCEPT ![p] = v]
          /\ v.at = "view" /\ v.ep = hand[p].ep /\ v.item = hand[p].item /\ v.n = hand[p].n
          /\ v.pr = hand[p].pr
    BY <1>1, <1>3, Gone DEF ActStages
  <2>2. hand[p].pr = 0
    BY <1>1, <1>k DEF HandOk
  <2>3. HandOk(v)
    BY <1>1, <1>k, <2>1, <2>2
       DEF HandOk, ActStages, ReadStages, ChainStages, Sending, Seen, Showing, WithPull
  <2> QED  BY <1>1, <2>1, <2>3, Stepped, ServiceKept
<1> QED  BY <1>1, <1>2, <1>3 DEF List

(* The view of a request, and the drift check. *)
LEMMA CheckedOne ==
  ASSUME Inv, UNCHANGED service, NEW p \in Hands, At(p, Sending), NEW k \in DOMAIN pulls,
         Checked(p, k), NoFault
  PROVE  Sound
<1>1. At(p, ActStages) /\ ServiceOp
  BY ServiceKept DEF At, Sending, ActStages
<1>2. CASE Fail(p, "refused")
  BY <1>1, <1>2, Failed
<1>3. CASE hand' = [hand EXCEPT ![p].at = "ci", ![p].pr = k] /\ UNCHANGED <<head, ledger>>
  BY <1>3, FoundNext
<1> QED  BY <1>2, <1>3 DEF Checked

LEMMA ViewOpenStep == ASSUME Inv, NEW p \in Hands, ViewOpen(p) PROVE Sound
<1>1. /\ At(p, Sending) /\ At(p, ActStages) /\ ~At(p, {"idle"}) /\ hand[p].at = "view"
      /\ ServiceOp /\ UNCHANGED service
  BY ServiceKept DEF ViewOpen, At, Sending, ActStages
<1>2. hand[p].pr \in DOMAIN pulls
  BY <1>1, Working DEF HandOk, ViewOpen
<1> QED  BY <1>1, <1>2, CheckedOne, Failed DEF ViewOpen

(* The act ends with what the view says of the merge. *)
LEMMA ClosedOne ==
  ASSUME Inv, ServiceOp, NEW p \in Hands, At(p, Sending), NEW k, IsMerged(k), UNCHANGED <<head, item>>,
         \/ NoFault /\ SettleMerged(hand[p].n, k, pulls[k].green)
         \/ Fault /\ SettleMerged(hand[p].n, k, FALSE),
         Succeeded(p) \/ Threw(p)
  PROVE  Sound
<1>1. ~At(p, {"idle"}) /\ hand[p].at \in Sending /\ hand[p].at \in ActStages
  BY DEF At, Sending, ActStages
<1>2. hand[p].n \in DOMAIN intents /\ intents[hand[p].n].ep = "B"
  BY <1>1, Working DEF HandOk
<1>3. pulls[k].green \in BOOLEAN
  BY Typed DEF Inv, IsMerged, Pulls
<1>4. LedgerOp /\ Settling
  BY <1>2, <1>3, Recorded
<1> QED  BY <1>1, <1>4, Returned DEF Succeeded, Threw

LEMMA ViewBranchStep == ASSUME Inv, NEW p \in Hands, ViewBranch(p) PROVE Sound
<1> DEFINE k == Viewed
           n == hand[p].n
           already == k # 0 /\ pulls[k].state = "MERGED" /\ pulls[k].head = intents[n].of
<1>1. /\ At(p, Sending) /\ At(p, ActStages) /\ ServiceOp /\ UNCHANGED service
  BY ServiceKept DEF ViewBranch, At, Sending, ActStages
<1>2. CASE /\ already
           /\ \/ NoFault /\ SettleMerged(n, k, pulls[k].green)
              \/ Fault /\ SettleMerged(n, k, FALSE)
           /\ Succeeded(p) /\ UNCHANGED <<head, item>>
  <2>1. IsMerged(k)
    BY <1>2, ViewedOne DEF IsMerged
  <2> HIDE DEF k
  <2> QED  BY <1>1, <1>2, <2>1, ClosedOne
<1>3. CASE (NoFault \/ Fault) /\ Step(p, "create")
  BY <1>1, <1>3, AskedNext
<1>4. CASE Fault /\ Fail(p, "failed")
  BY <1>1, <1>4, Failed
<1> QED  BY <1>2, <1>3, <1>4 DEF ViewBranch

LEMMA CreateStep == ASSUME Inv, NEW p \in Hands, Create(p) PROVE Sound
<1>1. At(p, Sending) /\ At(p, ActStages)
  BY DEF Create, At, Sending, ActStages
<1>2. ServiceOp
  BY Creating, ServiceKept DEF Create, service
<1>3. CASE NoFault /\ Step(p, "created")
  BY <1>1, <1>2, <1>3, AskedNext
<1>4. CASE Fault /\ Fail(p, "unknown")
  BY <1>1, <1>2, <1>4, Failed
<1> QED  BY <1>3, <1>4 DEF Create

LEMMA ViewCreatedStep == ASSUME Inv, NEW p \in Hands, ViewCreated(p) PROVE Sound
<1>1. At(p, Sending) /\ At(p, ActStages) /\ ServiceOp /\ UNCHANGED service
  BY ServiceKept DEF ViewCreated, At, Sending, ActStages
<1>2. CASE pulls # <<>> /\ NoFault /\ Checked(p, Viewed)
  BY <1>1, <1>2, ViewedOne, CheckedOne
<1>3. CASE (NoFault \/ Fault) /\ Fail(p, "unknown")
  BY <1>1, <1>3, Failed
<1> QED  BY <1>2, <1>3 DEF ViewCreated

(* The checks of the commit are green when its merge is asked for. *)
LEMMA PollHeadStep == ASSUME Inv, NEW p \in Hands, PollHead(p) PROVE Sound
<1>1. At(p, Sending) /\ At(p, ActStages) /\ ServiceOp /\ ~At(p, {"idle"}) /\ hand[p].at = "ci"
  BY ServiceKept DEF PollHead, At, Sending, ActStages
<1>2. hand[p].pr \in DOMAIN pulls
  BY <1>1, Working DEF HandOk, WithPull
<1>3. CASE intents[hand[p].n].of \in green /\ NoFault /\ Step(p, "merge")
  BY <1>1, <1>2, <1>3, AskedNext
<1>4. CASE (NoFault \/ Fault) /\ Fail(p, "refused")
  BY <1>1, <1>4, Failed
<1> QED  BY <1>3, <1>4 DEF PollHead

(* What a process at its merge asks for was checked and declared. *)
LEMMA AskedOk ==
  ASSUME Inv, NEW p \in Hands, At(p, {"merge"})
  PROVE  /\ Asked(p) \in [pr : Shas, head : Heads] /\ FlightOk(Asked(p))
         /\ Asked(p).pr = hand[p].pr /\ Asked(p).head \in green /\ Declares(Asked(p).head)
<1>1. hand[p] \in Busy /\ HandOk(hand[p]) /\ hand[p].at = "merge"
  BY Working DEF At
<1>2. /\ hand[p].n \in DOMAIN intents /\ intents[hand[p].n].ep = "B"
      /\ hand[p].pr \in DOMAIN pulls /\ intents[hand[p].n].of \in green
  BY <1>1 DEF HandOk, ActStages, Sending, WithPull
<1>3. hand[p].pr \in Shas /\ intents[hand[p].n].of \in Heads
  BY <1>1, <1>2, ServiceTyped DEF Busy
<1> QED  BY <1>2, <1>3 DEF Asked, FlightOk, Declares

LEMMA MergeStep == ASSUME Inv, NEW p \in Hands, Merge(p) PROVE Sound
<1>1. At(p, Sending) /\ At(p, ActStages) /\ At(p, {"merge"})
  BY DEF Merge, At, Sending, ActStages
<1>k. UNCHANGED <<tip, green, site>>
  BY DEF Merge
<1>2. /\ Asked(p) \in [pr : Shas, head : Heads] /\ FlightOk(Asked(p))
      /\ Asked(p).pr = hand[p].pr /\ Asked(p).head \in green /\ Declares(Asked(p).head)
  BY <1>1, AskedOk
<1>3. hand[p].pr \in DOMAIN pulls
  BY <1>2 DEF FlightOk
<1>4. CASE /\ Mergeable(hand[p].pr, Asked(p).head) /\ Merged(hand[p].pr, "act")
           /\ NoFault /\ Step(p, "merged") /\ UNCHANGED inflight
  <2>1. ServiceOp
    BY <1>k, <1>2, <1>3, <1>4, Merging DEF Mergeable
  <2> QED  BY <1>1, <1>3, <1>4, <2>1, AskedNext
<1>5. CASE UNCHANGED <<pulls, inflight>> /\ NoFault /\ Step(p, "rejected")
  <2>1. ServiceOp
    BY <1>k, <1>5, ServiceKept DEF service
  <2> QED  BY <1>1, <1>3, <1>5, <2>1, AskedNext
<1>6. CASE /\ inflight' = inflight \cup {Asked(p)} /\ UNCHANGED pulls
           /\ Fault /\ Fail(p, "unknown")
  <2>1. ServiceOp
    BY <1>k, <1>2, <1>6, Sent
  <2> QED  BY <1>1, <1>6, <2>1, Failed
<1> QED  BY <1>4, <1>5, <1>6 DEF Merge

LEMMA ViewMergedStep == ASSUME Inv, NEW p \in Hands, ViewMerged(p) PROVE Sound
<1>1. /\ At(p, Sending) /\ At(p, ActStages) /\ ServiceOp /\ ~At(p, {"idle"})
      /\ hand[p].at \in {"merged", "rejected"}
  BY ServiceKept DEF ViewMerged, At, Sending, ActStages
<1>2. hand[p].pr \in DOMAIN pulls
  BY <1>1, Working DEF HandOk, WithPull
<1>3. CASE pulls[hand[p].pr].state = "MERGED" /\ NoFault /\ Step(p, "settle")
  BY <1>1, <1>2, <1>3, AskedNext DEF IsMerged
<1>4. ASSUME NEW to \in {"failed", "unknown"}, NoFault \/ Fault, Fail(p, to) PROVE Sound
  BY <1>1, <1>4, Failed
<1> QED  BY <1>3, <1>4 DEF ViewMerged

LEMMA SettleBStep == ASSUME Inv, NEW p \in Hands, SettleB(p) PROVE Sound
<1>1. At(p, Sending) /\ ServiceOp /\ ~At(p, {"idle"}) /\ hand[p].at = "settle"
  BY ServiceKept DEF SettleB, At, Sending
<1>2. IsMerged(hand[p].pr)
  BY <1>1, Working DEF HandOk
<1> QED  BY <1>1, <1>2, ClosedOne DEF SettleB, Close

(* Act C: the build of the merge, then its pages. *)
LEMMA PollStep == ASSUME Inv, NEW p \in Hands, Poll(p) PROVE Sound
<1>1. At(p, ActStages) /\ ServiceOp /\ ~At(p, {"idle"}) /\ hand[p].at = "poll" /\ NoFault
  BY ServiceKept DEF Poll, At, ActStages
<1>k. hand[p] \in Busy /\ HandOk(hand[p])
  BY <1>1, Working
<1>2. CASE Aligned(intents[hand[p].n].of) /\ Step(p, "fetch")
  <2>1. PICK v \in Busy :
          /\ hand' = [hand EXCEPT ![p] = v]
          /\ v.at = "fetch" /\ v.ep = hand[p].ep /\ v.item = hand[p].item /\ v.n = hand[p].n
          /\ v.pr = hand[p].pr
    BY <1>1, <1>2, Gone DEF Step, ActStages
  <2>2. hand[p].n \in DOMAIN intents /\ intents[hand[p].n].ep = "C" /\ hand[p].ep = "C"
    BY <1>1, <1>k DEF HandOk, ActStages, Showing
  <2>3. ShownAt(intents[hand[p].n].of)
    <3>1. site = intents[hand[p].n].of
      BY <1>2 DEF Aligned
    <3>2. site # 0
      BY <2>2, <3>1 DEF Inv, Good, IntentOk
    <3> QED  BY <3>1, <3>2, ServiceTyped DEF ShownAt
  <2>4. HandOk(v)
    BY <1>1, <1>k, <2>1, <2>2, <2>3
       DEF HandOk, ActStages, ReadStages, ChainStages, Sending, Seen, Showing, WithPull
  <2> QED  BY <1>1, <1>2, <2>1, <2>4, Stepped DEF Step
<1>3. CASE Fail(p, "failed")
  BY <1>1, <1>3, Failed
<1> QED  BY <1>2, <1>3 DEF Poll

LEMMA FetchStep == ASSUME Inv, NEW p \in Hands, Fetch(p) PROVE Sound
<1>1. At(p, ActStages) /\ ServiceOp /\ ~At(p, {"idle"}) /\ hand[p].at = "fetch" /\ NoFault
  BY ServiceKept DEF Fetch, At, ActStages
<1>2. CASE /\ SettleShown(hand[p].n) /\ (Succeeded(p) \/ Threw(p)) /\ UNCHANGED <<head, item>>
  <2>1. /\ hand[p].n \in DOMAIN intents /\ intents[hand[p].n].ep = "C"
        /\ ShownAt(intents[hand[p].n].of)
    BY <1>1, Working DEF HandOk, ActStages, Showing
  <2>2. LedgerOp /\ Settling
    BY <1>2, <2>1, ShownSettled
  <2> QED  BY <1>1, <1>2, <2>2, Returned DEF Succeeded, Threw
<1>3. CASE Fail(p, "failed")
  BY <1>1, <1>3, Failed
<1> QED  BY <1>2, <1>3 DEF Fetch

(* Readbacks.  The latest intent of an endpoint is one of it. *)
LEMMA LatestOne ==
  ASSUME Inv, NEW ep, LatestOf(ep) # 0
  PROVE  LatestOf(ep) \in DOMAIN intents /\ intents[LatestOf(ep)].ep = ep
<1> DEFINE S == {n \in DOMAIN intents : intents[n].ep = ep}
<1>1. S \in SUBSET (1..Len(intents)) /\ Len(intents) \in Nat
  BY Typed DEF Inv
<1>2. Last(S) # 0 => Last(S) \in S
  BY <1>1, LastIsOne
<1> QED  BY <1>2 DEF LatestOf

LEMMA MineOne ==
  ASSUME Inv, NEW i, NEW ep, LatestMine(i, ep) # 0
  PROVE  /\ LatestMine(i, ep) \in DOMAIN intents
         /\ intents[LatestMine(i, ep)].ep = ep /\ intents[LatestMine(i, ep)].origin = i
<1> DEFINE S == {n \in DOMAIN intents : intents[n].ep = ep /\ intents[n].origin = i}
<1>1. S \in SUBSET (1..Len(intents)) /\ Len(intents) \in Nat
  BY Typed DEF Inv
<1>2. Last(S) # 0 => Last(S) \in S
  BY <1>1, LastIsOne
<1> QED  BY <1>2 DEF LatestMine

(* A process that reads back is a person's, or that of an item's chain. *)
LEMMA ReaderOk ==
  ASSUME Inv, NEW p \in Hands, NEW ep \in Eps, MayRead(p, ep)
  PROVE  /\ Reader(p) \in Items \cup {None}
         /\ Reader(p) # None => ~At(p, {"idle"}) /\ hand[p].ep = ep /\ Reader(p) = hand[p].item
         /\ Reader(p) # None /\ ep = "C" => Delivered(Reader(p), "B")
<1>1. CASE At(p, {"idle"})
  BY <1>1 DEF Reader
<1>2. CASE ~At(p, {"idle"})
  <2>1. hand[p] \in Busy /\ HandOk(hand[p]) /\ hand[p].ep = ep /\ Reader(p) = hand[p].item
        /\ hand[p].at # "idle"
    BY <1>2, Working DEF MayRead, Reader, At
  <2> QED  BY <1>2, <2>1 DEF HandOk, Busy
<1> QED  BY <1>1, <1>2

LEMMA UnansweredStep ==
  ASSUME Inv, NEW p \in Hands, NEW ep \in Eps, MayRead(p, ep), Unanswered(p), NoFault \/ Fault
  PROVE  Sound
<1>1. ServiceOp /\ UNCHANGED <<head, ledger>>
  BY ServiceKept DEF Unanswered
<1>2. CASE Reader(p) = None
  <2>1. hand' = [hand EXCEPT ![p] = Idle]
    BY <1>2 DEF Unanswered
  <2> QED  BY <1>1, <2>1, IdleOk, Stepped
<1>3. CASE Reader(p) # None
  <2>1. /\ Reader(p) \in Items /\ hand[p].ep = ep /\ Reader(p) = hand[p].item
        /\ (ep = "C" => Delivered(Reader(p), "B"))
    BY <1>3, ReaderOk
  <2>2. PICK v : v = Doing("judge", ep, Reader(p), 0)
    OBVIOUS
  <2>3. v \in Busy /\ v.at = "judge" /\ v.ep = ep /\ v.item = Reader(p)
    BY <2>1, <2>2, BoundsAssumption DEF Doing, Busy, ChainStages, Shas
  <2>4. hand' = [hand EXCEPT ![p] = v]
    BY <1>3, <2>1, <2>2 DEF Unanswered
  <2>5. HandOk(v)
    BY <2>1, <2>3 DEF HandOk, ActStages, ReadStages, ChainStages, Sending, Seen, Showing, WithPull
  <2> QED  BY <1>1, <2>3, <2>4, <2>5, Stepped
<1> QED  BY <1>2, <1>3

LEMMA ReadBStep == ASSUME Inv, NEW p \in Hands, ReadB(p) PROVE Sound
<1> DEFINE n == LatestOf("B")
<1>1. n \in DOMAIN intents /\ intents[n].ep = "B" /\ intents[n] \in Intents /\ n \in Nat
  BY LatestOne, Typed DEF ReadB, Inv
<1>2. MayRead(p, "B") /\ "B" \in Eps
  BY DEF ReadB, Eps
<1>3. CASE Unanswered(p) /\ (NoFault \/ Fault)
  BY <1>2, <1>3, UnansweredStep
<1>4. CASE /\ pulls # <<>> /\ NoFault
           /\ hand' = [hand EXCEPT ![p] = [at |-> Saw(pulls[Viewed].state), ep |-> "B",
                                           item |-> Reader(p), n |-> n, pr |-> Viewed,
                                           seen |-> intents[n].status]]
           /\ UNCHANGED <<head, ledger, service>>
  <2>1. Viewed \in DOMAIN pulls /\ pulls[Viewed] \in Pulls /\ Viewed \in Shas
    BY <1>4, ViewedOne, Typed DEF Inv
  <2>2. PICK v : v = [at |-> Saw(pulls[Viewed].state), ep |-> "B", item |-> Reader(p), n |-> n,
                      pr |-> Viewed, seen |-> intents[n].status]
    OBVIOUS
  <2>3. /\ Saw(pulls[Viewed].state) \in Seen
        /\ Saw(pulls[Viewed].state) = "sawMerged" => IsMerged(Viewed)
    BY <2>1 DEF Pulls, Saw, Seen, IsMerged
  <2>4. Reader(p) \in Items \cup {None} /\ intents[n].status \in Statuses
    BY <1>1, <1>2, ReaderOk DEF Intents
  <2>5. v \in Busy /\ v.at \in Seen /\ v.ep = "B" /\ v.n = n /\ v.pr = Viewed
        /\ (v.at = "sawMerged" => IsMerged(v.pr))
    BY <1>1, <2>1, <2>2, <2>3, <2>4 DEF Busy, Seen, ReadStages, Eps
  <2>6. HandOk(v)
    BY <1>1, <2>1, <2>5
       DEF HandOk, ActStages, ReadStages, ChainStages, Sending, Seen, Showing, WithPull
  <2>7. hand' = [hand EXCEPT ![p] = v]
    BY <1>4, <2>2
  <2> QED  BY <1>4, <2>5, <2>6, <2>7, ServiceKept, Stepped
<1> QED  BY <1>3, <1>4 DEF ReadB

LEMMA ReadMergedStep == ASSUME Inv, NEW p \in Hands, ReadMerged(p) PROVE Sound
<1>1. /\ ServiceOp /\ ~At(p, {"idle"}) /\ hand[p].at = "sawMerged"
      /\ Return(p, "judge") /\ UNCHANGED <<head, item>> /\ (NoFault \/ Fault)
  BY ServiceKept DEF ReadMerged, At
<1>2. /\ hand[p].n \in DOMAIN intents /\ intents[hand[p].n].ep = "B" /\ IsMerged(hand[p].pr)
  BY <1>1, Working DEF HandOk, ReadStages, Seen
<1>3. pulls[hand[p].pr].green \in BOOLEAN
  BY <1>2, Typed DEF Inv, IsMerged, Pulls
<1>4. PICK ok \in BOOLEAN :
        /\ ok => pulls[hand[p].pr].green
        /\ SettleMerged(hand[p].n, hand[p].pr, ok) \/ Annotate(hand[p].n, hand[p].pr, ok)
  <2>1. CASE NoFault /\ (IF hand[p].seen = "done" THEN Annotate(hand[p].n, hand[p].pr, pulls[hand[p].pr].green)
                         ELSE SettleMerged(hand[p].n, hand[p].pr, pulls[hand[p].pr].green))
    BY <1>3, <2>1
  <2>2. CASE Fault /\ (IF hand[p].seen = "done" THEN Annotate(hand[p].n, hand[p].pr, FALSE)
                       ELSE SettleMerged(hand[p].n, hand[p].pr, FALSE))
    BY <2>2
  <2> QED  BY <2>1, <2>2 DEF ReadMerged
<1>5. LedgerOp /\ Settling
  BY <1>2, <1>4, Recorded
<1> QED  BY <1>1, <1>5, Returned

LEMMA ReadOtherStep == ASSUME Inv, NEW p \in Hands, ReadOther(p) PROVE Sound
<1>1. /\ ServiceOp /\ ~At(p, {"idle"}) /\ hand[p].at \in {"sawOpen", "sawClosed"}
      /\ Return(p, "judge") /\ UNCHANGED <<head, item>> /\ NoFault
  BY ServiceKept DEF ReadOther, At, NoFault
<1>2. hand[p].n \in DOMAIN intents
  BY <1>1, Working DEF HandOk, ReadStages
<1>3. LedgerOp /\ Settling
  <2>1. ASSUME NEW to \in {"intended", "failed"}, Settle(hand[p].n, to)
        PROVE  LedgerOp /\ Settling
    BY <1>2, <2>1, Settled
  <2> QED  BY <2>1, LedgerKept DEF ReadOther
<1> QED  BY <1>1, <1>3, Returned

LEMMA ReadCStep == ASSUME Inv, NEW p \in Hands, ReadC(p) PROVE Sound
<1> DEFINE n == LatestOf("C")
<1>1. n \in DOMAIN intents /\ intents[n].ep = "C" /\ intents[n] \in Intents /\ n \in Nat
  BY LatestOne, Typed DEF ReadC, Inv
<1>2. MayRead(p, "C") /\ "C" \in Eps
  BY DEF ReadC, Eps
<1>3. CASE Unanswered(p) /\ (NoFault \/ Fault)
  BY <1>2, <1>3, UnansweredStep
<1>4. CASE /\ Aligned(intents[n].of) /\ NoFault
           /\ hand' = [hand EXCEPT ![p] = [at |-> "aligned", ep |-> "C", item |-> Reader(p),
                                           n |-> n, pr |-> 0, seen |-> intents[n].status]]
           /\ UNCHANGED <<head, ledger, service>>
  <2>1. ShownAt(intents[n].of)
    <3>1. site = intents[n].of /\ site # 0
      BY <1>1, <1>4 DEF Aligned, Inv, Good, IntentOk
    <3> QED  BY <3>1, ServiceTyped DEF ShownAt
  <2>2. PICK v : v = [at |-> "aligned", ep |-> "C", item |-> Reader(p), n |-> n, pr |-> 0,
                      seen |-> intents[n].status]
    OBVIOUS
  <2>3. /\ Reader(p) \in Items \cup {None} /\ intents[n].status \in Statuses
        /\ Reader(p) # None => Delivered(Reader(p), "B")
    BY <1>1, <1>2, ReaderOk DEF Intents
  <2>4. v \in Busy /\ v.at = "aligned" /\ v.ep = "C" /\ v.n = n /\ v.item = Reader(p)
    BY <1>1, <2>2, <2>3, BoundsAssumption DEF Busy, ReadStages, Eps, Shas
  <2>5. HandOk(v)
    BY <1>1, <2>1, <2>3, <2>4
       DEF HandOk, ActStages, ReadStages, ChainStages, Sending, Seen, Showing, WithPull
  <2>6. hand' = [hand EXCEPT ![p] = v]
    BY <1>4, <2>2
  <2> QED  BY <1>4, <2>4, <2>5, <2>6, ServiceKept, Stepped
<1> QED  BY <1>3, <1>4 DEF ReadC

LEMMA ReadPagesStep == ASSUME Inv, NEW p \in Hands, ReadPages(p) PROVE Sound
<1>1. /\ ServiceOp /\ ~At(p, {"idle"}) /\ hand[p].at = "aligned"
      /\ Return(p, "judge") /\ UNCHANGED <<head, item>> /\ NoFault
  BY ServiceKept DEF ReadPages, At, NoFault
<1>2. /\ hand[p].n \in DOMAIN intents /\ intents[hand[p].n].ep = "C"
      /\ ShownAt(intents[hand[p].n].of)
  BY <1>1, Working DEF HandOk, ReadStages, Showing
<1>3. LedgerOp /\ Settling
  <2>1. PICK b \in BOOLEAN :
          \/ intents' = [intents EXCEPT ![hand[p].n].shown = b]
          \/ SettleShown(hand[p].n)
          \/ intents' = intents
    BY DEF ReadPages
  <2> QED  BY <1>2, <2>1, Remarked, ShownSettled, LedgerKept
<1> QED  BY <1>1, <1>3, Returned

(* What a verdict says of an endpoint of an item is so. *)
LEMMA ReachedOk ==
  ASSUME Inv, NEW i \in Items, NEW ep \in Eps, Reached(i, ep)
  PROVE  Delivered(i, ep)
<1> DEFINE n == LatestMine(i, ep)
<1>1. n # 0 /\ intents[n].status = "done"
      /\ (IF ep = "B" THEN intents[n].sha # 0 /\ intents[n].green ELSE intents[n].shown)
  BY DEF Reached
<1>2. /\ n \in DOMAIN intents /\ intents[n].ep = ep /\ intents[n].origin = i
      /\ IntentOk(intents[n])
  BY <1>1, MineOne DEF Inv, Good
<1>3. CASE ep = "B"
  <2>1. IsMerged(intents[n].sha) /\ pulls[intents[n].sha].green
    BY <1>1, <1>2, <1>3 DEF IntentOk
  <2> HIDE DEF n
  <2> QED  BY <1>1, <1>2, <1>3, <2>1 DEF Delivered, IsMerged
<1>4. CASE ep = "C"
  <2>1. intents[n].of <= site
    BY <1>1, <1>2, <1>4 DEF IntentOk, ShownAt
  <2> HIDE DEF n
  <2> QED  BY <1>1, <1>2, <1>4, <2>1 DEF Delivered
<1> QED  BY <1>3, <1>4 DEF Eps

LEMMA RequiredOnes ==
  ASSUME NEW i \in Items
  PROVE  Required(i) \subseteq Eps /\ ("C" \notin Required(i) => Required(i) = {"B"})
         /\ Required(i) \subseteq {"B", "C"}
BY DEF Required, Eps

-----------------------------------------------------------------------------
(* The chain of an item. *)

LEMMA JudgeStep == ASSUME Inv, NEW p \in Hands, Judge(p) PROVE Sound
<1> DEFINE i == hand[p].item
           ep == hand[p].ep
<1>1. ~At(p, {"idle"}) /\ hand[p].at = "judge" /\ ServiceOp /\ UNCHANGED <<head, ledger>> /\ NoFault
  BY ServiceKept DEF Judge, At, NoFault
<1>2. hand[p] \in Busy /\ HandOk(hand[p])
  BY <1>1, Working
<1>3. i \in Items /\ i # None /\ ep \in Eps /\ (ep = "C" => Delivered(i, "B"))
  BY <1>1, <1>2, NoneAssumption DEF HandOk, Busy, ChainStages
<1>4. PICK at \in {"missed", "begin", "reached"}, to \in Eps :
        /\ hand' = [hand EXCEPT ![p] = Doing(at, to, i, 0)]
        /\ at = "missed" => to = ep
        /\ at = "begin" => to = "C" /\ ep = "B" /\ Reached(i, "B")
        /\ at = "reached" => to = ep /\ Reached(i, ep) /\ (ep = "B" => "C" \notin Required(i))
  <2>1. CASE ~Reached(i, ep)
    BY <1>3, <2>1 DEF Judge
  <2>2. CASE Reached(i, ep) /\ ep = "B" /\ "C" \in Required(i)
    BY <2>2 DEF Judge, Eps
  <2>3. CASE Reached(i, ep) /\ ~(ep = "B" /\ "C" \in Required(i))
    BY <1>3, <2>3 DEF Judge
  <2> QED  BY <2>1, <2>2, <2>3
<1>5. PICK v : v = Doing(at, to, i, 0)
  OBVIOUS
<1>6. v \in Busy /\ v.at = at /\ v.ep = to /\ v.item = i
  BY <1>3, <1>5, BoundsAssumption DEF Doing, Busy, ChainStages, Shas
<1>7. to = "C" => Delivered(i, "B")
  BY <1>3, <1>4, ReachedOk DEF Eps
<1>8. at = "reached" => \A e \in Required(i) : Delivered(i, e)
  <2> SUFFICES ASSUME at = "reached", NEW e \in Required(i) PROVE Delivered(i, e)
    OBVIOUS
  <2>1. Delivered(i, ep)
    BY <1>3, <1>4, ReachedOk
  <2>2. CASE ep = "B"
    BY <1>3, <1>4, <2>1, <2>2, RequiredOnes
  <2>3. CASE ep = "C"
    BY <1>3, <2>1, <2>3, RequiredOnes
  <2> QED  BY <1>3, <2>2, <2>3 DEF Eps
<1>9. HandOk(v)
  <2> HIDE DEF i, ep
  <2> QED
    BY <1>3, <1>6, <1>7, <1>8
       DEF HandOk, ActStages, ReadStages, ChainStages, Sending, Seen, Showing, WithPull
<1>10. hand' = [hand EXCEPT ![p] = v]
  BY <1>4, <1>5
<1> QED  BY <1>1, <1>6, <1>9, <1>10, Stepped

(* The chain begins an act, or gives up. *)
LEMMA ChainActStep ==
  ASSUME Inv, NEW p \in Hands, ChainAct(p)
  PROVE  Sound \/ \E ep \in Eps, i \in Items :
                    Begin(p, ep, i) /\ (ep = "C" => Delivered(i, "B"))
<1>1. ~At(p, {"idle"}) /\ hand[p].at = "begin"
  BY DEF ChainAct, At
<1>2. hand[p] \in Busy /\ HandOk(hand[p])
  BY <1>1, Working
<1>3. /\ hand[p].item \in Items /\ hand[p].item # None /\ hand[p].ep \in Eps
      /\ hand[p].ep = "C" => Delivered(hand[p].item, "B")
  BY <1>1, <1>2, NoneAssumption DEF HandOk, Busy, ChainStages
<1>4. CASE Begin(p, hand[p].ep, hand[p].item)
  BY <1>3, <1>4
<1>5. ASSUME NEW at \in {"missed", "abort"}, NoFault, Step(p, at), UNCHANGED service PROVE Sound
  <2>1. PICK v \in Busy :
          /\ hand' = [hand EXCEPT ![p] = v]
          /\ v.at = at /\ v.ep = hand[p].ep /\ v.item = hand[p].item /\ v.n = hand[p].n
          /\ v.pr = hand[p].pr
    BY <1>1, <1>5, Gone DEF Step, ChainStages
  <2>2. HandOk(v)
    BY <1>3, <2>1
       DEF HandOk, ActStages, ReadStages, ChainStages, Sending, Seen, Showing, WithPull
  <2> QED  BY <1>5, <2>1, <2>2, Stepped, ServiceKept DEF Step
<1> QED  BY <1>4, <1>5 DEF ChainAct

LEMMA ConcludeStep == ASSUME Inv, NEW p \in Hands, Conclude(p) PROVE Sound
<1>1. LedgerOp /\ Settling /\ ServiceOp /\ UNCHANGED <<head, governed, faults>>
  BY LedgerKept, ServiceKept DEF Conclude
<1>2. hand' = [hand EXCEPT ![p] = Idle]
  BY DEF Conclude
<1>3. item' \in [Items -> States]
  <2>1. item \in [Items -> States]
    BY DEF Inv, TypeOK, States
  <2>2. PICK s \in Terminal : item' = [item EXCEPT ![hand[p].item] = s]
    <3>1. CASE At(p, {"reached"})
      BY <3>1 DEF Conclude, Terminal, At
    <3>2. CASE At(p, {"missed"})
      BY <3>2 DEF Conclude, Terminal, At
    <3>3. CASE At(p, {"abort"})
      BY <3>3 DEF Conclude, Terminal, At
    <3> QED  BY <3>1, <3>2, <3>3 DEF Conclude, At
  <2> QED  BY <2>1, <2>2 DEF States
<1>4. head' \in Heads /\ governed' = governed /\ faults' \in 0..MaxFaults
  BY <1>1 DEF Inv, TypeOK
<1> QED  BY <1>1, <1>2, <1>3, <1>4, IdleOk, Moved DEF Sound

LEMMA DispatchStep == ASSUME Inv, NEW p \in Hands, NEW i \in Items, Dispatch(p, i) PROVE Sound
<1>1. LedgerOp /\ Settling /\ ServiceOp /\ UNCHANGED <<head, governed, faults>>
  BY LedgerKept, ServiceKept DEF Dispatch
<1>2. PICK v : v = Doing("begin", "B", i, 0)
  OBVIOUS
<1>3. v \in Busy /\ v.at = "begin" /\ v.ep = "B" /\ v.item = i
  BY <1>2, BoundsAssumption DEF Doing, Busy, ChainStages, Shas, Eps
<1>4. HandOk(v)
  BY <1>3 DEF HandOk, ActStages, ReadStages, ChainStages, Sending, Seen, Showing, WithPull
<1>5. hand' = [hand EXCEPT ![p] = v] /\ item' \in [Items -> States]
  BY <1>2 DEF Dispatch, Inv, TypeOK, States
<1>6. head' \in Heads /\ governed' = governed /\ faults' \in 0..MaxFaults
  BY <1>1 DEF Inv, TypeOK
<1> QED  BY <1>1, <1>3, <1>4, <1>5, <1>6, Moved DEF Sound

LEMMA KillStep == ASSUME Inv, NEW p \in Hands, Kill(p) PROVE Sound
<1>1. UNCHANGED <<head, ledger, tip, pulls, green, site>> /\ Fault
      /\ hand' = [hand EXCEPT ![p] = Idle]
  BY DEF Kill
<1>2. ServiceOp
  <2>1. CASE At(p, {"merge"})
    <3>1. Asked(p) \in [pr : Shas, head : Heads] /\ FlightOk(Asked(p))
      BY <2>1, AskedOk
    <3> QED  BY <1>1, <2>1, <3>1, Sent DEF Kill
  <2>2. CASE ~At(p, {"merge"})
    BY <1>1, <2>2, ServiceKept DEF Kill, service
  <2> QED  BY <2>1, <2>2
<1> QED  BY <1>1, <1>2, IdleOk, Stepped

(* An item is completed by a reconcile on the verdict of its intents. *)
LEMMA ReconcileStep == ASSUME Inv, Reconcile PROVE Sound
<1>1. LedgerOp /\ Settling /\ ServiceOp /\ UNCHANGED <<head, hand>>
  BY LedgerKept, ServiceKept DEF Reconcile
<1>2. NoFault \/ Fault
  BY DEF Reconcile
<1>3. item' \in [Items -> States]
  BY DEF Reconcile, Inv, TypeOK, States, Terminal
<1> QED  BY <1>1, <1>2, <1>3, Steady, Stood DEF Sound

-----------------------------------------------------------------------------
(* The branch, the other users and the services. *)

LEMMA ArriveService == ASSUME Inv, NEW m \in inflight, Arrive(m) PROVE ServiceOp
<1>1. UNCHANGED <<tip, green, site>> /\ inflight' \subseteq inflight
  BY DEF Arrive
<1>2. CASE Mergeable(m.pr, m.head) /\ Merged(m.pr, "act")
  <2>1. m.pr \in DOMAIN pulls /\ m.head \in green /\ Declares(m.head)
    BY ServiceTyped DEF FlightOk
  <2> QED  BY <1>1, <1>2, <2>1, Merging DEF Mergeable
<1>3. CASE UNCHANGED pulls
  BY <1>1, <1>3, ServiceTyped DEF ServiceOp, PullOk, FlightOk, IsMerged
<1> QED  BY <1>2, <1>3 DEF Arrive

LEMMA ReportMergeService == ASSUME Inv, NEW k \in DOMAIN pulls, ReportMerge(k) PROVE ServiceOp
<1>1. pulls[k] \in Pulls /\ PullOk(pulls[k])
  BY ServiceTyped
<1>2. PICK r : r = [pulls[k] EXCEPT !.green = TRUE]
  OBVIOUS
<1>3. /\ r \in Pulls /\ r.state = pulls[k].state /\ r.by = pulls[k].by
      /\ r.head = pulls[k].head /\ r.green
  BY <1>1, <1>2 DEF Pulls
<1>4. pulls' = [pulls EXCEPT ![k] = r] /\ UNCHANGED <<tip, green, site, inflight>>
  BY <1>2 DEF ReportMerge
<1> QED  BY <1>1, <1>3, <1>4, ServiceTyped, PullChange DEF PullOk

LEMMA OtherService == ASSUME Inv, NEW k \in DOMAIN pulls, Other(k) PROVE ServiceOp
<1>1. pulls[k].state = "OPEN" /\ UNCHANGED <<tip, green, site, inflight>>
  BY DEF Other
<1>2. CASE Merged(k, "other")
  BY <1>1, <1>2, Merging
<1>3. CASE pulls' = [pulls EXCEPT ![k].state = "CLOSED"]
  <2>1. pulls[k] \in Pulls /\ PullOk(pulls[k])
    BY ServiceTyped
  <2>2. PICK r : r = [pulls[k] EXCEPT !.state = "CLOSED"]
    OBVIOUS
  <2>3. /\ r \in Pulls /\ r.state = "CLOSED" /\ r.by = pulls[k].by /\ r.green = pulls[k].green
    BY <2>1, <2>2 DEF Pulls
  <2>4. PullOk(r)
    BY <1>1, <2>1, <2>3 DEF PullOk
  <2>5. pulls' = [pulls EXCEPT ![k] = r]
    BY <1>3, <2>2
  <2> QED  BY <1>1, <2>3, <2>4, <2>5, ServiceTyped, PullChange
<1> QED  BY <1>2, <1>3 DEF Other

LEMMA DeployService == ASSUME Inv, NEW k \in DOMAIN pulls, Deploy(k) PROVE ServiceOp
<1>1. k \in Shas /\ k \in Nat /\ site \in Nat
  BY Typed, BoundsAssumption DEF Inv, Shas
<1>2. /\ UNCHANGED <<tip, pulls, green, inflight>> /\ site' = k /\ site < k
      /\ pulls[k].state = "MERGED"
  BY DEF Deploy
<1>3. site <= site' /\ site' \in Shas
  BY <1>1, <1>2
<1> QED  BY <1>2, <1>3, ServiceTyped DEF ServiceOp, PullOk, FlightOk

LEMMA WorldStep == ASSUME Inv, World PROVE Sound
<1>1. /\ UNCHANGED <<ledger, hand, governed, faults>>
      /\ head' \in Heads /\ item' \in [Items -> States] /\ faults' \in 0..MaxFaults
  <2>1. UNCHANGED <<ledger, hand, governed, faults>>
    BY DEF World, Commit, Report, ReportMerge, Other, Deploy, Arrive
  <2>2. head' = head \/ (head < MaxHeads /\ head' = head + 1)
    BY DEF World, Commit, Report, ReportMerge, Other, Deploy, Arrive
  <2>3. head' \in Heads
    BY <2>2, BoundsAssumption DEF Inv, TypeOK, Heads
  <2> QED  BY <2>1, <2>3 DEF Inv, TypeOK, States, ledger
<1>2. ServiceOp
  <2>1. CASE Commit
    BY <2>1, ServiceKept DEF Commit
  <2>2. ASSUME NEW h \in Heads, Report(h) PROVE ServiceOp
    BY <2>2, ServiceTyped DEF Report, ServiceOp, PullOk, FlightOk, IsMerged
  <2>3. ASSUME NEW k \in DOMAIN pulls, ReportMerge(k) \/ Other(k) \/ Deploy(k) PROVE ServiceOp
    BY <2>3, ReportMergeService, OtherService, DeployService
  <2>4. ASSUME NEW m \in inflight, Arrive(m) PROVE ServiceOp
    BY <2>4, ArriveService
  <2> QED  BY <2>1, <2>2, <2>3, <2>4 DEF World
<1>3. LedgerOp /\ Settling
  BY <1>1, LedgerKept DEF ledger
<1> QED  BY <1>1, <1>2, <1>3, Stood DEF Sound

-----------------------------------------------------------------------------
(* Every step. *)

LEMMA ActStep == ASSUME Inv, NEW p \in Hands, Act(p) PROVE Sound
BY PushStep, ListStep, ViewOpenStep, ViewBranchStep, CreateStep, ViewCreatedStep, PollHeadStep,
   MergeStep, ViewMergedStep, SettleBStep, PollStep, FetchStep DEF Act

LEMMA ReadbackStep == ASSUME Inv, NEW p \in Hands, Readback(p) PROVE Sound
BY ReadBStep, ReadMergedStep, ReadOtherStep, ReadCStep, ReadPagesStep DEF Readback

(* A step of a process, of the queue or of the world begins an act with     *)
(* nothing unsettled, or leaves no intent unsettled that was not.           *)
LEMMA EveryStep ==
  ASSUME Inv, [Next]_vars
  PROVE  /\ Inv' /\ LedgerOp /\ governed' = governed
         /\ \/ Settling
            \/ governed => \A m, n \in DOMAIN intents' :
                 intents'[m].status \in Unsettled /\ intents'[n].status \in Unsettled => m = n
<1> DEFINE Single == governed => \A m, n \in DOMAIN intents' :
             intents'[m].status \in Unsettled /\ intents'[n].status \in Unsettled => m = n
           Result == Inv' /\ LedgerOp /\ (Settling \/ Single)
<1>1. ASSUME Sound PROVE Result
  BY <1>1 DEF Sound
<1>2. ASSUME NEW p \in Hands, NEW ep \in Eps, NEW i \in Items \cup {None}, Begin(p, ep, i),
             i # None /\ ep = "C" => Delivered(i, "B")
      PROVE  Result
  BY <1>2, BeginStep
<1> HIDE DEF Result
<1>3. ASSUME NEW p \in Hands, ActCommand(p) PROVE Result
  BY <1>2, <1>3 DEF ActCommand
<1>4. ASSUME NEW p \in Hands, Chain(p) PROVE Result
  BY <1>1, <1>2, <1>4, ChainActStep, JudgeStep, ConcludeStep DEF Chain
<1>5. ASSUME UNCHANGED vars PROVE Result
  <2>1. LedgerOp /\ Settling /\ ServiceOp
    BY <1>5, LedgerKept, ServiceKept DEF vars, ledger
  <2>2. /\ UNCHANGED hand /\ head' \in Heads /\ item' \in [Items -> States]
        /\ governed' = governed /\ faults' \in 0..MaxFaults
    BY <1>5 DEF vars, ledger, Inv, TypeOK, States
  <2> QED  BY <1>1, <2>1, <2>2, Stood DEF Sound
<1>6. ASSUME Next PROVE Result
  BY <1>1, <1>3, <1>4, <1>6, ActStep, ReadbackStep, KillStep, DispatchStep, ReconcileStep, WorldStep
     DEF Next
<1>7. governed' = governed
  <2>1. ASSUME NEW p \in Hands, Act(p) PROVE governed' = governed
    BY <2>1 DEF Act, Push, List, ViewOpen, ViewBranch, Create, ViewCreated, PollHead, Merge,
                ViewMerged, SettleB, Close, Poll, Fetch, NoFault, Fault
  <2>2. ASSUME NEW p \in Hands, Readback(p) PROVE governed' = governed
    BY <2>2 DEF Readback, ReadB, ReadMerged, ReadOther, ReadC, ReadPages, NoFault, Fault
  <2>3. ASSUME NEW p \in Hands, ActCommand(p) \/ Chain(p) \/ Kill(p) PROVE governed' = governed
    BY <2>3 DEF ActCommand, Chain, ChainAct, Begin, Judge, Conclude, Kill, NoFault, Fault
  <2>4. ASSUME NEW p \in Hands, NEW i \in Items, Dispatch(p, i) PROVE governed' = governed
    BY <2>4 DEF Dispatch
  <2>5. ASSUME Reconcile \/ World PROVE governed' = governed
    BY <2>5 DEF Reconcile, NoFault, Fault, World, Commit, Report, ReportMerge, Other, Deploy, Arrive
  <2> QED  BY <2>1, <2>2, <2>3, <2>4, <2>5 DEF Next, vars
<1>8. Inv' /\ LedgerOp /\ (Settling \/ Single)
  BY <1>5, <1>6 DEF Result
<1> QED  BY <1>7, <1>8

LEMMA InitInv == Init => Inv
<1> SUFFICES ASSUME Init PROVE Inv
  OBVIOUS
<1>1. TypeOK
  BY BoundsAssumption DEF Init, TypeOK, Heads, Shas, Terminal
<1>2. \A p \in Hands : HandOk(hand[p])
  BY IdleOk DEF Init
<1> QED  BY <1>1, <1>2 DEF Init, Inv, Good

LEMMA InvHolds == Spec => []Inv
<1>1. Inv /\ [Next]_vars => Inv'
  BY EveryStep
<1> QED  BY <1>1, InitInv, PTL DEF Spec

-----------------------------------------------------------------------------
(* The ledger, every process and every service stay of their types: no act, *)
(* readback or chain writes a status, a commit or a request that the code   *)
(* could not read back.                                                     *)
THEOREM TypeCorrect == Spec => []TypeOK
<1>1. Inv => TypeOK
  BY DEF Inv
<1> QED  BY <1>1, InvHolds, PTL

(* An act merges only what was checked and declared, whenever its request   *)
(* is carried out; of governed goals one intent at most is unsettled, for   *)
(* any number of processes, commits, requests and faults.                   *)
THEOREM SentSingly == Spec => []SentOneByOne
<1> DEFINE IInv == Inv /\ OneActAtATime
<1>1. Init => IInv
  BY InitInv DEF Init, OneActAtATime
<1>2. IInv /\ [Next]_vars => IInv'
  <2> SUFFICES ASSUME Inv, OneActAtATime, [Next]_vars PROVE Inv' /\ OneActAtATime'
    OBVIOUS
  <2>1. /\ Inv' /\ governed' = governed
        /\ \/ Settling
           \/ governed => \A m, n \in DOMAIN intents' :
                intents'[m].status \in Unsettled /\ intents'[n].status \in Unsettled => m = n
    BY EveryStep
  <2>2. CASE Settling
    BY <2>1, <2>2 DEF Settling, OneActAtATime
  <2>3. CASE governed => \A m, n \in DOMAIN intents' :
               intents'[m].status \in Unsettled /\ intents'[n].status \in Unsettled => m = n
    BY <2>1, <2>3 DEF OneActAtATime
  <2> QED  BY <2>1, <2>2, <2>3
<1>3. IInv => SentOneByOne
  BY DEF Inv, Good, PullOk, Declares, SentOneByOne, MergedIsChecked
<1> HIDE DEF IInv
<1> QED  BY <1>1, <1>2, <1>3, PTL DEF Spec

(* A verified endpoint C had its pages deployed and its commit merged:      *)
(* neither an act nor a readback that comes late takes another deployment   *)
(* for it.                                                                  *)
THEOREM PagesWereDeployed == Spec => []ShownIsDeployed
<1>1. Inv => ShownIsDeployed
  BY DEF Inv, Good, IntentOk, ShownAt, IsMerged, ShownIsDeployed
<1> QED  BY <1>1, InvHolds, PTL

(* done is final: no late act, stale readback or second command takes an    *)
(* intent out of it.                                                        *)
THEOREM FinishedIntentsStay == Spec => DoneStays
<1>1. Inv /\ [Next]_vars =>
        [\A n \in DOMAIN intents :
           intents[n].status = "done" => intents'[n].status = "done"]_vars
  BY EveryStep DEF LedgerOp
<1> QED  BY <1>1, InvHolds, PTL DEF Spec, DoneStays

(* Only the last section of a chain and a reconcile complete an item. *)
LEMMA CompletedBy ==
  ASSUME Inv, Next, NEW i \in Items, item[i] # "completed", item'[i] = "completed"
  PROVE  (\E p \in Hands : Conclude(p)) \/ Reconcile
<1>1. ASSUME NEW p \in Hands, Act(p) PROVE item' = item
  BY <1>1 DEF Act, Push, List, ViewOpen, ViewBranch, Create, ViewCreated, PollHead, Merge,
              ViewMerged, SettleB, Close, Poll, Fetch, Fail, Step, Checked, ledger
<1>2. ASSUME NEW p \in Hands, Readback(p) PROVE item' = item
  BY <1>2 DEF Readback, ReadB, ReadMerged, ReadOther, ReadC, ReadPages, Unanswered, ledger
<1>3. ASSUME NEW p \in Hands, ActCommand(p) \/ ChainAct(p) \/ Judge(p) \/ Kill(p) PROVE item' = item
  BY <1>3 DEF ActCommand, ChainAct, Begin, Judge, Kill, Step, ledger
<1>4. ASSUME NEW p \in Hands, NEW j \in Items, Dispatch(p, j) PROVE FALSE
  <2>1. item \in [Items -> States] /\ item' = [item EXCEPT ![j] = "running"]
    BY <1>4 DEF Dispatch, Inv, TypeOK, States
  <2>2. item'[i] = "running" \/ item'[i] = item[i]
    BY <2>1
  <2> QED  BY <2>2
<1>5. CASE World
  BY <1>5 DEF World, Commit, Report, ReportMerge, Other, Deploy, Arrive, ledger
<1> QED  BY <1>1, <1>2, <1>3, <1>4, <1>5 DEF Next, Chain

(* An item is completed, by its chain or by a reconcile after its chain was *)
(* killed or ran over its time, only when every endpoint it requires is     *)
(* done in its own name, with a green merge behind B and deployed pages     *)
(* behind C.                                                                *)
THEOREM CompletedWasDelivered == Spec => CompletedIsDelivered
<1>1. ASSUME Inv, Next, NEW i \in Items, item[i] # "completed", item'[i] = "completed"
      PROVE  \A ep \in Required(i) : Delivered(i, ep)
  <2>t. item \in [Items -> States]
    BY <1>1 DEF Inv, TypeOK, States
  <2>1. ASSUME NEW p \in Hands, Conclude(p)
        PROVE  \A ep \in Required(i) : Delivered(i, ep)
    <3>1. /\ hand[p].at \in {"reached", "missed", "abort"}
          /\ item' = [item EXCEPT ![hand[p].item] =
                        CASE At(p, {"reached"}) -> "completed"
                          [] At(p, {"missed"}) -> "failed"
                          [] At(p, {"abort"}) -> IF @ \in Terminal THEN @ ELSE "failed"]
      BY <2>1 DEF Conclude, At
    <3>2. hand[p].item = i
      BY <1>1, <2>t, <3>1
    <3>3. hand[p].at = "reached"
      BY <1>1, <2>t, <3>1, <3>2 DEF At
    <3>4. HandOk(hand[p])
      BY <1>1 DEF Inv, Good
    <3> QED  BY <3>2, <3>3, <3>4 DEF HandOk
  <2>2. CASE Reconcile
    <3>1. AllReached(i)
      BY <1>1, <2>2 DEF Reconcile
    <3> QED  BY <1>1, <3>1, RequiredOnes, ReachedOk DEF AllReached
  <2> QED  BY <1>1, <2>1, <2>2, CompletedBy
<1>2. Inv /\ [Next]_vars =>
        [\A i \in Items :
           item[i] # "completed" /\ item'[i] = "completed" =>
             \A ep \in Required(i) : Delivered(i, ep)]_vars
  BY <1>1
<1> QED  BY <1>2, InvHolds, PTL DEF Spec, CompletedIsDelivered
=============================================================================
