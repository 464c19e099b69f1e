----------------------- MODULE PbStubTrunkQueue_proofs -----------------------
(***************************************************************************)
(* Theorems about PbStubTrunkQueue, for any number of adding threads and   *)
(* items: every callback runs at most once, in its thread's order, and     *)
(* none starts after Close.                                                *)
(***************************************************************************)
EXTENDS PbStubTrunkQueue, CamelQueue_proofs

-----------------------------------------------------------------------------
(* What the two steps that move an item do to the sequences. *)

LEMMA AddFacts ==
    ASSUME TrunkTypeOK, NEW p \in Producers, AddEnqueue(p)
    PROVE  /\ adding[p] \in Item /\ fate[adding[p]] = "adding"
           /\ works' \in [Producers -> Seq(Item)] /\ offered' \in [Producers -> Seq(Item)]
           /\ \A q \in Producers : q # p => works'[q] = works[q] /\ offered'[q] = offered[q]
           /\ Len(works'[p]) = Len(works[p]) + 1
           /\ Len(offered'[p]) = Len(offered[p]) + 1
           /\ \A i \in 1..Len(works[p]) : works'[p][i] = works[p][i]
           /\ \A i \in 1..Len(offered[p]) : offered'[p][i] = offered[p][i]
           /\ works'[p][Len(works[p]) + 1] = adding[p]
           /\ offered'[p][Len(offered[p]) + 1] = adding[p]
<1> DEFINE x == adding[p]
<1>1. x \in Item /\ fate[x] = "adding"
  BY DEF AddEnqueue, TrunkTypeOK
<1>2. works \in [Producers -> Seq(Item)] /\ works' = Push(works, p, x)
  BY DEF AddEnqueue, TrunkTypeOK
<1>3. offered \in [Producers -> Seq(Item)] /\ offered' = Push(offered, p, x)
  BY DEF AddEnqueue, TrunkTypeOK, Push
<1> HIDE DEF x
<1>4. /\ works' \in [Producers -> Seq(Item)]
      /\ \A q \in Producers : q # p => works'[q] = works[q]
      /\ Len(works'[p]) = Len(works[p]) + 1
      /\ \A i \in 1..Len(works[p]) : works'[p][i] = works[p][i]
      /\ works'[p][Len(works[p]) + 1] = x
  BY <1>1, <1>2, PushFacts
<1>5. /\ offered' \in [Producers -> Seq(Item)]
      /\ \A q \in Producers : q # p => offered'[q] = offered[q]
      /\ Len(offered'[p]) = Len(offered[p]) + 1
      /\ \A i \in 1..Len(offered[p]) : offered'[p][i] = offered[p][i]
      /\ offered'[p][Len(offered[p]) + 1] = x
  BY <1>1, <1>3, PushFacts
<1> QED  BY <1>1, <1>4, <1>5 DEF x

LEMMA TakeFacts ==
    ASSUME TrunkTypeOK, RunOnceTake
    PROVE  \E p \in Producers :
             /\ Len(works[p]) \in Nat \ {0}
             /\ works[p][1] \in Item
             /\ works' \in [Producers -> Seq(Item)]
             /\ \A q \in Producers : q # p => works'[q] = works[q]
             /\ Len(works'[p]) = Len(works[p]) - 1
             /\ \A i \in 1..Len(works[p]) - 1 : works'[p][i] = works[p][i + 1]
             /\ fate' = [fate EXCEPT ![works[p][1]] = "delivered"]
             /\ delivered' = Append(delivered, works[p][1])
             /\ delivered' \in Seq(Item)
             /\ Len(delivered') = Len(delivered) + 1
             /\ \A n \in 1..Len(delivered) : delivered'[n] = delivered[n]
             /\ delivered'[Len(delivered) + 1] = works[p][1]
<1>1. PICK p \in Pending(works) :
        /\ works' = Pop(works, p)
        /\ fate' = [fate EXCEPT ![Head(works[p])] = "delivered"]
        /\ delivered' = Append(delivered, Head(works[p]))
  BY DEF RunOnceTake
<1>2. works \in [Producers -> Seq(Item)] /\ delivered \in Seq(Item)
  BY DEF TrunkTypeOK
<1>5. p \in Pending(works)
  OBVIOUS
<1>3. /\ p \in Producers
      /\ Len(works[p]) \in Nat \ {0}
      /\ Head(works[p]) = works[p][1]
      /\ Head(works[p]) \in Item
      /\ Pop(works, p) \in [Producers -> Seq(Item)]
      /\ \A q \in Producers : q # p => Pop(works, p)[q] = works[q]
      /\ Len(Pop(works, p)[p]) = Len(works[p]) - 1
      /\ \A i \in 1..Len(works[p]) - 1 : Pop(works, p)[p][i] = works[p][i + 1]
  BY <1>2, <1>5, PopFacts
<1>4. /\ delivered' \in Seq(Item)
      /\ Len(delivered') = Len(delivered) + 1
      /\ \A n \in 1..Len(delivered) : delivered'[n] = delivered[n]
      /\ delivered'[Len(delivered) + 1] = works[p][1]
  BY <1>1, <1>2, <1>3, AppendProperties
<1> QED  BY <1>1, <1>3, <1>4
-----------------------------------------------------------------------------
(* Type correctness. *)

LEMMA TrunkTypeInit == TrunkInit => TrunkTypeOK
<1>1. <<>> \in Seq(Item)
  BY EmptySeq
<1> QED  BY <1>1, ItemAssumption DEF TrunkInit, TrunkTypeOK, EmptyQueue

(* What waits in a queue was offered, and has not been run. *)
LEMMA WaitingFacts ==
    ASSUME TrunkTypeOK, TrunkInv, NEW p \in Producers, NEW i \in 1..Len(works[p])
    PROVE  /\ Len(works[p]) \in Nat /\ Len(offered[p]) \in Nat /\ Taken(p) \in Nat
           /\ Taken(p) + i \in 1..Len(offered[p])
           /\ works[p][i] = offered[p][Taken(p) + i]
           /\ fate[works[p][i]] \in {"queued", "delivered"}
<1>1. Len(works[p]) \in Nat /\ Len(offered[p]) \in Nat
  BY LenProperties DEF TrunkTypeOK
<1>2. Len(works[p]) <= Len(offered[p]) /\ works[p][i] = offered[p][Taken(p) + i]
  BY DEF TrunkInv, SuffixInv
<1>3. Taken(p) \in Nat /\ Taken(p) + i \in 1..Len(offered[p])
  <2> DEFINE m == Len(works[p])
             n == Len(offered[p])
  <2>1. m \in Nat /\ n \in Nat /\ m <= n /\ i \in 1..m /\ Taken(p) = n - m
    BY <1>1, <1>2 DEF Taken
  <2> HIDE DEF m, n
  <2>2. Taken(p) \in Nat /\ Taken(p) + i \in 1..n
    BY <2>1
  <2> QED  BY <2>2 DEF n
<1> QED  BY <1>1, <1>2, <1>3 DEF TrunkInv, OfferInv

LEMMA TrunkTypeStep == TrunkTypeOK /\ TrunkInv /\ [TrunkNext]_trunkVars => TrunkTypeOK'
<1> SUFFICES ASSUME TrunkTypeOK, TrunkInv, [TrunkNext]_trunkVars
             PROVE  TrunkTypeOK'
  OBVIOUS
<1> USE ItemAssumption
<1>1. ASSUME NEW p \in Producers, NEW x \in Item, AddAdmitted(p, x)
      PROVE  TrunkTypeOK'
  BY <1>1 DEF AddAdmitted, TrunkTypeOK
<1>2. ASSUME NEW p \in Producers, NEW x \in Item, AddRefused(p, x)
      PROVE  TrunkTypeOK'
  BY <1>2 DEF AddRefused, TrunkTypeOK
<1>3. ASSUME NEW p \in Producers, AddEnqueue(p)
      PROVE  TrunkTypeOK'
  <2>1. \A q \in Producers : q # p /\ adding[q] # NoItem => adding[q] # adding[p]
    BY DEF TrunkInv, OfferInv
  <2>2. works' \in [Producers -> Seq(Item)] /\ offered' \in [Producers -> Seq(Item)]
    BY <1>3, AddFacts
  <2>3. adding[p] \in Item
    BY <1>3 DEF AddEnqueue, TrunkTypeOK
  <2> QED  BY <1>3, <2>1, <2>2, <2>3 DEF AddEnqueue, TrunkTypeOK
<1>4. ASSUME NEW p \in Producers, AddFails(p)
      PROVE  TrunkTypeOK'
  <2>1. \A q \in Producers : q # p /\ adding[q] # NoItem => adding[q] # adding[p]
    BY DEF TrunkInv, OfferInv
  <2> QED  BY <1>4, <2>1 DEF AddFails, TrunkTypeOK
<1>5. CASE RunOnceTake
  <2>1. PICK p \in Producers :
          /\ Len(works[p]) \in Nat \ {0}
          /\ works[p][1] \in Item
          /\ works' \in [Producers -> Seq(Item)]
          /\ fate' = [fate EXCEPT ![works[p][1]] = "delivered"]
          /\ delivered' \in Seq(Item)
    BY <1>5, TakeFacts
  <2>2. fate[works[p][1]] # "adding"
    BY <2>1, WaitingFacts
  <2>3. UNCHANGED <<close, adding, offered>> /\ pump' = "callback"
    BY <1>5 DEF RunOnceTake
  <2> QED  BY <2>1, <2>2, <2>3 DEF TrunkTypeOK
<1>6. CASE RunOnceBegin \/ CallbackReturns \/ RunOnceEnd \/ Close
  BY <1>6 DEF RunOnceBegin, CallbackReturns, RunOnceEnd, Close, TrunkTypeOK
<1>7. CASE UNCHANGED trunkVars
  BY <1>7 DEF trunkVars, TrunkTypeOK
<1> QED
  BY <1>1, <1>2, <1>3, <1>4, <1>5, <1>6, <1>7 DEF TrunkNext, Add, RunOnce
-----------------------------------------------------------------------------
(* The inductive invariant. *)

LEMMA TrunkInvInit == TrunkInit => TrunkInv
<1> SUFFICES ASSUME TrunkInit PROVE TrunkInv
  OBVIOUS
<1>1. \A p \in Producers : Len(works[p]) = 0 /\ Len(offered[p]) = 0 /\ Taken(p) = 0
  BY EmptySeq DEF TrunkInit, EmptyQueue, Taken
<1>2. Len(delivered) = 0
  BY EmptySeq DEF TrunkInit
<1> QED  BY <1>1, <1>2 DEF TrunkInit, TrunkInv, OfferInv, SuffixInv, DeliveryInv

(* Steps that move no item through the queue. *)
LEMMA QueuesElsewhere ==
    ASSUME SuffixInv, DeliveryInv, UNCHANGED <<works, offered, delivered>>
    PROVE  SuffixInv' /\ DeliveryInv'
<1>1. \A p : Taken(p)' = Taken(p)
  BY DEF Taken
<1>2. SuffixInv'
  BY <1>1 DEF SuffixInv
<1>3. DeliveryInv'
  BY <1>1 DEF DeliveryInv
<1> QED  BY <1>2, <1>3

LEMMA TrunkInvElsewhere ==
    ASSUME TrunkInv, UNCHANGED <<works, offered, delivered, adding, fate>>
    PROVE  TrunkInv'
<1>1. OfferInv'
  BY DEF TrunkInv, OfferInv
<1> QED  BY <1>1, QueuesElsewhere DEF TrunkInv

LEMMA TrunkInvAdmit ==
    ASSUME TrunkTypeOK, TrunkInv, NEW p \in Producers, NEW x \in Item,
           AddAdmitted(p, x) \/ AddRefused(p, x) \/ AddFails(p)
    PROVE  TrunkInv'
<1> USE ItemAssumption
<1>1. UNCHANGED <<works, offered, delivered>>
  BY DEF AddAdmitted, AddRefused, AddFails
<1>2. SuffixInv' /\ DeliveryInv'
  BY <1>1, QueuesElsewhere DEF TrunkInv
<1>3. \E y \in Item : /\ fate[y] \in {"none", "adding"}
                     /\ \A z \in Item : z # y => fate'[z] = fate[z]
  BY DEF AddAdmitted, AddRefused, AddFails, TrunkTypeOK
<1>4. \A q \in Producers : \A i \in 1..Len(offered[q]) :
        offered[q][i] \in Item /\ fate[offered[q][i]] \in {"queued", "delivered"}
  BY ElementOfSeq, LenProperties DEF TrunkTypeOK, TrunkInv, OfferInv
<1>5. \A q \in Producers : \A i \in 1..Len(offered'[q]) :
        fate'[offered'[q][i]] \in {"queued", "delivered"}
  BY <1>1, <1>3, <1>4
<1>6. \A q, r \in Producers : adding'[q] = adding'[r] /\ adding'[q] # NoItem => q = r
  <2>1. CASE AddAdmitted(p, x)
    <3>1. \A q \in Producers : adding[q] # x
      BY <2>1 DEF AddAdmitted, TrunkTypeOK
    <3>2. adding' = [adding EXCEPT ![p] = x]
      BY <2>1 DEF AddAdmitted
    <3> QED  BY <3>1, <3>2 DEF TrunkTypeOK, TrunkInv, OfferInv
  <2>2. CASE AddRefused(p, x)
    BY <2>2 DEF AddRefused, TrunkInv, OfferInv
  <2>3. CASE AddFails(p)
    BY <2>3 DEF AddFails, TrunkTypeOK, TrunkInv, OfferInv
  <2> QED  BY <2>1, <2>2, <2>3
<1> QED  BY <1>1, <1>2, <1>5, <1>6 DEF TrunkInv, OfferInv

LEMMA TrunkInvEnqueue ==
    ASSUME TrunkTypeOK, TrunkInv, NEW p \in Producers, AddEnqueue(p)
    PROVE  TrunkInv'
<1> USE ItemAssumption
<1> DEFINE x == adding[p]
           m == Len(works[p])
           n == Len(offered[p])
<1>1. /\ x \in Item /\ fate[x] = "adding"
      /\ \A q \in Producers : q # p => works'[q] = works[q] /\ offered'[q] = offered[q]
      /\ Len(works'[p]) = m + 1
      /\ Len(offered'[p]) = n + 1
      /\ \A i \in 1..m : works'[p][i] = works[p][i]
      /\ \A i \in 1..n : offered'[p][i] = offered[p][i]
      /\ works'[p][m + 1] = x
      /\ offered'[p][n + 1] = x
  BY AddFacts
<1>2. \A q \in Producers : Len(works[q]) \in Nat /\ Len(offered[q]) \in Nat
  BY LenProperties DEF TrunkTypeOK
<1>3. /\ UNCHANGED delivered
      /\ fate' = [fate EXCEPT ![x] = "queued"]
      /\ adding' = [adding EXCEPT ![p] = NoItem]
  BY DEF AddEnqueue
<1>4. \A q \in Producers : \A i \in 1..Len(offered[q]) :
        /\ offered[q][i] \in Item
        /\ fate[offered[q][i]] \in {"queued", "delivered"}
        /\ offered[q][i] # x
  BY <1>1, ElementOfSeq, LenProperties DEF TrunkTypeOK, TrunkInv, OfferInv
<1> HIDE DEF x, m, n
<1>5. m \in Nat /\ n \in Nat /\ m <= n
  BY <1>2 DEF m, n, TrunkInv, SuffixInv
<1>6. \A q \in Producers : \A i \in 1..Len(offered'[q]) :
        \/ i \in 1..Len(offered[q]) /\ offered'[q][i] = offered[q][i]
        \/ q = p /\ i = n + 1 /\ offered'[q][i] = x
  BY <1>1, <1>2, <1>5 DEF n
<1>7. OfferInv'
  <2>1. \A q, r \in Producers : adding'[q] = adding'[r] /\ adding'[q] # NoItem => q = r
    BY <1>3 DEF TrunkTypeOK, TrunkInv, OfferInv
  <2>2. \A q \in Producers : \A i \in 1..Len(offered'[q]) :
          fate'[offered'[q][i]] \in {"queued", "delivered"}
    BY <1>1, <1>3, <1>4, <1>6 DEF TrunkTypeOK
  <2>3. \A q, r \in Producers :
          \A i \in 1..Len(offered'[q]) : \A j \in 1..Len(offered'[r]) :
             offered'[q][i] = offered'[r][j] => q = r /\ i = j
    <3> SUFFICES ASSUME NEW q \in Producers, NEW r \in Producers,
                        NEW i \in 1..Len(offered'[q]), NEW j \in 1..Len(offered'[r]),
                        offered'[q][i] = offered'[r][j]
                 PROVE  q = r /\ i = j
      OBVIOUS
    <3>1. CASE offered'[q][i] = x
      <4>1. q = p /\ i = n + 1
        BY <1>4, <1>6, <3>1
      <4>2. r = p /\ j = n + 1
        BY <1>4, <1>6, <3>1
      <4> QED  BY <4>1, <4>2
    <3>2. CASE offered'[q][i] # x
      <4>1. /\ i \in 1..Len(offered[q]) /\ offered'[q][i] = offered[q][i]
            /\ j \in 1..Len(offered[r]) /\ offered'[r][j] = offered[r][j]
        BY <1>6, <3>2
      <4>2. \A k \in 1..Len(offered[q]) : \A l \in 1..Len(offered[r]) :
              offered[q][k] = offered[r][l] => q = r /\ k = l
        BY DEF TrunkInv, OfferInv
      <4> QED  BY <4>1, <4>2
    <3> QED  BY <3>1, <3>2
  <2> QED  BY <2>1, <2>2, <2>3 DEF OfferInv
<1>8. \A q \in Producers : Taken(q)' = Taken(q)
  <2>1. Taken(p)' = (n + 1) - (m + 1) /\ Taken(p) = n - m
    BY <1>1 DEF Taken, m, n
  <2>2. Taken(p)' = Taken(p)
    BY <1>5, <2>1
  <2>3. \A q \in Producers : q # p => Taken(q)' = Taken(q)
    BY <1>1 DEF Taken
  <2> QED  BY <2>2, <2>3
<1>9. SuffixInv'
  <2> SUFFICES ASSUME NEW q \in Producers
               PROVE  /\ Len(works'[q]) <= Len(offered'[q])
                      /\ \A i \in 1..Len(works'[q]) : works'[q][i] = offered'[q][Taken(q) + i]
    BY <1>8 DEF SuffixInv
  <2>1. CASE q # p
    BY <1>1, <2>1 DEF TrunkInv, SuffixInv
  <2>2. CASE q = p
    <3>1. Taken(p) = n - m
      BY DEF Taken, m, n
    <3>2. \A i \in 1..m : works[p][i] = offered[p][n - m + i]
      BY <3>1 DEF TrunkInv, SuffixInv, m
    <3>3. \A i \in 1..m : n - m + i \in 1..n
      BY <1>5
    <3> QED  BY <1>1, <1>5, <2>2, <3>1, <3>2, <3>3
  <2> QED  BY <2>1, <2>2
<1>10. DeliveryInv'
  <2>1. \A q \in Producers : \A i \in 1..Taken(q) :
          i \in 1..Len(offered[q]) /\ offered'[q][i] = offered[q][i]
    <3> SUFFICES ASSUME NEW q \in Producers, NEW i \in 1..Taken(q)
                 PROVE  i \in 1..Len(offered[q]) /\ offered'[q][i] = offered[q][i]
      OBVIOUS
    <3>1. i \in 1..Len(offered[q])
      <4> DEFINE a == Len(works[q])
                 b == Len(offered[q])
      <4>1. a \in Nat /\ b \in Nat /\ Taken(q) = b - a
        BY <1>2 DEF Taken
      <4> HIDE DEF a, b
      <4>2. i \in 1..b
        BY <4>1
      <4> QED  BY <4>2 DEF b
    <3> QED  BY <1>1, <3>1 DEF n
  <2> QED  BY <1>3, <1>8, <2>1 DEF TrunkInv, DeliveryInv
<1> QED  BY <1>7, <1>9, <1>10 DEF TrunkInv

(* The item RunOnce takes is the first its thread offered that has not been run,
   and is in no other place. *)
LEMMA TakenFacts ==
    ASSUME TrunkTypeOK, TrunkInv, NEW p \in Producers, Len(works[p]) \in Nat \ {0}
    PROVE  /\ Taken(p) \in Nat
           /\ Taken(p) + 1 \in 1..Len(offered[p])
           /\ works[p][1] = offered[p][Taken(p) + 1]
           /\ \A q \in Producers : \A i \in 1..Len(offered[q]) :
                offered[q][i] = works[p][1] => q = p /\ i = Taken(p) + 1
           /\ \A n \in 1..Len(delivered) : delivered[n] # works[p][1]
<1>1. /\ Taken(p) \in Nat
      /\ Taken(p) + 1 \in 1..Len(offered[p])
      /\ works[p][1] = offered[p][Taken(p) + 1]
  BY WaitingFacts
<1>2. \A q \in Producers : \A i \in 1..Len(offered[q]) :
        offered[q][i] = works[p][1] => q = p /\ i = Taken(p) + 1
  BY <1>1 DEF TrunkInv, OfferInv
<1>3. \A q \in Producers : Taken(q) \in Int /\ \A i \in 1..Taken(q) : i \in 1..Len(offered[q])
  <2> SUFFICES ASSUME NEW q \in Producers
               PROVE  Taken(q) \in Int /\ \A i \in 1..Taken(q) : i \in 1..Len(offered[q])
    OBVIOUS
  <2> DEFINE a == Len(works[q])
             b == Len(offered[q])
  <2>1. a \in Nat /\ b \in Nat /\ Taken(q) = b - a
    BY LenProperties DEF Taken, TrunkTypeOK
  <2> HIDE DEF a, b
  <2>2. Taken(q) \in Int /\ \A i \in 1..Taken(q) : i \in 1..b
    BY <2>1
  <2> QED  BY <2>2 DEF b
<1>4. ASSUME NEW n \in 1..Len(delivered), delivered[n] = works[p][1]
      PROVE  FALSE
  <2>1. PICK q \in Producers : \E i \in 1..Taken(q) : offered[q][i] = delivered[n]
    BY DEF TrunkInv, DeliveryInv
  <2>2. PICK i \in 1..Taken(q) : offered[q][i] = works[p][1]
    BY <1>4, <2>1
  <2>3. q = p /\ i = Taken(p) + 1
    BY <1>2, <1>3, <2>2
  <2> QED  BY <1>1, <2>2, <2>3
<1> QED  BY <1>1, <1>2, <1>4

LEMMA TrunkInvTake ==
    ASSUME TrunkTypeOK, TrunkInv, RunOnceTake
    PROVE  TrunkInv'
<1>1. PICK p \in Producers :
        /\ Len(works[p]) \in Nat \ {0}
        /\ works[p][1] \in Item
        /\ \A q \in Producers : q # p => works'[q] = works[q]
        /\ Len(works'[p]) = Len(works[p]) - 1
        /\ \A i \in 1..Len(works[p]) - 1 : works'[p][i] = works[p][i + 1]
        /\ fate' = [fate EXCEPT ![works[p][1]] = "delivered"]
        /\ Len(delivered') = Len(delivered) + 1
        /\ \A n \in 1..Len(delivered) : delivered'[n] = delivered[n]
        /\ delivered'[Len(delivered) + 1] = works[p][1]
  BY TakeFacts
<1> DEFINE x == works[p][1]
           t == Taken(p)
           d == Len(delivered)
           m == Len(works[p])
           n == Len(offered[p])
<1>2. UNCHANGED <<offered, adding>>
  BY DEF RunOnceTake
<1>3. /\ t \in Nat
      /\ t + 1 \in 1..n
      /\ x = offered[p][t + 1]
      /\ \A k \in 1..d : delivered[k] # x
  BY <1>1, TakenFacts
<1>4. d \in Nat /\ m \in Nat \ {0} /\ n \in Nat /\ t = n - m /\ t + 1 \in Nat
  BY <1>1, <1>3, LenProperties DEF TrunkTypeOK, Taken
<1>5. \A q \in Producers : q # p => Taken(q)' = Taken(q)
  BY <1>1, <1>2 DEF Taken
<1>6. Taken(p)' = t + 1
  <2>1. Taken(p)' = n - (m - 1)
    BY <1>1, <1>2 DEF Taken
  <2> HIDE DEF t, m, n
  <2> QED  BY <1>4, <2>1
<1>7. OfferInv'
  <2>1. \A q \in Producers : \A i \in 1..Len(offered[q]) :
          offered[q][i] \in Item /\ fate[offered[q][i]] \in {"queued", "delivered"}
    BY ElementOfSeq, LenProperties DEF TrunkTypeOK, TrunkInv, OfferInv
  <2>2. \A q \in Producers : \A i \in 1..Len(offered'[q]) :
          fate'[offered'[q][i]] \in {"queued", "delivered"}
    BY <1>1, <1>2, <2>1 DEF TrunkTypeOK
  <2> QED  BY <1>2, <2>2 DEF TrunkInv, OfferInv
<1>8. SuffixInv'
  <2> SUFFICES ASSUME NEW q \in Producers
               PROVE  /\ Len(works'[q]) <= Len(offered'[q])
                      /\ \A i \in 1..Len(works'[q]) : works'[q][i] = offered'[q][Taken(q)' + i]
    BY DEF SuffixInv
  <2>1. CASE q # p
    BY <1>1, <1>2, <1>5, <2>1 DEF TrunkInv, SuffixInv
  <2>2. CASE q = p
    <3>1. m <= n /\ \A i \in 1..m : works[p][i] = offered[p][t + i]
      BY DEF TrunkInv, SuffixInv
    <3>2. Len(works'[p]) = m - 1 /\ \A i \in 1..m - 1 : works'[p][i] = works[p][i + 1]
      BY <1>1
    <3> HIDE DEF m, n, t
    <3>3. \A i \in 1..m - 1 : i + 1 \in 1..m /\ t + (i + 1) = (t + 1) + i
      BY <1>4
    <3>4. \A i \in 1..m - 1 : works'[p][i] = offered[p][(t + 1) + i]
      BY <3>1, <3>2, <3>3
    <3> QED  BY <1>2, <1>4, <1>6, <2>2, <3>1, <3>2, <3>4 DEF n
  <2> QED  BY <2>1, <2>2
<1>9. DeliveryInv'
  <2> HIDE DEF x, t, d, m, n
  <2>1. /\ Len(delivered') = d + 1
        /\ \A k \in 1..d : delivered'[k] = delivered[k]
        /\ delivered'[d + 1] = x
    BY <1>1 DEF d, x
  <2>2. \A i, j \in 1..d : delivered[i] = delivered[j] => i = j
    BY DEF TrunkInv, DeliveryInv, d
  <2>3. \A i, j \in 1..Len(delivered') : delivered'[i] = delivered'[j] => i = j
    BY <1>3, <1>4, <2>1, <2>2
  <2>4. \A q \in Producers : \A i \in 1..Taken(q) : i \in 1..Taken(q)'
    BY <1>3, <1>4, <1>5, <1>6 DEF t
  <2>5. \A k \in 1..Len(delivered') :
          \E q \in Producers : \E i \in 1..Taken(q)' : offered'[q][i] = delivered'[k]
    <3> SUFFICES ASSUME NEW k \in 1..Len(delivered')
                 PROVE  \E q \in Producers : \E i \in 1..Taken(q)' : offered[q][i] = delivered'[k]
      BY <1>2
    <3>1. CASE k \in 1..d
      <4>1. \E q \in Producers : \E i \in 1..Taken(q) : offered[q][i] = delivered[k]
        BY <3>1 DEF TrunkInv, DeliveryInv, d
      <4> QED  BY <2>1, <2>4, <3>1, <4>1
    <3>2. CASE k = d + 1
      <4>1. t + 1 \in 1..Taken(p)'
        BY <1>3, <1>4, <1>6
      <4> QED  BY <1>3, <2>1, <3>2, <4>1
    <3> QED  BY <1>4, <2>1, <3>1, <3>2
  <2>6. \A q \in Producers : \A i \in 1..Taken(q)' :
          \E k \in 1..Len(delivered') : delivered'[k] = offered'[q][i]
    <3> SUFFICES ASSUME NEW q \in Producers, NEW i \in 1..Taken(q)'
                 PROVE  \E k \in 1..d + 1 : delivered'[k] = offered[q][i]
      BY <1>2, <2>1
    <3>1. CASE i \in 1..Taken(q)
      <4>1. \E k \in 1..d : delivered[k] = offered[q][i]
        BY <3>1 DEF TrunkInv, DeliveryInv, d
      <4> QED  BY <1>4, <2>1, <4>1
    <3>2. CASE q = p /\ i = t + 1
      <4>1. d + 1 \in 1..d + 1
        BY <1>4
      <4> QED  BY <1>3, <2>1, <3>2, <4>1
    <3> QED  BY <1>3, <1>4, <1>5, <1>6, <3>1, <3>2 DEF t
  <2> QED  BY <2>3, <2>5, <2>6 DEF DeliveryInv
<1> QED  BY <1>7, <1>8, <1>9 DEF TrunkInv

LEMMA TrunkInvStep == TrunkTypeOK /\ TrunkInv /\ [TrunkNext]_trunkVars => TrunkInv'
<1> SUFFICES ASSUME TrunkTypeOK, TrunkInv, [TrunkNext]_trunkVars
             PROVE  TrunkInv'
  OBVIOUS
<1>1. ASSUME NEW p \in Producers, Add(p)
      PROVE  TrunkInv'
  <2>1. CASE AddFails(p)
    <3>1. adding[p] \in Item
      BY <2>1 DEF AddFails, TrunkTypeOK
    <3> QED  BY <2>1, <3>1, TrunkInvAdmit
  <2> QED  BY <1>1, <2>1, TrunkInvAdmit, TrunkInvEnqueue DEF Add
<1>2. CASE RunOnce
  BY <1>2, TrunkInvTake, TrunkInvElsewhere
     DEF RunOnce, RunOnceBegin, CallbackReturns, RunOnceEnd
<1>3. CASE Close
  BY <1>3, TrunkInvElsewhere DEF Close
<1>4. CASE UNCHANGED trunkVars
  BY <1>4, TrunkInvElsewhere DEF trunkVars
<1> QED  BY <1>1, <1>2, <1>3, <1>4 DEF TrunkNext

(* The types of the trunk queue's state. *)
THEOREM TrunkTyping == TrunkSpec => []TrunkTypeOK
  BY TrunkTypeInit, TrunkInvInit, TrunkTypeStep, TrunkInvStep, PTL DEF TrunkSpec

(* The inductive invariant: a thread's queue is what it offered without what has
   been run (CCamelConcurrentQueue::Add, RunOnce). *)
THEOREM TrunkInvariance == TrunkSpec => []TrunkInv
  BY TrunkTypeInit, TrunkInvInit, TrunkTypeStep, TrunkInvStep, PTL DEF TrunkSpec
-----------------------------------------------------------------------------
(* Every callback runs at most once, and only for an item some thread added
   (CCamelConcurrentQueue::RunOnce takes an item before it runs it). *)
THEOREM CallbackOnce == TrunkSpec => []DeliveredOnce
<1>1. ASSUME TrunkTypeOK, TrunkInv PROVE DeliveredOnce
  <2>1. DOMAIN delivered = 1..Len(delivered)
    BY <1>1, LenProperties DEF TrunkTypeOK
  <2>2. \A p \in Producers : DOMAIN offered[p] = 1..Len(offered[p])
    BY <1>1, LenProperties DEF TrunkTypeOK
  <2>3. ASSUME NEW p \in Producers, NEW i \in 1..Taken(p)
        PROVE  i \in 1..Len(offered[p])
    <3> DEFINE a == Len(works[p])
               b == Len(offered[p])
    <3>1. a \in Nat /\ b \in Nat /\ i \in 1..b - a
      BY <1>1, LenProperties DEF Taken, TrunkTypeOK
    <3> HIDE DEF a, b
    <3>2. i \in 1..b
      BY <3>1
    <3> QED  BY <3>2 DEF b
  <2>4. \A i, j \in DOMAIN delivered : delivered[i] = delivered[j] => i = j
    BY <1>1, <2>1 DEF TrunkInv, DeliveryInv
  <2>5. ASSUME NEW n \in DOMAIN delivered
        PROVE  \E p \in Producers : \E j \in DOMAIN offered[p] : offered[p][j] = delivered[n]
    <3>1. PICK p \in Producers : \E i \in 1..Taken(p) : offered[p][i] = delivered[n]
      BY <1>1, <2>1, <2>5 DEF TrunkInv, DeliveryInv
    <3> QED  BY <2>2, <2>3, <3>1
  <2> QED  BY <2>4, <2>5 DEF DeliveredOnce
<1> QED  BY <1>1, TrunkTyping, TrunkInvariance, PTL

(* The order of one thread's callbacks, with the positions as numbers. *)
RunInOrder ==
    \A p \in Producers : \A j \in 1..Len(offered[p]) : \A i \in 1..j - 1 :
        \A n \in 1..Len(delivered) :
            delivered[n] = offered[p][j] =>
                \E m \in 1..n - 1 : delivered[m] = offered[p][i]

LEMMA OrderEnqueue ==
    ASSUME TrunkTypeOK, TrunkInv, RunInOrder, NEW p \in Producers, AddEnqueue(p)
    PROVE  RunInOrder'
<1>1. /\ adding[p] \in Item /\ fate[adding[p]] = "adding"
      /\ \A q \in Producers : q # p => offered'[q] = offered[q]
      /\ Len(offered'[p]) = Len(offered[p]) + 1
      /\ \A i \in 1..Len(offered[p]) : offered'[p][i] = offered[p][i]
      /\ offered'[p][Len(offered[p]) + 1] = adding[p]
  BY AddFacts
<1>2. UNCHANGED delivered
  BY DEF AddEnqueue
<1>3. \A q \in Producers : Len(offered[q]) \in Nat /\ Len(works[q]) \in Nat
  BY LenProperties DEF TrunkTypeOK
<1>4. ASSUME NEW n \in 1..Len(delivered), delivered[n] = adding[p]
      PROVE  FALSE
  <2>1. PICK q \in Producers : \E i \in 1..Taken(q) : offered[q][i] = adding[p]
    BY <1>4 DEF TrunkInv, DeliveryInv
  <2>2. PICK i \in 1..Taken(q) : offered[q][i] = adding[p]
    BY <2>1
  <2>3. i \in 1..Len(offered[q])
    <3> DEFINE a == Len(works[q])
               b == Len(offered[q])
    <3>1. a \in Nat /\ b \in Nat /\ i \in 1..b - a
      BY <1>3 DEF Taken
    <3> HIDE DEF a, b
    <3>2. i \in 1..b
      BY <3>1
    <3> QED  BY <3>2 DEF b
  <2> QED  BY <1>1, <2>2, <2>3 DEF TrunkInv, OfferInv
<1> SUFFICES ASSUME NEW q \in Producers, NEW j \in 1..Len(offered'[q]), NEW i \in 1..j - 1,
                    NEW n \in 1..Len(delivered), delivered[n] = offered'[q][j]
             PROVE  \E m \in 1..n - 1 : delivered[m] = offered'[q][i]
  BY <1>2 DEF RunInOrder
<1>5. CASE q = p /\ j = Len(offered[p]) + 1
  BY <1>1, <1>4, <1>5
<1>6. CASE ~(q = p /\ j = Len(offered[p]) + 1)
  <2>1. j \in 1..Len(offered[q])
    BY <1>1, <1>3, <1>6
  <2>2. i \in 1..Len(offered[q])
    BY <1>3, <2>1
  <2>3. offered'[q][j] = offered[q][j] /\ offered'[q][i] = offered[q][i]
    BY <1>1, <2>1, <2>2
  <2> QED  BY <2>1, <2>3 DEF RunInOrder
<1> QED  BY <1>5, <1>6

LEMMA OrderTake ==
    ASSUME TrunkTypeOK, TrunkInv, RunInOrder, RunOnceTake
    PROVE  RunInOrder'
<1>1. PICK p \in Producers :
        /\ Len(works[p]) \in Nat \ {0}
        /\ Len(delivered') = Len(delivered) + 1
        /\ \A n \in 1..Len(delivered) : delivered'[n] = delivered[n]
        /\ delivered'[Len(delivered) + 1] = works[p][1]
  BY TakeFacts
<1> DEFINE d == Len(delivered)
           x == works[p][1]
<1>2. UNCHANGED offered /\ d \in Nat
  BY LenProperties DEF RunOnceTake, TrunkTypeOK
<1>3. /\ Taken(p) \in Nat
      /\ \A q \in Producers : \A i \in 1..Len(offered[q]) :
           offered[q][i] = x => q = p /\ i = Taken(p) + 1
  BY <1>1, TakenFacts
<1> HIDE DEF d, x
<1> SUFFICES ASSUME NEW q \in Producers, NEW j \in 1..Len(offered'[q]), NEW i \in 1..j - 1,
                    NEW n \in 1..Len(delivered'), delivered'[n] = offered'[q][j]
             PROVE  \E m \in 1..n - 1 : delivered'[m] = offered'[q][i]
  BY DEF RunInOrder
<1>0. /\ offered' = offered /\ j \in 1..Len(offered[q])
      /\ n \in 1..d + 1 /\ delivered'[n] = offered[q][j]
  BY <1>1, <1>2 DEF d
<1>4. CASE n \in 1..d
  <2>1. \E m \in 1..n - 1 : delivered[m] = offered[q][i]
    <3>1. n \in 1..Len(delivered)
      BY <1>4 DEF d
    <3>2. delivered[n] = offered[q][j]
      BY <1>0, <1>1, <3>1
    <3> QED  BY <1>0, <3>1, <3>2 DEF RunInOrder
  <2>2. PICK m \in 1..n - 1 : delivered[m] = offered[q][i]
    BY <2>1
  <2>3. m \in 1..d
    BY <1>2, <1>4
  <2> QED  BY <1>0, <1>1, <2>2, <2>3 DEF d
<1>5. CASE n = d + 1
  <2>1. q = p /\ j = Taken(p) + 1
    <3>1. offered[q][j] = x
      BY <1>0, <1>1, <1>5 DEF d, x
    <3> QED  BY <1>0, <1>3, <3>1
  <2>2. i \in 1..Taken(p)
    BY <1>3, <2>1
  <2>3. PICK m \in 1..d : delivered[m] = offered[q][i]
    BY <2>1, <2>2 DEF TrunkInv, DeliveryInv, d
  <2>4. m \in 1..n - 1
    BY <1>2, <1>5
  <2> QED  BY <1>0, <1>1, <2>3, <2>4 DEF d
<1> QED  BY <1>0, <1>2, <1>4, <1>5

(* One thread's callbacks run in the order it added them: its queue is a FIFO and
   RunOnce takes from the head. *)
THEOREM CallbacksInOrder == TrunkSpec => []DeliveredInOrder
<1>1. TrunkInit => RunInOrder
  BY EmptySeq DEF TrunkInit, RunInOrder
<1>2. TrunkTypeOK /\ TrunkInv /\ RunInOrder /\ [TrunkNext]_trunkVars => RunInOrder'
  <2> SUFFICES ASSUME TrunkTypeOK, TrunkInv, RunInOrder, [TrunkNext]_trunkVars
               PROVE  RunInOrder'
    OBVIOUS
  <2>1. ASSUME UNCHANGED <<offered, delivered>> PROVE RunInOrder'
    BY <2>1 DEF RunInOrder
  <2> QED
    BY <2>1, OrderEnqueue, OrderTake
       DEF TrunkNext, Add, AddAdmitted, AddRefused, AddFails, RunOnce, RunOnceBegin,
           CallbackReturns, RunOnceEnd, Close, trunkVars
<1>3. ASSUME TrunkTypeOK, RunInOrder PROVE DeliveredInOrder
  <2>1. DOMAIN delivered = 1..Len(delivered) /\ Len(delivered) \in Nat
    BY <1>3, LenProperties DEF TrunkTypeOK
  <2>2. \A p \in Producers : DOMAIN offered[p] = 1..Len(offered[p]) /\ Len(offered[p]) \in Nat
    BY <1>3, LenProperties DEF TrunkTypeOK
  <2> QED  BY <1>3, <2>1, <2>2 DEF DeliveredInOrder, RunInOrder
<1> QED  BY <1>1, <1>2, <1>3, TrunkTyping, TrunkInvariance, PTL DEF TrunkSpec
=============================================================================
