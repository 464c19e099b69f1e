-------------------------- MODULE CamelQueue_proofs --------------------------
(***************************************************************************)
(* Lemmas about the operators of the lock-free queue, for any producers    *)
(* and elements.                                                           *)
(***************************************************************************)
EXTENDS CamelQueue, Integers, SequenceTheorems, TLAPS

(* A push appends one element to one producer's FIFO. *)
LEMMA PushFacts ==
    ASSUME NEW P, NEW S, NEW q \in [P -> Seq(S)], NEW p \in P, NEW x \in S
    PROVE  /\ Push(q, p, x) \in [P -> Seq(S)]
           /\ \A r \in P : r # p => Push(q, p, x)[r] = q[r]
           /\ Len(Push(q, p, x)[p]) = Len(q[p]) + 1
           /\ \A i \in 1..Len(q[p]) : Push(q, p, x)[p][i] = q[p][i]
           /\ Push(q, p, x)[p][Len(q[p]) + 1] = x
<1>1. Push(q, p, x)[p] = Append(q[p], x)
  BY DEF Push
<1>2. Append(q[p], x) \in Seq(S)
  BY AppendProperties
<1>3. \A r \in P : r # p => Push(q, p, x)[r] = q[r]
  BY DEF Push
<1>4. Push(q, p, x) \in [P -> Seq(S)]
  BY <1>2 DEF Push
<1> QED
  BY <1>1, <1>3, <1>4, AppendProperties

(* A pop takes the oldest element of one producer's FIFO; the others move up by
   one place. *)
LEMMA PopFacts ==
    ASSUME NEW P, NEW S, NEW q \in [P -> Seq(S)], NEW p \in Pending(q)
    PROVE  /\ p \in P
           /\ Len(q[p]) \in Nat \ {0}
           /\ Head(q[p]) = q[p][1]
           /\ Head(q[p]) \in S
           /\ Pop(q, p) \in [P -> Seq(S)]
           /\ \A r \in P : r # p => Pop(q, p)[r] = q[r]
           /\ Len(Pop(q, p)[p]) = Len(q[p]) - 1
           /\ \A i \in 1..Len(q[p]) - 1 : Pop(q, p)[p][i] = q[p][i + 1]
<1>1. p \in P /\ q[p] \in Seq(S) /\ q[p] # <<>>
  BY DEF Pending
<1>2. Pop(q, p)[p] = Tail(q[p])
  BY <1>1 DEF Pop
<1>3. /\ Head(q[p]) \in S
      /\ Tail(q[p]) \in Seq(S)
      /\ Len(Tail(q[p])) = Len(q[p]) - 1
      /\ \A i \in 1..Len(Tail(q[p])) : Tail(q[p])[i] = q[p][i + 1]
  BY <1>1, HeadTailProperties
<1>4. \A r \in P : r # p => Pop(q, p)[r] = q[r]
  BY DEF Pop
<1>5. Pop(q, p) \in [P -> Seq(S)]
  BY <1>3 DEF Pop
<1>6. Len(q[p]) \in Nat \ {0}
  BY <1>1, EmptySeq, LenProperties
<1>7. Head(q[p]) = q[p][1]
  BY <1>1
<1> QED
  BY <1>1, <1>2, <1>3, <1>4, <1>5, <1>6, <1>7
=============================================================================
