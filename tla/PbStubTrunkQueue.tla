-------------------------- MODULE PbStubTrunkQueue --------------------------
(***************************************************************************)
(* CPbStubTrunkQueue over CCamelConcurrentQueue: the way results travel    *)
(* back.  Worker threads Add work items (a response bound to the callback  *)
(* that wants it); the thread that owns the service runs them from RunOnce *)
(* and stops the queue with Close.                                         *)
(*                                                                         *)
(* Add tests _close and then enqueues, two steps.  RunOnce runs items      *)
(* until it finds _close set or nothing to take; the callback it runs may  *)
(* itself call Close.                                                      *)
(***************************************************************************)
EXTENDS Naturals, CamelQueue

CONSTANTS
    Producers,  \* threads that Add
    Item,       \* the work items, each added once
    NoItem      \* "no item"

ASSUME ItemAssumption == NoItem \notin Item

VARIABLES
    close,      \* CCamelConcurrentQueue::_close
    works,      \* _callbacks, one FIFO per adding thread
    adding,     \* the item a thread inside Add is about to enqueue
    pump,       \* the owner: "out" of RunOnce, in its "loop", in a "callback"
    fate,       \* history: what became of each item
    offered,    \* history: what each thread enqueued, in order
    delivered   \* history: the items RunOnce ran, in order

trunkVars == <<close, works, adding, pump, fate, offered, delivered>>

TrunkInit ==
    /\ close = FALSE
    /\ works = EmptyQueue(Producers)
    /\ adding = [p \in Producers |-> NoItem]
    /\ pump = "out"
    /\ fate = [x \in Item |-> "none"]
    /\ offered = [p \in Producers |-> <<>>]
    /\ delivered = <<>>

(* Add finds _close clear. *)
AddAdmitted(p, x) ==
    /\ adding[p] = NoItem
    /\ fate[x] = "none"
    /\ ~close
    /\ adding' = [adding EXCEPT ![p] = x]
    /\ fate' = [fate EXCEPT ![x] = "adding"]
    /\ UNCHANGED <<close, works, pump, offered, delivered>>

(* Add finds _close set and drops the item. *)
AddRefused(p, x) ==
    /\ adding[p] = NoItem
    /\ fate[x] = "none"
    /\ close
    /\ fate' = [fate EXCEPT ![x] = "dropped"]
    /\ UNCHANGED <<close, works, adding, pump, offered, delivered>>

(* Add enqueues the item and returns true. *)
AddEnqueue(p) ==
    LET x == adding[p] IN
    /\ x # NoItem
    /\ works' = Push(works, p, x)
    /\ offered' = [offered EXCEPT ![p] = Append(@, x)]
    /\ fate' = [fate EXCEPT ![x] = "queued"]
    /\ adding' = [adding EXCEPT ![p] = NoItem]
    /\ UNCHANGED <<close, pump, delivered>>

(* The queue cannot allocate room: Add returns false and drops the item. *)
AddFails(p) ==
    /\ adding[p] # NoItem
    /\ fate' = [fate EXCEPT ![adding[p]] = "dropped"]
    /\ adding' = [adding EXCEPT ![p] = NoItem]
    /\ UNCHANGED <<close, works, pump, offered, delivered>>

(* The owner calls RunOnce. *)
RunOnceBegin ==
    /\ pump = "out"
    /\ pump' = "loop"
    /\ UNCHANGED <<close, works, adding, fate, offered, delivered>>

(* Faulty variants of RunOnceTake: it leaves the item in the queue; it takes
   items in any order; it does not look at _close. *)
RunOnceTake_Peeks ==
    /\ pump = "loop"
    /\ ~close
    /\ \E p \in Pending(works) :
         /\ fate' = [fate EXCEPT ![Head(works[p])] = "delivered"]
         /\ delivered' = Append(delivered, Head(works[p]))
         /\ Len(delivered) < 3
    /\ pump' = "callback"
    /\ UNCHANGED <<close, works, adding, offered>>

RunOnceTake_AnyOrder ==
    /\ pump = "loop"
    /\ ~close
    /\ \E p \in Pending(works) : \E i \in 1..Len(works[p]) :
         LET q == works[p] IN
         /\ works' = [works EXCEPT ![p] =
                        SubSeq(q, 1, i - 1) \o SubSeq(q, i + 1, Len(q))]
         /\ fate' = [fate EXCEPT ![q[i]] = "delivered"]
         /\ delivered' = Append(delivered, q[i])
    /\ pump' = "callback"
    /\ UNCHANGED <<close, adding, offered>>

RunOnceTake_IgnoresClose ==
    /\ pump = "loop"
    /\ \E p \in Pending(works) :
         LET x == Head(works[p]) IN
         /\ works' = Pop(works, p)
         /\ fate' = [fate EXCEPT ![x] = "delivered"]
         /\ delivered' = Append(delivered, x)
    /\ pump' = "callback"
    /\ UNCHANGED <<close, adding, offered>>

(* !_close && try_dequeue: the owner starts to run an item. *)
RunOnceTake ==
    /\ pump = "loop"
    /\ ~close
    /\ \E p \in Pending(works) :
         LET x == Head(works[p]) IN
         /\ works' = Pop(works, p)
         /\ fate' = [fate EXCEPT ![x] = "delivered"]
         /\ delivered' = Append(delivered, x)
    /\ pump' = "callback"
    /\ UNCHANGED <<close, adding, offered>>

(* The callback returns into the loop of RunOnce. *)
CallbackReturns ==
    /\ pump = "callback"
    /\ pump' = "loop"
    /\ UNCHANGED <<close, works, adding, fate, offered, delivered>>

(* Faulty variant of RunOnceEnd: RunOnce may return with items to take. *)
RunOnceEnd_Early ==
    /\ pump = "loop"
    /\ pump' = "out"
    /\ UNCHANGED <<close, works, adding, fate, offered, delivered>>

(* RunOnce finds _close set or nothing to take, and returns. *)
RunOnceEnd ==
    /\ pump = "loop"
    /\ close \/ IsEmpty(works)
    /\ pump' = "out"
    /\ UNCHANGED <<close, works, adding, fate, offered, delivered>>

(* The owner, between two RunOnce or in a callback, calls Close. *)
Close ==
    /\ pump # "loop"
    /\ close' = TRUE
    /\ UNCHANGED <<works, adding, pump, fate, offered, delivered>>

Add(p) ==
    \/ \E x \in Item : AddAdmitted(p, x) \/ AddRefused(p, x)
    \/ AddEnqueue(p)
    \/ AddFails(p)

RunOnce == RunOnceBegin \/ RunOnceTake \/ CallbackReturns \/ RunOnceEnd

TrunkNext == (\E p \in Producers : Add(p)) \/ RunOnce \/ Close

TrunkSpec == TrunkInit /\ [][TrunkNext]_trunkVars

-----------------------------------------------------------------------------
(* Properties. *)

(* The types of the state; an item is in Add exactly while its fate says so. *)
TrunkTypeOK ==
    /\ close \in BOOLEAN
    /\ works \in [Producers -> Seq(Item)]
    /\ adding \in [Producers -> Item \cup {NoItem}]
    /\ \A p \in Producers : adding[p] # NoItem => fate[adding[p]] = "adding"
    /\ pump \in {"out", "loop", "callback"}
    /\ fate \in [Item -> {"none", "adding", "queued", "delivered", "dropped"}]
    /\ offered \in [Producers -> Seq(Item)]
    /\ delivered \in Seq(Item)

(* A callback runs at most once, and only for an item some thread added. *)
DeliveredOnce ==
    /\ \A i, j \in DOMAIN delivered : delivered[i] = delivered[j] => i = j
    /\ \A i \in DOMAIN delivered :
         \E p \in Producers : \E j \in DOMAIN offered[p] : offered[p][j] = delivered[i]

(* One thread's items are run in the order it added them. *)
DeliveredInOrder ==
    \A p \in Producers : \A i, j \in DOMAIN offered[p] :
        i < j =>
          \A n \in DOMAIN delivered :
            delivered[n] = offered[p][j] =>
              \E m \in 1..n - 1 : delivered[m] = offered[p][i]
-----------------------------------------------------------------------------
(* The inductive invariant behind the safety properties. *)

(* How many of a thread's items have been run. *)
Taken(p) == Len(offered[p]) - Len(works[p])

(* An item passes through one call of Add, and is offered once. *)
OfferInv ==
    /\ \A p, q \in Producers : adding[p] = adding[q] /\ adding[p] # NoItem => p = q
    /\ \A p \in Producers : \A i \in 1..Len(offered[p]) :
         fate[offered[p][i]] \in {"queued", "delivered"}
    /\ \A p, q \in Producers :
         \A i \in 1..Len(offered[p]) : \A j \in 1..Len(offered[q]) :
             offered[p][i] = offered[q][j] => p = q /\ i = j

(* A thread's queue is what it offered without what has been run, in order. *)
SuffixInv ==
    \A p \in Producers :
        /\ Len(works[p]) <= Len(offered[p])
        /\ \A i \in 1..Len(works[p]) : works[p][i] = offered[p][Taken(p) + i]

(* The items that have been run are the first ones each thread offered. *)
DeliveryInv ==
    /\ \A i, j \in 1..Len(delivered) : delivered[i] = delivered[j] => i = j
    /\ \A n \in 1..Len(delivered) :
         \E p \in Producers : \E i \in 1..Taken(p) : offered[p][i] = delivered[n]
    /\ \A p \in Producers : \A i \in 1..Taken(p) :
         \E n \in 1..Len(delivered) : delivered[n] = offered[p][i]

TrunkInv == OfferInv /\ SuffixInv /\ DeliveryInv
=============================================================================
