-------------------------- MODULE DbService_proofs --------------------------
(***************************************************************************)
(* Theorems about the whole service, for any number of threads, workers    *)
(* and commands: its two queues run in it as they run alone, so what is    *)
(* proved of them carries over, and Shutdown stops them in the right order.*)
(***************************************************************************)
EXTENDS DbService, PbStubExecQueue_proofs

(* The execution queue inside the service is the execution queue. *)
LEMMA StepExec == [Next]_vars => [ExecNext]_execVars
<1> SUFFICES ASSUME [Next]_vars PROVE [ExecNext]_execVars
  OBVIOUS
<1>1. ASSUME NEW c \in Clients, NEW x \in Cmd, Call(c, x)
      PROVE  ExecNext
  BY <1>1 DEF Call, ExecNext, ClientStep
<1>2. ASSUME NEW c \in Clients, CallStep(c)
      PROVE  ExecNext
  BY <1>2 DEF CallStep, ExecNext, ClientStep
<1>3. ASSUME NEW w \in Workers, WorkerAlone(w)
      PROVE  ExecNext
  BY <1>3 DEF WorkerAlone, ExecNext, WorkerStep
<1>4. ASSUME NEW w \in Workers, Respond(w)
      PROVE  ExecNext \/ UNCHANGED execVars
  BY <1>4 DEF Respond, ExecNext, WorkerStep
<1>5. CASE MainRunOnce
  BY <1>5 DEF MainRunOnce
<1>6. CASE ShutdownBegin
  BY <1>6 DEF ShutdownBegin, ExecNext
<1>7. CASE ShutdownJoined
  BY <1>7 DEF ShutdownJoined, ExecNext
<1>8. CASE ShutdownEnd
  BY <1>8 DEF ShutdownEnd
<1>9. CASE UNCHANGED vars
  BY <1>9 DEF vars
<1> QED
  BY <1>1, <1>2, <1>3, <1>4, <1>5, <1>6, <1>7, <1>8, <1>9 DEF Next

(* Every run of the service is a run of the execution queue: what holds of the
   queue alone holds of it in the service. *)
THEOREM ServiceRunsExecQueue == Spec => ExecQueueBehaves
<1>1. Init => ExecInit
  BY DEF Init
<1>2. [Next]_vars => [ExecNext]_execVars
  BY StepExec
<1> QED
  BY <1>1, <1>2, PTL DEF Spec, ExecSpec, ExecQueueBehaves

(* The same for the trunk queue. *)
LEMMA StepTrunk == ExecTypeOK /\ [Next]_vars => [Trunk!TrunkNext]_(Trunk!trunkVars)
<1> SUFFICES ASSUME ExecTypeOK, [Next]_vars
             PROVE  Trunk!TrunkNext \/ UNCHANGED trunkVars
  BY DEF Trunk!trunkVars, trunkVars
<1>1. ASSUME NEW c \in Clients, NEW x \in Cmd, Call(c, x)
      PROVE  UNCHANGED trunkVars
  BY <1>1 DEF Call
<1>2. ASSUME NEW c \in Clients, CallStep(c)
      PROVE  UNCHANGED trunkVars
  BY <1>2 DEF CallStep
<1>3. ASSUME NEW w \in Workers, WorkerAlone(w)
      PROVE  UNCHANGED trunkVars
  BY <1>3 DEF WorkerAlone
<1>4. ASSUME NEW w \in Workers, Respond(w)
      PROVE  Trunk!TrunkNext
  <2>1. wcmd[w] \in Cmd
    BY <1>4 DEF Respond, ExecTypeOK, Holding
  <2>2. Trunk!Add(w)
    BY <1>4, <2>1 DEF Respond, Trunk!Add
  <2> QED
    BY <2>2 DEF Trunk!TrunkNext
<1>5. CASE MainRunOnce
  BY <1>5 DEF MainRunOnce, Trunk!TrunkNext
<1>6. CASE ShutdownBegin \/ ShutdownJoined
  BY <1>6 DEF ShutdownBegin, ShutdownJoined
<1>7. CASE ShutdownEnd
  BY <1>7 DEF ShutdownEnd, Trunk!TrunkNext
<1>8. CASE UNCHANGED vars
  BY <1>8 DEF vars
<1> QED
  BY <1>1, <1>2, <1>3, <1>4, <1>5, <1>6, <1>7, <1>8 DEF Next

(* Every run of the service is a run of the trunk queue. *)
THEOREM ServiceRunsTrunkQueue == Spec => TrunkQueueBehaves
<1>1. Init => Trunk!TrunkInit
  BY DEF Init
<1>2. ExecTypeOK /\ [Next]_vars => [Trunk!TrunkNext]_(Trunk!trunkVars)
  BY StepTrunk
<1>3. Spec => []ExecTypeOK
  BY ServiceRunsExecQueue, ExecTyping, PTL DEF ExecQueueBehaves
<1> QED
  BY <1>1, <1>2, <1>3, PTL DEF Spec, Trunk!TrunkSpec, TrunkQueueBehaves

-----------------------------------------------------------------------------
(* The trunk queue is closed only after the workers have been joined. *)
ClosedLast == close => fin = "joined"

LEMMA ClosedLastInvariance == Spec => []ClosedLast
<1>1. Init => ClosedLast
  BY DEF Init, Trunk!TrunkInit, ClosedLast
<1>2. ClosedLast /\ [Next]_vars => ClosedLast'
  <2> SUFFICES ASSUME ClosedLast, [Next]_vars PROVE ClosedLast'
    OBVIOUS
  <2>1. ASSUME UNCHANGED close, fin = "joined" => fin' = "joined"
        PROVE  ClosedLast'
    BY <2>1 DEF ClosedLast
  <2>2. CASE ShutdownEnd
    BY <2>2 DEF ShutdownEnd, execVars, ClosedLast
  <2>3. ASSUME NEW c \in Clients, NEW x \in Cmd, Call(c, x) \/ CallStep(c)
        PROVE  ClosedLast'
    BY <2>1, <2>3 DEF Call, CallStep, trunkVars, Admit, Refuse, Enqueue, EnqueueFails,
                      SyncReturn
  <2>4. ASSUME NEW c \in Clients, CallStep(c)
        PROVE  ClosedLast'
    BY <2>1, <2>4 DEF CallStep, trunkVars, Enqueue, EnqueueFails, SyncReturn
  <2>5. ASSUME NEW w \in Workers, WorkerAlone(w)
        PROVE  ClosedLast'
    BY <2>1, <2>5 DEF WorkerAlone, trunkVars, OpenStub, CheckDone, Dequeue, Timeout,
                      Execute, Reply, Dispose, CloseStub
  <2>6. ASSUME NEW w \in Workers, Respond(w)
        PROVE  ClosedLast'
    BY <2>1, <2>6 DEF Respond, execVars, Reply, Trunk!AddAdmitted, Trunk!AddRefused,
                      Trunk!AddEnqueue, Trunk!AddFails
  <2>7. CASE MainRunOnce
    BY <2>1, <2>7 DEF MainRunOnce, execVars, Trunk!RunOnce, Trunk!RunOnceBegin,
                      Trunk!RunOnceTake, Trunk!CallbackReturns, Trunk!RunOnceEnd
  <2>8. CASE ShutdownBegin \/ ShutdownJoined
    BY <2>1, <2>8 DEF ShutdownBegin, ShutdownJoined, trunkVars, FinishBegin, FinishEnd
  <2>9. CASE UNCHANGED vars
    BY <2>1, <2>9 DEF vars, execVars, trunkVars
  <2> QED
    BY <2>2, <2>3, <2>4, <2>5, <2>6, <2>7, <2>8, <2>9 DEF Next
<1> QED
  BY <1>1, <1>2, PTL DEF Spec

LEMMA ServiceInvariance == Spec => [](ExecTypeOK /\ ExecInv /\ ClosedLast)
  BY ServiceRunsExecQueue, ExecTyping, ExecInvariance, ClosedLastInvariance, PTL
     DEF ExecQueueBehaves

(* A worker that has a response to deliver always finds the trunk queue open:
   no response is dropped at Add. *)
THEOREM NoResponseRefused == Spec => []ResponseFindsTrunkOpen
<1>1. ExecInv /\ ClosedLast => ResponseFindsTrunkOpen
  BY DEF ExecInv, FinInv, ClosedLast, ResponseFindsTrunkOpen
<1> QED
  BY <1>1, ServiceInvariance, PTL

(* In the service, too, no synchronous command outlives its caller's frame. *)
THEOREM ServiceBorrowSafety == Spec => []CallerOutlivesCommand
  BY ServiceRunsExecQueue, BorrowSafety, PTL DEF ExecQueueBehaves

(* After Shutdown has returned no command is executed, no promise set and no
   callback started. *)
THEOREM ShutdownIsFinal == Spec => SilentAfterShutdown
<1>1. ExecInv /\ ClosedLast /\ [Next]_vars =>
        [close => UNCHANGED <<log, ready, delivered>>]_vars
  <2> SUFFICES ASSUME ExecInv, ClosedLast, Next, close
               PROVE  UNCHANGED <<log, ready, delivered>>
    OBVIOUS
  <2>1. fin = "joined" /\ \A w \in Workers : wpc[w] = "exited"
    BY DEF ExecInv, FinInv, ClosedLast
  <2>2. \A w \in Workers : ~WorkerAlone(w) /\ ~Respond(w)
    BY <2>1 DEF WorkerAlone, Respond, OpenStub, CheckDone, Dequeue, Timeout, Execute,
                Reply, Dispose, CloseStub
  <2>3. ASSUME NEW c \in Clients, NEW x \in Cmd, Call(c, x)
        PROVE  UNCHANGED <<log, ready, delivered>>
    BY <2>3 DEF Call, Admit, Refuse, workerVars, trunkVars
  <2>4. ASSUME NEW c \in Clients, CallStep(c)
        PROVE  UNCHANGED <<log, ready, delivered>>
    BY <2>4 DEF CallStep, Enqueue, EnqueueFails, SyncReturn, workerVars, trunkVars
  <2>5. CASE MainRunOnce
    BY <2>5 DEF MainRunOnce, execVars, Trunk!RunOnce, Trunk!RunOnceBegin,
                Trunk!RunOnceTake, Trunk!CallbackReturns, Trunk!RunOnceEnd
  <2> QED
    BY <2>1, <2>2, <2>3, <2>4, <2>5
       DEF Next, ShutdownBegin, ShutdownJoined, ShutdownEnd, FinishBegin, FinishEnd
<1> QED
  BY <1>1, ServiceInvariance, PTL DEF Spec, SilentAfterShutdown
-----------------------------------------------------------------------------
(* The theorems about the trunk queue, for the trunk queue of the service:
   TrunkFacts renames what Trunk names. *)
TrunkFacts == INSTANCE PbStubTrunkQueue_proofs
                 WITH Producers <- Workers, Item <- Cmd, NoItem <- None

LEMMA SameTrunkStep ==
    [Trunk!TrunkNext]_(Trunk!trunkVars) => [TrunkFacts!TrunkNext]_(TrunkFacts!trunkVars)
  BY DEF Trunk!TrunkNext, TrunkFacts!TrunkNext, Trunk!trunkVars, TrunkFacts!trunkVars,
         Trunk!Add, TrunkFacts!Add, Trunk!AddAdmitted, TrunkFacts!AddAdmitted,
         Trunk!AddRefused, TrunkFacts!AddRefused, Trunk!AddEnqueue, TrunkFacts!AddEnqueue,
         Trunk!AddFails, TrunkFacts!AddFails, Trunk!RunOnce, TrunkFacts!RunOnce,
         Trunk!RunOnceBegin, TrunkFacts!RunOnceBegin, Trunk!RunOnceTake,
         TrunkFacts!RunOnceTake, Trunk!CallbackReturns, TrunkFacts!CallbackReturns,
         Trunk!RunOnceEnd, TrunkFacts!RunOnceEnd, Trunk!Close, TrunkFacts!Close,
         Trunk!Push, TrunkFacts!Push, Trunk!Pop, TrunkFacts!Pop, Trunk!Pending,
         TrunkFacts!Pending, Trunk!IsEmpty, TrunkFacts!IsEmpty

LEMMA ServiceRunsTrunkFacts == Spec => TrunkFacts!TrunkSpec
<1>1. Trunk!TrunkInit => TrunkFacts!TrunkInit
  BY DEF Trunk!TrunkInit, TrunkFacts!TrunkInit, Trunk!EmptyQueue, TrunkFacts!EmptyQueue
<1> QED
  BY <1>1, SameTrunkStep, ServiceRunsTrunkQueue, PTL
     DEF Trunk!TrunkSpec, TrunkFacts!TrunkSpec, TrunkQueueBehaves

(* In the service, too, a callback runs at most once and a worker's responses are
   handed over in the order it added them. *)
LEMMA TrunkInvariants ==
    Spec => [](TrunkFacts!TrunkTypeOK /\ TrunkFacts!TrunkInv /\ TrunkFacts!DeliveredInOrder)
<1>1. TrunkFacts!TrunkSpec => []TrunkFacts!TrunkTypeOK
  BY TrunkFacts!TrunkTyping, CmdAssumption
<1>2. TrunkFacts!TrunkSpec => []TrunkFacts!TrunkInv
  BY TrunkFacts!TrunkInvariance, CmdAssumption
<1>3. TrunkFacts!TrunkSpec => []TrunkFacts!DeliveredInOrder
  BY TrunkFacts!CallbacksInOrder, CmdAssumption
<1> QED
  BY <1>1, <1>2, <1>3, ServiceRunsTrunkFacts, PTL
-----------------------------------------------------------------------------
(* How the two queues are tied together: a worker is in Add only with the
   response to the command it holds, and a response is through Add exactly when
   its command is replied to. *)
Through == {"queued", "delivered", "dropped"}

AddingInv ==
    \A w \in Workers :
        adding[w] # None => wpc[w] = "callback" /\ adding[w] = wcmd[w] /\ wcmd[w] \notin SyncCmd

ResponseInv ==
    /\ \A x \in Cmd : fate[x] \in Through => x \in ReplyCmd \ SyncCmd /\ stage[x] = "replied"
    /\ \A x \in ReplyCmd \ SyncCmd : stage[x] = "replied" => fate[x] \in Through
    /\ \A x \in Cmd : fate[x] \in {"queued", "delivered"} =>
         \E w \in Workers : \E i \in 1..Len(offered[w]) : offered[w][i] = x

TieInv == AddingInv /\ ResponseInv

TrunkOK == TrunkFacts!TrunkTypeOK /\ TrunkFacts!TrunkInv /\ TrunkFacts!DeliveredInOrder

LEMMA TieElsewhere ==
    ASSUME TieInv, UNCHANGED <<adding, fate, offered>>,
           \A w \in Workers : adding[w] # None => wpc'[w] = wpc[w] /\ wcmd'[w] = wcmd[w],
           \A x \in Cmd \ SyncCmd : stage'[x] = "replied" <=> stage[x] = "replied"
    PROVE  TieInv'
<1>1. AddingInv'
  BY DEF TieInv, AddingInv
<1>2. ResponseInv'
  BY CmdAssumption DEF TieInv, ResponseInv
<1> QED
  BY <1>1, <1>2 DEF TieInv

(* The response enters Add, or leaves it one way or another. *)
LEMMA TieRespond ==
    ASSUME ExecTypeOK, ExecInv, ProgressInv, TrunkOK, TieInv, NEW w \in Workers, Respond(w)
    PROVE  TieInv'
<1> DEFINE x == wcmd[w]
<1> USE CmdAssumption
<1>1. x \in Cmd /\ x \in ReplyCmd \ SyncCmd /\ stage[x] = "executed" /\ wpc[w] = "callback"
  BY DEF Respond, ExecTypeOK, Holding, ExecInv, WorkerInv, ProgressInv
<1>2. /\ fate \in [Cmd -> {"none", "adding", "queued", "delivered", "dropped"}]
      /\ adding \in [Workers -> Cmd \cup {None}]
      /\ offered \in [Workers -> Seq(Cmd)]
  BY DEF TrunkOK, TrunkFacts!TrunkTypeOK
<1>3. CASE Trunk!AddAdmitted(w, x) /\ UNCHANGED execVars
  <2>1. /\ UNCHANGED <<wpc, wcmd, stage, offered>> /\ fate[x] = "none"
        /\ adding' = [adding EXCEPT ![w] = x]
        /\ fate' = [fate EXCEPT ![x] = "adding"]
    BY <1>3 DEF Trunk!AddAdmitted, execVars
  <2>2. AddingInv'
    BY <1>1, <1>2, <2>1 DEF TieInv, AddingInv
  <2> HIDE DEF x
  <2>3. ResponseInv'
    BY <1>1, <1>2, <2>1 DEF TieInv, ResponseInv, Through
  <2> QED
    BY <2>2, <2>3 DEF TieInv
<1>4. CASE Reply(w) /\ (Trunk!AddRefused(w, x) \/ Trunk!AddEnqueue(w) \/ Trunk!AddFails(w))
  <2>1. /\ stage' = [stage EXCEPT ![x] = "replied"] /\ UNCHANGED wcmd
        /\ \A v \in Workers : v # w => wpc'[v] = wpc[v]
    BY <1>4 DEF Reply, ExecTypeOK
  <2>2. /\ adding'[w] = None
        /\ \A v \in Workers : v # w => adding'[v] = adding[v]
    BY <1>2, <1>4 DEF Trunk!AddRefused, Trunk!AddEnqueue, Trunk!AddFails
  <2>3. AddingInv'
    BY <2>1, <2>2 DEF TieInv, AddingInv
  <2>4. adding[w] # None => adding[w] = x
    BY DEF TieInv, AddingInv
  <2>5. \/ fate' = [fate EXCEPT ![x] = "dropped"] /\ offered' = offered
        \/ fate' = [fate EXCEPT ![x] = "queued"] /\ offered' = [offered EXCEPT ![w] = Append(@, x)]
    BY <1>4, <2>4 DEF Trunk!AddRefused, Trunk!AddEnqueue, Trunk!AddFails
  <2>6. \A y \in Cmd : \A v \in Workers : \A i \in 1..Len(offered[v]) :
          offered[v][i] = y => \E j \in 1..Len(offered'[v]) : offered'[v][j] = y
    <3> SUFFICES ASSUME NEW v \in Workers, NEW i \in 1..Len(offered[v])
                 PROVE  \E j \in 1..Len(offered'[v]) : offered'[v][j] = offered[v][i]
      OBVIOUS
    <3>1. CASE v = w /\ offered' = [offered EXCEPT ![w] = Append(@, x)]
      <4>1. /\ offered'[v] = Append(offered[v], x) /\ offered[v] \in Seq(Cmd)
        BY <1>2, <3>1
      <4>2. /\ Len(offered'[v]) = Len(offered[v]) + 1 /\ Len(offered[v]) \in Nat
            /\ offered'[v][i] = offered[v][i]
        BY <1>1, <4>1, AppendProperties, LenProperties
      <4> QED
        BY <4>2
    <3> QED
      BY <1>2, <2>5, <3>1
  <2>7. fate'[x] = "queued" => \E j \in 1..Len(offered'[w]) : offered'[w][j] = x
    <3> SUFFICES ASSUME fate'[x] = "queued"
                 PROVE  \E j \in 1..Len(offered'[w]) : offered'[w][j] = x
      OBVIOUS
    <3>1. offered'[w] = Append(offered[w], x) /\ offered[w] \in Seq(Cmd)
      <4> HIDE DEF x
      <4> QED
        BY <1>1, <1>2, <2>5
    <3>2. /\ Len(offered'[w]) = Len(offered[w]) + 1 /\ Len(offered[w]) \in Nat
          /\ offered'[w][Len(offered[w]) + 1] = x
      BY <1>1, <3>1, AppendProperties, LenProperties
    <3> QED
      BY <3>2
  <2> HIDE DEF x
  <2>8. /\ fate'[x] \in {"dropped", "queued"} /\ stage'[x] = "replied"
        /\ \A y \in Cmd : y # x => fate'[y] = fate[y] /\ stage'[y] = stage[y]
    BY <1>1, <1>2, <2>1, <2>5 DEF ExecTypeOK
  <2>9. ResponseInv'
    <3>1. \A y \in Cmd : fate'[y] \in {"queued", "delivered"} =>
            \E v \in Workers : \E i \in 1..Len(offered'[v]) : offered'[v][i] = y
      <4> SUFFICES ASSUME NEW y \in Cmd, fate'[y] \in {"queued", "delivered"}, y # x
                   PROVE  \E v \in Workers : \E i \in 1..Len(offered'[v]) : offered'[v][i] = y
        BY <2>7, <2>8
      <4>1. PICK v \in Workers : \E i \in 1..Len(offered[v]) : offered[v][i] = y
        BY <2>8 DEF TieInv, ResponseInv
      <4> QED
        BY <2>6, <4>1
    <3> QED
      BY <1>1, <2>8, <3>1 DEF TieInv, ResponseInv, Through
  <2> QED
    BY <2>3, <2>9 DEF TieInv
<1> QED
  BY <1>3, <1>4 DEF Respond

(* RunOnce takes only what is through Add. *)
LEMMA TieRunOnce ==
    ASSUME ExecTypeOK, TrunkOK, TieInv, MainRunOnce
    PROVE  TieInv'
<1>1. UNCHANGED <<wpc, wcmd, stage, adding, offered>>
  BY DEF MainRunOnce, execVars, Trunk!RunOnce, Trunk!RunOnceBegin, Trunk!RunOnceTake,
         Trunk!CallbackReturns, Trunk!RunOnceEnd
<1>2. CASE UNCHANGED fate
  BY <1>1, <1>2, TieElsewhere
<1>3. CASE Trunk!RunOnceTake
  <2>1. TrunkFacts!TrunkTypeOK /\ TrunkFacts!TrunkInv
    BY DEF TrunkOK
  <2>2. PICK p \in Workers :
          /\ Len(works[p]) \in Nat \ {0}
          /\ works[p][1] \in Cmd
          /\ fate' = [fate EXCEPT ![works[p][1]] = "delivered"]
    <3>1. TrunkFacts!RunOnceTake
      BY <1>3 DEF Trunk!RunOnceTake, TrunkFacts!RunOnceTake, Trunk!Pending,
                  TrunkFacts!Pending, Trunk!Pop, TrunkFacts!Pop
    <3> QED
      BY <2>1, <3>1, CmdAssumption, TrunkFacts!TakeFacts
  <2> DEFINE x == works[p][1]
  <2>3. 1 \in 1..Len(works[p])
    BY <2>2
  <2>4. fate[x] \in {"queued", "delivered"}
    BY <2>1, <2>3, CmdAssumption, TrunkFacts!WaitingFacts
  <2>5. fate \in [Cmd -> {"none", "adding", "queued", "delivered", "dropped"}]
    BY <2>1 DEF TrunkFacts!TrunkTypeOK
  <2>6. x \in Cmd /\ fate' = [fate EXCEPT ![x] = "delivered"]
    BY <2>2
  <2> HIDE DEF x
  <2>7. /\ fate'[x] = "delivered"
        /\ \A y \in Cmd : y # x => fate'[y] = fate[y]
    BY <2>5, <2>6
  <2>8. ResponseInv'
    BY <1>1, <2>4, <2>6, <2>7, CmdAssumption DEF TieInv, ResponseInv, Through
  <2>9. AddingInv'
    BY <1>1 DEF TieInv, AddingInv
  <2> QED
    BY <2>8, <2>9 DEF TieInv
<1> QED
  BY <1>2, <1>3 DEF MainRunOnce, Trunk!RunOnce, Trunk!RunOnceBegin,
                    Trunk!CallbackReturns, Trunk!RunOnceEnd

LEMMA TieStep ==
    ASSUME ExecTypeOK, ExecInv, ProgressInv, TrunkOK, TieInv, [Next]_vars
    PROVE  TieInv'
<1>1. ASSUME NEW c \in Clients, NEW x \in Cmd, Call(c, x)
      PROVE  TieInv'
  <2>1. UNCHANGED <<adding, fate, offered, wpc, wcmd>>
    BY <1>1 DEF Call, Admit, Refuse, trunkVars, workerVars
  <2>2. \A y \in Cmd : stage'[y] = "replied" <=> stage[y] = "replied"
    BY <1>1 DEF Call, Admit, Refuse, ExecTypeOK
  <2> QED
    BY <2>1, <2>2, TieElsewhere
<1>2. ASSUME NEW c \in Clients, CallStep(c)
      PROVE  TieInv'
  <2>1. UNCHANGED <<adding, fate, offered, wpc, wcmd>>
    BY <1>2 DEF CallStep, Enqueue, EnqueueFails, SyncReturn, trunkVars, workerVars
  <2>2. \A y \in Cmd : stage'[y] = "replied" <=> stage[y] = "replied"
    <3>1. cpc[c] = "admitted" => stage[ccmd[c]] = "admitted"
      BY DEF ExecInv, QueueInv
    <3> QED
      BY <1>2, <3>1 DEF CallStep, Enqueue, EnqueueFails, SyncReturn, ExecTypeOK
  <2> QED
    BY <2>1, <2>2, TieElsewhere
<1>3. ASSUME NEW w \in Workers, WorkerAlone(w)
      PROVE  TieInv'
  <2>1. UNCHANGED <<adding, fate, offered>>
    BY <1>3 DEF WorkerAlone, trunkVars
  <2>2. /\ wpc[w] = "callback" => wcmd[w] \in SyncCmd
        /\ \A v \in Workers : v # w => wpc'[v] = wpc[v] /\ wcmd'[v] = wcmd[v]
    BY <1>3 DEF WorkerAlone, OpenStub, CheckDone, Dequeue, Timeout, Execute, Reply,
                Dispose, CloseStub, ExecTypeOK
  <2>3. \A x \in Cmd \ SyncCmd : stage'[x] = "replied" <=> stage[x] = "replied"
    <3>1. CASE Dequeue(w)
      <4>1. PICK x \in Cmd : stage[x] = "queued" /\ stage' = [stage EXCEPT ![x] = "taken"]
        BY <3>1, DequeueFacts
      <4> QED
        BY <4>1 DEF ExecTypeOK
    <3>2. CASE Execute(w)
      <4>1. stage[wcmd[w]] = "taken" /\ stage' = [stage EXCEPT ![wcmd[w]] = "executed"]
        BY <3>2 DEF Execute, ExecInv, WorkerInv
      <4> QED
        BY <4>1 DEF ExecTypeOK
    <3>3. CASE wcmd[w] \in SyncCmd /\ Reply(w)
      BY <3>3 DEF Reply, ExecTypeOK
    <3>4. CASE UNCHANGED stage
      BY <3>4
    <3> QED
      BY <1>3, <3>1, <3>2, <3>3, <3>4
         DEF WorkerAlone, OpenStub, CheckDone, Timeout, Dispose, CloseStub
  <2>4. \A v \in Workers : adding[v] # None => v # w
    BY <2>2 DEF TieInv, AddingInv
  <2> QED
    BY <2>1, <2>2, <2>3, <2>4, TieElsewhere
<1>4. ASSUME NEW w \in Workers, Respond(w)
      PROVE  TieInv'
  BY <1>4, TieRespond
<1>5. CASE MainRunOnce
  BY <1>5, TieRunOnce
<1>6. CASE ShutdownBegin \/ ShutdownJoined \/ ShutdownEnd \/ UNCHANGED vars
  <2>1. UNCHANGED <<adding, fate, offered, wpc, wcmd, stage>>
    BY <1>6 DEF ShutdownBegin, ShutdownJoined, ShutdownEnd, FinishBegin, FinishEnd,
                Trunk!Close, trunkVars, execVars, workerVars, vars
  <2> QED
    BY <2>1, TieElsewhere
<1> QED
  BY <1>1, <1>2, <1>3, <1>4, <1>5, <1>6 DEF Next

LEMMA TieInit == Init => TieInv
  BY CmdAssumption
     DEF Init, ExecInit, Trunk!TrunkInit, TieInv, AddingInv, ResponseInv, Through

(* Everything that holds of the two queues and of their ties. *)
ServiceInv ==
    ExecTypeOK /\ ExecInv /\ ProgressInv /\ OrderInv /\ ClosedLast /\ TrunkOK /\ TieInv

LEMMA ServiceInvariant == Spec => []ServiceInv
<1>1. Spec => [](ExecTypeOK /\ ExecInv /\ ProgressInv /\ OrderInv)
  BY ServiceRunsExecQueue, ExecTyping, ExecInvariance, ProgressInvariance,
     OrderInvariance, PTL DEF ExecQueueBehaves
<1>2. Spec => []TrunkOK
  BY TrunkInvariants, PTL DEF TrunkOK
<1>3. Spec => []TieInv
  BY <1>1, <1>2, TieInit, TieStep, PTL DEF Spec
<1> QED
  BY <1>1, <1>2, <1>3, ClosedLastInvariance, PTL DEF ServiceInv

(* The types of both queues; the item a worker is adding is the response to the
   command it holds (DbService.cpp 143-161: the reply callback binds them). *)
THEOREM ServiceTyping == Spec => []TypeOK
<1>1. ServiceInv => TypeOK
  BY DEF ServiceInv, TrunkOK, TieInv, AddingInv, TypeOK, Trunk!TrunkTypeOK,
         TrunkFacts!TrunkTypeOK
<1> QED
  BY <1>1, ServiceInvariant, PTL
-----------------------------------------------------------------------------
(* The service implements its contract. *)

Handed == {delivered[i] : i \in DOMAIN delivered}

(* What the contract sees of a call, given what has become of it. *)
Seen(answered, place) ==
    IF answered THEN "answered"
    ELSE IF place \in {"executed", "replied"} THEN "executed"
    ELSE IF place \in {"queued", "taken"} THEN "accepted"
    ELSE place

SeenStatus == \A x \in Cmd : StatusOf(x) = Seen(x \in ready \cup Handed, stage[x])

(* Only what has been executed is answered: a set promise, or a callback. *)
AnsweredInv ==
    /\ \A x \in ready : x \in SyncCmd
    /\ \A x \in Handed : x \in Cmd /\ x \in ReplyCmd \ SyncCmd /\ stage[x] = "replied"

LEMMA AnsweredFacts == ServiceInv => AnsweredInv /\ SeenStatus
<1> SUFFICES ASSUME ServiceInv PROVE AnsweredInv /\ SeenStatus
  OBVIOUS
<1>1. \A x \in ready : x \in SyncCmd /\ stage[x] \in {"executed", "replied"}
  BY DEF ServiceInv, ProgressInv, ExecInv, BorrowInv
<1>2. DOMAIN delivered = 1..Len(delivered)
  BY LenProperties DEF ServiceInv, TrunkOK, TrunkFacts!TrunkTypeOK
<1>3. ASSUME NEW x \in Handed
      PROVE  x \in Cmd /\ x \in ReplyCmd \ SyncCmd /\ stage[x] = "replied"
  <2>1. PICK n \in 1..Len(delivered) : delivered[n] = x
    BY <1>2 DEF Handed
  <2>2. PICK p \in Workers : \E i \in 1..TrunkFacts!Taken(p) : offered[p][i] = x
    BY <2>1 DEF ServiceInv, TrunkOK, TrunkFacts!TrunkInv, TrunkFacts!DeliveryInv
  <2>3. PICK i \in 1..TrunkFacts!Taken(p) : offered[p][i] = x
    BY <2>2
  <2>4. i \in 1..Len(offered[p])
    <3> DEFINE a == Len(offered[p])
               b == Len(works[p])
    <3>1. a \in Nat /\ b \in Nat /\ TrunkFacts!Taken(p) = a - b
      BY LenProperties DEF ServiceInv, TrunkOK, TrunkFacts!TrunkTypeOK, TrunkFacts!Taken
    <3> HIDE DEF a, b
    <3>2. i \in 1..a
      BY <3>1
    <3> QED
      BY <3>2 DEF a
  <2>5. x \in Cmd
    BY <2>3, <2>4, ElementOfSeq DEF ServiceInv, TrunkOK, TrunkFacts!TrunkTypeOK
  <2>6. fate[x] \in {"queued", "delivered"}
    BY <2>3, <2>4 DEF ServiceInv, TrunkOK, TrunkFacts!TrunkInv, TrunkFacts!OfferInv
  <2> QED
    BY <2>5, <2>6 DEF ServiceInv, TieInv, ResponseInv, Through
<1>4. \A x \in Cmd : x \in Executed <=> stage[x] \in {"executed", "replied"}
  BY ExecutedFacts DEF ServiceInv
<1>5. Answered = ready \cup Handed
  BY DEF Answered, Handed
<1>6. ASSUME NEW x \in Cmd
      PROVE  StatusOf(x) = Seen(x \in ready \cup Handed, stage[x])
  <2>1. x \in Answered => stage[x] \in {"executed", "replied"}
    BY <1>1, <1>3, <1>5
  <2>2. CASE x \in Answered
    BY <1>5, <2>2 DEF StatusOf, Seen
  <2>3. CASE x \notin Answered /\ x \in Executed
    BY <1>4, <1>5, <2>3 DEF StatusOf, Seen
  <2>4. CASE x \notin Answered /\ x \notin Executed
    BY <1>4, <1>5, <2>4 DEF StatusOf, Seen
  <2> QED
    BY <2>2, <2>3, <2>4
<1> QED
  BY <1>1, <1>3, <1>6 DEF AnsweredInv, SeenStatus

(* The abstract state when nothing the contract sees has changed. *)
LEMMA StatusKept ==
    ASSUME SeenStatus, SeenStatus',
           \A x \in Cmd : Seen(x \in (ready \cup Handed)', stage'[x])
                            = Seen(x \in ready \cup Handed, stage[x])
    PROVE  [x \in Cmd |-> StatusOf(x)]' = [x \in Cmd |-> StatusOf(x)]
<1>1. \A x \in Cmd : StatusOf(x)' = StatusOf(x)
  BY DEF SeenStatus
<1> QED
  BY <1>1
(* And when one call has advanced. *)
LEMMA StatusAdvanced ==
    ASSUME SeenStatus, SeenStatus', NEW x \in Cmd, NEW from, NEW to,
           UNCHANGED <<fin, close>>,
           Seen(x \in ready \cup Handed, stage[x]) = from,
           Seen(x \in (ready \cup Handed)', stage'[x]) = to,
           \A y \in Cmd : y # x => Seen(y \in (ready \cup Handed)', stage'[y])
                                     = Seen(y \in ready \cup Handed, stage[y])
    PROVE  Contract!Advance(x, from, to)
<1>1. StatusOf(x) = from /\ StatusOf(x)' = to
  BY DEF SeenStatus
<1>2. \A y \in Cmd : y # x => StatusOf(y)' = StatusOf(y)
  BY DEF SeenStatus
<1>3. UNCHANGED PhaseNow
  BY DEF PhaseNow
<1>4. [y \in Cmd |-> StatusOf(y)]' = [y \in Cmd |-> IF y = x THEN to ELSE StatusOf(y)]
  BY <1>1, <1>2
<1> QED
  BY <1>1, <1>3, <1>4 DEF Contract!Advance

(* The calls of the application are the contract's calls. *)
LEMMA ContractCalls ==
    ASSUME ServiceInv, SeenStatus, SeenStatus', NEW c \in Clients,
           (\E x \in Cmd : Call(c, x)) \/ CallStep(c)
    PROVE  [Contract!ContractNext]_(Contract!contractVars)
<1> USE DEF Seen
<1>0. UNCHANGED <<fin, close, ready, delivered>>
  BY DEF Call, CallStep, Admit, Refuse, Enqueue, EnqueueFails, SyncReturn, trunkVars,
         workerVars, clientVars
<1>1. Handed' = Handed /\ (ready \cup Handed)' = ready \cup Handed
  BY <1>0 DEF Handed
<1>2. \A x \in ready \cup Handed : stage[x] \in {"executed", "replied"}
  BY AnsweredFacts DEF AnsweredInv, ServiceInv, ExecInv, BorrowInv
<1>3. ASSUME NEW x \in Cmd, Call(c, x), Admit(c, x)
      PROVE  Contract!AdmitCall(x)
  <2>1. PhaseNow = "open"
    BY <1>3 DEF Admit, PhaseNow, ServiceInv, ExecInv, FinInv, ClosedLast, ExecTypeOK
  <2>2. stage[x] = "new" /\ stage' = [stage EXCEPT ![x] = "admitted"]
    BY <1>3 DEF Admit
  <2>3. Contract!Advance(x, "new", "admitted")
    BY <1>0, <1>1, <1>2, <2>2, StatusAdvanced DEF ServiceInv, ExecTypeOK
  <2> QED
    BY <2>1, <2>3 DEF Contract!AdmitCall
<1>4. ASSUME NEW x \in Cmd, Call(c, x), Refuse(c, x)
      PROVE  Contract!RefuseCall(x)
  <2>1. PhaseNow # "open"
    BY <1>4 DEF Refuse, PhaseNow, ServiceInv, ExecInv, FinInv, ExecTypeOK
  <2>2. stage[x] = "new" /\ stage' = [stage EXCEPT ![x] = "refused"]
    BY <1>4 DEF Refuse
  <2>3. Contract!Advance(x, "new", "refused")
    BY <1>0, <1>1, <1>2, <2>2, StatusAdvanced DEF ServiceInv, ExecTypeOK
  <2> QED
    BY <2>1, <2>3 DEF Contract!RefuseCall
<1>5. CASE Enqueue(c) \/ EnqueueFails(c)
  <2> DEFINE x == ccmd[c]
  <2>1. x \in Cmd /\ stage[x] = "admitted"
    BY <1>5 DEF Enqueue, EnqueueFails, ServiceInv, ExecTypeOK, ExecInv, QueueInv
  <2>2. \/ stage' = [stage EXCEPT ![x] = "queued"]
        \/ stage' = [stage EXCEPT ![x] = "refused"]
    BY <1>5 DEF Enqueue, EnqueueFails
  <2> HIDE DEF x
  <2>3. Contract!AcceptCall(x) \/ Contract!FailCall(x)
    <3>1. CASE stage' = [stage EXCEPT ![x] = "queued"]
      <4>1. Contract!Advance(x, "admitted", "accepted")
        BY <1>0, <1>1, <1>2, <2>1, <3>1, StatusAdvanced DEF ServiceInv, ExecTypeOK
      <4> QED
        BY <4>1 DEF Contract!AcceptCall
    <3>2. CASE stage' = [stage EXCEPT ![x] = "refused"]
      <4>1. Contract!Advance(x, "admitted", "refused")
        BY <1>0, <1>1, <1>2, <2>1, <3>2, StatusAdvanced DEF ServiceInv, ExecTypeOK
      <4> QED
        BY <4>1 DEF Contract!FailCall
    <3> QED
      BY <2>2, <3>1, <3>2
  <2> QED
    BY <2>1, <2>3 DEF Contract!ContractNext, Contract!CallStep
<1>6. CASE SyncReturn(c)
  <2>1. UNCHANGED stage
    BY <1>6 DEF SyncReturn
  <2> QED
    BY <1>0, <1>1, <2>1, StatusKept DEF Contract!contractVars, PhaseNow
<1> QED
  BY <1>3, <1>4, <1>5, <1>6
     DEF Call, CallStep, Contract!ContractNext, Contract!CallStep

(* The workers execute and answer. *)
LEMMA ContractWorkers ==
    ASSUME ServiceInv, SeenStatus, SeenStatus', NEW w \in Workers,
           WorkerAlone(w) \/ Respond(w)
    PROVE  [Contract!ContractNext]_(Contract!contractVars)
<1> USE DEF Seen
<1>0. UNCHANGED <<fin, close, delivered>>
  BY DEF WorkerAlone, Respond, OpenStub, CheckDone, Dequeue, Timeout, Execute, Reply,
         Dispose, CloseStub, trunkVars, execVars, Trunk!AddAdmitted, Trunk!AddRefused,
         Trunk!AddEnqueue, Trunk!AddFails
<1>1. Handed' = Handed
  BY <1>0 DEF Handed
<1>2. \A x \in ready \cup Handed : stage[x] \in {"executed", "replied"}
  BY AnsweredFacts DEF AnsweredInv, ServiceInv, ExecInv, BorrowInv
<1>3. CASE UNCHANGED <<ready, stage>>
  BY <1>0, <1>1, <1>3, StatusKept DEF Contract!contractVars, PhaseNow
<1>4. CASE Dequeue(w)
  <2>1. PICK x \in Cmd : stage[x] = "queued" /\ stage' = [stage EXCEPT ![x] = "taken"]
    BY <1>4, DequeueFacts DEF ServiceInv
  <2>2. UNCHANGED ready
    BY <1>4 DEF Dequeue
  <2>3. \A y \in Cmd : Seen(y \in (ready \cup Handed)', stage'[y])
                         = Seen(y \in ready \cup Handed, stage[y])
    BY <1>1, <2>1, <2>2 DEF ServiceInv, ExecTypeOK
  <2> QED
    BY <1>0, <2>3, StatusKept DEF Contract!contractVars, PhaseNow
<1>5. CASE Execute(w)
  <2> DEFINE x == wcmd[w]
  <2>1. /\ x \in Cmd /\ stage[x] = "taken" /\ stage' = [stage EXCEPT ![x] = "executed"]
        /\ UNCHANGED ready /\ wpc[w] = "executing"
    BY <1>5 DEF Execute, ServiceInv, ExecTypeOK, Holding, ExecInv, WorkerInv
  <2>2. PhaseNow \in {"open", "stopping"}
    BY <2>1 DEF PhaseNow, ServiceInv, ExecInv, FinInv, ClosedLast, ExecTypeOK
  <2> HIDE DEF x
  <2>3. Contract!Advance(x, "accepted", "executed")
    BY <1>0, <1>1, <1>2, <2>1, StatusAdvanced DEF ServiceInv, ExecTypeOK
  <2> QED
    BY <2>1, <2>2, <2>3 DEF Contract!ExecuteCall, Contract!ContractNext, Contract!CallStep
<1>6. CASE Reply(w)
  <2>1. /\ wcmd[w] \in Cmd /\ stage[wcmd[w]] = "executed" /\ UNCHANGED ready
        /\ stage' = [stage EXCEPT ![wcmd[w]] = "replied"]
    BY <1>6 DEF Reply, ServiceInv, ExecTypeOK, Holding, ExecInv, WorkerInv
  <2>2. \A y \in Cmd : Seen(y \in (ready \cup Handed)', stage'[y])
                         = Seen(y \in ready \cup Handed, stage[y])
    BY <1>1, <2>1 DEF ServiceInv, ExecTypeOK
  <2> QED
    BY <1>0, <2>2, StatusKept DEF Contract!contractVars, PhaseNow
<1>7. CASE Dispose(w)
  <2> DEFINE x == wcmd[w]
  <2>1. /\ x \in Cmd /\ stage[x] \in {"executed", "replied"} /\ UNCHANGED stage
        /\ ready' = ready \cup {x} /\ x \notin ready /\ x \in SyncCmd
        /\ wpc[w] = "disposing"
    BY <1>7 DEF Dispose, ServiceInv, ExecTypeOK, Holding, ExecInv, WorkerInv, BorrowInv,
                ProgressInv
  <2>2. PhaseNow # "closed"
    BY <2>1 DEF PhaseNow, ServiceInv, ExecInv, FinInv, ClosedLast, ExecTypeOK
  <2>3. x \notin Handed
    BY <2>1, AnsweredFacts DEF AnsweredInv
  <2> HIDE DEF x
  <2>4. Contract!Advance(x, "executed", "answered")
    BY <1>0, <1>1, <2>1, <2>3, StatusAdvanced DEF ServiceInv, ExecTypeOK
  <2> QED
    BY <2>1, <2>2, <2>4 DEF Contract!AnswerCall, Contract!ContractNext, Contract!CallStep
<1> QED
  BY <1>3, <1>4, <1>5, <1>6, <1>7
     DEF WorkerAlone, Respond, OpenStub, CheckDone, Timeout, CloseStub, execVars

(* RunOnce answers, each call once. *)
LEMMA ContractOwner ==
    ASSUME ServiceInv, SeenStatus, SeenStatus', MainRunOnce
    PROVE  [Contract!ContractNext]_(Contract!contractVars)
<1> USE DEF Seen
<1>1. UNCHANGED <<fin, close, ready, stage>>
  BY DEF MainRunOnce, execVars, Trunk!RunOnce, Trunk!RunOnceBegin, Trunk!RunOnceTake,
         Trunk!CallbackReturns, Trunk!RunOnceEnd
<1>2. CASE UNCHANGED delivered
  <2>1. Handed' = Handed
    BY <1>2 DEF Handed
  <2> QED
    BY <1>1, <2>1, StatusKept DEF Contract!contractVars, PhaseNow
<1>3. CASE Trunk!RunOnceTake
  <2>1. TrunkFacts!TrunkTypeOK /\ TrunkFacts!TrunkInv
    BY DEF ServiceInv, TrunkOK
  <2>2. PICK p \in Workers :
          /\ Len(works[p]) \in Nat \ {0}
          /\ works[p][1] \in Cmd
          /\ Len(delivered') = Len(delivered) + 1
          /\ \A n \in 1..Len(delivered) : delivered'[n] = delivered[n]
          /\ delivered'[Len(delivered) + 1] = works[p][1]
    <3>1. TrunkFacts!RunOnceTake
      BY <1>3 DEF Trunk!RunOnceTake, TrunkFacts!RunOnceTake, Trunk!Pending,
                  TrunkFacts!Pending, Trunk!Pop, TrunkFacts!Pop
    <3> QED
      BY <2>1, <3>1, CmdAssumption, TrunkFacts!TakeFacts
  <2> DEFINE x == works[p][1]
             k == Len(delivered)
  <2>3. /\ k \in Nat /\ DOMAIN delivered = 1..k
        /\ DOMAIN delivered' = 1..Len(delivered')
    <3>1. delivered \in Seq(Cmd)
      BY <2>1 DEF TrunkFacts!TrunkTypeOK
    <3>2. delivered' \in Seq(Cmd)
      <4>1. \E q \in Trunk!Pending(works) : delivered' = Append(delivered, Head(works[q]))
        BY <1>3 DEF Trunk!RunOnceTake
      <4>2. PICK q \in Workers : works[q] # <<>> /\ delivered' = Append(delivered, Head(works[q]))
        BY <2>1, <4>1 DEF Trunk!Pending, TrunkFacts!TrunkTypeOK
      <4>3. Head(works[q]) \in Cmd
        BY <2>1, <4>2, HeadTailProperties DEF TrunkFacts!TrunkTypeOK
      <4> QED
        BY <3>1, <4>2, <4>3, AppendProperties
    <3> QED
      BY <3>1, <3>2, LenProperties
  <2>4. x \notin Handed
    <3>1. \A q \in Workers : \A i \in 1..Len(offered[q]) :
            offered[q][i] = x => q = p /\ i = TrunkFacts!Taken(p) + 1
      BY <2>1, <2>2, CmdAssumption, TrunkFacts!TakenFacts
    <3>2. ASSUME NEW n \in 1..k, delivered[n] = x
          PROVE  FALSE
      <4>1. PICK q \in Workers : \E i \in 1..TrunkFacts!Taken(q) : offered[q][i] = x
        BY <2>1, <3>2 DEF TrunkFacts!TrunkInv, TrunkFacts!DeliveryInv
      <4>2. PICK i \in 1..TrunkFacts!Taken(q) : offered[q][i] = x
        BY <4>1
      <4> DEFINE a == Len(offered[q])
                 b == Len(works[q])
      <4>3. a \in Nat /\ b \in Nat /\ TrunkFacts!Taken(q) = a - b
        BY <2>1, LenProperties DEF TrunkFacts!TrunkTypeOK, TrunkFacts!Taken
      <4>4. i \in 1..a
        <5> HIDE DEF a, b
        <5> QED
          BY <4>3
      <4>5. q = p /\ i = TrunkFacts!Taken(p) + 1
        BY <3>1, <4>2, <4>4
      <4> HIDE DEF a, b
      <4> QED
        BY <4>3, <4>5
    <3> QED
      BY <2>3, <3>2 DEF Handed
  <2>5. Handed' = Handed \cup {x}
    <3>1. \A n \in 1..k + 1 : n \in 1..k \/ n = k + 1
      BY <2>3
    <3>2. 1..k \subseteq 1..k + 1 /\ k + 1 \in 1..k + 1
      BY <2>3
    <3>3. DOMAIN delivered' = 1..k + 1
      BY <2>2, <2>3
    <3> HIDE DEF k, x
    <3>4. /\ \A n \in 1..k : delivered'[n] = delivered[n]
          /\ delivered'[k + 1] = x
      BY <2>2 DEF k, x
    <3>5. \A y : y \in Handed' <=> \E n \in 1..k + 1 : delivered'[n] = y
      BY <3>3 DEF Handed
    <3>6. \A y : y \in Handed <=> \E n \in 1..k : delivered[n] = y
      BY <2>3 DEF Handed
    <3>7. \A y : y \in Handed' <=> y \in Handed \/ y = x
      BY <3>1, <3>2, <3>4, <3>5, <3>6
    <3> QED
      BY <3>7
  <2>6. fate[x] \in {"queued", "delivered"}
    <3>1. 1 \in 1..Len(works[p])
      BY <2>2
    <3> QED
      BY <2>1, <3>1, CmdAssumption, TrunkFacts!WaitingFacts
  <2>7. x \in Cmd /\ x \in ReplyCmd \ SyncCmd /\ stage[x] = "replied"
    BY <2>2, <2>6 DEF ServiceInv, TieInv, ResponseInv, Through
  <2>8. x \notin ready
    BY <2>7, AnsweredFacts DEF AnsweredInv
  <2>9. PhaseNow # "closed"
    BY <1>3 DEF Trunk!RunOnceTake, PhaseNow
  <2> HIDE DEF x
  <2>10. Contract!Advance(x, "executed", "answered")
    BY <1>1, <2>4, <2>5, <2>7, <2>8, StatusAdvanced
  <2> QED
    BY <2>7, <2>9, <2>10 DEF Contract!AnswerCall, Contract!ContractNext, Contract!CallStep
<1> QED
  BY <1>2, <1>3 DEF MainRunOnce, Trunk!RunOnce, Trunk!RunOnceBegin,
                    Trunk!CallbackReturns, Trunk!RunOnceEnd

(* Shutdown goes through the contract's phases. *)
LEMMA ContractShutdown ==
    ASSUME ServiceInv, SeenStatus, SeenStatus',
           ShutdownBegin \/ ShutdownJoined \/ ShutdownEnd
    PROVE  Contract!ContractNext
<1>1. UNCHANGED <<ready, stage, delivered>>
  BY DEF ShutdownBegin, ShutdownJoined, ShutdownEnd, FinishBegin, FinishEnd, Trunk!Close,
         trunkVars, execVars
<1>2. Handed' = Handed
  BY <1>1 DEF Handed
<1>3. [x \in Cmd |-> StatusOf(x)]' = [x \in Cmd |-> StatusOf(x)]
  BY <1>1, <1>2, StatusKept
<1>4. CASE ShutdownBegin
  <2>1. PhaseNow = "open" /\ PhaseNow' = "stopping"
    BY <1>4 DEF ShutdownBegin, FinishBegin, trunkVars, PhaseNow, ServiceInv, ClosedLast
  <2> QED
    BY <1>3, <2>1 DEF Contract!ContractNext, Contract!Stop, Contract!Move
<1>5. CASE ShutdownJoined
  <2>1. PhaseNow = "stopping" /\ PhaseNow' = "stopped"
    BY <1>5 DEF ShutdownJoined, FinishEnd, trunkVars, PhaseNow, ServiceInv, ClosedLast
  <2> QED
    BY <1>3, <2>1 DEF Contract!ContractNext, Contract!Stopped, Contract!Move
<1>6. CASE ShutdownEnd
  <2>1. PhaseNow = "stopped" /\ PhaseNow' = "closed"
    BY <1>6 DEF ShutdownEnd, execVars, Trunk!Close, PhaseNow
  <2> QED
    BY <1>3, <2>1 DEF Contract!ContractNext, Contract!Shut, Contract!Move
<1> QED
  BY <1>4, <1>5, <1>6

(* The service implements its contract: every call is admitted or refused by the
   phase of the service, executed at most once, and answered at most once and
   only after it was executed, for any number of threads and workers. *)
THEOREM ServiceContractHolds == Spec => ImplementsContract
<1>1. Init => Contract!ContractInit
  <2> SUFFICES ASSUME Init PROVE Contract!ContractInit
    OBVIOUS
  <2>1. DOMAIN delivered = {} /\ DOMAIN log = {}
    <3>1. delivered = <<>> /\ log = <<>>
      BY DEF Init, ExecInit, Trunk!TrunkInit
    <3>2. Len(delivered) = 0 /\ DOMAIN delivered = 1..Len(delivered)
      BY <3>1, EmptySeq, LenProperties
    <3>3. Len(log) = 0 /\ DOMAIN log = 1..Len(log)
      BY <3>1, EmptySeq, LenProperties
    <3> QED
      BY <3>2, <3>3
  <2>2. Answered = {} /\ Executed = {}
    BY <2>1 DEF Answered, Executed, Init, ExecInit
  <2>3. \A x \in Cmd : StatusOf(x) = "new"
    BY <2>2 DEF StatusOf, Init, ExecInit
  <2>4. PhaseNow = "open"
    BY DEF PhaseNow, Init, ExecInit, Trunk!TrunkInit
  <2> QED
    BY <2>3, <2>4 DEF Contract!ContractInit
<1>2. ServiceInv /\ SeenStatus /\ SeenStatus' /\ [Next]_vars
        => [Contract!ContractNext]_(Contract!contractVars)
  <2> SUFFICES ASSUME ServiceInv, SeenStatus, SeenStatus', [Next]_vars
               PROVE  [Contract!ContractNext]_(Contract!contractVars)
    OBVIOUS
  <2>1. CASE UNCHANGED vars
    <3>1. UNCHANGED <<fin, close, ready, stage, delivered>>
      BY <2>1 DEF vars, execVars, trunkVars
    <3>2. Handed' = Handed
      BY <3>1 DEF Handed
    <3> QED
      BY <3>1, <3>2, StatusKept DEF Contract!contractVars, PhaseNow
  <2> QED
    BY <2>1, ContractCalls, ContractWorkers, ContractOwner, ContractShutdown DEF Next
<1>3. Spec => [](ServiceInv /\ SeenStatus)
  BY ServiceInvariant, AnsweredFacts, PTL
<1> QED
  BY <1>1, <1>2, <1>3, PTL DEF Spec, Contract!ContractSpec, ImplementsContract
-----------------------------------------------------------------------------
(* With one worker the responses to one client's calls keep their order. *)

Async == ReplyCmd \ SyncCmd

OfferedInOrder ==
    OneWorker =>
        \A c \in Clients : \A j \in 1..Len(accepted[c]) : \A i \in 1..j - 1 :
            /\ accepted[c][i] \in Async /\ accepted[c][j] \in Async
            /\ fate[accepted[c][i]] # "dropped"
            => \A w \in Workers : \A q \in 1..Len(offered[w]) :
                 offered[w][q] = accepted[c][j] =>
                     \E p \in 1..q - 1 : offered[w][p] = accepted[c][i]

(* What has been offered has been replied to. *)
LEMMA OfferedFacts ==
    ASSUME ServiceInv
    PROVE  \A w \in Workers : \A q \in 1..Len(offered[w]) :
             /\ offered[w][q] \in Cmd
             /\ stage[offered[w][q]] = "replied"
             /\ fate[offered[w][q]] \in {"queued", "delivered"}
<1> SUFFICES ASSUME NEW w \in Workers, NEW q \in 1..Len(offered[w])
             PROVE  /\ offered[w][q] \in Cmd
                    /\ stage[offered[w][q]] = "replied"
                    /\ fate[offered[w][q]] \in {"queued", "delivered"}
  OBVIOUS
<1>1. offered[w][q] \in Cmd
  BY ElementOfSeq DEF ServiceInv, TrunkOK, TrunkFacts!TrunkTypeOK
<1>2. fate[offered[w][q]] \in {"queued", "delivered"}
  BY DEF ServiceInv, TrunkOK, TrunkFacts!TrunkInv, TrunkFacts!OfferInv
<1> QED
  BY <1>1, <1>2 DEF ServiceInv, TieInv, ResponseInv, Through

LEMMA OfferedElsewhere ==
    ASSUME ServiceInv, OfferedInOrder, UNCHANGED <<offered, accepted>>,
           \A x \in Cmd : fate[x] = "dropped" => fate'[x] = "dropped"
    PROVE  OfferedInOrder'
<1>1. \A c \in Clients : \A j \in 1..Len(accepted[c]) : \A i \in 1..j - 1 :
        accepted[c][i] \in Cmd
  <2> SUFFICES ASSUME NEW c \in Clients, NEW j \in 1..Len(accepted[c]), NEW i \in 1..j - 1
               PROVE  accepted[c][i] \in Cmd
    OBVIOUS
  <2> DEFINE l == Len(accepted[c])
  <2>1. l \in Nat /\ j \in 1..l /\ \A r \in 1..l : accepted[c][r] \in Cmd
    BY SequenceFacts DEF ServiceInv
  <2> HIDE DEF l
  <2> QED
    BY <2>1
<1> QED
  BY <1>1 DEF OfferedInOrder, OneWorker

LEMMA OfferedEnqueue ==
    ASSUME ServiceInv, OfferedInOrder, NEW c \in Clients, Enqueue(c), UNCHANGED trunkVars
    PROVE  OfferedInOrder'
<1> DEFINE x == ccmd[c]
           k == Len(accepted[c])
<1>1. /\ \A b \in Clients : b # c => accepted'[b] = accepted[b]
      /\ Len(accepted'[c]) = k + 1
      /\ \A i \in 1..k : accepted'[c][i] = accepted[c][i]
      /\ accepted'[c][k + 1] = x
  BY AcceptFacts DEF ServiceInv
<1>2. \A w \in Workers : \A q \in 1..Len(offered[w]) : offered[w][q] # x
  BY OfferedFacts, EnqueueFacts DEF ServiceInv
<1>3. \A b \in Clients : Len(accepted[b]) \in Nat
  BY SequenceFacts DEF ServiceInv
<1>4. UNCHANGED <<offered, fate>>
  BY DEF trunkVars
<1> SUFFICES ASSUME OneWorker, NEW b \in Clients,
                    NEW j \in 1..Len(accepted'[b]), NEW i \in 1..j - 1,
                    accepted'[b][i] \in Async, accepted'[b][j] \in Async,
                    fate[accepted'[b][i]] # "dropped",
                    NEW w \in Workers, NEW q \in 1..Len(offered[w]),
                    offered[w][q] = accepted'[b][j]
             PROVE  \E p \in 1..q - 1 : offered[w][p] = accepted'[b][i]
  BY <1>4 DEF OfferedInOrder, OneWorker
<1>5. /\ j \in 1..Len(accepted[b])
      /\ accepted'[b][j] = accepted[b][j] /\ accepted'[b][i] = accepted[b][i]
  <2>1. CASE b = c
    <3> HIDE DEF x, k
    <3>1. k \in Nat
      BY <1>3 DEF k
    <3>2. j \in 1..k
      BY <1>1, <1>2, <2>1, <3>1
    <3>3. i \in 1..k
      BY <3>1, <3>2
    <3> QED
      BY <1>1, <2>1, <3>2, <3>3 DEF k
  <2>2. CASE b # c
    BY <1>1, <2>2
  <2> QED
    BY <2>1, <2>2
<1> QED
  BY <1>5 DEF OfferedInOrder

(* The response a worker offers comes after those its caller was to get first. *)
LEMMA OfferedRespond ==
    ASSUME ServiceInv, OfferedInOrder, NEW w \in Workers,
           wpc[w] = "callback", Trunk!AddEnqueue(w), UNCHANGED accepted
    PROVE  OfferedInOrder'
<1> DEFINE x == adding[w]
           k == Len(offered[w])
<1>1. x = wcmd[w] /\ x \in Cmd /\ stage[x] = "executed" /\ fate[x] = "adding"
  BY DEF ServiceInv, TieInv, AddingInv, ExecInv, WorkerInv, ExecTypeOK, Holding,
         Trunk!AddEnqueue, TrunkOK, TrunkFacts!TrunkTypeOK
<1>2. /\ offered \in [Workers -> Seq(Cmd)]
      /\ fate \in [Cmd -> {"none", "adding", "queued", "delivered", "dropped"}]
  BY DEF ServiceInv, TrunkOK, TrunkFacts!TrunkTypeOK
<1>3. /\ offered' = [offered EXCEPT ![w] = Append(@, x)]
      /\ fate' = [fate EXCEPT ![x] = "queued"]
  BY DEF Trunk!AddEnqueue
<1>4. /\ Len(offered'[w]) = k + 1 /\ k \in Nat
      /\ \A q \in 1..k : offered'[w][q] = offered[w][q]
      /\ offered'[w][k + 1] = x
  <2>1. offered'[w] = Append(offered[w], x) /\ offered[w] \in Seq(Cmd)
    <3> HIDE DEF x
    <3> QED
      BY <1>2, <1>3
  <2> QED
    BY <1>1, <2>1, AppendProperties, LenProperties
<1>5. \A b \in Clients :
        Len(accepted[b]) \in Nat /\ \A i \in 1..Len(accepted[b]) : accepted[b][i] \in Cmd
  BY SequenceFacts DEF ServiceInv
<1> SUFFICES ASSUME OneWorker, NEW c \in Clients,
                    NEW j \in 1..Len(accepted[c]), NEW i \in 1..j - 1,
                    accepted[c][i] \in Async, accepted[c][j] \in Async,
                    fate'[accepted[c][i]] # "dropped",
                    NEW v \in Workers, NEW q \in 1..Len(offered'[v]),
                    offered'[v][q] = accepted[c][j]
             PROVE  \E p \in 1..q - 1 : offered'[v][p] = accepted[c][i]
  <2>1. OneWorker' = OneWorker /\ accepted' = accepted
    BY DEF OneWorker
  <2> QED
    BY <2>1 DEF OfferedInOrder
<1> DEFINE y == accepted[c][i]
           l == Len(accepted[c])
<1>6. i \in 1..l /\ j \in 1..l /\ i < j
  <2>1. l \in Nat
    BY <1>5
  <2> HIDE DEF l
  <2>2. j \in 1..l
    BY DEF l
  <2> QED
    BY <2>1, <2>2
<1>7. y \in Cmd /\ accepted[c][j] \in Cmd /\ y # accepted[c][j]
  <2>1. i \in 1..Len(accepted[c])
    BY <1>6
  <2>2. \A r, t \in 1..Len(accepted[c]) : accepted[c][r] = accepted[c][t] => r = t
    BY DEF ServiceInv, OrderInv
  <2> QED
    BY <1>5, <1>6, <2>1, <2>2
<1>8. v = w
  BY DEF OneWorker
<1>9. fate[y] # "dropped"
  <2> HIDE DEF x, y
  <2>1. fate'[y] # "dropped"
    BY DEF y
  <2> QED
    BY <1>1, <1>2, <1>3, <1>7, <2>1
<1>10. CASE q \in 1..k
  <2>1. offered[w][q] = accepted[c][j]
    BY <1>4, <1>8, <1>10
  <2>2. PICK p \in 1..q - 1 : offered[w][p] = y
    BY <1>9, <1>10, <2>1 DEF OfferedInOrder
  <2>3. p \in 1..k
    <3> HIDE DEF k
    <3> QED
      BY <1>4, <1>10
  <2> QED
    BY <1>4, <1>8, <2>2, <2>3
<1>11. CASE q = k + 1
  <2>1. accepted[c][j] = x
    BY <1>4, <1>8, <1>11
  <2>2. stage[y] # "queued"
    <3>1. \A r, t \in 1..Len(accepted[c]) :
            r < t /\ stage[accepted[c][r]] = "queued" => stage[accepted[c][t]] = "queued"
      BY StartedOrder DEF ServiceInv
    <3>2. stage[accepted[c][j]] # "queued"
      BY <1>1, <2>1
    <3> QED
      BY <1>6, <3>1, <3>2
  <2>3. \A u \in Workers : wpc[u] \in {"executing", "callback"} => wcmd[u] # y
    BY <1>1, <1>7, <2>1 DEF OneWorker
  <2>4. stage[y] \in {"queued", "taken", "executed", "replied"}
    BY <1>6 DEF ServiceInv, OrderInv
  <2>5. y \in ReplyCmd
    BY DEF Async
  <2> HIDE DEF x, y
  <2>6. stage[y] = "replied"
    BY <1>7, <2>2, <2>3, <2>4, <2>5 DEF ServiceInv, ProgressInv
  <2>7. fate[y] \in {"queued", "delivered"}
    BY <1>7, <1>9, <2>6 DEF ServiceInv, TieInv, ResponseInv, Through, Async, y
  <2>8. PICK u \in Workers : \E p \in 1..Len(offered[u]) : offered[u][p] = y
    BY <1>7, <2>7 DEF ServiceInv, TieInv, ResponseInv
  <2>9. PICK p \in 1..k : offered[w][p] = y
    BY <2>8 DEF OneWorker
  <2> HIDE DEF k
  <2>10. p \in 1..q - 1
    BY <1>4, <1>11
  <2> QED
    BY <1>4, <1>8, <2>9, <2>10 DEF y
<1> QED
  <2> HIDE DEF k
  <2>1. q \in 1..k + 1
    BY <1>4, <1>8
  <2>2. q \in 1..k \/ q = k + 1
    BY <1>4, <2>1
  <2> QED
    BY <1>10, <1>11, <2>2

LEMMA OfferedStep ==
    ASSUME ServiceInv, ServiceInv', OfferedInOrder, [Next]_vars
    PROVE  OfferedInOrder'
<1>0. /\ fate \in [Cmd -> {"none", "adding", "queued", "delivered", "dropped"}]
      /\ adding \in [Workers -> Cmd \cup {None}]
  BY DEF ServiceInv, TrunkOK, TrunkFacts!TrunkTypeOK
<1>1. ASSUME NEW c \in Clients, (\E x \in Cmd : Call(c, x)) \/ CallStep(c)
      PROVE  OfferedInOrder'
  <2>1. UNCHANGED trunkVars /\ UNCHANGED <<offered, fate>>
    BY <1>1 DEF Call, CallStep, trunkVars
  <2>2. CASE UNCHANGED accepted
    BY <2>1, <2>2, OfferedElsewhere
  <2>3. CASE Enqueue(c)
    BY <2>1, <2>3, OfferedEnqueue
  <2> QED
    BY <1>1, <2>2, <2>3 DEF Call, CallStep, Admit, Refuse, EnqueueFails, SyncReturn,
                             clientVars
<1>2. ASSUME NEW w \in Workers, Respond(w)
      PROVE  OfferedInOrder'
  <2>1. wpc[w] = "callback" /\ UNCHANGED accepted
    BY <1>2 DEF Respond, Reply, clientVars, execVars
  <2>2. CASE Trunk!AddEnqueue(w)
    BY <2>1, <2>2, OfferedRespond
  <2>3. CASE Trunk!AddAdmitted(w, wcmd[w])
    BY <1>0, <2>1, <2>3, OfferedElsewhere DEF Trunk!AddAdmitted
  <2>4. CASE Trunk!AddRefused(w, wcmd[w]) \/ Trunk!AddFails(w)
    BY <1>0, <2>1, <2>4, OfferedElsewhere DEF Trunk!AddRefused, Trunk!AddFails
  <2> QED
    BY <1>2, <2>2, <2>3, <2>4 DEF Respond
<1>3. CASE MainRunOnce
  <2>1. UNCHANGED <<accepted, offered, stage>>
    BY <1>3 DEF MainRunOnce, execVars, Trunk!RunOnce, Trunk!RunOnceBegin,
                Trunk!RunOnceTake, Trunk!CallbackReturns, Trunk!RunOnceEnd
  <2>2. \A x \in Cmd : fate[x] = "dropped" => fate'[x] = "dropped"
    <3>1. CASE UNCHANGED fate
      BY <3>1
    <3>2. CASE Trunk!RunOnceTake
      <4>1. TrunkFacts!TrunkTypeOK /\ TrunkFacts!TrunkInv
        BY DEF ServiceInv, TrunkOK
      <4>2. PICK p \in Workers :
              /\ Len(works[p]) \in Nat \ {0}
              /\ works[p][1] \in Cmd
              /\ fate' = [fate EXCEPT ![works[p][1]] = "delivered"]
        <5>1. TrunkFacts!RunOnceTake
          BY <3>2 DEF Trunk!RunOnceTake, TrunkFacts!RunOnceTake, Trunk!Pending,
                      TrunkFacts!Pending, Trunk!Pop, TrunkFacts!Pop
        <5> QED
          BY <4>1, <5>1, CmdAssumption, TrunkFacts!TakeFacts
      <4>3. 1 \in 1..Len(works[p])
        BY <4>2
      <4>4. fate[works[p][1]] \in {"queued", "delivered"}
        BY <4>1, <4>3, CmdAssumption, TrunkFacts!WaitingFacts
      <4> QED
        BY <1>0, <4>2, <4>4
    <3> QED
      BY <1>3, <3>1, <3>2 DEF MainRunOnce, Trunk!RunOnce, Trunk!RunOnceBegin,
                              Trunk!CallbackReturns, Trunk!RunOnceEnd
  <2> QED
    BY <2>1, <2>2, OfferedElsewhere
<1>4. ASSUME NEW w \in Workers, WorkerAlone(w)
      PROVE  OfferedInOrder'
  <2>1. UNCHANGED <<accepted, offered, fate>>
    BY <1>4 DEF WorkerAlone, OpenStub, CheckDone, Dequeue, Timeout, Execute, Reply,
                Dispose, CloseStub, clientVars, trunkVars
  <2> QED
    BY <2>1, OfferedElsewhere
<1>5. CASE ShutdownBegin \/ ShutdownJoined \/ ShutdownEnd \/ UNCHANGED vars
  <2>1. UNCHANGED <<accepted, offered, fate>>
    BY <1>5 DEF ShutdownBegin, ShutdownJoined, ShutdownEnd, FinishBegin, FinishEnd,
                Trunk!Close, trunkVars, execVars, clientVars, vars
  <2> QED
    BY <2>1, OfferedElsewhere
<1> QED
  BY <1>1, <1>2, <1>3, <1>4, <1>5 DEF Next

(* With one worker the responses to one client's calls arrive in the order of the
   calls, except those for which no memory was left. *)
THEOREM ResponsesKeepOrder == Spec => []ResponsesInOrder
<1>1. Init => OfferedInOrder
  <2>1. Init => \A w \in Workers : Len(offered[w]) = 0
    BY EmptySeq DEF Init, Trunk!TrunkInit, Trunk!EmptyQueue
  <2> QED
    BY <2>1 DEF OfferedInOrder
<1>2. Spec => []OfferedInOrder
  BY <1>1, OfferedStep, ServiceInvariant, PTL DEF Spec
<1>3. ServiceInv /\ OfferedInOrder => ResponsesInOrder
  <2> SUFFICES ASSUME ServiceInv, OfferedInOrder, OneWorker, NEW c \in Clients,
                      NEW i \in DOMAIN accepted[c], NEW j \in DOMAIN accepted[c],
                      i < j, {accepted[c][i], accepted[c][j]} \subseteq Async,
                      fate[accepted[c][i]] # "dropped",
                      NEW n \in DOMAIN delivered, delivered[n] = accepted[c][j]
               PROVE  \E m \in 1..n - 1 : delivered[m] = accepted[c][i]
    BY DEF ResponsesInOrder, Async
  <2> DEFINE l == Len(accepted[c])
  <2>1. /\ l \in Nat /\ DOMAIN accepted[c] = 1..l
        /\ DOMAIN delivered = 1..Len(delivered)
        /\ \A w \in Workers : DOMAIN offered[w] = 1..Len(offered[w]) /\ Len(offered[w]) \in Nat
        /\ \A w \in Workers : Len(works[w]) \in Nat
    BY LenProperties DEF ServiceInv, ExecTypeOK, TrunkOK, TrunkFacts!TrunkTypeOK
  <2>2. j \in 1..l /\ i \in 1..j - 1
    <3> HIDE DEF l
    <3> QED
      BY <2>1
  <2>3. PICK w \in Workers : \E q \in 1..TrunkFacts!Taken(w) : offered[w][q] = accepted[c][j]
    <3>1. TrunkFacts!DeliveryInv
      BY DEF ServiceInv, TrunkOK, TrunkFacts!TrunkInv
    <3>2. n \in 1..Len(delivered)
      BY <2>1
    <3>3. \E w \in Workers : \E q \in 1..TrunkFacts!Taken(w) : offered[w][q] = delivered[n]
      BY <3>1, <3>2 DEF TrunkFacts!DeliveryInv
    <3> QED  BY <3>3
  <2>4. PICK q \in 1..TrunkFacts!Taken(w) : offered[w][q] = accepted[c][j]
    BY <2>3
  <2> DEFINE a == Len(offered[w])
             b == Len(works[w])
  <2>5. a \in Nat /\ b \in Nat /\ TrunkFacts!Taken(w) = a - b
    BY <2>1 DEF TrunkFacts!Taken
  <2>6. q \in 1..a
    <3> HIDE DEF a, b
    <3> QED
      BY <2>5
  <2>7. PICK p \in 1..q - 1 : offered[w][p] = accepted[c][i]
    BY <2>2, <2>4, <2>6 DEF OfferedInOrder
  <2>8. p \in 1..a /\ p < q
    <3> HIDE DEF a, b
    <3> QED
      BY <2>5, <2>6
  <2> QED
    BY <2>1, <2>4, <2>6, <2>7, <2>8 DEF ServiceInv, TrunkOK, TrunkFacts!DeliveredInOrder
<1> QED
  BY <1>2, <1>3, ServiceInvariant, PTL
=============================================================================
