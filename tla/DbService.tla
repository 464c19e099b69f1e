------------------------------ MODULE DbService ------------------------------
(***************************************************************************)
(* CDbService: the execution queue and the trunk queue put together.       *)
(*                                                                         *)
(* Commands go from the application threads to the workers through the     *)
(* execution queue.  The result of an asynchronous load or query goes from *)
(* the worker to the trunk queue, and the owner of the service (Main, one  *)
(* of the application threads) runs the application's callback from        *)
(* RunOnce.  Shutdown finishes the execution queue, waiting for every      *)
(* worker, and then closes the trunk queue.                                *)
(*                                                                         *)
(* Main has one stack: it is outside the service, in RunOnce, in a         *)
(* callback RunOnce runs, or in a call it makes from either place.         *)
(***************************************************************************)
EXTENDS PbStubExecQueue

CONSTANT Main   \* the application thread that calls RunOnce and Shutdown

ASSUME MainAssumption == Main \in Clients

VARIABLES close, works, adding, pump, fate, offered, delivered

(* The trunk queue of the service: its adding threads are the workers, an item
   is the response to a command. *)
Trunk == INSTANCE PbStubTrunkQueue
            WITH Producers <- Workers, Item <- Cmd, NoItem <- None

trunkVars == <<close, works, adding, pump, fate, offered, delivered>>
vars == <<execVars, trunkVars>>

Init == ExecInit /\ Trunk!TrunkInit

-----------------------------------------------------------------------------
(* Main is inside Shutdown: _bShutdown is set and the call has not returned. *)
InShutdown == fin = "joining" \/ (fin = "joined" /\ ~close)

(* Thread c runs application code and may call the service.  Main does not
   while it is in Shutdown or between two callbacks of RunOnce. *)
MayCall(c) ==
    /\ cpc[c] = "idle"
    /\ c = Main => ~InShutdown /\ pump # "loop"

(* EntityLoad, EntityAdd, ..., StoredProcUpdateAsync: the service resolves the
   table name and forwards the call; the queue admits or refuses it. *)
Call(c, x) ==
    /\ MayCall(c)
    /\ Admit(c, x) \/ Refuse(c, x)
    /\ UNCHANGED trunkVars

(* The rest of a call inside the execution queue. *)
CallStep(c) ==
    /\ Enqueue(c) \/ EnqueueFails(c) \/ SyncReturn(c)
    /\ UNCHANGED trunkVars

(* Steps of a worker that leave the trunk queue alone, among them the reply to
   a synchronous command, which goes straight into the caller's variable. *)
WorkerAlone(w) ==
    /\ \/ OpenStub(w)
       \/ CheckDone(w)
       \/ Dequeue(w)
       \/ Timeout(w)
       \/ Execute(w)
       \/ wcmd[w] \in SyncCmd /\ Reply(w)
       \/ Dispose(w)
       \/ CloseStub(w)
    /\ UNCHANGED trunkVars

(* Faulty variant of Respond: the worker goes on before its response is in the
   queue. *)
Respond_GoesOn(w) ==
    /\ wpc[w] = "callback"
    /\ wcmd[w] \notin SyncCmd
    /\ \/ Trunk!AddAdmitted(w, wcmd[w]) /\ Reply(w)
       \/ Trunk!AddRefused(w, wcmd[w]) /\ Reply(w)

(* The reply to an asynchronous command: the worker Adds the response to the
   trunk queue and goes on, whether or not Add kept it. *)
Respond(w) ==
    /\ wpc[w] = "callback"
    /\ wcmd[w] \notin SyncCmd
    /\ \/ Trunk!AddAdmitted(w, wcmd[w]) /\ UNCHANGED execVars
       \/ Trunk!AddRefused(w, wcmd[w]) /\ Reply(w)
       \/ Trunk!AddEnqueue(w) /\ Reply(w)
       \/ Trunk!AddFails(w) /\ Reply(w)

(* RunOnce on Main.  A callback returns once Main is out of every call it made
   from it. *)
MainRunOnce ==
    /\ cpc[Main] = "idle"
    /\ ~InShutdown
    /\ Trunk!RunOnce
    /\ UNCHANGED execVars

(* Shutdown on Main, the first time: _bShutdown is set and Finish starts.  A
   later Shutdown returns at once. *)
ShutdownBegin ==
    /\ MayCall(Main)
    /\ FinishBegin
    /\ UNCHANGED trunkVars

(* Finish has joined every worker. *)
ShutdownJoined ==
    /\ FinishEnd
    /\ UNCHANGED trunkVars

(* Faulty variant of ShutdownEnd: the trunk queue is closed before the workers
   are joined. *)
ShutdownEnd_ClosesFirst ==
    /\ fin # "no"
    /\ ~close
    /\ Trunk!Close
    /\ UNCHANGED execVars

(* Shutdown closes the trunk queue and returns. *)
ShutdownEnd ==
    /\ fin = "joined"
    /\ ~close
    /\ Trunk!Close
    /\ UNCHANGED execVars

Next ==
    \/ \E c \in Clients : (\E x \in Cmd : Call(c, x)) \/ CallStep(c)
    \/ \E w \in Workers : WorkerAlone(w) \/ Respond(w)
    \/ MainRunOnce
    \/ ShutdownBegin
    \/ ShutdownJoined
    \/ ShutdownEnd

Spec == Init /\ [][Next]_vars

(* Threads are scheduled and the database answers; the owner keeps pumping. *)
Fairness ==
    /\ \A w \in Workers : WF_vars(WorkerAlone(w) \/ Respond(w))
    /\ \A c \in Clients : WF_vars(CallStep(c))
    /\ WF_vars(MainRunOnce)
    /\ WF_vars(ShutdownJoined)
    /\ WF_vars(ShutdownEnd)

FairSpec == Spec /\ Fairness

-----------------------------------------------------------------------------
(* Properties. *)

(* In the service each queue runs as it does alone: composing them takes
   behaviours away and adds none. *)
ExecQueueBehaves == ExecSpec
TrunkQueueBehaves == Trunk!TrunkSpec

(* The types of both queues, and how the two are tied together: the item a
   worker is adding is the response to the command it holds. *)
TypeOK ==
    /\ ExecTypeOK
    /\ Trunk!TrunkTypeOK
    /\ \A w \in Workers :
         adding[w] # None => wpc[w] = "callback" /\ adding[w] = wcmd[w]

(* No response of a worker is dropped because the trunk queue is closed: Close
   waits for Finish and Finish for every worker (DbService.cpp 279-280). *)
ResponseFindsTrunkOpen == \A w \in Workers : wpc[w] = "callback" => ~close

(* With one worker the responses to one client's calls arrive in the order of
   the calls. *)
ResponsesInOrder ==
    OneWorker =>
        \A c \in Clients : \A i, j \in DOMAIN accepted[c] :
            /\ i < j
            /\ {accepted[c][i], accepted[c][j]} \subseteq ReplyCmd \ SyncCmd
            /\ fate[accepted[c][i]] # "dropped"
            => \A n \in DOMAIN delivered :
                 delivered[n] = accepted[c][j] =>
                     \E m \in 1..n - 1 : delivered[m] = accepted[c][i]

(* Once Shutdown has returned nothing of the service runs any more: no command,
   no callback, although calls and RunOnce are still allowed. *)
SilentAfterShutdown == [][close => UNCHANGED <<log, ready, delivered>>]_vars

(* The owner is never stuck in a synchronous call, not even in one made from a
   callback: only the owner stops the workers. *)
OwnerReturns == cpc[Main] = "waiting" ~> cpc[Main] = "idle"

(* A response that was queued is handed to its callback, unless the owner shuts
   the service down first. *)
ResponseIsDelivered ==
    \A x \in Cmd : fate[x] = "queued" ~> (fate[x] = "delivered" \/ done)

(* Shutdown returns, also when it was called from a callback. *)
ShutdownReturns == done ~> close

-----------------------------------------------------------------------------
(* The contract the service implements. *)

Answered == ready \cup {delivered[i] : i \in DOMAIN delivered}

StatusOf(x) ==
    CASE x \in Answered -> "answered"
      [] x \in Executed \ Answered -> "executed"
      [] x \notin Answered \cup Executed /\ stage[x] \in {"queued", "taken"} -> "accepted"
      [] OTHER -> stage[x]

PhaseNow ==
    CASE close -> "closed"
      [] ~close /\ fin = "joined" -> "stopped"
      [] ~close /\ fin = "joining" -> "stopping"
      [] OTHER -> "open"

Contract == INSTANCE ServiceContract
               WITH Answerable <- SyncCmd \cup ReplyCmd,
                    phase <- PhaseNow,
                    status <- [x \in Cmd |-> StatusOf(x)]

(* Every run of the service, seen through StatusOf and PhaseNow, is one the
   contract allows. *)
ImplementsContract == Contract!ContractSpec
=============================================================================
