--------------------------- MODULE PbStubExecQueue ---------------------------
(***************************************************************************)
(* CPbStubExecQueue: application threads hand database commands to a fixed *)
(* set of worker threads.                                                  *)
(*                                                                         *)
(*   - An Add...String call copies the request into the command and        *)
(*     returns as soon as the command is queued.                           *)
(*   - A Synchronize... call queues a command that points into the         *)
(*     caller's frame (the entity, the result, the promise) and blocks on  *)
(*     the promise until a worker has run the command's dispose callback.  *)
(*   - A worker loops: test _done, wait at most 1.5 s for a command,       *)
(*     execute it, run its reply callback if it has one, then its dispose  *)
(*     callback if it has one.                                             *)
(*   - Finish sets _done and joins the workers.                            *)
(*                                                                         *)
(* The test of _done and the enqueue that follows it are two steps of a    *)
(* caller: nothing in the code makes them one.  What the twelve command    *)
(* types have to tell apart is whether the caller waits (SyncCmd) and      *)
(* whether a reply callback receives a result (ReplyCmd).                  *)
(***************************************************************************)
EXTENDS Naturals, CamelQueue

CONSTANTS
    Clients,    \* application threads that call the service
    Workers,    \* the consumer threads Start creates
    Cmd,        \* the calls made during a run, each made once
    SyncCmd,    \* those made through a Synchronize... function
    ReplyCmd,   \* loads and stored procedure queries: they have a reply callback
    None        \* "no command"

ASSUME CmdAssumption ==
    /\ SyncCmd \subseteq Cmd
    /\ ReplyCmd \subseteq Cmd
    /\ None \notin Cmd

VARIABLES
    done,       \* CPbStubExecQueue::_done
    callbacks,  \* _callbacks, one FIFO per calling thread
    cpc,        \* where each client is in a call: "idle", "admitted", "waiting"
    ccmd,       \* the command of that call
    wpc,        \* where each worker is in Run
    wcmd,       \* the worker's local variable cmd
    ready,      \* commands whose promise has been set
    fin,        \* progress of Finish: "no", "joining", "joined"
    stage,      \* history: how far each command has come
    accepted,   \* history: what each client has queued, in order
    log,        \* history: commands in the order the database executed them
    late        \* history: commands each worker executed after _done was set

execVars == <<done, callbacks, cpc, ccmd, wpc, wcmd, ready, fin,
              stage, accepted, log, late>>

clientVars == <<cpc, ccmd, accepted>>
workerVars == <<wpc, wcmd, log, late>>

ExecInit ==
    /\ done = FALSE
    /\ callbacks = EmptyQueue(Clients)
    /\ cpc = [c \in Clients |-> "idle"]
    /\ ccmd = [c \in Clients |-> None]
    /\ wpc = [w \in Workers |-> "opening"]
    /\ wcmd = [w \in Workers |-> None]
    /\ ready = {}
    /\ fin = "no"
    /\ stage = [x \in Cmd |-> "new"]
    /\ accepted = [c \in Clients |-> <<>>]
    /\ log = <<>>
    /\ late = [w \in Workers |-> 0]

-----------------------------------------------------------------------------
(* Calls of the application threads. *)

(* A call finds _done clear and goes on to build its command. *)
Admit(c, x) ==
    /\ cpc[c] = "idle"
    /\ stage[x] = "new"
    /\ ~done
    /\ cpc' = [cpc EXCEPT ![c] = "admitted"]
    /\ ccmd' = [ccmd EXCEPT ![c] = x]
    /\ stage' = [stage EXCEPT ![x] = "admitted"]
    /\ UNCHANGED <<done, callbacks, ready, fin, accepted, workerVars>>

(* A call finds _done set and returns false. *)
Refuse(c, x) ==
    /\ cpc[c] = "idle"
    /\ stage[x] = "new"
    /\ done
    /\ stage' = [stage EXCEPT ![x] = "refused"]
    /\ UNCHANGED <<done, callbacks, ready, fin, clientVars, workerVars>>

(* Faulty variant of Enqueue: a synchronous call does not wait. *)
Enqueue_NoWait(c) ==
    LET x == ccmd[c] IN
    /\ cpc[c] = "admitted"
    /\ callbacks' = Push(callbacks, c, x)
    /\ accepted' = [accepted EXCEPT ![c] = Append(@, x)]
    /\ stage' = [stage EXCEPT ![x] = "queued"]
    /\ cpc' = [cpc EXCEPT ![c] = "idle"]
    /\ ccmd' = [ccmd EXCEPT ![c] = None]
    /\ UNCHANGED <<done, ready, fin, workerVars>>

(* The command enters the caller's FIFO; an asynchronous call returns, a
   synchronous one goes on to get_future().get(). *)
Enqueue(c) ==
    LET x == ccmd[c] IN
    /\ cpc[c] = "admitted"
    /\ callbacks' = Push(callbacks, c, x)
    /\ accepted' = [accepted EXCEPT ![c] = Append(@, x)]
    /\ stage' = [stage EXCEPT ![x] = "queued"]
    /\ IF x \in SyncCmd
         THEN /\ cpc' = [cpc EXCEPT ![c] = "waiting"]
              /\ UNCHANGED ccmd
         ELSE /\ cpc' = [cpc EXCEPT ![c] = "idle"]
              /\ ccmd' = [ccmd EXCEPT ![c] = None]
    /\ UNCHANGED <<done, ready, fin, workerVars>>

(* The queue cannot allocate room: the call returns false. *)
EnqueueFails(c) ==
    /\ cpc[c] = "admitted"
    /\ stage' = [stage EXCEPT ![ccmd[c]] = "refused"]
    /\ cpc' = [cpc EXCEPT ![c] = "idle"]
    /\ ccmd' = [ccmd EXCEPT ![c] = None]
    /\ UNCHANGED <<done, callbacks, ready, fin, accepted, workerVars>>

(* Faulty variant of SyncReturn: a wait that gives up before the promise is set. *)
SyncReturn_GivesUp(c) ==
    /\ cpc[c] = "waiting"
    /\ cpc' = [cpc EXCEPT ![c] = "idle"]
    /\ ccmd' = [ccmd EXCEPT ![c] = None]
    /\ UNCHANGED <<done, callbacks, ready, fin, stage, accepted, workerVars>>

(* The promise has been set: the synchronous call returns true and its frame,
   with the result and the promise, is gone. *)
SyncReturn(c) ==
    /\ cpc[c] = "waiting"
    /\ ccmd[c] \in ready
    /\ cpc' = [cpc EXCEPT ![c] = "idle"]
    /\ ccmd' = [ccmd EXCEPT ![c] = None]
    /\ UNCHANGED <<done, callbacks, ready, fin, stage, accepted, workerVars>>

-----------------------------------------------------------------------------
(* The worker threads: CPbStubExecQueue::Run. *)

(* Faulty variant of OpenStub: a worker whose session failed to open leaves. *)
OpenStub_Leaves(w) ==
    /\ wpc[w] = "opening"
    /\ \E next \in {"check", "closing"} : wpc' = [wpc EXCEPT ![w] = next]
    /\ UNCHANGED <<done, callbacks, wcmd, ready, fin, stage, clientVars, log, late>>

(* stub->Open has returned: the worker has a database session. *)
OpenStub(w) ==
    /\ wpc[w] = "opening"
    /\ wpc' = [wpc EXCEPT ![w] = "check"]
    /\ UNCHANGED <<done, callbacks, wcmd, ready, fin, stage, clientVars, log, late>>

(* Faulty variant of CheckDone: the loop goes on while commands are queued. *)
CheckDone_Drains(w) ==
    /\ wpc[w] = "check"
    /\ wpc' = [wpc EXCEPT ![w] =
                 IF done /\ IsEmpty(callbacks) THEN "closing" ELSE "waiting"]
    /\ UNCHANGED <<done, callbacks, wcmd, ready, fin, stage, clientVars, log, late>>

(* while (!_done) *)
CheckDone(w) ==
    /\ wpc[w] = "check"
    /\ wpc' = [wpc EXCEPT ![w] = IF done THEN "closing" ELSE "waiting"]
    /\ UNCHANGED <<done, callbacks, wcmd, ready, fin, stage, clientVars, log, late>>

(* Faulty variant of Dequeue: the queue keeps no order. *)
Dequeue_AnyOrder(w) ==
    /\ wpc[w] = "waiting"
    /\ \E c \in Pending(callbacks) : \E i \in 1..Len(callbacks[c]) :
         LET q == callbacks[c] IN
         /\ callbacks' = [callbacks EXCEPT ![c] =
                            SubSeq(q, 1, i - 1) \o SubSeq(q, i + 1, Len(q))]
         /\ wcmd' = [wcmd EXCEPT ![w] = q[i]]
         /\ stage' = [stage EXCEPT ![q[i]] = "taken"]
    /\ wpc' = [wpc EXCEPT ![w] = "executing"]
    /\ UNCHANGED <<done, ready, fin, clientVars, log, late>>

(* wait_dequeue_timed returns true with the oldest command of some client. *)
Dequeue(w) ==
    /\ wpc[w] = "waiting"
    /\ \E c \in Pending(callbacks) :
         LET x == Head(callbacks[c]) IN
         /\ callbacks' = Pop(callbacks, c)
         /\ wcmd' = [wcmd EXCEPT ![w] = x]
         /\ stage' = [stage EXCEPT ![x] = "taken"]
    /\ wpc' = [wpc EXCEPT ![w] = "executing"]
    /\ UNCHANGED <<done, ready, fin, clientVars, log, late>>

(* Faulty variants of Timeout: the loop body runs on the previous command when
   nothing was found; the wait has no bound. *)
Timeout_RunsStale(w) ==
    /\ wpc[w] = "waiting"
    /\ IsEmpty(callbacks)
    /\ wpc' = [wpc EXCEPT ![w] = IF wcmd[w] = None THEN "check" ELSE "executing"]
    /\ UNCHANGED <<done, callbacks, wcmd, ready, fin, stage, clientVars, log, late>>

Timeout_Never(w) ==
    /\ FALSE
    /\ UNCHANGED execVars

(* wait_dequeue_timed gives up after 1.5 s without a command. *)
Timeout(w) ==
    /\ wpc[w] = "waiting"
    /\ IsEmpty(callbacks)
    /\ wpc' = [wpc EXCEPT ![w] = "check"]
    /\ UNCHANGED <<done, callbacks, wcmd, ready, fin, stage, clientVars, log, late>>

(* Faulty variant of AfterSwitch: the dispose callback is never run. *)
AfterSwitch_NoDispose(x) == "check"

(* Where Run goes once the switch is left with command x. *)
AfterSwitch(x) == IF x \in SyncCmd THEN "disposing" ELSE "check"

(* Faulty variants of Execute: the worker leaves at once when _done is set; the
   promise is set before the reply callback has run. *)
Execute_LeavesWhenDone(w) ==
    LET x == wcmd[w] IN
    /\ wpc[w] = "executing"
    /\ log' = Append(log, x)
    /\ late' = IF done THEN [late EXCEPT ![w] = @ + 1] ELSE late
    /\ stage' = [stage EXCEPT ![x] = "executed"]
    /\ wpc' = [wpc EXCEPT ![w] =
                 IF done THEN "closing"
                 ELSE IF x \in ReplyCmd THEN "callback" ELSE AfterSwitch(x)]
    /\ UNCHANGED <<done, callbacks, wcmd, ready, fin, clientVars>>

Execute_PromiseEarly(w) ==
    LET x == wcmd[w] IN
    /\ wpc[w] = "executing"
    /\ log' = Append(log, x)
    /\ late' = IF done THEN [late EXCEPT ![w] = @ + 1] ELSE late
    /\ stage' = [stage EXCEPT ![x] = "executed"]
    /\ ready' = ready \cup ({x} \cap SyncCmd)
    /\ wpc' = [wpc EXCEPT ![w] = IF x \in ReplyCmd THEN "callback" ELSE AfterSwitch(x)]
    /\ UNCHANGED <<done, callbacks, wcmd, fin, clientVars>>

(* The stub has executed the command against the database.  A synchronous
   command reads the caller's entity here, through _pbmsg_ptr. *)
Execute(w) ==
    LET x == wcmd[w] IN
    /\ wpc[w] = "executing"
    /\ log' = Append(log, x)
    /\ late' = IF done THEN [late EXCEPT ![w] = @ + 1] ELSE late
    /\ stage' = [stage EXCEPT ![x] = "executed"]
    /\ wpc' = [wpc EXCEPT ![w] = IF x \in ReplyCmd THEN "callback" ELSE AfterSwitch(x)]
    /\ UNCHANGED <<done, callbacks, wcmd, ready, fin, clientVars>>

(* The reply callback has run.  For a synchronous command it moved the result
   into the caller's variable. *)
Reply(w) ==
    LET x == wcmd[w] IN
    /\ wpc[w] = "callback"
    /\ stage' = [stage EXCEPT ![x] = "replied"]
    /\ wpc' = [wpc EXCEPT ![w] = AfterSwitch(x)]
    /\ UNCHANGED <<done, callbacks, wcmd, ready, fin, clientVars, log, late>>

(* _dispose_cb(): sets the promise the caller waits on. *)
Dispose(w) ==
    /\ wpc[w] = "disposing"
    /\ ready' = ready \cup {wcmd[w]}
    /\ wpc' = [wpc EXCEPT ![w] = "check"]
    /\ UNCHANGED <<done, callbacks, wcmd, fin, stage, clientVars, log, late>>

(* stub->Close() and the thread ends. *)
CloseStub(w) ==
    /\ wpc[w] = "closing"
    /\ wpc' = [wpc EXCEPT ![w] = "exited"]
    /\ UNCHANGED <<done, callbacks, wcmd, ready, fin, stage, clientVars, log, late>>

-----------------------------------------------------------------------------
(* Finish. *)

(* _done = true *)
FinishBegin ==
    /\ fin = "no"
    /\ done' = TRUE
    /\ fin' = "joining"
    /\ UNCHANGED <<callbacks, ready, stage, clientVars, workerVars>>

(* Faulty variant of FinishEnd: the workers are detached, not joined. *)
FinishEnd_Detaches ==
    /\ fin = "joining"
    /\ fin' = "joined"
    /\ UNCHANGED <<done, callbacks, ready, stage, clientVars, workerVars>>

(* Every worker has been joined. *)
FinishEnd ==
    /\ fin = "joining"
    /\ \A w \in Workers : wpc[w] = "exited"
    /\ fin' = "joined"
    /\ UNCHANGED <<done, callbacks, ready, stage, clientVars, workerVars>>

-----------------------------------------------------------------------------
ClientStep(c) ==
    \/ \E x \in Cmd : Admit(c, x) \/ Refuse(c, x)
    \/ Enqueue(c)
    \/ EnqueueFails(c)
    \/ SyncReturn(c)

WorkerStep(w) ==
    \/ OpenStub(w)
    \/ CheckDone(w)
    \/ Dequeue(w)
    \/ Timeout(w)
    \/ Execute(w)
    \/ Reply(w)
    \/ Dispose(w)
    \/ CloseStub(w)

ExecNext ==
    \/ \E c \in Clients : ClientStep(c)
    \/ \E w \in Workers : WorkerStep(w)
    \/ FinishBegin
    \/ FinishEnd

ExecSpec == ExecInit /\ [][ExecNext]_execVars

-----------------------------------------------------------------------------
(* Properties. *)

Stages == {"new", "refused", "admitted", "queued", "taken", "executed", "replied"}

(* Workers that hold a command they have not finished with. *)
Holding == {"executing", "callback", "disposing"}

(* The types of the state: a client in a call holds the command of that call, a
   worker in the loop body holds a command. *)
ExecTypeOK ==
    /\ done \in BOOLEAN
    /\ callbacks \in [Clients -> Seq(Cmd)]
    /\ cpc \in [Clients -> {"idle", "admitted", "waiting"}]
    /\ ccmd \in [Clients -> Cmd \cup {None}]
    /\ \A c \in Clients : cpc[c] = "idle" <=> ccmd[c] = None
    /\ wpc \in [Workers -> {"opening", "check", "waiting", "executing", "callback",
                            "disposing", "closing", "exited"}]
    /\ wcmd \in [Workers -> Cmd \cup {None}]
    /\ \A w \in Workers : wpc[w] \in Holding => wcmd[w] # None
    /\ ready \in SUBSET Cmd
    /\ fin \in {"no", "joining", "joined"}
    /\ stage \in [Cmd -> Stages]
    /\ accepted \in [Clients -> Seq(Cmd)]
    /\ log \in Seq(Cmd)
    /\ late \in [Workers -> Nat]

(* Commands that point into a caller's frame: the entity, the result variable
   and the promise are read or written through them until dispose has run. *)
Borrowing ==
    {x \in SyncCmd :
        \/ \E c \in Clients : \E i \in 1..Len(callbacks[c]) : callbacks[c][i] = x
        \/ \E w \in Workers : wpc[w] \in Holding /\ wcmd[w] = x}

(* A queued or running synchronous command never outlives the frame of its
   caller: that caller is still blocked in get_future().get() on it.  The
   commands hold &entity, &vResult and &prms (PbStubExecQueue.cpp 180-198). *)
CallerOutlivesCommand ==
    \A x \in Borrowing : \E c \in Clients : cpc[c] = "waiting" /\ ccmd[c] = x

(* No command is executed twice, whatever the workers do to one another: the
   loop body runs only on a command just taken off the queue, and no two
   workers hold the same one. *)
ExecutedOnce ==
    /\ \A i, j \in DOMAIN log : log[i] = log[j] => i = j
    /\ \A v, w \in Workers :
         wpc[v] \in Holding /\ wpc[w] \in Holding /\ wcmd[v] = wcmd[w] => v = w

Executed == {log[i] : i \in DOMAIN log}

(* One client's commands are taken off the queue in the order it queued them. *)
StartedInOrder ==
    \A c \in Clients : \A i, j \in DOMAIN accepted[c] :
        i < j /\ stage[accepted[c][i]] = "queued" => stage[accepted[c][j]] = "queued"

OneWorker == \A v, w \in Workers : v = w

(* With one worker a client's commands reach the database in the order it made
   them.  With several, only what follows a synchronous call is ordered after
   it: an add queued before a save may well be executed after it. *)
ExecutedInOrder ==
    \A c \in Clients : \A i, j \in DOMAIN accepted[c] :
        /\ i < j
        /\ accepted[c][j] \in Executed
        /\ accepted[c][i] \in SyncCmd \/ OneWorker
        => \E m, n \in DOMAIN log :
             m < n /\ log[m] = accepted[c][i] /\ log[n] = accepted[c][j]

(* Finish does not drain: once _done is set each worker executes at most the one
   command it holds or is about to be handed by the wait it is already in. *)
AtMostOneLate == \A w \in Workers : late[w] <= 1

(* A command a worker took is carried to its end before Finish returns: its
   reply callback and its dispose callback have run.  Only commands still in
   the queue are abandoned. *)
NothingHalfDone ==
    fin = "joined" =>
        \A x \in Cmd :
            /\ stage[x] # "taken"
            /\ x \in Executed /\ x \in ReplyCmd => stage[x] = "replied"
            /\ x \in Executed /\ x \in SyncCmd => x \in ready

(* Once Finish has returned no worker touches the database, a result or a
   promise again; the owner may destroy what the workers refer to. *)
QuietAfterFinish == [][fin = "joined" => UNCHANGED <<log, ready, wpc>>]_execVars

(* A Synchronize... call that returns true has had its command executed and,
   when the command has a result, the result stored. *)
SyncReturnsResult ==
    [][\A c \in Clients :
         cpc[c] = "waiting" /\ cpc'[c] = "idle" =>
            /\ ccmd[c] \in Executed
            /\ ccmd[c] \in ReplyCmd => stage[ccmd[c]] = "replied"]_execVars

(* Until the service is finished every queued command is executed. *)
QueuedIsExecuted ==
    \A x \in Cmd : stage[x] = "queued" ~> (x \in Executed \/ done)

(* Finish announces "Set done flag and notify." (PbStubExecQueue.cpp 470): a
   worker waiting for a command would be woken by it and none would sit out its
   wait after _done is set. *)
FinishNotifies == [][\A w \in Workers : done => ~Timeout(w)]_execVars
-----------------------------------------------------------------------------
(* The inductive invariant behind the safety properties. *)

(* A queued command sits at one place of one FIFO, an admitted one in one call. *)
QueueInv ==
    /\ \A c \in Clients : cpc[c] = "admitted" => stage[ccmd[c]] = "admitted"
    /\ \A b, c \in Clients :
         cpc[b] = "admitted" /\ cpc[c] = "admitted" /\ ccmd[b] = ccmd[c] => b = c
    /\ \A c \in Clients : \A i \in 1..Len(callbacks[c]) :
         stage[callbacks[c][i]] = "queued"
    /\ \A b, c \in Clients :
         \A i \in 1..Len(callbacks[b]) : \A j \in 1..Len(callbacks[c]) :
             callbacks[b][i] = callbacks[c][j] => b = c /\ i = j

(* A command in a worker's hands is in no other worker's, and has come as far as
   the worker's place in Run says. *)
WorkerInv ==
    /\ \A w \in Workers :
         /\ wpc[w] = "executing" => stage[wcmd[w]] = "taken"
         /\ wpc[w] = "callback" => stage[wcmd[w]] = "executed"
         /\ wpc[w] = "disposing" => stage[wcmd[w]] \in {"executed", "replied"}
    /\ \A v, w \in Workers :
         wpc[v] \in Holding /\ wpc[w] \in Holding /\ wcmd[v] = wcmd[w] => v = w

(* A promise is set only after the worker is through with the command, and
   until then the caller waits. *)
BorrowInv ==
    /\ \A x \in ready : stage[x] \in {"executed", "replied"}
    /\ \A w \in Workers : wpc[w] \in Holding => wcmd[w] \notin ready
    /\ \A c \in Clients : \A i \in 1..Len(callbacks[c]) :
         callbacks[c][i] \in SyncCmd => cpc[c] = "waiting" /\ ccmd[c] = callbacks[c][i]
    /\ \A w \in Workers :
         wpc[w] \in Holding /\ wcmd[w] \in SyncCmd =>
             \E c \in Clients : cpc[c] = "waiting" /\ ccmd[c] = wcmd[w]

(* The log holds each executed command once. *)
LogInv ==
    /\ \A i \in 1..Len(log) : stage[log[i]] \in {"executed", "replied"}
    /\ \A i, j \in 1..Len(log) : log[i] = log[j] => i = j

(* A worker that can still be handed a command has executed none since _done. *)
LateInv ==
    /\ \A w \in Workers :
         /\ late[w] \in {0, 1}
         /\ ~done \/ wpc[w] \in {"waiting", "executing"} => late[w] = 0

(* _done is set while Finish runs and after; when it returns all have exited. *)
FinInv ==
    /\ done <=> fin # "no"
    /\ fin = "joined" => \A w \in Workers : wpc[w] = "exited"

ExecInv == QueueInv /\ WorkerInv /\ BorrowInv /\ LogInv /\ LateInv /\ FinInv

(* What each step of a worker leaves behind: a command off the queue is in some
   worker's hands until all that follows its execution has been done. *)
ProgressInv ==
    /\ \A w \in Workers :
         /\ wpc[w] = "callback" => wcmd[w] \in ReplyCmd
         /\ wpc[w] = "disposing" =>
              /\ wcmd[w] \in SyncCmd
              /\ wcmd[w] \in ReplyCmd => stage[wcmd[w]] = "replied"
    /\ \A x \in ready : x \in SyncCmd /\ (x \in ReplyCmd => stage[x] = "replied")
    /\ \A x \in Cmd :
         /\ stage[x] = "replied" => x \in ReplyCmd
         /\ stage[x] \in {"executed", "replied"} => \E i \in 1..Len(log) : log[i] = x
         /\ stage[x] = "taken" => \E w \in Workers : wpc[w] = "executing" /\ wcmd[w] = x
         /\ stage[x] = "executed" /\ x \in ReplyCmd =>
              \E w \in Workers : wpc[w] = "callback" /\ wcmd[w] = x
         /\ stage[x] \in {"executed", "replied"} /\ x \in SyncCmd =>
              \/ x \in ready
              \/ \E w \in Workers : wpc[w] \in {"callback", "disposing"} /\ wcmd[w] = x

(* How many of a client's commands have been taken off the queue. *)
Started(c) == Len(accepted[c]) - Len(callbacks[c])

(* A client's FIFO is what it has queued without what has been taken; only the
   last thing it queued can be a synchronous command that is not executed yet. *)
OrderInv ==
    /\ \A c \in Clients : \A i \in 1..Len(accepted[c]) :
         stage[accepted[c][i]] \in {"queued", "taken", "executed", "replied"}
    /\ \A b, c \in Clients :
         \A i \in 1..Len(accepted[b]) : \A j \in 1..Len(accepted[c]) :
             accepted[b][i] = accepted[c][j] => b = c /\ i = j
    /\ \A c \in Clients :
         /\ Len(callbacks[c]) <= Len(accepted[c])
         /\ \A i \in 1..Len(callbacks[c]) :
              callbacks[c][i] = accepted[c][Started(c) + i]
         /\ \A i \in 1..Started(c) : stage[accepted[c][i]] # "queued"
    /\ \A c \in Clients : \A i \in 1..Len(accepted[c]) :
         accepted[c][i] \in SyncCmd =>
             \/ stage[accepted[c][i]] \in {"executed", "replied"}
             \/ i = Len(accepted[c]) /\ cpc[c] = "waiting" /\ ccmd[c] = accepted[c][i]
=============================================================================
