--------------------------- MODULE DbSystem_proofs ---------------------------
(***************************************************************************)
(* Theorems about DbWorkers and DbSystem.                                  *)
(*                                                                         *)
(* The workers with their sessions: each part runs as it runs alone, so    *)
(* what is proved of the execution queue and of the sessions holds of the  *)
(* two together.  The whole system: it is the service, whatever the        *)
(* database does, and its workers are the workers with their sessions, so  *)
(* what is proved of either holds of it; whoever gets an answer gets it    *)
(* for a command the database has executed.                                *)
(***************************************************************************)
EXTENDS DbSystem, DbService_proofs

-----------------------------------------------------------------------------
(* The workers and their sessions (DbWorkers). *)

SessionFacts == INSTANCE DbSession_proofs

(* Every run of the whole is a run of the execution queue. *)
LEMMA StepRun == [WorkersNext]_workersVars => [ExecNext]_execVars
<1> SUFFICES ASSUME [WorkersNext]_workersVars PROVE ExecNext \/ UNCHANGED execVars
  OBVIOUS
<1>1. CASE CallerStep
  BY <1>1 DEF CallerStep, ExecNext
<1>2. ASSUME NEW w \in Workers, Worker(w)
      PROVE  ExecNext \/ UNCHANGED execVars
  BY <1>2 DEF Worker, RunStep, InStub, StubOpened, StubCalled, StubReturned, StubClosed,
              ExecNext, WorkerStep
<1>3. CASE Session!Environment /\ UNCHANGED execVars
  BY <1>3
<1>4. CASE UNCHANGED workersVars
  BY <1>4 DEF workersVars
<1> QED  BY <1>1, <1>2, <1>3, <1>4 DEF WorkersNext

(* Whatever happens inside the stub, the worker loop is the one the execution
   queue specifies (CPbStubExecQueue::Run). *)
THEOREM WorkersRunExecQueue == WorkersSpec => RunBehaves
<1>1. WorkersInit => ExecInit
  BY DEF WorkersInit
<1> QED  BY <1>1, StepRun, PTL DEF WorkersSpec, ExecSpec, RunBehaves

(* Every run of the whole is a run of the sessions. *)
LEMMA StepSessions ==
    ExecTypeOK /\ [WorkersNext]_workersVars => [Session!SessionNext]_(Session!sessionVars)
<1> SUFFICES ASSUME ExecTypeOK, [WorkersNext]_workersVars
             PROVE  Session!SessionNext \/ UNCHANGED sessionVars
  BY DEF Session!sessionVars, sessionVars
<1>1. CASE CallerStep
  BY <1>1 DEF CallerStep
<1>2. ASSUME NEW w \in Workers, Worker(w)
      PROVE  Session!SessionNext \/ UNCHANGED sessionVars
  <2>1. CASE RunStep(w)
    BY <2>1 DEF RunStep
  <2>2. CASE InStub(w)
    BY <2>2 DEF InStub, Session!SessionNext, Session!SessionStep
  <2>3. CASE StubOpened(w)
    BY <2>3 DEF StubOpened, Session!SessionNext, Session!SessionStep
  <2>4. CASE StubCalled(w)
    <3>1. wcmd[w] \in Cmd
      BY <2>4 DEF StubCalled, ExecTypeOK, Holding
    <3> QED  BY <2>4, <3>1 DEF StubCalled, Session!SessionNext, Session!SessionStep
  <2>5. CASE StubReturned(w)
    BY <2>5 DEF StubReturned, Session!SessionNext, Session!SessionStep
  <2>6. CASE StubClosed(w)
    BY <2>6 DEF StubClosed, Session!SessionNext, Session!SessionStep
  <2> QED  BY <1>2, <2>1, <2>2, <2>3, <2>4, <2>5, <2>6 DEF Worker
<1>3. CASE Session!Environment /\ UNCHANGED execVars
  BY <1>3 DEF Session!SessionNext
<1>4. CASE UNCHANGED workersVars
  BY <1>4 DEF workersVars
<1> QED  BY <1>1, <1>2, <1>3, <1>4 DEF WorkersNext

(* The sessions behave with the worker loop around them as they do alone. *)
THEOREM WorkersRunSessions == WorkersSpec => Session!SessionSpec
<1>1. WorkersInit => Session!SessionInit
  BY DEF WorkersInit
<1>2. WorkersSpec => []ExecTypeOK
  BY WorkersRunExecQueue, ExecTyping, PTL DEF RunBehaves
<1> QED  BY <1>1, <1>2, StepSessions, PTL DEF WorkersSpec, Session!SessionSpec

(* The theorems about sessions, for the sessions of the workers: SessionFacts
   renames what Session names. *)
LEMMA SameStep ==
    [Session!SessionNext]_(Session!sessionVars) =>
        [SessionFacts!SessionNext]_(SessionFacts!sessionVars)
  BY DEF Session!LockMutex, SessionFacts!LockMutex, Session!OpenFails,
         SessionFacts!OpenFails, Session!OpenAgain, SessionFacts!OpenAgain,
         Session!OpenSucceeds, SessionFacts!OpenSucceeds, Session!CloseSession,
         SessionFacts!CloseSession, Session!Begin, SessionFacts!Begin,
         Session!TakeConnection, SessionFacts!TakeConnection, Session!GiveUp,
         SessionFacts!GiveUp, Session!AttemptRefused,
         SessionFacts!AttemptRefused, Session!Prepare, SessionFacts!Prepare,
         Session!Send, SessionFacts!Send, Session!Answer, SessionFacts!Answer,
         Session!FetchRows, SessionFacts!FetchRows, Session!FetchEnds,
         SessionFacts!FetchEnds, Session!FetchThrows, SessionFacts!FetchThrows,
         Session!TryAgain, SessionFacts!TryAgain, Session!Return,
         SessionFacts!Return, Session!DbStops, SessionFacts!DbStops,
         Session!DbStarts, SessionFacts!DbStarts, Session!LinkBreaks,
         SessionFacts!LinkBreaks, Session!Environment, SessionFacts!Environment,
         Session!AttemptStep, SessionFacts!AttemptStep, Session!OpenStep,
         SessionFacts!OpenStep, Session!SessionStep, SessionFacts!SessionStep,
         Session!SessionNext, SessionFacts!SessionNext, Session!Move,
         SessionFacts!Move, Session!openVars, SessionFacts!openVars,
         Session!dbVars, SessionFacts!dbVars, Session!history,
         SessionFacts!history, Session!sessionVars, SessionFacts!sessionVars

LEMMA SessionsInvariant ==
    WorkersSpec => [](Session!SessionTypeOK /\ Session!SessionInv /\ Session!HeldInv)
<1>1. Session!SessionInit => SessionFacts!SessionInit
  BY DEF Session!SessionInit, SessionFacts!SessionInit
<1>2. Session!SessionSpec => SessionFacts!SessionSpec
  BY <1>1, SameStep, PTL DEF Session!SessionSpec, SessionFacts!SessionSpec
<1>3. SessionFacts!SessionSpec => []SessionFacts!SessionTypeOK
  BY SessionFacts!SessionTyping, CmdAssumption, WorkersAssumption
<1>4. SessionFacts!SessionSpec => []SessionFacts!SessionInv
  BY SessionFacts!SessionInvariance, CmdAssumption, WorkersAssumption
<1>5. SessionFacts!SessionTypeOK => Session!SessionTypeOK
  BY DEF Session!SessionTypeOK, SessionFacts!SessionTypeOK, Session!InCall,
         SessionFacts!InCall, Session!InAttempt, SessionFacts!InAttempt,
         Session!Opening, SessionFacts!Opening
<1>6. SessionFacts!SessionInv => Session!SessionInv
  BY DEF Session!SessionInv, SessionFacts!SessionInv, Session!CallInv,
         SessionFacts!CallInv, Session!EffectInv, SessionFacts!EffectInv,
         Session!StatementInv, SessionFacts!StatementInv, Session!InCall,
         SessionFacts!InCall, Session!InAttempt, SessionFacts!InAttempt
<1>7. SessionFacts!SessionSpec => []SessionFacts!HeldInv
  BY SessionFacts!RunningIsHeld, CmdAssumption, WorkersAssumption
<1>8. SessionFacts!HeldInv => Session!HeldInv
  BY DEF SessionFacts!HeldInv, Session!HeldInv
<1> QED  BY WorkersRunSessions, <1>2, <1>3, <1>4, <1>5, <1>6, <1>7, <1>8, PTL

-----------------------------------------------------------------------------
(* Steps that leave the program counters of every worker where they are. *)
LEMMA CoupledElsewhere ==
    ASSUME Coupled, UNCHANGED <<wpc, wcmd, spc, cur>>
    PROVE  Coupled'
  BY DEF Coupled

(* Inside the stub a session stays in the call, or in Open. *)
LEMMA InStubStays ==
    ASSUME Session!SessionTypeOK, NEW w \in Workers, InStub(w)
    PROVE  /\ UNCHANGED <<execVars, cur, outcome>>
           /\ \A v \in Workers : v # w => spc'[v] = spc[v]
           /\ \/ spc[w] \in Session!InCall /\ spc'[w] \in Session!InCall
              \/ /\ spc[w] \in Session!Opening \cup {"starting"}
                 /\ spc'[w] \in Session!Opening
<1>1. UNCHANGED <<execVars, cur, outcome>>
  BY DEF InStub, Session!OpenStep, Session!AttemptStep, Session!LockMutex,
         Session!OpenFails, Session!OpenAgain, Session!TakeConnection, Session!Prepare,
         Session!AttemptRefused, Session!Send, Session!Answer, Session!FetchRows,
         Session!FetchEnds, Session!FetchThrows, Session!TryAgain, Session!history
<1>2. \E p, q : /\ Session!Move(w, p, q)
               /\ \/ p \in Session!InCall /\ q \in Session!InCall
                  \/ p \in Session!Opening \cup {"starting"} /\ q \in Session!Opening
  <2>1. CASE Session!OpenStep(w)
    BY <2>1 DEF Session!OpenStep, Session!LockMutex, Session!OpenFails,
                Session!OpenAgain, Session!Opening
  <2>2. CASE Session!AttemptStep(w)
    BY <2>2 DEF Session!AttemptStep, Session!TakeConnection, Session!Prepare,
                Session!AttemptRefused, Session!GiveUp, Session!Send, Session!Answer,
                Session!FetchRows, Session!FetchEnds, Session!FetchThrows,
                Session!TryAgain, Session!InCall, Session!InAttempt
  <2> QED  BY <2>1, <2>2 DEF InStub
<1> QED  BY <1>1, <1>2 DEF Session!Move, Session!SessionTypeOK

(* A worker is in a call of its stub only while it executes that command. *)
LEMMA CoupledStep ==
    ASSUME ExecTypeOK, Session!SessionTypeOK, Coupled, [WorkersNext]_workersVars
    PROVE  Coupled'
<1> USE DEF Session!InCall, Session!InAttempt, Session!Opening
<1>1. CASE CallerStep
  <2>1. UNCHANGED <<wpc, wcmd, spc, cur>>
    BY <1>1 DEF CallerStep, sessionVars, ClientStep, Admit, Refuse, Enqueue, EnqueueFails,
                SyncReturn, FinishBegin, FinishEnd, workerVars
  <2> QED  BY <2>1, CoupledElsewhere
<1>2. ASSUME NEW w \in Workers, RunStep(w)
      PROVE  Coupled'
  BY <1>2 DEF RunStep, CheckDone, Dequeue, Timeout, Reply, Dispose, AfterSwitch,
              sessionVars, Coupled, ExecTypeOK
<1>3. ASSUME NEW w \in Workers, InStub(w)
      PROVE  Coupled'
  BY <1>3, InStubStays DEF Coupled, execVars
<1>4. ASSUME NEW w \in Workers, StubOpened(w)
      PROVE  Coupled'
  BY <1>4 DEF StubOpened, OpenStub, Session!OpenSucceeds, Session!Move, Coupled,
              ExecTypeOK, Session!SessionTypeOK
<1>5. ASSUME NEW w \in Workers, StubCalled(w)
      PROVE  Coupled'
  BY <1>5 DEF StubCalled, Session!Begin, Session!Move, Coupled, execVars,
              ExecTypeOK, Session!SessionTypeOK
<1>6. ASSUME NEW w \in Workers, StubReturned(w)
      PROVE  Coupled'
  BY <1>6 DEF StubReturned, Execute, AfterSwitch, Session!Return, Session!Move, Coupled,
              ExecTypeOK, Session!SessionTypeOK
<1>7. ASSUME NEW w \in Workers, StubClosed(w)
      PROVE  Coupled'
  BY <1>7 DEF StubClosed, CloseStub, Session!CloseSession, Session!Move, Coupled,
              ExecTypeOK, Session!SessionTypeOK
<1>8. CASE Session!Environment /\ UNCHANGED execVars
  BY <1>8, CoupledElsewhere
     DEF Session!Environment, Session!DbStops, Session!DbStarts, Session!LinkBreaks, execVars
<1>9. CASE UNCHANGED workersVars
  BY <1>9, CoupledElsewhere DEF workersVars, execVars, sessionVars
<1> QED
  BY <1>1, <1>2, <1>3, <1>4, <1>5, <1>6, <1>7, <1>8, <1>9 DEF WorkersNext, Worker

LEMMA CoupledInit == WorkersInit => Coupled
  BY DEF WorkersInit, ExecInit, Session!SessionInit, Coupled, Session!InCall,
         Session!InAttempt, Session!Opening

(* The types of the whole: both parts' and how they go together. *)
THEOREM WorkersTyping == WorkersSpec => []WorkersTypeOK
<1>1. WorkersSpec => []ExecTypeOK
  BY WorkersRunExecQueue, ExecTyping, PTL DEF RunBehaves
<1>2. WorkersSpec => []Coupled
  BY <1>1, SessionsInvariant, CoupledInit, CoupledStep, PTL DEF WorkersSpec
<1> QED  BY <1>1, <1>2, SessionsInvariant, PTL DEF WorkersTypeOK

-----------------------------------------------------------------------------
(* What a worker is through with, its stub has returned from. *)
LEMMA StageStep ==
    ASSUME ExecTypeOK, ExecInv, Session!SessionTypeOK, Session!SessionInv, Coupled,
           StageInv, [WorkersNext]_workersVars
    PROVE  StageInv'
<1> USE DEF StageInv
<1>1. CASE CallerStep
  <2>1. UNCHANGED outcome
    BY <1>1 DEF CallerStep, sessionVars
  <2>2. \A x \in Cmd : stage'[x] \in {"executed", "replied"} => stage'[x] = stage[x]
    BY <1>1 DEF CallerStep, ClientStep, Admit, Refuse, Enqueue, EnqueueFails, SyncReturn,
                FinishBegin, FinishEnd, ExecTypeOK
  <2> QED  BY <2>1, <2>2
<1>2. ASSUME NEW w \in Workers, RunStep(w)
      PROVE  StageInv'
  <2>1. UNCHANGED outcome
    BY <1>2 DEF RunStep, sessionVars
  <2>2. \A x \in Cmd : stage'[x] \in {"executed", "replied"} =>
                        stage[x] \in {"executed", "replied"}
    BY <1>2 DEF RunStep, CheckDone, Dequeue, Timeout, Reply, Dispose, ExecTypeOK, Holding,
                ExecInv, WorkerInv
  <2> QED  BY <2>1, <2>2
<1>3. ASSUME NEW w \in Workers, InStub(w)
      PROVE  StageInv'
  BY <1>3, InStubStays DEF execVars
<1>4. ASSUME NEW w \in Workers, StubOpened(w) \/ StubClosed(w)
      PROVE  StageInv'
  BY <1>4 DEF StubOpened, OpenStub, Session!OpenSucceeds, StubClosed, CloseStub,
              Session!CloseSession, Session!history
<1>5. ASSUME NEW w \in Workers, StubCalled(w)
      PROVE  StageInv'
  BY <1>5 DEF StubCalled, Session!Begin, execVars, Session!SessionTypeOK
<1>6. ASSUME NEW w \in Workers, StubReturned(w)
      PROVE  StageInv'
  <2>1. cur[w] = wcmd[w] /\ wcmd[w] \in Cmd
    BY <1>6 DEF StubReturned, Execute, Session!Return, Session!Move, Coupled, ExecTypeOK,
                Holding, Session!InCall, Session!InAttempt
  <2>2. stage' = [stage EXCEPT ![wcmd[w]] = "executed"]
    BY <1>6 DEF StubReturned, Execute
  <2>3. outcome' = [outcome EXCEPT ![wcmd[w]] =
                      IF wcmd[w] \in Malformed THEN "skipped" ELSE "done"]
    BY <1>6, <2>1 DEF StubReturned, Session!Return
  <2> QED  BY <2>1, <2>2, <2>3 DEF ExecTypeOK, Session!SessionTypeOK
<1>7. CASE Session!Environment /\ UNCHANGED execVars
  BY <1>7 DEF Session!Environment, Session!DbStops, Session!DbStarts, Session!LinkBreaks,
              Session!history, execVars
<1>8. CASE UNCHANGED workersVars
  BY <1>8 DEF workersVars, execVars, sessionVars
<1> QED
  BY <1>1, <1>2, <1>3, <1>4, <1>5, <1>6, <1>7, <1>8 DEF WorkersNext, Worker

LEMMA StageInit == WorkersInit => StageInv
  BY DEF WorkersInit, ExecInit, Session!SessionInit, StageInv

LEMMA StageInvariance == WorkersSpec => [](ExecTypeOK /\ ExecInv /\ StageInv)
<1>1. WorkersSpec => [](ExecTypeOK /\ ExecInv)
  BY WorkersRunExecQueue, ExecTyping, ExecInvariance, PTL DEF RunBehaves
<1>2. WorkersSpec => []Coupled
  BY WorkersTyping, PTL DEF WorkersTypeOK
<1> QED  BY <1>1, <1>2, SessionsInvariant, StageInit, StageStep, PTL DEF WorkersSpec

(* When a synchronous call can return, the database has executed its command and
   answered (CPbStubExecQueue::Run sets the promise after the stub returned). *)
THEOREM ReadyMeansApplied == WorkersSpec => []ReadyIsApplied
<1>1. ExecTypeOK /\ ExecInv /\ StageInv /\ Session!SessionInv => ReadyIsApplied
  BY DEF ExecTypeOK, ExecInv, BorrowInv, StageInv, Session!SessionInv, Session!EffectInv,
         ReadyIsApplied
<1> QED  BY <1>1, StageInvariance, SessionsInvariant, PTL

(* Once Finish has returned no worker is left that could reach the database. *)
THEOREM DatabaseQuiet == WorkersSpec => DatabaseQuietAfterFinish
<1>1. ExecInv /\ Coupled /\ Session!SessionTypeOK /\ [WorkersNext]_workersVars
        => [fin = "joined" => UNCHANGED <<applied, holder, opened>>]_workersVars
  <2> SUFFICES ASSUME ExecInv, Coupled, Session!SessionTypeOK, WorkersNext, fin = "joined"
               PROVE  UNCHANGED <<applied, holder, opened>>
    OBVIOUS
  <2>1. \A w \in Workers : wpc[w] = "exited" /\ spc[w] = "closed"
    BY DEF ExecInv, FinInv, Coupled
  <2>2. CASE CallerStep
    BY <2>2 DEF CallerStep, sessionVars
  <2>3. ASSUME NEW w \in Workers, Worker(w)
        PROVE  UNCHANGED <<applied, holder, opened>>
    BY <2>1, <2>3 DEF Worker, RunStep, InStub, StubOpened, StubCalled, StubReturned,
         StubClosed, CheckDone, Dequeue, Timeout, Reply, Dispose, OpenStub, Execute, CloseStub,
         Session!OpenStep, Session!AttemptStep, Session!LockMutex, Session!OpenFails,
         Session!OpenAgain, Session!TakeConnection, Session!Prepare,
         Session!AttemptRefused, Session!GiveUp, Session!Send, Session!Answer,
         Session!FetchRows, Session!FetchEnds, Session!FetchThrows, Session!TryAgain,
         Session!Move
  <2>4. CASE Session!Environment
    BY <2>4 DEF Session!Environment, Session!DbStops, Session!DbStarts,
                Session!LinkBreaks, Session!openVars, Session!history
  <2> QED  BY <2>2, <2>3, <2>4 DEF WorkersNext
<1>2. WorkersSpec => []Coupled
  BY WorkersTyping, PTL DEF WorkersTypeOK
<1> QED
  BY <1>1, <1>2, StageInvariance, SessionsInvariant, PTL
     DEF WorkersSpec, DatabaseQuietAfterFinish

(* When Finish returns no command is in doubt: every worker has exited, so no call
   is running, and what has been called has been answered. *)
THEOREM WorkersLeaveNoDoubt == WorkersSpec => []NothingInDoubt
<1>1. ExecInv /\ Coupled /\ Session!SessionTypeOK /\ Session!SessionInv
        /\ Session!HeldInv /\ StageInv => NothingInDoubt
  <2> SUFFICES ASSUME ExecInv, Coupled, Session!SessionTypeOK, Session!SessionInv,
                      Session!HeldInv, StageInv, fin = "joined", NEW x \in Cmd
               PROVE  applied[x] = 0 \/ applied[x] = lost[x] + 1
    BY DEF NothingInDoubt
  <2>1. \A w \in Workers : spc[w] = "closed"
    BY DEF ExecInv, FinInv, Coupled
  <2>2. \A w \in Workers : cur[w] = None
    BY <2>1 DEF Session!SessionTypeOK, Session!InCall, Session!InAttempt
  <2>3. outcome[x] # "running"
    BY <2>2, CmdAssumption DEF Session!HeldInv
  <2>4. outcome[x] = "skipped" => applied[x] = 0
    BY DEF StageInv, Session!SessionInv, Session!EffectInv
  <2>5. outcome[x] \in {"new", "done", "skipped"}
    BY <2>3 DEF Session!SessionTypeOK
  <2> QED
    BY <2>4, <2>5 DEF Session!SessionInv, Session!EffectInv
<1>2. WorkersSpec => []Coupled
  BY WorkersTyping, PTL DEF WorkersTypeOK
<1> QED
  BY <1>1, <1>2, StageInvariance, SessionsInvariant, PTL

-----------------------------------------------------------------------------
(* The whole system. *)

(* Every step of the system is a step of the service, or none of its business. *)
LEMMA StepService == [SystemNext]_systemVars => [Next]_vars
<1> SUFFICES ASSUME [SystemNext]_systemVars PROVE Next \/ UNCHANGED vars
  OBVIOUS
<1>1. CASE AppStep
  BY <1>1 DEF AppStep, Next
<1>2. ASSUME NEW w \in Workers, OwnStep(w)
      PROVE  Next \/ UNCHANGED vars
  <2>1. Worker(w) /\ UNCHANGED trunkVars /\ (wpc[w] = "callback" => wcmd[w] \in SyncCmd)
    BY <1>2 DEF OwnStep
  <2>2. CASE RunStep(w)
    <3>1. WorkerAlone(w)
      BY <2>1, <2>2 DEF RunStep, WorkerAlone, Reply
    <3> QED
      BY <3>1 DEF Next
  <2>3. CASE InStub(w) \/ StubCalled(w)
    BY <2>1, <2>3 DEF InStub, StubCalled, vars
  <2>4. CASE StubOpened(w) \/ StubReturned(w) \/ StubClosed(w)
    <3>1. WorkerAlone(w)
      BY <2>1, <2>4 DEF StubOpened, StubReturned, StubClosed, WorkerAlone
    <3> QED
      BY <3>1 DEF Next
  <2> QED
    BY <2>1, <2>2, <2>3, <2>4 DEF Worker
<1>3. ASSUME NEW w \in Workers, ResponseStep(w)
      PROVE  Next
  BY <1>3 DEF ResponseStep, Next
<1>4. CASE EnvironmentStep
  BY <1>4 DEF EnvironmentStep, vars
<1>5. CASE UNCHANGED systemVars
  BY <1>5 DEF systemVars, vars
<1> QED
  BY <1>1, <1>2, <1>3, <1>4, <1>5 DEF SystemNext, ThreadStep

(* Whatever the database and the network do, the service is the one DbService
   specifies: every theorem about the service is one about the system. *)
THEOREM SystemRunsService == SystemSpec => ServiceBehaves
<1>1. SystemInit => Init
  BY DEF SystemInit
<1> QED
  BY <1>1, StepService, PTL DEF SystemSpec, Spec, ServiceBehaves

(* Every step of the system is one of the workers and their sessions, or is none
   of their business. *)
LEMMA StepWorkers == [SystemNext]_systemVars => [WorkersNext]_workersVars
<1> SUFFICES ASSUME [SystemNext]_systemVars PROVE WorkersNext \/ UNCHANGED workersVars
  OBVIOUS
<1>1. CASE AppStep
  <2>1. ~aborted /\ UNCHANGED sessionVars
    BY <1>1 DEF AppStep
  <2>2. ASSUME NEW c \in Clients, NEW x \in Cmd, Call(c, x)
        PROVE  CallerStep
    BY <2>1, <2>2 DEF Call, CallerStep, ClientStep
  <2>3. ASSUME NEW c \in Clients, CallStep(c)
        PROVE  CallerStep
    BY <2>1, <2>3 DEF CallStep, CallerStep, ClientStep
  <2>4. CASE ShutdownBegin \/ ShutdownJoined
    <3>1. FinishBegin \/ FinishEnd
      BY <2>4 DEF ShutdownBegin, ShutdownJoined
    <3>2. CallerStep
      BY <2>1, <3>1, Zenon DEF CallerStep
    <3> QED
      BY <3>2 DEF WorkersNext
  <2>5. CASE MainRunOnce \/ ShutdownEnd
    BY <2>1, <2>5 DEF MainRunOnce, ShutdownEnd, workersVars
  <2> QED
    BY <1>1, <2>2, <2>3, <2>4, <2>5, Zenon DEF AppStep, WorkersNext
<1>2. ASSUME NEW w \in Workers, OwnStep(w)
      PROVE  WorkersNext
  BY <1>2 DEF OwnStep, WorkersNext
<1>3. ASSUME NEW w \in Workers, ResponseStep(w)
      PROVE  WorkersNext \/ UNCHANGED workersVars
  <2>1. ~aborted /\ UNCHANGED sessionVars /\ (Reply(w) \/ UNCHANGED execVars)
    BY <1>3 DEF ResponseStep, Respond
  <2>2. CASE Reply(w)
    BY <2>1, <2>2 DEF RunStep, Worker, WorkersNext
  <2> QED
    BY <2>1, <2>2 DEF workersVars
<1>4. CASE EnvironmentStep
  BY <1>4 DEF EnvironmentStep, WorkersNext
<1>5. CASE UNCHANGED systemVars
  BY <1>5 DEF systemVars, workersVars
<1> QED
  BY <1>1, <1>2, <1>3, <1>4, <1>5 DEF SystemNext, ThreadStep

(* The workers and their sessions run in the system as they run without the trunk
   queue and the owner. *)
THEOREM SystemRunsWorkers == SystemSpec => WorkersSpec
<1>1. SystemInit => WorkersInit
  BY DEF SystemInit, Init, WorkersInit
<1> QED
  BY <1>1, StepWorkers, PTL DEF SystemSpec, WorkersSpec

LEMMA SystemServiceInvariant == SystemSpec => []ServiceInv
  BY SystemRunsService, ServiceInvariant, PTL DEF ServiceBehaves

LEMMA SystemWorkersInvariant == SystemSpec => [](StageInv /\ Session!SessionInv)
  BY SystemRunsWorkers, StageInvariance, SessionsInvariant, PTL

(* Who gets an answer, a synchronous caller or a callback, gets it for a command
   the database has executed, once more than replies were lost. *)
THEOREM AnswersAreTrue == SystemSpec => []AnsweredIsApplied
<1>1. ServiceInv /\ StageInv /\ Session!SessionInv => AnsweredIsApplied
  <2> SUFFICES ASSUME ServiceInv, StageInv, Session!SessionInv,
                      NEW x \in Answered \ Malformed
               PROVE  applied[x] = lost[x] + 1
    BY DEF AnsweredIsApplied
  <2>1. x \in ready \/ x \in Handed
    BY DEF Answered, Handed
  <2>2. x \in Cmd /\ stage[x] \in {"executed", "replied"}
    BY <2>1, AnsweredFacts DEF AnsweredInv, ServiceInv, ExecTypeOK, ExecInv, BorrowInv
  <2>3. outcome[x] = "done"
    BY <2>2 DEF StageInv
  <2> QED
    BY <2>2, <2>3 DEF Session!SessionInv, Session!EffectInv
<1> QED
  BY <1>1, SystemServiceInvariant, SystemWorkersInvariant, PTL

(* When Shutdown closes the trunk queue, after Finish, the database has answered
   whatever it has executed (DbService.cpp: Finish, then Close). *)
THEOREM NothingLeftInDoubt == SystemSpec => []NothingInDoubt
  BY SystemRunsWorkers, WorkersLeaveNoDoubt, PTL

(* After Shutdown nothing of the service reaches the database or the application. *)
THEOREM SystemQuiet == SystemSpec => SystemQuietAfterShutdown
<1>1. SystemSpec => DatabaseQuietAfterFinish
  BY SystemRunsWorkers, DatabaseQuiet, PTL
<1>2. SystemSpec => SilentAfterShutdown
  BY SystemRunsService, ShutdownIsFinal, PTL DEF ServiceBehaves
<1>3. ServiceInv /\ [fin = "joined" => UNCHANGED <<applied, holder, opened>>]_workersVars
        /\ [close => UNCHANGED <<log, ready, delivered>>]_vars
        => [close => UNCHANGED <<applied, opened, ready, delivered>>]_systemVars
  BY DEF ServiceInv, ClosedLast, vars, workersVars, execVars, trunkVars, sessionVars
<1> QED
  BY <1>1, <1>2, <1>3, SystemServiceInvariant, PTL
     DEF DatabaseQuietAfterFinish, SilentAfterShutdown, SystemQuietAfterShutdown
=============================================================================
