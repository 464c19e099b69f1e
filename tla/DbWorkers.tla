------------------------------ MODULE DbWorkers ------------------------------
(***************************************************************************)
(* The execution queue's workers with their database sessions.             *)
(*                                                                         *)
(* CPbStubExecQueue::Run calls CProtobufDbStub: its Open before the loop,  *)
(* one operation per command, its Close after the loop.  What is a single  *)
(* step in PbStubExecQueue, Execute, is here the last of the steps of such *)
(* a call, which may take long or never come while the database is away.   *)
(* An exception no handler catches ends every thread.                      *)
(***************************************************************************)
EXTENDS PbStubExecQueue

CONSTANTS LoadCmd, Malformed, Refused, MaxFaults    \* as in DbSession

ASSUME WorkersAssumption ==
    /\ LoadCmd \subseteq Cmd
    /\ Malformed \subseteq Cmd
    /\ Refused \subseteq Cmd
    /\ MaxFaults \in Nat
    /\ None \notin Workers

VARIABLES holder, opened, spc, cur, link, taken, rows, aborted, dbUp, faults,
          outcome, applied, lost

Session == INSTANCE DbSession

sessionVars == <<holder, opened, spc, cur, link, taken, rows, aborted, dbUp,
                 faults, outcome, applied, lost>>
workersVars == <<execVars, sessionVars>>

WorkersInit == ExecInit /\ Session!SessionInit

-----------------------------------------------------------------------------
(* The application's threads, Finish included. *)
CallerStep ==
    /\ ~aborted
    /\ (\E c \in Clients : ClientStep(c)) \/ FinishBegin \/ FinishEnd
    /\ UNCHANGED sessionVars

(* Steps of Run between two calls of the stub. *)
RunStep(w) ==
    /\ ~aborted
    /\ CheckDone(w) \/ Dequeue(w) \/ Timeout(w) \/ Reply(w) \/ Dispose(w)
    /\ UNCHANGED sessionVars

(* Faulty variant of InStub: the retry loop ends once _done is set. *)
InStub_StopsWhenDone(w) ==
    /\ \/ Session!OpenStep(w) \/ Session!AttemptStep(w)
       \/ /\ done
          /\ Session!Move(w, "pausing", "returning")
          /\ UNCHANGED <<holder, opened, cur, link, taken, rows, aborted, dbUp,
                         faults, outcome, applied, lost>>
    /\ UNCHANGED execVars

(* Steps inside a call of the stub. *)
InStub(w) ==
    /\ Session!OpenStep(w) \/ Session!AttemptStep(w)
    /\ UNCHANGED execVars

(* stub->Open returns. *)
StubOpened(w) == OpenStub(w) /\ Session!OpenSucceeds(w)

(* stub->EntityLoadString(...) and its like are called, and return. *)
StubCalled(w) ==
    /\ wpc[w] = "executing"
    /\ Session!Begin(w, wcmd[w])
    /\ UNCHANGED execVars

(* Faulty variant of StubReturned: a worker that finds _done set drops what it has
   just read, and goes to the test of _done. *)
StubReturned_DropsWhenDone(w) ==
    /\ Session!Return(w)
    /\ IF done
         THEN /\ wpc' = [wpc EXCEPT ![w] = "check"]
              /\ UNCHANGED <<done, callbacks, wcmd, ready, fin, stage, clientVars, log, late>>
         ELSE Execute(w)

StubReturned(w) == Execute(w) /\ Session!Return(w)

(* stub->Close() *)
StubClosed(w) == CloseStub(w) /\ Session!CloseSession(w)

Worker(w) ==
    RunStep(w) \/ InStub(w) \/ StubOpened(w) \/ StubCalled(w) \/ StubReturned(w) \/ StubClosed(w)

WorkersNext ==
    \/ CallerStep
    \/ \E w \in Workers : Worker(w)
    \/ Session!Environment /\ UNCHANGED execVars

WorkersSpec == WorkersInit /\ [][WorkersNext]_workersVars

-----------------------------------------------------------------------------
(* Properties. *)

(* How a worker's two program counters go together: it is in a call of its stub
   only while it executes that command. *)
Coupled ==
    \A w \in Workers :
        /\ spc[w] \in Session!InCall => wpc[w] = "executing" /\ cur[w] = wcmd[w]
        /\ wpc[w] = "opening" <=> spc[w] \in Session!Opening \cup {"starting"}
        /\ wpc[w] = "exited" <=> spc[w] = "closed"

(* The types of both parts, which go together. *)
WorkersTypeOK ==
    /\ ExecTypeOK
    /\ Session!SessionTypeOK
    /\ Coupled

(* Run is still the worker loop the execution queue specifies, whatever happens
   inside the stub. *)
RunBehaves == ExecSpec

(* What a worker is through with, its stub is through with. *)
StageInv ==
    \A x \in Cmd :
        /\ stage[x] \in {"executed", "replied"} => outcome[x] \in {"done", "skipped"}
        /\ outcome[x] = "skipped" => x \in Malformed

(* When a synchronous call can return, its command has been executed by the
   database and answered, once more than replies were lost, unless its request
   could not be parsed. *)
ReadyIsApplied ==
    \A x \in ready \ Malformed : applied[x] = lost[x] + 1

(* Once Finish has returned the database hears nothing more of the service. *)
DatabaseQuietAfterFinish ==
    [][fin = "joined" => UNCHANGED <<applied, holder, opened>>]_workersVars

(* When Finish returns no command is in doubt: one the database may have executed
   has been answered, for the retry loops (ProtobufDbStub.cpp 179-280) do not look
   at _done, and a worker whose reply was lost exits only after the next one. *)
NothingInDoubt ==
    fin = "joined" => \A x \in Cmd : applied[x] = 0 \/ applied[x] = lost[x] + 1

(* The worker retries, and will for ever, a command the database refuses. *)
Stuck(w) == wpc[w] = "executing" /\ wcmd[w] \in Refused \ Malformed

AllStuck == \A w \in Workers : Stuck(w)

(* If the database is up for good from some time on, a synchronous call of a
   command it does not refuse returns, unless the service is finished meanwhile or
   refused commands hold every worker: as many of them as there are workers. *)
SyncReturnsOnceUp ==
    <>[]dbUp =>
        \A c \in Clients :
            (cpc[c] = "waiting" /\ ccmd[c] \notin Refused) ~>
                (cpc[c] = "idle" \/ done \/ aborted \/ AllStuck)
=============================================================================
