------------------------------ MODULE DbSystem ------------------------------
(***************************************************************************)
(* The whole system: the service (DbService) whose workers have database   *)
(* sessions (DbWorkers).                                                   *)
(*                                                                         *)
(* The service knows of the database only what the stub's operations       *)
(* return; the sessions know of the service only which operation is        *)
(* called.  A step of a worker that both know, opening, executing, closing,*)
(* is a step of both.  Once an exception no handler catches has ended the  *)
(* process nothing of the service moves.                                   *)
(***************************************************************************)
EXTENDS DbService, DbWorkers

systemVars == <<execVars, trunkVars, sessionVars>>

SystemInit == Init /\ Session!SessionInit

(* The application's threads, and the owner in RunOnce and in Shutdown. *)
AppStep ==
    /\ ~aborted
    /\ \/ \E c \in Clients : (\E x \in Cmd : Call(c, x)) \/ CallStep(c)
       \/ MainRunOnce
       \/ ShutdownBegin
       \/ ShutdownJoined
       \/ ShutdownEnd
    /\ UNCHANGED sessionVars

(* A worker in Run or in its stub, the response to an asynchronous command apart. *)
OwnStep(w) ==
    /\ Worker(w)
    /\ wpc[w] = "callback" => wcmd[w] \in SyncCmd
    /\ UNCHANGED trunkVars

(* The response to an asynchronous command goes to the trunk queue. *)
ResponseStep(w) ==
    /\ ~aborted
    /\ Respond(w)
    /\ UNCHANGED sessionVars

ThreadStep(w) == OwnStep(w) \/ ResponseStep(w)

EnvironmentStep ==
    /\ Session!Environment
    /\ UNCHANGED <<execVars, trunkVars>>

SystemNext ==
    \/ AppStep
    \/ \E w \in Workers : ThreadStep(w)
    \/ EnvironmentStep

SystemSpec == SystemInit /\ [][SystemNext]_systemVars

(* Every thread is scheduled, a result set has an end, the owner keeps pumping
   and goes on with a Shutdown it has begun.  Of the database nothing is asked. *)
SystemFairSpec ==
    /\ SystemSpec
    /\ \A w \in Workers :
         /\ WF_systemVars(ThreadStep(w))
         /\ WF_systemVars(Session!FetchEnds(w) /\ UNCHANGED <<execVars, trunkVars>>)
    /\ \A c \in Clients :
         WF_systemVars(~aborted /\ CallStep(c) /\ UNCHANGED sessionVars)
    /\ WF_systemVars(~aborted /\ MainRunOnce /\ UNCHANGED sessionVars)
    /\ WF_systemVars(~aborted /\ (ShutdownJoined \/ ShutdownEnd) /\ UNCHANGED sessionVars)

-----------------------------------------------------------------------------
(* Properties. *)

(* The service is the one DbService specifies, whatever the database and the
   network do to the calls of the stub (CPbStubExecQueue.cpp 515-630 knows no
   failure): a failure shows as delay, or as the end of the process. *)
ServiceBehaves == Spec

(* Who gets an answer gets it for a command the database has executed, and
   executed once more than replies were lost.  The one exception is a request the
   prototype cache could not parse, whose caller is told the same. *)
AnsweredIsApplied ==
    \A x \in Answered \ Malformed : applied[x] = lost[x] + 1


(* Shutdown, called at any moment, also from a callback, comes to its end once the
   database is up for good, unless a worker has a command the database refuses:
   that worker never leaves its retry loop (ProtobufDbStub.cpp 236), and Finish
   waits for it. *)
ShutdownReturnsOnceUp ==
    <>[]dbUp => (done ~> (close \/ aborted \/ \E w \in Workers : Stuck(w)))

(* After Shutdown the database hears nothing more, and neither does the
   application. *)
SystemQuietAfterShutdown ==
    [][close => UNCHANGED <<applied, opened, ready, delivered>>]_systemVars
=============================================================================
