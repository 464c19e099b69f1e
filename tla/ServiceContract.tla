--------------------------- MODULE ServiceContract ---------------------------
(***************************************************************************)
(* What the database service promises about one call, without queues,      *)
(* threads, sessions or promises.                                          *)
(*                                                                         *)
(* The service is open until its owner starts to shut it down.  A call     *)
(* made while it is open is admitted and then accepted (even if the        *)
(* shutdown overtakes it in between) unless memory runs out; a call made   *)
(* later is refused.  An accepted command may be executed once, but not    *)
(* after the shutdown has stopped the workers; an executed command that    *)
(* has somebody to answer may be answered once, but not after the service  *)
(* is closed.  Nothing is promised about an accepted command that the      *)
(* shutdown overtakes: it may stay where it is for ever.                   *)
(***************************************************************************)
CONSTANTS
    Cmd,        \* the calls
    Answerable  \* those with a waiting caller or a response callback

VARIABLES
    phase,      \* "open", "stopping", "stopped", "closed"
    status      \* the life of each call

contractVars == <<phase, status>>

ContractInit ==
    /\ phase = "open"
    /\ status = [x \in Cmd |-> "new"]

Advance(x, from, to) ==
    /\ status[x] = from
    /\ status' = [status EXCEPT ![x] = to]
    /\ UNCHANGED phase

AdmitCall(x)   == phase = "open" /\ Advance(x, "new", "admitted")
RefuseCall(x)  == phase # "open" /\ Advance(x, "new", "refused")
FailCall(x)    == Advance(x, "admitted", "refused")
AcceptCall(x)  == Advance(x, "admitted", "accepted")
ExecuteCall(x) == phase \in {"open", "stopping"} /\ Advance(x, "accepted", "executed")
AnswerCall(x)  == x \in Answerable /\ phase # "closed" /\ Advance(x, "executed", "answered")

Move(from, to) == phase = from /\ phase' = to /\ UNCHANGED status

Stop    == Move("open", "stopping")
Stopped == Move("stopping", "stopped")
Shut    == Move("stopped", "closed")

CallStep(x) ==
    \/ AdmitCall(x)
    \/ RefuseCall(x)
    \/ FailCall(x)
    \/ AcceptCall(x)
    \/ ExecuteCall(x)
    \/ AnswerCall(x)

ContractNext == (\E x \in Cmd : CallStep(x)) \/ Stop \/ Stopped \/ Shut

ContractSpec == ContractInit /\ [][ContractNext]_contractVars
=============================================================================
