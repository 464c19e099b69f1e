------------------------------ MODULE DbSession ------------------------------
(***************************************************************************)
(* The database session of each worker: CProtobufDbStub's retry loops over *)
(* Protobuf2DbEngine, over ZdbDriver's pool of one connection.             *)
(*                                                                         *)
(*   - Open holds a mutex shared by all sessions and tries, every 15 s,    *)
(*     until the pool has connected.                                       *)
(*   - A request that does not parse is dropped.  Any other is tried,      *)
(*     every 6 s, until an attempt succeeds: nothing ends the loop while   *)
(*     the session is open, and only its own worker closes it.             *)
(*   - An attempt is one ZdbStatement: its constructor takes the           *)
(*     connection out of the pool, its destructor gives it back on every   *)
(*     way out.  It prepares, executes, and reads the result of a load     *)
(*     from a cursor on the server.                                        *)
(*   - A connection is not checked before use: the client library          *)
(*     reconnects a dead one, at the latest at the second prepare.         *)
(*                                                                         *)
(* The network and the database may fail at any moment, so that a request  *)
(* is not executed or its reply is lost.                                   *)
(***************************************************************************)
EXTENDS Naturals

CONSTANTS
    Workers,    \* each has one session
    Cmd,        \* the commands, each given to some session once
    LoadCmd,    \* those whose rows are fetched from a server-side cursor
    Malformed,  \* those the prototype cache does not know or cannot parse
    Refused,    \* those the database answers with an error, always
    MaxFaults,  \* bound on the failures of the database and the network
    None

ASSUME SessionAssumption ==
    /\ LoadCmd \subseteq Cmd
    /\ Malformed \subseteq Cmd
    /\ Refused \subseteq Cmd
    /\ MaxFaults \in Nat
    /\ None \notin Cmd \cup Workers

VARIABLES
    holder,     \* the worker that holds Protobuf2DbEngine::s_mutex, or None
    opened,     \* Protobuf2DbEngine::_opened
    spc,        \* where each worker is in its session
    cur,        \* the command its session executes
    link,       \* its connection: "none", "good", "stale" (the client has not
                \* noticed that it is dead), "dropped" (it has)
    taken,      \* a statement has taken the connection out of the pool
    rows,       \* vResult holds rows
    aborted,    \* an exception no handler catches has ended the process
    dbUp,       \* the database accepts connections
    faults,     \* failures so far
    outcome,    \* history: "new", "running", "done", "skipped"
    applied,    \* history: how often the database has executed a command
    lost        \* history: how often the reply to an execution was lost

sessionVars == <<holder, opened, spc, cur, link, taken, rows, aborted, dbUp,
                 faults, outcome, applied, lost>>

dbVars == <<dbUp, faults>>
openVars == <<holder, opened>>
history == <<outcome, applied, lost>>

SessionInit ==
    /\ holder = None
    /\ opened = [w \in Workers |-> FALSE]
    /\ spc = [w \in Workers |-> "starting"]
    /\ cur = [w \in Workers |-> None]
    /\ link = [w \in Workers |-> "none"]
    /\ taken = [w \in Workers |-> FALSE]
    /\ rows = [w \in Workers |-> FALSE]
    /\ aborted = FALSE
    /\ dbUp \in BOOLEAN
    /\ faults = 0
    /\ outcome = [x \in Cmd |-> "new"]
    /\ applied = [x \in Cmd |-> 0]
    /\ lost = [x \in Cmd |-> 0]

(* Worker w, in a process that has not been aborted, moves from p to q. *)
Move(w, p, q) ==
    /\ ~aborted
    /\ spc[w] = p
    /\ spc' = [spc EXCEPT ![w] = q]

-----------------------------------------------------------------------------
(* Opening and closing a session. *)

(* Open takes s_mutex. *)
LockMutex(w) ==
    /\ Move(w, "starting", "connecting")
    /\ holder = None
    /\ holder' = w
    /\ UNCHANGED <<opened, cur, link, taken, rows, aborted, dbVars, history>>

(* The pool could not connect: Open sleeps 15 s, with the mutex held. *)
OpenFails(w) ==
    /\ Move(w, "connecting", "sleeping")
    /\ ~dbUp
    /\ UNCHANGED <<openVars, cur, link, taken, rows, aborted, dbVars, history>>

OpenAgain(w) ==
    /\ Move(w, "sleeping", "connecting")
    /\ UNCHANGED <<openVars, cur, link, taken, rows, aborted, dbVars, history>>

(* Faulty variants of OpenSucceeds: the mutex stays locked; _opened is not set. *)
OpenSucceeds_KeepsMutex(w) ==
    /\ Move(w, "connecting", "idle")
    /\ dbUp
    /\ link' = [link EXCEPT ![w] = "good"]
    /\ opened' = [opened EXCEPT ![w] = TRUE]
    /\ UNCHANGED <<holder, cur, taken, rows, aborted, dbVars, history>>

OpenSucceeds_NotOpened(w) ==
    /\ Move(w, "connecting", "idle")
    /\ dbUp
    /\ link' = [link EXCEPT ![w] = "good"]
    /\ holder' = None
    /\ UNCHANGED <<opened, cur, taken, rows, aborted, dbVars, history>>

(* The pool has its one connection; Open returns and releases the mutex. *)
OpenSucceeds(w) ==
    /\ Move(w, "connecting", "idle")
    /\ dbUp
    /\ link' = [link EXCEPT ![w] = "good"]
    /\ opened' = [opened EXCEPT ![w] = TRUE]
    /\ holder' = None
    /\ UNCHANGED <<cur, taken, rows, aborted, dbVars, history>>

(* Close drains the pool, whether or not the connection is taken. *)
CloseSession(w) ==
    /\ Move(w, "idle", "closed")
    /\ link' = [link EXCEPT ![w] = "none"]
    /\ opened' = [opened EXCEPT ![w] = FALSE]
    /\ UNCHANGED <<holder, cur, taken, rows, aborted, dbVars, history>>

-----------------------------------------------------------------------------
(* Executing a command. *)

(* One of the stub's operations is called; a request it cannot parse is not
   executed at all. *)
Begin(w, x) ==
    /\ Move(w, "idle", IF x \in Malformed THEN "returning" ELSE "trying")
    /\ outcome[x] = "new"
    /\ cur' = [cur EXCEPT ![w] = x]
    /\ outcome' = [outcome EXCEPT ![x] = "running"]
    /\ UNCHANGED <<openVars, link, taken, rows, aborted, dbVars, applied, lost>>

(* while (IsOpened() && !attempt): the attempt's statement waits until the pool
   has a free connection and takes it. *)
TakeConnection(w) ==
    /\ Move(w, "trying", IF opened[w] THEN "preparing" ELSE "returning")
    /\ opened[w] => ~taken[w]
    /\ taken' = [taken EXCEPT ![w] = opened[w]]
    /\ UNCHANGED <<openVars, cur, link, rows, aborted, dbVars, history>>

(* Faulty variants of GiveUp: the connection stays taken; there is no second
   attempt. *)
GiveUp_KeepsConnection(w, p) ==
    /\ Move(w, p, "pausing")
    /\ UNCHANGED taken

GiveUp_NoRetry(w, p) ==
    /\ Move(w, p, "returning")
    /\ taken' = [taken EXCEPT ![w] = FALSE]

(* The attempt returns false, and the loop sleeps 6 s. *)
GiveUp(w, p) ==
    /\ Move(w, p, "pausing")
    /\ taken' = [taken EXCEPT ![w] = FALSE]

(* The database, or the client library for it, says no. *)
AttemptRefused(w, p) ==
    /\ cur[w] \in Refused
    /\ link[w] = "good"
    /\ GiveUp(w, p)
    /\ UNCHANGED <<openVars, cur, link, rows, aborted, dbVars, history>>

(* Faulty variant of Prepare: a dropped connection is not connected again. *)
Prepare_NoReconnect(w) ==
    \/ AttemptRefused(w, "preparing")
    \/ /\ link[w] = "good"
       /\ Move(w, "preparing", "executing")
       /\ UNCHANGED <<openVars, cur, link, taken, rows, aborted, dbVars, history>>
    \/ /\ link[w] # "good"
       /\ GiveUp(w, "preparing")
       /\ link' = [link EXCEPT ![w] = "dropped"]
       /\ UNCHANGED <<openVars, cur, rows, aborted, dbVars, history>>

(* The statement is prepared: the parameters are bound and Exec follows.  Over a
   dead connection the client reconnects if it can; if it notices too late, or
   the database is down, the attempt fails. *)
Prepare(w) ==
    \/ AttemptRefused(w, "preparing")
    \/ /\ link[w] = "good" \/ dbUp
       /\ Move(w, "preparing", "executing")
       /\ link' = [link EXCEPT ![w] = "good"]
       /\ UNCHANGED <<openVars, cur, taken, rows, aborted, dbVars, history>>
    \/ /\ link[w] = "stale" \/ (link[w] = "dropped" /\ ~dbUp)
       /\ GiveUp(w, "preparing")
       /\ link' = [link EXCEPT ![w] = "dropped"]
       /\ UNCHANGED <<openVars, cur, rows, aborted, dbVars, history>>

(* The request reaches the database, which executes it or refuses it, or finds
   the connection dead. *)
Send(w) ==
    \/ AttemptRefused(w, "executing")
    \/ /\ link[w] = "good"
       /\ cur[w] \notin Refused
       /\ Move(w, "executing", "answering")
       /\ applied' = [applied EXCEPT ![cur[w]] = @ + 1]
       /\ UNCHANGED <<openVars, cur, link, taken, rows, aborted, dbVars, outcome, lost>>
    \/ /\ link[w] # "good"
       /\ GiveUp(w, "executing")
       /\ link' = [link EXCEPT ![w] = "dropped"]
       /\ UNCHANGED <<openVars, cur, rows, aborted, dbVars, history>>

(* Faulty variant of Answer: an answered update that changed no row counts as
   failed and is sent again. *)
Answer_NoRowsChanged(w) ==
    /\ link[w] = "good"
    /\ cur[w] \notin LoadCmd
    /\ \/ GiveUp(w, "answering")
       \/ /\ Move(w, "answering", "returning")
          /\ taken' = [taken EXCEPT ![w] = FALSE]
    /\ UNCHANGED <<openVars, cur, link, rows, aborted, dbVars, history>>

(* The reply arrives, and a load opens its result set; or it is lost, and the
   attempt fails although the database has executed the request. *)
Answer(w) ==
    \/ /\ link[w] = "good"
       /\ cur[w] \in LoadCmd
       /\ Move(w, "answering", "fetching")
       /\ UNCHANGED <<openVars, cur, link, taken, rows, aborted, dbVars, history>>
    \/ /\ link[w] = "good"
       /\ cur[w] \notin LoadCmd
       /\ Move(w, "answering", "returning")
       /\ taken' = [taken EXCEPT ![w] = FALSE]
       /\ UNCHANGED <<openVars, cur, link, rows, aborted, dbVars, history>>
    \/ /\ link[w] # "good"
       /\ GiveUp(w, "answering")
       /\ link' = [link EXCEPT ![w] = "dropped"]
       /\ lost' = [lost EXCEPT ![cur[w]] = @ + 1]
       /\ UNCHANGED <<openVars, cur, rows, aborted, dbVars, outcome, applied>>

(* MoveNext: ten rows at a time come from the cursor, until there are no more. *)
FetchRows(w) ==
    /\ Move(w, "fetching", "fetching")
    /\ link[w] = "good"
    /\ rows' = [rows EXCEPT ![w] = TRUE]
    /\ UNCHANGED <<openVars, cur, link, taken, aborted, dbVars, history>>

FetchEnds(w) ==
    /\ Move(w, "fetching", "returning")
    /\ link[w] = "good"
    /\ taken' = [taken EXCEPT ![w] = FALSE]
    /\ UNCHANGED <<openVars, cur, link, rows, aborted, dbVars, history>>

(* Faulty variant of FetchThrows: the exception is caught and the load tried
   again, on top of the rows it has. *)
FetchThrows_Retries(w) ==
    /\ link[w] # "good"
    /\ GiveUp(w, "fetching")
    /\ link' = [link EXCEPT ![w] = "dropped"]
    /\ lost' = [lost EXCEPT ![cur[w]] = @ + 1]
    /\ UNCHANGED <<openVars, cur, rows, aborted, dbVars, outcome, applied>>

(* The fetch fails: MysqlResultSet_next throws, nobody has installed a handler,
   and the process is aborted. *)
FetchThrows(w) ==
    /\ Move(w, "fetching", "fetching")
    /\ link[w] # "good"
    /\ aborted' = TRUE
    /\ UNCHANGED <<openVars, cur, link, taken, rows, dbVars, history>>

(* The sleep is over. *)
TryAgain(w) ==
    /\ Move(w, "pausing", "trying")
    /\ UNCHANGED <<openVars, cur, link, taken, rows, aborted, dbVars, history>>

(* The stub returns to the worker, which hands the rows on. *)
Return(w) ==
    /\ Move(w, "returning", "idle")
    /\ cur' = [cur EXCEPT ![w] = None]
    /\ rows' = [rows EXCEPT ![w] = FALSE]
    /\ outcome' = [outcome EXCEPT ![cur[w]] =
                     IF cur[w] \in Malformed THEN "skipped" ELSE "done"]
    /\ UNCHANGED <<openVars, link, taken, aborted, dbVars, applied, lost>>

-----------------------------------------------------------------------------
(* The environment. *)

(* The database stops: no connection survives. *)
DbStops ==
    /\ dbUp
    /\ faults < MaxFaults
    /\ dbUp' = FALSE
    /\ faults' = faults + 1
    /\ link' = [w \in Workers |-> IF link[w] = "good" THEN "stale" ELSE link[w]]
    /\ UNCHANGED <<openVars, spc, cur, taken, rows, aborted, history>>

DbStarts ==
    /\ ~dbUp
    /\ dbUp' = TRUE
    /\ UNCHANGED <<openVars, spc, cur, link, taken, rows, aborted, faults, history>>

(* One connection dies, for instance idle for longer than the server allows. *)
LinkBreaks(w) ==
    /\ link[w] = "good"
    /\ faults < MaxFaults
    /\ faults' = faults + 1
    /\ link' = [link EXCEPT ![w] = "stale"]
    /\ UNCHANGED <<openVars, spc, cur, taken, rows, aborted, dbUp, history>>

Environment == DbStops \/ DbStarts \/ \E w \in Workers : LinkBreaks(w)

(* The steps of an attempt and of the loop around it. *)
AttemptStep(w) ==
    \/ TakeConnection(w)
    \/ Prepare(w)
    \/ Send(w)
    \/ Answer(w)
    \/ FetchRows(w)
    \/ FetchEnds(w)
    \/ FetchThrows(w)
    \/ TryAgain(w)

OpenStep(w) == LockMutex(w) \/ OpenFails(w) \/ OpenAgain(w)

SessionStep(w) ==
    \/ OpenStep(w)
    \/ OpenSucceeds(w)
    \/ \E x \in Cmd : Begin(w, x)
    \/ AttemptStep(w)
    \/ Return(w)
    \/ CloseSession(w)

SessionNext == (\E w \in Workers : SessionStep(w)) \/ Environment

SessionSpec == SessionInit /\ [][SessionNext]_sessionVars

(* Workers are scheduled and every result set has an end.  The environment owes
   nothing. *)
SessionFairSpec ==
    /\ SessionSpec
    /\ \A w \in Workers :
         /\ WF_sessionVars(OpenStep(w) \/ OpenSucceeds(w))
         /\ WF_sessionVars(AttemptStep(w) \/ Return(w))
         /\ WF_sessionVars(FetchEnds(w))

-----------------------------------------------------------------------------
(* Properties. *)

Opening == {"connecting", "sleeping"}
InAttempt == {"preparing", "executing", "answering", "fetching"}
InCall == InAttempt \cup {"trying", "pausing", "returning"}

(* The types, and what the pieces of a session's state say of one another: the
   mutex is held exactly while a session connects, a session that is open stays
   open through every call, a good connection leads to a running database. *)
SessionTypeOK ==
    /\ holder \in Workers \cup {None}
    /\ spc \in [Workers -> InCall \cup Opening \cup {"starting", "idle", "closed"}]
    /\ cur \in [Workers -> Cmd \cup {None}]
    /\ link \in [Workers -> {"none", "good", "stale", "dropped"}]
    /\ opened \in [Workers -> BOOLEAN] /\ taken \in [Workers -> BOOLEAN]
    /\ rows \in [Workers -> BOOLEAN]
    /\ aborted \in BOOLEAN /\ dbUp \in BOOLEAN
    /\ faults \in 0..MaxFaults
    /\ outcome \in [Cmd -> {"new", "running", "done", "skipped"}]
    /\ applied \in [Cmd -> Nat] /\ lost \in [Cmd -> Nat]
    /\ \A w \in Workers :
         /\ holder = w <=> spc[w] \in Opening
         /\ opened[w] <=> spc[w] \in InCall \cup {"idle"}
         /\ opened[w] <=> link[w] # "none"
         /\ cur[w] # None <=> spc[w] \in InCall
         /\ link[w] = "good" => dbUp

(* A command the stub reports done has been executed by the database, and the
   reply to its last execution was received: no failure ends the loop. *)
NothingGivenUp == \A x \in Cmd : outcome[x] = "done" => applied[x] > lost[x]

(* The database executes a command a second time only because the reply to the
   first was lost; a malformed or refused one never. *)
RepeatedOnlyWhenLost ==
    \A x \in Cmd :
        /\ applied[x] <= lost[x] + 1
        /\ x \in Malformed \cup Refused => applied[x] = 0

(* No statement keeps the connection: outside an attempt it is in the pool, so a
   constructor never waits for it and Close drains nothing in use. *)
ConnectionInPool == \A w \in Workers : spc[w] \notin InAttempt => ~taken[w]

(* An attempt starts with an empty result: the rows of two executions are never
   mixed (Protobuf2DbEngine.cpp 171-172 does not clear the result, for no
   attempt fails once it has read rows). *)
ResultOfOneExecution ==
    \A w \in Workers : rows[w] => spc[w] \in {"fetching", "returning"}

(* "it will be always success from here" (Protobuf2DbEngine.cpp 172): once a
   query has been executed, reading its result does not fail. *)
SuccessFromHere == [][\A w \in Workers : ~FetchThrows(w)]_sessionVars

(* When the database is up for good every session opens, one after the other
   through the mutex. *)
EverySessionOpens ==
    <>[]dbUp => \A w \in Workers : <>(opened[w] \/ aborted)

(* When the database is up for good and does not refuse a command, its call
   returns. *)
CallReturns ==
    <>[]dbUp =>
        \A x \in Cmd \ Refused : outcome[x] = "running" ~> (outcome[x] # "running" \/ aborted)
-----------------------------------------------------------------------------
(* The inductive invariant behind the safety properties. *)

(* A command is in one session's hands, and as far as that session says: the
   database has executed it as often as replies were lost, and once more between
   the execution and the return. *)
CallInv ==
    /\ \A w \in Workers : spc[w] \in InCall => outcome[cur[w]] = "running"
    /\ \A v, w \in Workers : cur[v] = cur[w] /\ cur[v] # None => v = w
    /\ \A w \in Workers :
         /\ spc[w] \in InCall \ {"returning"} => cur[w] \notin Malformed
         /\ spc[w] \in {"trying", "pausing", "preparing", "executing"} =>
              applied[cur[w]] = lost[cur[w]]
         /\ \/ spc[w] \in {"answering", "fetching"}
            \/ spc[w] = "returning" /\ cur[w] \notin Malformed
            => applied[cur[w]] = lost[cur[w]] + 1

EffectInv ==
    \A x \in Cmd :
        /\ outcome[x] = "new" => applied[x] = 0 /\ lost[x] = 0
        /\ outcome[x] = "done" => applied[x] = lost[x] + 1
        /\ applied[x] <= lost[x] + 1
        /\ x \in Malformed \cup Refused => applied[x] = 0 /\ lost[x] = 0

(* An attempt has the connection, its result has no rows before it fetches. *)
StatementInv ==
    \A w \in Workers :
        /\ taken[w] <=> spc[w] \in InAttempt
        /\ rows[w] => spc[w] \in {"fetching", "returning"}

SessionInv == CallInv /\ EffectInv /\ StatementInv

(* A running command is in some session's hands: no call is forgotten. *)
HeldInv == \A x \in Cmd : outcome[x] = "running" => \E w \in Workers : cur[w] = x
=============================================================================
