--------------------------- MODULE DbSession_proofs ---------------------------
(***************************************************************************)
(* Theorems about DbSession, for any workers, any commands and any number  *)
(* of failures.  SessionTypeOK is inductive by itself; SessionInv is       *)
(* inductive with it.  The safety properties follow from the two.          *)
(***************************************************************************)
EXTENDS DbSession, TLAPS

(* What every step of the module expands to. *)
USE DEF openVars, dbVars, history, Move

LEMMA TypeInit == SessionInit => SessionTypeOK
<1> SUFFICES ASSUME SessionInit PROVE SessionTypeOK
  OBVIOUS
<1>1. /\ holder \in Workers \cup {None}
      /\ spc \in [Workers -> InCall \cup Opening \cup {"starting", "idle", "closed"}]
      /\ cur \in [Workers -> Cmd \cup {None}]
      /\ link \in [Workers -> {"none", "good", "stale", "dropped"}]
  BY DEF SessionInit
<1>2. /\ opened \in [Workers -> BOOLEAN] /\ taken \in [Workers -> BOOLEAN]
      /\ rows \in [Workers -> BOOLEAN] /\ aborted \in BOOLEAN /\ dbUp \in BOOLEAN
  BY DEF SessionInit
<1>3. /\ faults \in 0..MaxFaults
      /\ outcome \in [Cmd -> {"new", "running", "done", "skipped"}]
      /\ applied \in [Cmd -> Nat] /\ lost \in [Cmd -> Nat]
  BY SessionAssumption DEF SessionInit
<1>4. ASSUME NEW w \in Workers
      PROVE  /\ holder # w /\ spc[w] = "starting" /\ ~opened[w]
             /\ link[w] = "none" /\ cur[w] = None
  BY SessionAssumption DEF SessionInit
<1> QED  BY <1>1, <1>2, <1>3, <1>4 DEF SessionTypeOK, InCall, InAttempt, Opening

(* Opening and closing keep the types: the mutex is held exactly while a session
   connects (Protobuf2DbEngine::Open). *)
LEMMA TypeOpening ==
    ASSUME SessionTypeOK, NEW w \in Workers,
           OpenStep(w) \/ OpenSucceeds(w) \/ CloseSession(w)
    PROVE  SessionTypeOK'
<1> USE SessionAssumption DEF SessionTypeOK, InCall, InAttempt, Opening
<1>1. CASE LockMutex(w)
  BY <1>1 DEF LockMutex
<1>2. CASE OpenFails(w)
  BY <1>2 DEF OpenFails
<1>3. CASE OpenAgain(w)
  BY <1>3 DEF OpenAgain
<1>4. CASE OpenSucceeds(w)
  BY <1>4 DEF OpenSucceeds
<1>5. CASE CloseSession(w)
  BY <1>5 DEF CloseSession
<1> QED  BY <1>1, <1>2, <1>3, <1>4, <1>5 DEF OpenStep

(* So does every step of a call of the stub. *)
LEMMA TypeCall ==
    ASSUME SessionTypeOK, NEW w \in Workers,
           (\E x \in Cmd : Begin(w, x)) \/ AttemptStep(w) \/ Return(w)
    PROVE  SessionTypeOK'
<1> USE SessionAssumption DEF SessionTypeOK, InCall, InAttempt, Opening
<1>1. CASE \E x \in Cmd : Begin(w, x)
  BY <1>1 DEF Begin
<1>2. CASE TakeConnection(w)
  BY <1>2 DEF TakeConnection
<1>3. CASE Prepare(w)
  <2>1. CASE AttemptRefused(w, "preparing")
    BY <2>1 DEF AttemptRefused, GiveUp
  <2>2. CASE Move(w, "preparing", "executing") /\ Prepare(w)
    BY <2>2 DEF Prepare, AttemptRefused, GiveUp
  <2>3. CASE GiveUp(w, "preparing") /\ link' = [link EXCEPT ![w] = "dropped"] /\ Prepare(w)
    BY <2>3 DEF Prepare, AttemptRefused, GiveUp
  <2> QED  BY <1>3, <2>1, <2>2, <2>3 DEF Prepare
<1>4. CASE Send(w)
  <2>1. CASE AttemptRefused(w, "executing")
    BY <2>1 DEF AttemptRefused, GiveUp
  <2>2. CASE Move(w, "executing", "answering") /\ Send(w)
    BY <2>2 DEF Send, AttemptRefused, GiveUp
  <2>3. CASE GiveUp(w, "executing") /\ link' = [link EXCEPT ![w] = "dropped"] /\ Send(w)
    BY <2>3 DEF Send, AttemptRefused, GiveUp
  <2> QED  BY <1>4, <2>1, <2>2, <2>3 DEF Send
<1>5. CASE Answer(w)
  <2>1. CASE Move(w, "answering", "fetching") /\ Answer(w)
    BY <2>1 DEF Answer, GiveUp
  <2>2. CASE Move(w, "answering", "returning") /\ Answer(w)
    <3>1. /\ taken' = [taken EXCEPT ![w] = FALSE]
          /\ UNCHANGED <<openVars, cur, link, rows, aborted, dbVars, history>>
      BY <2>2 DEF Answer, GiveUp
    <3> QED  BY <2>2, <3>1
  <2>3. CASE GiveUp(w, "answering") /\ Answer(w)
    <3>1. /\ spc[w] = "answering" /\ spc' = [spc EXCEPT ![w] = "pausing"]
          /\ taken' = [taken EXCEPT ![w] = FALSE]
          /\ link' = [link EXCEPT ![w] = "dropped"]
          /\ lost' = [lost EXCEPT ![cur[w]] = @ + 1]
          /\ UNCHANGED <<holder, opened, cur, rows, aborted, dbUp, faults, outcome, applied>>
      BY <2>3 DEF Answer, GiveUp
    <3>2. lost' \in [Cmd -> Nat]
      BY <3>1
    <3> QED  BY <3>1, <3>2
  <2> QED  BY <1>5, <2>1, <2>2, <2>3 DEF Answer
<1>6. CASE FetchRows(w)
  BY <1>6 DEF FetchRows
<1>7. CASE FetchEnds(w)
  BY <1>7 DEF FetchEnds
<1>8. CASE FetchThrows(w)
  BY <1>8 DEF FetchThrows
<1>9. CASE TryAgain(w)
  BY <1>9 DEF TryAgain
<1>10. CASE Return(w)
  BY <1>10 DEF Return
<1> QED  BY <1>1, <1>2, <1>3, <1>4, <1>5, <1>6, <1>7, <1>8, <1>9, <1>10 DEF AttemptStep

(* Failures of the database and the network keep the types: a good connection
   does not survive the database. *)
LEMMA TypeEnvironment ==
    ASSUME SessionTypeOK, Environment
    PROVE  SessionTypeOK'
<1> USE SessionAssumption DEF SessionTypeOK
<1>1. CASE DbStops
  <2>1. link' \in [Workers -> {"none", "good", "stale", "dropped"}]
    <3>1. link' = [w \in Workers |-> IF link[w] = "good" THEN "stale" ELSE link[w]]
      BY <1>1 DEF DbStops
    <3>2. ASSUME NEW w \in Workers
          PROVE  (IF link[w] = "good" THEN "stale" ELSE link[w])
                     \in {"none", "good", "stale", "dropped"}
      OBVIOUS
    <3> QED  BY <3>1, <3>2
  <2>2. faults' \in 0..MaxFaults
    <3>1. faults \in 0..MaxFaults /\ MaxFaults \in Nat
      OBVIOUS
    <3>2. faults < MaxFaults /\ faults' = faults + 1
      BY <1>1 DEF DbStops
    <3> HIDE SessionAssumption DEF SessionTypeOK
    <3> QED  BY <3>1, <3>2
  <2>3. dbUp' \in BOOLEAN
    BY <1>1 DEF DbStops
  <2>4. ASSUME NEW w \in Workers
        PROVE  (link[w] = "none" <=> link'[w] = "none") /\ link'[w] # "good"
    BY <1>1 DEF DbStops
  <2>5. UNCHANGED <<holder, opened, spc, cur, taken, rows, aborted, outcome, applied, lost>>
    BY <1>1 DEF DbStops
  <2>6. ASSUME NEW w \in Workers
        PROVE  (opened[w] <=> link[w] # "none")' /\ (link[w] = "good" => dbUp)'
    BY <2>4, <2>5
  <2> QED  BY <2>1, <2>5, <2>6, <2>2, <2>3
<1>2. CASE DbStarts
  BY <1>2 DEF DbStarts
<1>3. ASSUME NEW w \in Workers, LinkBreaks(w)
      PROVE  SessionTypeOK'
  BY <1>3 DEF LinkBreaks
<1> QED  BY <1>1, <1>2, <1>3 DEF Environment

LEMMA TypeStutter ==
    ASSUME SessionTypeOK, UNCHANGED sessionVars
    PROVE  SessionTypeOK'
  BY DEF sessionVars, SessionTypeOK

(* The types of the sessions' state hold for any workers, commands and failures. *)
THEOREM SessionTyping == SessionSpec => []SessionTypeOK
<1>1. SessionTypeOK /\ [SessionNext]_sessionVars => SessionTypeOK'
  BY TypeOpening, TypeCall, TypeEnvironment, TypeStutter DEF SessionNext, SessionStep
<1> QED  BY TypeInit, <1>1, PTL DEF SessionSpec

-----------------------------------------------------------------------------
LEMMA InvInit == SessionInit => SessionInv
  BY SessionAssumption
     DEF SessionInit, SessionInv, CallInv, EffectInv, StatementInv, InCall, InAttempt

(* Steps that touch no call: opening, closing, failures. *)
LEMMA InvOutside ==
    ASSUME SessionTypeOK, SessionInv,
           \/ \E w \in Workers : OpenStep(w) \/ OpenSucceeds(w) \/ CloseSession(w)
           \/ Environment
    PROVE  SessionInv'
<1>1. UNCHANGED <<cur, taken, rows, outcome, applied, lost>>
  BY DEF OpenStep, LockMutex, OpenFails, OpenAgain, OpenSucceeds, CloseSession,
         Environment, DbStops, DbStarts, LinkBreaks
<1>2. \A v \in Workers : \/ spc'[v] = spc[v]
                         \/ spc[v] \notin InCall /\ spc'[v] \notin InCall
  <2>1. CASE Environment
    BY <2>1 DEF Environment, DbStops, DbStarts, LinkBreaks
  <2>2. ASSUME NEW w \in Workers, OpenStep(w) \/ OpenSucceeds(w) \/ CloseSession(w)
        PROVE  \/ Move(w, "starting", "connecting") \/ Move(w, "connecting", "sleeping")
               \/ Move(w, "sleeping", "connecting") \/ Move(w, "connecting", "idle")
               \/ Move(w, "idle", "closed")
    BY <2>2 DEF OpenStep, LockMutex, OpenFails, OpenAgain, OpenSucceeds, CloseSession
  <2>3. spc \in [Workers -> InCall \cup Opening \cup {"starting", "idle", "closed"}]
    BY DEF SessionTypeOK
  <2> QED  BY <2>1, <2>2, <2>3 DEF InCall, InAttempt
<1> QED
  BY <1>1, <1>2
     DEF SessionTypeOK, SessionInv, CallInv, EffectInv, StatementInv, InCall, InAttempt

(* A call begins with a command no session has had. *)
LEMMA InvBegin ==
    ASSUME SessionTypeOK, SessionInv, NEW w \in Workers, NEW x \in Cmd, Begin(w, x)
    PROVE  SessionInv'
<1> USE SessionAssumption DEF SessionTypeOK, SessionInv, Begin, InCall, InAttempt
<1>1. CallInv'
  <2>1. /\ spc[w] = "idle" /\ cur[w] = None /\ outcome[x] = "new"
        /\ applied[x] = 0 /\ lost[x] = 0
    BY DEF EffectInv
  <2>2. \A v \in Workers : cur[v] # x
    BY <2>1 DEF CallInv
  <2>3. \A v \in Workers : v # w => cur'[v] = cur[v] /\ spc'[v] = spc[v]
    OBVIOUS
  <2>4. cur'[w] = x /\ spc'[w] = IF x \in Malformed THEN "returning" ELSE "trying"
    OBVIOUS
  <2>5. outcome'[x] = "running" /\ \A y \in Cmd : y # x => outcome'[y] = outcome[y]
    OBVIOUS
  <2> QED  BY <2>1, <2>2, <2>3, <2>4, <2>5 DEF CallInv
<1>2. EffectInv'
  BY DEF CallInv, EffectInv
<1>3. StatementInv'
  BY DEF StatementInv
<1> QED  BY <1>1, <1>2, <1>3

(* The database executes the command of an attempt (ZdbStatement::Exec). *)
LEMMA InvSend ==
    ASSUME SessionTypeOK, SessionInv, NEW w \in Workers, Send(w)
    PROVE  SessionInv'
<1> USE SessionAssumption DEF SessionTypeOK, SessionInv, InCall, InAttempt
<1>1. CASE Move(w, "executing", "answering") /\ Send(w)
  <2>1. /\ applied' = [applied EXCEPT ![cur[w]] = @ + 1]
        /\ cur[w] \notin Refused
        /\ UNCHANGED <<openVars, cur, link, taken, rows, aborted, dbVars, outcome, lost>>
    BY <1>1 DEF Send, AttemptRefused, GiveUp
  <2>2. cur[w] \in Cmd \ (Malformed \cup Refused) /\ outcome[cur[w]] = "running"
    BY <1>1, <2>1 DEF CallInv
  <2>3. applied'[cur[w]] = lost[cur[w]] + 1
    BY <1>1, <2>1, <2>2 DEF CallInv
  <2>4. CallInv'
    BY <1>1, <2>1, <2>2, <2>3 DEF CallInv
  <2>5. EffectInv'
    BY <1>1, <2>1, <2>2, <2>3 DEF EffectInv
  <2>6. StatementInv'
    BY <1>1, <2>1 DEF StatementInv
  <2> QED  BY <2>4, <2>5, <2>6
<1>2. CASE GiveUp(w, "executing") /\ Send(w)
  <2>1. UNCHANGED <<openVars, cur, rows, aborted, dbVars, history>>
    BY <1>2 DEF Send, AttemptRefused, GiveUp
  <2>2. CallInv' /\ EffectInv'
    BY <1>2, <2>1 DEF CallInv, EffectInv, GiveUp
  <2>3. StatementInv'
    BY <1>2, <2>1 DEF StatementInv, GiveUp
  <2> QED  BY <2>2, <2>3
<1> QED  BY <1>1, <1>2 DEF Send, AttemptRefused

(* Its reply arrives or is lost. *)
LEMMA InvAnswer ==
    ASSUME SessionTypeOK, SessionInv, NEW w \in Workers, Answer(w)
    PROVE  SessionInv'
<1> USE SessionAssumption DEF SessionTypeOK, SessionInv, InCall, InAttempt
<1>1. CASE GiveUp(w, "answering") /\ Answer(w)
  <2>1. /\ lost' = [lost EXCEPT ![cur[w]] = @ + 1]
        /\ UNCHANGED <<openVars, cur, rows, aborted, dbVars, outcome, applied>>
    BY <1>1 DEF Answer, GiveUp
  <2>2. /\ cur[w] \in Cmd \ Malformed /\ outcome[cur[w]] = "running"
        /\ applied[cur[w]] = lost[cur[w]] + 1
    BY <1>1 DEF CallInv, GiveUp
  <2>3. cur[w] \notin Refused /\ lost'[cur[w]] = applied[cur[w]]
    BY <2>1, <2>2 DEF EffectInv
  <2>4. CallInv'
    BY <1>1, <2>1, <2>2, <2>3 DEF CallInv, GiveUp
  <2>5. EffectInv'
    BY <2>1, <2>2, <2>3 DEF EffectInv
  <2>6. StatementInv'
    BY <1>1, <2>1 DEF StatementInv, GiveUp
  <2> QED  BY <2>4, <2>5, <2>6
<1>2. CASE Move(w, "answering", "fetching") /\ Answer(w)
  <2>1. UNCHANGED <<openVars, cur, link, taken, rows, aborted, dbVars, history>>
    BY <1>2 DEF Answer, GiveUp
  <2> QED  BY <1>2, <2>1 DEF CallInv, EffectInv, StatementInv
<1>3. CASE Move(w, "answering", "returning") /\ Answer(w)
  <2>1. /\ taken' = [taken EXCEPT ![w] = FALSE]
        /\ UNCHANGED <<openVars, cur, link, rows, aborted, dbVars, history>>
    BY <1>3 DEF Answer, GiveUp
  <2> QED  BY <1>3, <2>1 DEF CallInv, EffectInv, StatementInv
<1> QED  BY <1>1, <1>2, <1>3 DEF Answer

(* The other steps of an attempt execute nothing and lose nothing. *)
LEMMA InvAttempt ==
    ASSUME SessionTypeOK, SessionInv, NEW w \in Workers,
           \/ TakeConnection(w) \/ Prepare(w) \/ FetchRows(w) \/ FetchEnds(w)
           \/ FetchThrows(w) \/ TryAgain(w)
    PROVE  SessionInv'
<1> USE DEF SessionTypeOK, SessionInv, InCall, InAttempt
<1>1. CASE TakeConnection(w)
  BY <1>1 DEF TakeConnection, CallInv, EffectInv, StatementInv
<1>2. CASE Prepare(w)
  <2>1. UNCHANGED <<openVars, cur, rows, aborted, dbVars, history>>
    BY <1>2 DEF Prepare, AttemptRefused
  <2>2. \/ Move(w, "preparing", "executing") /\ UNCHANGED taken
        \/ GiveUp(w, "preparing")
    BY <1>2 DEF Prepare, AttemptRefused
  <2> QED  BY <2>1, <2>2 DEF GiveUp, CallInv, EffectInv, StatementInv
<1>3. CASE FetchRows(w)
  BY <1>3 DEF FetchRows, CallInv, EffectInv, StatementInv
<1>4. CASE FetchEnds(w)
  BY <1>4 DEF FetchEnds, CallInv, EffectInv, StatementInv
<1>5. CASE FetchThrows(w)
  BY <1>5 DEF FetchThrows, CallInv, EffectInv, StatementInv
<1>6. CASE TryAgain(w)
  BY <1>6 DEF TryAgain, CallInv, EffectInv, StatementInv
<1> QED  BY <1>1, <1>2, <1>3, <1>4, <1>5, <1>6

(* The stub returns and lets go of the command. *)
LEMMA InvReturn ==
    ASSUME SessionTypeOK, SessionInv, NEW w \in Workers, Return(w)
    PROVE  SessionInv'
<1> USE SessionAssumption DEF SessionTypeOK, SessionInv, Return, InCall, InAttempt
<1>1. cur[w] \in Cmd
  OBVIOUS
<1>2. CallInv'
  BY <1>1 DEF CallInv
<1>3. EffectInv'
  BY <1>1 DEF CallInv, EffectInv
<1>4. StatementInv'
  BY DEF StatementInv
<1> QED  BY <1>2, <1>3, <1>4

(* The inductive invariant holds for any workers, commands and failures. *)
THEOREM SessionInvariance == SessionSpec => []SessionInv
<1>1. SessionTypeOK /\ SessionInv /\ [SessionNext]_sessionVars => SessionInv'
  <2> SUFFICES ASSUME SessionTypeOK, SessionInv, [SessionNext]_sessionVars
               PROVE  SessionInv'
    OBVIOUS
  <2>1. ASSUME NEW w \in Workers, SessionStep(w)
        PROVE  SessionInv'
    BY <2>1, InvOutside, InvBegin, InvSend, InvAnswer, InvAttempt, InvReturn
       DEF SessionStep, AttemptStep
  <2>2. CASE Environment
    BY <2>2, InvOutside
  <2>3. CASE UNCHANGED sessionVars
    BY <2>3 DEF sessionVars, SessionInv, CallInv, EffectInv, StatementInv
  <2> QED  BY <2>1, <2>2, <2>3 DEF SessionNext
<1> QED  BY InvInit, SessionTyping, <1>1, PTL DEF SessionSpec

(* Only the start and the end of a call change what a session holds. *)
LEMMA HeldStep ==
    ASSUME SessionTypeOK, HeldInv, [SessionNext]_sessionVars
    PROVE  HeldInv'
<1> USE SessionAssumption DEF SessionTypeOK, HeldInv
<1>1. ASSUME NEW w \in Workers, NEW x \in Cmd, Begin(w, x)
      PROVE  HeldInv'
  <2>1. cur[w] = None
    BY <1>1 DEF Begin, InCall, InAttempt
  <2>2. \A y \in Cmd : y # x => outcome'[y] = outcome[y]
    BY <1>1 DEF Begin
  <2>3. cur'[w] = x /\ \A v \in Workers : v # w => cur'[v] = cur[v]
    BY <1>1 DEF Begin
  <2> QED  BY <2>1, <2>2, <2>3
<1>2. ASSUME NEW w \in Workers, Return(w)
      PROVE  HeldInv'
  <2>1. cur[w] \in Cmd /\ outcome'[cur[w]] # "running"
    BY <1>2 DEF Return, InCall, InAttempt
  <2>2. \A y \in Cmd : y # cur[w] => outcome'[y] = outcome[y]
    BY <1>2 DEF Return
  <2>3. \A v \in Workers : v # w => cur'[v] = cur[v]
    BY <1>2 DEF Return
  <2> QED  BY <2>1, <2>2, <2>3
<1>3. CASE UNCHANGED <<cur, outcome>>
  BY <1>3
<1>4. ASSUME NEW w \in Workers, OpenStep(w) \/ OpenSucceeds(w) \/ CloseSession(w) \/ AttemptStep(w)
      PROVE  UNCHANGED <<cur, outcome>>
  BY <1>4 DEF OpenStep, LockMutex, OpenFails, OpenAgain, OpenSucceeds, CloseSession,
              AttemptStep, TakeConnection, Prepare, AttemptRefused, Send, Answer,
              FetchRows, FetchEnds, FetchThrows, TryAgain
<1>5. CASE Environment
  BY <1>3, <1>5 DEF Environment, DbStops, DbStarts, LinkBreaks
<1>6. CASE UNCHANGED sessionVars
  BY <1>3, <1>6 DEF sessionVars
<1> QED  BY <1>1, <1>2, <1>3, <1>4, <1>5, <1>6 DEF SessionNext, SessionStep

(* A call the stub has not returned from is some worker's. *)
LEMMA RunningIsHeld == SessionSpec => []HeldInv
<1>1. SessionInit => HeldInv
  BY DEF SessionInit, HeldInv
<1> QED  BY <1>1, HeldStep, SessionTyping, PTL DEF SessionSpec

(* What the stub reports done has been executed and answered: no failure ends a
   retry loop. *)
THEOREM RetriedUntilDone == SessionSpec => []NothingGivenUp
<1>1. SessionTypeOK /\ SessionInv => NothingGivenUp
  BY DEF SessionTypeOK, SessionInv, EffectInv, NothingGivenUp
<1> QED  BY SessionTyping, SessionInvariance, <1>1, PTL

(* A command is executed again only because a reply was lost. *)
THEOREM OncePerReply == SessionSpec => []RepeatedOnlyWhenLost
<1>1. SessionInv => RepeatedOnlyWhenLost
  BY DEF SessionInv, EffectInv, RepeatedOnlyWhenLost
<1> QED  BY SessionInvariance, <1>1, PTL

(* Outside an attempt the connection is in the pool. *)
THEOREM PoolIsIdle == SessionSpec => []ConnectionInPool
<1>1. SessionInv => ConnectionInPool
  BY DEF SessionInv, StatementInv, ConnectionInPool
<1> QED  BY SessionInvariance, <1>1, PTL

(* A result never holds rows of two executions. *)
THEOREM ResultsUnmixed == SessionSpec => []ResultOfOneExecution
<1>1. SessionInv => ResultOfOneExecution
  BY DEF SessionInv, StatementInv, ResultOfOneExecution
<1> QED  BY SessionInvariance, <1>1, PTL
=============================================================================
