----------------------- MODULE PbStubExecQueue_proofs -----------------------
(***************************************************************************)
(* Theorems about PbStubExecQueue, for any number of clients, workers and  *)
(* commands.                                                               *)
(***************************************************************************)
EXTENDS PbStubExecQueue, CamelQueue_proofs

-----------------------------------------------------------------------------
(* Type correctness. *)

LEMMA TypeInit == ExecInit => ExecTypeOK
<1> SUFFICES ASSUME ExecInit PROVE ExecTypeOK
  OBVIOUS
<1>1. <<>> \in Seq(Cmd)
  BY EmptySeq
<1> QED
  BY <1>1, CmdAssumption DEF ExecInit, ExecTypeOK, EmptyQueue, Holding, Stages

LEMMA TypeStep == ExecTypeOK /\ [ExecNext]_execVars => ExecTypeOK'
<1> SUFFICES ASSUME ExecTypeOK, [ExecNext]_execVars
             PROVE  ExecTypeOK'
  OBVIOUS
<1> USE CmdAssumption
<1>1. ASSUME NEW c \in Clients, NEW x \in Cmd, Admit(c, x)
      PROVE  ExecTypeOK'
  BY <1>1 DEF Admit, ExecTypeOK, workerVars, Stages
<1>2. ASSUME NEW c \in Clients, NEW x \in Cmd, Refuse(c, x)
      PROVE  ExecTypeOK'
  BY <1>2 DEF Refuse, ExecTypeOK, workerVars, clientVars, Stages
<1>3. ASSUME NEW c \in Clients, Enqueue(c)
      PROVE  ExecTypeOK'
  <2>1. ccmd[c] \in Cmd
    BY <1>3 DEF Enqueue, ExecTypeOK
  <2>2. callbacks' \in [Clients -> Seq(Cmd)]
    BY <1>3, <2>1, PushFacts DEF Enqueue, ExecTypeOK
  <2>3. accepted' \in [Clients -> Seq(Cmd)]
    BY <1>3, <2>1, AppendProperties DEF Enqueue, ExecTypeOK
  <2>4. stage' \in [Cmd -> Stages]
    BY <1>3, <2>1 DEF Enqueue, ExecTypeOK, Stages
  <2>5. /\ cpc' \in [Clients -> {"idle", "admitted", "waiting"}]
        /\ ccmd' \in [Clients -> Cmd \cup {None}]
        /\ \A b \in Clients : cpc'[b] = "idle" <=> ccmd'[b] = None
    BY <1>3, <2>1 DEF Enqueue, ExecTypeOK
  <2>6. UNCHANGED <<done, ready, fin, workerVars>>
    BY <1>3 DEF Enqueue
  <2> QED
    BY <2>2, <2>3, <2>4, <2>5, <2>6 DEF ExecTypeOK, workerVars
<1>4. ASSUME NEW c \in Clients, EnqueueFails(c)
      PROVE  ExecTypeOK'
  BY <1>4 DEF EnqueueFails, ExecTypeOK, workerVars, Stages
<1>5. ASSUME NEW c \in Clients, SyncReturn(c)
      PROVE  ExecTypeOK'
  BY <1>5 DEF SyncReturn, ExecTypeOK, workerVars
<1>6. ASSUME NEW w \in Workers, OpenStub(w)
      PROVE  ExecTypeOK'
  BY <1>6 DEF OpenStub, ExecTypeOK, clientVars, Holding
<1>7. ASSUME NEW w \in Workers, CheckDone(w)
      PROVE  ExecTypeOK'
  BY <1>7 DEF CheckDone, ExecTypeOK, clientVars, Holding
<1>8. ASSUME NEW w \in Workers, Dequeue(w)
      PROVE  ExecTypeOK'
  <2>1. PICK c \in Pending(callbacks) :
          /\ callbacks' = Pop(callbacks, c)
          /\ wcmd' = [wcmd EXCEPT ![w] = Head(callbacks[c])]
          /\ stage' = [stage EXCEPT ![Head(callbacks[c])] = "taken"]
    BY <1>8 DEF Dequeue
  <2>2. Head(callbacks[c]) \in Cmd /\ callbacks' \in [Clients -> Seq(Cmd)]
    BY <2>1, PopFacts DEF ExecTypeOK
  <2> QED
    BY <1>8, <2>1, <2>2 DEF Dequeue, ExecTypeOK, clientVars, Stages, Holding
<1>9. ASSUME NEW w \in Workers, Timeout(w)
      PROVE  ExecTypeOK'
  BY <1>9 DEF Timeout, ExecTypeOK, clientVars, Holding
<1>10. ASSUME NEW w \in Workers, Execute(w)
       PROVE  ExecTypeOK'
  <2>1. wcmd[w] \in Cmd
    BY <1>10 DEF Execute, ExecTypeOK, Holding
  <2>2. log' \in Seq(Cmd)
    BY <1>10, <2>1, AppendProperties DEF Execute, ExecTypeOK
  <2>3. late' \in [Workers -> Nat]
    BY <1>10 DEF Execute, ExecTypeOK
  <2> QED
    BY <1>10, <2>1, <2>2, <2>3
       DEF Execute, AfterSwitch, ExecTypeOK, clientVars, Stages, Holding
<1>11. ASSUME NEW w \in Workers, Reply(w)
       PROVE  ExecTypeOK'
  BY <1>11 DEF Reply, AfterSwitch, ExecTypeOK, clientVars, Stages, Holding
<1>12. ASSUME NEW w \in Workers, Dispose(w)
       PROVE  ExecTypeOK'
  BY <1>12 DEF Dispose, ExecTypeOK, clientVars, Holding
<1>13. ASSUME NEW w \in Workers, CloseStub(w)
       PROVE  ExecTypeOK'
  BY <1>13 DEF CloseStub, ExecTypeOK, clientVars, Holding
<1>14. CASE FinishBegin
  BY <1>14 DEF FinishBegin, ExecTypeOK, clientVars, workerVars
<1>15. CASE FinishEnd
  BY <1>15 DEF FinishEnd, ExecTypeOK, clientVars, workerVars
<1>16. CASE UNCHANGED execVars
  BY <1>16 DEF execVars, ExecTypeOK
<1> QED
  BY <1>1, <1>2, <1>3, <1>4, <1>5, <1>6, <1>7, <1>8, <1>9, <1>10, <1>11,
     <1>12, <1>13, <1>14, <1>15, <1>16
     DEF ExecNext, ClientStep, WorkerStep

(* The state of the queue, of the calls and of the workers keeps its types: in
   particular no worker reaches the loop body without a command, and a client
   holds a command exactly while it is inside a call. *)
THEOREM ExecTyping == ExecSpec => []ExecTypeOK
<1>1. ExecInit => ExecTypeOK
  BY TypeInit
<1>2. ExecTypeOK /\ [ExecNext]_execVars => ExecTypeOK'
  BY TypeStep
<1> QED
  BY <1>1, <1>2, PTL DEF ExecSpec
-----------------------------------------------------------------------------
(* The inductive invariant: one lemma per part, one step per action. *)

LEMMA InvInit == ExecInit => ExecInv
<1> SUFFICES ASSUME ExecInit PROVE ExecInv
  OBVIOUS
<1>1. \A c \in Clients : Len(callbacks[c]) = 0
  BY EmptySeq DEF ExecInit, EmptyQueue
<1>2. Len(log) = 0
  BY EmptySeq DEF ExecInit
<1> QED
  BY <1>1, <1>2 DEF ExecInit, EmptyQueue, ExecInv, QueueInv, WorkerInv, BorrowInv,
                    LogInv, LateInv, FinInv, Holding

(* What the other lemmas need of a dequeue: the command was queued, every other
   queued command still is, at one place or the next. *)
LEMMA DequeueFacts ==
    ASSUME ExecTypeOK, ExecInv, NEW w \in Workers, Dequeue(w)
    PROVE  \E c \in Clients :
             /\ Len(callbacks[c]) \in Nat \ {0}
             /\ wcmd' = [wcmd EXCEPT ![w] = callbacks[c][1]]
             /\ stage' = [stage EXCEPT ![callbacks[c][1]] = "taken"]
             /\ callbacks[c][1] \in Cmd
             /\ stage[callbacks[c][1]] = "queued"
             /\ \A b \in Clients : b # c => callbacks'[b] = callbacks[b]
             /\ Len(callbacks'[c]) = Len(callbacks[c]) - 1
             /\ \A i \in 1..Len(callbacks[c]) - 1 :
                  callbacks'[c][i] = callbacks[c][i + 1]
<1>1. PICK c \in Pending(callbacks) :
          /\ callbacks' = Pop(callbacks, c)
          /\ wcmd' = [wcmd EXCEPT ![w] = Head(callbacks[c])]
          /\ stage' = [stage EXCEPT ![Head(callbacks[c])] = "taken"]
  BY DEF Dequeue
<1>2. /\ c \in Clients
      /\ Len(callbacks[c]) \in Nat \ {0}
      /\ Head(callbacks[c]) = callbacks[c][1]
      /\ Head(callbacks[c]) \in Cmd
      /\ \A b \in Clients : b # c => Pop(callbacks, c)[b] = callbacks[b]
      /\ Len(Pop(callbacks, c)[c]) = Len(callbacks[c]) - 1
      /\ \A i \in 1..Len(callbacks[c]) - 1 :
           Pop(callbacks, c)[c][i] = callbacks[c][i + 1]
  <2>1. callbacks \in [Clients -> Seq(Cmd)]
    BY DEF ExecTypeOK
  <2> QED
    BY <1>1, <2>1, PopFacts
<1>3. stage[callbacks[c][1]] = "queued"
  BY <1>2 DEF ExecInv, QueueInv
<1> QED
  BY <1>1, <1>2, <1>3

(* And of an enqueue: one admitted command is new at the end of one FIFO. *)
LEMMA EnqueueFacts ==
    ASSUME ExecTypeOK, ExecInv, NEW c \in Clients, Enqueue(c)
    PROVE  /\ ccmd[c] \in Cmd /\ stage[ccmd[c]] = "admitted"
           /\ \A b \in Clients : b # c => callbacks'[b] = callbacks[b]
           /\ Len(callbacks'[c]) = Len(callbacks[c]) + 1
           /\ \A i \in 1..Len(callbacks[c]) : callbacks'[c][i] = callbacks[c][i]
           /\ callbacks'[c][Len(callbacks[c]) + 1] = ccmd[c]
<1> DEFINE x == ccmd[c]
<1>1. x \in Cmd /\ stage[x] = "admitted"
  BY DEF Enqueue, ExecTypeOK, ExecInv, QueueInv
<1>2. callbacks \in [Clients -> Seq(Cmd)] /\ callbacks' = Push(callbacks, c, x)
  BY DEF Enqueue, ExecTypeOK
<1> HIDE DEF x
<1>3. /\ \A b \in Clients : b # c => callbacks'[b] = callbacks[b]
      /\ Len(callbacks'[c]) = Len(callbacks[c]) + 1
      /\ \A i \in 1..Len(callbacks[c]) : callbacks'[c][i] = callbacks[c][i]
      /\ callbacks'[c][Len(callbacks[c]) + 1] = x
  BY <1>1, <1>2, PushFacts
<1> QED
  BY <1>1, <1>3 DEF x

LEMMA QueueStep == ExecTypeOK /\ ExecInv /\ [ExecNext]_execVars => QueueInv'
<1> SUFFICES ASSUME ExecTypeOK, ExecInv, [ExecNext]_execVars
             PROVE  QueueInv'
  OBVIOUS
<1> USE CmdAssumption
<1>0. \A c \in Clients :
        /\ Len(callbacks[c]) \in Nat
        /\ \A i \in 1..Len(callbacks[c]) : callbacks[c][i] \in Cmd
  BY ElementOfSeq, LenProperties DEF ExecTypeOK
<1>1. ASSUME NEW c \in Clients, NEW x \in Cmd, Admit(c, x)
      PROVE  QueueInv'
  BY <1>0, <1>1 DEF Admit, ExecTypeOK, ExecInv, QueueInv
<1>2. ASSUME NEW c \in Clients, NEW x \in Cmd, Refuse(c, x)
      PROVE  QueueInv'
  BY <1>0, <1>2 DEF Refuse, ExecTypeOK, ExecInv, QueueInv, clientVars
<1>3. ASSUME NEW c \in Clients, Enqueue(c)
      PROVE  QueueInv'
  <2> DEFINE x == ccmd[c]
             n == Len(callbacks[c])
  <2>1. x \in Cmd /\ stage[x] = "admitted"
    BY <1>3 DEF Enqueue, ExecTypeOK, ExecInv, QueueInv
  <2>2. /\ \A b \in Clients : b # c => callbacks'[b] = callbacks[b]
        /\ Len(callbacks'[c]) = n + 1
        /\ \A i \in 1..n : callbacks'[c][i] = callbacks[c][i]
        /\ callbacks'[c][n + 1] = x
    BY <1>3, EnqueueFacts
  <2>3. \A b \in Clients : \A i \in 1..Len(callbacks[b]) : callbacks[b][i] # x
    BY <2>1 DEF ExecInv, QueueInv
  <2>4. /\ stage' = [stage EXCEPT ![x] = "queued"]
        /\ cpc'[c] # "admitted"
        /\ \A b \in Clients : b # c => cpc'[b] = cpc[b] /\ ccmd'[b] = ccmd[b]
    BY <1>3 DEF Enqueue, ExecTypeOK
  <2>5. \A b \in Clients : b # c /\ cpc[b] = "admitted" => ccmd[b] # x
    BY <1>3 DEF Enqueue, ExecInv, QueueInv
  <2>6. \A b \in Clients : cpc'[b] = "admitted" => stage'[ccmd'[b]] = "admitted"
    BY <2>4, <2>5 DEF ExecTypeOK, ExecInv, QueueInv
  <2>7. \A a, b \in Clients :
          cpc'[a] = "admitted" /\ cpc'[b] = "admitted" /\ ccmd'[a] = ccmd'[b] => a = b
    BY <2>4 DEF ExecInv, QueueInv
  <2>8. \A b \in Clients : \A i \in 1..Len(callbacks'[b]) :
          \/ i \in 1..Len(callbacks[b]) /\ callbacks'[b][i] = callbacks[b][i]
          \/ b = c /\ i = n + 1 /\ callbacks'[b][i] = x
    BY <1>0, <2>2
  <2>9. \A b \in Clients : \A i \in 1..Len(callbacks'[b]) :
          stage'[callbacks'[b][i]] = "queued"
    <3> SUFFICES ASSUME NEW b \in Clients, NEW i \in 1..Len(callbacks'[b])
                 PROVE  stage'[callbacks'[b][i]] = "queued"
      OBVIOUS
    <3> DEFINE y == callbacks'[b][i]
    <3>1. y \in Cmd /\ (stage[y] = "queued" \/ y = x)
      BY <1>0, <2>1, <2>8 DEF ExecInv, QueueInv
    <3> HIDE DEF x, y
    <3>2. stage'[y] = "queued"
      BY <2>1, <2>4, <3>1 DEF ExecTypeOK
    <3> QED
      BY <3>2 DEF y
  <2>10. \A a, b \in Clients :
          \A i \in 1..Len(callbacks'[a]) : \A j \in 1..Len(callbacks'[b]) :
             callbacks'[a][i] = callbacks'[b][j] => a = b /\ i = j
    <3> SUFFICES ASSUME NEW a \in Clients, NEW b \in Clients,
                        NEW i \in 1..Len(callbacks'[a]), NEW j \in 1..Len(callbacks'[b]),
                        callbacks'[a][i] = callbacks'[b][j]
                 PROVE  a = b /\ i = j
      OBVIOUS
    <3> HIDE DEF x, n
    <3>0. \A r \in 1..Len(callbacks[a]) : \A s \in 1..Len(callbacks[b]) :
             callbacks[a][r] = callbacks[b][s] => a = b /\ r = s
      BY DEF ExecInv, QueueInv
    <3>1. CASE i \in 1..Len(callbacks[a]) /\ callbacks'[a][i] = callbacks[a][i]
      <4>1. callbacks'[b][j] # x
        BY <2>3, <3>1
      <4>2. j \in 1..Len(callbacks[b]) /\ callbacks'[b][j] = callbacks[b][j]
        BY <2>8, <4>1
      <4> QED
        BY <3>0, <3>1, <4>2
    <3>2. CASE a = c /\ i = n + 1 /\ callbacks'[a][i] = x
      <4>1. ~(j \in 1..Len(callbacks[b]) /\ callbacks'[b][j] = callbacks[b][j])
        BY <2>3, <3>2
      <4>2. b = c /\ j = n + 1
        BY <2>8, <4>1
      <4> QED
        BY <3>2, <4>2
    <3> QED
      BY <2>8, <3>1, <3>2
  <2> QED
    BY <2>6, <2>7, <2>9, <2>10 DEF QueueInv
<1>4. ASSUME NEW c \in Clients, EnqueueFails(c)
      PROVE  QueueInv'
  BY <1>0, <1>4 DEF EnqueueFails, ExecTypeOK, ExecInv, QueueInv
<1>5. ASSUME NEW c \in Clients, SyncReturn(c)
      PROVE  QueueInv'
  BY <1>0, <1>5 DEF SyncReturn, ExecTypeOK, ExecInv, QueueInv
<1>6. ASSUME NEW w \in Workers, Dequeue(w)
      PROVE  QueueInv'
  <2>1. UNCHANGED <<cpc, ccmd>>
    BY <1>6 DEF Dequeue, clientVars
  <2>2. PICK c \in Clients :
             /\ Len(callbacks[c]) \in Nat \ {0}
             /\ stage' = [stage EXCEPT ![callbacks[c][1]] = "taken"]
             /\ callbacks[c][1] \in Cmd
             /\ stage[callbacks[c][1]] = "queued"
             /\ \A b \in Clients : b # c => callbacks'[b] = callbacks[b]
             /\ Len(callbacks'[c]) = Len(callbacks[c]) - 1
             /\ \A i \in 1..Len(callbacks[c]) - 1 :
                  callbacks'[c][i] = callbacks[c][i + 1]
    BY <1>6, DequeueFacts
  <2>3. \A b \in Clients : cpc'[b] = "admitted" => stage'[ccmd'[b]] = "admitted"
    BY <2>1, <2>2 DEF ExecTypeOK, ExecInv, QueueInv
  <2> DEFINE old(b, i) == IF b = c THEN i + 1 ELSE i
  <2>4. \A b \in Clients : \A i \in 1..Len(callbacks'[b]) :
          /\ old(b, i) \in 1..Len(callbacks[b])
          /\ callbacks'[b][i] = callbacks[b][old(b, i)]
          /\ b = c => old(b, i) # 1
          /\ i \in Nat
    BY <1>0, <2>2
  <2>5. \A b \in Clients : \A i \in 1..Len(callbacks'[b]) :
          stage'[callbacks'[b][i]] = "queued"
    <3> SUFFICES ASSUME NEW b \in Clients, NEW i \in 1..Len(callbacks'[b])
                 PROVE  stage'[callbacks'[b][i]] = "queued"
      OBVIOUS
    <3> DEFINE j == old(b, i)
               x == callbacks[b][j]
    <3>1. j \in 1..Len(callbacks[b]) /\ callbacks'[b][i] = x /\ (b = c => j # 1)
      BY <2>4
    <3>2. 1 \in 1..Len(callbacks[c])
      BY <2>2
    <3>3. x # callbacks[c][1] /\ stage[x] = "queued" /\ x \in Cmd
      <4> HIDE DEF j
      <4> QED
        BY <1>0, <3>1, <3>2 DEF ExecInv, QueueInv
    <3> HIDE DEF x
    <3> QED
      BY <2>2, <3>1, <3>3 DEF ExecTypeOK
  <2>6. \A a, b \in Clients :
          \A i \in 1..Len(callbacks'[a]) : \A j \in 1..Len(callbacks'[b]) :
             callbacks'[a][i] = callbacks'[b][j] => a = b /\ i = j
    <3> SUFFICES ASSUME NEW a \in Clients, NEW b \in Clients,
                        NEW i \in 1..Len(callbacks'[a]), NEW j \in 1..Len(callbacks'[b]),
                        callbacks'[a][i] = callbacks'[b][j]
                 PROVE  a = b /\ i = j
      OBVIOUS
    <3>1. a = b /\ old(a, i) = old(b, j)
      <4>1. callbacks[a][old(a, i)] = callbacks[b][old(b, j)]
        BY <2>4
      <4>2. old(a, i) \in 1..Len(callbacks[a]) /\ old(b, j) \in 1..Len(callbacks[b])
        BY <2>4
      <4> HIDE DEF old
      <4> QED
        BY <4>1, <4>2 DEF ExecInv, QueueInv
    <3> QED
      BY <2>4, <3>1
  <2> QED
    BY <2>1, <2>3, <2>5, <2>6 DEF ExecInv, QueueInv
<1>7. ASSUME NEW w \in Workers, Execute(w)
      PROVE  QueueInv'
  <2>1. stage[wcmd[w]] = "taken" /\ stage' = [stage EXCEPT ![wcmd[w]] = "executed"]
    BY <1>7 DEF Execute, ExecInv, WorkerInv
  <2> QED
    BY <1>0, <1>7, <2>1 DEF Execute, ExecTypeOK, ExecInv, QueueInv, clientVars
<1>8. ASSUME NEW w \in Workers, Reply(w)
      PROVE  QueueInv'
  <2>1. stage[wcmd[w]] = "executed" /\ stage' = [stage EXCEPT ![wcmd[w]] = "replied"]
    BY <1>8 DEF Reply, ExecInv, WorkerInv
  <2> QED
    BY <1>0, <1>8, <2>1 DEF Reply, ExecTypeOK, ExecInv, QueueInv, clientVars
<1>9. ASSUME UNCHANGED <<callbacks, cpc, ccmd, stage>>
      PROVE  QueueInv'
  BY <1>9 DEF ExecInv, QueueInv
<1> QED
  BY <1>1, <1>2, <1>3, <1>4, <1>5, <1>6, <1>7, <1>8, <1>9
     DEF ExecNext, ClientStep, WorkerStep, OpenStub, CheckDone, Timeout, Dispose,
         CloseStub, FinishBegin, FinishEnd, execVars, clientVars
LEMMA WorkerInvStep == ExecTypeOK /\ ExecInv /\ [ExecNext]_execVars => WorkerInv'
<1> SUFFICES ASSUME ExecTypeOK, ExecInv, [ExecNext]_execVars
             PROVE  WorkerInv'
  OBVIOUS
<1> USE CmdAssumption DEF Holding
<1>1. ASSUME NEW c \in Clients, NEW x \in Cmd, Admit(c, x) \/ Refuse(c, x)
      PROVE  WorkerInv'
  <2>1. stage[x] = "new" /\ UNCHANGED <<wpc, wcmd>>
    BY <1>1 DEF Admit, Refuse, workerVars
  <2>2. stage' = [stage EXCEPT ![x] = "admitted"] \/ stage' = [stage EXCEPT ![x] = "refused"]
    BY <1>1 DEF Admit, Refuse
  <2> QED
    BY <2>1, <2>2 DEF ExecTypeOK, ExecInv, WorkerInv
<1>2. ASSUME NEW c \in Clients, Enqueue(c) \/ EnqueueFails(c)
      PROVE  WorkerInv'
  <2>1. stage[ccmd[c]] = "admitted" /\ UNCHANGED <<wpc, wcmd>>
    BY <1>2 DEF Enqueue, EnqueueFails, workerVars, ExecInv, QueueInv
  <2>2. \/ stage' = [stage EXCEPT ![ccmd[c]] = "queued"]
        \/ stage' = [stage EXCEPT ![ccmd[c]] = "refused"]
    BY <1>2 DEF Enqueue, EnqueueFails
  <2> QED
    BY <2>1, <2>2 DEF ExecTypeOK, ExecInv, WorkerInv
<1>3. ASSUME NEW w \in Workers,
             OpenStub(w) \/ CheckDone(w) \/ Timeout(w) \/ Dispose(w) \/ CloseStub(w)
      PROVE  WorkerInv'
  <2>1. /\ UNCHANGED <<wcmd, stage>>
        /\ \E place \in {"check", "waiting", "closing", "exited"} :
             wpc' = [wpc EXCEPT ![w] = place]
    BY <1>3 DEF OpenStub, CheckDone, Timeout, Dispose, CloseStub
  <2> QED
    BY <2>1 DEF ExecTypeOK, ExecInv, WorkerInv
<1>4. ASSUME NEW w \in Workers, Dequeue(w)
      PROVE  WorkerInv'
  <2>1. PICK x \in Cmd :
             /\ wcmd' = [wcmd EXCEPT ![w] = x]
             /\ stage' = [stage EXCEPT ![x] = "taken"]
             /\ stage[x] = "queued"
    BY <1>4, DequeueFacts
  <2>2. wpc' = [wpc EXCEPT ![w] = "executing"]
    BY <1>4 DEF Dequeue
  <2>3. \A v \in Workers : wpc[v] \in Holding => wcmd[v] # x
    BY <2>1 DEF ExecInv, WorkerInv
  <2> QED
    BY <2>1, <2>2, <2>3 DEF ExecTypeOK, ExecInv, WorkerInv
<1>5. ASSUME NEW w \in Workers, Execute(w) \/ Reply(w)
      PROVE  WorkerInv'
  <2> DEFINE x == wcmd[w]
  <2>1. x \in Cmd /\ UNCHANGED wcmd
    BY <1>5 DEF Execute, Reply, ExecTypeOK
  <2>2. \/ /\ stage' = [stage EXCEPT ![x] = "executed"]
           /\ \E place \in {"check", "callback", "disposing"} :
                wpc' = [wpc EXCEPT ![w] = place]
        \/ /\ stage' = [stage EXCEPT ![x] = "replied"]
           /\ \E place \in {"check", "disposing"} : wpc' = [wpc EXCEPT ![w] = place]
    BY <1>5 DEF Execute, Reply, AfterSwitch
  <2>3. wpc[w] \in Holding
    BY <1>5 DEF Execute, Reply
  <2>4. \A v \in Workers : v # w /\ wpc[v] \in Holding => wcmd[v] # x
    BY <2>3 DEF ExecInv, WorkerInv
  <2>5. \A v \in Workers : v # w =>
          /\ wpc'[v] = wpc[v]
          /\ wpc[v] \in Holding => stage'[wcmd[v]] = stage[wcmd[v]]
    BY <2>1, <2>2, <2>4 DEF ExecTypeOK
  <2>6. /\ wpc'[w] = "callback" => stage'[x] = "executed"
        /\ wpc'[w] = "disposing" => stage'[x] \in {"executed", "replied"}
        /\ wpc'[w] # "executing"
    BY <2>1, <2>2 DEF ExecTypeOK
  <2>7. \A v \in Workers : wpc'[v] \in Holding => wpc[v] \in Holding
    BY <2>3, <2>5
  <2> QED
    BY <2>1, <2>5, <2>6, <2>7 DEF ExecInv, WorkerInv
<1>6. ASSUME UNCHANGED <<wpc, wcmd, stage>>
      PROVE  WorkerInv'
  BY <1>6 DEF ExecInv, WorkerInv
<1> QED
  BY <1>1, <1>2, <1>3, <1>4, <1>5, <1>6
     DEF ExecNext, ClientStep, WorkerStep, SyncReturn, FinishBegin, FinishEnd,
         execVars, workerVars

LEMMA LogStep == ExecTypeOK /\ ExecInv /\ [ExecNext]_execVars => LogInv'
<1> SUFFICES ASSUME ExecTypeOK, ExecInv, [ExecNext]_execVars
             PROVE  LogInv'
  OBVIOUS
<1> USE CmdAssumption
<1>0. Len(log) \in Nat /\ \A i \in 1..Len(log) : log[i] \in Cmd
  BY ElementOfSeq, LenProperties DEF ExecTypeOK
<1>1. ASSUME UNCHANGED log,
             \A x \in Cmd : stage[x] \in {"executed", "replied"} =>
                               stage'[x] \in {"executed", "replied"}
      PROVE  LogInv'
  BY <1>0, <1>1 DEF ExecInv, LogInv
<1>2. ASSUME NEW c \in Clients, ClientStep(c)
      PROVE  LogInv'
  <2>1. UNCHANGED log
    BY <1>2 DEF ClientStep, Admit, Refuse, Enqueue, EnqueueFails, SyncReturn, workerVars
  <2>2. \/ UNCHANGED stage
        \/ \E x \in Cmd, to \in Stages :
             stage[x] \in {"new", "admitted"} /\ stage' = [stage EXCEPT ![x] = to]
    BY <1>2 DEF ClientStep, Admit, Refuse, Enqueue, EnqueueFails, SyncReturn, Stages,
                ExecTypeOK, ExecInv, QueueInv
  <2> QED
    BY <1>1, <2>1, <2>2 DEF ExecTypeOK
<1>3. ASSUME NEW w \in Workers, Dequeue(w)
      PROVE  LogInv'
  <2>1. \E x \in Cmd : stage[x] = "queued" /\ stage' = [stage EXCEPT ![x] = "taken"]
    BY <1>3, DequeueFacts
  <2>2. UNCHANGED log
    BY <1>3 DEF Dequeue
  <2> QED
    BY <1>1, <2>1, <2>2 DEF ExecTypeOK
<1>4. ASSUME NEW w \in Workers, Execute(w)
      PROVE  LogInv'
  <2> DEFINE x == wcmd[w]
  <2>1. x \in Cmd /\ stage[x] = "taken"
    BY <1>4 DEF Execute, ExecTypeOK, Holding, ExecInv, WorkerInv
  <2>2. stage' = [stage EXCEPT ![x] = "executed"]
    BY <1>4 DEF Execute
  <2>3. /\ Len(log') = Len(log) + 1
        /\ \A i \in 1..Len(log) : log'[i] = log[i]
        /\ log'[Len(log) + 1] = x
    <3>1. log \in Seq(Cmd) /\ log' = Append(log, x)
      BY <1>4 DEF Execute, ExecTypeOK
    <3> QED
      BY <2>1, <3>1, AppendProperties
  <2>4. \A i \in 1..Len(log) : log[i] # x
    BY <2>1 DEF ExecInv, LogInv
  <2>5. \A i \in 1..Len(log') :
          \/ i \in 1..Len(log) /\ log'[i] = log[i]
          \/ i = Len(log) + 1 /\ log'[i] = x
    BY <1>0, <2>3
  <2> HIDE DEF x
  <2>6. \A i \in 1..Len(log') : stage'[log'[i]] \in {"executed", "replied"}
    <3> SUFFICES ASSUME NEW i \in 1..Len(log')
                 PROVE  stage'[log'[i]] \in {"executed", "replied"}
      OBVIOUS
    <3>1. log'[i] \in Cmd /\ (log'[i] = x \/ stage[log'[i]] \in {"executed", "replied"})
      BY <1>0, <2>1, <2>5 DEF ExecInv, LogInv
    <3> QED
      BY <2>1, <2>2, <3>1 DEF ExecTypeOK
  <2>7. \A i, j \in 1..Len(log') : log'[i] = log'[j] => i = j
    BY <2>4, <2>5 DEF ExecInv, LogInv
  <2> QED
    BY <2>6, <2>7 DEF LogInv
<1>5. ASSUME NEW w \in Workers, Reply(w)
      PROVE  LogInv'
  <2>1. UNCHANGED log /\ stage' = [stage EXCEPT ![wcmd[w]] = "replied"]
    BY <1>5 DEF Reply
  <2> QED
    BY <1>1, <2>1 DEF ExecTypeOK
<1>6. ASSUME UNCHANGED <<log, stage>>
      PROVE  LogInv'
  BY <1>6 DEF ExecInv, LogInv
<1> QED
  BY <1>2, <1>3, <1>4, <1>5, <1>6
     DEF ExecNext, WorkerStep, OpenStub, CheckDone, Timeout, Dispose, CloseStub,
         FinishBegin, FinishEnd, execVars, workerVars

LEMMA LateStep == ExecTypeOK /\ ExecInv /\ [ExecNext]_execVars => LateInv'
<1> SUFFICES ASSUME ExecTypeOK, ExecInv, [ExecNext]_execVars
             PROVE  LateInv'
  OBVIOUS
<1>1. ASSUME NEW c \in Clients, ClientStep(c)
      PROVE  LateInv'
  BY <1>1 DEF ClientStep, Admit, Refuse, Enqueue, EnqueueFails, SyncReturn,
              workerVars, ExecInv, LateInv
<1>2. ASSUME NEW w \in Workers,
             OpenStub(w) \/ Timeout(w) \/ Reply(w) \/ Dispose(w) \/ CloseStub(w)
      PROVE  LateInv'
  <2>1. /\ UNCHANGED <<done, late>>
        /\ \E place \in {"check", "disposing", "exited"} : wpc' = [wpc EXCEPT ![w] = place]
    BY <1>2 DEF OpenStub, Timeout, Reply, AfterSwitch, Dispose, CloseStub
  <2> QED
    BY <2>1 DEF ExecTypeOK, ExecInv, LateInv
<1>3. ASSUME NEW w \in Workers, CheckDone(w)
      PROVE  LateInv'
  BY <1>3 DEF CheckDone, ExecTypeOK, ExecInv, LateInv
<1>4. ASSUME NEW w \in Workers, Dequeue(w)
      PROVE  LateInv'
  BY <1>4 DEF Dequeue, ExecTypeOK, ExecInv, LateInv
<1>5. ASSUME NEW w \in Workers, Execute(w)
      PROVE  LateInv'
  <2>1. late[w] = 0
    BY <1>5 DEF Execute, ExecInv, LateInv
  <2>2. UNCHANGED done /\ wpc'[w] \notin {"waiting", "executing"}
    BY <1>5 DEF Execute, AfterSwitch, ExecTypeOK
  <2>3. \A v \in Workers : v # w => wpc'[v] = wpc[v] /\ late'[v] = late[v]
    BY <1>5 DEF Execute, ExecTypeOK
  <2>4. late'[w] \in {0, 1} /\ (~done => late'[w] = 0)
    BY <1>5, <2>1 DEF Execute, ExecTypeOK
  <2> QED
    BY <2>2, <2>3, <2>4 DEF ExecInv, LateInv
<1>6. CASE FinishBegin
  BY <1>6 DEF FinishBegin, workerVars, ExecInv, LateInv
<1>7. ASSUME UNCHANGED <<done, wpc, late>>
      PROVE  LateInv'
  BY <1>7 DEF ExecInv, LateInv
<1> QED
  BY <1>1, <1>2, <1>3, <1>4, <1>5, <1>6, <1>7
     DEF ExecNext, WorkerStep, FinishEnd, execVars, workerVars

LEMMA FinStep == ExecTypeOK /\ ExecInv /\ [ExecNext]_execVars => FinInv'
<1> SUFFICES ASSUME ExecTypeOK, ExecInv, [ExecNext]_execVars
             PROVE  FinInv'
  OBVIOUS
<1>1. ASSUME NEW c \in Clients, ClientStep(c)
      PROVE  FinInv'
  BY <1>1 DEF ClientStep, Admit, Refuse, Enqueue, EnqueueFails, SyncReturn,
              workerVars, ExecInv, FinInv
<1>2. ASSUME NEW w \in Workers, WorkerStep(w)
      PROVE  FinInv'
  <2>1. UNCHANGED <<done, fin>> /\ wpc[w] # "exited"
    BY <1>2 DEF WorkerStep, OpenStub, CheckDone, Dequeue, Timeout, Execute, Reply,
                Dispose, CloseStub
  <2> QED
    BY <2>1 DEF ExecInv, FinInv
<1>3. CASE FinishBegin
  BY <1>3 DEF FinishBegin, workerVars, ExecInv, FinInv
<1>4. CASE FinishEnd
  BY <1>4 DEF FinishEnd, workerVars, ExecInv, FinInv
<1>5. CASE UNCHANGED execVars
  BY <1>5 DEF execVars, ExecInv, FinInv
<1> QED
  BY <1>1, <1>2, <1>3, <1>4, <1>5 DEF ExecNext
(* The heart of the memory safety of the synchronous calls. *)
LEMMA BorrowStep == ExecTypeOK /\ ExecInv /\ [ExecNext]_execVars => BorrowInv'
<1> SUFFICES ASSUME ExecTypeOK, ExecInv, [ExecNext]_execVars
             PROVE  BorrowInv'
  OBVIOUS
<1> USE CmdAssumption DEF Holding
<1>0. \A c \in Clients :
        /\ Len(callbacks[c]) \in Nat
        /\ \A i \in 1..Len(callbacks[c]) : callbacks[c][i] \in Cmd
  BY ElementOfSeq, LenProperties DEF ExecTypeOK
<1>1. ASSUME NEW c \in Clients, NEW x \in Cmd, Admit(c, x) \/ Refuse(c, x)
      PROVE  BorrowInv'
  <2>1. /\ cpc[c] = "idle" /\ stage[x] = "new"
        /\ \E to \in Stages : stage' = [stage EXCEPT ![x] = to]
        /\ UNCHANGED <<callbacks, ready, wpc, wcmd>>
        /\ \A b \in Clients : b # c => cpc'[b] = cpc[b] /\ ccmd'[b] = ccmd[b]
    BY <1>1 DEF Admit, Refuse, clientVars, workerVars, Stages, ExecTypeOK
  <2>2. \A y \in ready' : stage'[y] \in {"executed", "replied"}
    BY <2>1 DEF ExecTypeOK, ExecInv, BorrowInv
  <2> QED
    BY <2>1, <2>2 DEF ExecInv, BorrowInv
<1>2. ASSUME NEW c \in Clients, Enqueue(c)
      PROVE  BorrowInv'
  <2> DEFINE x == ccmd[c]
             n == Len(callbacks[c])
  <2>1. x \in Cmd /\ stage[x] = "admitted" /\ cpc[c] = "admitted"
    BY <1>2 DEF Enqueue, ExecTypeOK, ExecInv, QueueInv
  <2>2. /\ \A b \in Clients : b # c => callbacks'[b] = callbacks[b]
        /\ Len(callbacks'[c]) = n + 1
        /\ \A i \in 1..n : callbacks'[c][i] = callbacks[c][i]
        /\ callbacks'[c][n + 1] = x
    BY <1>2, EnqueueFacts
  <2>3. /\ stage' = [stage EXCEPT ![x] = "queued"]
        /\ UNCHANGED <<ready, wpc, wcmd>>
        /\ \A b \in Clients : b # c => cpc'[b] = cpc[b] /\ ccmd'[b] = ccmd[b]
        /\ x \in SyncCmd => cpc'[c] = "waiting" /\ ccmd'[c] = x
    BY <1>2 DEF Enqueue, workerVars, ExecTypeOK
  <2>4. \A i \in 1..n : callbacks[c][i] \notin SyncCmd
    BY <2>1 DEF ExecInv, BorrowInv
  <2> HIDE DEF x
  <2>5. \A y \in ready' : stage'[y] \in {"executed", "replied"}
    BY <2>1, <2>3 DEF ExecTypeOK, ExecInv, BorrowInv
  <2>6. \A b \in Clients : \A i \in 1..Len(callbacks'[b]) :
          callbacks'[b][i] \in SyncCmd => cpc'[b] = "waiting" /\ ccmd'[b] = callbacks'[b][i]
    <3>1. \A i \in 1..Len(callbacks'[c]) :
            callbacks'[c][i] \in SyncCmd => i = n + 1
      BY <1>0, <2>2, <2>4
    <3>2. \A i \in 1..Len(callbacks'[c]) :
            callbacks'[c][i] \in SyncCmd =>
              cpc'[c] = "waiting" /\ ccmd'[c] = callbacks'[c][i]
      <4> HIDE DEF n
      <4> QED
        BY <2>2, <2>3, <3>1
    <3> QED
      BY <2>2, <2>3, <3>2 DEF ExecInv, BorrowInv
  <2>7. \A w \in Workers :
          wpc'[w] \in Holding /\ wcmd'[w] \in SyncCmd =>
             \E b \in Clients : cpc'[b] = "waiting" /\ ccmd'[b] = wcmd'[w]
    BY <2>1, <2>3 DEF ExecInv, BorrowInv
  <2> QED
    BY <2>3, <2>5, <2>6, <2>7 DEF ExecInv, BorrowInv
<1>3. ASSUME NEW c \in Clients, EnqueueFails(c)
      PROVE  BorrowInv'
  <2>1. /\ ccmd[c] \in Cmd /\ stage[ccmd[c]] = "admitted" /\ cpc[c] = "admitted"
        /\ stage' = [stage EXCEPT ![ccmd[c]] = "refused"]
        /\ UNCHANGED <<callbacks, ready, wpc, wcmd>>
        /\ \A b \in Clients : b # c => cpc'[b] = cpc[b] /\ ccmd'[b] = ccmd[b]
    BY <1>3 DEF EnqueueFails, workerVars, ExecTypeOK, ExecInv, QueueInv
  <2>2. \A y \in ready' : stage'[y] \in {"executed", "replied"}
    BY <2>1 DEF ExecTypeOK, ExecInv, BorrowInv
  <2> QED
    BY <2>1, <2>2 DEF ExecInv, BorrowInv
<1>4. ASSUME NEW c \in Clients, SyncReturn(c)
      PROVE  BorrowInv'
  <2>1. /\ ccmd[c] \in ready /\ UNCHANGED <<callbacks, ready, wpc, wcmd, stage>>
        /\ \A b \in Clients : b # c => cpc'[b] = cpc[b] /\ ccmd'[b] = ccmd[b]
    BY <1>4 DEF SyncReturn, workerVars, ExecTypeOK
  <2>2. \A i \in 1..Len(callbacks[c]) : callbacks[c][i] \notin SyncCmd
    <3>1. \A i \in 1..Len(callbacks[c]) : callbacks[c][i] # ccmd[c]
      BY <2>1 DEF ExecInv, BorrowInv, QueueInv
    <3> QED
      BY <3>1 DEF ExecInv, BorrowInv
  <2>3. \A w \in Workers : wpc[w] \in Holding => wcmd[w] # ccmd[c]
    BY <2>1 DEF ExecInv, BorrowInv
  <2>4. \A w \in Workers :
          wpc'[w] \in Holding /\ wcmd'[w] \in SyncCmd =>
             \E b \in Clients : cpc'[b] = "waiting" /\ ccmd'[b] = wcmd'[w]
    BY <2>1, <2>3 DEF ExecInv, BorrowInv
  <2> QED
    BY <2>1, <2>2, <2>4 DEF ExecInv, BorrowInv
<1>5. ASSUME NEW w \in Workers, Dequeue(w)
      PROVE  BorrowInv'
  <2>1. PICK c \in Clients :
             /\ Len(callbacks[c]) \in Nat \ {0}
             /\ wcmd' = [wcmd EXCEPT ![w] = callbacks[c][1]]
             /\ stage' = [stage EXCEPT ![callbacks[c][1]] = "taken"]
             /\ callbacks[c][1] \in Cmd
             /\ stage[callbacks[c][1]] = "queued"
             /\ \A b \in Clients : b # c => callbacks'[b] = callbacks[b]
             /\ Len(callbacks'[c]) = Len(callbacks[c]) - 1
             /\ \A i \in 1..Len(callbacks[c]) - 1 :
                  callbacks'[c][i] = callbacks[c][i + 1]
    BY <1>5, DequeueFacts
  <2>2. UNCHANGED <<ready, cpc, ccmd>> /\ wpc' = [wpc EXCEPT ![w] = "executing"]
    BY <1>5 DEF Dequeue, clientVars
  <2> DEFINE x == callbacks[c][1]
  <2>3. x \in SyncCmd => cpc[c] = "waiting" /\ ccmd[c] = x
    <3>1. 1 \in 1..Len(callbacks[c])
      BY <2>1
    <3> QED
      BY <3>1 DEF ExecInv, BorrowInv
  <2>4. \A b \in Clients : \A i \in 1..Len(callbacks'[b]) :
          \E j \in 1..Len(callbacks[b]) : callbacks'[b][i] = callbacks[b][j]
    <3>1. \A i \in 1..Len(callbacks'[c]) :
            i + 1 \in 1..Len(callbacks[c]) /\ callbacks'[c][i] = callbacks[c][i + 1]
      BY <2>1
    <3> QED
      BY <2>1, <3>1
  <2>5. \A b \in Clients : \A i \in 1..Len(callbacks'[b]) :
          callbacks'[b][i] \in SyncCmd => cpc'[b] = "waiting" /\ ccmd'[b] = callbacks'[b][i]
    BY <2>2, <2>4 DEF ExecInv, BorrowInv
  <2> HIDE DEF x
  <2>6. x \in Cmd /\ stage[x] = "queued" /\ stage' = [stage EXCEPT ![x] = "taken"]
        /\ wcmd' = [wcmd EXCEPT ![w] = x]
    BY <2>1 DEF x
  <2>7. x \notin ready
    BY <2>6 DEF ExecInv, BorrowInv
  <2>8. \A y \in ready' : stage'[y] \in {"executed", "replied"}
    BY <2>2, <2>6, <2>7 DEF ExecTypeOK, ExecInv, BorrowInv
  <2>9. \A v \in Workers : wpc'[v] \in Holding => wcmd'[v] \notin ready'
    BY <2>2, <2>6, <2>7 DEF ExecTypeOK, ExecInv, BorrowInv
  <2>10. \A v \in Workers :
          wpc'[v] \in Holding /\ wcmd'[v] \in SyncCmd =>
             \E b \in Clients : cpc'[b] = "waiting" /\ ccmd'[b] = wcmd'[v]
    BY <2>2, <2>3, <2>6 DEF ExecTypeOK, ExecInv, BorrowInv
  <2> QED
    BY <2>5, <2>8, <2>9, <2>10 DEF BorrowInv
<1>6. ASSUME NEW w \in Workers, Execute(w) \/ Reply(w)
      PROVE  BorrowInv'
  <2>1. /\ UNCHANGED <<callbacks, ready, cpc, ccmd, wcmd>>
        /\ wpc[w] \in Holding
        /\ \A v \in Workers : wpc'[v] \in Holding => wpc[v] \in Holding
        /\ \E to \in {"executed", "replied"} : stage' = [stage EXCEPT ![wcmd[w]] = to]
    BY <1>6 DEF Execute, Reply, AfterSwitch, clientVars, ExecTypeOK
  <2>2. \A y \in ready' : stage'[y] \in {"executed", "replied"}
    BY <2>1 DEF ExecTypeOK, ExecInv, BorrowInv
  <2> QED
    BY <2>1, <2>2 DEF ExecInv, BorrowInv
<1>7. ASSUME NEW w \in Workers, Dispose(w)
      PROVE  BorrowInv'
  <2>1. /\ UNCHANGED <<callbacks, cpc, ccmd, wcmd, stage>>
        /\ wpc[w] = "disposing"
        /\ ready' = ready \cup {wcmd[w]}
        /\ wpc' = [wpc EXCEPT ![w] = "check"]
    BY <1>7 DEF Dispose, clientVars
  <2>2. stage[wcmd[w]] \in {"executed", "replied"}
    BY <2>1 DEF ExecInv, WorkerInv
  <2>3. \A v \in Workers : wpc'[v] \in Holding => v # w /\ wpc[v] \in Holding
    BY <2>1 DEF ExecTypeOK
  <2>4. \A v \in Workers : wpc'[v] \in Holding => wcmd[v] # wcmd[w]
    BY <2>1, <2>3 DEF ExecInv, WorkerInv
  <2> QED
    BY <2>1, <2>2, <2>3, <2>4 DEF ExecInv, BorrowInv
<1>8. ASSUME NEW w \in Workers,
             OpenStub(w) \/ CheckDone(w) \/ Timeout(w) \/ CloseStub(w)
      PROVE  BorrowInv'
  <2>1. /\ UNCHANGED <<callbacks, ready, cpc, ccmd, wcmd, stage>>
        /\ \E place \in {"check", "waiting", "closing", "exited"} :
             wpc' = [wpc EXCEPT ![w] = place]
    BY <1>8 DEF OpenStub, CheckDone, Timeout, CloseStub, clientVars
  <2>2. \A v \in Workers : wpc'[v] \in Holding => wpc[v] \in Holding
    BY <2>1 DEF ExecTypeOK
  <2> QED
    BY <2>1, <2>2 DEF ExecInv, BorrowInv
<1>9. ASSUME UNCHANGED <<callbacks, ready, cpc, ccmd, wpc, wcmd, stage>>
      PROVE  BorrowInv'
  BY <1>9 DEF ExecInv, BorrowInv
<1> QED
  BY <1>1, <1>2, <1>3, <1>4, <1>5, <1>6, <1>7, <1>8, <1>9
     DEF ExecNext, ClientStep, WorkerStep, FinishBegin, FinishEnd, execVars,
         clientVars, workerVars

LEMMA InvStep == ExecTypeOK /\ ExecInv /\ [ExecNext]_execVars => ExecInv'
  BY QueueStep, WorkerInvStep, BorrowStep, LogStep, LateStep, FinStep DEF ExecInv

(* The inductive invariant holds in every run of the execution queue. *)
THEOREM ExecInvariance == ExecSpec => []ExecInv
<1>1. ExecInit => ExecTypeOK /\ ExecInv
  BY TypeInit, InvInit
<1>2. ExecTypeOK /\ ExecInv /\ [ExecNext]_execVars => (ExecTypeOK /\ ExecInv)'
  BY TypeStep, InvStep
<1> QED
  BY <1>1, <1>2, PTL DEF ExecSpec

-----------------------------------------------------------------------------
(* The safety properties. *)

(* No queued or running synchronous command outlives the frame it points into,
   however the worker, the other callers and Finish interleave. *)
THEOREM BorrowSafety == ExecSpec => []CallerOutlivesCommand
<1>1. ExecTypeOK /\ ExecInv => CallerOutlivesCommand
  BY DEF ExecInv, BorrowInv, CallerOutlivesCommand, Borrowing, Holding
<1> QED
  BY <1>1, ExecTyping, ExecInvariance, PTL

(* No command is executed twice and no two workers share one. *)
THEOREM AtMostOnce == ExecSpec => []ExecutedOnce
<1>1. ExecTypeOK /\ ExecInv => ExecutedOnce
  <2> SUFFICES ASSUME ExecTypeOK, ExecInv PROVE ExecutedOnce
    OBVIOUS
  <2>1. DOMAIN log = 1..Len(log)
    BY LenProperties DEF ExecTypeOK
  <2> QED
    BY <2>1 DEF ExecInv, WorkerInv, LogInv, ExecutedOnce
<1> QED
  BY <1>1, ExecTyping, ExecInvariance, PTL

(* Each worker executes at most one command after _done is set, so a shutdown
   waits for at most as many commands as there are workers. *)
THEOREM BoundedDrain == ExecSpec => []AtMostOneLate
<1>1. ExecInv => AtMostOneLate
  BY DEF ExecInv, LateInv, AtMostOneLate
<1> QED
  BY <1>1, ExecInvariance, PTL

(* Once Finish has returned the workers are silent for ever. *)
THEOREM FinishIsFinal == ExecSpec => QuietAfterFinish
<1>1. ExecInv /\ [ExecNext]_execVars =>
        [fin = "joined" => UNCHANGED <<log, ready, wpc>>]_execVars
  <2> SUFFICES ASSUME ExecInv, ExecNext, fin = "joined"
               PROVE  UNCHANGED <<log, ready, wpc>>
    OBVIOUS
  <2>1. \A w \in Workers : wpc[w] = "exited"
    BY DEF ExecInv, FinInv
  <2>2. \A w \in Workers : ~WorkerStep(w)
    BY <2>1 DEF WorkerStep, OpenStub, CheckDone, Dequeue, Timeout, Execute, Reply,
                Dispose, CloseStub
  <2> QED
    BY <2>2 DEF ExecNext, ClientStep, Admit, Refuse, Enqueue, EnqueueFails, SyncReturn,
                FinishBegin, FinishEnd, clientVars, workerVars
<1> QED
  BY <1>1, ExecInvariance, PTL DEF ExecSpec, QuietAfterFinish
-----------------------------------------------------------------------------
(* What a step of a worker leaves behind. *)

LEMMA ProgressInit == ExecInit => ProgressInv
  BY CmdAssumption DEF ExecInit, ProgressInv

LEMMA ProgressStep ==
    ExecTypeOK /\ ExecInv /\ ProgressInv /\ [ExecNext]_execVars => ProgressInv'
<1> SUFFICES ASSUME ExecTypeOK, ExecInv, ProgressInv, [ExecNext]_execVars
             PROVE  ProgressInv'
  OBVIOUS
<1> USE CmdAssumption
<1> DEFINE Logged(x) == \E i \in 1..Len(log) : log[i] = x
           LoggedNow(x) == \E i \in 1..Len(log') : log'[i] = x
<1>1. ASSUME NEW x \in Cmd, NEW to \in {"refused", "admitted", "queued"},
             stage[x] \in {"new", "admitted"}, stage' = [stage EXCEPT ![x] = to],
             UNCHANGED <<ready, wpc, wcmd, log>>
      PROVE  ProgressInv'
  <2>1. /\ stage'[x] = to
        /\ \A y \in Cmd : y # x => stage'[y] = stage[y]
    BY <1>1 DEF ExecTypeOK
  <2>2. x \notin ready /\ \A w \in Workers : wpc[w] \in {"callback", "disposing"} => wcmd[w] # x
    BY <1>1 DEF ExecInv, BorrowInv, WorkerInv
  <2>3. \A w \in Workers : wpc[w] \in {"callback", "disposing"} => wcmd[w] \in Cmd
    BY DEF ExecTypeOK, Holding
  <2>4. ready \subseteq Cmd
    BY DEF ExecTypeOK
  <2> QED
    BY <1>1, <2>1, <2>2, <2>3, <2>4 DEF ProgressInv
<1>2. ASSUME NEW c \in Clients, ClientStep(c)
      PROVE  ProgressInv'
  <2>1. ASSUME NEW x \in Cmd, Admit(c, x) \/ Refuse(c, x)
        PROVE  ProgressInv'
    BY <1>1, <2>1 DEF Admit, Refuse, clientVars, workerVars
  <2>2. CASE Enqueue(c) \/ EnqueueFails(c)
    <3>1. ccmd[c] \in Cmd /\ stage[ccmd[c]] = "admitted"
      BY <2>2 DEF Enqueue, EnqueueFails, ExecTypeOK, ExecInv, QueueInv
    <3> QED
      BY <1>1, <2>2, <3>1 DEF Enqueue, EnqueueFails, workerVars
  <2>3. CASE SyncReturn(c)
    BY <2>3 DEF SyncReturn, workerVars, ProgressInv
  <2> QED
    BY <1>2, <2>1, <2>2, <2>3 DEF ClientStep
<1>3. ASSUME NEW w \in Workers,
             OpenStub(w) \/ CheckDone(w) \/ Timeout(w) \/ CloseStub(w)
      PROVE  ProgressInv'
  <2>1. /\ wpc[w] \in {"opening", "check", "waiting", "closing"}
        /\ \E place \in {"check", "waiting", "closing", "exited"} :
             wpc' = [wpc EXCEPT ![w] = place]
        /\ UNCHANGED <<ready, wcmd, stage, log>>
    BY <1>3 DEF OpenStub, CheckDone, Timeout, CloseStub
  <2>2. \A v \in Workers : \A place \in {"executing", "callback", "disposing"} :
          wpc'[v] = place <=> wpc[v] = place
    BY <2>1 DEF ExecTypeOK
  <2> QED
    BY <2>1, <2>2 DEF ProgressInv
<1>4. ASSUME NEW w \in Workers, Dequeue(w)
      PROVE  ProgressInv'
  <2>1. PICK x \in Cmd : /\ stage[x] = "queued"
                         /\ stage' = [stage EXCEPT ![x] = "taken"]
                         /\ wcmd' = [wcmd EXCEPT ![w] = x]
    BY <1>4, DequeueFacts
  <2>2. /\ wpc[w] = "waiting" /\ wpc' = [wpc EXCEPT ![w] = "executing"]
        /\ UNCHANGED <<ready, log>>
    BY <1>4 DEF Dequeue
  <2>3. /\ wpc'[w] = "executing" /\ wcmd'[w] = x
        /\ \A v \in Workers : v # w => wpc'[v] = wpc[v] /\ wcmd'[v] = wcmd[v]
        /\ stage'[x] = "taken"
        /\ \A y \in Cmd : y # x => stage'[y] = stage[y]
    BY <2>1, <2>2 DEF ExecTypeOK
  <2>4. x \notin ready /\ \A v \in Workers : wpc[v] \in {"callback", "disposing"} => wcmd[v] # x
    BY <2>1 DEF ExecInv, BorrowInv, WorkerInv
  <2>5. \A v \in Workers : wpc[v] \in {"callback", "disposing"} => wcmd[v] \in Cmd /\ v # w
    BY <2>2 DEF ExecTypeOK, Holding
  <2>6. ready \subseteq Cmd
    BY DEF ExecTypeOK
  <2>7. \A v \in Workers : v # w /\ wpc[v] = "executing" => wpc'[v] = "executing" /\ wcmd'[v] = wcmd[v]
    BY <2>3
  <2>8. \A y \in Cmd : stage'[y] = "taken" => \E v \in Workers : wpc'[v] = "executing" /\ wcmd'[v] = y
    <3> SUFFICES ASSUME NEW y \in Cmd, stage'[y] = "taken", y # x
                 PROVE  \E v \in Workers : wpc'[v] = "executing" /\ wcmd'[v] = y
      BY <2>3
    <3>1. PICK v \in Workers : wpc[v] = "executing" /\ wcmd[v] = y
      BY <2>3 DEF ProgressInv
    <3> QED
      BY <2>2, <2>7, <3>1
  <2> QED
    BY <2>2, <2>3, <2>4, <2>5, <2>6, <2>8 DEF ProgressInv
<1>5. ASSUME NEW w \in Workers, Execute(w)
      PROVE  ProgressInv'
  <2> DEFINE x == wcmd[w]
  <2>1. /\ x \in Cmd /\ stage[x] = "taken" /\ wpc[w] = "executing" /\ x \notin ready
        /\ UNCHANGED <<ready, wcmd>>
        /\ stage' = [stage EXCEPT ![x] = "executed"]
        /\ wpc' = [wpc EXCEPT ![w] = IF x \in ReplyCmd THEN "callback" ELSE AfterSwitch(x)]
    BY <1>5 DEF Execute, ExecTypeOK, Holding, ExecInv, WorkerInv, BorrowInv
  <2>2. /\ \A y : Logged(y) => LoggedNow(y)
        /\ LoggedNow(x)
    <3>1. /\ log \in Seq(Cmd) /\ log' = Append(log, x)
      BY <1>5 DEF Execute, ExecTypeOK
    <3>2. /\ Len(log') = Len(log) + 1 /\ Len(log) \in Nat
          /\ \A i \in 1..Len(log) : log'[i] = log[i]
          /\ log'[Len(log) + 1] = x
      BY <2>1, <3>1, AppendProperties, LenProperties
    <3> QED
      BY <3>2
  <2> HIDE DEF x, Logged, LoggedNow
  <2>3. \A v \in Workers :
          v # w /\ wpc[v] \in {"executing", "callback", "disposing"} => wcmd[v] # x /\ wcmd[v] \in Cmd
    BY <2>1 DEF ExecInv, WorkerInv, Holding, ExecTypeOK, x
  <2>4. /\ stage'[x] = "executed"
        /\ \A y \in Cmd : y # x => stage'[y] = stage[y]
        /\ wpc'[w] = IF x \in ReplyCmd THEN "callback" ELSE AfterSwitch(x)
        /\ \A v \in Workers : v # w => wpc'[v] = wpc[v]
        /\ wcmd'[w] = x
    BY <2>1 DEF ExecTypeOK, x
  <2>5. \A v \in Workers :
          /\ wpc'[v] = "callback" => wcmd'[v] \in ReplyCmd
          /\ wpc'[v] = "disposing" =>
               /\ wcmd'[v] \in SyncCmd
               /\ wcmd'[v] \in ReplyCmd => stage'[wcmd'[v]] = "replied"
    BY <2>1, <2>3, <2>4 DEF ProgressInv, AfterSwitch
  <2>6. \A y \in ready' : y \in SyncCmd /\ (y \in ReplyCmd => stage'[y] = "replied")
    BY <2>1, <2>4 DEF ProgressInv, ExecTypeOK
  <2>7. ASSUME NEW y \in Cmd
        PROVE  /\ stage'[y] = "replied" => y \in ReplyCmd
               /\ stage'[y] \in {"executed", "replied"} => LoggedNow(y)
               /\ stage'[y] = "taken" => \E v \in Workers : wpc'[v] = "executing" /\ wcmd'[v] = y
               /\ stage'[y] = "executed" /\ y \in ReplyCmd =>
                    \E v \in Workers : wpc'[v] = "callback" /\ wcmd'[v] = y
               /\ stage'[y] \in {"executed", "replied"} /\ y \in SyncCmd =>
                    \/ y \in ready'
                    \/ \E v \in Workers : wpc'[v] \in {"callback", "disposing"} /\ wcmd'[v] = y
    <3>1. CASE y = x
      BY <2>2, <2>4, <3>1 DEF AfterSwitch
    <3>2. CASE y # x
      <4>1. stage'[y] = stage[y]
        BY <2>4, <3>2
      <4>2. \A v \in Workers : v # w => wpc'[v] = wpc[v] /\ wcmd'[v] = wcmd[v]
        BY <2>1, <2>4
      <4>3. \A v \in Workers : wcmd[v] = y => v # w
        BY <3>2 DEF x
      <4>4. stage[y] \in {"executed", "replied"} => Logged(y)
        BY DEF ProgressInv, Logged
      <4>5. stage[y] = "taken" => \E v \in Workers : wpc'[v] = "executing" /\ wcmd'[v] = y
        BY <4>2, <4>3 DEF ProgressInv
      <4>6. stage[y] = "executed" /\ y \in ReplyCmd =>
              \E v \in Workers : wpc'[v] = "callback" /\ wcmd'[v] = y
        BY <4>2, <4>3 DEF ProgressInv
      <4>7. stage[y] \in {"executed", "replied"} /\ y \in SyncCmd =>
              \/ y \in ready
              \/ \E v \in Workers : wpc'[v] \in {"callback", "disposing"} /\ wcmd'[v] = y
        BY <4>2, <4>3 DEF ProgressInv
      <4>8. stage[y] = "replied" => y \in ReplyCmd
        BY DEF ProgressInv
      <4> QED
        BY <2>1, <2>2, <4>1, <4>4, <4>5, <4>6, <4>7, <4>8
    <3> QED
      BY <3>1, <3>2
  <2> QED
    BY <2>5, <2>6, <2>7 DEF ProgressInv, LoggedNow
<1>6. ASSUME NEW w \in Workers, Reply(w) \/ Dispose(w)
      PROVE  ProgressInv'
  <2> DEFINE x == wcmd[w]
  <2>1. /\ x \in Cmd /\ x \notin ready /\ stage[x] \in {"executed", "replied"}
        /\ wpc[w] \in {"callback", "disposing"}
        /\ UNCHANGED <<wcmd, log>>
        /\ wpc' = [wpc EXCEPT ![w] = IF wpc[w] = "callback" THEN AfterSwitch(x) ELSE "check"]
        /\ stage' = [stage EXCEPT ![x] = IF wpc[w] = "callback" THEN "replied" ELSE stage[x]]
        /\ ready' = ready \cup (IF wpc[w] = "callback" THEN {} ELSE {x})
    BY <1>6 DEF Reply, Dispose, ExecTypeOK, Holding, ExecInv, WorkerInv, BorrowInv
  <2> HIDE DEF x
  <2>2. \A v \in Workers :
          v # w /\ wpc[v] \in {"executing", "callback", "disposing"} => wcmd[v] # x /\ wcmd[v] \in Cmd
    BY <2>1 DEF ExecInv, WorkerInv, Holding, ExecTypeOK, x
  <2>3. /\ \A y \in Cmd : y # x => stage'[y] = stage[y]
        /\ wpc[w] = "callback" => stage'[x] = "replied" /\ wpc'[w] = AfterSwitch(x) /\ ready' = ready
        /\ wpc[w] = "disposing" => stage'[x] = stage[x] /\ wpc'[w] = "check" /\ ready' = ready \cup {x}
        /\ \A v \in Workers : v # w => wpc'[v] = wpc[v]
        /\ \A v \in Workers : wcmd'[v] = wcmd[v]
        /\ wcmd'[w] = x
    BY <2>1 DEF ExecTypeOK, x
  <2>4. /\ wpc[w] = "callback" => x \in ReplyCmd
        /\ wpc[w] = "disposing" => x \in SyncCmd /\ (x \in ReplyCmd => stage[x] = "replied")
    BY DEF ProgressInv, x
  <2>5. \A v \in Workers :
          /\ wpc'[v] = "callback" => wcmd'[v] \in ReplyCmd
          /\ wpc'[v] = "disposing" =>
               /\ wcmd'[v] \in SyncCmd
               /\ wcmd'[v] \in ReplyCmd => stage'[wcmd'[v]] = "replied"
    BY <2>1, <2>2, <2>3 DEF ProgressInv, AfterSwitch
  <2>6. \A y \in ready' : y \in SyncCmd /\ (y \in ReplyCmd => stage'[y] = "replied")
    BY <2>1, <2>3, <2>4 DEF ProgressInv, ExecTypeOK
  <2>7. ASSUME NEW y \in Cmd
        PROVE  /\ stage'[y] = "replied" => y \in ReplyCmd
               /\ stage'[y] \in {"executed", "replied"} => LoggedNow(y)
               /\ stage'[y] = "taken" => \E v \in Workers : wpc'[v] = "executing" /\ wcmd'[v] = y
               /\ stage'[y] = "executed" /\ y \in ReplyCmd =>
                    \E v \in Workers : wpc'[v] = "callback" /\ wcmd'[v] = y
               /\ stage'[y] \in {"executed", "replied"} /\ y \in SyncCmd =>
                    \/ y \in ready'
                    \/ \E v \in Workers : wpc'[v] \in {"callback", "disposing"} /\ wcmd'[v] = y
    <3>0. stage[y] \in {"executed", "replied"} => LoggedNow(y)
      BY <2>1 DEF ProgressInv
    <3> HIDE DEF Logged, LoggedNow
    <3>1. CASE y = x
      <4>1. CASE wpc[w] = "callback"
        <5>1. stage'[x] = "replied" /\ wpc'[w] = AfterSwitch(x) /\ x \in ReplyCmd
          BY <2>3, <2>4, <4>1
        <5>2. x \in SyncCmd => wpc'[w] = "disposing" /\ wcmd'[w] = x
          BY <2>3, <5>1 DEF AfterSwitch
        <5> QED
          BY <2>1, <3>0, <3>1, <5>1, <5>2
      <4>2. CASE wpc[w] = "disposing"
        <5>1. stage'[x] = stage[x] /\ x \in ready' /\ (x \in ReplyCmd => stage[x] = "replied")
          BY <2>3, <2>4, <4>2
        <5>2. stage[x] = "replied" => x \in ReplyCmd
          BY <2>1 DEF ProgressInv
        <5> QED
          BY <2>1, <3>0, <3>1, <5>1, <5>2
      <4> QED
        BY <2>1, <4>1, <4>2
    <3>2. CASE y # x
      <4>1. stage'[y] = stage[y] /\ ready \subseteq ready'
        BY <2>1, <2>3, <3>2
      <4>2. \A v \in Workers : v # w => wpc'[v] = wpc[v] /\ wcmd'[v] = wcmd[v]
        BY <2>3
      <4>3. \A v \in Workers : wcmd[v] = y => v # w
        BY <3>2 DEF x
      <4>5. stage[y] = "taken" => \E v \in Workers : wpc'[v] = "executing" /\ wcmd'[v] = y
        BY <4>2, <4>3 DEF ProgressInv
      <4>6. stage[y] = "executed" /\ y \in ReplyCmd =>
              \E v \in Workers : wpc'[v] = "callback" /\ wcmd'[v] = y
        BY <4>2, <4>3 DEF ProgressInv
      <4>7. stage[y] \in {"executed", "replied"} /\ y \in SyncCmd =>
              \/ y \in ready
              \/ \E v \in Workers : wpc'[v] \in {"callback", "disposing"} /\ wcmd'[v] = y
        BY <4>2, <4>3 DEF ProgressInv
      <4>8. stage[y] = "replied" => y \in ReplyCmd
        BY DEF ProgressInv
      <4> QED
        BY <3>0, <4>1, <4>5, <4>6, <4>7, <4>8
    <3> QED
      BY <3>1, <3>2
  <2> QED
    BY <2>5, <2>6, <2>7 DEF ProgressInv, LoggedNow
<1>7. ASSUME UNCHANGED <<ready, wpc, wcmd, stage, log>>
      PROVE  ProgressInv'
  BY <1>7 DEF ProgressInv
<1> QED
  BY <1>2, <1>3, <1>4, <1>5, <1>6, <1>7
     DEF ExecNext, WorkerStep, FinishBegin, FinishEnd, execVars, workerVars

(* The progress invariant holds in every run of the execution queue. *)
THEOREM ProgressInvariance == ExecSpec => []ProgressInv
<1>1. ExecInit => ExecTypeOK /\ ExecInv /\ ProgressInv
  BY TypeInit, InvInit, ProgressInit
<1>2. ExecTypeOK /\ ExecInv /\ ProgressInv /\ [ExecNext]_execVars
        => (ExecTypeOK /\ ExecInv /\ ProgressInv)'
  BY TypeStep, InvStep, ProgressStep
<1> QED
  BY <1>1, <1>2, PTL DEF ExecSpec

(* A command in the log has been executed, and the other way round. *)
LEMMA ExecutedFacts ==
    ASSUME ExecTypeOK, ExecInv, ProgressInv
    PROVE  \A x \in Cmd : x \in Executed <=> stage[x] \in {"executed", "replied"}
<1>1. DOMAIN log = 1..Len(log)
  BY LenProperties DEF ExecTypeOK
<1> QED
  BY <1>1 DEF Executed, ExecInv, LogInv, ProgressInv

(* When Finish returns, every command a worker took has been carried to its end:
   its reply callback and its promise are not left behind. *)
THEOREM FinishLeavesNothingHalfDone == ExecSpec => []NothingHalfDone
<1>1. ExecTypeOK /\ ExecInv /\ ProgressInv => NothingHalfDone
  <2> SUFFICES ASSUME ExecTypeOK, ExecInv, ProgressInv, fin = "joined", NEW x \in Cmd
               PROVE  /\ stage[x] # "taken"
                      /\ x \in Executed /\ x \in ReplyCmd => stage[x] = "replied"
                      /\ x \in Executed /\ x \in SyncCmd => x \in ready
    BY DEF NothingHalfDone
  <2>1. \A w \in Workers : wpc[w] = "exited"
    BY DEF ExecInv, FinInv
  <2>2. x \in Executed <=> stage[x] \in {"executed", "replied"}
    BY ExecutedFacts
  <2> QED
    BY <2>1, <2>2 DEF ProgressInv
<1> QED
  BY <1>1, ExecTyping, ExecInvariance, ProgressInvariance, PTL

(* A Synchronize... call that returns true has been executed and has its result,
   whichever worker ran it and whatever Finish did meanwhile. *)
THEOREM SyncResult == ExecSpec => SyncReturnsResult
<1>1. ExecTypeOK /\ ExecInv /\ ProgressInv /\ [ExecNext]_execVars =>
        [\A c \in Clients :
           cpc[c] = "waiting" /\ cpc'[c] = "idle" =>
              /\ ccmd[c] \in Executed
              /\ ccmd[c] \in ReplyCmd => stage[ccmd[c]] = "replied"]_execVars
  <2> SUFFICES ASSUME ExecTypeOK, ExecInv, ProgressInv, ExecNext,
                      NEW c \in Clients, cpc[c] = "waiting", cpc'[c] = "idle"
               PROVE  /\ ccmd[c] \in Executed
                      /\ ccmd[c] \in ReplyCmd => stage[ccmd[c]] = "replied"
    OBVIOUS
  <2>1. ccmd[c] \in ready
    BY DEF ExecNext, ClientStep, Admit, Refuse, Enqueue, EnqueueFails, SyncReturn,
           WorkerStep, OpenStub, CheckDone, Dequeue, Timeout, Execute, Reply, Dispose,
           CloseStub, FinishBegin, FinishEnd, clientVars, ExecTypeOK
  <2>2. ccmd[c] \in Cmd /\ stage[ccmd[c]] \in {"executed", "replied"}
    BY <2>1 DEF ExecTypeOK, ExecInv, BorrowInv
  <2> QED
    BY <2>1, <2>2, ExecutedFacts DEF ProgressInv
<1> QED
  BY <1>1, ExecTyping, ExecInvariance, ProgressInvariance, PTL
     DEF ExecSpec, SyncReturnsResult
-----------------------------------------------------------------------------
(* The order of one client's commands. *)

(* The sequences of the state, as functions with a length. *)
LEMMA SequenceFacts ==
    ASSUME ExecTypeOK
    PROVE  \A c \in Clients :
             /\ Len(callbacks[c]) \in Nat
             /\ \A i \in 1..Len(callbacks[c]) : callbacks[c][i] \in Cmd
             /\ Len(accepted[c]) \in Nat
             /\ \A i \in 1..Len(accepted[c]) : accepted[c][i] \in Cmd
  BY ElementOfSeq, LenProperties DEF ExecTypeOK

LEMMA OrderInit == ExecInit => OrderInv
<1> SUFFICES ASSUME ExecInit PROVE OrderInv
  OBVIOUS
<1>1. \A c \in Clients : Len(callbacks[c]) = 0 /\ Len(accepted[c]) = 0
  BY EmptySeq DEF ExecInit, EmptyQueue
<1>2. \A c \in Clients : Started(c) = 0
  BY <1>1 DEF Started
<1> QED
  BY <1>1, <1>2 DEF OrderInv

(* An enqueue puts the same command at the end of both sequences. *)
LEMMA AcceptFacts ==
    ASSUME ExecTypeOK, ExecInv, NEW c \in Clients, Enqueue(c)
    PROVE  /\ \A b \in Clients : b # c => accepted'[b] = accepted[b]
           /\ Len(accepted'[c]) = Len(accepted[c]) + 1
           /\ \A i \in 1..Len(accepted[c]) : accepted'[c][i] = accepted[c][i]
           /\ accepted'[c][Len(accepted[c]) + 1] = ccmd[c]
<1>1. ccmd[c] \in Cmd /\ accepted[c] \in Seq(Cmd)
  BY DEF Enqueue, ExecTypeOK
<1>2. /\ accepted'[c] = Append(accepted[c], ccmd[c])
      /\ \A b \in Clients : b # c => accepted'[b] = accepted[b]
  BY DEF Enqueue, ExecTypeOK
<1> QED
  BY <1>1, <1>2, AppendProperties

LEMMA OrderStep ==
    ExecTypeOK /\ ExecInv /\ OrderInv /\ [ExecNext]_execVars => OrderInv'
<1> SUFFICES ASSUME ExecTypeOK, ExecInv, OrderInv, [ExecNext]_execVars
             PROVE  OrderInv'
  OBVIOUS
<1> DEFINE Gone == {"executed", "replied"}
<1>0. \A c \in Clients :
        /\ Len(callbacks[c]) \in Nat
        /\ \A i \in 1..Len(callbacks[c]) : callbacks[c][i] \in Cmd
        /\ Len(accepted[c]) \in Nat
        /\ \A i \in 1..Len(accepted[c]) : accepted[c][i] \in Cmd
  BY SequenceFacts
<1>1. ASSUME UNCHANGED <<accepted, callbacks>>,
             \A b \in Clients : \A i \in 1..Len(accepted[b]) :
               /\ stage'[accepted[b][i]] \in {"queued", "taken", "executed", "replied"}
               /\ stage'[accepted[b][i]] = "queued" => stage[accepted[b][i]] = "queued"
               /\ stage[accepted[b][i]] \in Gone => stage'[accepted[b][i]] \in Gone,
             \A b \in Clients :
               cpc[b] = "waiting" =>
                  \/ stage'[ccmd[b]] \in Gone
                  \/ cpc'[b] = "waiting" /\ ccmd'[b] = ccmd[b]
      PROVE  OrderInv'
  <2>1. \A c \in Clients : Started(c)' = Started(c)
    BY <1>1 DEF Started
  <2>2. \A c \in Clients : \A i \in 1..Len(accepted[c]) :
          accepted[c][i] \in SyncCmd =>
             \/ stage'[accepted[c][i]] \in Gone
             \/ i = Len(accepted[c]) /\ cpc'[c] = "waiting" /\ ccmd'[c] = accepted[c][i]
    BY <1>1 DEF OrderInv
  <2>3. \A c \in Clients : \A i \in 1..Started(c) : stage'[accepted[c][i]] # "queued"
    <3> SUFFICES ASSUME NEW c \in Clients, NEW i \in 1..Started(c)
                 PROVE  stage'[accepted[c][i]] # "queued"
      OBVIOUS
    <3>1. i \in 1..Len(accepted[c])
      <4> DEFINE n == Len(callbacks[c])
                 m == Len(accepted[c])
      <4>1. n \in Nat /\ m \in Nat /\ Started(c) = m - n
        BY <1>0 DEF Started
      <4> HIDE DEF n, m
      <4>2. i \in 1..m
        BY <4>1
      <4> QED
        BY <4>2 DEF m
    <3> QED
      BY <1>1, <3>1 DEF OrderInv
  <2>4. \A c \in Clients :
          /\ Len(callbacks'[c]) <= Len(accepted'[c])
          /\ \A i \in 1..Len(callbacks'[c]) :
               callbacks'[c][i] = accepted'[c][Started(c)' + i]
    BY <1>1, <2>1 DEF OrderInv
  <2>5. \A b, c \in Clients :
          \A i \in 1..Len(accepted'[b]) : \A j \in 1..Len(accepted'[c]) :
             accepted'[b][i] = accepted'[c][j] => b = c /\ i = j
    BY <1>1 DEF OrderInv
  <2>6. \A c \in Clients : \A i \in 1..Len(accepted'[c]) :
          stage'[accepted'[c][i]] \in {"queued", "taken", "executed", "replied"}
    BY <1>1
  <2> QED
    BY <1>1, <2>1, <2>2, <2>3, <2>4, <2>5, <2>6 DEF OrderInv
<1>2. ASSUME NEW c \in Clients, NEW x \in Cmd, Admit(c, x) \/ Refuse(c, x)
      PROVE  OrderInv'
  <2>1. /\ cpc[c] = "idle" /\ stage[x] = "new"
        /\ \E to \in Stages : stage' = [stage EXCEPT ![x] = to]
        /\ UNCHANGED <<callbacks, accepted>>
        /\ \A b \in Clients : b # c => cpc'[b] = cpc[b] /\ ccmd'[b] = ccmd[b]
    BY <1>2 DEF Admit, Refuse, clientVars, workerVars, Stages, ExecTypeOK
  <2>2. \A y \in Cmd : y # x => stage'[y] = stage[y]
    BY <2>1 DEF ExecTypeOK
  <2>3. \A b \in Clients : \A i \in 1..Len(accepted[b]) :
          accepted[b][i] \in Cmd /\ accepted[b][i] # x
    BY <1>0, <2>1 DEF OrderInv
  <2>4. \A b \in Clients : \A i \in 1..Len(accepted[b]) :
          stage'[accepted[b][i]] = stage[accepted[b][i]]
    BY <2>2, <2>3
  <2> QED
    BY <1>1, <2>1, <2>4 DEF OrderInv
<1>3. ASSUME NEW c \in Clients, EnqueueFails(c)
      PROVE  OrderInv'
  <2>1. /\ ccmd[c] \in Cmd /\ stage[ccmd[c]] = "admitted" /\ cpc[c] = "admitted"
        /\ stage' = [stage EXCEPT ![ccmd[c]] = "refused"]
        /\ UNCHANGED <<callbacks, accepted>>
        /\ \A b \in Clients : b # c => cpc'[b] = cpc[b] /\ ccmd'[b] = ccmd[b]
    BY <1>3 DEF EnqueueFails, workerVars, ExecTypeOK, ExecInv, QueueInv
  <2>2. \A b \in Clients : \A i \in 1..Len(accepted[b]) :
          accepted[b][i] \in Cmd /\ accepted[b][i] # ccmd[c]
    BY <1>0, <2>1 DEF OrderInv
  <2>3. \A b \in Clients : \A i \in 1..Len(accepted[b]) :
          stage'[accepted[b][i]] = stage[accepted[b][i]]
    BY <2>1, <2>2 DEF ExecTypeOK
  <2> QED
    BY <1>1, <2>1, <2>3 DEF OrderInv
<1>4. ASSUME NEW c \in Clients, SyncReturn(c)
      PROVE  OrderInv'
  <2>1. /\ ccmd[c] \in ready
        /\ UNCHANGED <<callbacks, accepted, stage>>
        /\ \A b \in Clients : b # c => cpc'[b] = cpc[b] /\ ccmd'[b] = ccmd[b]
    BY <1>4 DEF SyncReturn, workerVars, ExecTypeOK
  <2>2. stage[ccmd[c]] \in Gone
    BY <2>1 DEF ExecInv, BorrowInv
  <2> QED
    BY <1>1, <2>1, <2>2 DEF OrderInv
<1>5. ASSUME NEW w \in Workers, Execute(w) \/ Reply(w)
      PROVE  OrderInv'
  <2>1. /\ wcmd[w] \in Cmd
        /\ \E to \in Gone : stage' = [stage EXCEPT ![wcmd[w]] = to]
        /\ UNCHANGED <<callbacks, accepted, cpc, ccmd>>
    BY <1>5 DEF Execute, Reply, clientVars, ExecTypeOK, Holding
  <2>2. \A y \in Cmd : stage'[y] = stage[y] \/ stage'[y] \in Gone
    BY <2>1 DEF ExecTypeOK
  <2>3. \A b \in Clients : \A i \in 1..Len(accepted[b]) :
          \/ stage'[accepted[b][i]] = stage[accepted[b][i]]
          \/ stage'[accepted[b][i]] \in Gone
    BY <1>0, <2>2
  <2> QED
    BY <1>1, <2>1, <2>3 DEF OrderInv
<1>6. ASSUME UNCHANGED <<callbacks, accepted, cpc, ccmd, stage>>
      PROVE  OrderInv'
  BY <1>1, <1>6 DEF OrderInv
<1>7. ASSUME NEW c \in Clients, Enqueue(c)
      PROVE  OrderInv'
  <2> DEFINE x == ccmd[c]
             n == Len(callbacks[c])
             m == Len(accepted[c])
  <2>1. /\ x \in Cmd /\ stage[x] = "admitted" /\ cpc[c] = "admitted"
        /\ stage' = [stage EXCEPT ![x] = "queued"]
        /\ \A b \in Clients : b # c => cpc'[b] = cpc[b] /\ ccmd'[b] = ccmd[b]
        /\ x \in SyncCmd => cpc'[c] = "waiting" /\ ccmd'[c] = x
    BY <1>7 DEF Enqueue, ExecTypeOK, ExecInv, QueueInv
  <2>2. /\ \A b \in Clients : b # c => callbacks'[b] = callbacks[b]
        /\ Len(callbacks'[c]) = n + 1
        /\ \A i \in 1..n : callbacks'[c][i] = callbacks[c][i]
        /\ callbacks'[c][n + 1] = x
    BY <1>7, EnqueueFacts
  <2>3. /\ \A b \in Clients : b # c => accepted'[b] = accepted[b]
        /\ Len(accepted'[c]) = m + 1
        /\ \A i \in 1..m : accepted'[c][i] = accepted[c][i]
        /\ accepted'[c][m + 1] = x
    BY <1>7, AcceptFacts
  <2>4. /\ n \in Nat /\ m \in Nat /\ n <= m
        /\ Started(c) = m - n
        /\ \A i \in 1..n : callbacks[c][i] = accepted[c][(m - n) + i]
        /\ \A i \in 1..(m - n) : stage[accepted[c][i]] # "queued"
    BY <1>0 DEF OrderInv, Started
  <2>5. \A b \in Clients : \A i \in 1..Len(accepted[b]) :
          accepted[b][i] \in Cmd /\ accepted[b][i] # x
    BY <1>0, <2>1 DEF OrderInv
  <2>6. \A b \in Clients : \A i \in 1..Len(accepted[b]) :
          stage'[accepted[b][i]] = stage[accepted[b][i]]
    <3> HIDE DEF x
    <3> QED
      BY <2>1, <2>5 DEF ExecTypeOK
  <2>7. stage'[x] = "queued"
    <3> HIDE DEF x
    <3> QED
      BY <2>1 DEF ExecTypeOK
  <2>8. \A b \in Clients : \A i \in 1..Len(accepted'[b]) :
          \/ i \in 1..Len(accepted[b]) /\ accepted'[b][i] = accepted[b][i]
          \/ b = c /\ i = m + 1 /\ accepted'[b][i] = x
    BY <1>0, <2>3
  <2>9. \A b \in Clients : b # c => Started(b)' = Started(b)
    BY <2>2, <2>3 DEF Started
  <2>10. Started(c)' = m - n
    <3>1. Started(c)' = (m + 1) - (n + 1)
      BY <2>2, <2>3 DEF Started
    <3> HIDE DEF m, n
    <3> QED
      BY <2>4, <3>1
  <2>11. /\ Len(callbacks'[c]) <= Len(accepted'[c])
         /\ \A i \in 1..Len(callbacks'[c]) :
              callbacks'[c][i] = accepted'[c][Started(c)' + i]
         /\ \A i \in 1..Started(c)' : stage'[accepted'[c][i]] # "queued"
    <3>1. \A i \in 1..m : stage'[accepted'[c][i]] = stage[accepted[c][i]]
      BY <2>3, <2>6
    <3> HIDE DEF m, n, x
    <3>2. \A i \in 1..n + 1 : callbacks'[c][i] = accepted'[c][(m - n) + i]
      <4> SUFFICES ASSUME NEW i \in 1..n + 1
                   PROVE  callbacks'[c][i] = accepted'[c][(m - n) + i]
        OBVIOUS
      <4>1. CASE i \in 1..n
        <5>1. (m - n) + i \in 1..m
          BY <2>4, <4>1
        <5> QED
          BY <2>2, <2>3, <2>4, <4>1, <5>1
      <4>2. CASE i = n + 1
        <5>1. (m - n) + i = m + 1
          BY <2>4, <4>2
        <5> QED
          BY <2>2, <2>3, <4>2, <5>1
      <4> QED
        BY <2>4, <4>1, <4>2
    <3>3. \A i \in 1..(m - n) : i \in 1..m
      BY <2>4
    <3>4. \A i \in 1..(m - n) : stage'[accepted'[c][i]] # "queued"
      BY <2>4, <3>1, <3>3
    <3>5. n + 1 <= m + 1
      BY <2>4
    <3> QED
      BY <2>2, <2>3, <2>10, <3>2, <3>4, <3>5
  <2>12. \A b \in Clients :
          /\ Len(callbacks'[b]) <= Len(accepted'[b])
          /\ \A i \in 1..Len(callbacks'[b]) :
               callbacks'[b][i] = accepted'[b][Started(b)' + i]
          /\ \A i \in 1..Started(b)' : stage'[accepted'[b][i]] # "queued"
    <3> SUFFICES ASSUME NEW b \in Clients, b # c
                 PROVE  /\ Len(callbacks'[b]) <= Len(accepted'[b])
                        /\ \A i \in 1..Len(callbacks'[b]) :
                             callbacks'[b][i] = accepted'[b][Started(b)' + i]
                        /\ \A i \in 1..Started(b)' : stage'[accepted'[b][i]] # "queued"
      BY <2>11
    <3>1. \A i \in 1..Started(b) : i \in 1..Len(accepted[b])
      <4> DEFINE k == Len(callbacks[b])
                 l == Len(accepted[b])
      <4>1. k \in Nat /\ l \in Nat /\ Started(b) = l - k
        BY <1>0 DEF Started
      <4> HIDE DEF k, l
      <4>2. \A i \in 1..Started(b) : i \in 1..l
        BY <4>1
      <4> QED
        BY <4>2 DEF l
    <3>2. callbacks'[b] = callbacks[b] /\ accepted'[b] = accepted[b] /\ Started(b)' = Started(b)
      BY <2>2, <2>3, <2>9
    <3> QED
      BY <2>6, <3>1, <3>2 DEF OrderInv
  <2>13. \A b \in Clients : \A i \in 1..Len(accepted'[b]) :
           /\ stage'[accepted'[b][i]] \in {"queued", "taken", "executed", "replied"}
           /\ accepted'[b][i] \in SyncCmd =>
                \/ stage'[accepted'[b][i]] \in Gone
                \/ i = Len(accepted'[b]) /\ cpc'[b] = "waiting" /\ ccmd'[b] = accepted'[b][i]
    <3> SUFFICES ASSUME NEW b \in Clients, NEW i \in 1..Len(accepted'[b])
                 PROVE  /\ stage'[accepted'[b][i]] \in {"queued", "taken", "executed", "replied"}
                        /\ accepted'[b][i] \in SyncCmd =>
                             \/ stage'[accepted'[b][i]] \in Gone
                             \/ /\ i = Len(accepted'[b]) /\ cpc'[b] = "waiting"
                                /\ ccmd'[b] = accepted'[b][i]
      OBVIOUS
    <3>1. CASE i \in 1..Len(accepted[b]) /\ accepted'[b][i] = accepted[b][i]
      <4>1. stage'[accepted'[b][i]] = stage[accepted[b][i]]
        BY <2>6, <3>1
      <4>2. CASE b = c
        BY <2>1, <3>1, <4>1, <4>2 DEF OrderInv
      <4>3. CASE b # c
        BY <2>1, <2>3, <3>1, <4>1, <4>3 DEF OrderInv
      <4> QED
        BY <4>2, <4>3
    <3>2. CASE b = c /\ i = m + 1 /\ accepted'[b][i] = x
      BY <2>1, <2>3, <2>7, <3>2
    <3> QED
      BY <2>8, <3>1, <3>2
  <2>14. \A a, b \in Clients :
          \A i \in 1..Len(accepted'[a]) : \A j \in 1..Len(accepted'[b]) :
             accepted'[a][i] = accepted'[b][j] => a = b /\ i = j
    <3> HIDE DEF x, m
    <3>1. \A b \in Clients : \A i \in 1..Len(accepted'[b]) :
            accepted'[b][i] = x <=> b = c /\ i = m + 1
      BY <2>4, <2>3, <2>5, <2>8
    <3> SUFFICES ASSUME NEW a \in Clients, NEW b \in Clients,
                        NEW i \in 1..Len(accepted'[a]), NEW j \in 1..Len(accepted'[b]),
                        accepted'[a][i] = accepted'[b][j]
                 PROVE  a = b /\ i = j
      OBVIOUS
    <3>2. CASE accepted'[a][i] = x
      BY <3>1, <3>2
    <3>3. CASE accepted'[a][i] # x
      <4>1. /\ i \in 1..Len(accepted[a]) /\ accepted'[a][i] = accepted[a][i]
            /\ j \in 1..Len(accepted[b]) /\ accepted'[b][j] = accepted[b][j]
        BY <2>8, <3>3
      <4>2. \A r \in 1..Len(accepted[a]) : \A t \in 1..Len(accepted[b]) :
              accepted[a][r] = accepted[b][t] => a = b /\ r = t
        BY DEF OrderInv
      <4> QED
        BY <4>1, <4>2
    <3> QED
      BY <3>2, <3>3
  <2> QED
    BY <2>12, <2>13, <2>14 DEF OrderInv
<1>8. ASSUME NEW w \in Workers, Dequeue(w)
      PROVE  OrderInv'
  <2>1. PICK c \in Clients :
             /\ Len(callbacks[c]) \in Nat \ {0}
             /\ wcmd' = [wcmd EXCEPT ![w] = callbacks[c][1]]
             /\ stage' = [stage EXCEPT ![callbacks[c][1]] = "taken"]
             /\ callbacks[c][1] \in Cmd
             /\ stage[callbacks[c][1]] = "queued"
             /\ \A b \in Clients : b # c => callbacks'[b] = callbacks[b]
             /\ Len(callbacks'[c]) = Len(callbacks[c]) - 1
             /\ \A i \in 1..Len(callbacks[c]) - 1 :
                  callbacks'[c][i] = callbacks[c][i + 1]
    BY <1>8, DequeueFacts
  <2>2. UNCHANGED <<accepted, cpc, ccmd>>
    BY <1>8 DEF Dequeue, clientVars
  <2> DEFINE x == callbacks[c][1]
             n == Len(callbacks[c])
             m == Len(accepted[c])
  <2>3. /\ n \in Nat \ {0} /\ m \in Nat /\ n <= m
        /\ Started(c) = m - n
        /\ \A i \in 1..n : callbacks[c][i] = accepted[c][(m - n) + i]
        /\ \A i \in 1..(m - n) : stage[accepted[c][i]] # "queued"
    BY <1>0, <2>1 DEF OrderInv, Started
  <2>4. /\ \A y \in Cmd : y # x => stage'[y] = stage[y]
        /\ stage'[x] = "taken" /\ stage[x] = "queued" /\ x \in Cmd
    <3>1. x \in Cmd /\ stage' = [stage EXCEPT ![x] = "taken"] /\ stage[x] = "queued"
      BY <2>1
    <3> HIDE DEF x
    <3> QED
      BY <3>1 DEF ExecTypeOK
  <2>5. \A b \in Clients : \A i \in 1..Len(accepted[b]) :
          \/ stage'[accepted[b][i]] = stage[accepted[b][i]]
          \/ stage'[accepted[b][i]] = "taken" /\ stage[accepted[b][i]] = "queued"
    <3> HIDE DEF x
    <3> QED
      BY <1>0, <2>4
  <2>6. \A b \in Clients : b # c => Started(b)' = Started(b)
    BY <2>1, <2>2 DEF Started
  <2>7. Started(c)' = (m - n) + 1
    <3>1. Started(c)' = m - (n - 1)
      BY <2>1, <2>2 DEF Started
    <3> HIDE DEF m, n
    <3> QED
      BY <2>3, <3>1
  <2>8. accepted[c][(m - n) + 1] = x
    <3>1. 1 \in 1..n
      <4> HIDE DEF n
      <4> QED
        BY <2>3
    <3> QED
      BY <2>3, <3>1
  <2>9. /\ Len(callbacks'[c]) <= Len(accepted'[c])
        /\ \A i \in 1..Len(callbacks'[c]) :
             callbacks'[c][i] = accepted'[c][Started(c)' + i]
        /\ \A i \in 1..Started(c)' : stage'[accepted'[c][i]] # "queued"
    <3> HIDE DEF m, n, x
    <3>0. m = Len(accepted[c])
      BY DEF m
    <3>1. \A i \in 1..n - 1 : callbacks'[c][i] = accepted[c][((m - n) + 1) + i]
      <4> SUFFICES ASSUME NEW i \in 1..n - 1
                   PROVE  callbacks'[c][i] = accepted[c][((m - n) + 1) + i]
        OBVIOUS
      <4>1. i + 1 \in 1..n /\ (m - n) + (i + 1) = ((m - n) + 1) + i
        BY <2>3
      <4>2. callbacks'[c][i] = callbacks[c][i + 1]
        BY <2>1 DEF n
      <4> QED
        BY <2>3, <4>1, <4>2
    <3>2. \A i \in 1..(m - n) + 1 : stage'[accepted[c][i]] # "queued"
      <4> SUFFICES ASSUME NEW i \in 1..(m - n) + 1
                   PROVE  stage'[accepted[c][i]] # "queued"
        OBVIOUS
      <4>1. i \in 1..m
        BY <2>3
      <4>2. CASE i = (m - n) + 1
        BY <2>4, <2>8, <4>2
      <4>3. CASE i # (m - n) + 1
        <5>1. i \in 1..(m - n)
          BY <2>3, <4>3
        <5>2. stage[accepted[c][i]] # "queued"
          BY <2>3, <5>1
        <5> QED
          BY <2>5, <3>0, <4>1, <5>2
      <4> QED
        BY <4>2, <4>3
    <3>3. n - 1 <= m
      BY <2>3
    <3>4. Len(callbacks'[c]) = n - 1
      BY <2>1 DEF n
    <3> QED
      BY <2>2, <2>7, <3>0, <3>1, <3>2, <3>3, <3>4
  <2>10. \A b \in Clients :
          /\ Len(callbacks'[b]) <= Len(accepted'[b])
          /\ \A i \in 1..Len(callbacks'[b]) :
               callbacks'[b][i] = accepted'[b][Started(b)' + i]
          /\ \A i \in 1..Started(b)' : stage'[accepted'[b][i]] # "queued"
    <3> SUFFICES ASSUME NEW b \in Clients, b # c
                 PROVE  /\ Len(callbacks'[b]) <= Len(accepted'[b])
                        /\ \A i \in 1..Len(callbacks'[b]) :
                             callbacks'[b][i] = accepted'[b][Started(b)' + i]
                        /\ \A i \in 1..Started(b)' : stage'[accepted'[b][i]] # "queued"
      BY <2>9
    <3>1. \A i \in 1..Started(b) : i \in 1..Len(accepted[b])
      <4> DEFINE k == Len(callbacks[b])
                 l == Len(accepted[b])
      <4>1. k \in Nat /\ l \in Nat /\ Started(b) = l - k
        BY <1>0 DEF Started
      <4> HIDE DEF k, l
      <4>2. \A i \in 1..Started(b) : i \in 1..l
        BY <4>1
      <4> QED
        BY <4>2 DEF l
    <3>2. callbacks'[b] = callbacks[b] /\ accepted'[b] = accepted[b] /\ Started(b)' = Started(b)
      BY <2>1, <2>2, <2>6
    <3> QED
      BY <2>5, <3>1, <3>2 DEF OrderInv
  <2>11. \A b \in Clients : \A i \in 1..Len(accepted'[b]) :
           /\ stage'[accepted'[b][i]] \in {"queued", "taken", "executed", "replied"}
           /\ accepted'[b][i] \in SyncCmd =>
                \/ stage'[accepted'[b][i]] \in Gone
                \/ i = Len(accepted'[b]) /\ cpc'[b] = "waiting" /\ ccmd'[b] = accepted'[b][i]
    <3> HIDE DEF x
    <3> QED
      BY <2>2, <2>5 DEF OrderInv
  <2>12. \A a, b \in Clients :
          \A i \in 1..Len(accepted'[a]) : \A j \in 1..Len(accepted'[b]) :
             accepted'[a][i] = accepted'[b][j] => a = b /\ i = j
    BY <2>2 DEF OrderInv
  <2> QED
    BY <2>10, <2>11, <2>12 DEF OrderInv
<1> QED
  BY <1>2, <1>3, <1>4, <1>5, <1>6, <1>7, <1>8
     DEF ExecNext, ClientStep, WorkerStep, OpenStub, CheckDone, Timeout, Dispose,
         CloseStub, FinishBegin, FinishEnd, execVars, clientVars, workerVars

(* The order invariant holds in every run of the execution queue. *)
THEOREM OrderInvariance == ExecSpec => []OrderInv
<1>1. ExecInit => ExecTypeOK /\ ExecInv /\ OrderInv
  BY TypeInit, InvInit, OrderInit
<1>2. ExecTypeOK /\ ExecInv /\ OrderInv /\ [ExecNext]_execVars
        => (ExecTypeOK /\ ExecInv /\ OrderInv)'
  BY TypeStep, InvStep, OrderStep
<1> QED
  BY <1>1, <1>2, PTL DEF ExecSpec
(* One client's commands leave the queue in the order it queued them: none
   overtakes an older one, whichever worker takes it. *)
LEMMA StartedOrder ==
    ASSUME ExecTypeOK, ExecInv, OrderInv
    PROVE  \A c \in Clients : \A i, j \in 1..Len(accepted[c]) :
             i < j /\ stage[accepted[c][i]] = "queued" => stage[accepted[c][j]] = "queued"
<1> SUFFICES ASSUME NEW c \in Clients,
                    NEW i \in 1..Len(accepted[c]), NEW j \in 1..Len(accepted[c]),
                    i < j, stage[accepted[c][i]] = "queued"
             PROVE  stage[accepted[c][j]] = "queued"
  OBVIOUS
<1> DEFINE n == Len(callbacks[c])
           m == Len(accepted[c])
<1>1. /\ n \in Nat /\ m \in Nat /\ n <= m
      /\ Started(c) = m - n
      /\ \A k \in 1..n : callbacks[c][k] = accepted[c][(m - n) + k]
      /\ \A k \in 1..(m - n) : stage[accepted[c][k]] # "queued"
  BY SequenceFacts DEF OrderInv, Started
<1>2. \A k \in 1..n : stage[callbacks[c][k]] = "queued"
  BY DEF ExecInv, QueueInv
<1>3. i \in 1..m /\ j \in 1..m
  OBVIOUS
<1> HIDE DEF n, m
<1>4. i \notin 1..(m - n)
  BY <1>1
<1> DEFINE k == j - (m - n)
<1>5. k \in 1..n /\ (m - n) + k = j
  BY <1>1, <1>3, <1>4
<1> QED
  BY <1>1, <1>2, <1>5

THEOREM FirstInFirstStarted == ExecSpec => []StartedInOrder
<1>1. ExecTypeOK /\ ExecInv /\ OrderInv => StartedInOrder
  <2> SUFFICES ASSUME ExecTypeOK, ExecInv, OrderInv, NEW c \in Clients
               PROVE  \A i, j \in DOMAIN accepted[c] :
                        i < j /\ stage[accepted[c][i]] = "queued"
                          => stage[accepted[c][j]] = "queued"
    BY DEF StartedInOrder
  <2>1. DOMAIN accepted[c] = 1..Len(accepted[c])
    BY LenProperties DEF ExecTypeOK
  <2> QED
    BY <2>1, StartedOrder
<1> QED
  BY <1>1, ExecTyping, ExecInvariance, OrderInvariance, PTL

(* The log keeps a client's order where the code keeps it. *)
LEMMA LogOrderStep ==
    ASSUME ExecTypeOK, ExecInv, ProgressInv, OrderInv, OrderInv', ExecutedInOrder,
           [ExecNext]_execVars
    PROVE  ExecutedInOrder'
<1>0. /\ \A c \in Clients :
           /\ Len(accepted[c]) \in Nat
           /\ DOMAIN accepted[c] = 1..Len(accepted[c])
           /\ \A i \in 1..Len(accepted[c]) : accepted[c][i] \in Cmd
      /\ log \in Seq(Cmd) /\ Len(log) \in Nat /\ DOMAIN log = 1..Len(log)
  BY SequenceFacts, LenProperties DEF ExecTypeOK
<1> DEFINE Ordered(x, y) == \E m, n \in 1..Len(log) : m < n /\ log[m] = x /\ log[n] = y
           Bound(c, i) == accepted[c][i] \in SyncCmd \/ OneWorker
<1>1. \A c \in Clients : \A i, j \in 1..Len(accepted[c]) :
        i < j /\ accepted[c][j] \in Executed /\ Bound(c, i)
          => Ordered(accepted[c][i], accepted[c][j])
  BY <1>0 DEF ExecutedInOrder
<1>2. CASE UNCHANGED <<accepted, log>>
  BY <1>2 DEF ExecutedInOrder, Executed, OneWorker
<1>3. ASSUME NEW c \in Clients, Enqueue(c)
      PROVE  ExecutedInOrder'
  <2> DEFINE x == ccmd[c]
             k == Len(accepted[c])
  <2>1. /\ \A b \in Clients : b # c => accepted'[b] = accepted[b]
        /\ Len(accepted'[c]) = k + 1
        /\ \A i \in 1..k : accepted'[c][i] = accepted[c][i]
        /\ accepted'[c][k + 1] = x
        /\ log' = log
    BY <1>3, AcceptFacts DEF Enqueue, workerVars
  <2>2. x \notin Executed
    <3>1. x \in Cmd /\ stage[x] = "admitted"
      BY <1>3, EnqueueFacts
    <3> QED
      BY <3>1, ExecutedFacts
  <2>3. accepted' \in [Clients -> Seq(Cmd)]
    BY <1>3, TypeStep DEF ExecNext, ClientStep, ExecTypeOK
  <2>4. \A b \in Clients : DOMAIN accepted'[b] = 1..Len(accepted'[b])
    BY <2>3, LenProperties
  <2>5. \A b \in Clients : \A j \in 1..Len(accepted'[b]) :
          accepted'[b][j] \in Executed =>
            /\ j \in 1..Len(accepted[b])
            /\ \A i \in 1..j : i \in 1..Len(accepted[b]) /\ accepted'[b][i] = accepted[b][i]
    <3> SUFFICES ASSUME NEW b \in Clients, NEW j \in 1..Len(accepted'[b]),
                        accepted'[b][j] \in Executed
                 PROVE  /\ j \in 1..Len(accepted[b])
                        /\ \A i \in 1..j : /\ i \in 1..Len(accepted[b])
                                           /\ accepted'[b][i] = accepted[b][i]
      OBVIOUS
    <3>1. CASE b = c
      <4>1. k \in Nat
        BY <1>0
      <4> HIDE DEF k, x
      <4>2. j \in 1..k
        BY <2>1, <2>2, <3>1, <4>1
      <4>3. \A i \in 1..j : i \in 1..k
        BY <4>1, <4>2
      <4> QED
        BY <2>1, <3>1, <4>2, <4>3 DEF k
    <3>2. CASE b # c
      <4> DEFINE l == Len(accepted[b])
      <4>1. l \in Nat /\ j \in 1..l
        BY <1>0, <2>1, <3>2
      <4> HIDE DEF l
      <4>2. \A i \in 1..j : i \in 1..l
        BY <4>1
      <4> QED
        BY <2>1, <3>2, <4>1, <4>2 DEF l
    <3> QED
      BY <3>1, <3>2
  <2>6. Executed' = Executed
    BY <2>1 DEF Executed
  <2> SUFFICES ASSUME NEW b \in Clients,
                      NEW i \in DOMAIN accepted'[b], NEW j \in DOMAIN accepted'[b],
                      i < j, accepted'[b][j] \in Executed',
                      accepted'[b][i] \in SyncCmd \/ OneWorker'
               PROVE  \E m, n \in DOMAIN log' :
                        m < n /\ log'[m] = accepted'[b][i] /\ log'[n] = accepted'[b][j]
    BY DEF ExecutedInOrder
  <2>0. /\ i \in 1..Len(accepted'[b]) /\ j \in 1..Len(accepted'[b])
        /\ accepted'[b][j] \in Executed
        /\ accepted'[b][i] \in SyncCmd \/ OneWorker
    BY <2>4, <2>6 DEF OneWorker
  <2> SUFFICES Ordered(accepted'[b][i], accepted'[b][j])
    BY <1>0, <2>1
  <2>7. i \in 1..j /\ j \in 1..j
    <3>1. i \in Nat \ {0} /\ j \in Nat \ {0}
      BY <1>0, <2>0, <2>5
    <3> QED
      BY <3>1
  <2>8. /\ i \in 1..Len(accepted[b]) /\ j \in 1..Len(accepted[b])
        /\ accepted'[b][i] = accepted[b][i] /\ accepted'[b][j] = accepted[b][j]
    BY <2>0, <2>5, <2>7
  <2> HIDE DEF Ordered
  <2> QED
    BY <1>1, <2>0, <2>8
<1>4. ASSUME NEW w \in Workers, Execute(w)
      PROVE  ExecutedInOrder'
  <2> DEFINE x == wcmd[w]
             k == Len(log)
  <2>1. /\ x \in Cmd /\ stage[x] = "taken" /\ wpc[w] = "executing"
        /\ log' = Append(log, x) /\ accepted' = accepted
    BY <1>4 DEF Execute, ExecTypeOK, Holding, ExecInv, WorkerInv, clientVars
  <2>2. /\ Len(log') = k + 1
        /\ \A i \in 1..k : log'[i] = log[i]
        /\ log'[k + 1] = x
        /\ log' \in Seq(Cmd) /\ DOMAIN log' = 1..Len(log')
        /\ k \in Nat
    BY <1>0, <2>1, AppendProperties, LenProperties
  <2> SUFFICES ASSUME NEW c \in Clients,
                      NEW i \in DOMAIN accepted'[c], NEW j \in DOMAIN accepted'[c],
                      i < j, accepted'[c][j] \in Executed',
                      accepted'[c][i] \in SyncCmd \/ OneWorker'
               PROVE  \E m, n \in DOMAIN log' :
                        m < n /\ log'[m] = accepted'[c][i] /\ log'[n] = accepted'[c][j]
    BY DEF ExecutedInOrder
  <2>0. /\ i \in 1..Len(accepted[c]) /\ j \in 1..Len(accepted[c])
        /\ accepted[c][j] \in Executed' /\ Bound(c, i)
    BY <1>0, <2>1 DEF OneWorker
  <2> SUFFICES \E m, n \in 1..Len(log') :
                 m < n /\ log'[m] = accepted[c][i] /\ log'[n] = accepted[c][j]
    BY <2>1, <2>2
  <2>3. CASE accepted[c][j] \in Executed
    <3>1. PICK m \in 1..k, n \in 1..k :
             m < n /\ log[m] = accepted[c][i] /\ log[n] = accepted[c][j]
      BY <1>1, <2>0, <2>3
    <3> HIDE DEF k, x
    <3>2. m \in 1..k + 1 /\ n \in 1..k + 1
      BY <2>2
    <3> QED
      BY <2>2, <3>1, <3>2
  <2>4. CASE accepted[c][j] \notin Executed
    <3>1. accepted[c][j] = x
      <4>1. PICK r \in 1..Len(log') : log'[r] = accepted[c][j]
        BY <2>0, <2>2 DEF Executed
      <4>2. \A n \in 1..k : log[n] \in Executed
        BY <1>0 DEF Executed
      <4> HIDE DEF k, x
      <4>3. r \in 1..k \/ r = k + 1
        BY <2>2, <4>1
      <4> QED
        BY <2>2, <2>4, <4>1, <4>2, <4>3
    <3>2. stage[accepted[c][i]] # "queued"
      BY <2>1, <2>0, <3>1, StartedOrder
    <3>3. accepted[c][i] # x
      BY <2>0, <3>1 DEF OrderInv
    <3>4. stage[accepted[c][i]] \in {"executed", "replied"}
      <4>1. CASE accepted[c][i] \in SyncCmd
        <5> DEFINE l == Len(accepted[c])
        <5>1. l \in Nat /\ i \in 1..l /\ j \in 1..l
          BY <1>0, <2>0
        <5> HIDE DEF l
        <5>2. i # l
          BY <5>1
        <5> QED
          BY <2>0, <4>1, <5>2 DEF OrderInv, l
      <4>2. CASE OneWorker
        <5>1. ~ \E v \in Workers : wpc[v] = "executing" /\ wcmd[v] = accepted[c][i]
          BY <3>3, <4>2 DEF OneWorker
        <5>2. stage[accepted[c][i]] # "taken"
          BY <1>0, <2>0, <5>1 DEF ProgressInv
        <5> QED
          BY <2>0, <3>2, <5>2 DEF OrderInv
      <4> QED
        BY <2>0, <4>1, <4>2
    <3>5. PICK m \in 1..k : log[m] = accepted[c][i]
      BY <1>0, <2>0, <3>4 DEF ProgressInv
    <3> HIDE DEF k, x
    <3>6. m \in 1..k + 1 /\ k + 1 \in 1..k + 1 /\ m < k + 1
      BY <2>2
    <3> QED
      BY <2>2, <3>1, <3>5, <3>6
  <2> QED
    BY <2>3, <2>4
<1> QED
  BY <1>2, <1>3, <1>4
     DEF ExecNext, ClientStep, Admit, Refuse, EnqueueFails, SyncReturn, WorkerStep,
         OpenStub, CheckDone, Dequeue, Timeout, Reply, Dispose, CloseStub,
         FinishBegin, FinishEnd, execVars, clientVars, workerVars

(* A synchronous call orders what its caller does after it; with one worker
   everything a client queues is executed in order. *)
THEOREM FirstInFirstExecuted == ExecSpec => []ExecutedInOrder
<1> DEFINE I == ExecTypeOK /\ ExecInv /\ ProgressInv /\ OrderInv /\ ExecutedInOrder
<1>1. ExecInit => I
  <2> SUFFICES ASSUME ExecInit PROVE ExecutedInOrder
    BY TypeInit, InvInit, ProgressInit, OrderInit
  <2>1. DOMAIN log = 1..0
    BY EmptySeq, LenProperties DEF ExecInit
  <2>2. Executed = {}
    BY <2>1 DEF Executed
  <2> QED
    BY <2>2 DEF ExecutedInOrder
<1>2. I /\ [ExecNext]_execVars => I'
  BY TypeStep, InvStep, ProgressStep, OrderStep, LogOrderStep
<1>3. I => ExecutedInOrder
  OBVIOUS
<1> HIDE DEF I
<1> QED
  BY <1>1, <1>2, <1>3, PTL DEF ExecSpec
=============================================================================
