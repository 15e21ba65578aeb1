--------------------------- MODULE SqsQueueProofs ----------------------------
(***************************************************************************)
(* SqsQueue for any number of workers, jobs, messages, receives and        *)
(* faults: however messages are delivered, repeated or lost, the table     *)
(* lives the documented life of a job; a waiting job has a message or a    *)
(* reason to have none; and the messages stay within what was attempted.   *)
(***************************************************************************)
EXTENDS SqsQueue, JobWorkerProofs

Delivering == {"received", "discarding"}

\* Exactly the messages that were sent name a job.
SentNames ==
  \A m \in 1..MaxMessages : messages[m].place # "unsent" <=> messages[m].job \in Jobs

\* A worker that was given a message has its job in hand.
Handed ==
  \A w \in Workers :
    /\ pc[w] \in Delivering \cup {"announcing"} => job[w] \in Jobs
    /\ pc[w] \in Delivering =>
         /\ delivery[w] \in 1..MaxMessages
         /\ messages[delivery[w]].job = job[w]

\* A job that no message need wait for any more, and that stays so.
Over(j) == j \in missed \/ lapses[j] > 0 \/ rows[j].state \in TerminalStates

\* A message is only discarded when nobody needs it.
Discards == \A w \in Workers : pc[w] = "discarding" => Over(job[w])

\* A job is stored when its request commits, and not before.
Unstored == \A j \in Jobs : request[j] # "ended" => rows[j].state = "absent"

\* An announced job has a message until it is over.
Covered ==
  \A j \in Jobs :
    request[j] = "announced" \/ rows[j].state # "absent"
      => Over(j) \/ Live(j) \cup Dead(j) # {}

\* Everyone who may yet announce the job, and the messages there are.
Copies(j) == {m \in 1..MaxMessages : messages[m].job = j}
Owing(j) ==
  {w \in Workers : job[w] = j /\ pc[w] \in Executing \cup {"settling", "announcing"}}
Unannounced(j) == IF request[j] \in {"none", "inserted"} THEN 1 ELSE 0

MessageBudget ==
  \A j \in Jobs :
    Cardinality(Copies(j)) + Cardinality(Owing(j)) + Unannounced(j)
      <= 1 + rows[j].attempts

QueueInv == SqsTypeOK /\ SentNames /\ Handed /\ Unstored
DeliveryInv == Discards /\ Covered

----------------------------------------------------------------------------
(* Every step is one of the table and its workers.                         *)

\* The statements of a lease and of settling.
LEMMA QueueSteps ==
  ASSUME WorkerTypeOK, QueueInv, NEW w \in Workers
  PROVE  /\ ReleaseExpired(w) => ReleasesRows(w)
         /\ ClaimJob(w) => ClaimsRow(w)
         /\ (\/ ReceiveMessage(w) \/ ReceiveNothing(w) \/ LookUpJob(w)
             \/ DeleteMessage(w) \/ LeaveMessage(w) \/ Settle(w) \/ LoseSettlement(w))
              => \E place, j : MovesOn(w, place, j)
  <1> USE DEF WorkerTypeOK, Places, Executing
  <1>1. ReleaseExpired(w) => ReleasesRows(w)
    BY DEF ReleaseExpired, ReleasesRows
  <1>2. ClaimJob(w) => ClaimsRow(w)
    BY DEF ClaimJob, Due, ClaimsRow
  <1>3. ASSUME ReceiveMessage(w)
        PROVE  \E place, j : MovesOn(w, place, j)
    <2>1. PICK m \in 1..MaxMessages : job' = [job EXCEPT ![w] = messages[m].job]
      BY <1>3 DEF ReceiveMessage
    <2>2. messages[m].job \in Jobs \cup {None}
      BY DEF QueueInv, SqsTypeOK, Message
    <2>3. MovesOn(w, "received", messages[m].job)
      BY <1>3, <2>1, <2>2 DEF ReceiveMessage, Goto, MovesOn
    <2> QED
      BY <2>3
  <1>4. ASSUME NEW place \in {"discarding", "claiming", "announcing"},
               pc[w] \in {"received", "settling"}, Goto(w, place),
               UNCHANGED <<sessionVars, rows, applied, lapses, faults>>,
               place = "claiming" => job[w] \in Jobs /\ rows[job[w]].state # "absent"
        PROVE  MovesOn(w, place, job[w])
    BY <1>4 DEF Goto, sessionVars, MovesOn
  <1>5. ASSUME pc[w] \notin Executing, GiveUp(w), faults' \in 0..MaxFaults,
               UNCHANGED <<rows, applied, lapses>>
        PROVE  MovesOn(w, "idle", None)
    BY <1>5 DEF GiveUp, Goto, Forget, MovesOn
  <1>6. ASSUME LookUpJob(w)
        PROVE  \E place, j : MovesOn(w, place, j)
    <2>1. CASE Goto(w, "discarding") /\ UNCHANGED sessionVars
      BY <1>4, <1>6, <2>1 DEF LookUpJob
    <2>2. CASE GiveUp(w)
      BY <1>5, <1>6, <2>2 DEF LookUpJob
    <2>3. CASE /\ Goto(w, "claiming") /\ UNCHANGED sessionVars
               /\ job[w] \in Serves[w] /\ rows[job[w]].state \in {"queued", "running"}
      <3>1. job[w] \in Jobs
        BY <2>3, ServesAssumption
      <3> QED
        BY <1>4, <1>6, <2>3, <3>1 DEF LookUpJob
    <2> QED
      BY <1>6, <2>1, <2>2, <2>3 DEF LookUpJob
  <1>7. ASSUME FindRetry(w)
        PROVE  \E place, j : MovesOn(w, place, j)
    BY <1>4, <1>7 DEF FindRetry, sessionVars
  <1>8. ASSUME LoseSettlement(w)
        PROVE  \E place, j : MovesOn(w, place, j)
    <2>1. faults' \in 0..MaxFaults
      BY <1>8, FaultType DEF LoseSettlement
    <2> QED
      BY <1>5, <1>8, <2>1 DEF LoseSettlement, GiveUp
  <1>9. ASSUME ReceiveNothing(w) \/ DeleteMessage(w) \/ LeaveMessage(w)
               \/ SettleQuietly(w) \/ AnnounceRetry(w)
        PROVE  \E place, j : MovesOn(w, place, j)
    BY <1>5, <1>9
    DEF ReceiveNothing, DeleteMessage, LeaveMessage, SettleQuietly, AnnounceRetry
  <1> QED
    BY <1>1, <1>2, <1>3, <1>6, <1>7, <1>8, <1>9 DEF Settle

LEMMA NextIsTableStep ==
  ASSUME WorkerTypeOK, QueueInv, [Next]_sqsVars
  PROVE  TableStep
  <1>1. ASSUME NEW j \in Jobs, InsertJob(j) \/ FinishRequest(j) \/ RollBackRequest(j)
        PROVE  TableStep
    <2>1. CASE CommitRequest(j)
      <3>1. StoresRow(j)
        BY <2>1 DEF CommitRequest, QueueInv, Unstored, StoresRow
      <3> QED
        BY <3>1 DEF TableStep
    <2>2. CASE InsertJob(j) \/ AnnounceJob(j)
      <3>1. UNCHANGED workerVars
        BY <2>2 DEF InsertJob, AnnounceJob, workerVars
      <3> QED
        BY <3>1 DEF TableStep
    <2>3. CASE RollBackRequest(j)
      <3>1. OnlyFault
        BY <2>3 DEF RollBackRequest, OnlyFault
      <3> QED
        BY <3>1 DEF TableStep
    <2> QED
      BY <1>1, <2>1, <2>2, <2>3 DEF FinishRequest
  <1>2. ASSUME NEW w \in Workers, RunOnce(w)
        PROVE  TableStep
    <2>1. ASSUME NEW place, NEW j, MovesOn(w, place, j)
          PROVE  TableStep
      BY <2>1 DEF TableStep
    <2>2. ReleasesRows(w) \/ ClaimsRow(w) \/ Execute(w) \/ Restart(w) => TableStep
      BY DEF TableStep
    <2>3. CASE Lease(w) \/ Settle(w)
      BY <2>1, <2>2, <2>3, QueueSteps DEF Lease
    <2>4. CASE ExecuteJob(w) \/ RestartWorker(w)
      BY <2>2, <2>4 DEF ExecuteJob, RestartWorker
    <2> QED
      BY <1>2, <2>3, <2>4 DEF RunOnce
  <1>3. ASSUME NEW w \in Workers, Accident(w)
        PROVE  TableStep
    <2>1. ASSUME NEW place, NEW j, MovesOn(w, place, j)
          PROVE  TableStep
      BY <2>1 DEF TableStep
    <2>2. Misfortune(w) => TableStep
      BY DEF TableStep
    <2>3. CASE LoseSettlement(w)
      BY <2>1, <2>3, QueueSteps
    <2>4. CASE LoseRecord(w) \/ CrashWorker(w)
      BY <2>2, <2>4 DEF LoseRecord, CrashWorker, Misfortune
    <2> QED
      BY <1>3, <2>3, <2>4 DEF Accident
  <1>4. ASSUME NEW j \in Jobs, PassTime(j)
        PROVE  TableStep
    BY <1>4 DEF PassTime, TableStep
  <1>5. ASSUME NEW m \in 1..MaxMessages, Timeout(m)
        PROVE  TableStep
    BY <1>5 DEF Timeout, Reappear, Redrive, TableStep
  <1>6. CASE UNCHANGED sqsVars
    BY <1>6 DEF sqsVars, workerVars, TableStep
  <1> QED
    BY <1>1, <1>2, <1>3, <1>4, <1>5, <1>6 DEF Next

----------------------------------------------------------------------------
(* The messages.                                                           *)

SentKeep ==
  \A n \in 1..MaxMessages :
    messages[n].place # "unsent" =>
      messages'[n].job = messages[n].job /\ messages'[n].place # "unsent"

\* A message that was sent goes to another place, or a new one is sent.
LEMMA MessageChanged ==
  ASSUME QueueInv, NEW m \in 1..MaxMessages, NEW msg \in Message,
         messages' = [messages EXCEPT ![m] = msg],
         msg.place # "unsent", msg.job \in Jobs,
         messages[m].place # "unsent" => msg.job = messages[m].job
  PROVE  messages' \in [1..MaxMessages -> Message] /\ SentNames' /\ SentKeep
  <1>1. messages' \in [1..MaxMessages -> Message]
    BY DEF QueueInv, SqsTypeOK
  <1>2. messages'[m] = msg /\ \A n \in 1..MaxMessages : n # m => messages'[n] = messages[n]
    BY DEF QueueInv, SqsTypeOK
  <1> QED
    BY <1>1, <1>2 DEF QueueInv, SentNames, SentKeep

LEMMA MoveMessage ==
  ASSUME QueueInv, NEW m \in 1..MaxMessages, messages[m].place # "unsent",
         NEW place \in {"visible", "hidden", "dead", "deleted"}, Move(m, place)
  PROVE  messages' \in [1..MaxMessages -> Message] /\ SentNames' /\ SentKeep
  <1> DEFINE msg == [messages[m] EXCEPT !.place = place]
  <1>1. messages[m] \in Message /\ messages[m].job \in Jobs
    BY DEF QueueInv, SqsTypeOK, SentNames
  <1>2. msg \in Message /\ msg.place = place /\ msg.job = messages[m].job
    BY <1>1 DEF Message
  <1>3. messages' = [messages EXCEPT ![m] = msg]
    BY DEF Move, QueueInv, SqsTypeOK
  <1> HIDE DEF msg
  <1> QED
    BY <1>1, <1>2, <1>3, MessageChanged

\* A message is sent: one that was not sent before gets the job.
LEMMA SendEffect ==
  ASSUME QueueInv, NEW j \in Jobs, NEW place \in {"visible", "hidden"}, Send(j, place)
  PROVE  /\ messages' \in [1..MaxMessages -> Message] /\ SentNames' /\ SentKeep
         /\ \E m \in 1..MaxMessages :
              /\ messages[m].place = "unsent" /\ messages'[m].job = j
              /\ messages'[m].place = place
              /\ \A n \in 1..MaxMessages : n # m => messages'[n] = messages[n]
  <1>1. PICK m \in Unsent :
          messages' = [messages EXCEPT ![m].job = j, ![m].place = place]
    BY DEF Send
  <1> DEFINE msg == [messages[m] EXCEPT !.job = j, !.place = place]
  <1>2. m \in 1..MaxMessages /\ messages[m].place = "unsent" /\ messages[m] \in Message
    BY DEF Unsent, QueueInv, SqsTypeOK
  <1>3. msg \in Message /\ msg.place = place /\ msg.job = j
    BY <1>2 DEF Message
  <1>4. messages' = [messages EXCEPT ![m] = msg]
    BY <1>1, <1>2 DEF QueueInv, SqsTypeOK, Message
  <1>5. messages'[m] = msg /\ \A n \in 1..MaxMessages : n # m => messages'[n] = messages[n]
    BY <1>2, <1>4 DEF QueueInv, SqsTypeOK
  <1> HIDE DEF msg
  <1> QED
    BY <1>2, <1>3, <1>4, <1>5, MessageChanged

\* No step forgets what a message says.
LEMMA MessagesKept ==
  ASSUME WorkerInv, QueueInv, [Next]_sqsVars
  PROVE  messages' \in [1..MaxMessages -> Message] /\ SentNames' /\ SentKeep
  <1>1. CASE UNCHANGED messages
    BY <1>1 DEF QueueInv, SqsTypeOK, SentNames, SentKeep
  <1>2. ASSUME NEW j \in Jobs, AnnounceJob(j)
        PROVE  messages' \in [1..MaxMessages -> Message] /\ SentNames' /\ SentKeep
    BY <1>2, SendEffect DEF AnnounceJob
  <1>3. ASSUME NEW w \in Workers, AnnounceRetry(w)
        PROVE  messages' \in [1..MaxMessages -> Message] /\ SentNames' /\ SentKeep
    <2>1. job[w] \in Jobs
      BY <1>3 DEF AnnounceRetry, QueueInv, Handed
    <2> QED
      BY <1>3, <2>1, SendEffect DEF AnnounceRetry
  <1>4. ASSUME NEW w \in Workers, DeleteMessage(w)
        PROVE  messages' \in [1..MaxMessages -> Message] /\ SentNames' /\ SentKeep
    <2>1. delivery[w] \in 1..MaxMessages /\ messages[delivery[w]].place # "unsent"
      BY <1>4 DEF DeleteMessage, QueueInv, Handed, SentNames, Delivering
    <2> QED
      BY <1>4, <2>1, MoveMessage DEF DeleteMessage
  <1>5. ASSUME NEW m \in 1..MaxMessages, Timeout(m)
        PROVE  messages' \in [1..MaxMessages -> Message] /\ SentNames' /\ SentKeep
    <2>1. CASE Reappear(m)
      BY <2>1, MoveMessage DEF Reappear
    <2>2. CASE Redrive(m)
      BY <2>2, MoveMessage DEF Redrive
    <2> QED
      BY <1>5, <2>1, <2>2 DEF Timeout
  <1>6. ASSUME NEW w \in Workers, ReceiveMessage(w)
        PROVE  messages' \in [1..MaxMessages -> Message] /\ SentNames' /\ SentKeep
    <2>1. PICK m \in 1..MaxMessages :
            /\ messages[m].place = "visible" /\ messages[m].receives < MaxReceives
            /\ messages' = [messages EXCEPT ![m].place = "hidden", ![m].receives = @ + 1]
      BY <1>6 DEF ReceiveMessage
    <2> DEFINE n == messages[m].receives + 1
               msg == [messages[m] EXCEPT !.place = "hidden", !.receives = n]
    <2>2. messages[m] \in Message /\ messages[m].job \in Jobs
      BY <2>1 DEF QueueInv, SqsTypeOK, SentNames
    <2>3. n \in 0..MaxReceives
      BY <2>1, <2>2, QueueAssumption DEF Message
    <2>4. messages' = [messages EXCEPT ![m] = msg]
      BY <2>1, <2>2 DEF QueueInv, SqsTypeOK, Message
    <2>5. msg \in Message /\ msg.place = "hidden" /\ msg.job = messages[m].job
      <3> HIDE DEF n
      <3> QED
        BY <2>2, <2>3 DEF Message
    <2> HIDE DEF msg
    <2> QED
      BY <2>2, <2>4, <2>5, MessageChanged
  <1> QED
    BY <1>1, <1>2, <1>3, <1>4, <1>5, <1>6
    DEF Next, FinishRequest, RunOnce, Accident, Lease, Settle, InsertJob, CommitRequest,
        RollBackRequest, ReleaseExpired, ReceiveNothing, LookUpJob, ClaimJob,
        LeaveMessage, ExecuteJob, SettleQuietly, FindRetry, LoseSettlement, LoseRecord,
        CrashWorker, RestartWorker, PassTime, queueVars, sqsVars

----------------------------------------------------------------------------
(* The rest of the queue's state.                                          *)

\* What the steps of one worker leave alone of the others.
LEMMA OthersStay ==
  ASSUME WorkerTypeOK, QueueInv, NEW w \in Workers, RunOnce(w) \/ Accident(w)
  PROVE  /\ UNCHANGED request
         /\ \A v \in Workers \ {w} :
              /\ pc'[v] = pc[v] /\ job'[v] = job[v] /\ delivery'[v] = delivery[v]
  <1> USE DEF WorkerTypeOK, QueueInv, SqsTypeOK, Goto, Forget
  <1>1. CASE Execute(w) /\ UNCHANGED <<request, delivery>>
    BY <1>1 DEF Execute, LoadJob, CommitWork, ConflictOnSuccess, HandlerRaises,
                ReadForFailure, RecordFailure
  <1>2. CASE ReleaseExpired(w) \/ ReceiveMessage(w) \/ ReceiveNothing(w)
    BY <1>2 DEF ReleaseExpired, ReceiveMessage, ReceiveNothing, GiveUp, queueVars
  <1>3. CASE LookUpJob(w) \/ DeleteMessage(w) \/ ClaimJob(w) \/ LeaveMessage(w)
    BY <1>3 DEF LookUpJob, DeleteMessage, ClaimJob, LeaveMessage, GiveUp, sessionVars
  <1>4. CASE Settle(w) \/ LoseSettlement(w)
    BY <1>4 DEF Settle, SettleQuietly, FindRetry, AnnounceRetry, LoseSettlement, GiveUp,
                queueVars
  <1>5. CASE LoseRecord(w) \/ CrashWorker(w) \/ RestartWorker(w)
    BY <1>5 DEF LoseRecord, LoseFailureRecord, CrashWorker, Crash, RestartWorker,
                Restart, queueVars
  <1>6. ExecuteJob(w) => Execute(w) /\ UNCHANGED <<request, delivery>>
    BY DEF ExecuteJob
  <1> QED
    BY <1>1, <1>2, <1>3, <1>4, <1>5, <1>6 DEF RunOnce, Accident, Lease

\* What a worker holds after its own step.
LEMMA OwnHands ==
  ASSUME WorkerInv, QueueInv, SentKeep, NEW w \in Workers, RunOnce(w) \/ Accident(w)
  PROVE  /\ pc'[w] \in Delivering \cup {"announcing"} => job'[w] \in Jobs
         /\ pc'[w] \in Delivering => /\ delivery'[w] \in 1..MaxMessages
                                     /\ messages'[delivery'[w]].job = job'[w]
  <1> USE DEF Goto, Forget, Delivering
  <1> WorkerTypeOK /\ SqsTypeOK
    BY DEF WorkerInv, QueueInv
  <1>1. CASE ReceiveMessage(w)
    <2>1. PICK m \in 1..MaxMessages :
            /\ messages[m].place = "visible"
            /\ delivery' = [delivery EXCEPT ![w] = m]
            /\ job' = [job EXCEPT ![w] = messages[m].job]
      BY <1>1 DEF ReceiveMessage
    <2>2. messages'[m].job = messages[m].job /\ messages[m].job \in Jobs
      BY <2>1 DEF SentKeep, QueueInv, SentNames
    <2>3. delivery'[w] = m /\ job'[w] = messages[m].job
      BY <2>1 DEF WorkerTypeOK, SqsTypeOK
    <2> QED
      BY <2>2, <2>3
  <1>2. CASE LookUpJob(w)
    <2>1. /\ job[w] \in Jobs /\ delivery[w] \in 1..MaxMessages
          /\ messages[delivery[w]].job = job[w] /\ messages' = messages
      BY <1>2 DEF LookUpJob, QueueInv, Handed
    <2>2. CASE UNCHANGED <<sessionVars, delivery>>
      BY <2>1, <2>2 DEF sessionVars
    <2>3. CASE GiveUp(w)
      BY <2>3 DEF GiveUp, WorkerTypeOK
    <2> QED
      BY <1>2, <2>2, <2>3 DEF LookUpJob
  <1>3. CASE FindRetry(w)
    BY <1>3 DEF FindRetry, WorkerInv, JobInHand, WorkerTypeOK
  <1>4. CASE RunOnce(w) /\ ~(ReceiveMessage(w) \/ LookUpJob(w) \/ FindRetry(w) \/ ExecuteJob(w))
    BY <1>4 DEF RunOnce, Lease, Settle, ReleaseExpired, ReceiveNothing, DeleteMessage,
                ClaimJob, LeaveMessage, SettleQuietly, AnnounceRetry, RestartWorker,
                Restart, GiveUp, WorkerTypeOK
  <1>5. CASE Execute(w)
    BY <1>5 DEF Execute, LoadJob, CommitWork, ConflictOnSuccess, HandlerRaises,
                ReadForFailure, RecordFailure, WorkerTypeOK
  <1>6. CASE Accident(w)
    BY <1>6 DEF Accident, LoseRecord, LoseFailureRecord, LoseSettlement, CrashWorker,
                Crash, WorkerTypeOK
  <1>7. ExecuteJob(w) => Execute(w)
    BY DEF ExecuteJob
  <1> QED
    BY <1>1, <1>2, <1>3, <1>4, <1>5, <1>6, <1>7

LEMMA HandedKept ==
  ASSUME WorkerInv, QueueInv, SentKeep, [Next]_sqsVars
  PROVE  Handed'
  <1>1. ASSUME NEW w \in Workers, RunOnce(w) \/ Accident(w)
        PROVE  Handed'
    <2>1. WorkerTypeOK
      BY DEF WorkerInv
    <2>2. \A v \in Workers \ {w} :
            /\ pc'[v] = pc[v] /\ job'[v] = job[v] /\ delivery'[v] = delivery[v]
      BY <1>1, <2>1, OthersStay
    <2>3. \A m \in 1..MaxMessages :
            messages[m].job \in Jobs => messages'[m].job = messages[m].job
      BY DEF SentKeep, QueueInv, SentNames
    <2>4. ASSUME NEW v \in Workers, v # w
          PROVE  /\ pc'[v] \in Delivering \cup {"announcing"} => job'[v] \in Jobs
                 /\ pc'[v] \in Delivering => /\ delivery'[v] \in 1..MaxMessages
                                             /\ messages'[delivery'[v]].job = job'[v]
      BY <2>2, <2>3, <2>4 DEF QueueInv, Handed
    <2> QED
      BY <1>1, <2>4, OwnHands DEF Handed
  <1>2. CASE UNCHANGED <<pc, job, delivery>>
    BY <1>2 DEF SentKeep, QueueInv, SentNames, Handed, Delivering
  <1> QED
    BY <1>1, <1>2
    DEF Next, FinishRequest, InsertJob, AnnounceJob, CommitRequest, RollBackRequest,
        PassTime, Clock, LeaseRunsOut, ComesDue, Timeout, Reappear, Redrive,
        workerVars, queueVars, sqsVars

\* Only a request that commits stores a row.
LEMMA StoredByCommit ==
  ASSUME WorkerInv, HistoryInv, [Next]_sqsVars,
         NEW k \in Jobs, rows[k].state = "absent"
  PROVE  rows'[k].state = "absent" \/ CommitRequest(k)
  <1> WorkerTypeOK
    BY DEF WorkerInv
  <1>1. CASE UNCHANGED rows
    BY <1>1
  <1>2. ASSUME NEW j \in Jobs, CommitRequest(j)
        PROVE  rows'[k].state = "absent" \/ CommitRequest(k)
    BY <1>2 DEF CommitRequest, WorkerTypeOK
  <1>3. ASSUME NEW w \in Workers, ReleaseExpired(w)
        PROVE  rows'[k].state = "absent"
    BY <1>3 DEF ReleaseExpired, Released, Lapsed
  <1>4. ASSUME NEW w \in Workers, ClaimJob(w)
        PROVE  rows'[k].state = "absent"
    BY <1>4 DEF ClaimJob, Due, WorkerTypeOK
  <1>5. ASSUME NEW w \in Workers, Execute(w)
        PROVE  rows'[k].state = "absent"
    BY <1>5 DEF Execute, LoadJob, CommitWork, ConflictOnSuccess, HandlerRaises,
                ReadForFailure, RecordFailure, WorkerTypeOK, HistoryInv, StoredInHand,
                Executing
  <1>6. ASSUME NEW j \in Jobs, Clock(j)
        PROVE  rows'[k].state = "absent"
    BY <1>6 DEF Clock, LeaseRunsOut, ComesDue, WorkerTypeOK
  <1>7. /\ \A w \in Workers : ExecuteJob(w) => Execute(w)
        /\ \A j \in Jobs : PassTime(j) => Clock(j)
    BY DEF ExecuteJob, PassTime
  <1> QED
    BY <1>1, <1>2, <1>3, <1>4, <1>5, <1>6, <1>7
    DEF Next, FinishRequest, RunOnce, Accident, Lease, Settle, InsertJob, AnnounceJob,
        RollBackRequest, ReceiveMessage, ReceiveNothing, LookUpJob, DeleteMessage,
        LeaveMessage, SettleQuietly, FindRetry, AnnounceRetry, LoseSettlement, LoseRecord,
        LoseFailureRecord, CrashWorker, Crash, RestartWorker, Restart, Timeout, Reappear,
        Redrive, workerVars, sqsVars

\* A request goes its way to its end, and only with its commit is a job stored.
LEMMA RequestsKept ==
  ASSUME WorkerInv, HistoryInv, QueueInv, [Next]_sqsVars
  PROVE  /\ request' \in [Jobs -> {"none", "inserted", "announced", "ended"}]
         /\ \A k \in Jobs : request[k] = "ended" => request'[k] = "ended"
         /\ Unstored'
  <1> WorkerTypeOK /\ SqsTypeOK
    BY DEF WorkerInv, QueueInv
  <1>1. /\ request' \in [Jobs -> {"none", "inserted", "announced", "ended"}]
        /\ \A k \in Jobs : request[k] = "ended" => request'[k] = "ended"
    <2>1. CASE UNCHANGED request
      BY <2>1 DEF SqsTypeOK
    <2>2. ASSUME NEW j \in Jobs, InsertJob(j) \/ FinishRequest(j) \/ RollBackRequest(j)
          PROVE  /\ request' \in [Jobs -> {"none", "inserted", "announced", "ended"}]
                 /\ \A k \in Jobs : request[k] = "ended" => request'[k] = "ended"
      BY <2>2 DEF SqsTypeOK, InsertJob, FinishRequest, AnnounceJob, CommitRequest,
                  RollBackRequest
    <2>3. \A w \in Workers : RunOnce(w) \/ Accident(w) => UNCHANGED request
      BY OthersStay
    <2> QED
      BY <2>1, <2>2, <2>3 DEF Next, PassTime, Timeout, Reappear, Redrive, queueVars, sqsVars
  <1>2. ASSUME NEW k \in Jobs, request'[k] # "ended"
        PROVE  rows'[k].state = "absent"
    <2>1. rows[k].state = "absent"
      BY <1>1, <1>2 DEF QueueInv, Unstored
    <2>2. ~CommitRequest(k)
      BY <1>2 DEF CommitRequest, SqsTypeOK
    <2> QED
      BY <2>1, <2>2, StoredByCommit
  <1> QED
    BY <1>1, <1>2 DEF Unstored

\* The rest stays well formed, and no job is ever unmissed.
LEMMA HandsTyped ==
  ASSUME WorkerInv, QueueInv, [Next]_sqsVars
  PROVE  /\ delivery' \in [Workers -> 0..MaxMessages]
         /\ succeeded' \in [Workers -> BOOLEAN]
         /\ missed' \subseteq Jobs /\ missed \subseteq missed'
  <1> WorkerTypeOK /\ SqsTypeOK
    BY DEF WorkerInv, QueueInv
  <1> USE DEF SqsTypeOK, GiveUp
  <1>1. CASE UNCHANGED <<delivery, succeeded, missed>>
    BY <1>1
  <1>2. ASSUME NEW w \in Workers, ReceiveMessage(w) \/ ReceiveNothing(w)
        PROVE  /\ delivery' \in [Workers -> 0..MaxMessages]
               /\ UNCHANGED <<succeeded, missed>>
    <2>1. CASE ReceiveNothing(w)
      BY <2>1, QueueAssumption DEF ReceiveNothing, None
    <2>2. CASE ReceiveMessage(w)
      <3>1. PICK m \in 1..MaxMessages : delivery' = [delivery EXCEPT ![w] = m]
        BY <2>2 DEF ReceiveMessage
      <3>2. m \in 0..MaxMessages
        BY QueueAssumption
      <3> QED
        BY <2>2, <3>1, <3>2 DEF ReceiveMessage
    <2> QED
      BY <1>2, <2>1, <2>2
  <1>3. ASSUME NEW w \in Workers,
               \/ DeleteMessage(w) \/ LeaveMessage(w) \/ Settle(w) \/ LoseSettlement(w)
               \/ CrashWorker(w)
        PROVE  /\ delivery' \in [Workers -> 0..MaxMessages]
               /\ UNCHANGED <<succeeded, missed>>
    BY <1>3, QueueAssumption
    DEF DeleteMessage, LeaveMessage, Settle, SettleQuietly, FindRetry, AnnounceRetry,
        LoseSettlement, CrashWorker, None, queueVars
  <1>4. ASSUME NEW w \in Workers, LookUpJob(w)
        PROVE  /\ delivery' \in [Workers -> 0..MaxMessages]
               /\ succeeded' = succeeded
               /\ missed' \subseteq Jobs /\ missed \subseteq missed'
    <2>1. job[w] \in Jobs
      BY <1>4 DEF LookUpJob, QueueInv, Handed, Delivering
    <2> QED
      BY <1>4, <2>1, QueueAssumption DEF LookUpJob, None
  <1>5. ASSUME NEW w \in Workers, ClaimJob(w)
        PROVE  /\ succeeded' \in [Workers -> BOOLEAN]
               /\ UNCHANGED <<delivery, missed>>
    BY <1>5 DEF ClaimJob
  <1>6. ASSUME NEW w \in Workers, ExecuteJob(w)
        PROVE  /\ succeeded' \in [Workers -> BOOLEAN]
               /\ UNCHANGED <<delivery, missed>>
    <2> DEFINE outcome == succeeded[w] \/ CommitWork(w)
    <2>1. succeeded' = [succeeded EXCEPT ![w] = outcome] /\ UNCHANGED <<delivery, missed>>
      BY <1>6 DEF ExecuteJob
    <2>2. outcome \in BOOLEAN
      OBVIOUS
    <2> HIDE DEF outcome
    <2> QED
      BY <2>1, <2>2
  <1> QED
    BY <1>1, <1>2, <1>3, <1>4, <1>5, <1>6
    DEF Next, FinishRequest, RunOnce, Accident, Lease, InsertJob, AnnounceJob,
        CommitRequest, RollBackRequest, ReleaseExpired, LoseRecord, RestartWorker,
        PassTime, Timeout, Reappear, Redrive, queueVars, sqsVars

\* Table, workers and queue together.
LEMMA NextInv ==
  ASSUME TableInv, QueueInv, [Next]_sqsVars
  PROVE  TableInv' /\ QueueInv' /\ \A j \in Jobs : Lifecycle!Step(j)
  <1>1. WorkerInv /\ WorkerTypeOK /\ HistoryInv
    BY DEF TableInv, WorkerInv
  <1>2. TableInv' /\ \A j \in Jobs : Lifecycle!Step(j)
    BY <1>1, NextIsTableStep, TableStepInv
  <1>3. messages' \in [1..MaxMessages -> Message] /\ SentNames' /\ SentKeep
    BY <1>1, MessagesKept
  <1>4. Handed'
    BY <1>1, <1>3, HandedKept
  <1>5. request' \in [Jobs -> {"none", "inserted", "announced", "ended"}] /\ Unstored'
    BY <1>1, RequestsKept
  <1>6. SqsTypeOK'
    BY <1>1, <1>2, <1>3, <1>5, HandsTyped DEF SqsTypeOK, TableInv, WorkerInv
  <1> QED
    BY <1>2, <1>3, <1>4, <1>5, <1>6 DEF QueueInv

----------------------------------------------------------------------------
(* A waiting job has a message.                                            *)

\* A job that is over stays over.
LEMMA OverStays ==
  ASSUME WorkerTypeOK, NEW j \in Jobs, Lifecycle!Step(j), missed \subseteq missed', Over(j)
  PROVE  Over(j)'
  <1>1. CASE j \in missed
    BY <1>1 DEF Over
  <1>2. CASE lapses[j] > 0
    <2>1. lapses[j] \in Nat /\ (lapses'[j] = lapses[j] \/ lapses'[j] = lapses[j] + 1)
      BY DEF WorkerTypeOK, Lifecycle!Step, Lifecycle!Store, Lifecycle!Claim,
             Lifecycle!Succeed, Lifecycle!Fail, Lifecycle!LeaseRunsOut, Lifecycle!Release,
             Lifecycle!LateOutcome, Lifecycle!Keeps, Lifecycle!Applies
    <2> QED
      BY <1>2, <2>1 DEF Over
  <1>3. CASE rows[j].state \in TerminalStates /\ ~(lapses[j] > 0)
    <2>1. rows'[j].state = rows[j].state
      BY <1>3 DEF TerminalStates, Lifecycle!Step, Lifecycle!Store, Lifecycle!Claim,
                  Lifecycle!Succeed, Lifecycle!Fail, Lifecycle!LeaseRunsOut,
                  Lifecycle!Release, Lifecycle!LateOutcome, Lifecycle!Stays
    <2> QED
      BY <1>3, <2>1 DEF Over
  <1> QED
    BY <1>1, <1>2, <1>3 DEF Over

\* Only a worker that found its job unknown or finished discards its message.
LEMMA DiscardsKept ==
  ASSUME WorkerInv, QueueInv, Discards, [Next]_sqsVars,
         \A j \in Jobs : Over(j) => Over(j)'
  PROVE  Discards'
  <1> WorkerTypeOK /\ SqsTypeOK
    BY DEF WorkerInv, QueueInv
  <1> SUFFICES ASSUME NEW v \in Workers, NEW j, pc'[v] = "discarding", job'[v] = j
               PROVE  Over(j)'
    BY DEF Discards, Over
  <1>1. CASE pc[v] = "discarding" /\ job'[v] = job[v]
    <2>1. j \in Jobs /\ Over(j)
      BY <1>1 DEF Discards, Over, QueueInv, Handed, Delivering
    <2> QED
      BY <1>1, <2>1
  <1>2. CASE LookUpJob(v)
    <2>1. j \in Jobs /\ job[v] = j /\ rows' = rows
      BY <1>2 DEF LookUpJob, QueueInv, Handed, Delivering, Goto, GiveUp, sessionVars,
                  WorkerTypeOK
    <2>2. rows[j].state \in TerminalStates \/ j \in missed'
      BY <1>2, <2>1 DEF LookUpJob, Goto, GiveUp, WorkerTypeOK
    <2> QED
      BY <2>1, <2>2 DEF Over
  <1>3. ASSUME NEW w \in Workers, RunOnce(w) \/ Accident(w), w # v
        PROVE  pc'[v] = pc[v] /\ job'[v] = job[v]
    BY <1>3, OthersStay
  <1>4. RunOnce(v) \/ Accident(v) => LookUpJob(v)
    <2>1. CASE Execute(v)
      BY <2>1 DEF Execute, LoadJob, CommitWork, ConflictOnSuccess, HandlerRaises,
                  ReadForFailure, RecordFailure, Goto, WorkerTypeOK
    <2>2. CASE Lease(v) /\ ~LookUpJob(v)
      BY <2>2 DEF Lease, ReleaseExpired, ReceiveMessage, ReceiveNothing, DeleteMessage,
                  ClaimJob, LeaveMessage, GiveUp, Goto, WorkerTypeOK
    <2>3. CASE Settle(v) \/ RestartWorker(v) \/ Accident(v)
      BY <2>3 DEF Settle, SettleQuietly, FindRetry, AnnounceRetry, RestartWorker, Restart,
                  Accident, LoseRecord, LoseFailureRecord, LoseSettlement, CrashWorker,
                  Crash, GiveUp, Goto, WorkerTypeOK
    <2>4. ExecuteJob(v) => Execute(v)
      BY DEF ExecuteJob
    <2> QED
      BY <2>1, <2>2, <2>3, <2>4 DEF RunOnce
  <1>5. CASE UNCHANGED <<pc, job>>
    BY <1>1, <1>5
  <1> QED
    BY <1>1, <1>2, <1>3, <1>4, <1>5
    DEF Next, FinishRequest, InsertJob, AnnounceJob, CommitRequest, RollBackRequest,
        PassTime, Clock, LeaseRunsOut, ComesDue, Timeout, Reappear, Redrive,
        workerVars, sqsVars

\* A message that waits, or was dead-lettered, goes only when it is deleted.
LEMMA MessageStands ==
  ASSUME WorkerInv, QueueInv, [Next]_sqsVars, NEW m \in 1..MaxMessages,
         messages[m].place \in {"visible", "hidden", "dead"}
  PROVE  \/ messages'[m].place \in {"visible", "hidden", "dead"}
         \/ \E w \in Workers : DeleteMessage(w) /\ delivery[w] = m
  <1> SqsTypeOK
    BY DEF QueueInv
  <1>1. CASE UNCHANGED messages
    BY <1>1
  <1>2. ASSUME NEW j \in Jobs, NEW place \in {"visible", "hidden"}, Send(j, place)
        PROVE  messages'[m].place \in {"visible", "hidden", "dead"}
    BY <1>2, SendEffect
  <1>3. ASSUME NEW w \in Workers, DeleteMessage(w), delivery[w] # m
        PROVE  messages'[m].place \in {"visible", "hidden", "dead"}
    BY <1>3 DEF DeleteMessage, Move, SqsTypeOK
  <1>4. ASSUME NEW n \in 1..MaxMessages, Timeout(n)
        PROVE  messages'[m].place \in {"visible", "hidden", "dead"}
    BY <1>4 DEF Timeout, Reappear, Redrive, Move, SqsTypeOK, Message
  <1>5. ASSUME NEW w \in Workers, ReceiveMessage(w)
        PROVE  messages'[m].place \in {"visible", "hidden", "dead"}
    BY <1>5 DEF ReceiveMessage, SqsTypeOK, Message
  <1>6. /\ \A j \in Jobs : AnnounceJob(j) => Send(j, "visible")
        /\ \A w \in Workers : AnnounceRetry(w) =>
             job[w] \in Jobs /\ \E place \in {"visible", "hidden"} : Send(job[w], place)
    BY DEF AnnounceJob, AnnounceRetry, QueueInv, Handed
  <1> QED
    BY <1>1, <1>2, <1>3, <1>4, <1>5, <1>6
    DEF Next, FinishRequest, RunOnce, Accident, Lease, Settle, InsertJob, CommitRequest,
        RollBackRequest, ReleaseExpired, ReceiveNothing, LookUpJob, ClaimJob,
        LeaveMessage, ExecuteJob, SettleQuietly, FindRetry, LoseSettlement, LoseRecord,
        CrashWorker, RestartWorker, PassTime, queueVars, sqsVars

\* An announced job keeps a message until it is over.
LEMMA CoveredKept ==
  ASSUME WorkerInv, HistoryInv, QueueInv, DeliveryInv, SentKeep, [Next]_sqsVars,
         \A j \in Jobs : Over(j) => Over(j)'
  PROVE  Covered'
  <1> WorkerTypeOK /\ SqsTypeOK
    BY DEF WorkerInv, QueueInv
  <1> SUFFICES ASSUME NEW j \in Jobs, request'[j] = "announced" \/ rows'[j].state # "absent"
               PROVE  Over(j)' \/ (Live(j) \cup Dead(j))' # {}
    BY DEF Covered
  <1>1. CASE AnnounceJob(j)
    <2>1. PICK m \in 1..MaxMessages : messages'[m].job = j /\ messages'[m].place = "visible"
      BY <1>1, SendEffect DEF AnnounceJob
    <2>2. m \in Live(j)'
      BY <2>1 DEF Live
    <2> QED
      BY <2>2
  <1>2. CASE ~AnnounceJob(j)
    <2>1. request[j] = "announced" \/ rows[j].state # "absent"
      <3>1. CASE rows'[j].state # "absent"
        BY <3>1, StoredByCommit DEF CommitRequest
      <3>2. CASE request'[j] = "announced"
        <4>1. \A w \in Workers : RunOnce(w) \/ Accident(w) => UNCHANGED request
          BY OthersStay
        <4> QED
          BY <1>2, <3>2, <4>1
          DEF Next, FinishRequest, InsertJob, AnnounceJob, CommitRequest, RollBackRequest,
              PassTime, Timeout, Reappear, Redrive, SqsTypeOK, queueVars, sqsVars
      <3> QED
        BY <3>1, <3>2
    <2>2. CASE Over(j)
      BY <2>2
    <2>3. ASSUME NEW m \in Live(j) \cup Dead(j)
          PROVE  Over(j)' \/ m \in (Live(j) \cup Dead(j))'
      <3>1. /\ m \in 1..MaxMessages /\ messages[m].job = j
            /\ messages[m].place \in {"visible", "hidden", "dead"}
        BY <2>3 DEF Live, Dead
      <3>2. messages'[m].job = j
        BY <3>1 DEF SentKeep
      <3>3. CASE messages'[m].place \in {"visible", "hidden", "dead"}
        BY <3>1, <3>2, <3>3 DEF Live, Dead
      <3>4. ASSUME NEW w \in Workers, DeleteMessage(w), delivery[w] = m
            PROVE  Over(j)'
        BY <3>1, <3>4 DEF DeleteMessage, DeliveryInv, Discards, QueueInv, Handed, Delivering
      <3> QED
        BY <3>1, <3>3, <3>4, MessageStands
    <2> QED
      BY <2>1, <2>2, <2>3 DEF DeliveryInv, Covered
  <1> QED
    BY <1>1, <1>2

LEMMA NextDelivery ==
  ASSUME TableInv, QueueInv, DeliveryInv, [Next]_sqsVars
  PROVE  DeliveryInv'
  <1>1. WorkerInv /\ WorkerTypeOK /\ HistoryInv
    BY DEF TableInv, WorkerInv
  <1>2. \A j \in Jobs : Over(j) => Over(j)'
    BY <1>1, NextInv, HandsTyped, OverStays
  <1>3. SentKeep
    BY <1>1, MessagesKept
  <1> QED
    BY <1>1, <1>2, <1>3, DiscardsKept, CoveredKept DEF DeliveryInv

----------------------------------------------------------------------------
(* The messages are paid for.                                              *)

LEMMA BudgetFinite ==
  ASSUME NEW j
  PROVE  /\ IsFiniteSet(Copies(j)) /\ Cardinality(Copies(j)) \in Nat
         /\ IsFiniteSet(Owing(j)) /\ Cardinality(Owing(j)) \in Nat
  <1>1. IsFiniteSet(1..MaxMessages)
    BY QueueAssumption, FS_Interval
  <1>2. Copies(j) \subseteq 1..MaxMessages /\ Owing(j) \subseteq Workers
    BY DEF Copies, Owing
  <1> QED
    BY <1>1, <1>2, WorkersAssumption, FS_Subset, FS_CardinalityType

\* What a step of a worker does to those who owe an announcement.
LEMMA OwingStep ==
  ASSUME WorkerInv, QueueInv, NEW w \in Workers, RunOnce(w) \/ Accident(w), NEW j
  PROVE  /\ ~ClaimJob(w) => Owing(j)' \subseteq Owing(j)
         /\ ClaimJob(w) => Owing(j)' \subseteq Owing(j) \cup
                             (IF job[w] = j THEN {w} ELSE {})
         /\ AnnounceRetry(w) => Owing(j)' \subseteq Owing(j) \ {w}
  <1> WorkerTypeOK
    BY DEF WorkerInv
  <1> DEFINE owes == Executing \cup {"settling", "announcing"}
  <1>1. \A v \in Workers \ {w} : pc'[v] = pc[v] /\ job'[v] = job[v]
    BY OthersStay
  <1>2. CASE pc'[w] \in owes => pc[w] \in owes /\ job'[w] = job[w]
    <2>1. Owing(j)' \subseteq Owing(j)
      BY <1>1, <1>2 DEF Owing
    <2>2. AnnounceRetry(w) => pc'[w] = "idle"
      BY DEF AnnounceRetry, GiveUp, Goto, WorkerTypeOK
    <2>3. ClaimJob(w) => FALSE
      BY <1>2 DEF ClaimJob, Goto, WorkerTypeOK, Executing
    <2> QED
      BY <2>1, <2>2, <2>3 DEF Owing, Executing
  <1>3. CASE ClaimJob(w)
    <2>1. pc[w] = "claiming" /\ job' = job
      BY <1>3 DEF ClaimJob
    <2> QED
      BY <1>1, <1>3, <2>1 DEF Owing, AnnounceRetry, WorkerTypeOK
  <1>4. CASE Execute(w)
    <2>1. pc[w] \in owes /\ (job' = job \/ pc'[w] = "down")
      BY <1>4 DEF Execute, LoadJob, CommitWork, ConflictOnSuccess, HandlerRaises,
                  ReadForFailure, RecordFailure, Executing, Goto, WorkerTypeOK
    <2> QED
      BY <1>2, <2>1 DEF Executing
  <1>5. CASE Lease(w) /\ ~ClaimJob(w)
    <2>1. pc'[w] \notin owes
      BY <1>5 DEF Lease, ReleaseExpired, ReceiveMessage, ReceiveNothing, LookUpJob,
                  DeleteMessage, LeaveMessage, GiveUp, Goto, Executing, WorkerTypeOK
    <2> QED
      BY <1>2, <2>1
  <1>6. CASE FindRetry(w) \/ LoseRecord(w)
    <2>1. pc[w] \in owes /\ job' = job
      BY <1>6 DEF FindRetry, LoseRecord, LoseFailureRecord, Executing
    <2> QED
      BY <1>2, <2>1
  <1>7. CASE SettleQuietly(w) \/ AnnounceRetry(w) \/ RestartWorker(w) \/ LoseSettlement(w)
             \/ CrashWorker(w)
    <2>1. pc'[w] \notin owes
      BY <1>7 DEF SettleQuietly, AnnounceRetry, RestartWorker, Restart, LoseSettlement,
                  CrashWorker, Crash, GiveUp, Goto, Executing, WorkerTypeOK
    <2> QED
      BY <1>2, <2>1
  <1>8. ExecuteJob(w) => Execute(w)
    BY DEF ExecuteJob
  <1> QED
    BY <1>3, <1>4, <1>5, <1>6, <1>7, <1>8 DEF RunOnce, Settle, Accident

\* A job whose copies, debtors and first announcement only go away stays within
\* its budget.
LEMMA BudgetStays ==
  ASSUME WorkerTypeOK, WorkerTypeOK', MessageBudget, NEW j \in Jobs,
         Copies(j)' \subseteq Copies(j), Owing(j)' \subseteq Owing(j),
         Unannounced(j)' <= Unannounced(j),
         rows'[j].attempts >= rows[j].attempts
  PROVE  Cardinality(Copies(j)') + Cardinality(Owing(j)') + Unannounced(j)'
           <= 1 + rows'[j].attempts
  <1>1. /\ Cardinality(Copies(j)') <= Cardinality(Copies(j))
        /\ Cardinality(Owing(j)') <= Cardinality(Owing(j))
        /\ Cardinality(Copies(j)') \in Nat /\ Cardinality(Owing(j)') \in Nat
        /\ Cardinality(Copies(j)) \in Nat /\ Cardinality(Owing(j)) \in Nat
    BY BudgetFinite, FS_Subset, FS_CardinalityType
  <1>2. Unannounced(j) \in Nat /\ Unannounced(j)' \in Nat
    BY DEF Unannounced
  <1>3. rows[j].attempts \in Nat /\ rows'[j].attempts \in Nat
    BY DEF WorkerTypeOK, Row
  <1>4. Cardinality(Copies(j)) + Cardinality(Owing(j)) + Unannounced(j)
          <= 1 + rows[j].attempts
    BY DEF MessageBudget
  <1> QED
    BY <1>1, <1>2, <1>3, <1>4

\* Sending a message of the job adds one copy.
LEMMA CopiesSent ==
  ASSUME QueueInv, NEW k \in Jobs, NEW place \in {"visible", "hidden"}, Send(k, place),
         NEW j
  PROVE  /\ j # k => Copies(j)' \subseteq Copies(j)
         /\ j = k => Cardinality(Copies(j)') = Cardinality(Copies(j)) + 1
  <1>1. PICK m \in 1..MaxMessages :
          /\ messages[m].place = "unsent" /\ messages'[m].job = k
          /\ \A n \in 1..MaxMessages : n # m => messages'[n] = messages[n]
    BY SendEffect
  <1>2. messages[m].job \notin Jobs
    BY <1>1 DEF QueueInv, SentNames
  <1>3. CASE j # k
    BY <1>1, <1>3 DEF Copies
  <1>4. CASE j = k
    <2>1. m \notin Copies(j) /\ Copies(j)' = Copies(j) \cup {m}
      BY <1>1, <1>2, <1>4 DEF Copies
    <2>2. Cardinality(Copies(j) \cup {m}) = Cardinality(Copies(j)) + 1
      BY <2>1, BudgetFinite, FS_AddElement
    <2> QED
      BY <1>4, <2>1, <2>2
  <1> QED
    BY <1>3, <1>4

\* Only an announcement adds a copy.
LEMMA CopiesStay ==
  ASSUME WorkerInv, QueueInv, [Next]_sqsVars,
         \A k \in Jobs : ~AnnounceJob(k), \A w \in Workers : ~AnnounceRetry(w), NEW j
  PROVE  Copies(j)' \subseteq Copies(j)
  <1> SqsTypeOK
    BY DEF QueueInv
  <1>1. CASE UNCHANGED messages
    BY <1>1 DEF Copies
  <1>2. ASSUME NEW n, NEW place, Move(n, place)
        PROVE  Copies(j)' \subseteq Copies(j)
    BY <1>2 DEF Move, SqsTypeOK, Message, Copies
  <1>3. /\ \A w \in Workers : DeleteMessage(w) => Move(delivery[w], "deleted")
        /\ \A n \in 1..MaxMessages : Timeout(n) => Move(n, "visible") \/ Move(n, "dead")
    BY DEF DeleteMessage, Timeout, Reappear, Redrive
  <1>4. ASSUME NEW w \in Workers, ReceiveMessage(w)
        PROVE  Copies(j)' \subseteq Copies(j)
    BY <1>4 DEF ReceiveMessage, SqsTypeOK, Message, Copies
  <1> QED
    BY <1>1, <1>2, <1>3, <1>4
    DEF Next, FinishRequest, RunOnce, Accident, Lease, Settle, InsertJob, CommitRequest,
        RollBackRequest, ReleaseExpired, ReceiveNothing, LookUpJob, ClaimJob,
        LeaveMessage, ExecuteJob, SettleQuietly, FindRetry, LoseSettlement, LoseRecord,
        CrashWorker, RestartWorker, PassTime, queueVars, sqsVars

\* An announced job is never announced again by a request.
LEMMA AnnouncedOnce ==
  ASSUME WorkerInv, QueueInv, [Next]_sqsVars, NEW j \in Jobs
  PROVE  /\ Unannounced(j)' \in {0, 1} /\ Unannounced(j) \in {0, 1}
         /\ Unannounced(j)' <= Unannounced(j)
         /\ AnnounceJob(j) => Unannounced(j) = 1 /\ Unannounced(j)' = 0
  <1> WorkerTypeOK /\ SqsTypeOK
    BY DEF WorkerInv, QueueInv
  <1>1. CASE UNCHANGED request
    BY <1>1 DEF Unannounced, AnnounceJob, SqsTypeOK
  <1>2. ASSUME NEW k \in Jobs, InsertJob(k) \/ FinishRequest(k) \/ RollBackRequest(k)
        PROVE  \/ request'[j] = request[j]
               \/ request[j] = "none" /\ request'[j] = "inserted"
               \/ request'[j] \in {"announced", "ended"}
    BY <1>2 DEF InsertJob, FinishRequest, AnnounceJob, CommitRequest, RollBackRequest,
                SqsTypeOK
  <1>3. \A w \in Workers : RunOnce(w) \/ Accident(w) => UNCHANGED request
    BY OthersStay
  <1>4. \/ request'[j] = request[j]
        \/ request[j] = "none" /\ request'[j] = "inserted"
        \/ request'[j] \in {"announced", "ended"}
    BY <1>2, <1>3 DEF Next, PassTime, Timeout, Reappear, Redrive, queueVars, sqsVars
  <1>5. AnnounceJob(j) => request[j] = "inserted" /\ request'[j] = "announced"
    BY DEF AnnounceJob, SqsTypeOK
  <1> QED
    BY <1>4, <1>5 DEF Unannounced

\* Those who owe an announcement change only with a step of a worker.
LEMMA OwingStays ==
  ASSUME [Next]_sqsVars, \A w \in Workers : ~RunOnce(w) /\ ~Accident(w), NEW j
  PROVE  Owing(j)' = Owing(j)
  <1>1. UNCHANGED <<pc, job>>
    BY DEF Next, FinishRequest, InsertJob, AnnounceJob, CommitRequest, RollBackRequest,
           PassTime, Clock, LeaseRunsOut, ComesDue, Timeout, Reappear, Redrive,
           workerVars, sqsVars
  <1> QED
    BY <1>1 DEF Owing

\* An announcement spends what its sender owed; a claim pays for one more.
LEMMA MessageBudgetKept ==
  ASSUME TableInv, QueueInv, MessageBudget, [Next]_sqsVars
  PROVE  MessageBudget'
  <1> WorkerInv /\ WorkerTypeOK /\ WorkerTypeOK' /\ SqsTypeOK
    BY NextInv DEF TableInv, WorkerInv, QueueInv
  <1> SUFFICES ASSUME NEW j \in Jobs
               PROVE  Cardinality(Copies(j)') + Cardinality(Owing(j)') + Unannounced(j)'
                        <= 1 + rows'[j].attempts
    BY DEF MessageBudget
  <1>1. /\ Cardinality(Copies(j)) + Cardinality(Owing(j)) + Unannounced(j)
             <= 1 + rows[j].attempts
        /\ rows[j].attempts \in Nat /\ rows'[j].attempts \in Nat
    BY DEF MessageBudget, WorkerTypeOK, Row
  <1>2. rows'[j].attempts >= rows[j].attempts
    BY NextIsTableStep, AttemptsGrow
  <1>3. /\ Cardinality(Copies(j)) \in Nat /\ Cardinality(Copies(j)') \in Nat
        /\ Cardinality(Owing(j)) \in Nat /\ Cardinality(Owing(j)') \in Nat
        /\ IsFiniteSet(Owing(j))
    <2>1. Copies(j)' \subseteq 1..MaxMessages /\ Owing(j)' \subseteq Workers
      BY DEF Copies, Owing
    <2>2. IsFiniteSet(Copies(j)') /\ IsFiniteSet(Owing(j)')
      BY <2>1, WorkersAssumption, QueueAssumption, FS_Interval, FS_Subset
    <2> QED
      BY <2>2, BudgetFinite, FS_CardinalityType
  <1>4. ASSUME NEW k \in Jobs, AnnounceJob(k)
        PROVE  Cardinality(Copies(j)') + Cardinality(Owing(j)') + Unannounced(j)'
                 <= 1 + rows'[j].attempts
    <2>1. Owing(j)' = Owing(j) /\ Send(k, "visible")
      BY <1>4 DEF AnnounceJob, Owing, workerVars
    <2>2. CASE j # k
      BY <1>2, <2>1, <2>2, CopiesSent, AnnouncedOnce, BudgetStays
    <2>3. CASE j = k
      <3>1. Cardinality(Copies(j)') = Cardinality(Copies(j)) + 1
        BY <2>1, <2>3, CopiesSent
      <3>2. Unannounced(j) = 1 /\ Unannounced(j)' = 0
        BY <1>4, <2>3, AnnouncedOnce
      <3> QED
        BY <1>1, <1>2, <1>3, <2>1, <3>1, <3>2
    <2> QED
      BY <2>2, <2>3
  <1>5. ASSUME NEW w \in Workers, AnnounceRetry(w)
        PROVE  Cardinality(Copies(j)') + Cardinality(Owing(j)') + Unannounced(j)'
                 <= 1 + rows'[j].attempts
    <2>1. job[w] \in Jobs /\ pc[w] = "announcing"
      BY <1>5 DEF AnnounceRetry, QueueInv, Handed
    <2>2. PICK place \in {"visible", "hidden"} : Send(job[w], place)
      BY <1>5 DEF AnnounceRetry
    <2>3. Owing(j)' \subseteq Owing(j) \ {w}
      BY <1>5, OwingStep DEF RunOnce, Settle
    <2>4. CASE j # job[w]
      BY <1>2, <2>1, <2>2, <2>3, <2>4, CopiesSent, AnnouncedOnce, BudgetStays
    <2>5. CASE j = job[w]
      <3>1. Cardinality(Copies(j)') = Cardinality(Copies(j)) + 1
        BY <2>1, <2>2, <2>5, CopiesSent
      <3>2. w \in Owing(j)
        BY <2>1, <2>5 DEF Owing
      <3>3. /\ Cardinality(Owing(j) \ {w}) = Cardinality(Owing(j)) - 1
            /\ IsFiniteSet(Owing(j) \ {w})
        BY <1>3, <3>2, FS_RemoveElement
      <3>4. Cardinality(Owing(j)') <= Cardinality(Owing(j)) - 1
        BY <2>3, <3>3, FS_Subset
      <3>5. Unannounced(j) \in {0, 1} /\ Unannounced(j)' <= Unannounced(j)
            /\ Unannounced(j)' \in {0, 1}
        BY AnnouncedOnce
      <3> QED
        BY <1>1, <1>2, <1>3, <3>1, <3>4, <3>5
    <2> QED
      BY <2>4, <2>5
  <1>6. ASSUME NEW w \in Workers, ClaimJob(w)
        PROVE  Cardinality(Copies(j)') + Cardinality(Owing(j)') + Unannounced(j)'
                 <= 1 + rows'[j].attempts
    <2>1. Copies(j)' = Copies(j) /\ Unannounced(j)' = Unannounced(j)
      BY <1>6 DEF ClaimJob, Copies, Unannounced
    <2>2. Owing(j)' \subseteq Owing(j) \cup (IF job[w] = j THEN {w} ELSE {})
      BY <1>6, OwingStep DEF RunOnce, Lease
    <2>3. CASE job[w] # j
      BY <1>2, <2>1, <2>2, <2>3, AnnouncedOnce, BudgetStays
    <2>4. CASE job[w] = j
      <3>1. w \notin Owing(j)
        BY <1>6 DEF ClaimJob, Owing, Executing
      <3>2. /\ Cardinality(Owing(j) \cup {w}) = Cardinality(Owing(j)) + 1
            /\ IsFiniteSet(Owing(j) \cup {w})
        BY <1>3, <3>1, FS_AddElement
      <3>3. Cardinality(Owing(j)') <= Cardinality(Owing(j)) + 1
        BY <2>2, <2>4, <3>2, FS_Subset
      <3>4. rows'[j].attempts = rows[j].attempts + 1
        BY <1>6, <2>4, QueueSteps, NextIsTableStep, AttemptsGrow
      <3>5. Unannounced(j) \in {0, 1}
        BY AnnouncedOnce
      <3> QED
        BY <1>1, <1>3, <2>1, <3>3, <3>4, <3>5
    <2> QED
      BY <2>3, <2>4
  <1>7. CASE /\ \A k \in Jobs : ~AnnounceJob(k)
             /\ \A w \in Workers : ~AnnounceRetry(w) /\ ~ClaimJob(w)
    <2>1. Copies(j)' \subseteq Copies(j)
      BY <1>7, CopiesStay
    <2>2. Owing(j)' \subseteq Owing(j)
      BY <1>7, OwingStep, OwingStays
    <2> QED
      BY <1>2, <2>1, <2>2, AnnouncedOnce, BudgetStays
  <1> QED
    BY <1>4, <1>5, <1>6, <1>7

----------------------------------------------------------------------------
(* The beginning, and what holds throughout.                               *)

LEMMA InitHolds ==
  ASSUME Init
  PROVE  TableInv /\ QueueInv /\ DeliveryInv /\ MessageBudget /\ Lifecycle!Init
  <1>1. TableInv /\ Lifecycle!Init
    BY TableInit DEF Init
  <1>2. QueueInv
    <2>1. [job |-> None, receives |-> 0, place |-> "unsent"] \in Message
      BY QueueAssumption DEF Message
    <2>2. SqsTypeOK
      BY <1>1, <2>1, QueueAssumption DEF Init, SqsTypeOK, TableInv, WorkerInv, None
    <2>3. SentNames
      BY JobsAssumption DEF Init, SentNames, None
    <2>4. Handed /\ Unstored
      BY DEF Init, WorkerInit, Handed, Delivering, Unstored, AbsentRow
    <2> QED
      BY <2>2, <2>3, <2>4 DEF QueueInv
  <1>3. DeliveryInv
    BY DEF Init, WorkerInit, DeliveryInv, Discards, Covered, AbsentRow
  <1>4. MessageBudget
    <2> SUFFICES ASSUME NEW j \in Jobs
                 PROVE  Cardinality(Copies(j)) + Cardinality(Owing(j)) + Unannounced(j)
                          <= 1 + rows[j].attempts
      BY DEF MessageBudget
    <2>1. Copies(j) = {}
      BY JobsAssumption DEF Init, Copies, None
    <2>2. Owing(j) = {}
      BY DEF Init, WorkerInit, Owing, Executing
    <2>3. Unannounced(j) = 1 /\ rows[j].attempts = 0
      BY DEF Init, WorkerInit, Unannounced, AbsentRow
    <2> QED
      BY <2>1, <2>2, <2>3, FS_EmptySet
  <1> QED
    BY <1>1, <1>2, <1>3, <1>4

\* The lease budget, what the rows tell of commits, the attempts, and who was
\* handed which message, together, are kept by every step.
THEOREM Invariant == Spec => [](TableInv /\ QueueInv)
  <1>1. Init => TableInv /\ QueueInv
    BY InitHolds
  <1>2. TableInv /\ QueueInv /\ [Next]_sqsVars => TableInv' /\ QueueInv'
    BY NextInv
  <1> QED
    BY <1>1, <1>2, PTL DEF Spec

\* Table, workers, messages and requests are always well formed.
THEOREM TypeCorrect == Spec => []SqsTypeOK
  <1>1. QueueInv => SqsTypeOK
    BY DEF QueueInv
  <1> QED
    BY <1>1, Invariant, PTL

\* However messages are delivered, a job's commits, executions, offers and
\* final failure stay within one plus the leases of it that ran out.
THEOREM Budget == Spec => []LeaseBudget
  <1>1. TableInv => LeaseBudget
    BY DEF TableInv, WorkerInv
  <1> QED
    BY <1>1, Invariant, PTL

\* However messages are delivered, no job is attempted more often than
\* max_attempts and once for each lease of it that ran out.
THEOREM AttemptsBound == Spec => []AttemptsPaidFor
  <1>1. TableInv => AttemptsPaidFor
    BY AttemptsBounded DEF TableInv
  <1> QED
    BY <1>1, Invariant, PTL

\* A job that waits, has lost no lease and was not discarded before it was
\* stored has a message that is delivered again or stands in the dead-letter
\* queue: settling deletes none, and a discard happens only when nobody waits.
THEOREM WaitingJobsHaveMessages == Spec => []WaitingJobHasMessage
  <1>1. Init => DeliveryInv
    BY InitHolds
  <1>2. TableInv /\ QueueInv /\ DeliveryInv /\ [Next]_sqsVars => DeliveryInv'
    BY NextDelivery
  <1>3. TableInv /\ DeliveryInv => WaitingJobHasMessage
    BY DEF TableInv, WorkerInv, WorkerTypeOK, DeliveryInv, Covered, Over, TerminalStates,
           WaitingJobHasMessage
  <1> QED
    BY <1>1, <1>2, <1>3, Invariant, PTL DEF Spec

\* The messages ever sent for a job are at most its first announcement and one
\* for each attempt, however often they are delivered.
THEOREM MessagesBound == Spec => []MessagesPaidFor
  <1>1. Init => MessageBudget
    BY InitHolds
  <1>2. TableInv /\ QueueInv /\ MessageBudget /\ [Next]_sqsVars => MessageBudget'
    BY MessageBudgetKept
  <1>3. TableInv /\ MessageBudget => MessagesPaidFor
    <2> SUFFICES ASSUME TableInv, MessageBudget, NEW j \in Jobs
                 PROVE  Cardinality(Copies(j)) <= 1 + rows[j].attempts
      BY DEF MessagesPaidFor, Copies
    <2>1. Cardinality(Copies(j)) \in Nat /\ Cardinality(Owing(j)) \in Nat
      BY BudgetFinite
    <2>2. Unannounced(j) \in {0, 1} /\ rows[j].attempts \in Nat
      BY DEF Unannounced, TableInv, WorkerInv, WorkerTypeOK, Row
    <2>3. Cardinality(Copies(j)) + Cardinality(Owing(j)) + Unannounced(j)
            <= 1 + rows[j].attempts
      BY DEF MessageBudget
    <2> QED
      BY <2>1, <2>2, <2>3
  <1> QED
    BY <1>1, <1>2, <1>3, Invariant, PTL DEF Spec

\* The table fed by a hosted queue lives the documented life of a job, whatever
\* messages are repeated, late, lost or dead-lettered.
THEOREM Refinement == Spec => ImplementsLifecycle
  <1>1. Init => Lifecycle!Init
    BY InitHolds
  <1>2. TableInv /\ QueueInv /\ [Next]_sqsVars
          => [Lifecycle!Next]_(Lifecycle!lifecycleVars)
    BY NextInv DEF Lifecycle!Next
  <1> QED
    BY <1>1, <1>2, Invariant, PTL DEF Spec, ImplementsLifecycle, Lifecycle!Spec

=============================================================================
