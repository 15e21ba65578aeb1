------------------------------ MODULE SqsQueue ------------------------------
(***************************************************************************)
(* Workers fed by a hosted queue (jobs/sqs.py), the table still deciding   *)
(* what happened.  The queue itself is external: a received message is     *)
(* hidden until its visibility timeout ends, and a message received        *)
(* MaxReceives times is moved to the dead-letter queue instead of being    *)
(* delivered again (infra/modules/messaging/main.tf).  Order is not kept.  *)
(*                                                                         *)
(* A request sends its message before its transaction commits.  A lease    *)
(* and its settling are made by two instances of the adapter, and receipts *)
(* are kept per instance, so settling finds none and deletes nothing.      *)
(***************************************************************************)
EXTENDS JobWorker

CONSTANTS Serves,       \* the jobs of the kinds each worker was started for
          MaxMessages,  \* bound on the messages ever sent
          MaxReceives   \* maxReceiveCount of the redrive policy

ASSUME ServesAssumption == Serves \in [Workers -> SUBSET Jobs]
ASSUME QueueAssumption == MaxMessages \in Nat /\ MaxReceives \in Nat \ {0}

VARIABLES messages,   \* every message: the job it names, where it is, receives
          request,    \* the transaction of the request that stores each job
          delivery,   \* the message each worker was last given
          succeeded,  \* what _execute returned
          missed      \* jobs whose message was discarded before they were stored

queueVars == <<messages, request, delivery, succeeded, missed>>
sqsVars == <<rows, pc, job, token, seen, again, applied, lapses, faults,
             messages, request, delivery, succeeded, missed>>

Message == [job : Jobs \cup {None}, receives : 0..MaxReceives,
            place : {"unsent", "visible", "hidden", "dead", "deleted"}]

SqsTypeOK ==
  /\ WorkerTypeOK
  /\ messages \in [1..MaxMessages -> Message]
  /\ request \in [Jobs -> {"none", "inserted", "announced", "ended"}]
  /\ delivery \in [Workers -> 0..MaxMessages]
  /\ succeeded \in [Workers -> BOOLEAN]
  /\ missed \subseteq Jobs

Init ==
  /\ WorkerInit
  /\ messages = [m \in 1..MaxMessages |->
                   [job |-> None, receives |-> 0, place |-> "unsent"]]
  /\ request = [j \in Jobs |-> "none"]
  /\ delivery = [w \in Workers |-> None]
  /\ succeeded = [w \in Workers |-> FALSE]
  /\ missed = {}

----------------------------------------------------------------------------
(* The queue.                                                              *)

Unsent == {m \in 1..MaxMessages : messages[m].place = "unsent"}

\* A message sent with a delay starts hidden.
Send(j, place) ==
  \E m \in Unsent :
    /\ \A n \in Unsent : m <= n
    /\ messages' = [messages EXCEPT ![m].job = j, ![m].place = place]

Move(m, place) == messages' = [messages EXCEPT ![m].place = place]

Reappear(m) ==
  /\ messages[m].place = "hidden"
  /\ Move(m, "visible")
  /\ UNCHANGED <<workerVars, request, delivery, succeeded, missed>>

Redrive(m) ==
  /\ messages[m].place = "visible" /\ messages[m].receives = MaxReceives
  /\ Move(m, "dead")
  /\ UNCHANGED <<workerVars, request, delivery, succeeded, missed>>

Live(j) == {m \in 1..MaxMessages : messages[m].job = j
                                   /\ messages[m].place \in {"visible", "hidden"}}
Dead(j) == {m \in 1..MaxMessages : messages[m].job = j
                                   /\ messages[m].place = "dead"}

----------------------------------------------------------------------------
(* The request that stores a job.  A second request for its key finds the  *)
(* row, or waits for it, and announces nothing.                            *)

InsertJob(j) ==
  /\ request[j] = "none"
  /\ request' = [request EXCEPT ![j] = "inserted"]
  /\ UNCHANGED <<workerVars, messages, delivery, succeeded, missed>>

\* Mutant: every request for the key announces it.
AnnounceAlways(j) ==
  /\ request[j] \in {"inserted", "announced", "ended"}
  /\ Send(j, "visible")
  /\ request' = [request EXCEPT ![j] =
                   IF @ = "inserted" THEN "announced" ELSE @]
  /\ UNCHANGED <<workerVars, delivery, succeeded, missed>>

AnnounceJob(j) ==
  /\ request[j] = "inserted"
  /\ Send(j, "visible")
  /\ request' = [request EXCEPT ![j] = "announced"]
  /\ UNCHANGED <<workerVars, delivery, succeeded, missed>>

CommitRequest(j) ==
  /\ request[j] = "announced"
  /\ rows' = [rows EXCEPT ![j] = Inserted(@)]
  /\ request' = [request EXCEPT ![j] = "ended"]
  /\ UNCHANGED <<pc, job, token, seen, again, applied, lapses, faults,
                 messages, delivery, succeeded, missed>>

RollBackRequest(j) ==
  /\ request[j] \in {"inserted", "announced"}
  /\ Fault
  /\ request' = [request EXCEPT ![j] = "ended"]
  /\ UNCHANGED <<rows, pc, job, token, seen, again, applied, lapses,
                 messages, delivery, succeeded, missed>>

----------------------------------------------------------------------------
(* The lease.                                                              *)

ReleaseExpired(w) ==
  /\ pc[w] = "idle"
  /\ rows' = [j \in Jobs |-> Released(rows[j])]
  /\ Goto(w, "selecting")
  /\ UNCHANGED <<job, token, seen, again, applied, lapses, faults, queueVars>>

ReceiveMessage(w) ==
  /\ pc[w] = "selecting"
  /\ \E m \in 1..MaxMessages :
       /\ messages[m].place = "visible" /\ messages[m].receives < MaxReceives
       /\ messages' = [messages EXCEPT ![m].place = "hidden",
                                       ![m].receives = @ + 1]
       /\ delivery' = [delivery EXCEPT ![w] = m]
       /\ job' = [job EXCEPT ![w] = messages[m].job]
  /\ Goto(w, "received")
  /\ UNCHANGED <<rows, token, seen, again, applied, lapses, faults,
                 request, succeeded, missed>>

GiveUp(w) ==
  /\ Goto(w, "idle")
  /\ Forget(w)
  /\ delivery' = [delivery EXCEPT ![w] = None]

ReceiveNothing(w) ==
  /\ pc[w] = "selecting"
  /\ \A m \in 1..MaxMessages : messages[m].place # "visible"
  /\ GiveUp(w)
  /\ UNCHANGED <<rows, applied, lapses, faults,
                 messages, request, succeeded, missed>>

\* Mutant: a job that is running counts as delivered.
DiscardUnlessQueued(w) ==
  /\ pc[w] = "received"
  /\ LET row == rows[job[w]]
     IN  IF row.state = "queued"
         THEN Goto(w, "claiming") /\ missed' = missed
         ELSE /\ Goto(w, "discarding")
              /\ missed' = IF row.state = "absent"
                           THEN missed \cup {job[w]} ELSE missed
  /\ UNCHANGED <<rows, sessionVars, applied, lapses, faults,
                 messages, request, delivery, succeeded>>

\* Unknown or finished jobs go to the discard, other kinds are left.
LookUpJob(w) ==
  /\ pc[w] = "received"
  /\ LET row == rows[job[w]]
     IN  \/ /\ row.state \in TerminalStates \cup {"absent"}
            /\ Goto(w, "discarding")
            /\ missed' = IF row.state = "absent"
                         THEN missed \cup {job[w]} ELSE missed
            /\ UNCHANGED <<sessionVars, delivery>>
         \/ /\ row.state \in {"queued", "running"} /\ job[w] \notin Serves[w]
            /\ GiveUp(w)
            /\ missed' = missed
         \/ /\ row.state \in {"queued", "running"} /\ job[w] \in Serves[w]
            /\ Goto(w, "claiming")
            /\ UNCHANGED <<sessionVars, delivery, missed>>
  /\ UNCHANGED <<rows, applied, lapses, faults, messages, request, succeeded>>

DeleteMessage(w) ==
  /\ pc[w] = "discarding"
  /\ Move(delivery[w], "deleted")
  /\ GiveUp(w)
  /\ UNCHANGED <<rows, applied, lapses, faults, request, succeeded, missed>>

\* Mutant: a delivered job is taken whatever its row says.
ClaimDelivered(w) ==
  /\ pc[w] = "claiming"
  /\ rows' = [rows EXCEPT ![job[w]] = Claimed(@)]
  /\ token' = [token EXCEPT ![w] = rows'[job[w]].token]
  /\ Goto(w, "leased")
  /\ succeeded' = [succeeded EXCEPT ![w] = FALSE]
  /\ UNCHANGED <<job, seen, again, applied, lapses, faults,
                 messages, request, delivery, missed>>

ClaimJob(w) ==
  /\ pc[w] = "claiming"
  /\ Due(rows[job[w]])
  /\ rows' = [rows EXCEPT ![job[w]] = Claimed(@)]
  /\ token' = [token EXCEPT ![w] = rows'[job[w]].token]
  /\ Goto(w, "leased")
  /\ succeeded' = [succeeded EXCEPT ![w] = FALSE]
  /\ UNCHANGED <<job, seen, again, applied, lapses, faults,
                 messages, request, delivery, missed>>

LeaveMessage(w) ==
  /\ pc[w] = "claiming"
  /\ ~Due(rows[job[w]])
  /\ GiveUp(w)
  /\ UNCHANGED <<rows, applied, lapses, faults,
                 messages, request, succeeded, missed>>

----------------------------------------------------------------------------
(* Execution, and settling the delivery in a new session.                  *)

ExecuteJob(w) ==
  /\ Execute(w)
  /\ succeeded' = [succeeded EXCEPT ![w] = @ \/ CommitWork(w)]
  /\ UNCHANGED <<messages, request, delivery, missed>>

\* Nothing is deleted: this instance holds no receipt.
SettleQuietly(w) ==
  /\ pc[w] = "settling"
  /\ succeeded[w] \/ rows[job[w]].state # "queued"
  /\ GiveUp(w)
  /\ UNCHANGED <<rows, applied, lapses, faults,
                 messages, request, succeeded, missed>>

\* Mutant: the receipt is remembered and the message deleted first, whoever
\* announces the retry.
SettleAndDelete(w) ==
  /\ pc[w] = "settling"
  /\ ~succeeded[w] /\ rows[job[w]].state = "queued"
  /\ Move(delivery[w], "deleted")
  /\ Goto(w, "announcing")
  /\ UNCHANGED <<rows, job, token, seen, again, applied, lapses, faults,
                 request, delivery, succeeded, missed>>

FindRetry(w) ==
  /\ pc[w] = "settling"
  /\ ~succeeded[w] /\ rows[job[w]].state = "queued"
  /\ Goto(w, "announcing")
  /\ UNCHANGED <<rows, job, token, seen, again, applied, lapses, faults,
                 queueVars>>

AnnounceRetry(w) ==
  /\ pc[w] = "announcing"
  /\ \E place \in {"visible", "hidden"} : Send(job[w], place)
  /\ GiveUp(w)
  /\ UNCHANGED <<rows, applied, lapses, faults, request, succeeded, missed>>

\* An error while settling is logged and swallowed.
LoseSettlement(w) ==
  /\ pc[w] \in {"settling", "announcing"}
  /\ Fault
  /\ Goto(w, "idle")
  /\ Forget(w)
  /\ delivery' = [delivery EXCEPT ![w] = None]
  /\ UNCHANGED <<rows, applied, lapses, messages, request, succeeded, missed>>

LoseRecord(w) == LoseFailureRecord(w) /\ UNCHANGED queueVars

CrashWorker(w) ==
  /\ Crash(w)
  /\ delivery' = [delivery EXCEPT ![w] = None]
  /\ UNCHANGED <<messages, request, succeeded, missed>>

RestartWorker(w) == Restart(w) /\ UNCHANGED queueVars

----------------------------------------------------------------------------
Lease(w) ==
  \/ ReleaseExpired(w) \/ ReceiveMessage(w) \/ ReceiveNothing(w)
  \/ LookUpJob(w) \/ DeleteMessage(w) \/ ClaimJob(w) \/ LeaveMessage(w)

Settle(w) == SettleQuietly(w) \/ FindRetry(w) \/ AnnounceRetry(w)

RunOnce(w) == Lease(w) \/ ExecuteJob(w) \/ Settle(w) \/ RestartWorker(w)

Accident(w) == LoseRecord(w) \/ LoseSettlement(w) \/ CrashWorker(w)

FinishRequest(j) == AnnounceJob(j) \/ CommitRequest(j)

PassTime(j) == Clock(j) /\ UNCHANGED queueVars

Timeout(m) == Reappear(m) \/ Redrive(m)

Next ==
  \/ \E j \in Jobs : InsertJob(j) \/ FinishRequest(j) \/ RollBackRequest(j)
  \/ \E w \in Workers : RunOnce(w) \/ Accident(w)
  \/ \E j \in Jobs : PassTime(j)
  \/ \E m \in 1..MaxMessages : Timeout(m)

Spec == Init /\ [][Next]_sqsVars

\* Requests finish, processes run or are restarted, time passes.  No request
\* and no fault is promised.
Fairness ==
  /\ \A j \in Jobs : WF_sqsVars(FinishRequest(j)) /\ WF_sqsVars(PassTime(j))
  /\ \A w \in Workers : WF_sqsVars(RunOnce(w))
  /\ \A m \in 1..MaxMessages : WF_sqsVars(Timeout(m))

FairSpec == Spec /\ Fairness

----------------------------------------------------------------------------
(* What the hosted queue and the table keep together.                      *)

\* However often a message is delivered, the table lives the documented life.
ImplementsLifecycle == Lifecycle!Spec

\* While no lease of it ran out, a job waiting in the table can still be
\* delivered or stands in the dead-letter queue, unless its message was
\* discarded before the row was committed.  Deleting a message on settling,
\* before its retry is announced, would break this.
WaitingJobHasMessage ==
  \A j \in Jobs :
    rows[j].state = "queued" /\ lapses[j] = 0 /\ j \notin missed
      => Live(j) \cup Dead(j) # {}

\* Settling sends at most one message for each attempt, so the copies of a job
\* in the queue stay within its attempts plus the first announcement.
MessagesPaidFor ==
  \A j \in Jobs :
    Cardinality({m \in 1..MaxMessages : messages[m].job = j})
      <= 1 + rows[j].attempts

\* Every stored job settles, or it is one of those no worker will be told of
\* again: discarded before it was stored, or dead-lettered.
StoredJobsSettleOrStrand ==
  \A j \in Jobs :
    <>[](\/ rows[j].state \in TerminalStates \cup {"absent"}
         \/ j \in missed
         \/ Dead(j) # {})

----------------------------------------------------------------------------
(* What the repository says of the hosted queue and the code does not keep. *)

\* "An existing one already has a message in flight" (jobs/sqs.py).
StoredJobAnnounced ==
  \A j \in Jobs : rows[j].state = "queued" => Live(j) # {}

=============================================================================
