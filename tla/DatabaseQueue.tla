--------------------------- MODULE DatabaseQueue ----------------------------
(***************************************************************************)
(* Workers fed by the job table itself (jobs/database.py).  A lease is     *)
(* three statements under READ COMMITTED: release every lapsed lease,      *)
(* select the lowest due id, and update it if it is still queued.  The     *)
(* rows a release touches stay locked until the lease commits; showing     *)
(* them at once adds only claims that lose their race and look again.      *)
(***************************************************************************)
EXTENDS JobWorker

CONSTANT Serves   \* the jobs of the kinds each worker was started for

ASSUME ServesAssumption == Serves \in [Workers -> SUBSET Jobs]

\* Two submissions of one key create one row: the second finds the first or
\* loses to the unique constraint and returns the winner.
Enqueue(j) ==
  /\ rows[j].state = "absent"
  /\ rows' = [rows EXCEPT ![j] = Inserted(@)]
  /\ UNCHANGED <<pc, job, token, seen, again, applied, lapses, faults>>

ReleaseExpired(w) ==
  /\ pc[w] = "idle"
  /\ rows' = [j \in Jobs |-> Released(rows[j])]
  /\ Goto(w, "selecting")
  /\ UNCHANGED <<job, token, seen, again, applied, lapses, faults>>

NextClaimable(w) ==
  /\ pc[w] = "selecting"
  /\ LET due == {j \in Serves[w] : Due(rows[j])}
     IN  \/ /\ due = {}
            /\ Goto(w, "idle")
            /\ job' = job
         \/ \E j \in due :
              /\ \A k \in due : j <= k
              /\ Goto(w, "claiming")
              /\ job' = [job EXCEPT ![w] = j]
  /\ UNCHANGED <<rows, token, seen, again, applied, lapses, faults>>

\* Mutant: the update is by primary key alone.
ClaimUnconditional(w) ==
  /\ pc[w] = "claiming"
  /\ rows' = [rows EXCEPT ![job[w]] = Claimed(@)]
  /\ token' = [token EXCEPT ![w] = rows'[job[w]].token]
  /\ Goto(w, "leased")
  /\ UNCHANGED <<job, seen, again, applied, lapses, faults>>

\* Mutant: the update only refuses a row that is running.
ClaimNotRunning(w) ==
  /\ pc[w] = "claiming"
  /\ rows[job[w]].state # "running"
  /\ rows' = [rows EXCEPT ![job[w]] = Claimed(@)]
  /\ token' = [token EXCEPT ![w] = rows'[job[w]].token]
  /\ Goto(w, "leased")
  /\ UNCHANGED <<job, seen, again, applied, lapses, faults>>

\* The conditional update asks for "queued" only, not for due.
Claim(w) ==
  /\ pc[w] = "claiming"
  /\ rows[job[w]].state = "queued"
  /\ rows' = [rows EXCEPT ![job[w]] = Claimed(@)]
  /\ token' = [token EXCEPT ![w] = rows'[job[w]].token]
  /\ Goto(w, "leased")
  /\ UNCHANGED <<job, seen, again, applied, lapses, faults>>

LoseClaim(w) ==
  /\ pc[w] = "claiming"
  /\ rows[job[w]].state # "queued"
  /\ Goto(w, "selecting")
  /\ job' = [job EXCEPT ![w] = None]
  /\ UNCHANGED <<rows, token, seen, again, applied, lapses, faults>>

\* There is no message to settle.
Release(w) ==
  /\ pc[w] = "settling"
  /\ Goto(w, "idle")
  /\ Forget(w)
  /\ UNCHANGED <<rows, applied, lapses, faults>>

Lease(w) ==
  ReleaseExpired(w) \/ NextClaimable(w) \/ Claim(w) \/ LoseClaim(w)

RunOnce(w) == Lease(w) \/ Execute(w) \/ Release(w) \/ Restart(w)

Next ==
  \/ \E j \in Jobs : Enqueue(j)
  \/ \E w \in Workers : RunOnce(w) \/ Misfortune(w)
  \/ \E j \in Jobs : Clock(j)

Spec == WorkerInit /\ [][Next]_workerVars

\* Every process takes its next step or is restarted, and time passes.  No
\* submission and no fault is promised.
Fairness ==
  /\ \A w \in Workers : WF_workerVars(RunOnce(w))
  /\ \A j \in Jobs : WF_workerVars(Clock(j))

FairSpec == Spec /\ Fairness

\* The table and its workers implement the documented life of a job.
ImplementsLifecycle == Lifecycle!Spec

----------------------------------------------------------------------------
(* What the repository says of jobs and the code does not keep.            *)

\* "a terminal job is never reopened" (jobs/store.py).
TerminalIsFinal ==
  [][\A j \in Jobs : rows[j].state \in TerminalStates
                      => rows'[j].state = rows[j].state]_workerVars

----------------------------------------------------------------------------
\* With boundedly many faults every stored job ends in a terminal state and
\* stays there: lapsed leases are released, failures are retried until the
\* attempts run out, and nothing waits on a lost claim.
StoredJobsSettle ==
  \A j \in Jobs : <>[](rows[j].state \in TerminalStates \cup {"absent"})

=============================================================================
