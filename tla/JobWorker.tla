----------------------------- MODULE JobWorker ------------------------------
(***************************************************************************)
(* The worker loop between a lease and the settling of its delivery        *)
(* (jobs/worker.py), whatever queue delivered the job.  The queue modules  *)
(* add how a lease is obtained and how a delivery is settled.              *)
(*                                                                         *)
(* A handler runs in the transaction that loaded the job row, and that     *)
(* session's identity map keeps the loaded copy: `succeed` checks the      *)
(* lease on the copy ("seen"), not on the row.  A failure is recorded from *)
(* a new session, which reads the row again but writes it in a second      *)
(* statement.                                                              *)
(***************************************************************************)
EXTENDS JobStore, FiniteSets

CONSTANTS Workers,    \* worker processes
          MaxFaults   \* bound on crashes, lost records and overrun leases

ASSUME WorkersAssumption == IsFiniteSet(Workers)
ASSUME MaxFaultsAssumption == MaxFaults \in Nat

VARIABLES pc,         \* where each worker stands in run_once
          job,        \* the job it took, or None
          token,      \* the token of its lease
          seen,       \* the copy of the row its session holds
          again,      \* whether the failure it caught may be retried
          applied,    \* how many times each job's work was committed
          lapses,     \* how many leases of each job ran out
          faults      \* faults so far

sessionVars == <<job, token, seen, again>>
workerVars == <<rows, pc, job, token, seen, again, applied, lapses, faults>>

\* From the lease to the end of the transaction that records the outcome.
Executing == {"leased", "working", "failing", "recording"}
Places == Executing \cup {"idle", "selecting", "received", "discarding",
                         "claiming", "settling", "announcing", "down"}

WorkerTypeOK ==
  /\ rows \in [Jobs -> Row]
  /\ pc \in [Workers -> Places]
  /\ job \in [Workers -> Jobs \cup {None}]
  /\ token \in [Workers -> Nat]
  /\ seen \in [Workers -> Row]
  /\ again \in [Workers -> BOOLEAN]
  /\ applied \in [Jobs -> Nat]
  /\ lapses \in [Jobs -> Nat]
  /\ faults \in 0..MaxFaults

WorkerInit ==
  /\ rows = [j \in Jobs |-> AbsentRow]
  /\ pc = [w \in Workers |-> "idle"]
  /\ job = [w \in Workers |-> None]
  /\ token = [w \in Workers |-> None]
  /\ seen = [w \in Workers |-> AbsentRow]
  /\ again = [w \in Workers |-> FALSE]
  /\ applied = [j \in Jobs |-> 0]
  /\ lapses = [j \in Jobs |-> 0]
  /\ faults = 0

Holders(j) == {w \in Workers : pc[w] \in Executing /\ job[w] = j}

----------------------------------------------------------------------------
Goto(w, place) == pc' = [pc EXCEPT ![w] = place]

\* The process holds nothing of the job any more: its sessions are closed.
Forget(w) ==
  /\ job' = [job EXCEPT ![w] = None]
  /\ token' = [token EXCEPT ![w] = None]
  /\ seen' = [seen EXCEPT ![w] = AbsentRow]
  /\ again' = [again EXCEPT ![w] = FALSE]

LoadJob(w) ==
  /\ pc[w] = "leased"
  /\ Goto(w, "working")
  /\ seen' = [seen EXCEPT ![w] = rows[job[w]]]
  /\ UNCHANGED <<rows, job, token, again, applied, lapses, faults>>

\* The handler returned: `succeed` passes on the copy and the work commits.
CommitWork(w) ==
  /\ pc[w] = "working"
  /\ Owns(seen[w], token[w])
  /\ rows' = [rows EXCEPT ![job[w]] = Succeeded(@)]
  /\ applied' = [applied EXCEPT ![job[w]] = @ + 1]
  /\ Goto(w, "settling")
  /\ seen' = [seen EXCEPT ![w] = AbsentRow]
  /\ UNCHANGED <<job, token, again, lapses, faults>>

\* The handler returned but the copy names another holder.  The conflict is
\* raised past run_once and run_forever, and the process ends.
ConflictOnSuccess(w) ==
  /\ pc[w] = "working"
  /\ ~Owns(seen[w], token[w])
  /\ Goto(w, "down")
  /\ Forget(w)
  /\ UNCHANGED <<rows, applied, lapses, faults>>

\* The handler raised: its work is rolled back.
HandlerRaises(w) ==
  /\ pc[w] = "working"
  /\ \E retry \in BOOLEAN : again' = [again EXCEPT ![w] = retry]
  /\ Goto(w, "failing")
  /\ seen' = [seen EXCEPT ![w] = AbsentRow]
  /\ UNCHANGED <<rows, job, token, applied, lapses, faults>>

\* `fail` in a new session: the row is read, and refused if it moved on.
\* The refusal is logged and swallowed.
ReadForFailure(w) ==
  /\ pc[w] = "failing"
  /\ LET row == rows[job[w]]
     IN  \/ /\ Owns(row, token[w])
            /\ Goto(w, "recording")
            /\ seen' = [seen EXCEPT ![w] = row]
         \/ /\ ~Owns(row, token[w])
            /\ Goto(w, "settling")
            /\ seen' = seen
  /\ UNCHANGED <<rows, job, token, again, applied, lapses, faults>>

RecordFailure(w) ==
  /\ pc[w] = "recording"
  /\ rows' = [rows EXCEPT ![job[w]] = Failed(@, seen[w], again[w])]
  /\ Goto(w, "settling")
  /\ seen' = [seen EXCEPT ![w] = AbsentRow]
  /\ UNCHANGED <<job, token, again, applied, lapses, faults>>

----------------------------------------------------------------------------
(* Faults, each counted, and the clock.                                    *)

Fault == faults < MaxFaults /\ faults' = faults + 1

\* The database refused the failure record: logged and swallowed.
LoseFailureRecord(w) ==
  /\ pc[w] \in {"failing", "recording"}
  /\ Fault
  /\ Goto(w, "settling")
  /\ seen' = [seen EXCEPT ![w] = AbsentRow]
  /\ UNCHANGED <<rows, job, token, again, applied, lapses>>

\* The process is killed, or an exception (a commit that fails) leaves
\* run_once.  Open transactions roll back.
Crash(w) ==
  /\ pc[w] \notin {"idle", "down"}
  /\ Fault
  /\ Goto(w, "down")
  /\ Forget(w)
  /\ UNCHANGED <<rows, applied, lapses>>

Restart(w) ==
  /\ pc[w] = "down"
  /\ Goto(w, "idle")
  /\ UNCHANGED <<rows, job, token, seen, again, applied, lapses, faults>>

\* leased_until passes.  Under a holder that is still executing it is a fault;
\* otherwise it is how an abandoned lease ends.
LeaseRunsOut(j) ==
  /\ rows[j].state = "running" /\ ~rows[j].lapsed
  /\ IF \E w \in Holders(j) : token[w] = rows[j].token
     THEN Fault
     ELSE faults' = faults
  /\ rows' = [rows EXCEPT ![j].lapsed = TRUE]
  /\ lapses' = [lapses EXCEPT ![j] = @ + 1]
  /\ UNCHANGED <<pc, job, token, seen, again, applied>>

\* available_at passes.
ComesDue(j) ==
  /\ rows[j].state = "queued" /\ ~rows[j].due
  /\ rows' = [rows EXCEPT ![j].due = TRUE]
  /\ UNCHANGED <<pc, job, token, seen, again, applied, lapses, faults>>

\* What a worker does once it has a lease, and what may befall it.
Execute(w) ==
  \/ LoadJob(w) \/ CommitWork(w) \/ ConflictOnSuccess(w) \/ HandlerRaises(w)
  \/ ReadForFailure(w) \/ RecordFailure(w)

Misfortune(w) == LoseFailureRecord(w) \/ Crash(w)

Clock(j) == LeaseRunsOut(j) \/ ComesDue(j)

----------------------------------------------------------------------------
(* What the loop guarantees, whichever queue feeds it.                     *)

\* A row that some worker may yet be given: not stored yet, waiting, or held
\* under a lease that has run out.
Offers(row) ==
  IF row.state \in {"absent", "queued"} \/ Lapsed(row) THEN 1 ELSE 0

Abandoned(row) == IF row.state = "failed" THEN 1 ELSE 0

\* Every job has one chance to run plus one for each lease of it that ran out.
\* Commits of its work, workers executing it, an outstanding offer and a final
\* failure together never exceed that.  So while no lease of a job has run out
\* it is executed by one worker at a time, its work commits at most once and a
\* job that finished is never offered again - although `succeed` checks a copy
\* of the row and `fail` reads and writes it in two statements.
LeaseBudget ==
  \A j \in Jobs :
    applied[j] + Cardinality(Holders(j)) + Offers(rows[j]) + Abandoned(rows[j])
      <= 1 + lapses[j]

\* Every attempt beyond max_attempts is paid for by a lease that ran out:
\* `claim` never looks at max_attempts and `fail` trusts the copy it read, yet
\* the retries a handler's failures earn stay bounded.
AttemptsPaidFor ==
  \A j \in Jobs : rows[j].attempts <= MaxAttempts + lapses[j]

\* A row says "succeeded" only when the transaction that produced its result
\* committed, and while no lease of the job ran out a committed result is never
\* hidden behind another state by a later failure or release.
ResultMatchesState ==
  \A j \in Jobs :
    /\ rows[j].state = "succeeded" => applied[j] > 0
    /\ applied[j] > 0 /\ lapses[j] = 0 => rows[j].state = "succeeded"

\* The documented life of a job, seen in the rows.
Lifecycle ==
  INSTANCE JobLifecycle WITH state <- [j \in Jobs |-> rows[j].state]

=============================================================================
