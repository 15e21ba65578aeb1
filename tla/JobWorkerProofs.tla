-------------------------- MODULE JobWorkerProofs ---------------------------
(***************************************************************************)
(* What the steps of the worker loop preserve, for any number of workers,  *)
(* jobs, attempts and faults.  The queue modules' proofs add the steps by  *)
(* which a job is stored, leased and settled.                              *)
(***************************************************************************)
EXTENDS JobWorker, FiniteSetTheorems, TLAPS

\* A worker that claims, executes or settles has a job in hand.
JobInHand ==
  \A w \in Workers :
    pc[w] \in Executing \cup {"claiming", "settling"} => job[w] \in Jobs

WorkerInv == WorkerTypeOK /\ JobInHand /\ LeaseBudget

\* A worker never holds a job that was not stored.
StoredInHand ==
  \A w \in Workers :
    pc[w] \in Executing \cup {"claiming"} => rows[job[w]].state # "absent"

\* A lapsed lease has been counted.
LapsesCounted == \A j \in Jobs : rows[j].lapsed => lapses[j] > 0

HistoryInv == StoredInHand /\ LapsesCounted /\ ResultMatchesState

----------------------------------------------------------------------------
(* The operators of JobStore.                                              *)

\* Every row operator yields a row.
LEMMA RowOperatorsType ==
  ASSUME NEW row \in Row, NEW copy \in Row, NEW retry \in BOOLEAN
  PROVE  /\ Inserted(row) \in Row
         /\ Claimed(row) \in Row
         /\ Released(row) \in Row
         /\ Succeeded(row) \in Row
         /\ Failed(row, copy, retry) \in Row
  <1> USE DEF Row, RowStates, None
  <1>1. Inserted(row) \in Row /\ Succeeded(row) \in Row
    BY DEF Inserted, Succeeded
  <1>2. Claimed(row) \in Row
    <2>1. row.attempts + 1 \in Nat
      OBVIOUS
    <2>2. \A n \in Nat :
            [row EXCEPT !.state = "running", !.token = n, !.attempts = n,
                        !.lapsed = FALSE] \in Row
      OBVIOUS
    <2> QED
      BY <2>1, <2>2 DEF Claimed
  <1>3. Released(row) \in Row
    BY DEF Released
  <1>4. Failed(row, copy, retry) \in Row
    BY DEF Failed
  <1> QED
    BY <1>1, <1>2, <1>3, <1>4

\* An absent row is a row.
LEMMA AbsentRowType == AbsentRow \in Row
  BY DEF AbsentRow, Row, RowStates, None

\* Offers and final failures are counted 0 or 1, and never both for one row.
LEMMA OffersBound ==
  ASSUME NEW row \in Row
  PROVE  /\ Offers(row) \in {0, 1}
         /\ Abandoned(row) \in {0, 1}
         /\ Offers(row) + Abandoned(row) <= 1
  BY DEF Offers, Abandoned, Lapsed, Row

\* What each statement does to the offer a row makes and to its final failure.
LEMMA StatementBudget ==
  ASSUME NEW row \in Row, NEW copy \in Row, NEW retry \in BOOLEAN
  PROVE  /\ Abandoned(Inserted(row)) = 0 /\ Offers(Inserted(row)) = 1
         /\ Abandoned(Claimed(row)) = 0 /\ Offers(Claimed(row)) = 0
         /\ Abandoned(Released(row)) = Abandoned(row)
         /\ Offers(Released(row)) = Offers(row)
         /\ Abandoned(Succeeded(row)) = 0 /\ Offers(Succeeded(row)) = 0
         /\ Abandoned(Failed(row, copy, retry))
              + Offers(Failed(row, copy, retry)) = 1
  BY DEF Inserted, Claimed, Released, Lapsed, Succeeded, Failed, Row,
         Offers, Abandoned

----------------------------------------------------------------------------
(* How the set of workers executing a job changes when one worker moves.   *)

\* Only finitely many workers execute a job.
LEMMA HoldersFinite ==
  ASSUME NEW j
  PROVE  IsFiniteSet(Holders(j)) /\ Cardinality(Holders(j)) \in Nat
  <1>1. Holders(j) \subseteq Workers
    BY DEF Holders
  <1>2. IsFiniteSet(Holders(j))
    BY <1>1, WorkersAssumption, FS_Subset
  <1> QED
    BY <1>2, FS_CardinalityType

\* A worker that stays where it was, or moves while it keeps executing, leaves
\* every job's holders alone.
LEMMA HoldersStay ==
  ASSUME NEW w \in Workers, NEW j,
         WorkerTypeOK,
         NEW place,
         pc' = [pc EXCEPT ![w] = place],
         \/ job' = job /\ (pc[w] \in Executing <=> place \in Executing)
         \/ /\ pc[w] \notin Executing /\ place \notin Executing
            /\ \A v \in Workers \ {w} : job'[v] = job[v]
  PROVE  Holders(j)' = Holders(j)
  BY DEF Holders, WorkerTypeOK

\* A worker that stops executing leaves its job's holders.
LEMMA HoldersShrink ==
  ASSUME NEW w \in Workers, NEW j \in Jobs,
         WorkerTypeOK,
         pc[w] \in Executing,
         NEW place, place \notin Executing,
         pc' = [pc EXCEPT ![w] = place],
         \A v \in Workers \ {w} : job'[v] = job[v]
  PROVE  /\ job[w] = j => Cardinality(Holders(j)') = Cardinality(Holders(j)) - 1
         /\ job[w] # j => Cardinality(Holders(j)') = Cardinality(Holders(j))
  <1>1. Holders(j)' = Holders(j) \ {w}
    BY DEF Holders, WorkerTypeOK
  <1>2. CASE job[w] = j
    <2>1. w \in Holders(j)
      BY <1>2 DEF Holders
    <2>2. Cardinality(Holders(j) \ {w}) = Cardinality(Holders(j)) - 1
      BY <2>1, HoldersFinite, FS_RemoveElement
    <2> QED
      BY <1>1, <1>2, <2>2
  <1>3. CASE job[w] # j
    BY <1>1, <1>3 DEF Holders
  <1> QED
    BY <1>2, <1>3

\* A worker that obtains a lease joins its job's holders.
LEMMA HoldersGrow ==
  ASSUME NEW w \in Workers, NEW j \in Jobs,
         WorkerTypeOK,
         pc[w] \notin Executing,
         NEW place, place \in Executing,
         pc' = [pc EXCEPT ![w] = place],
         job' \in [Workers -> Jobs \cup {None}],
         \A v \in Workers \ {w} : job'[v] = job[v]
  PROVE  /\ job'[w] = j => Cardinality(Holders(j)') = Cardinality(Holders(j)) + 1
         /\ job'[w] # j => Cardinality(Holders(j)') = Cardinality(Holders(j))
  <1>1. w \notin Holders(j)
    BY DEF Holders
  <1>2. CASE job'[w] = j
    <2>1. Holders(j)' = Holders(j) \cup {w}
      BY <1>2 DEF Holders, WorkerTypeOK
    <2>2. Cardinality(Holders(j) \cup {w}) = Cardinality(Holders(j)) + 1
      BY <1>1, HoldersFinite, FS_AddElement
    <2> QED
      BY <1>2, <2>1, <2>2
  <1>3. CASE job'[w] # j
    <2>1. Holders(j)' = Holders(j)
      BY <1>3 DEF Holders, WorkerTypeOK
    <2> QED
      BY <1>3, <2>1
  <1> QED
    BY <1>2, <1>3

----------------------------------------------------------------------------
(* Each step of the loop preserves the invariant.                          *)

\* Loading the row into the handler's session.
LEMMA LoadJobInv ==
  ASSUME WorkerInv, NEW w \in Workers, LoadJob(w)
  PROVE  WorkerInv'
  <1> USE DEF WorkerInv
  <1>1. WorkerTypeOK'
    BY DEF LoadJob, Goto, WorkerTypeOK, JobInHand, Places, Executing
  <1>2. JobInHand'
    BY DEF LoadJob, Goto, JobInHand, WorkerTypeOK, Executing
  <1>3. LeaseBudget'
    <2>1. \A j \in Jobs : Holders(j)' = Holders(j)
      BY HoldersStay DEF LoadJob, Goto, Executing
    <2> QED
      BY <2>1 DEF LoadJob, LeaseBudget
  <1> QED
    BY <1>1, <1>2, <1>3

\* Committing the work and the success with it.
LEMMA CommitWorkInv ==
  ASSUME WorkerInv, NEW w \in Workers, CommitWork(w)
  PROVE  WorkerInv'
  <1> USE DEF WorkerInv
  <1>0. job[w] \in Jobs
    BY DEF JobInHand, CommitWork, Executing
  <1>1. WorkerTypeOK'
    BY <1>0, RowOperatorsType, AbsentRowType
    DEF CommitWork, Goto, WorkerTypeOK, Places
  <1>2. JobInHand'
    BY <1>0 DEF CommitWork, Goto, JobInHand, WorkerTypeOK, Executing
  <1>3. LeaseBudget'
    <2> SUFFICES ASSUME NEW j \in Jobs
                 PROVE  applied'[j] + Cardinality(Holders(j)')
                          + Offers(rows'[j]) + Abandoned(rows'[j])
                          <= 1 + lapses'[j]
      BY DEF LeaseBudget
    <2>1. /\ job[w] = j => Cardinality(Holders(j)') = Cardinality(Holders(j)) - 1
          /\ job[w] # j => Cardinality(Holders(j)') = Cardinality(Holders(j))
      BY HoldersShrink DEF CommitWork, Goto, Executing
    <2>2. /\ rows[j] \in Row /\ applied[j] \in Nat /\ lapses[j] \in Nat
          /\ Cardinality(Holders(j)) \in Nat
      BY HoldersFinite DEF WorkerTypeOK
    <2>3. CASE job[w] = j
      <3>1. rows'[j] = Succeeded(rows[j]) /\ applied'[j] = applied[j] + 1
        BY <2>3 DEF CommitWork, WorkerTypeOK
      <3>2. Abandoned(rows'[j]) = 0 /\ Offers(rows'[j]) = 0
        BY <2>2, <3>1, StatementBudget
      <3>3. Offers(rows[j]) \in {0, 1} /\ Abandoned(rows[j]) \in {0, 1}
        BY <2>2, OffersBound
      <3>4. lapses' = lapses
        BY DEF CommitWork
      <3> QED
        BY <2>1, <2>2, <2>3, <3>1, <3>2, <3>3, <3>4 DEF LeaseBudget
    <2>4. CASE job[w] # j
      <3>1. rows'[j] = rows[j] /\ applied'[j] = applied[j]
        BY <2>4 DEF CommitWork, WorkerTypeOK
      <3> QED
        BY <2>1, <2>2, <2>4, <3>1 DEF CommitWork, LeaseBudget
    <2> QED
      BY <2>3, <2>4
  <1> QED
    BY <1>1, <1>2, <1>3

\* A worker stops executing without writing any row.
LEMMA GiveUpBudget ==
  ASSUME WorkerInv, NEW w \in Workers, pc[w] \in Executing,
         NEW place, place \notin Executing,
         pc' = [pc EXCEPT ![w] = place],
         \A v \in Workers \ {w} : job'[v] = job[v],
         UNCHANGED <<rows, applied, lapses>>
  PROVE  LeaseBudget'
  <1> SUFFICES ASSUME NEW j \in Jobs
               PROVE  applied[j] + Cardinality(Holders(j)')
                        + Offers(rows[j]) + Abandoned(rows[j])
                        <= 1 + lapses[j]
    BY DEF LeaseBudget
  <1>1. \/ Cardinality(Holders(j)') = Cardinality(Holders(j)) - 1
        \/ Cardinality(Holders(j)') = Cardinality(Holders(j))
    BY HoldersShrink DEF WorkerInv
  <1>2. /\ rows[j] \in Row /\ applied[j] \in Nat /\ lapses[j] \in Nat
        /\ Cardinality(Holders(j)) \in Nat
    BY HoldersFinite DEF WorkerInv, WorkerTypeOK
  <1>3. Offers(rows[j]) \in {0, 1} /\ Abandoned(rows[j]) \in {0, 1}
    BY <1>2, OffersBound
  <1> QED
    BY <1>1, <1>2, <1>3 DEF WorkerInv, LeaseBudget

\* The handler's result meets a copy that names another holder.
LEMMA ConflictOnSuccessInv ==
  ASSUME WorkerInv, NEW w \in Workers, ConflictOnSuccess(w)
  PROVE  WorkerInv'
  <1> USE DEF WorkerInv
  <1>1. WorkerTypeOK'
    BY AbsentRowType
    DEF ConflictOnSuccess, Goto, Forget, WorkerTypeOK, Places, None
  <1>2. JobInHand'
    BY DEF ConflictOnSuccess, Goto, Forget, JobInHand, WorkerTypeOK, Executing
  <1>3. LeaseBudget'
    BY GiveUpBudget DEF ConflictOnSuccess, Goto, Forget, WorkerTypeOK, Executing
  <1> QED
    BY <1>1, <1>2, <1>3

\* The handler raised.
LEMMA HandlerRaisesInv ==
  ASSUME WorkerInv, NEW w \in Workers, HandlerRaises(w)
  PROVE  WorkerInv'
  <1> USE DEF WorkerInv
  <1>1. WorkerTypeOK'
    BY AbsentRowType
    DEF HandlerRaises, Goto, WorkerTypeOK, Places, Executing
  <1>2. JobInHand'
    BY DEF HandlerRaises, Goto, JobInHand, WorkerTypeOK, Executing
  <1>3. LeaseBudget'
    <2>1. \A j \in Jobs : Holders(j)' = Holders(j)
      BY HoldersStay DEF HandlerRaises, Goto, Executing
    <2> QED
      BY <2>1 DEF HandlerRaises, LeaseBudget
  <1> QED
    BY <1>1, <1>2, <1>3

\* Reading the row to record a failure.
LEMMA ReadForFailureInv ==
  ASSUME WorkerInv, NEW w \in Workers, ReadForFailure(w)
  PROVE  WorkerInv'
  <1> USE DEF WorkerInv
  <1>0. job[w] \in Jobs /\ pc[w] = "failing"
    BY DEF JobInHand, ReadForFailure, Executing
  <1>1. WorkerTypeOK'
    BY <1>0 DEF ReadForFailure, Goto, WorkerTypeOK, Places, Executing
  <1>2. JobInHand'
    BY <1>0 DEF ReadForFailure, Goto, JobInHand, WorkerTypeOK, Executing
  <1>3. LeaseBudget'
    <2>1. CASE Goto(w, "recording")
      <3>1. \A j \in Jobs : Holders(j)' = Holders(j)
        BY <1>0, <2>1, HoldersStay DEF ReadForFailure, Goto, Executing
      <3> QED
        BY <3>1 DEF ReadForFailure, LeaseBudget
    <2>2. CASE Goto(w, "settling")
      BY <1>0, <2>2, GiveUpBudget DEF ReadForFailure, Goto, Executing
    <2> QED
      BY <2>1, <2>2 DEF ReadForFailure
  <1> QED
    BY <1>1, <1>2, <1>3

\* Writing the failure by primary key.
LEMMA RecordFailureInv ==
  ASSUME WorkerInv, NEW w \in Workers, RecordFailure(w)
  PROVE  WorkerInv'
  <1> USE DEF WorkerInv
  <1>0. job[w] \in Jobs /\ pc[w] = "recording"
    BY DEF JobInHand, RecordFailure, Executing
  <1>1. WorkerTypeOK'
    BY <1>0, RowOperatorsType, AbsentRowType
    DEF RecordFailure, Goto, WorkerTypeOK, Places
  <1>2. JobInHand'
    BY <1>0 DEF RecordFailure, Goto, JobInHand, WorkerTypeOK, Executing
  <1>3. LeaseBudget'
    <2> SUFFICES ASSUME NEW j \in Jobs
                 PROVE  applied[j] + Cardinality(Holders(j)')
                          + Offers(rows'[j]) + Abandoned(rows'[j])
                          <= 1 + lapses[j]
      BY DEF LeaseBudget, RecordFailure
    <2>1. /\ job[w] = j => Cardinality(Holders(j)') = Cardinality(Holders(j)) - 1
          /\ job[w] # j => Cardinality(Holders(j)') = Cardinality(Holders(j))
      BY <1>0, HoldersShrink DEF RecordFailure, Goto, Executing
    <2>2. /\ rows[j] \in Row /\ applied[j] \in Nat /\ lapses[j] \in Nat
          /\ Cardinality(Holders(j)) \in Nat
          /\ seen[w] \in Row /\ again[w] \in BOOLEAN
      BY HoldersFinite DEF WorkerTypeOK
    <2>3. CASE job[w] = j
      <3>1. rows'[j] = Failed(rows[j], seen[w], again[w])
        BY <2>3 DEF RecordFailure, WorkerTypeOK
      <3>2. Abandoned(rows'[j]) + Offers(rows'[j]) = 1
        BY <2>2, <3>1, StatementBudget
      <3>3. /\ Offers(rows'[j]) \in {0, 1} /\ Abandoned(rows'[j]) \in {0, 1}
            /\ Offers(rows[j]) \in {0, 1} /\ Abandoned(rows[j]) \in {0, 1}
        BY <1>1, <2>2, OffersBound DEF WorkerTypeOK
      <3> QED
        BY <2>1, <2>2, <2>3, <3>2, <3>3 DEF LeaseBudget
    <2>4. CASE job[w] # j
      <3>1. rows'[j] = rows[j]
        BY <2>4 DEF RecordFailure, WorkerTypeOK
      <3> QED
        BY <2>1, <2>4, <3>1 DEF LeaseBudget
    <2> QED
      BY <2>3, <2>4
  <1> QED
    BY <1>1, <1>2, <1>3

\* Everything a worker does with a lease preserves the invariant.
LEMMA ExecuteInv ==
  ASSUME WorkerInv, NEW w \in Workers, Execute(w)
  PROVE  WorkerInv'
  BY LoadJobInv, CommitWorkInv, ConflictOnSuccessInv, HandlerRaisesInv,
     ReadForFailureInv, RecordFailureInv DEF Execute

\* Counting one more fault stays within the bound.
LEMMA FaultType ==
  ASSUME faults \in 0..MaxFaults, Fault
  PROVE  faults' \in 0..MaxFaults
  BY MaxFaultsAssumption DEF Fault

\* A lost failure record or a crash only takes a holder away.
LEMMA MisfortuneInv ==
  ASSUME WorkerInv, NEW w \in Workers, Misfortune(w)
  PROVE  WorkerInv'
  <1> USE DEF WorkerInv
  <1>1. CASE LoseFailureRecord(w)
    <2>1. WorkerTypeOK'
      BY <1>1, FaultType, AbsentRowType
      DEF LoseFailureRecord, Goto, WorkerTypeOK, Places
    <2>2. JobInHand'
      BY <1>1 DEF LoseFailureRecord, Goto, JobInHand, WorkerTypeOK, Executing
    <2>3. LeaseBudget'
      BY <1>1, GiveUpBudget DEF LoseFailureRecord, Goto, Executing
    <2> QED
      BY <2>1, <2>2, <2>3
  <1>2. CASE Crash(w)
    <2>1. WorkerTypeOK'
      BY <1>2, FaultType, AbsentRowType
      DEF Crash, Goto, Forget, WorkerTypeOK, Places, None
    <2>2. JobInHand'
      BY <1>2 DEF Crash, Goto, Forget, JobInHand, WorkerTypeOK, Executing
    <2>3. CASE pc[w] \in Executing
      <3>1. LeaseBudget'
        BY <1>2, <2>3, GiveUpBudget
        DEF Crash, Goto, Forget, WorkerTypeOK, Executing
      <3> QED
        BY <2>1, <2>2, <3>1
    <2>4. CASE pc[w] \notin Executing
      <3>1. \A j \in Jobs : Holders(j)' = Holders(j)
        BY <1>2, <2>4, HoldersStay DEF Crash, Goto, Forget, WorkerTypeOK, Executing
      <3> QED
        BY <1>2, <2>1, <2>2, <3>1 DEF Crash, LeaseBudget
    <2> QED
      BY <2>3, <2>4
  <1> QED
    BY <1>1, <1>2 DEF Misfortune

\* A restarted process holds nothing.
LEMMA RestartInv ==
  ASSUME WorkerInv, NEW w \in Workers, Restart(w)
  PROVE  WorkerInv'
  <1> USE DEF WorkerInv
  <1>1. WorkerTypeOK' /\ JobInHand'
    BY DEF Restart, Goto, WorkerTypeOK, JobInHand, Places, Executing
  <1>2. \A j \in Jobs : Holders(j)' = Holders(j)
    BY HoldersStay DEF Restart, Goto, Executing
  <1> QED
    BY <1>1, <1>2 DEF Restart, LeaseBudget

\* A lease that runs out adds one offer and one lapse; a row that comes due
\* was already on offer.
LEMMA ClockInv ==
  ASSUME WorkerInv, NEW k \in Jobs, Clock(k)
  PROVE  WorkerInv'
  <1> USE DEF WorkerInv
  <1>1. \A j \in Jobs : Holders(j)' = Holders(j)
    BY DEF Clock, LeaseRunsOut, ComesDue, Holders
  <1>2. JobInHand'
    BY DEF Clock, LeaseRunsOut, ComesDue, JobInHand
  <1>3. CASE LeaseRunsOut(k)
    <2>1. faults' \in 0..MaxFaults
      BY <1>3, FaultType DEF LeaseRunsOut, WorkerTypeOK
    <2>2. WorkerTypeOK'
      <3>1. /\ rows' = [rows EXCEPT ![k].lapsed = TRUE]
            /\ lapses' = [lapses EXCEPT ![k] = @ + 1]
            /\ UNCHANGED <<pc, job, token, seen, again, applied>>
        BY <1>3 DEF LeaseRunsOut
      <3>2. rows' \in [Jobs -> Row]
        BY <3>1 DEF WorkerTypeOK, Row
      <3> QED
        BY <2>1, <3>1, <3>2 DEF WorkerTypeOK
    <2>3. LeaseBudget'
      <3> SUFFICES ASSUME NEW j \in Jobs
                   PROVE  applied[j] + Cardinality(Holders(j))
                            + Offers(rows'[j]) + Abandoned(rows'[j])
                            <= 1 + lapses'[j]
        BY <1>1, <1>3 DEF LeaseBudget, LeaseRunsOut
      <3>1. /\ rows[j] \in Row /\ applied[j] \in Nat /\ lapses[j] \in Nat
            /\ Cardinality(Holders(j)) \in Nat
        BY HoldersFinite DEF WorkerTypeOK
      <3>2. CASE j = k
        <4>1. /\ Offers(rows[j]) = 0 /\ Abandoned(rows[j]) = 0
              /\ Offers(rows'[j]) = 1 /\ Abandoned(rows'[j]) = 0
              /\ lapses'[j] = lapses[j] + 1
          BY <1>3, <3>1, <3>2
          DEF LeaseRunsOut, WorkerTypeOK, Offers, Abandoned, Lapsed, Row
        <4> QED
          BY <3>1, <4>1 DEF LeaseBudget
      <3>3. CASE j # k
        BY <1>3, <3>3 DEF LeaseRunsOut, WorkerTypeOK, LeaseBudget
      <3> QED
        BY <3>2, <3>3
    <2> QED
      BY <1>2, <2>2, <2>3
  <1>4. CASE ComesDue(k)
    <2>1. WorkerTypeOK'
      BY <1>4 DEF ComesDue, WorkerTypeOK, Row
    <2>2. \A j \in Jobs : /\ Offers(rows'[j]) = Offers(rows[j])
                          /\ Abandoned(rows'[j]) = Abandoned(rows[j])
      BY <1>4 DEF ComesDue, WorkerTypeOK, Offers, Abandoned, Lapsed, Row
    <2>3. LeaseBudget'
      BY <1>1, <1>4, <2>2 DEF ComesDue, LeaseBudget
    <2> QED
      BY <1>2, <2>1, <2>3
  <1> QED
    BY <1>3, <1>4 DEF Clock

\* Nothing happens to the workers and the table.
LEMMA StutterInv ==
  ASSUME WorkerInv, UNCHANGED workerVars
  PROVE  WorkerInv'
  BY DEF WorkerInv, workerVars, WorkerTypeOK, JobInHand, LeaseBudget, Holders

\* The loop starts with every job unsubmitted and every worker idle.
LEMMA InitInv ==
  ASSUME WorkerInit
  PROVE  WorkerInv
  <1>1. WorkerTypeOK
    BY AbsentRowType, MaxFaultsAssumption DEF WorkerInit, WorkerTypeOK, Places, None
  <1>2. JobInHand
    BY DEF WorkerInit, JobInHand, Executing
  <1>3. \A j \in Jobs : Holders(j) = {}
    BY DEF WorkerInit, Holders, Executing
  <1>4. Cardinality({}) = 0
    BY FS_EmptySet
  <1>5. Offers(AbsentRow) = 1 /\ Abandoned(AbsentRow) = 0
    BY DEF Offers, Abandoned, AbsentRow
  <1>6. LeaseBudget
    <2> SUFFICES ASSUME NEW j \in Jobs
                 PROVE  applied[j] + Cardinality(Holders(j))
                          + Offers(rows[j]) + Abandoned(rows[j])
                          <= 1 + lapses[j]
      BY DEF LeaseBudget
    <2>1. applied[j] = 0 /\ lapses[j] = 0
      BY DEF WorkerInit
    <2>2. Cardinality(Holders(j)) = 0
      BY <1>3, <1>4
    <2>3. Offers(rows[j]) = 1 /\ Abandoned(rows[j]) = 0
      BY <1>5 DEF WorkerInit
    <2> QED
      BY <2>1, <2>2, <2>3
  <1> QED
    BY <1>1, <1>2, <1>6 DEF WorkerInv

----------------------------------------------------------------------------
(* Each step is a step of the documented life of every job, and keeps what *)
(* the row says in line with what was committed.                           *)

\* While no lease of it ran out, a job that is being executed is running and
\* has not been applied.
LEMMA HeldJobRuns ==
  ASSUME WorkerInv, HistoryInv,
         NEW w \in Workers, pc[w] \in Executing, lapses[job[w]] = 0
  PROVE  rows[job[w]].state = "running" /\ applied[job[w]] = 0
  <1> DEFINE j == job[w]
  <1>1. j \in Jobs
    BY DEF WorkerInv, JobInHand
  <1>2. w \in Holders(j)
    BY DEF Holders
  <1>3. Cardinality(Holders(j)) # 0
    BY <1>2, HoldersFinite, FS_EmptySet
  <1>4. /\ rows[j] \in Row /\ applied[j] \in Nat
        /\ Cardinality(Holders(j)) \in Nat
    BY <1>1, HoldersFinite DEF WorkerInv, WorkerTypeOK
  <1>5. Offers(rows[j]) \in {0, 1} /\ Abandoned(rows[j]) \in {0, 1}
    BY <1>4, OffersBound
  <1>6. applied[j] + Cardinality(Holders(j)) + Offers(rows[j])
          + Abandoned(rows[j]) <= 1
    BY <1>1 DEF WorkerInv, LeaseBudget
  <1>7. applied[j] = 0 /\ Offers(rows[j]) = 0 /\ Abandoned(rows[j]) = 0
    <2> HIDE DEF j
    <2> QED
      BY <1>3, <1>4, <1>5, <1>6
  <1>8. rows[j].state \notin {"absent", "queued", "failed", "succeeded"}
    BY <1>1, <1>7 DEF Offers, Abandoned, HistoryInv, ResultMatchesState
  <1> QED
    BY <1>4, <1>7, <1>8 DEF Row, RowStates

\* A job whose row is on offer has not been applied, unless a lease ran out.
LEMMA OfferedJobUnapplied ==
  ASSUME WorkerInv, NEW j \in Jobs, Offers(rows[j]) = 1, lapses[j] = 0
  PROVE  applied[j] = 0
  <1>1. /\ rows[j] \in Row /\ applied[j] \in Nat
        /\ Cardinality(Holders(j)) \in Nat
    BY HoldersFinite DEF WorkerInv, WorkerTypeOK
  <1>2. Abandoned(rows[j]) \in {0, 1}
    BY <1>1, OffersBound
  <1>3. applied[j] + Cardinality(Holders(j)) + Offers(rows[j])
          + Abandoned(rows[j]) <= 1
    BY DEF WorkerInv, LeaseBudget
  <1> QED
    BY <1>1, <1>2, <1>3

\* A step that leaves a job's row, commits and lapses alone is a stutter of
\* its life.
LEMMA JobStays ==
  ASSUME NEW j \in Jobs, rows'[j].state = rows[j].state,
         applied'[j] = applied[j], lapses'[j] = lapses[j]
  PROVE  Lifecycle!Step(j)
  BY DEF Lifecycle!Step, Lifecycle!Stays, Lifecycle!Keeps

\* Executing a lease follows the documented life.
LEMMA ExecuteLifecycle ==
  ASSUME WorkerInv, HistoryInv, NEW w \in Workers, Execute(w)
  PROVE  HistoryInv' /\ \A j \in Jobs : Lifecycle!Step(j)
  <1>1. CASE CommitWork(w)
    <2>0. job[w] \in Jobs /\ pc[w] \in Executing
      BY <1>1 DEF CommitWork, WorkerInv, JobInHand, Executing
    <2>1. \A j \in Jobs : j # job[w] =>
            rows'[j] = rows[j] /\ applied'[j] = applied[j]
      BY <1>1 DEF CommitWork, WorkerInv, WorkerTypeOK
    <2>2. /\ rows'[job[w]].state = "succeeded" /\ ~rows'[job[w]].lapsed
          /\ applied'[job[w]] = applied[job[w]] + 1
          /\ applied[job[w]] \in Nat
      BY <1>1, <2>0 DEF CommitWork, Succeeded, WorkerInv, WorkerTypeOK, Row
    <2>3. UNCHANGED <<job, lapses>> /\ pc' = [pc EXCEPT ![w] = "settling"]
      BY <1>1 DEF CommitWork, Goto
    <2>4. HistoryInv'
      <3>1. StoredInHand'
        BY <2>0, <2>1, <2>2, <2>3
        DEF HistoryInv, StoredInHand, WorkerInv, WorkerTypeOK, JobInHand, Executing
      <3>2. LapsesCounted'
        BY <2>1, <2>2, <2>3 DEF HistoryInv, LapsesCounted
      <3>3. ResultMatchesState'
        BY <2>1, <2>2, <2>3 DEF HistoryInv, ResultMatchesState
      <3> QED
        BY <3>1, <3>2, <3>3 DEF HistoryInv
    <2>5. ASSUME NEW j \in Jobs
          PROVE  Lifecycle!Step(j)
      <3>1. CASE j # job[w]
        BY <2>1, <2>3, <3>1, JobStays
      <3>2. CASE j = job[w] /\ lapses[j] = 0
        <4>1. rows[j].state = "running"
          BY <2>0, <3>2, HeldJobRuns
        <4>2. Lifecycle!Succeed(j)
          BY <2>2, <2>3, <3>2, <4>1 DEF Lifecycle!Succeed, Lifecycle!Applies
        <4> QED
          BY <4>2 DEF Lifecycle!Step
      <3>3. CASE j = job[w] /\ lapses[j] # 0
        <4>1. lapses[j] > 0 /\ rows[j].state # "absent"
          BY <2>0, <3>3 DEF HistoryInv, StoredInHand, WorkerInv, WorkerTypeOK
        <4>2. Lifecycle!LateOutcome(j)
          BY <2>2, <2>3, <3>3, <4>1 DEF Lifecycle!LateOutcome, Lifecycle!Applies
        <4> QED
          BY <4>2 DEF Lifecycle!Step
      <3> QED
        BY <3>1, <3>2, <3>3
    <2> QED
      BY <2>4, <2>5
  <1>2. CASE RecordFailure(w)
    <2>0. job[w] \in Jobs /\ pc[w] \in Executing
      BY <1>2 DEF RecordFailure, WorkerInv, JobInHand, Executing
    <2>1. \A j \in Jobs : j # job[w] => rows'[j] = rows[j]
      BY <1>2 DEF RecordFailure, WorkerInv, WorkerTypeOK
    <2>2. rows'[job[w]].state \in {"queued", "failed"} /\ ~rows'[job[w]].lapsed
      BY <1>2, <2>0 DEF RecordFailure, Failed, WorkerInv, WorkerTypeOK, Row
    <2>3. /\ UNCHANGED <<job, applied, lapses>>
          /\ pc' = [pc EXCEPT ![w] = "settling"]
      BY <1>2 DEF RecordFailure, Goto
    <2>4. lapses[job[w]] = 0 => /\ rows[job[w]].state = "running"
                               /\ applied[job[w]] = 0
      BY <2>0, HeldJobRuns
    <2>5. HistoryInv'
      <3>1. StoredInHand'
        BY <2>0, <2>1, <2>2, <2>3
        DEF HistoryInv, StoredInHand, WorkerInv, WorkerTypeOK, JobInHand, Executing
      <3>2. LapsesCounted'
        BY <2>1, <2>2, <2>3 DEF HistoryInv, LapsesCounted
      <3>3. ResultMatchesState'
        BY <2>1, <2>2, <2>3, <2>4 DEF HistoryInv, ResultMatchesState
      <3> QED
        BY <3>1, <3>2, <3>3 DEF HistoryInv
    <2>6. ASSUME NEW j \in Jobs
          PROVE  Lifecycle!Step(j)
      <3>1. CASE j # job[w]
        BY <2>1, <2>3, <3>1, JobStays
      <3>2. CASE j = job[w] /\ lapses[j] = 0
        <4>1. Lifecycle!Fail(j)
          BY <2>2, <2>3, <2>4, <3>2 DEF Lifecycle!Fail, Lifecycle!Keeps
        <4> QED
          BY <4>1 DEF Lifecycle!Step
      <3>3. CASE j = job[w] /\ lapses[j] # 0
        <4>1. lapses[j] > 0 /\ rows[j].state # "absent"
          BY <2>0, <3>3 DEF HistoryInv, StoredInHand, WorkerInv, WorkerTypeOK
        <4>2. Lifecycle!LateOutcome(j)
          BY <2>2, <2>3, <3>3, <4>1 DEF Lifecycle!LateOutcome, Lifecycle!Keeps
        <4> QED
          BY <4>2 DEF Lifecycle!Step
      <3> QED
        BY <3>1, <3>2, <3>3
    <2> QED
      BY <2>5, <2>6
  <1>3. CASE LoadJob(w) \/ ConflictOnSuccess(w) \/ HandlerRaises(w)
             \/ ReadForFailure(w)
    <2>1. UNCHANGED <<rows, applied, lapses>>
      BY <1>3 DEF LoadJob, ConflictOnSuccess, HandlerRaises, ReadForFailure
    <2>2. StoredInHand'
      BY <1>3
      DEF LoadJob, ConflictOnSuccess, HandlerRaises, ReadForFailure, Goto, Forget,
          HistoryInv, StoredInHand, WorkerInv, WorkerTypeOK, Executing
    <2> QED
      BY <2>1, <2>2, JobStays DEF HistoryInv, LapsesCounted, ResultMatchesState
  <1> QED
    BY <1>1, <1>2, <1>3 DEF Execute

\* Faults and restarts touch no row.
LEMMA MisfortuneLifecycle ==
  ASSUME WorkerInv, HistoryInv, NEW w \in Workers, Misfortune(w) \/ Restart(w)
  PROVE  HistoryInv' /\ \A j \in Jobs : Lifecycle!Step(j)
  <1>1. UNCHANGED <<rows, applied, lapses>>
    BY DEF Misfortune, LoseFailureRecord, Crash, Restart
  <1>2. StoredInHand'
    BY DEF Misfortune, LoseFailureRecord, Crash, Restart, Goto, Forget, HistoryInv,
           StoredInHand, WorkerInv, WorkerTypeOK, Executing
  <1> QED
    BY <1>1, <1>2, JobStays DEF HistoryInv, LapsesCounted, ResultMatchesState

\* The clock only lets leases run out.
LEMMA ClockLifecycle ==
  ASSUME WorkerInv, HistoryInv, NEW k \in Jobs, Clock(k)
  PROVE  HistoryInv' /\ \A j \in Jobs : Lifecycle!Step(j)
  <1>1. /\ UNCHANGED <<pc, job, applied>>
        /\ \A j \in Jobs : /\ rows'[j].state = rows[j].state
                           /\ j # k => /\ rows'[j] = rows[j]
                                       /\ lapses'[j] = lapses[j]
    BY DEF Clock, LeaseRunsOut, ComesDue, WorkerInv, WorkerTypeOK, Row
  <1>2. CASE LeaseRunsOut(k)
    <2>1. lapses'[k] = lapses[k] + 1 /\ lapses[k] \in Nat
      BY <1>2 DEF LeaseRunsOut, WorkerInv, WorkerTypeOK
    <2>2. rows[k].state = "running"
      BY <1>2 DEF LeaseRunsOut
    <2>3. Lifecycle!LeaseRunsOut(k)
      BY <1>1, <2>1, <2>2 DEF Lifecycle!LeaseRunsOut, Lifecycle!Stays
    <2>4. \A j \in Jobs : Lifecycle!Step(j)
      BY <1>1, <2>3, JobStays DEF Lifecycle!Step
    <2>5. HistoryInv'
      BY <1>1, <2>1
      DEF HistoryInv, StoredInHand, LapsesCounted, ResultMatchesState, WorkerInv,
          JobInHand
    <2> QED
      BY <2>4, <2>5
  <1>3. CASE ComesDue(k)
    <2>1. lapses' = lapses /\ rows'[k].lapsed = rows[k].lapsed
      BY <1>3 DEF ComesDue, WorkerInv, WorkerTypeOK, Row
    <2>2. HistoryInv'
      BY <1>1, <2>1
      DEF HistoryInv, StoredInHand, LapsesCounted, ResultMatchesState, WorkerInv,
          JobInHand
    <2> QED
      BY <1>1, <2>1, <2>2, JobStays
  <1> QED
    BY <1>2, <1>3 DEF Clock

\* Initially nothing is stored, applied or lapsed.
LEMMA InitLifecycle ==
  ASSUME WorkerInit
  PROVE  HistoryInv /\ Lifecycle!Init
  BY DEF WorkerInit, HistoryInv, StoredInHand, LapsesCounted, ResultMatchesState,
         AbsentRow, Executing, Lifecycle!Init

----------------------------------------------------------------------------
(* What a queue module does to the table and its workers, in the four ways *)
(* both of them do it.                                                     *)

StoresRow(k) ==
  /\ rows[k].state = "absent"
  /\ rows' = [rows EXCEPT ![k] = Inserted(@)]
  /\ UNCHANGED <<pc, job, token, seen, again, applied, lapses, faults>>

ReleasesRows(w) ==
  /\ pc[w] = "idle"
  /\ rows' = [j \in Jobs |-> Released(rows[j])]
  /\ Goto(w, "selecting")
  /\ UNCHANGED <<job, token, seen, again, applied, lapses, faults>>

ClaimsRow(w) ==
  /\ pc[w] = "claiming"
  /\ rows[job[w]].state = "queued"
  /\ rows' = [rows EXCEPT ![job[w]] = Claimed(@)]
  /\ token' = [token EXCEPT ![w] = rows'[job[w]].token]
  /\ Goto(w, "leased")
  /\ UNCHANGED <<job, seen, again, applied, lapses, faults>>

\* A worker that executes nothing goes on to another place, perhaps with a job
\* it will claim: no row changes.
MovesOn(w, place, j) ==
  /\ pc[w] \notin Executing /\ place \in Places \ Executing
  /\ j \in Jobs \cup {None}
  /\ place \in {"claiming", "settling"} => j \in Jobs
  /\ place = "claiming" => rows[j].state # "absent"
  /\ pc' = [pc EXCEPT ![w] = place]
  /\ job' = [job EXCEPT ![w] = j]
  /\ \/ UNCHANGED <<token, seen, again>>
     \/ /\ token' = [token EXCEPT ![w] = None]
        /\ seen' = [seen EXCEPT ![w] = AbsentRow]
        /\ again' = [again EXCEPT ![w] = FALSE]
  /\ faults' \in 0..MaxFaults
  /\ UNCHANGED <<rows, applied, lapses>>

\* Storing a job uses up the offer every key starts with.
LEMMA StoresRowInv ==
  ASSUME WorkerInv, NEW k \in Jobs, StoresRow(k)
  PROVE  WorkerInv'
  <1> USE DEF WorkerInv
  <1>1. WorkerTypeOK'
    BY RowOperatorsType DEF StoresRow, WorkerTypeOK
  <1>2. JobInHand'
    BY DEF StoresRow, JobInHand
  <1>3. \A j \in Jobs : Holders(j)' = Holders(j)
    BY DEF StoresRow, Holders
  <1>4. \A j \in Jobs : /\ Offers(rows'[j]) = Offers(rows[j])
                        /\ Abandoned(rows'[j]) = Abandoned(rows[j])
    <2> SUFFICES ASSUME NEW j \in Jobs
                 PROVE  /\ Offers(rows'[j]) = Offers(rows[j])
                        /\ Abandoned(rows'[j]) = Abandoned(rows[j])
      OBVIOUS
    <2>1. CASE j = k
      BY <2>1 DEF StoresRow, WorkerTypeOK, Inserted, Offers, Abandoned, Row
    <2>2. CASE j # k
      BY <2>2 DEF StoresRow, WorkerTypeOK
    <2> QED
      BY <2>1, <2>2
  <1>5. LeaseBudget'
    BY <1>3, <1>4 DEF StoresRow, LeaseBudget
  <1> QED
    BY <1>1, <1>2, <1>5

\* Releasing lapsed leases turns one kind of offer into another.
LEMMA ReleasesRowsInv ==
  ASSUME WorkerInv, NEW w \in Workers, ReleasesRows(w)
  PROVE  WorkerInv'
  <1> USE DEF WorkerInv
  <1>1. \A j \in Jobs : /\ rows[j] \in Row
                        /\ rows'[j] = Released(rows[j])
    BY DEF ReleasesRows, WorkerTypeOK
  <1>2. rows' \in [Jobs -> Row]
    BY <1>1, RowOperatorsType DEF ReleasesRows, WorkerTypeOK
  <1>3. WorkerTypeOK'
    BY <1>2 DEF ReleasesRows, Goto, WorkerTypeOK, Places
  <1>4. JobInHand'
    BY DEF ReleasesRows, Goto, JobInHand, WorkerTypeOK, Executing
  <1>5. \A j \in Jobs : Holders(j)' = Holders(j)
    BY HoldersStay DEF ReleasesRows, Goto, Executing
  <1>6. \A j \in Jobs : /\ Offers(rows'[j]) = Offers(rows[j])
                        /\ Abandoned(rows'[j]) = Abandoned(rows[j])
    BY <1>1, StatementBudget
  <1>7. LeaseBudget'
    BY <1>5, <1>6 DEF ReleasesRows, LeaseBudget
  <1> QED
    BY <1>3, <1>4, <1>7

\* A claim turns the offer of a queued row into a holder.
LEMMA ClaimsRowInv ==
  ASSUME WorkerInv, NEW w \in Workers, ClaimsRow(w)
  PROVE  WorkerInv'
  <1> USE DEF WorkerInv
  <1>0. job[w] \in Jobs /\ pc[w] = "claiming" /\ job' = job
    BY DEF JobInHand, ClaimsRow
  <1>1. /\ rows' \in [Jobs -> Row]
        /\ rows'[job[w]] = Claimed(rows[job[w]])
    BY <1>0, RowOperatorsType DEF ClaimsRow, WorkerTypeOK
  <1>2. WorkerTypeOK'
    <2>1. rows'[job'[w]].token \in Nat
      BY <1>0, <1>1 DEF Row
    <2> QED
      BY <1>0, <1>1, <2>1 DEF ClaimsRow, Goto, WorkerTypeOK, Places, Executing
  <1>3. JobInHand'
    BY <1>0 DEF ClaimsRow, Goto, JobInHand, WorkerTypeOK, Executing
  <1>4. LeaseBudget'
    <2> SUFFICES ASSUME NEW j \in Jobs
                 PROVE  applied[j] + Cardinality(Holders(j)')
                          + Offers(rows'[j]) + Abandoned(rows'[j])
                          <= 1 + lapses[j]
      BY DEF LeaseBudget, ClaimsRow
    <2>1. /\ job[w] = j => Cardinality(Holders(j)') = Cardinality(Holders(j)) + 1
          /\ job[w] # j => Cardinality(Holders(j)') = Cardinality(Holders(j))
      BY <1>0, HoldersGrow DEF ClaimsRow, Goto, Executing, WorkerTypeOK
    <2>2. /\ rows[j] \in Row /\ applied[j] \in Nat /\ lapses[j] \in Nat
          /\ Cardinality(Holders(j)) \in Nat
      BY HoldersFinite DEF WorkerTypeOK
    <2>3. CASE job[w] = j
      <3>1. Offers(rows[j]) = 1 /\ Abandoned(rows[j]) = 0
        BY <2>3 DEF ClaimsRow, Offers, Abandoned
      <3>2. Offers(rows'[j]) = 0 /\ Abandoned(rows'[j]) = 0
        BY <1>1, <2>2, <2>3, StatementBudget
      <3> QED
        BY <2>1, <2>2, <2>3, <3>1, <3>2 DEF LeaseBudget
    <2>4. CASE job[w] # j
      <3>1. rows'[j] = rows[j]
        BY <2>4 DEF ClaimsRow, WorkerTypeOK
      <3> QED
        BY <2>1, <2>4, <3>1 DEF LeaseBudget
    <2> QED
      BY <2>3, <2>4
  <1> QED
    BY <1>2, <1>3, <1>4

\* Going on without executing changes no holder and no row.
LEMMA MovesOnInv ==
  ASSUME WorkerInv, NEW w \in Workers, NEW place, NEW k, MovesOn(w, place, k)
  PROVE  WorkerInv'
  <1> USE DEF WorkerInv
  <1>1. /\ token' \in [Workers -> Nat] /\ again' \in [Workers -> BOOLEAN]
        /\ seen' \in [Workers -> Row]
    <2>1. CASE UNCHANGED <<token, seen, again>>
      BY <2>1 DEF WorkerTypeOK
    <2>2. CASE /\ token' = [token EXCEPT ![w] = None]
               /\ seen' = [seen EXCEPT ![w] = AbsentRow]
               /\ again' = [again EXCEPT ![w] = FALSE]
      BY <2>2, AbsentRowType DEF WorkerTypeOK, None
    <2> QED
      BY <2>1, <2>2 DEF MovesOn
  <1>2. WorkerTypeOK'
    BY <1>1 DEF MovesOn, WorkerTypeOK
  <1>3. JobInHand'
    BY DEF MovesOn, JobInHand, WorkerTypeOK
  <1>4. \A j \in Jobs : Holders(j)' = Holders(j)
    BY HoldersStay DEF MovesOn, WorkerTypeOK
  <1> QED
    BY <1>2, <1>3, <1>4 DEF MovesOn, LeaseBudget

\* Storing a job begins its life.
LEMMA StoresRowLifecycle ==
  ASSUME WorkerInv, HistoryInv, NEW k \in Jobs, StoresRow(k)
  PROVE  HistoryInv' /\ \A j \in Jobs : Lifecycle!Step(j)
  <1>1. /\ UNCHANGED <<pc, job, applied, lapses>>
        /\ rows[k].state = "absent" /\ rows'[k].state = "queued"
        /\ rows'[k].lapsed = rows[k].lapsed
        /\ \A j \in Jobs : j # k => rows'[j] = rows[j]
    BY DEF StoresRow, Inserted, WorkerInv, WorkerTypeOK, Row
  <1>2. Lifecycle!Store(k)
    BY <1>1 DEF Lifecycle!Store, Lifecycle!Keeps
  <1>3. \A j \in Jobs : Lifecycle!Step(j)
    BY <1>1, <1>2, JobStays DEF Lifecycle!Step
  <1>4. ~(applied[k] > 0 /\ lapses[k] = 0)
    <2>1. Offers(rows[k]) = 1
      BY <1>1 DEF Offers
    <2> QED
      BY <2>1, OfferedJobUnapplied
  <1>5. HistoryInv'
    <2>1. StoredInHand'
      BY <1>1 DEF HistoryInv, StoredInHand, WorkerInv, JobInHand
    <2>2. LapsesCounted' /\ ResultMatchesState'
      BY <1>1, <1>4 DEF HistoryInv, LapsesCounted, ResultMatchesState
    <2> QED
      BY <2>1, <2>2 DEF HistoryInv
  <1> QED
    BY <1>3, <1>5

\* A release only offers jobs again whose lease has run out.
LEMMA ReleasesRowsLifecycle ==
  ASSUME WorkerInv, HistoryInv, NEW w \in Workers, ReleasesRows(w)
  PROVE  HistoryInv' /\ \A j \in Jobs : Lifecycle!Step(j)
  <1>1. /\ UNCHANGED <<job, applied, lapses>>
        /\ pc' = [pc EXCEPT ![w] = "selecting"] /\ pc[w] = "idle"
    BY DEF ReleasesRows, Goto
  <1>2. \A j \in Jobs :
          \/ rows'[j] = rows[j]
          \/ /\ rows[j].state = "running" /\ rows'[j].state = "queued"
             /\ lapses[j] > 0 /\ ~rows'[j].lapsed
    BY DEF ReleasesRows, Released, Lapsed, HistoryInv, LapsesCounted, WorkerInv,
           WorkerTypeOK, Row
  <1>3. \A j \in Jobs : Lifecycle!Step(j)
    <2> SUFFICES ASSUME NEW j \in Jobs
                 PROVE  Lifecycle!Step(j)
      OBVIOUS
    <2>1. CASE rows'[j] = rows[j]
      BY <1>1, <2>1, JobStays
    <2>2. CASE rows'[j] # rows[j]
      <3>1. Lifecycle!Release(j)
        BY <1>1, <1>2, <2>2 DEF Lifecycle!Release, Lifecycle!Keeps
      <3> QED
        BY <3>1 DEF Lifecycle!Step
    <2> QED
      BY <2>1, <2>2
  <1>4. StoredInHand'
    BY <1>1, <1>2
    DEF HistoryInv, StoredInHand, WorkerInv, WorkerTypeOK, JobInHand, Executing
  <1>5. LapsesCounted' /\ ResultMatchesState'
    BY <1>1, <1>2 DEF HistoryInv, LapsesCounted, ResultMatchesState
  <1> QED
    BY <1>3, <1>4, <1>5 DEF HistoryInv

\* A claim starts a queued job.
LEMMA ClaimsRowLifecycle ==
  ASSUME WorkerInv, HistoryInv, NEW w \in Workers, ClaimsRow(w)
  PROVE  HistoryInv' /\ \A j \in Jobs : Lifecycle!Step(j)
  <1>1. /\ UNCHANGED <<job, applied, lapses>> /\ job[w] \in Jobs
        /\ pc' = [pc EXCEPT ![w] = "leased"] /\ pc[w] = "claiming"
        /\ rows[job[w]].state = "queued" /\ rows'[job[w]].state = "running"
        /\ ~rows'[job[w]].lapsed
        /\ \A j \in Jobs : j # job[w] => rows'[j] = rows[j]
    BY DEF ClaimsRow, Claimed, Goto, WorkerInv, WorkerTypeOK, JobInHand, Row
  <1>3. ASSUME NEW j \in Jobs
        PROVE  Lifecycle!Step(j)
    <2>1. CASE j # job[w]
      BY <1>1, <2>1, JobStays
    <2>2. CASE j = job[w]
      <3>1. Lifecycle!Claim(j)
        BY <1>1, <2>2 DEF Lifecycle!Claim, Lifecycle!Keeps
      <3> QED
        BY <3>1 DEF Lifecycle!Step
    <2> QED
      BY <2>1, <2>2
  <1>4. ~(applied[job[w]] > 0 /\ lapses[job[w]] = 0)
    <2>1. Offers(rows[job[w]]) = 1
      BY <1>1 DEF Offers
    <2> QED
      BY <1>1, <2>1, OfferedJobUnapplied
  <1>5. StoredInHand'
    BY <1>1 DEF HistoryInv, StoredInHand, WorkerInv, WorkerTypeOK, JobInHand, Executing
  <1>6. LapsesCounted' /\ ResultMatchesState'
    BY <1>1, <1>4 DEF HistoryInv, LapsesCounted, ResultMatchesState
  <1> QED
    BY <1>3, <1>5, <1>6 DEF HistoryInv

\* Going on touches no row; only stored jobs are chosen.
LEMMA MovesOnLifecycle ==
  ASSUME WorkerInv, HistoryInv, NEW w \in Workers, NEW place, NEW k,
         MovesOn(w, place, k)
  PROVE  HistoryInv' /\ \A j \in Jobs : Lifecycle!Step(j)
  <1>1. UNCHANGED <<rows, applied, lapses>>
    BY DEF MovesOn
  <1>2. StoredInHand'
    BY DEF MovesOn, HistoryInv, StoredInHand, WorkerInv, WorkerTypeOK
  <1> QED
    BY <1>1, <1>2, JobStays DEF HistoryInv, LapsesCounted, ResultMatchesState

----------------------------------------------------------------------------
(* Attempts.  Every lease that ran out may buy one more attempt: either    *)
(* the row is on offer again, or a late holder still puts it on offer.     *)

\* A claim mints the token from the attempt's number.
RowTokens ==
  \A j \in Jobs : rows[j].state = "running" => rows[j].token = rows[j].attempts

\* The copy a failure is judged by is of the holder's own attempt.
CopyTokens ==
  \A w \in Workers : pc[w] = "recording" => seen[w].attempts = token[w]

\* The holders whose failure would be retried.
Young(j) == {w \in Holders(j) : token[w] < MaxAttempts}

AttemptBudget ==
  \A j \in Jobs :
    rows[j].attempts + Offers(rows[j]) + Cardinality(Young(j))
      <= MaxAttempts + lapses[j]

AttemptInv == RowTokens /\ CopyTokens /\ AttemptBudget

\* The young holders are finitely many, and all are holders.
LEMMA YoungFinite ==
  ASSUME NEW j
  PROVE  /\ IsFiniteSet(Young(j)) /\ Cardinality(Young(j)) \in Nat
         /\ Cardinality(Young(j)) <= Cardinality(Holders(j))
  <1>1. Young(j) \subseteq Holders(j)
    BY DEF Young
  <1> QED
    BY <1>1, HoldersFinite, FS_Subset, FS_CardinalityType

\* What a row adds to the budget.
LEMMA RowAmounts ==
  ASSUME NEW row \in Row
  PROVE  row.attempts \in Nat /\ Offers(row) \in Nat
  <1>1. Offers(row) \in {0, 1}
    BY OffersBound
  <1> QED
    BY <1>1 DEF Row

\* The budget is kept for a job whose row, offer counted, has no more attempts
\* than before and that gained no young holder.
LEMMA BudgetKept ==
  ASSUME WorkerTypeOK, WorkerTypeOK', AttemptBudget, NEW j \in Jobs,
         Young(j)' \subseteq Young(j),
         rows'[j].attempts + Offers(rows'[j]) <= rows[j].attempts + Offers(rows[j]),
         lapses'[j] = lapses[j]
  PROVE  rows'[j].attempts + Offers(rows'[j]) + Cardinality(Young(j)')
           <= MaxAttempts + lapses'[j]
  <1>1. /\ Cardinality(Young(j)') <= Cardinality(Young(j))
        /\ Cardinality(Young(j)') \in Nat /\ Cardinality(Young(j)) \in Nat
    BY YoungFinite, FS_Subset, FS_CardinalityType
  <1>2. /\ rows[j].attempts \in Nat /\ rows'[j].attempts \in Nat
        /\ Offers(rows[j]) \in Nat /\ Offers(rows'[j]) \in Nat /\ lapses[j] \in Nat
    <2>1. rows[j] \in Row /\ rows'[j] \in Row /\ lapses[j] \in Nat
      BY DEF WorkerTypeOK
    <2> QED
      BY <2>1, RowAmounts
  <1>3. rows[j].attempts + Offers(rows[j]) + Cardinality(Young(j))
          <= MaxAttempts + lapses[j]
    BY DEF AttemptBudget
  <1> QED
    BY <1>1, <1>2, <1>3, MaxAttemptsAssumption

\* A step of one worker that writes no row and makes nobody a holder.
LEMMA QuietAttempts ==
  ASSUME WorkerInv, WorkerInv', AttemptInv, CopyTokens',
         \A j \in Jobs : Young(j)' \subseteq Young(j),
         UNCHANGED <<rows, lapses>>
  PROVE  AttemptInv'
  <1>1. RowTokens'
    BY DEF AttemptInv, RowTokens
  <1>2. AttemptBudget'
    <2> SUFFICES ASSUME NEW j \in Jobs
                 PROVE  rows'[j].attempts + Offers(rows'[j]) + Cardinality(Young(j)')
                          <= MaxAttempts + lapses'[j]
      BY DEF AttemptBudget
    <2>1. rows'[j].attempts + Offers(rows'[j]) <= rows[j].attempts + Offers(rows[j])
      <3>1. rows[j].attempts \in Nat /\ Offers(rows[j]) \in Nat
        BY RowAmounts DEF WorkerInv, WorkerTypeOK
      <3> QED
        BY <3>1
    <2> QED
      BY <2>1, BudgetKept DEF WorkerInv, AttemptInv
  <1> QED
    BY <1>1, <1>2 DEF AttemptInv

\* Storing and releasing change neither attempts nor offers.
LEMMA StoresRowAttempts ==
  ASSUME WorkerInv, WorkerInv', AttemptInv, NEW k \in Jobs, StoresRow(k)
  PROVE  AttemptInv'
  <1>1. \A j \in Jobs : Young(j)' = Young(j)
    BY DEF StoresRow, Young, Holders
  <1>2. \A j \in Jobs : /\ rows'[j].attempts = rows[j].attempts
                        /\ Offers(rows'[j]) = Offers(rows[j])
                        /\ j = k => rows'[j].state = "queued"
                        /\ j # k => rows'[j] = rows[j]
    BY DEF StoresRow, Inserted, Offers, Lapsed, WorkerInv, WorkerTypeOK, Row
  <1>3. RowTokens' /\ CopyTokens'
    BY <1>2 DEF StoresRow, AttemptInv, RowTokens, CopyTokens
  <1>4. AttemptBudget'
    BY <1>1, <1>2 DEF StoresRow, AttemptInv, AttemptBudget
  <1> QED
    BY <1>3, <1>4 DEF AttemptInv

LEMMA ReleasesRowsAttempts ==
  ASSUME WorkerInv, WorkerInv', AttemptInv, NEW w \in Workers, ReleasesRows(w)
  PROVE  AttemptInv'
  <1>1. \A j \in Jobs : Young(j)' = Young(j)
    BY DEF ReleasesRows, Goto, Young, Holders, WorkerInv, WorkerTypeOK, Executing
  <1>2. \A j \in Jobs : /\ rows[j] \in Row /\ rows'[j] = Released(rows[j])
    BY DEF ReleasesRows, WorkerInv, WorkerTypeOK
  <1>3. \A j \in Jobs : /\ rows'[j].attempts = rows[j].attempts
                        /\ Offers(rows'[j]) = Offers(rows[j])
                        /\ rows'[j].state = "running" => rows'[j] = rows[j]
    BY <1>2 DEF Released, Lapsed, Offers, Row
  <1>4. RowTokens'
    BY <1>3 DEF AttemptInv, RowTokens
  <1>5. CopyTokens'
    BY DEF ReleasesRows, Goto, WorkerInv, WorkerTypeOK, AttemptInv, CopyTokens
  <1>6. AttemptBudget'
    BY <1>1, <1>3 DEF ReleasesRows, AttemptInv, AttemptBudget
  <1> QED
    BY <1>4, <1>5, <1>6 DEF AttemptInv

\* A claim spends the offer.  If the attempt is not the last one its holder is
\* young, but then the lease budget alone bounds holders and offers.
LEMMA ClaimsRowAttempts ==
  ASSUME WorkerInv, WorkerInv', AttemptInv, NEW w \in Workers, ClaimsRow(w)
  PROVE  AttemptInv'
  <1> DEFINE k == job[w]
  <1>0. k \in Jobs /\ rows[k] \in Row /\ lapses' = lapses /\ job' = job
    BY DEF ClaimsRow, WorkerInv, WorkerTypeOK, JobInHand
  <1>1. /\ rows'[k] = Claimed(rows[k])
        /\ \A j \in Jobs : j # k => rows'[j] = rows[j]
    BY <1>0 DEF ClaimsRow, WorkerInv, WorkerTypeOK
  <1>2. /\ rows'[k].state = "running" /\ rows'[k].attempts = rows[k].attempts + 1
        /\ rows'[k].token = rows[k].attempts + 1 /\ Offers(rows'[k]) = 0
        /\ Offers(rows[k]) = 1 /\ rows[k].attempts \in Nat
    <2>1. Offers(rows[k]) = 1 /\ rows[k].attempts \in Nat
      BY <1>0, RowAmounts DEF ClaimsRow, Offers
    <2>2. /\ rows'[k].state = "running" /\ ~rows'[k].lapsed
          /\ rows'[k].attempts = rows[k].attempts + 1
          /\ rows'[k].token = rows[k].attempts + 1
      BY <1>0, <1>1 DEF Claimed, Row
    <2> QED
      BY <2>1, <2>2 DEF Offers, Lapsed
  <1>3. token' = [token EXCEPT ![w] = rows[k].attempts + 1]
    BY <1>0, <1>2 DEF ClaimsRow
  <1>4. RowTokens'
    BY <1>1, <1>2 DEF AttemptInv, RowTokens
  <1>5. CopyTokens'
    BY <1>3 DEF ClaimsRow, Goto, WorkerInv, WorkerTypeOK, AttemptInv, CopyTokens
  <1>6. AttemptBudget'
    <2> SUFFICES ASSUME NEW j \in Jobs
                 PROVE  rows'[j].attempts + Offers(rows'[j]) + Cardinality(Young(j)')
                          <= MaxAttempts + lapses'[j]
      BY DEF AttemptBudget
    <2>1. CASE j # k
      <3>1. Young(j)' \subseteq Young(j)
        BY <1>0, <1>3, <2>1
        DEF ClaimsRow, Goto, Young, Holders, WorkerInv, WorkerTypeOK
      <3>2. rows'[j].attempts + Offers(rows'[j]) <= rows[j].attempts + Offers(rows[j])
        <4>1. rows[j].attempts \in Nat /\ Offers(rows[j]) \in Nat
          BY RowAmounts DEF WorkerInv, WorkerTypeOK
        <4> QED
          BY <1>1, <2>1, <4>1
      <3> QED
        BY <1>0, <3>1, <3>2, BudgetKept DEF WorkerInv, AttemptInv
    <2>2. CASE j = k /\ rows[k].attempts + 1 >= MaxAttempts
      <3>1. Young(j)' \subseteq Young(j)
        <4>1. ~(rows[k].attempts + 1 < MaxAttempts)
          BY <1>2, <2>2, MaxAttemptsAssumption
        <4>2. token'[w] = rows[k].attempts + 1
          BY <1>3 DEF WorkerInv, WorkerTypeOK
        <4>3. \A v \in Workers : v # w => token'[v] = token[v] /\ pc'[v] = pc[v]
          BY <1>3 DEF ClaimsRow, Goto, WorkerInv, WorkerTypeOK
        <4> QED
          BY <1>0, <4>1, <4>2, <4>3 DEF Young, Holders
      <3>2. rows'[j].attempts + Offers(rows'[j]) <= rows[j].attempts + Offers(rows[j])
        BY <1>2, <2>2
      <3> QED
        BY <1>0, <3>1, <3>2, BudgetKept DEF WorkerInv, AttemptInv
    <2>3. CASE j = k /\ rows[k].attempts + 1 < MaxAttempts
      <3>1. /\ Cardinality(Young(j)') <= Cardinality(Holders(j)')
            /\ Cardinality(Young(j)') \in Nat /\ Cardinality(Holders(j)') \in Nat
        <4>1. Young(j)' \subseteq Holders(j)' /\ Holders(j)' \subseteq Workers
          BY DEF Young, Holders
        <4> QED
          BY <4>1, WorkersAssumption, FS_Subset, FS_CardinalityType
      <3>2. applied'[j] + Cardinality(Holders(j)') + Offers(rows'[j])
              + Abandoned(rows'[j]) <= 1 + lapses'[j]
        BY DEF WorkerInv, LeaseBudget
      <3>3. /\ applied'[j] \in Nat /\ lapses'[j] \in Nat
            /\ Abandoned(rows'[j]) \in {0, 1}
        BY OffersBound DEF WorkerInv, WorkerTypeOK
      <3> QED
        BY <1>2, <2>3, <3>1, <3>2, <3>3, MaxAttemptsAssumption
    <2> QED
      BY <1>2, <2>1, <2>2, <2>3, MaxAttemptsAssumption
  <1> QED
    BY <1>4, <1>5, <1>6 DEF AttemptInv

\* Going on makes nobody a holder.
LEMMA MovesOnAttempts ==
  ASSUME WorkerInv, WorkerInv', AttemptInv,
         NEW w \in Workers, NEW place, NEW k, MovesOn(w, place, k)
  PROVE  AttemptInv'
  <1>1. \A v \in Workers : v # w => /\ pc'[v] = pc[v] /\ job'[v] = job[v]
                                    /\ token'[v] = token[v] /\ seen'[v] = seen[v]
    BY DEF MovesOn, WorkerInv, WorkerTypeOK
  <1>2. pc'[w] \notin Executing
    BY DEF MovesOn, WorkerInv, WorkerTypeOK
  <1>3. CopyTokens'
    BY <1>1, <1>2 DEF AttemptInv, CopyTokens, Executing
  <1>4. \A j \in Jobs : Young(j)' \subseteq Young(j)
    BY <1>1, <1>2 DEF Young, Holders
  <1> QED
    BY <1>3, <1>4, QuietAttempts DEF MovesOn

\* A holder ends its execution by writing the row: as a success, or as a
\* failure judged by its copy.  Only a young holder's failure makes an offer.
LEMMA OutcomeAttempts ==
  ASSUME WorkerInv, WorkerInv', AttemptInv,
         NEW w \in Workers, CommitWork(w) \/ RecordFailure(w)
  PROVE  AttemptInv'
  <1> DEFINE k == job[w]
  <1>0. /\ k \in Jobs /\ rows[k] \in Row /\ pc[w] \in Executing
        /\ seen[w] \in Row /\ token[w] \in Nat
        /\ UNCHANGED <<job, token, lapses>>
    BY DEF CommitWork, RecordFailure, WorkerInv, WorkerTypeOK, JobInHand, Executing
  <1>1. /\ pc' = [pc EXCEPT ![w] = "settling"]
        /\ \A v \in Workers : v # w => seen'[v] = seen[v]
        /\ \A j \in Jobs : j # k => rows'[j] = rows[j]
    BY DEF CommitWork, RecordFailure, Goto, WorkerInv, WorkerTypeOK
  <1>2. /\ rows'[k].state # "running" /\ rows'[k].attempts = rows[k].attempts
        /\ Offers(rows'[k]) = 0 \/ (pc[w] = "recording" /\ seen[w].attempts < MaxAttempts)
        /\ Offers(rows'[k]) \in {0, 1}
    <2>1. CASE CommitWork(w)
      <3>1. rows'[k] = Succeeded(rows[k])
        BY <1>0, <2>1 DEF CommitWork, WorkerInv, WorkerTypeOK
      <3> QED
        BY <1>0, <3>1 DEF Succeeded, Offers, Lapsed, Row
    <2>2. CASE RecordFailure(w)
      <3>1. rows'[k] = Failed(rows[k], seen[w], again[w]) /\ pc[w] = "recording"
        BY <1>0, <2>2 DEF RecordFailure, WorkerInv, WorkerTypeOK
      <3>2. CASE again[w] /\ seen[w].attempts < MaxAttempts
        BY <1>0, <3>1, <3>2 DEF Failed, Offers, Lapsed, Row
      <3>3. CASE ~(again[w] /\ seen[w].attempts < MaxAttempts)
        BY <1>0, <3>1, <3>3 DEF Failed, Offers, Lapsed, Row
      <3> QED
        BY <3>2, <3>3
    <2> QED
      BY <2>1, <2>2
  <1>3. RowTokens'
    BY <1>1, <1>2 DEF AttemptInv, RowTokens
  <1>4. CopyTokens'
    BY <1>0, <1>1 DEF AttemptInv, CopyTokens, WorkerInv, WorkerTypeOK
  <1>5. \A j \in Jobs : Young(j)' \subseteq Young(j) \ {w}
    BY <1>0, <1>1 DEF Young, Holders, Executing, WorkerInv, WorkerTypeOK
  <1>6. AttemptBudget'
    <2> SUFFICES ASSUME NEW j \in Jobs
                 PROVE  rows'[j].attempts + Offers(rows'[j]) + Cardinality(Young(j)')
                          <= MaxAttempts + lapses'[j]
      BY DEF AttemptBudget
    <2>0. /\ rows[j].attempts \in Nat /\ Offers(rows[j]) \in Nat /\ lapses[j] \in Nat
      BY RowAmounts DEF WorkerInv, WorkerTypeOK
    <2>1. CASE j # k \/ Offers(rows'[k]) = 0
      <3>1. rows'[j].attempts + Offers(rows'[j]) <= rows[j].attempts + Offers(rows[j])
        <4>1. CASE j # k
          BY <1>1, <2>0, <4>1
        <4>2. CASE j = k
          BY <1>2, <2>0, <2>1, <4>2
        <4> QED
          BY <4>1, <4>2
      <3>2. Young(j)' \subseteq Young(j) /\ lapses'[j] = lapses[j]
        BY <1>0, <1>5
      <3> QED
        BY <3>1, <3>2, BudgetKept DEF WorkerInv, AttemptInv
    <2>2. CASE j = k /\ Offers(rows'[k]) = 1
      <3>1. w \in Young(j)
        BY <1>0, <1>2, <2>2 DEF AttemptInv, CopyTokens, Young, Holders
      <3>2. /\ Cardinality(Young(j) \ {w}) = Cardinality(Young(j)) - 1
            /\ IsFiniteSet(Young(j) \ {w}) /\ Cardinality(Young(j)) \in Nat
        BY <3>1, YoungFinite, FS_RemoveElement
      <3>3. Cardinality(Young(j)') <= Cardinality(Young(j)) - 1
        BY <1>5, <3>2, FS_Subset
      <3>4. Cardinality(Young(j)') \in Nat
        BY <1>5, <3>2, FS_Subset, FS_CardinalityType
      <3>5. rows[j].attempts + Offers(rows[j]) + Cardinality(Young(j))
              <= MaxAttempts + lapses[j]
        BY DEF AttemptInv, AttemptBudget
      <3> QED
        BY <1>0, <1>2, <2>0, <2>2, <3>2, <3>3, <3>4, <3>5, MaxAttemptsAssumption
    <2> QED
      BY <1>2, <2>1, <2>2
  <1> QED
    BY <1>3, <1>4, <1>6 DEF AttemptInv

\* Whatever else a worker does with a lease writes no row.
LEMMA ExecuteAttempts ==
  ASSUME WorkerInv, WorkerInv', AttemptInv, NEW w \in Workers,
         Execute(w) \/ Misfortune(w) \/ Restart(w)
  PROVE  AttemptInv'
  <1>1. CASE CommitWork(w) \/ RecordFailure(w)
    BY <1>1, OutcomeAttempts
  <1>2. CASE ReadForFailure(w)
    <2>1. UNCHANGED <<rows, lapses, job, token>>
      BY <1>2 DEF ReadForFailure
    <2>2. \A j \in Jobs : Young(j)' \subseteq Young(j)
      BY <1>2 DEF ReadForFailure, Goto, Young, Holders, Executing, WorkerInv, WorkerTypeOK
    <2>3. CopyTokens'
      BY <1>2 DEF ReadForFailure, Goto, Owns, AttemptInv, CopyTokens, RowTokens,
                  WorkerInv, WorkerTypeOK, JobInHand, Executing
    <2> QED
      BY <2>1, <2>2, <2>3, QuietAttempts
  <1>3. CASE LoadJob(w) \/ HandlerRaises(w) \/ LoseFailureRecord(w)
    <2>1. /\ UNCHANGED <<rows, lapses, job, token>> /\ pc[w] \in Executing
          /\ pc' = [pc EXCEPT ![w] = pc'[w]] /\ pc'[w] # "recording"
          /\ \A v \in Workers : v # w => seen'[v] = seen[v]
      BY <1>3 DEF LoadJob, HandlerRaises, LoseFailureRecord, Goto, Executing, WorkerInv,
                  WorkerTypeOK
    <2>2. \A j \in Jobs : Young(j)' \subseteq Young(j)
      BY <2>1 DEF Young, Holders, WorkerInv, WorkerTypeOK
    <2>3. CopyTokens'
      BY <2>1 DEF AttemptInv, CopyTokens, WorkerInv, WorkerTypeOK
    <2> QED
      BY <2>1, <2>2, <2>3, QuietAttempts
  <1>4. CASE ConflictOnSuccess(w) \/ Crash(w) \/ Restart(w)
    <2>1. /\ UNCHANGED <<rows, lapses>> /\ pc'[w] \notin Executing
          /\ \A v \in Workers : v # w => /\ pc'[v] = pc[v] /\ job'[v] = job[v]
                                         /\ token'[v] = token[v] /\ seen'[v] = seen[v]
      BY <1>4 DEF ConflictOnSuccess, Crash, Restart, Goto, Forget, Executing, WorkerInv,
                  WorkerTypeOK
    <2>2. \A j \in Jobs : Young(j)' \subseteq Young(j)
      BY <2>1 DEF Young, Holders
    <2>3. CopyTokens'
      BY <2>1 DEF AttemptInv, CopyTokens, Executing
    <2> QED
      BY <2>1, <2>2, <2>3, QuietAttempts
  <1> QED
    BY <1>1, <1>2, <1>3, <1>4 DEF Execute, Misfortune

\* A lease that runs out makes one offer and adds one lapse.
LEMMA ClockAttempts ==
  ASSUME WorkerInv, WorkerInv', AttemptInv, NEW k \in Jobs, Clock(k)
  PROVE  AttemptInv'
  <1>1. \A j \in Jobs : Young(j)' = Young(j)
    BY DEF Clock, LeaseRunsOut, ComesDue, Young, Holders
  <1>2. RowTokens' /\ CopyTokens'
    <2>1. \A j \in Jobs : /\ rows'[j].state = rows[j].state
                          /\ rows'[j].token = rows[j].token
                          /\ rows'[j].attempts = rows[j].attempts
      BY DEF Clock, LeaseRunsOut, ComesDue, WorkerInv, WorkerTypeOK, Row
    <2>2. UNCHANGED <<pc, seen, token>>
      BY DEF Clock, LeaseRunsOut, ComesDue
    <2> QED
      BY <2>1, <2>2 DEF AttemptInv, RowTokens, CopyTokens
  <1>3. AttemptBudget'
    <2> SUFFICES ASSUME NEW j \in Jobs
                 PROVE  rows'[j].attempts + Offers(rows'[j]) + Cardinality(Young(j))
                          <= MaxAttempts + lapses'[j]
      BY <1>1 DEF AttemptBudget
    <2>1. /\ rows[j].attempts \in Nat /\ Offers(rows[j]) \in Nat /\ lapses[j] \in Nat
          /\ Cardinality(Young(j)) \in Nat
      BY RowAmounts, YoungFinite DEF WorkerInv, WorkerTypeOK
    <2>2. rows[j].attempts + Offers(rows[j]) + Cardinality(Young(j))
            <= MaxAttempts + lapses[j]
      BY DEF AttemptInv, AttemptBudget
    <2>3. \/ /\ rows'[j].attempts = rows[j].attempts /\ lapses'[j] = lapses[j]
             /\ Offers(rows'[j]) = Offers(rows[j])
          \/ /\ rows'[j].attempts = rows[j].attempts /\ lapses'[j] = lapses[j] + 1
             /\ Offers(rows'[j]) = 1
      BY DEF Clock, LeaseRunsOut, ComesDue, Offers, Lapsed, WorkerInv, WorkerTypeOK, Row
    <2> QED
      BY <2>1, <2>2, <2>3, MaxAttemptsAssumption
  <1> QED
    BY <1>2, <1>3 DEF AttemptInv

LEMMA StutterAttempts ==
  ASSUME AttemptInv, UNCHANGED workerVars
  PROVE  AttemptInv'
  BY DEF AttemptInv, workerVars, RowTokens, CopyTokens, AttemptBudget, Young, Holders

\* Every key starts with one offer and at least one attempt to spend it on.
LEMMA InitAttempts ==
  ASSUME WorkerInit
  PROVE  AttemptInv
  <1>1. RowTokens /\ CopyTokens
    BY DEF WorkerInit, RowTokens, CopyTokens, AbsentRow
  <1>2. \A j \in Jobs : Young(j) = {} /\ Cardinality(Young(j)) = 0
    BY FS_EmptySet DEF WorkerInit, Young, Holders, Executing
  <1>3. AbsentRow.attempts = 0 /\ Offers(AbsentRow) = 1
    BY DEF AbsentRow, Offers
  <1>4. AttemptBudget
    <2> SUFFICES ASSUME NEW j \in Jobs
                 PROVE  rows[j].attempts + Offers(rows[j]) + Cardinality(Young(j))
                          <= MaxAttempts + lapses[j]
      BY DEF AttemptBudget
    <2>1. rows[j] = AbsentRow /\ lapses[j] = 0
      BY DEF WorkerInit
    <2> QED
      BY <1>2, <1>3, <2>1, MaxAttemptsAssumption
  <1> QED
    BY <1>1, <1>4 DEF AttemptInv

\* What is left of the budget once holders and offers are not counted.
LEMMA AttemptsBounded ==
  ASSUME WorkerInv, AttemptInv
  PROVE  AttemptsPaidFor
  <1> SUFFICES ASSUME NEW j \in Jobs
               PROVE  rows[j].attempts <= MaxAttempts + lapses[j]
    BY DEF AttemptsPaidFor
  <1>1. /\ rows[j].attempts \in Nat /\ Offers(rows[j]) \in Nat /\ lapses[j] \in Nat
        /\ Cardinality(Young(j)) \in Nat
    BY RowAmounts, YoungFinite DEF WorkerInv, WorkerTypeOK
  <1>2. rows[j].attempts + Offers(rows[j]) + Cardinality(Young(j))
          <= MaxAttempts + lapses[j]
    BY DEF AttemptInv, AttemptBudget
  <1> QED
    BY <1>1, <1>2, MaxAttemptsAssumption

----------------------------------------------------------------------------
(* One step of a queue module, as the table and its workers see it.        *)

\* A fault of somebody else: a request whose transaction was rolled back.
OnlyFault == Fault /\ UNCHANGED <<rows, pc, job, token, seen, again, applied, lapses>>

TableStep ==
  \/ \E j \in Jobs : StoresRow(j) \/ Clock(j)
  \/ \E w \in Workers :
       \/ ReleasesRows(w) \/ ClaimsRow(w) \/ \E place, k : MovesOn(w, place, k)
       \/ Execute(w) \/ Misfortune(w) \/ Restart(w)
  \/ OnlyFault
  \/ UNCHANGED workerVars

TableInv == WorkerInv /\ HistoryInv /\ AttemptInv

\* Every such step keeps the invariants and is a step of every job's life.
LEMMA TableStepWorker ==
  ASSUME WorkerInv, TableStep
  PROVE  WorkerInv'
  <1>1. ASSUME OnlyFault
        PROVE  WorkerInv'
    <2>1. faults' \in 0..MaxFaults
      BY <1>1, FaultType DEF OnlyFault, WorkerInv, WorkerTypeOK
    <2> QED
      BY <1>1, <2>1 DEF OnlyFault, WorkerInv, WorkerTypeOK, JobInHand, LeaseBudget, Holders
  <1> QED
    BY <1>1, StoresRowInv, ClockInv, ReleasesRowsInv, ClaimsRowInv, MovesOnInv,
       ExecuteInv, MisfortuneInv, RestartInv, StutterInv DEF TableStep

LEMMA TableStepLifecycle ==
  ASSUME WorkerInv, HistoryInv, TableStep
  PROVE  HistoryInv' /\ \A j \in Jobs : Lifecycle!Step(j)
  <1>1. ASSUME OnlyFault \/ UNCHANGED workerVars
        PROVE  HistoryInv' /\ \A j \in Jobs : Lifecycle!Step(j)
    <2>1. UNCHANGED <<rows, pc, job, applied, lapses>>
      BY <1>1 DEF OnlyFault, workerVars
    <2> QED
      BY <2>1, JobStays DEF HistoryInv, StoredInHand, LapsesCounted, ResultMatchesState
  <1> QED
    BY <1>1, StoresRowLifecycle, ClockLifecycle, ReleasesRowsLifecycle,
       ClaimsRowLifecycle, MovesOnLifecycle, ExecuteLifecycle, MisfortuneLifecycle
    DEF TableStep

LEMMA TableStepAttempts ==
  ASSUME WorkerInv, WorkerInv', AttemptInv, TableStep
  PROVE  AttemptInv'
  <1>1. ASSUME OnlyFault
        PROVE  AttemptInv'
    BY <1>1 DEF OnlyFault, AttemptInv, RowTokens, CopyTokens, AttemptBudget, Young, Holders
  <1> QED
    BY <1>1, StoresRowAttempts, ClockAttempts, ReleasesRowsAttempts, ClaimsRowAttempts,
       MovesOnAttempts, ExecuteAttempts, StutterAttempts DEF TableStep

LEMMA TableStepInv ==
  ASSUME TableInv, TableStep
  PROVE  TableInv' /\ \A j \in Jobs : Lifecycle!Step(j)
  BY TableStepWorker, TableStepLifecycle, TableStepAttempts DEF TableInv

LEMMA TableInit ==
  ASSUME WorkerInit
  PROVE  TableInv /\ Lifecycle!Init
  BY InitInv, InitLifecycle, InitAttempts DEF TableInv

\* Attempts only grow, and grow by a claim alone.
LEMMA AttemptsGrow ==
  ASSUME WorkerInv, TableStep, NEW k \in Jobs
  PROVE  /\ rows'[k].attempts >= rows[k].attempts
         /\ \A w \in Workers : ClaimsRow(w) /\ job[w] = k =>
              rows'[k].attempts = rows[k].attempts + 1
  <1> WorkerTypeOK /\ rows[k] \in Row /\ rows[k].attempts \in Nat
    BY RowAmounts DEF WorkerInv, WorkerTypeOK
  <1>1. ASSUME NEW w \in Workers, ClaimsRow(w)
        PROVE  /\ job[w] = k => rows'[k].attempts = rows[k].attempts + 1
               /\ job[w] # k => rows'[k] = rows[k]
    BY <1>1 DEF ClaimsRow, Claimed, WorkerTypeOK, Row
  <1>2. ASSUME NEW j \in Jobs, StoresRow(j) \/ Clock(j)
        PROVE  rows'[k].attempts = rows[k].attempts
    <2>1. CASE StoresRow(j)
      BY <2>1 DEF StoresRow, Inserted, WorkerTypeOK, Row
    <2>2. CASE Clock(j)
      <3>1. \/ rows' = [rows EXCEPT ![j].lapsed = TRUE]
            \/ rows' = [rows EXCEPT ![j].due = TRUE]
        BY <2>2 DEF Clock, LeaseRunsOut, ComesDue
      <3>2. CASE j = k
        BY <3>1, <3>2 DEF WorkerTypeOK, Row
      <3>3. CASE j # k
        BY <3>1, <3>3 DEF WorkerTypeOK
      <3> QED
        BY <3>2, <3>3
    <2> QED
      BY <1>2, <2>1, <2>2
  <1>3. ASSUME NEW w \in Workers, ReleasesRows(w) \/ Execute(w) \/ Misfortune(w) \/ Restart(w)
        PROVE  rows'[k].attempts = rows[k].attempts
    <2>1. CASE ReleasesRows(w)
      BY <2>1 DEF ReleasesRows, Released, WorkerTypeOK, Row
    <2>2. CASE CommitWork(w)
      BY <2>2 DEF CommitWork, Succeeded, WorkerTypeOK, Row
    <2>3. CASE RecordFailure(w)
      BY <2>3 DEF RecordFailure, Failed, WorkerTypeOK, Row
    <2> QED
      BY <1>3, <2>1, <2>2, <2>3
      DEF Execute, LoadJob, ConflictOnSuccess, HandlerRaises, ReadForFailure, Misfortune,
          LoseFailureRecord, Crash, Restart
  <1>4. ASSUME NEW w \in Workers, NEW place, NEW j, MovesOn(w, place, j)
        PROVE  rows'[k].attempts = rows[k].attempts
    BY <1>4 DEF MovesOn
  <1>5. OnlyFault \/ UNCHANGED workerVars => rows'[k].attempts = rows[k].attempts
    BY DEF OnlyFault, workerVars
  <1> QED
    BY <1>1, <1>2, <1>3, <1>4, <1>5 DEF TableStep

=============================================================================
