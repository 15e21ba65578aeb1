------------------------ MODULE DocumentIntakeProofs ------------------------
(***************************************************************************)
(* DatabaseQueue for any number of workers, jobs, attempts and faults: the *)
(* lease budget holds, and the table with its workers implements the       *)
(* documented life of a job.  DocumentIntake for any files, sheets and     *)
(* catalogs: it implements that queue with its handler opened up, a file   *)
(* is processed once, object, job and document agree, and the findings are *)
(* those of the sheet and of the terms in force.                           *)
(***************************************************************************)
EXTENDS DocumentIntake, JobWorkerProofs

-----------------------------------------------------------------------------
(* The queue with its handlers left opaque.                                *)

\* The queue's own statements, as what they do to table and workers.
LEMMA QueueSteps ==
  ASSUME WorkerTypeOK, NEW w \in Workers
  PROVE  /\ ReleaseExpired(w) => ReleasesRows(w)
         /\ Claim(w) => ClaimsRow(w)
         /\ NextClaimable(w) \/ LoseClaim(w) \/ Release(w)
              => \E place, j : MovesOn(w, place, j)
  <1>1. ReleaseExpired(w) => ReleasesRows(w)
    BY DEF ReleaseExpired, ReleasesRows
  <1>2. Claim(w) => ClaimsRow(w)
    BY DEF Claim, ClaimsRow
  <1>3. ASSUME NextClaimable(w)
        PROVE  \E place, j : MovesOn(w, place, j)
    <2>1. CASE Goto(w, "idle") /\ job' = job
      <3>1. MovesOn(w, "idle", job[w])
        BY <1>3, <2>1
        DEF NextClaimable, MovesOn, Goto, WorkerTypeOK, Places, Executing
      <3> QED
        BY <3>1
    <2>2. ASSUME NEW j \in Serves[w], Due(rows[j]),
                 Goto(w, "claiming"), job' = [job EXCEPT ![w] = j]
          PROVE  MovesOn(w, "claiming", j)
      BY <1>3, <2>2, ServesAssumption
      DEF NextClaimable, Due, MovesOn, Goto, WorkerTypeOK, Places, Executing
    <2> QED
      BY <1>3, <2>1, <2>2 DEF NextClaimable
  <1>4. LoseClaim(w) => MovesOn(w, "selecting", None)
    BY DEF LoseClaim, MovesOn, Goto, WorkerTypeOK, Places, Executing
  <1>5. Release(w) => MovesOn(w, "idle", None)
    BY DEF Release, MovesOn, Goto, Forget, WorkerTypeOK, Places, Executing
  <1> QED
    BY <1>1, <1>2, <1>3, <1>4, <1>5

\* Every step of the queue is a step of the table and its workers.
LEMMA NextIsTableStep ==
  ASSUME WorkerTypeOK, [Next]_workerVars
  PROVE  TableStep
  <1>1. ASSUME NEW j \in Jobs, Enqueue(j)
        PROVE  StoresRow(j)
    BY <1>1 DEF Enqueue, StoresRow
  <1> QED
    BY <1>1, QueueSteps DEF Next, RunOnce, Lease, TableStep

\* Every step keeps the lease budget, what the rows tell of commits, and the
\* attempts within what was paid for; each is a step of every job's life.
LEMMA NextInv ==
  WorkerInv /\ [Next]_workerVars => WorkerInv'
  BY NextIsTableStep, TableStepWorker DEF WorkerInv

LEMMA NextLifecycle ==
  WorkerInv /\ HistoryInv /\ [Next]_workerVars
    => HistoryInv' /\ [Lifecycle!Next]_(Lifecycle!lifecycleVars)
  <1> SUFFICES ASSUME WorkerInv, HistoryInv, [Next]_workerVars
               PROVE  HistoryInv' /\ \A j \in Jobs : Lifecycle!Step(j)
    BY DEF Lifecycle!Next
  <1> QED
    BY NextIsTableStep, TableStepLifecycle DEF WorkerInv

LEMMA NextAttempts ==
  WorkerInv /\ WorkerInv' /\ AttemptInv /\ [Next]_workerVars => AttemptInv'
  BY NextIsTableStep, TableStepAttempts DEF WorkerInv

\* The inductive invariant holds throughout.
THEOREM Invariant == Spec => []WorkerInv
  <1>1. WorkerInit => WorkerInv
    BY InitInv
  <1> QED
    BY <1>1, NextInv, PTL DEF Spec

\* The state of table and workers is always well formed.
THEOREM TypeCorrect == Spec => []WorkerTypeOK
  <1>1. WorkerInv => WorkerTypeOK
    BY DEF WorkerInv
  <1> QED
    BY <1>1, Invariant, PTL

\* A job's commits, executions, offers and final failure never exceed one plus
\* the leases of it that ran out.
THEOREM Budget == Spec => []LeaseBudget
  <1>1. WorkerInv => LeaseBudget
    BY DEF WorkerInv
  <1> QED
    BY <1>1, Invariant, PTL

\* No job is attempted more often than max_attempts and once for each lease of
\* it that ran out, although `claim` does not count and `fail` judges a copy.
THEOREM AttemptsBound == Spec => []AttemptsPaidFor
  <1>1. WorkerInit => AttemptInv
    BY InitAttempts
  <1>2. WorkerInv /\ AttemptInv => AttemptsPaidFor
    BY AttemptsBounded
  <1> QED
    BY <1>1, <1>2, NextAttempts, Invariant, PTL DEF Spec

\* A row says "succeeded" only after a commit, and no later step hides a
\* committed result while no lease of the job ran out.
THEOREM ResultsMatch == Spec => []ResultMatchesState
  <1>1. WorkerInit => HistoryInv
    BY InitLifecycle
  <1>2. WorkerInv /\ HistoryInv /\ [Next]_workerVars => HistoryInv'
    BY NextLifecycle
  <1>3. HistoryInv => ResultMatchesState
    BY DEF HistoryInv
  <1> QED
    BY <1>1, <1>2, <1>3, Invariant, PTL DEF Spec

\* The table and its workers implement the documented life of a job.
THEOREM Refinement == Spec => ImplementsLifecycle
  <1>1. WorkerInit => HistoryInv /\ Lifecycle!Init
    BY InitLifecycle
  <1>2. WorkerInv /\ HistoryInv /\ [Next]_workerVars
          => HistoryInv' /\ [Lifecycle!Next]_(Lifecycle!lifecycleVars)
    BY NextLifecycle
  <1> QED
    BY <1>1, <1>2, Invariant, PTL DEF Spec, ImplementsLifecycle, Lifecycle!Spec

-----------------------------------------------------------------------------
(* The intake's handler opened up.                                         *)

Object == [step : Steps, sheet : Sheets \cup {NoSheet}]

\* Whatever was saved is a sheet.
ObjectsInv ==
  /\ objects \in [Uploads -> Object]
  /\ \A u \in Uploads : objects[u].step # "none" => objects[u].sheet \in Sheets

----------------------------------------------------------------------------
(* The handler is one commit.                                              *)

\* Only an upload changes what is stored.
LEMMA UploadObjects ==
  ASSUME ObjectsInv, NEW u \in Uploads, Upload(u)
  PROVE  ObjectsInv'
  <1>1. CASE \E sheet \in Sheets : SaveBytes(u, sheet)
    <2>1. PICK sheet \in Sheets, step \in {"bytes", "stored"} :
            objects' = [objects EXCEPT ![u] = [step |-> step, sheet |-> sheet]]
      BY <1>1 DEF SaveBytes
    <2> QED
      BY <2>1 DEF ObjectsInv, Object, Steps
  <1>2. CASE WriteSidecar(u) \/ Submit(u)
    <2>1. PICK step \in {"stored", "answered"} :
            /\ objects[u].step # "none"
            /\ objects' = [objects EXCEPT ![u].step = step]
      BY <1>2 DEF WriteSidecar, Submit
    <2> QED
      BY <2>1 DEF ObjectsInv, Object, Steps
  <1> QED
    BY <1>1, <1>2 DEF Upload

LEMMA HandleObjects ==
  ASSUME NEW w \in Workers, Handle(w)
  PROVE  UNCHANGED <<objects, request>>
  BY DEF Handle, Begin, ReadBytes, StoreFails, InsertDocument,
     InsertRefused, ParseRefused, ParseRaises, Parse, ReadProducts,
     CompareWithCatalog, CallFails, Finish, FinishTooLate, Raise, requestVars

LEMMA NextObjects ==
  ASSUME ObjectsInv, [IntakeNext]_vars
  PROVE  ObjectsInv'
  <1>1. CASE UNCHANGED objects
    BY <1>1 DEF ObjectsInv
  <1>2. CASE \E u \in Uploads : Upload(u)
    BY <1>2, UploadObjects
  <1>3. CASE \E w \in Workers : Handle(w) \/ Die(w)
    BY <1>1, <1>3, HandleObjects DEF Die, requestVars
  <1> QED
    BY <1>1, <1>2, <1>3
    DEF IntakeNext, Elsewhere, EditCatalog, vars, intakeVars, requestVars

LEMMA UploadQueues ==
  ASSUME ObjectsInv, NEW u \in Uploads, Upload(u)
  PROVE  (\E j \in Jobs : Enqueue(j)) \/ UNCHANGED workerVars
  <1>1. CASE Submit(u)
    <2>1. JobOf[objects[u].sheet] \in Jobs
      BY <1>1, JobOfAssumption DEF Submit, ObjectsInv
    <2> QED
      BY <1>1, <2>1 DEF Submit
  <1> QED
    BY <1>1 DEF Upload, SaveBytes, WriteSidecar

LEMMA HandleExecutes ==
  ASSUME NEW w \in Workers, Handle(w)
  PROVE  Execute(w) \/ UNCHANGED workerVars
  BY DEF Handle, Begin, ReadBytes, StoreFails, InsertDocument,
     InsertRefused, ParseRefused, ParseRaises, Parse, ReadProducts,
     CompareWithCatalog, CallFails, Finish, FinishTooLate, Raise, Execute

\* Every step of the intake is a step of the queue or leaves it alone.
LEMMA IntakeStep ==
  ASSUME ObjectsInv, [IntakeNext]_vars
  PROVE  [Next]_workerVars
  <1>1. CASE UNCHANGED vars
    BY <1>1 DEF vars
  <1>2. CASE \E u \in Uploads : Upload(u)
    BY <1>2, UploadQueues DEF Next
  <1>3. CASE \E w \in Workers : Handle(w)
    BY <1>3, HandleExecutes DEF Next, RunOnce
  <1>4. CASE \E w \in Workers : Die(w)
    BY <1>4 DEF Die, Misfortune, Next
  <1>5. CASE Elsewhere
    BY <1>5 DEF Elsewhere, Next, RunOnce, Execute, Misfortune
  <1>6. CASE EditCatalog
    BY <1>6 DEF EditCatalog
  <1> QED
    BY <1>1, <1>2, <1>3, <1>4, <1>5, <1>6 DEF IntakeNext

LEMMA ObjectsHold == IntakeSpec => []ObjectsInv
  <1>1. IntakeInit => ObjectsInv
    BY DEF IntakeInit, ObjectsInv, Object, Steps
  <1> QED
    BY <1>1, NextObjects, PTL DEF IntakeSpec

\* The intake implements the queue (jobs/handlers.py, jobs/worker.py): for its
\* jobs too the lease budget and the documented life of a job hold.
THEOREM IntakeImplementsQueue == IntakeSpec => ImplementsQueue
  <1>1. IntakeInit => WorkerInit
    BY DEF IntakeInit
  <1>2. ObjectsInv /\ [IntakeNext]_vars => [Next]_workerVars
    BY IntakeStep
  <1> QED
    BY <1>1, <1>2, ObjectsHold, PTL DEF IntakeSpec, ImplementsQueue, Spec

----------------------------------------------------------------------------
(* A file is processed once.                                               *)

\* A handler is under way exactly while its worker works.
StagesInv ==
  /\ stage \in [Workers -> Stages]
  /\ \A w \in Workers : stage[w] # "out" => pc[w] = "working"

\* A stored job names the upload that created it, and that upload is over.
RequestsInv ==
  /\ request \in [Jobs -> Uploads \cup {None}]
  /\ \A j \in Jobs :
       IF rows[j].state = "absent"
       THEN request[j] = None
       ELSE /\ request[j] \in Uploads
            /\ objects[request[j]].step = "answered"
            /\ JobOf[objects[request[j]].sheet] = j

\* One document of a key, of an upload that is over; it is what the commit of
\* the job's work left.
DocumentsInv ==
  /\ \A d \in documents : d.key \in Uploads /\ objects[d.key].step = "answered"
  /\ \A d, e \in documents : d.key = e.key => d = e
  /\ \A j \in Jobs :
       applied[j] = (IF \E d \in documents : d.key = request[j] THEN 1 ELSE 0)

\* An insert not committed yet is the only one of its key.
InsertsInv ==
  \A w \in Workers : Inserting(w) =>
    /\ \A d \in documents : d.key # Key(w)
    /\ \A v \in Workers \ {w} : Inserting(v) => Key(v) # Key(w)

OnceInv == StagesInv /\ RequestsInv /\ DocumentsInv /\ InsertsInv

\* What the queue's own invariants say of a worker that is working.
LEMMA WorkingHolds ==
  ASSUME WorkerInv, HistoryInv, OnceInv, NEW w \in Workers, pc[w] = "working"
  PROVE  /\ job[w] \in Jobs
         /\ rows[job[w]].state # "absent"
         /\ Key(w) \in Uploads
  <1>1. job[w] \in Jobs /\ rows[job[w]].state # "absent"
    BY DEF WorkerInv, JobInHand, HistoryInv, StoredInHand, Executing
  <1> QED
    BY <1>1 DEF OnceInv, RequestsInv, Key

\* Distinct stored jobs have distinct keys.
LEMMA KeysDistinct ==
  ASSUME OnceInv, NEW i \in Jobs, NEW j \in Jobs, request[i] = request[j],
         request[i] # None
  PROVE  i = j
  BY DEF OnceInv, RequestsInv

\* A step that leaves uploads, documents and commits alone, and after which no
\* handler has inserted that had not before, keeps the invariant.
LEMMA QuietStep ==
  ASSUME OnceInv, UNCHANGED <<objects, request, documents, applied>>,
         \A j \in Jobs : rows'[j].state = "absent" <=> rows[j].state = "absent",
         stage' \in [Workers -> Stages],
         \A w \in Workers : stage'[w] # "out" => pc'[w] = "working",
         \A w \in Workers : Inserting(w)' => Inserting(w) /\ job'[w] = job[w]
  PROVE  OnceInv'
  <1>1. StagesInv'
    BY DEF StagesInv
  <1>2. RequestsInv'
    BY DEF OnceInv, RequestsInv
  <1>3. DocumentsInv'
    BY DEF OnceInv, DocumentsInv
  <1>4. \A w \in Workers : Inserting(w)' => Key(w)' = Key(w)
    BY DEF Key
  <1>5. InsertsInv'
    BY <1>4 DEF OnceInv, InsertsInv
  <1> QED
    BY <1>1, <1>2, <1>3, <1>5 DEF OnceInv

LEMMA UploadOnce ==
  ASSUME WorkerInv, HistoryInv, ObjectsInv, OnceInv, NEW u \in Uploads, Upload(u)
  PROVE  OnceInv'
  <1>1. UNCHANGED <<pc, job, applied, documents, stage>>
    BY DEF Upload, SaveBytes, WriteSidecar, Submit, Enqueue, workerVars,
       sessionVars, handlerVars
  <1>2. StagesInv'
    BY <1>1 DEF OnceInv, StagesInv
  <1>3. objects[u].step # "answered"
    BY DEF Upload, SaveBytes, WriteSidecar, Submit
  <1>4. \A v \in Uploads \ {u} : objects'[v] = objects[v]
    BY DEF Upload, SaveBytes, WriteSidecar, Submit, ObjectsInv
  <1>5. CASE UNCHANGED <<rows, request>>
    <2>1. RequestsInv'
      BY <1>3, <1>4, <1>5 DEF OnceInv, RequestsInv
    <2>2. DocumentsInv'
      BY <1>1, <1>3, <1>4, <1>5 DEF OnceInv, DocumentsInv
    <2>3. InsertsInv'
      BY <1>1, <1>5 DEF OnceInv, InsertsInv, Inserting, Key
    <2> QED
      BY <1>2, <2>1, <2>2, <2>3 DEF OnceInv
  <1>6. CASE /\ Submit(u)
             /\ Enqueue(JobOf[objects[u].sheet])
             /\ request' = [request EXCEPT ![JobOf[objects[u].sheet]] = u]
    <2> DEFINE k == JobOf[objects[u].sheet]
    <2>1. /\ k \in Jobs
          /\ rows[k].state = "absent" /\ rows'[k].state # "absent"
          /\ \A j \in Jobs \ {k} : rows'[j] = rows[j]
      BY <1>6, JobOfAssumption
      DEF Submit, ObjectsInv, Enqueue, Inserted, WorkerInv, WorkerTypeOK, Row
    <2>2. /\ request[k] = None /\ request'[k] = u
          /\ \A j \in Jobs \ {k} : request'[j] = request[j]
          /\ request' \in [Jobs -> Uploads \cup {None}]
      BY <1>6, <2>1 DEF OnceInv, RequestsInv
    <2>3. objects'[u].step = "answered" /\ objects'[u].sheet = objects[u].sheet
      BY <1>6 DEF Submit, ObjectsInv, Object, Steps
    <2>4. RequestsInv'
      <3>1. \A j \in Jobs \ {k} : rows[j].state # "absent" => request[j] # u
        BY <1>3 DEF OnceInv, RequestsInv
      <3> QED
        BY <1>4, <2>1, <2>2, <2>3, <3>1 DEF OnceInv, RequestsInv
    <2>5. DocumentsInv'
      <3>1. \A d \in documents : d.key # u /\ d.key # None
        BY <1>3, UploadsAssumption DEF OnceInv, DocumentsInv
      <3> QED
        BY <1>1, <1>4, <2>1, <2>2, <3>1 DEF OnceInv, DocumentsInv
    <2>6. \A w \in Workers : Inserting(w) => job[w] \in Jobs \ {k}
      BY <2>1, WorkingHolds DEF OnceInv, StagesInv, Inserting
    <2>7. \A w \in Workers : Inserting(w)' <=> Inserting(w)
      BY <1>1 DEF Inserting
    <2>8. \A w \in Workers : Inserting(w) => Key(w)' = Key(w)
      BY <1>1, <2>2, <2>6 DEF Key
    <2>9. InsertsInv'
      BY <1>1, <2>7, <2>8 DEF OnceInv, InsertsInv
    <2> QED
      BY <1>2, <2>4, <2>5, <2>9 DEF OnceInv
  <1> QED
    BY <1>5, <1>6 DEF Upload, SaveBytes, WriteSidecar, Submit, workerVars

\* A handler that raises, or whose process dies, leaves nothing behind.
LEMMA DiscardOnce ==
  ASSUME WorkerInv, OnceInv, NEW w \in Workers, Discard(w),
         UNCHANGED <<objects, request, documents, applied, rows>>,
         \A v \in Workers \ {w} : pc'[v] = pc[v] /\ job'[v] = job[v]
  PROVE  OnceInv'
  <1>1. stage' = [stage EXCEPT ![w] = "out"]
    BY DEF Discard, Stage
  <1>2. /\ stage' \in [Workers -> Stages]
        /\ \A v \in Workers : stage'[v] # "out" => pc'[v] = "working"
        /\ \A v \in Workers : Inserting(v)' => Inserting(v) /\ job'[v] = job[v]
    BY <1>1 DEF OnceInv, StagesInv, Stages, Inserting
  <1> QED
    BY <1>2, QuietStep

LEMMA RaiseOnce ==
  ASSUME WorkerInv, OnceInv, NEW w \in Workers, NEW retry, Raise(w, retry)
  PROVE  OnceInv'
  BY DiscardOnce DEF Raise, HandlerRaises, Goto, requestVars, WorkerInv, WorkerTypeOK

\* The handler's stages between its insert and its commit.
LEMMA StageOnce ==
  ASSUME WorkerInv, OnceInv, NEW w \in Workers, NEW next \in Stages,
         stage[w] # "out", Stage(w, next),
         next \in {"inserted", "parsed", "priced", "done"} => Inserting(w),
         UNCHANGED <<objects, request, documents, workerVars>>
  PROVE  OnceInv'
  <1>1. stage' = [stage EXCEPT ![w] = next] /\ UNCHANGED <<pc, job, rows, applied>>
    BY DEF Stage, workerVars, sessionVars
  <1>2. /\ stage' \in [Workers -> Stages]
        /\ \A v \in Workers : stage'[v] # "out" => pc'[v] = "working"
        /\ \A v \in Workers : Inserting(v)' => Inserting(v) /\ job'[v] = job[v]
    BY <1>1 DEF OnceInv, StagesInv, Inserting
  <1> QED
    BY <1>1, <1>2, QuietStep

LEMMA BeginOnce ==
  ASSUME WorkerInv, OnceInv, NEW w \in Workers, Begin(w)
  PROVE  OnceInv'
  <1>1. /\ pc' = [pc EXCEPT ![w] = "working"]
        /\ stage' = [stage EXCEPT ![w] = "loaded"]
        /\ UNCHANGED <<job, rows, applied, objects, request, documents>>
    BY DEF Begin, LoadJob, Goto, Stage, requestVars
  <1>2. /\ stage' \in [Workers -> Stages]
        /\ \A v \in Workers : stage'[v] # "out" => pc'[v] = "working"
        /\ \A v \in Workers : Inserting(v)' => Inserting(v) /\ job'[v] = job[v]
    BY <1>1 DEF OnceInv, StagesInv, Stages, Inserting, WorkerInv, WorkerTypeOK
  <1> QED
    BY <1>1, <1>2, QuietStep

\* The insert waits for another of its key and is refused by a committed one.
LEMMA InsertOnce ==
  ASSUME WorkerInv, HistoryInv, OnceInv, NEW w \in Workers, InsertDocument(w)
  PROVE  OnceInv'
  <1>1. /\ stage[w] = "read" /\ stage' = [stage EXCEPT ![w] = "inserted"]
        /\ UNCHANGED <<pc, job, rows, applied, objects, request, documents>>
    BY DEF InsertDocument, Stage, workerVars, sessionVars, requestVars
  <1>2. StagesInv' /\ RequestsInv' /\ DocumentsInv'
    BY <1>1 DEF OnceInv, StagesInv, RequestsInv, DocumentsInv, Stages
  <1>3. \A v \in Workers : /\ Key(v)' = Key(v)
                           /\ Inserting(v)' => v = w \/ Inserting(v)
    BY <1>1 DEF Key, Inserting, OnceInv, StagesInv
  <1>4. /\ \A d \in documents : d.key # Key(w)
        /\ \A v \in Workers : Inserting(v) => Key(v) # Key(w)
    BY DEF InsertDocument
  <1>5. InsertsInv'
    BY <1>1, <1>3, <1>4 DEF OnceInv, InsertsInv
  <1> QED
    BY <1>2, <1>5 DEF OnceInv

\* The commit adds the one document its insert had reserved.
LEMMA FinishOnce ==
  ASSUME WorkerInv, HistoryInv, OnceInv, NEW w \in Workers, Finish(w)
  PROVE  OnceInv'
  <1> DEFINE k == job[w]
             new == Recorded(w)
  <1>1. /\ stage[w] = "done" /\ pc[w] = "working" /\ Inserting(w)
        /\ k \in Jobs /\ rows[k].state # "absent" /\ request[k] \in Uploads
        /\ Key(w) = request[k]
    BY WorkingHolds DEF Finish, OnceInv, StagesInv, Inserting, Key
  <1>2. /\ pc' = [pc EXCEPT ![w] = "settling"]
        /\ stage' = [stage EXCEPT ![w] = "out"]
        /\ rows' = [rows EXCEPT ![k] = Succeeded(@)]
        /\ applied' = [applied EXCEPT ![k] = @ + 1]
        /\ documents' = documents \cup {new}
        /\ UNCHANGED <<job, objects, request>>
    BY DEF Finish, CommitWork, Goto, Discard, Stage, requestVars
  <1>3. new.key = request[k]
    BY <1>1 DEF Recorded
  <1>4. StagesInv'
    BY <1>2 DEF OnceInv, StagesInv, Stages
  <1>5. RequestsInv'
    <2>1. \A j \in Jobs : rows'[j].state = "absent" <=> rows[j].state = "absent"
      BY <1>1, <1>2 DEF Succeeded, WorkerInv, WorkerTypeOK, Row
    <2> QED
      BY <1>2, <2>1 DEF OnceInv, RequestsInv
  <1>6. \A d \in documents : d.key # request[k]
    BY <1>1 DEF OnceInv, InsertsInv
  <1>7. DocumentsInv'
    <2>1. objects[request[k]].step = "answered"
      BY <1>1 DEF OnceInv, RequestsInv
    <2>2. \A d \in documents' : d.key \in Uploads /\ objects'[d.key].step = "answered"
      BY <1>1, <1>2, <1>3, <2>1 DEF OnceInv, DocumentsInv
    <2>3. \A d, e \in documents' : d.key = e.key => d = e
      BY <1>2, <1>3, <1>6 DEF OnceInv, DocumentsInv
    <2>4. ASSUME NEW j \in Jobs
          PROVE  applied'[j] =
                   (IF \E d \in documents' : d.key = request'[j] THEN 1 ELSE 0)
      <3>1. CASE j = k
        BY <1>1, <1>2, <1>3, <1>6, <3>1
        DEF OnceInv, DocumentsInv, WorkerInv, WorkerTypeOK
      <3>2. CASE j # k
        <4>1. request[j] # request[k]
          BY <1>1, <3>2, KeysDistinct, UploadsAssumption
        <4> QED
          BY <1>1, <1>2, <1>3, <3>2, <4>1
          DEF OnceInv, DocumentsInv, WorkerInv, WorkerTypeOK
      <3> QED
        BY <3>1, <3>2
    <2> QED
      BY <2>2, <2>3, <2>4 DEF DocumentsInv
  <1>8. InsertsInv'
    <2>1. \A v \in Workers : /\ Key(v)' = Key(v)
                             /\ Inserting(v)' => v # w /\ Inserting(v)
      BY <1>2 DEF Key, Inserting, OnceInv, StagesInv
    <2>2. \A v \in Workers \ {w} : Inserting(v) => Key(v) # request[k]
      BY <1>1 DEF OnceInv, InsertsInv
    <2> QED
      BY <1>2, <1>3, <2>1, <2>2 DEF OnceInv, InsertsInv
  <1> QED
    BY <1>4, <1>5, <1>7, <1>8 DEF OnceInv

LEMMA HandleOnce ==
  ASSUME WorkerInv, HistoryInv, OnceInv, NEW w \in Workers, Handle(w)
  PROVE  OnceInv'
  <1>1. CASE \E retry : Raise(w, retry)
    BY <1>1, RaiseOnce
  <1>2. CASE ReadBytes(w)
    BY <1>2, StageOnce DEF ReadBytes, Stages, requestVars
  <1>3. CASE ParseRefused(w) \/ Parse(w) \/ ReadProducts(w)
    BY <1>3, StageOnce
    DEF ParseRefused, Parse, ReadProducts, Stages, Inserting, requestVars
  <1>4. CASE CompareWithCatalog(w) /\ ~Raise(w, TRUE)
    BY <1>4, StageOnce DEF CompareWithCatalog, Stages, Inserting, requestVars
  <1>5. CASE FinishTooLate(w)
    BY <1>5, DiscardOnce
    DEF FinishTooLate, ConflictOnSuccess, Goto, Forget, requestVars, WorkerInv, WorkerTypeOK
  <1> QED
    BY <1>1, <1>2, <1>3, <1>4, <1>5, BeginOnce, InsertOnce, FinishOnce
    DEF Handle, StoreFails, InsertRefused, ParseRaises, CallFails

LEMMA DieOnce ==
  ASSUME WorkerInv, OnceInv, NEW w \in Workers, Die(w)
  PROVE  OnceInv'
  BY DiscardOnce
  DEF Die, Crash, Goto, Forget, requestVars, WorkerInv, WorkerTypeOK

\* Between its handlers a worker stores nothing, and no row is deleted.
LEMMA ElsewhereOnce ==
  ASSUME WorkerInv, HistoryInv, OnceInv, Elsewhere
  PROVE  OnceInv'
  <1>1. UNCHANGED <<objects, request, documents, stage>>
    BY DEF Elsewhere, intakeVars, requestVars, handlerVars
  <1> SUFFICES /\ applied' = applied
               /\ \A j \in Jobs : rows'[j].state = "absent" <=> rows[j].state = "absent"
               /\ \A v \in Workers : pc[v] = "working" =>
                    pc'[v] = "working" /\ job'[v] = job[v]
    BY <1>1, QuietStep DEF OnceInv, StagesInv, Inserting
  <1>2. CASE \E j \in Jobs : Clock(j)
    BY <1>2 DEF Clock, LeaseRunsOut, ComesDue, WorkerInv, WorkerTypeOK, Row
  <1>3. ASSUME NEW w \in Workers, ReleaseExpired(w)
        PROVE  /\ applied' = applied
               /\ \A j \in Jobs : rows'[j].state = "absent" <=> rows[j].state = "absent"
               /\ \A v \in Workers : pc[v] = "working" =>
                    pc'[v] = "working" /\ job'[v] = job[v]
    BY <1>3 DEF ReleaseExpired, Goto, Released, Lapsed, WorkerInv, WorkerTypeOK, Row
  <1>4. ASSUME NEW w \in Workers, NextClaimable(w) \/ LoseClaim(w) \/ Release(w)
                 \/ Restart(w) \/ ReadForFailure(w) \/ LoseFailureRecord(w)
        PROVE  /\ UNCHANGED <<applied, rows>>
               /\ \A v \in Workers : pc[v] = "working" =>
                    pc'[v] = "working" /\ job'[v] = job[v]
    BY <1>4 DEF NextClaimable, LoseClaim, Release, Restart, ReadForFailure,
      LoseFailureRecord, Goto, Forget, WorkerInv, WorkerTypeOK
  <1>5. ASSUME NEW w \in Workers, Claim(w) \/ RecordFailure(w)
        PROVE  /\ applied' = applied
               /\ \A j \in Jobs : rows'[j].state = "absent" <=> rows[j].state = "absent"
               /\ \A v \in Workers : pc[v] = "working" =>
                    pc'[v] = "working" /\ job'[v] = job[v]
    <2>1. job[w] \in Jobs /\ rows[job[w]].state # "absent"
      BY <1>5 DEF Claim, RecordFailure, WorkerInv, JobInHand, HistoryInv,
        StoredInHand, Executing
    <2>2. CASE Claim(w)
      BY <2>1, <2>2 DEF Claim, Claimed, Goto, WorkerInv, WorkerTypeOK, Row
    <2>3. CASE RecordFailure(w)
      BY <2>1, <2>3 DEF RecordFailure, Failed, Goto, WorkerInv, WorkerTypeOK, Row
    <2> QED
      BY <1>5, <2>2, <2>3
  <1> QED
    BY <1>2, <1>3, <1>4, <1>5 DEF Elsewhere, Lease

LEMMA NextOnce ==
  ASSUME WorkerInv, HistoryInv, ObjectsInv, OnceInv, [IntakeNext]_vars
  PROVE  OnceInv'
  <1>1. CASE UNCHANGED vars \/ EditCatalog
    BY <1>1 DEF vars, EditCatalog, workerVars, sessionVars, intakeVars, requestVars,
      handlerVars, OnceInv, StagesInv, RequestsInv, DocumentsInv, InsertsInv,
      Inserting, Key
  <1> QED
    BY <1>1, UploadOnce, HandleOnce, DieOnce, ElsewhereOnce DEF IntakeNext

\* Nobody has stored, read or written anything yet.
LEMMA InitOnce ==
  ASSUME IntakeInit
  PROVE  OnceInv
  BY DEF IntakeInit, WorkerInit, AbsentRow, OnceInv, StagesInv, Stages,
     RequestsInv, DocumentsInv, InsertsInv, Inserting

\* A set whose members are all equal has at most one of them.
LEMMA CountOnce ==
  ASSUME OnceInv, NEW j \in Jobs
  PROVE  /\ applied[j] <= 1
         /\ Cardinality({d \in documents : d.key = request[j]}) = applied[j]
  <1> DEFINE own == {d \in documents : d.key = request[j]}
  <1>1. CASE \E d \in documents : d.key = request[j]
    <2>1. PICK d \in documents : d.key = request[j]
      BY <1>1
    <2>2. own = {d}
      BY <2>1 DEF OnceInv, DocumentsInv
    <2>3. Cardinality({d}) = 1
      BY FS_Singleton
    <2>4. applied[j] = 1
      BY <2>1 DEF OnceInv, DocumentsInv
    <2> QED
      BY <2>2, <2>3, <2>4
  <1>2. CASE ~\E d \in documents : d.key = request[j]
    <2>1. own = {}
      BY <1>2
    <2>2. Cardinality({}) = 0
      BY FS_EmptySet
    <2>3. applied[j] = 0
      BY <1>2 DEF OnceInv, DocumentsInv
    <2> QED
      BY <2>1, <2>2, <2>3
  <1> QED
    BY <1>1, <1>2

\* The queue's invariants hold while documents are taken in.
LEMMA QueueInvariants == IntakeSpec => [](WorkerInv /\ HistoryInv)
  <1>1. WorkerInit => WorkerInv /\ HistoryInv
    BY InitInv, InitLifecycle
  <1>2. WorkerInv /\ HistoryInv /\ [Next]_workerVars => WorkerInv' /\ HistoryInv'
    BY NextInv, NextLifecycle
  <1> QED
    BY <1>1, <1>2, IntakeImplementsQueue, PTL DEF ImplementsQueue, Spec

\* However often a file is sent and however many leases of its job run out, its
\* job commits at most once and there is at most one document of it
\* (documents/process.py, jobs/worker.py).
THEOREM FileProcessedOnce == IntakeSpec => []ProcessedOnce
  <1>1. IntakeInit => OnceInv
    BY InitOnce
  <1>2. WorkerInv /\ HistoryInv /\ ObjectsInv /\ OnceInv /\ [IntakeNext]_vars => OnceInv'
    BY NextOnce
  <1>3. OnceInv => ProcessedOnce
    BY CountOnce DEF ProcessedOnce
  <1> QED
    BY <1>1, <1>2, <1>3, QueueInvariants, ObjectsHold, PTL DEF IntakeSpec

----------------------------------------------------------------------------
(* Object, job and document tell the same.                                 *)

\* What a handler is about to commit, and what was committed, is not half done.
StatusInv ==
  /\ DOMAIN draft = Workers
  /\ \A w \in Workers : stage[w] = "done" => draft[w].status \in FinalStatuses
  /\ \A d \in documents : d.status \in FinalStatuses

\* Only a refused parse and the comparison end a handler's work.
LEMMA HandleStatus ==
  ASSUME OnceInv, StatusInv, NEW w \in Workers, Handle(w)
  PROVE  StatusInv'
  <1>1. stage \in [Workers -> Stages]
    BY DEF OnceInv, StagesInv
  <1>2. CASE ParseRefused(w)
    <2>1. draft'[w].status = "parse_failed" /\ DOMAIN draft' = Workers
      BY <1>2 DEF ParseRefused, StatusInv
    <2>2. \A v \in Workers \ {w} : draft'[v] = draft[v] /\ stage'[v] = stage[v]
      BY <1>1, <1>2 DEF ParseRefused, Stage, StatusInv
    <2> QED
      BY <1>2, <2>1, <2>2 DEF ParseRefused, StatusInv, FinalStatuses
  <1>3. CASE CompareWithCatalog(w) /\ stage'[w] = "done"
    <2>1. /\ documents' = documents
          /\ stage' = [stage EXCEPT ![w] = "done"]
          /\ \E findings : draft' = [draft EXCEPT ![w] =
                             [status |-> "review_ready", findings |-> findings]]
      BY <1>1, <1>3 DEF CompareWithCatalog, Raise, Discard, Stage
    <2>2. draft'[w].status = "review_ready" /\ DOMAIN draft' = Workers
      BY <2>1 DEF StatusInv
    <2>3. \A v \in Workers \ {w} : draft'[v] = draft[v] /\ stage'[v] = stage[v]
      BY <1>1, <2>1 DEF StatusInv
    <2> QED
      BY <2>1, <2>2, <2>3 DEF StatusInv, FinalStatuses
  <1>4. CASE Finish(w)
    <2>1. Recorded(w).status \in FinalStatuses
      BY <1>4 DEF Finish, Recorded, StatusInv
    <2>2. \A v \in Workers : stage'[v] = "done" => stage[v] = "done" /\ v # w
      BY <1>1, <1>4 DEF Finish, Discard, Stage
    <2>3. DOMAIN draft' = Workers /\ \A v \in Workers \ {w} : draft'[v] = draft[v]
      BY <1>4 DEF Finish, Discard, StatusInv
    <2>4. documents' = documents \cup {Recorded(w)}
      BY <1>4 DEF Finish
    <2> QED
      BY <2>1, <2>2, <2>3, <2>4 DEF StatusInv
  <1>5. CASE ~(ParseRefused(w) \/ Finish(w)) /\ stage'[w] # "done"
    <2>1. documents' = documents
      BY <1>5 DEF Handle, Begin, ReadBytes, StoreFails, InsertDocument,
         InsertRefused, ParseRefused, ParseRaises, Parse, ReadProducts,
         CompareWithCatalog, CallFails, FinishTooLate, Raise
    <2>2. \A v \in Workers \ {w} : stage'[v] = stage[v]
      BY <1>1, <1>5 DEF Handle, Begin, ReadBytes, StoreFails, InsertDocument,
         InsertRefused, ParseRefused, ParseRaises, Parse, ReadProducts,
         CompareWithCatalog, CallFails, FinishTooLate, Raise, Discard, Stage
    <2>3. draft' = draft \/ \E kept : draft' = [draft EXCEPT ![w] = kept]
      BY <1>5 DEF Handle, Begin, ReadBytes, StoreFails, InsertDocument,
         InsertRefused, ParseRefused, ParseRaises, Parse, ReadProducts,
         CompareWithCatalog, CallFails, FinishTooLate, Raise, Discard
    <2> QED
      BY <1>5, <2>1, <2>2, <2>3 DEF StatusInv
  <1>6. stage'[w] = "done" => ParseRefused(w) \/ CompareWithCatalog(w)
    BY <1>1 DEF Handle, Begin, ReadBytes, StoreFails, InsertDocument,
       InsertRefused, ParseRefused, ParseRaises, Parse, ReadProducts,
       CompareWithCatalog, CallFails, Finish, FinishTooLate, Raise, Discard, Stage
  <1> QED
    BY <1>2, <1>3, <1>4, <1>5, <1>6

LEMMA NextStatus ==
  ASSUME OnceInv, StatusInv, [IntakeNext]_vars
  PROVE  StatusInv'
  <1>1. CASE UNCHANGED <<documents, stage, draft>>
    BY <1>1 DEF StatusInv
  <1>2. CASE \E w \in Workers : Handle(w)
    BY <1>2, HandleStatus
  <1>3. ASSUME NEW w \in Workers, Die(w) PROVE StatusInv'
    <2>1. \A v \in Workers : stage'[v] = "done" => stage[v] = "done" /\ v # w
      BY <1>3 DEF Die, Discard, Stage, OnceInv, StagesInv
    <2> QED
      BY <1>3, <2>1 DEF Die, Discard, StatusInv
  <1>4. (\E u \in Uploads : Upload(u)) \/ Elsewhere \/ EditCatalog \/ UNCHANGED vars
          => UNCHANGED <<documents, stage, draft>>
    BY DEF Upload, SaveBytes, WriteSidecar, Submit, Elsewhere, EditCatalog, vars,
       intakeVars, handlerVars
  <1> QED
    BY <1>1, <1>2, <1>3, <1>4 DEF IntakeNext

\* A document is of a job that committed, and the queue knows what became of it.
LEMMA TellsTheSame ==
  ASSUME WorkerInv, HistoryInv, OnceInv, StatusInv
  PROVE  JobTellsDocument
  <1>1. ASSUME NEW j \in Jobs, rows[j].state # "absent"
        PROVE  /\ request[j] # None
               /\ objects[request[j]].step \in {"stored", "answered"}
               /\ JobOf[SheetOf(j)] = j
    BY <1>1, UploadsAssumption DEF OnceInv, RequestsInv, SheetOf
  <1>2. ASSUME NEW j \in Jobs
        PROVE  LET own == {d \in documents : d.key = request[j]}
               IN  /\ rows[j].state = "succeeded" => own # {}
                   /\ own # {} /\ lapses[j] = 0 => rows[j].state = "succeeded"
    <2> DEFINE own == {d \in documents : d.key = request[j]}
    <2>1. applied[j] = IF own # {} THEN 1 ELSE 0
      BY DEF OnceInv, DocumentsInv
    <2>2. /\ rows[j].state = "succeeded" => applied[j] > 0
          /\ applied[j] > 0 /\ lapses[j] = 0 => rows[j].state = "succeeded"
      BY DEF HistoryInv, ResultMatchesState
    <2> QED
      BY <2>1, <2>2
  <1> QED
    BY <1>1, <1>2 DEF JobTellsDocument, StatusInv

\* Whenever requests and workers die and however often leases run out, a job
\* names an object stored whole, its document is never seen half done, and the
\* two agree on what became of the file (api/routes/jobs.py,
\* documents/process.py, jobs/worker.py).
THEOREM ObjectJobAndDocumentAgree == IntakeSpec => []JobTellsDocument
  <1>1. IntakeInit => OnceInv /\ StatusInv
    BY InitOnce DEF IntakeInit, StatusInv
  <1>2. WorkerInv /\ HistoryInv /\ ObjectsInv /\ OnceInv /\ StatusInv
          /\ [IntakeNext]_vars => OnceInv' /\ StatusInv'
    BY NextOnce, NextStatus
  <1>3. WorkerInv /\ HistoryInv /\ OnceInv /\ StatusInv => JobTellsDocument
    BY TellsTheSame
  <1> QED
    BY <1>1, <1>2, <1>3, QueueInvariants, ObjectsHold, PTL DEF IntakeSpec

----------------------------------------------------------------------------
(* A reviewed document blames what is wrong.                               *)

Errors(findings) == {f \in findings : f.severity = "error"}

\* The errors of a reviewed sheet are what the rules find on its rows.
Judged(sheet, findings) ==
  /\ sheet \in Sheets /\ ~RulesRaise(sheet.rows)
  /\ Errors(findings) = SheetFindings(sheet.rows)

\* The rules that may blame a cell, one by one.
Blamed(listed, row, c) ==
  {f \in SheetFindings(listed) : f.row = row.number /\ f.field = c}

RowFindings(row) ==
  Issues(row) \cup RequiredMissing(row) \cup EanFormat(row)
    \cup CostNegative(row) \cup VatAllowed(row) \cup Amounts(row)

LEMMA BlameIs ==
  ASSUME NEW code, NEW c, NEW row
  PROVE  LET f == Blame(code, c, row) IN
         /\ f.code = code /\ f.severity = "error" /\ f.field = c /\ f.row = row.number
         /\ f.proposed = 0
  BY DEF Blame, Finding

\* A text is there or not, and one that is there stands for itself.
LEMMA TextCellsAre ==
  ASSUME NEW cell \in TextCell
  PROVE  /\ cell.kind \in {"blank", "text"} /\ cell.value \in Int
         /\ cell.kind = "text" => cell.value # 0
         /\ \A other \in TextCell :
              cell.kind = "text" /\ other.kind = "text" =>
                (other = cell <=> other.value = cell.value)
  <1>1. ASSUME NEW x \in TextCell
        PROVE  \/ x = Blank /\ x.kind = "blank" /\ x.value = 0
               \/ /\ x = [kind |-> "text", value |-> x.value]
                  /\ x.kind = "text" /\ x.value \in Nat \ {0}
    BY DEF TextCell, Blank, Cell
  <1> QED BY <1>1

LEMMA CellsAre ==
  ASSUME NEW row \in SheetRow
  PROVE  /\ row.number \in Int
         /\ \A c \in TextColumns : row[c].kind \in {"blank", "text"} /\ row[c].value \in Int
         /\ \A c \in IntegerColumns :
              row[c].kind \in {"blank", "malformed", "number"} /\ row[c].value \in Int
         /\ \A c \in DecimalColumns :
              /\ row[c].kind \in {"blank", "malformed", "number", "nan", "infinite"}
              /\ row[c].value \in Int
  <1>1. \A c \in TextColumns : row[c] \in TextCell
    BY DEF SheetRow, TextColumns
  <1> QED
    BY <1>1, TextCellsAre
    DEF SheetRow, IntegerCell, DecimalCell, IntegerColumns, DecimalColumns

\* What each rule of one row says of a column.
Says(row, c, code) ==
  \/ code = "malformed_value" /\ c \in Invalid(row)
  \/ code = "required_field" /\ c \in RequiredFields \ Invalid(row) /\ ~Given(row, c)
  \/ code = "invalid_ean" /\ c = "ean" /\ Given(row, "ean")
       /\ row["ean"].value \notin WellFormedEans
  \/ code = "cost_negative" /\ c = "cost" /\ Finite(row, "cost") /\ row["cost"].value < 0
  \/ code = "invalid_vat" /\ c = "vat" /\ Given(row, "vat")
       /\ ~(Finite(row, "vat") /\ row["vat"].value \in AllowedVat)
  \/ code = "case_pack_not_positive" /\ c = "case_pack" /\ Given(row, c) /\ row[c].value < 1
  \/ code = "moq_negative" /\ c = "minimum_order_quantity" /\ Given(row, c)
       /\ row[c].value < 0
  \/ code = "lead_time_negative" /\ c = "lead_time_days" /\ Given(row, c)
       /\ row[c].value < 0

LEMMA RowFindingsAre ==
  ASSUME NEW row, NEW f
  PROVE  f \in RowFindings(row) <=>
           \E c, code : Says(row, c, code) /\ f = Blame(code, c, row)
  <1>1. f \in Issues(row) <=>
          \E c \in Invalid(row) : f = Blame("malformed_value", c, row)
    BY DEF Issues
  <1>2. f \in RequiredMissing(row) <=>
          \E c \in RequiredFields \ Invalid(row) :
             ~Given(row, c) /\ f = Blame("required_field", c, row)
    BY DEF RequiredMissing
  <1>3. f \in EanFormat(row) <=>
          /\ Given(row, "ean") /\ row["ean"].value \notin WellFormedEans
          /\ f = Blame("invalid_ean", "ean", row)
    BY DEF EanFormat
  <1>4. f \in CostNegative(row) <=>
          /\ Finite(row, "cost") /\ row["cost"].value < 0
          /\ f = Blame("cost_negative", "cost", row)
    BY DEF CostNegative
  <1>5. f \in VatAllowed(row) <=>
          /\ Given(row, "vat") /\ ~(Finite(row, "vat") /\ row["vat"].value \in AllowedVat)
          /\ f = Blame("invalid_vat", "vat", row)
    BY DEF VatAllowed
  <1>6. f \in Amounts(row) <=>
          \/ /\ Given(row, "case_pack") /\ row["case_pack"].value < 1
             /\ f = Blame("case_pack_not_positive", "case_pack", row)
          \/ /\ Given(row, "minimum_order_quantity") /\ row["minimum_order_quantity"].value < 0
             /\ f = Blame("moq_negative", "minimum_order_quantity", row)
          \/ /\ Given(row, "lead_time_days") /\ row["lead_time_days"].value < 0
             /\ f = Blame("lead_time_negative", "lead_time_days", row)
    BY DEF Amounts, TooLow
  <1>7. f \in RowFindings(row) <=>
          \/ f \in Issues(row) \/ f \in RequiredMissing(row) \/ f \in EanFormat(row)
          \/ f \in CostNegative(row) \/ f \in VatAllowed(row) \/ f \in Amounts(row)
    BY DEF RowFindings
  <1>8. ASSUME f \in RowFindings(row)
        PROVE  \E c, code : Says(row, c, code) /\ f = Blame(code, c, row)
    <2>1. CASE f \in Issues(row)
      <3>1. PICK c \in Invalid(row) : f = Blame("malformed_value", c, row)
        BY <1>1, <2>1
      <3>2. Says(row, c, "malformed_value")
        BY DEF Says
      <3> QED BY <3>1, <3>2
    <2>2. CASE f \in RequiredMissing(row)
      <3>1. PICK c \in RequiredFields \ Invalid(row) :
              ~Given(row, c) /\ f = Blame("required_field", c, row)
        BY <1>2, <2>2
      <3>2. Says(row, c, "required_field")
        BY <3>1 DEF Says
      <3> QED BY <3>1, <3>2
    <2>3. CASE f \in EanFormat(row)
      <3>1. Says(row, "ean", "invalid_ean") /\ f = Blame("invalid_ean", "ean", row)
        BY <1>3, <2>3 DEF Says
      <3> QED BY <3>1
    <2>4. CASE f \in CostNegative(row)
      <3>1. Says(row, "cost", "cost_negative") /\ f = Blame("cost_negative", "cost", row)
        BY <1>4, <2>4 DEF Says
      <3> QED BY <3>1
    <2>5. CASE f \in VatAllowed(row)
      <3>1. Says(row, "vat", "invalid_vat") /\ f = Blame("invalid_vat", "vat", row)
        BY <1>5, <2>5 DEF Says
      <3> QED BY <3>1
    <2>6. CASE f \in Amounts(row)
      <3>1. \/ /\ Says(row, "case_pack", "case_pack_not_positive")
               /\ f = Blame("case_pack_not_positive", "case_pack", row)
            \/ /\ Says(row, "minimum_order_quantity", "moq_negative")
               /\ f = Blame("moq_negative", "minimum_order_quantity", row)
            \/ /\ Says(row, "lead_time_days", "lead_time_negative")
               /\ f = Blame("lead_time_negative", "lead_time_days", row)
        BY <1>6, <2>6 DEF Says
      <3> QED BY <3>1
    <2> QED BY <1>7, <1>8, <2>1, <2>2, <2>3, <2>4, <2>5, <2>6
  <1>9. ASSUME NEW c, NEW code, Says(row, c, code), f = Blame(code, c, row)
        PROVE  f \in RowFindings(row)
    BY <1>1, <1>2, <1>3, <1>4, <1>5, <1>6, <1>7, <1>9 DEF Says
  <1> QED BY <1>8, <1>9

\* A group of rows that share a supplier number or a barcode.
Doubled(listed, row, c) ==
  \E other \in listed \ {row} :
    Given(row, c) /\ Given(other, c) /\ row[c].value = other[c].value

CodeOf(c) == IF c = "ean" THEN "duplicate_ean" ELSE "duplicate_supplier_sku"

LEMMA SheetFindingsAre ==
  ASSUME NEW listed, NEW f
  PROVE  f \in SheetFindings(listed) <=>
           \E row \in listed : \E c, code :
             /\ f = Blame(code, c, row)
             /\ \/ Says(row, c, code)
                \/ c \in {"supplier_sku", "ean"} /\ code = CodeOf(c) /\ Doubled(listed, row, c)
  <1>1. f \in Duplicates(listed, "duplicate_supplier_sku", "supplier_sku") <=>
          \E row \in listed : /\ Doubled(listed, row, "supplier_sku")
                              /\ f = Blame("duplicate_supplier_sku", "supplier_sku", row)
    BY DEF Duplicates, Doubled
  <1>2. f \in Duplicates(listed, "duplicate_ean", "ean") <=>
          \E row \in listed : /\ Doubled(listed, row, "ean")
                              /\ f = Blame("duplicate_ean", "ean", row)
    BY DEF Duplicates, Doubled
  <1>3. f \in SheetFindings(listed) <=>
          \/ \E row \in listed : f \in RowFindings(row)
          \/ f \in Duplicates(listed, "duplicate_supplier_sku", "supplier_sku")
          \/ f \in Duplicates(listed, "duplicate_ean", "ean")
    <2> DEFINE own == UNION {RowFindings(row) : row \in listed}
    <2>1. SheetFindings(listed) =
            own \cup Duplicates(listed, "duplicate_supplier_sku", "supplier_sku")
                \cup Duplicates(listed, "duplicate_ean", "ean")
      BY DEF SheetFindings, RowFindings
    <2>2. f \in own <=> \E row \in listed : f \in RowFindings(row)
      BY Zenon
    <2> HIDE DEF own
    <2> QED BY <2>1, <2>2
  <1>4. CodeOf("ean") = "duplicate_ean" /\ CodeOf("supplier_sku") = "duplicate_supplier_sku"
    BY DEF CodeOf
  <1>5. ASSUME f \in SheetFindings(listed)
        PROVE  \E row \in listed : \E c, code :
                 /\ f = Blame(code, c, row)
                 /\ \/ Says(row, c, code)
                    \/ /\ c \in {"supplier_sku", "ean"} /\ code = CodeOf(c)
                       /\ Doubled(listed, row, c)
    <2>1. CASE \E row \in listed : f \in RowFindings(row)
      BY <2>1, RowFindingsAre
    <2>2. CASE f \in Duplicates(listed, "duplicate_supplier_sku", "supplier_sku")
      <3>1. PICK row \in listed : /\ Doubled(listed, row, "supplier_sku")
                                  /\ f = Blame("duplicate_supplier_sku", "supplier_sku", row)
        BY <1>1, <2>2
      <3> QED BY <1>4, <3>1
    <2>3. CASE f \in Duplicates(listed, "duplicate_ean", "ean")
      <3>1. PICK row \in listed : /\ Doubled(listed, row, "ean")
                                  /\ f = Blame("duplicate_ean", "ean", row)
        BY <1>2, <2>3
      <3> QED BY <1>4, <3>1
    <2> QED BY <1>3, <1>5, <2>1, <2>2, <2>3
  <1>6. ASSUME NEW row \in listed, NEW c, NEW code, f = Blame(code, c, row),
               \/ Says(row, c, code)
               \/ /\ c \in {"supplier_sku", "ean"} /\ code = CodeOf(c)
                  /\ Doubled(listed, row, c)
        PROVE  f \in SheetFindings(listed)
    <2>1. CASE Says(row, c, code)
      BY <1>3, <1>6, <2>1, RowFindingsAre
    <2>2. CASE c = "supplier_sku" /\ code = CodeOf(c) /\ Doubled(listed, row, c)
      BY <1>1, <1>3, <1>4, <1>6, <2>2
    <2>3. CASE c = "ean" /\ code = CodeOf(c) /\ Doubled(listed, row, c)
      BY <1>2, <1>3, <1>4, <1>6, <2>3
    <2> QED BY <1>6, <2>1, <2>2, <2>3
  <1> QED BY <1>5, <1>6

\* What some rule says of a cell is what is wrong with it.
LEMMA SaysWrong ==
  ASSUME NEW sheet \in Sheets, ~RulesRaise(sheet.rows), NEW row \in sheet.rows,
         NEW c \in Columns
  PROVE  /\ Wrong(sheet.rows, row, c) <=>
              \/ \E code : Says(row, c, code)
              \/ c \in {"supplier_sku", "ean"} /\ Doubled(sheet.rows, row, c)
         /\ c \notin TextColumns => \A code, two : Says(row, c, code) /\ Says(row, c, two) => code = two
  <1> DEFINE listed == sheet.rows
  <1>1. /\ listed \subseteq SheetRow
        /\ \A r, s \in listed : r.number = s.number => r = s
    BY SheetsAssumption
  <1>2. row \in SheetRow
    BY <1>1
  <1>3. /\ row["cost"].kind # "nan" /\ row["vat"].kind # "infinite"
    BY DEF RulesRaise
  <1>4. c \in {"supplier_sku", "ean"} => (Doubled(listed, row, c) <=> Shared(listed, row, c))
    <2> SUFFICES ASSUME c \in {"supplier_sku", "ean"}
                 PROVE  Doubled(listed, row, c) <=> Shared(listed, row, c)
      OBVIOUS
    <2>1. ASSUME NEW other \in listed
          PROVE  /\ other.number # row.number <=> other # row
                 /\ Given(row, c) <=> row[c].kind = "text"
                 /\ Given(other, c) <=> other[c].kind = "text"
                 /\ row[c].kind = "text" /\ other[c].kind = "text" =>
                      (other[c] = row[c] <=> other[c].value = row[c].value)
      <3>1. other \in SheetRow
        BY <1>1
      <3>2. row[c] \in TextCell /\ other[c] \in TextCell
        BY <1>2, <3>1 DEF SheetRow
      <3>3. other.number # row.number <=> other # row
        BY <1>1
      <3> QED BY <3>2, <3>3, TextCellsAre DEF Given
    <2> QED BY <2>1 DEF Doubled, Shared
  <1>5. c \notin {"supplier_sku", "ean"} => ~Shared(listed, row, c)
    BY DEF Shared
  <1> HIDE DEF listed
  <1>6. (\E code : Says(row, c, code)) <=>
          row[c].kind = "malformed" \/ Missing(row, c) \/ OutOfRange(row, c)
    <2>1. CASE c \in TextColumns
      <3>1. c \notin Invalid(row) /\ row[c].kind \in {"blank", "text"}
        BY <1>2, <2>1, CellsAre DEF Invalid
      <3>2. CASE c = "ean"
        <4>1. Says(row, c, "invalid_ean") <=> OutOfRange(row, c)
          BY <3>1, <3>2 DEF Says, OutOfRange, Given
        <4>2. ~Missing(row, c) /\ row[c].kind # "malformed"
          BY <3>1, <3>2 DEF Missing, RequiredFields
        <4>3. \A code : Says(row, c, code) => code = "invalid_ean"
          BY <3>1, <3>2 DEF Says, RequiredFields
        <4> QED BY <4>1, <4>2, <4>3
      <3>3. CASE c # "ean"
        <4>1. c \in RequiredFields
          BY <3>3 DEF RequiredFields
        <4>2. Says(row, c, "required_field") <=> Missing(row, c)
          BY <3>1, <3>3, <4>1 DEF Says, Missing, Given
        <4>3. ~OutOfRange(row, c) /\ row[c].kind # "malformed"
          BY <2>1, <3>1, <3>3 DEF OutOfRange, TextColumns
        <4>4. \A code : Says(row, c, code) => code = "required_field"
          BY <2>1, <3>1, <3>3 DEF Says, TextColumns
        <4> QED BY <4>2, <4>3, <4>4
      <3> QED BY <3>2, <3>3
    <2>2. CASE c \notin TextColumns
      <3>1. c \in {"cost", "vat", "case_pack", "minimum_order_quantity", "lead_time_days"}
        BY <2>2 DEF Columns, DecimalColumns, IntegerColumns
      <3>2. c \in RequiredFields /\ c # "ean"
        BY <3>1 DEF RequiredFields
      <3>3. c \in Invalid(row) <=> row[c].kind = "malformed"
        BY <2>2 DEF Invalid
      <3>4. Says(row, c, "malformed_value") <=> row[c].kind = "malformed"
        BY <3>3 DEF Says
      <3>5. Says(row, c, "required_field") <=> Missing(row, c)
        BY <3>2, <3>3 DEF Says, Missing, Given
      <3>6. /\ row[c].value \in Int
            /\ row[c].kind \in {"blank", "malformed", "number", "nan", "infinite"}
            /\ c # "cost" /\ c # "vat" => row[c].kind \in {"blank", "malformed", "number"}
            /\ c = "cost" => row[c].kind # "nan"
            /\ c = "vat" => row[c].kind # "infinite"
        BY <1>2, <1>3, <3>1, CellsAre DEF DecimalColumns, IntegerColumns
      <3>7. CASE c = "cost"
        <4>1. Says(row, c, "cost_negative") <=> OutOfRange(row, c)
          BY <3>6, <3>7 DEF Says, OutOfRange, Finite
        <4>2. \A code : Says(row, c, code) => code \in {"malformed_value", "required_field", "cost_negative"}
          BY <3>7 DEF Says
        <4> QED BY <3>4, <3>5, <4>1, <4>2
      <3>8. CASE c = "vat"
        <4>1. Says(row, c, "invalid_vat") <=> OutOfRange(row, c)
          BY <3>6, <3>8 DEF Says, OutOfRange, Finite, Given
        <4>2. \A code : Says(row, c, code) => code \in {"malformed_value", "required_field", "invalid_vat"}
          BY <3>8 DEF Says
        <4> QED BY <3>4, <3>5, <4>1, <4>2
      <3>9. CASE c = "case_pack"
        <4>1. Says(row, c, "case_pack_not_positive") <=> OutOfRange(row, c)
          BY <3>6, <3>9 DEF Says, OutOfRange, Given
        <4>2. \A code : Says(row, c, code) => code \in {"malformed_value", "required_field", "case_pack_not_positive"}
          BY <3>9 DEF Says
        <4> QED BY <3>4, <3>5, <4>1, <4>2
      <3>10. CASE c = "minimum_order_quantity"
        <4>1. Says(row, c, "moq_negative") <=> OutOfRange(row, c)
          BY <3>6, <3>10 DEF Says, OutOfRange, Given
        <4>2. \A code : Says(row, c, code) => code \in {"malformed_value", "required_field", "moq_negative"}
          BY <3>10 DEF Says
        <4> QED BY <3>4, <3>5, <4>1, <4>2
      <3>11. CASE c = "lead_time_days"
        <4>1. Says(row, c, "lead_time_negative") <=> OutOfRange(row, c)
          BY <3>6, <3>11 DEF Says, OutOfRange, Given
        <4>2. \A code : Says(row, c, code) => code \in {"malformed_value", "required_field", "lead_time_negative"}
          BY <3>11 DEF Says
        <4> QED BY <3>4, <3>5, <4>1, <4>2
      <3> QED BY <3>1, <3>7, <3>8, <3>9, <3>10, <3>11
    <2> QED BY <2>1, <2>2
  <1>7. ASSUME c \notin TextColumns, NEW code, NEW two, Says(row, c, code), Says(row, c, two)
        PROVE  code = two
    <2>1. c \in {"cost", "vat", "case_pack", "minimum_order_quantity", "lead_time_days"}
      BY <1>7 DEF Columns, DecimalColumns, IntegerColumns
    <2>2. c \in Invalid(row) <=> row[c].kind = "malformed"
      BY <1>7 DEF Invalid
    <2>3. \A say : Says(row, c, say) =>
            \/ say = "malformed_value" /\ row[c].kind = "malformed"
            \/ say = "required_field" /\ row[c].kind = "blank"
            \/ /\ say \notin {"malformed_value", "required_field"}
               /\ row[c].kind \notin {"malformed", "blank"}
      BY <2>1, <2>2 DEF Says, Given, Finite
    <2>4. \A say : Says(row, c, say) /\ say \notin {"malformed_value", "required_field"} =>
            say = IF c = "cost" THEN "cost_negative" ELSE IF c = "vat" THEN "invalid_vat"
                  ELSE IF c = "case_pack" THEN "case_pack_not_positive"
                  ELSE IF c = "lead_time_days" THEN "lead_time_negative" ELSE "moq_negative"
      BY <2>1 DEF Says
    <2> QED BY <1>7, <2>3, <2>4
  <1>8. Wrong(listed, row, c) <=>
          \/ \E code : Says(row, c, code)
          \/ c \in {"supplier_sku", "ean"} /\ Doubled(listed, row, c)
    BY <1>4, <1>5, <1>6 DEF Wrong
  <1> QED BY <1>7, <1>8 DEF listed

\* The errors that blame a cell.
ErrorsOf(findings, row, c) ==
  {f \in findings : f.severity = "error" /\ f.row = row.number /\ f.field = c}

LEMMA JudgedIsExact ==
  ASSUME NEW sheet, NEW findings, Judged(sheet, findings),
         NEW row \in sheet.rows, NEW c \in Columns
  PROVE  /\ ErrorsOf(findings, row, c) # {} <=> Wrong(sheet.rows, row, c)
         /\ c \notin TextColumns => Cardinality(ErrorsOf(findings, row, c)) <= 1
  <1> DEFINE listed == sheet.rows
             errors == ErrorsOf(findings, row, c)
  <1>1. /\ sheet \in Sheets /\ ~RulesRaise(listed)
        /\ Errors(findings) = SheetFindings(listed)
    BY DEF Judged
  <1>2. \A f : f \in errors <=> f \in SheetFindings(listed) /\ f.row = row.number /\ f.field = c
    <2>1. \A f : f \in errors <=> f \in Errors(findings) /\ f.row = row.number /\ f.field = c
      BY DEF Errors, ErrorsOf
    <2> QED BY <1>1, <2>1
  <1>3. \A other \in listed : other.number = row.number => other = row
    BY <1>1, SheetsAssumption
  <1> HIDE DEF errors
  <1>4. ASSUME NEW f
        PROVE  f \in errors <=>
                 \E code : /\ f = Blame(code, c, row)
                           /\ \/ Says(row, c, code)
                              \/ /\ c \in {"supplier_sku", "ean"} /\ code = CodeOf(c)
                                 /\ Doubled(listed, row, c)
    <2>1. ASSUME f \in errors
          PROVE  \E code : /\ f = Blame(code, c, row)
                           /\ \/ Says(row, c, code)
                              \/ /\ c \in {"supplier_sku", "ean"} /\ code = CodeOf(c)
                                 /\ Doubled(listed, row, c)
      <3>1. f \in SheetFindings(listed) /\ f.row = row.number /\ f.field = c
        BY <1>2, <2>1
      <3>2. PICK r \in listed : \E d, code :
              /\ f = Blame(code, d, r)
              /\ \/ Says(r, d, code)
                 \/ /\ d \in {"supplier_sku", "ean"} /\ code = CodeOf(d)
                    /\ Doubled(listed, r, d)
        BY <3>1, SheetFindingsAre
      <3>3. PICK d, code :
              /\ f = Blame(code, d, r)
              /\ \/ Says(r, d, code)
                 \/ /\ d \in {"supplier_sku", "ean"} /\ code = CodeOf(d)
                    /\ Doubled(listed, r, d)
        BY <3>2
      <3>4. f.row = r.number /\ f.field = d
        BY <3>3, BlameIs
      <3>5. r = row /\ d = c
        BY <1>3, <3>1, <3>4
      <3> QED BY <3>3, <3>5
    <2>2. ASSUME NEW code, f = Blame(code, c, row),
                 \/ Says(row, c, code)
                 \/ /\ c \in {"supplier_sku", "ean"} /\ code = CodeOf(c)
                    /\ Doubled(listed, row, c)
          PROVE  f \in errors
      <3>1. f \in SheetFindings(listed)
        BY <2>2, SheetFindingsAre
      <3>2. f.row = row.number /\ f.field = c
        BY <2>2, BlameIs
      <3> QED BY <1>2, <3>1, <3>2
    <2> QED BY <2>1, <2>2
  <1>5. /\ Wrong(listed, row, c) <=>
             \/ \E code : Says(row, c, code)
             \/ c \in {"supplier_sku", "ean"} /\ Doubled(listed, row, c)
        /\ c \notin TextColumns =>
             \A code, two : Says(row, c, code) /\ Says(row, c, two) => code = two
    BY <1>1, SaysWrong
  <1>6. errors # {} <=> Wrong(listed, row, c)
    <2>1. ASSUME errors # {} PROVE Wrong(listed, row, c)
      <3>1. PICK f : f \in errors
        BY <2>1
      <3> QED BY <1>4, <1>5, <3>1
    <2>2. ASSUME Wrong(listed, row, c) PROVE errors # {}
      <3>1. PICK code : \/ Says(row, c, code)
                        \/ /\ c \in {"supplier_sku", "ean"} /\ code = CodeOf(c)
                           /\ Doubled(listed, row, c)
        BY <1>5, <2>2
      <3>2. Blame(code, c, row) \in errors
        BY <1>4, <3>1
      <3> QED BY <3>2
    <2> QED BY <2>1, <2>2
  <1>7. ASSUME c \notin TextColumns
        PROVE  Cardinality(errors) <= 1
    <2>1. c \notin {"supplier_sku", "ean"}
      BY <1>7 DEF TextColumns
    <2>2. \A f, g \in errors : f = g
      <3> SUFFICES ASSUME NEW f \in errors, NEW g \in errors PROVE f = g
        OBVIOUS
      <3>1. PICK code : f = Blame(code, c, row) /\ Says(row, c, code)
        BY <1>4, <2>1
      <3>2. PICK two : g = Blame(two, c, row) /\ Says(row, c, two)
        BY <1>4, <2>1
      <3>3. code = two
        BY <1>5, <1>7, <3>1, <3>2
      <3> QED BY <3>1, <3>2, <3>3
    <2>3. CASE errors = {}
      BY <2>3, FS_EmptySet
    <2>4. CASE errors # {}
      <3>1. PICK f : f \in errors
        BY <2>4
      <3>2. errors = {f}
        BY <2>2, <3>1
      <3>3. Cardinality({f}) = 1
        BY FS_Singleton
      <3> QED BY <3>2, <3>3
    <2> QED BY <2>3, <2>4
  <1> QED BY <1>6, <1>7 DEF errors

LEMMA RulesBlame ==
  ASSUME NEW listed
  PROVE  Errors(SheetFindings(listed)) = SheetFindings(listed)
  <1>1. \A f \in SheetFindings(listed) : f.severity = "error"
    <2> SUFFICES ASSUME NEW f \in SheetFindings(listed) PROVE f.severity = "error"
      OBVIOUS
    <2>1. PICK row \in listed : \E c, code : f = Blame(code, c, row)
      BY SheetFindingsAre
    <2> QED BY <2>1, BlameIs
  <1> QED BY <1>1 DEF Errors

\* What the catalog says of a row is never an error.
LEMMA NotesAreNoErrors ==
  ASSUME NEW listed, NEW index, NEW f \in CatalogFindings(listed, index)
  PROVE  f.severity # "error"
  <1>1. PICK row \in listed :
          f \in EanMatchesExisting(row, index) \cup SkuMappedElsewhere(row, index)
                  \cup CostIncrease(row, index) \cup CategoryMismatch(row, index)
    BY Zenon DEF CatalogFindings
  <1>2. PICK code, severity, c, proposed :
          f = Note(code, severity, c, row, proposed) /\ severity \in {"info", "warning"}
    <2>1. CASE f \in EanMatchesExisting(row, index)
      BY <2>1 DEF EanMatchesExisting
    <2>2. CASE f \in SkuMappedElsewhere(row, index)
      <3>1. PICK t : f = Note("supplier_sku_mapped_elsewhere",
                              IF t.supplier = Supplier THEN "warning" ELSE "info",
                              "supplier_sku", row, t.product)
        BY <2>2 DEF SkuMappedElsewhere
      <3> QED BY <3>1
    <2>3. CASE f \in CostIncrease(row, index)
      BY <2>3 DEF CostIncrease
    <2>4. CASE f \in CategoryMismatch(row, index)
      BY <2>4 DEF CategoryMismatch
    <2> QED BY <1>1, <2>1, <2>2, <2>3, <2>4
  <1> QED BY <1>2 DEF Note, Finding

\* A handler past its rules, or whose document will be ready for review.
Judging(w) ==
  \/ stage[w] \in {"parsed", "priced"}
  \/ stage[w] = "done" /\ draft[w].status = "review_ready"

JudgedInv ==
  /\ \A w \in Workers : Judging(w) => Judged(objects[Key(w)].sheet, draft[w].findings)
  /\ \A d \in documents : d.status = "review_ready" => Judged(objects[d.key].sheet, d.findings)

\* The sheet of a handler under way is one that was uploaded.
LEMMA SheetInHand ==
  ASSUME WorkerInv, HistoryInv, ObjectsInv, OnceInv, NEW w \in Workers, stage[w] # "out"
  PROVE  /\ job[w] \in Jobs /\ Key(w) \in Uploads /\ rows[job[w]].state # "absent"
         /\ objects[Key(w)].step = "answered" /\ objects[Key(w)].sheet \in Sheets
  <1>1. pc[w] = "working"
    BY DEF OnceInv, StagesInv
  <1>2. job[w] \in Jobs /\ Key(w) \in Uploads /\ rows[job[w]].state # "absent"
    BY <1>1, WorkingHolds
  <1>3. objects[Key(w)].step = "answered"
    BY <1>2 DEF OnceInv, RequestsInv, Key
  <1> QED BY <1>2, <1>3 DEF ObjectsInv

\* A step of one handler leaves what the others know.
LEMMA OneHandlerJudged ==
  ASSUME JudgedInv, NEW w \in Workers, UNCHANGED <<objects, request, documents>>,
         \A v \in Workers \ {w} :
           stage'[v] = stage[v] /\ draft'[v] = draft[v] /\ job'[v] = job[v],
         Judging(w)' => Judged(objects[Key(w)'].sheet, draft'[w].findings)
  PROVE  JudgedInv'
  <1>1. ASSUME NEW v \in Workers \ {w}, Judging(v)'
        PROVE  Judged(objects'[Key(v)'].sheet, draft'[v].findings)
    <2>1. Judging(v) /\ Key(v)' = Key(v)
      BY <1>1 DEF Judging, Key
    <2> QED BY <2>1 DEF JudgedInv
  <1>2. \A d \in documents' : d.status = "review_ready" =>
          Judged(objects'[d.key].sheet, d.findings)
    BY DEF JudgedInv
  <1>3. \A v \in Workers : Judging(v)' => Judged(objects'[Key(v)'].sheet, draft'[v].findings)
    BY <1>1
  <1> QED BY <1>2, <1>3 DEF JudgedInv, Judged

LEMMA HandleJudged ==
  ASSUME WorkerInv, HistoryInv, ObjectsInv, OnceInv, StatusInv, JudgedInv,
         NEW w \in Workers, Handle(w)
  PROVE  JudgedInv'
  <1>1. /\ stage \in [Workers -> Stages] /\ DOMAIN draft = Workers
        /\ job \in [Workers -> Jobs \cup {None}]
    BY DEF OnceInv, StagesInv, StatusInv, WorkerInv, WorkerTypeOK
  <1>2. UNCHANGED <<objects, request>>
    BY HandleObjects
  <1>3. ASSUME NEW next \in {"loaded", "read", "inserted", "out"}, Stage(w, next),
               UNCHANGED documents,
               draft' = draft \/ draft' = [draft EXCEPT ![w] = NoDraft],
               \A v \in Workers \ {w} : job'[v] = job[v]
        PROVE  JudgedInv'
    <2>1. stage' = [stage EXCEPT ![w] = next]
      BY <1>3 DEF Stage
    <2>2. ~Judging(w)'
      BY <1>1, <2>1 DEF Judging
    <2>3. \A v \in Workers \ {w} : stage'[v] = stage[v] /\ draft'[v] = draft[v]
      BY <1>1, <1>3, <2>1
    <2> QED BY <1>2, <1>3, <2>2, <2>3, OneHandlerJudged
  <1>4. CASE Begin(w) \/ ReadBytes(w) \/ InsertDocument(w)
    <2>1. UNCHANGED <<documents, draft, job>>
      BY <1>4 DEF Begin, LoadJob, ReadBytes, InsertDocument, workerVars, sessionVars
    <2>2. \E next \in {"loaded", "read", "inserted", "out"} : Stage(w, next)
      BY <1>4 DEF Begin, ReadBytes, InsertDocument
    <2> QED BY <1>3, <2>1, <2>2
  <1>5. CASE \E retry : Raise(w, retry)
    <2>1. PICK retry : Raise(w, retry)
      BY <1>5
    <2>2. Stage(w, "out") /\ draft' = [draft EXCEPT ![w] = NoDraft]
            /\ documents' = documents /\ job' = job
      BY <2>1 DEF Raise, Discard, HandlerRaises
    <2> QED BY <1>3, <2>2
  <1>6. CASE FinishTooLate(w)
    <2>1. Stage(w, "out") /\ draft' = [draft EXCEPT ![w] = NoDraft]
            /\ documents' = documents /\ job' = [job EXCEPT ![w] = None]
      BY <1>6 DEF FinishTooLate, Discard, ConflictOnSuccess, Forget
    <2>2. \A v \in Workers \ {w} : job'[v] = job[v]
      BY <1>1, <2>1
    <2> QED BY <1>3, <2>1, <2>2
  <1>7. CASE ParseRefused(w)
    <2> DEFINE new == [status |-> "parse_failed",
                       findings |-> {Finding("parse_failed", "error", "", 0, 0)}]
    <2>1. /\ stage' = [stage EXCEPT ![w] = "done"] /\ draft' = [draft EXCEPT ![w] = new]
          /\ documents' = documents /\ job' = job
      BY <1>7 DEF ParseRefused, Stage, workerVars, sessionVars
    <2>2. new.status = "parse_failed"
      OBVIOUS
    <2> HIDE DEF new
    <2>3. ~Judging(w)'
      BY <1>1, <2>1, <2>2 DEF Judging
    <2> QED BY <1>1, <1>2, <2>1, <2>3, OneHandlerJudged
  <1>8. CASE Parse(w)
    <2> DEFINE sheet == SheetOf(job[w])
               new == [status |-> "parsed", findings |-> SheetFindings(sheet.rows)]
    <2>1. /\ stage[w] = "inserted" /\ ~RulesRaise(sheet.rows)
          /\ stage' = [stage EXCEPT ![w] = "parsed"] /\ draft' = [draft EXCEPT ![w] = new]
          /\ documents' = documents /\ job' = job
      BY <1>8 DEF Parse, Stage, Raises, workerVars, sessionVars
    <2>2. sheet = objects[Key(w)].sheet /\ sheet \in Sheets
      BY <2>1, SheetInHand DEF SheetOf, Key
    <2>3. Judged(sheet, new.findings)
      BY <2>1, <2>2, RulesBlame DEF Judged
    <2>4. Key(w)' = Key(w) /\ draft'[w] = new
      BY <1>1, <1>2, <2>1 DEF Key
    <2> HIDE DEF new, sheet
    <2>5. Judged(objects[Key(w)'].sheet, draft'[w].findings)
      BY <2>2, <2>3, <2>4
    <2> QED BY <1>1, <1>2, <2>1, <2>5, OneHandlerJudged
  <1>9. CASE ReadProducts(w)
    <2>1. /\ stage[w] = "parsed" /\ stage' = [stage EXCEPT ![w] = "priced"]
          /\ UNCHANGED <<draft, documents, job>>
      BY <1>9 DEF ReadProducts, Stage, workerVars, sessionVars
    <2>2. Judged(objects[Key(w)'].sheet, draft'[w].findings)
      BY <1>2, <2>1 DEF JudgedInv, Judging, Key
    <2> QED BY <1>1, <1>2, <2>1, <2>2, OneHandlerJudged
  <1>10. CASE CompareWithCatalog(w) /\ ~Raise(w, TRUE)
    <2> DEFINE listed == SheetOf(job[w]).rows
    <2>1. PICK index \in Indexes(w) :
            /\ stage[w] = "priced"
            /\ draft' = [draft EXCEPT ![w] =
                 [status |-> "review_ready",
                  findings |-> @.findings \cup CatalogFindings(listed, index)]]
            /\ stage' = [stage EXCEPT ![w] = "done"]
            /\ documents' = documents /\ job' = job
      BY <1>10 DEF CompareWithCatalog, Stage, workerVars, sessionVars
    <2> DEFINE notes == CatalogFindings(listed, index)
    <2>2. \A f \in notes : f.severity # "error"
      BY NotesAreNoErrors
    <2> HIDE DEF notes
    <2>3. draft'[w].findings = draft[w].findings \cup notes
      BY <1>1, <2>1 DEF notes
    <2>4. Errors(draft'[w].findings) = Errors(draft[w].findings)
      BY <2>2, <2>3 DEF Errors
    <2>5. Judged(objects[Key(w)].sheet, draft[w].findings) /\ Key(w)' = Key(w)
      BY <1>2, <2>1 DEF JudgedInv, Judging, Key
    <2>6. Judged(objects[Key(w)'].sheet, draft'[w].findings)
      BY <2>4, <2>5 DEF Judged
    <2>7. \A v \in Workers \ {w} :
            stage'[v] = stage[v] /\ draft'[v] = draft[v] /\ job'[v] = job[v]
      BY <1>1, <2>1
    <2> QED BY <1>2, <2>1, <2>6, <2>7, OneHandlerJudged
  <1>11. CASE Finish(w)
    <2> DEFINE new == Recorded(w)
    <2>1. /\ stage[w] = "done" /\ stage' = [stage EXCEPT ![w] = "out"]
          /\ draft' = [draft EXCEPT ![w] = NoDraft]
          /\ documents' = documents \cup {new} /\ job' = job
      BY <1>11 DEF Finish, Discard, Stage, CommitWork
    <2>2. new.key = Key(w) /\ new.status = draft[w].status /\ new.findings = draft[w].findings
      BY DEF Recorded
    <2> HIDE DEF new
    <2>3. new.status = "review_ready" => Judged(objects[new.key].sheet, new.findings)
      BY <2>1, <2>2 DEF JudgedInv, Judging
    <2>4. \A d \in documents' : d.status = "review_ready" =>
            Judged(objects'[d.key].sheet, d.findings)
      BY <1>2, <2>1, <2>3 DEF JudgedInv
    <2>5. ASSUME NEW v \in Workers, Judging(v)'
          PROVE  Judged(objects'[Key(v)'].sheet, draft'[v].findings)
      <3>1. v # w
        BY <1>1, <2>1, <2>5 DEF Judging
      <3>2. stage'[v] = stage[v] /\ draft'[v] = draft[v]
        BY <1>1, <2>1, <3>1
      <3>3. Judging(v) /\ Key(v)' = Key(v)
        BY <1>2, <2>1, <2>5, <3>2 DEF Judging, Key
      <3> QED BY <1>2, <3>2, <3>3 DEF JudgedInv
    <2> QED BY <2>4, <2>5 DEF JudgedInv, Judged
  <1> QED
    BY <1>4, <1>5, <1>6, <1>7, <1>8, <1>9, <1>10, <1>11
    DEF Handle, StoreFails, InsertRefused, ParseRaises, CallFails

\* What stands behind an upload that is over does not change.
LEMMA UploadJudged ==
  ASSUME WorkerInv, HistoryInv, ObjectsInv, OnceInv, JudgedInv, NEW u \in Uploads, Upload(u)
  PROVE  JudgedInv'
  <1>1. UNCHANGED <<documents, stage, draft, job>>
    BY DEF Upload, SaveBytes, WriteSidecar, Submit, Enqueue, workerVars, sessionVars,
       handlerVars
  <1>2. objects[u].step # "answered"
    BY DEF Upload, SaveBytes, WriteSidecar, Submit
  <1>3. \A v \in Uploads \ {u} : objects'[v] = objects[v]
    BY DEF Upload, SaveBytes, WriteSidecar, Submit, ObjectsInv
  <1>4. \A j \in Jobs : rows[j].state # "absent" => request'[j] = request[j]
    <2>1. CASE request' = request
      BY <2>1
    <2>2. CASE /\ Enqueue(JobOf[objects[u].sheet])
               /\ request' = [request EXCEPT ![JobOf[objects[u].sheet]] = u]
      BY <2>2 DEF Enqueue, OnceInv, RequestsInv
    <2> QED BY <2>1, <2>2 DEF Upload, SaveBytes, WriteSidecar, Submit
  <1>5. ASSUME NEW w \in Workers, Judging(w)'
        PROVE  Judged(objects'[Key(w)'].sheet, draft'[w].findings)
    <2>1. Judging(w) /\ stage[w] # "out"
      BY <1>1, <1>5 DEF Judging
    <2>2. job[w] \in Jobs /\ rows[job[w]].state # "absent" /\ Key(w) \in Uploads
            /\ objects[Key(w)].step = "answered"
      BY <2>1, SheetInHand
    <2>3. Key(w)' = Key(w) /\ objects'[Key(w)] = objects[Key(w)]
      BY <1>1, <1>2, <1>3, <1>4, <2>2 DEF Key
    <2> QED BY <1>1, <2>1, <2>3 DEF JudgedInv
  <1>6. ASSUME NEW d \in documents', d.status = "review_ready"
        PROVE  Judged(objects'[d.key].sheet, d.findings)
    <2>1. d \in documents /\ d.key \in Uploads /\ objects[d.key].step = "answered"
      BY <1>1 DEF OnceInv, DocumentsInv
    <2>2. objects'[d.key] = objects[d.key]
      BY <1>2, <1>3, <2>1
    <2> QED BY <1>6, <2>1, <2>2 DEF JudgedInv
  <1> QED BY <1>5, <1>6 DEF JudgedInv, Judged

LEMMA NextJudged ==
  ASSUME WorkerInv, HistoryInv, ObjectsInv, OnceInv, StatusInv, JudgedInv, [IntakeNext]_vars
  PROVE  JudgedInv'
  <1>1. ASSUME NEW w \in Workers, Die(w) PROVE JudgedInv'
    <2>1. /\ stage' = [stage EXCEPT ![w] = "out"] /\ draft' = [draft EXCEPT ![w] = NoDraft]
          /\ UNCHANGED <<objects, request, documents>> /\ job' = [job EXCEPT ![w] = None]
      BY <1>1 DEF Die, Discard, Stage, Crash, Forget, requestVars
    <2>2. ~Judging(w)'
      BY <2>1 DEF Judging, OnceInv, StagesInv
    <2>3. \A v \in Workers \ {w} :
            stage'[v] = stage[v] /\ draft'[v] = draft[v] /\ job'[v] = job[v]
      BY <2>1 DEF OnceInv, StagesInv, StatusInv, WorkerInv, WorkerTypeOK
    <2> QED BY <2>1, <2>2, <2>3, OneHandlerJudged
  <1>2. CASE Elsewhere \/ EditCatalog \/ UNCHANGED vars
    <2>1. UNCHANGED <<objects, request, documents, stage, draft>>
      BY <1>2 DEF Elsewhere, EditCatalog, vars, intakeVars, requestVars, handlerVars
    <2>2. \A w \in Workers : stage[w] # "out" => job'[w] = job[w]
      <3>1. \A w \in Workers : stage[w] # "out" => pc[w] = "working"
        BY DEF OnceInv, StagesInv
      <3>2. CASE EditCatalog \/ UNCHANGED vars
        BY <3>2 DEF EditCatalog, vars, workerVars
      <3>3. CASE \E j \in Jobs : Clock(j)
        BY <3>3 DEF Clock, LeaseRunsOut, ComesDue, sessionVars
      <3>4. ASSUME NEW w \in Workers, Lease(w) \/ Release(w) \/ Restart(w)
                   \/ ReadForFailure(w) \/ RecordFailure(w) \/ LoseFailureRecord(w)
            PROVE  \A v \in Workers : pc[v] = "working" => job'[v] = job[v]
        BY <3>4 DEF Lease, ReleaseExpired, NextClaimable, Claim, LoseClaim, Release, Restart,
          ReadForFailure, RecordFailure, LoseFailureRecord, Goto, Forget, WorkerInv,
          WorkerTypeOK
      <3> QED BY <1>2, <3>1, <3>2, <3>3, <3>4 DEF Elsewhere
    <2>3. ASSUME NEW w \in Workers, Judging(w)'
          PROVE  Judged(objects'[Key(w)'].sheet, draft'[w].findings)
      <3>1. Judging(w) /\ stage[w] # "out"
        BY <2>1, <2>3 DEF Judging
      <3>2. Key(w)' = Key(w)
        BY <2>1, <2>2, <3>1 DEF Key
      <3> QED BY <2>1, <3>1, <3>2 DEF JudgedInv
    <2>4. \A d \in documents' : d.status = "review_ready" =>
            Judged(objects'[d.key].sheet, d.findings)
      BY <2>1 DEF JudgedInv
    <2> QED BY <2>3, <2>4 DEF JudgedInv, Judged
  <1> QED BY <1>1, <1>2, HandleJudged, UploadJudged DEF IntakeNext

LEMMA ExactFromJudged ==
  ASSUME JudgedInv
  PROVE  FindingsExact
  <1> SUFFICES ASSUME NEW d \in documents, d.status = "review_ready",
                      NEW row \in objects[d.key].sheet.rows, NEW c \in Columns
               PROVE  /\ ErrorsOf(d.findings, row, c) # {} <=>
                           Wrong(objects[d.key].sheet.rows, row, c)
                      /\ c \notin TextColumns => Cardinality(ErrorsOf(d.findings, row, c)) <= 1
    BY DEF FindingsExact, ErrorsOf
  <1>1. Judged(objects[d.key].sheet, d.findings)
    BY DEF JudgedInv
  <1> QED BY <1>1, JudgedIsExact

\* Whatever is uploaded, whoever processes it and however often, a reviewed
\* document blames exactly the cells that are wrong (documents/rules.py,
\* documents/process.py).
THEOREM FindingsAreExact == IntakeSpec => []FindingsExact
  <1>1. IntakeInit => OnceInv /\ StatusInv /\ JudgedInv
    BY InitOnce DEF IntakeInit, StatusInv, JudgedInv, Judging
  <1>2. WorkerInv /\ HistoryInv /\ ObjectsInv /\ OnceInv /\ StatusInv /\ JudgedInv
          /\ [IntakeNext]_vars => OnceInv' /\ StatusInv' /\ JudgedInv'
    BY NextOnce, NextStatus, NextJudged
  <1>3. JudgedInv => FindingsExact
    BY ExactFromJudged
  <1> QED
    BY <1>1, <1>2, <1>3, QueueInvariants, ObjectsHold, PTL DEF IntakeSpec

----------------------------------------------------------------------------
(* A cost is judged by the terms in force.                                 *)

\* What a handler compares with is the catalog as of its last edit or an older
\* one, and nothing was said of a cost before.
PricedInv ==
  /\ DOMAIN read = Workers /\ catalog \in Catalogs /\ edits \in Nat
  /\ \A w \in Workers :
       /\ read[w].at \in 0..edits
       /\ stage[w] \in {"parsed", "priced"} =>
            \A f \in draft[w].findings : f.code # "cost_increase"
       /\ stage[w] = "priced" /\ read[w].at = edits =>
            read[w].products = LiveProducts(catalog)

LEMMA RulesSayNothingOfCosts ==
  ASSUME NEW listed, NEW f \in SheetFindings(listed)
  PROVE  f.code # "cost_increase"
  <1>0. PICK row \in listed : \E c, code :
          /\ f = Blame(code, c, row)
          /\ \/ Says(row, c, code)
             \/ c \in {"supplier_sku", "ean"} /\ code = CodeOf(c) /\ Doubled(listed, row, c)
    BY SheetFindingsAre
  <1>1. PICK c, code :
          /\ f = Blame(code, c, row)
          /\ \/ Says(row, c, code)
             \/ c \in {"supplier_sku", "ean"} /\ code = CodeOf(c) /\ Doubled(listed, row, c)
    BY <1>0
  <1>2. code # "cost_increase"
    BY <1>1 DEF Says, CodeOf
  <1> QED BY <1>1, <1>2, BlameIs

LEMMA HandlePriced ==
  ASSUME OnceInv, StatusInv, PricedInv, NEW w \in Workers, Handle(w)
  PROVE  PricedInv'
  <1>1. /\ stage \in [Workers -> Stages] /\ DOMAIN draft = Workers /\ DOMAIN read = Workers
        /\ catalog \in Catalogs /\ edits \in Nat
    BY DEF OnceInv, StagesInv, StatusInv, PricedInv
  <1>2. UNCHANGED <<catalog, edits>>
    BY DEF Handle, Begin, ReadBytes, StoreFails, InsertDocument, InsertRefused,
       ParseRefused, ParseRaises, Parse, ReadProducts, CompareWithCatalog, CallFails,
       Finish, FinishTooLate, Raise, catalogVars
  <1>3. ASSUME NEW v \in Workers \ {w}
        PROVE  stage'[v] = stage[v] /\ draft'[v] = draft[v] /\ read'[v] = read[v]
    <2>1. stage' = stage \/ \E next : stage' = [stage EXCEPT ![w] = next]
      BY DEF Handle, Begin, ReadBytes, StoreFails, InsertDocument, InsertRefused,
         ParseRefused, ParseRaises, Parse, ReadProducts, CompareWithCatalog, CallFails,
         Finish, FinishTooLate, Raise, Discard, Stage
    <2>2. draft' = draft \/ \E kept : draft' = [draft EXCEPT ![w] = kept]
      BY DEF Handle, Begin, ReadBytes, StoreFails, InsertDocument, InsertRefused,
         ParseRefused, ParseRaises, Parse, ReadProducts, CompareWithCatalog, CallFails,
         Finish, FinishTooLate, Raise, Discard
    <2>3. read' = read \/ \E kept : read' = [read EXCEPT ![w] = kept]
      BY DEF Handle, Begin, ReadBytes, StoreFails, InsertDocument, InsertRefused,
         ParseRefused, ParseRaises, Parse, ReadProducts, CompareWithCatalog, CallFails,
         Finish, FinishTooLate, Raise, Discard
    <2> QED BY <1>1, <2>1, <2>2, <2>3
  <1>4. SUFFICES
          /\ DOMAIN read' = Workers /\ read'[w].at \in 0..edits
          /\ stage'[w] \in {"parsed", "priced"} =>
               \A f \in draft'[w].findings : f.code # "cost_increase"
          /\ stage'[w] = "priced" /\ read'[w].at = edits =>
               read'[w].products = LiveProducts(catalog)
    BY <1>1, <1>2, <1>3 DEF PricedInv
  <1>5. CASE Parse(w)
    <2>1. stage'[w] = "parsed" /\ read' = read
            /\ draft'[w].findings = SheetFindings(SheetOf(job[w]).rows)
      BY <1>1, <1>5 DEF Parse, Stage
    <2> QED BY <1>1, <2>1, RulesSayNothingOfCosts DEF PricedInv
  <1>6. CASE ReadProducts(w)
    <2>1. /\ stage[w] = "parsed" /\ stage'[w] = "priced" /\ draft' = draft
          /\ read' = [read EXCEPT ![w] = [products |-> LiveProducts(catalog), at |-> edits]]
      BY <1>1, <1>6 DEF ReadProducts, Stage
    <2>2. read'[w].products = LiveProducts(catalog) /\ read'[w].at = edits
            /\ DOMAIN read' = Workers
      BY <1>1, <2>1
    <2> QED BY <1>1, <2>1, <2>2 DEF PricedInv
  <1>7. CASE ~(Parse(w) \/ ReadProducts(w))
    <2>1. stage'[w] \notin {"parsed", "priced"}
      BY <1>1, <1>7 DEF Handle, Begin, ReadBytes, StoreFails, InsertDocument, InsertRefused,
         ParseRefused, ParseRaises, CompareWithCatalog, CallFails,
         Finish, FinishTooLate, Raise, Discard, Stage
    <2>2. read' = read \/ read' = [read EXCEPT ![w] = NoRead]
      BY <1>7 DEF Handle, Begin, ReadBytes, StoreFails, InsertDocument, InsertRefused,
         ParseRefused, ParseRaises, CompareWithCatalog, CallFails,
         Finish, FinishTooLate, Raise, Discard
    <2>3. read'[w].at \in 0..edits /\ DOMAIN read' = Workers
      BY <1>1, <2>2 DEF PricedInv, NoRead
    <2> QED BY <2>1, <2>3
  <1> QED BY <1>5, <1>6, <1>7

LEMMA NextPriced ==
  ASSUME OnceInv, StatusInv, PricedInv, [IntakeNext]_vars
  PROVE  PricedInv'
  <1>1. ASSUME NEW w \in Workers, Die(w) PROVE PricedInv'
    <2>1. /\ stage' = [stage EXCEPT ![w] = "out"] /\ draft' = [draft EXCEPT ![w] = NoDraft]
          /\ read' = [read EXCEPT ![w] = NoRead] /\ UNCHANGED <<catalog, edits>>
      BY <1>1 DEF Die, Discard, Stage, catalogVars
    <2>2. \A v \in Workers \ {w} :
            stage'[v] = stage[v] /\ draft'[v] = draft[v] /\ read'[v] = read[v]
      BY <2>1 DEF OnceInv, StagesInv, StatusInv, PricedInv
    <2>3. stage'[w] = "out" /\ read'[w].at = 0 /\ DOMAIN read' = Workers
      BY <2>1 DEF OnceInv, StagesInv, PricedInv, NoRead
    <2> QED BY <2>1, <2>2, <2>3 DEF PricedInv
  <1>2. CASE EditCatalog
    <2>1. /\ edits' = edits + 1 /\ catalog' \in Catalogs /\ UNCHANGED <<stage, draft, read>>
      BY <1>2 DEF EditCatalog, handlerVars
    <2>2. \A w \in Workers : read'[w].at \in 0..edits' /\ read'[w].at # edits'
      BY <2>1 DEF PricedInv
    <2> QED BY <2>1, <2>2 DEF PricedInv
  <1>3. CASE (\E u \in Uploads : Upload(u)) \/ Elsewhere \/ UNCHANGED vars
    <2>1. UNCHANGED <<stage, draft, read, catalog, edits>>
      BY <1>3 DEF Upload, SaveBytes, WriteSidecar, Submit, Elsewhere, vars, intakeVars,
        handlerVars, catalogVars
    <2> QED BY <2>1 DEF PricedInv
  <1> QED BY <1>1, <1>2, <1>3, HandlePriced DEF IntakeNext

\* The terms a handler may compare a row with, its catalog as it is.
LEMMA TermsInForce ==
  ASSUME NEW stock \in Catalogs, NEW index, NEW row \in SheetRow,
         index.products = LiveProducts(stock),
         index.terms = LiveTerms(stock, index.products),
         index.last \in LastTerms(index.terms)
  PROVE  LET live(t) == /\ t.live /\ t.supplier = Supplier
                        /\ \E p \in stock.products : p.live /\ p.id = t.product
             mine == {t \in stock.terms : live(t)}
             byEan == {t \in mine : \E p \in stock.products :
                         /\ p.id = t.product /\ row["ean"].kind = "text"
                         /\ p.ean = row["ean"].value}
             bySku == {t \in mine : /\ row["supplier_sku"].kind = "text"
                                    /\ t.sku = row["supplier_sku"].value}
         IN  /\ TermForRow(index, row) \subseteq byEan \cup bySku
             /\ byEan # {} => TermForRow(index, row) = byEan
             /\ \A t, u \in byEan : t = u
             /\ bySku # {} => TermForRow(index, row) # {}
  <1> DEFINE live(t) == /\ t.live /\ t.supplier = Supplier
                        /\ \E p \in stock.products : p.live /\ p.id = t.product
             mine == {t \in stock.terms : live(t)}
             byEan == {t \in mine : \E p \in stock.products :
                         /\ p.id = t.product /\ row["ean"].kind = "text"
                         /\ p.ean = row["ean"].value}
             bySku == {t \in mine : /\ row["supplier_sku"].kind = "text"
                                    /\ t.sku = row["supplier_sku"].value}
  <1>1. /\ \A p, q \in stock.products : p.id = q.id => p = q
        /\ \A p, q \in stock.products : p.ean = q.ean /\ p.ean # 0 => p = q
        /\ \A t, u \in stock.terms : t.supplier = u.supplier /\ t.product = u.product => t = u
    BY CatalogsAssumption DEF CatalogKeys
  <1>2. /\ Given(row, "ean") <=> row["ean"].kind = "text"
        /\ Given(row, "supplier_sku") <=> row["supplier_sku"].kind = "text"
        /\ row["ean"].kind = "text" => row["ean"].value # 0
        /\ row["supplier_sku"].kind = "text" => row["supplier_sku"].value # 0
    <2>1. row["ean"] \in TextCell /\ row["supplier_sku"] \in TextCell
      BY DEF SheetRow
    <2> QED BY <2>1, TextCellsAre DEF Given
  <1>3. \A p : p \in index.products <=> p \in stock.products /\ p.live
    BY DEF LiveProducts
  <1>4. \A t : t \in index.terms <=>
                 t \in stock.terms /\ t.live /\ \E p \in index.products : p.id = t.product
    BY DEF LiveTerms
  <1>5. \A t : t \in mine <=> t \in index.terms /\ t.supplier = Supplier
    BY <1>3, <1>4
  <1>6. OwnTermByEan(index, row) = byEan
    <2>1. ASSUME NEW t \in OwnTermByEan(index, row) PROVE t \in byEan
      <3>1. t \in mine
        BY <1>5 DEF OwnTermByEan
      <3>2. PICK p \in ByEan(index, row) : p.id = t.product
        BY DEF OwnTermByEan
      <3>3. p \in stock.products /\ row["ean"].kind = "text" /\ p.ean = row["ean"].value
        BY <1>2, <1>3 DEF ByEan
      <3> QED BY <3>1, <3>2, <3>3
    <2>2. ASSUME NEW t \in byEan PROVE t \in OwnTermByEan(index, row)
      <3>1. t \in index.terms /\ t.supplier = Supplier
        BY <1>5
      <3>2. PICK p \in stock.products : /\ p.id = t.product /\ row["ean"].kind = "text"
                                        /\ p.ean = row["ean"].value
        OBVIOUS
      <3>3. PICK q \in stock.products : q.live /\ q.id = t.product
        OBVIOUS
      <3>4. p = q
        BY <1>1, <3>2, <3>3
      <3>5. p \in ByEan(index, row)
        BY <1>2, <1>3, <3>2, <3>3, <3>4 DEF ByEan
      <3> QED BY <3>1, <3>2, <3>5 DEF OwnTermByEan
    <2> QED BY <2>1, <2>2
  <1>7. \A t, u \in byEan : t = u
    <2> SUFFICES ASSUME NEW t \in byEan, NEW u \in byEan PROVE t = u
      OBVIOUS
    <2>1. PICK p \in stock.products : p.id = t.product /\ row["ean"].kind = "text"
                                        /\ p.ean = row["ean"].value
      OBVIOUS
    <2>2. PICK q \in stock.products : q.id = u.product /\ q.ean = row["ean"].value
      OBVIOUS
    <2>3. p = q
      BY <1>1, <1>2, <2>1, <2>2
    <2>4. /\ t \in stock.terms /\ u \in stock.terms
          /\ t.supplier = Supplier /\ u.supplier = Supplier
      OBVIOUS
    <2> QED BY <1>1, <2>1, <2>2, <2>3, <2>4
  <1>8. /\ index.last \subseteq index.terms
        /\ \A t \in index.terms : t.sku # 0 =>
             {u \in index.last : u.supplier = t.supplier /\ u.sku = t.sku} # {}
    <2>1. Cardinality({}) = 0
      BY FS_EmptySet
    <2> QED BY <2>1 DEF LastTerms
  <1>9. OwnTermBySku(index, row) \subseteq bySku
    BY <1>2, <1>5, <1>8 DEF OwnTermBySku, BySku
  <1>10. ASSUME bySku # {} PROVE OwnTermBySku(index, row) # {}
    <2>1. PICK t \in mine : row["supplier_sku"].kind = "text" /\ t.sku = row["supplier_sku"].value
      BY <1>10
    <2>2. t \in index.terms /\ t.supplier = Supplier /\ t.sku # 0
      BY <1>2, <1>5, <2>1
    <2>3. PICK u \in index.last : u.supplier = t.supplier /\ u.sku = t.sku
      BY <1>8, <2>2
    <2>4. u \in OwnTermBySku(index, row)
      BY <1>2, <2>1, <2>2, <2>3 DEF OwnTermBySku, BySku
    <2> QED BY <2>4
  <1> HIDE DEF byEan, bySku
  <1>11. /\ TermForRow(index, row) \subseteq byEan \cup bySku
         /\ byEan # {} => TermForRow(index, row) = byEan
         /\ bySku # {} => TermForRow(index, row) # {}
    BY <1>6, <1>9, <1>10 DEF TermForRow
  <1> QED BY <1>7, <1>11 DEF byEan, bySku

\* A row is warned of exactly when a term it is compared with is lower.
LEMMA WarnedIs ==
  ASSUME NEW sheet \in Sheets, NEW row \in sheet.rows, NEW index, NEW before,
         row["cost"].kind = "number", \A f \in before : f.code # "cost_increase"
  PROVE  (\E f \in before \cup CatalogFindings(sheet.rows, index) :
            f.code = "cost_increase" /\ f.row = row.number)
           <=> \E t \in TermForRow(index, row) : row["cost"].value > t.cost
  <1> DEFINE listed == sheet.rows
             notes == CatalogFindings(listed, index)
  <1>1. \A other \in listed : other.number = row.number => other = row
    BY SheetsAssumption
  <1>2. ASSUME NEW f \in notes, f.code = "cost_increase", f.row = row.number
        PROVE  \E t \in TermForRow(index, row) : row["cost"].value > t.cost
    <2>1. PICK other \in listed :
            f \in EanMatchesExisting(other, index) \cup SkuMappedElsewhere(other, index)
                    \cup CostIncrease(other, index) \cup CategoryMismatch(other, index)
      BY Zenon DEF CatalogFindings
    <2>2. f \notin EanMatchesExisting(other, index) /\ f \notin CategoryMismatch(other, index)
      BY <1>2 DEF EanMatchesExisting, CategoryMismatch, Note, Finding
    <2>3. f \notin SkuMappedElsewhere(other, index)
      BY <1>2 DEF SkuMappedElsewhere, Note, Finding
    <2>4. f \in CostIncrease(other, index)
      BY <2>1, <2>2, <2>3
    <2>5. PICK t \in TermForRow(other, index) \cup TermForRow(index, other) :
            /\ t \in TermForRow(index, other) /\ other["cost"].value > t.cost
            /\ f = Note("cost_increase", "warning", "cost", other, t.cost)
      BY <2>4 DEF CostIncrease
    <2>6. f.row = other.number
      BY <2>5 DEF Note, Finding
    <2> QED BY <1>1, <1>2, <2>5, <2>6
  <1>3. ASSUME NEW t \in TermForRow(index, row), row["cost"].value > t.cost
        PROVE  \E f \in notes : f.code = "cost_increase" /\ f.row = row.number
    <2> DEFINE f == Note("cost_increase", "warning", "cost", row, t.cost)
    <2>1. f \in CostIncrease(row, index)
      BY <1>3 DEF CostIncrease, Finite
    <2>2. f.code = "cost_increase" /\ f.row = row.number
      BY DEF Note, Finding
    <2> HIDE DEF f
    <2>3. f \in EanMatchesExisting(row, index) \cup SkuMappedElsewhere(row, index)
                  \cup CostIncrease(row, index) \cup CategoryMismatch(row, index)
      BY <2>1
    <2>4. f \in CatalogFindings(listed, index)
      BY <2>3, Zenon DEF CatalogFindings
    <2> QED BY <2>2, <2>4
  <1> HIDE DEF notes
  <1> QED BY <1>2, <1>3 DEF notes

\* Only the comparison with the catalog ends a priced handler's work.
LEMMA OnlyComparisonEnds ==
  ASSUME OnceInv, StatusInv, [IntakeNext]_vars, NEW w \in Workers,
         stage[w] = "priced", stage'[w] = "done"
  PROVE  CompareWithCatalog(w)
  <1>1. stage \in [Workers -> Stages]
    BY DEF OnceInv, StagesInv
  <1>2. CASE (\E u \in Uploads : Upload(u)) \/ Elsewhere \/ EditCatalog \/ UNCHANGED vars
    BY <1>2 DEF Upload, SaveBytes, WriteSidecar, Submit, Elsewhere, EditCatalog, vars,
      intakeVars, handlerVars
  <1>3. ASSUME NEW v \in Workers, Die(v) PROVE FALSE
    BY <1>1, <1>3 DEF Die, Discard, Stage
  <1>4. ASSUME NEW v \in Workers, Handle(v) PROVE CompareWithCatalog(w)
    <2>1. stage' = stage \/ \E next : stage' = [stage EXCEPT ![v] = next]
      BY <1>4 DEF Handle, Begin, ReadBytes, StoreFails, InsertDocument, InsertRefused,
         ParseRefused, ParseRaises, Parse, ReadProducts, CompareWithCatalog, CallFails,
         Finish, FinishTooLate, Raise, Discard, Stage
    <2>2. v = w
      BY <1>1, <2>1
    <2> QED
      BY <1>1, <1>4, <2>2 DEF Handle, Begin, ReadBytes, StoreFails, InsertDocument,
         InsertRefused, ParseRefused, ParseRaises, Parse, ReadProducts, CallFails, Finish,
         FinishTooLate, Raise, Discard, Stage
  <1> QED BY <1>2, <1>3, <1>4 DEF IntakeNext

LEMMA CostStep ==
  ASSUME WorkerInv, HistoryInv, ObjectsInv, OnceInv, StatusInv, PricedInv, [IntakeNext]_vars,
         NEW w \in Workers, stage[w] = "priced", stage'[w] = "done", read[w].at = edits,
         NEW row \in SheetOf(job[w]).rows, row["cost"].kind = "number"
  PROVE  CostJudged(row, draft'[w].findings)
  <1> DEFINE live(t) == /\ t.live /\ t.supplier = Supplier
                        /\ \E p \in catalog.products : p.live /\ p.id = t.product
             mine == {t \in catalog.terms : live(t)}
             byEan == {t \in mine : \E p \in catalog.products :
                         /\ p.id = t.product /\ row["ean"].kind = "text"
                         /\ p.ean = row["ean"].value}
             bySku == {t \in mine : /\ row["supplier_sku"].kind = "text"
                                    /\ t.sku = row["supplier_sku"].value}
             lower(t) == t.cost < row["cost"].value
             warned == \E f \in draft'[w].findings :
                         f.code = "cost_increase" /\ f.row = row.number
             sheet == SheetOf(job[w])
  <1>1. sheet \in Sheets
    BY SheetInHand DEF SheetOf, Key
  <1>2. row \in SheetRow
    BY <1>1, SheetsAssumption
  <1>3. CompareWithCatalog(w)
    BY OnlyComparisonEnds
  <1>4. PICK index \in Indexes(w) :
          draft' = [draft EXCEPT ![w] =
            [status |-> "review_ready",
             findings |-> @.findings \cup CatalogFindings(sheet.rows, index)]]
    <2>1. ~Raise(w, TRUE)
      BY DEF Raise, Discard, Stage, OnceInv, StagesInv
    <2> QED BY <1>3, <2>1 DEF CompareWithCatalog
  <1>5. draft'[w].findings = draft[w].findings \cup CatalogFindings(sheet.rows, index)
    BY <1>4 DEF StatusInv
  <1>6. /\ \A f \in draft[w].findings : f.code # "cost_increase"
        /\ read[w].products = LiveProducts(catalog) /\ catalog \in Catalogs
    BY DEF PricedInv
  <1>7. /\ index.products = LiveProducts(catalog)
        /\ index.terms = LiveTerms(catalog, index.products)
        /\ index.last \in LastTerms(index.terms)
    <2> DEFINE terms == LiveTerms(catalog, read[w].products)
    <2>1. PICK last \in LastTerms(terms) :
            index = [products |-> read[w].products, terms |-> terms, last |-> last]
      BY DEF Indexes
    <2>2. index.products = read[w].products /\ index.terms = terms /\ index.last = last
      BY <2>1
    <2> QED BY <1>6, <2>2
  <1>8. /\ TermForRow(index, row) \subseteq byEan \cup bySku
        /\ byEan # {} => TermForRow(index, row) = byEan
        /\ \A t, u \in byEan : t = u
        /\ bySku # {} => TermForRow(index, row) # {}
    BY <1>2, <1>6, <1>7, TermsInForce
  <1>9. warned <=> \E t \in TermForRow(index, row) : row["cost"].value > t.cost
    BY <1>1, <1>5, <1>6, WarnedIs
  <1>10. \A t \in byEan \cup bySku : lower(t) <=> row["cost"].value > t.cost
    <2>1. row["cost"].value \in Int
      BY <1>2 DEF SheetRow, DecimalCell
    <2>2. \A t \in catalog.terms : t.cost \in Int
      BY <1>6, CatalogsAssumption DEF CatalogKeys
    <2> QED BY <2>1, <2>2
  <1> HIDE DEF byEan, bySku, lower, warned
  <1>11. warned <=> \E t \in TermForRow(index, row) : lower(t)
    BY <1>8, <1>9, <1>10
  <1>12. warned => \E t \in byEan \cup bySku : lower(t)
    BY <1>8, <1>11
  <1>13. byEan # {} => (warned <=> \A t \in byEan : lower(t))
    BY <1>8, <1>11
  <1>14. bySku # {} /\ (\A t \in byEan \cup bySku : lower(t)) => warned
    BY <1>8, <1>11
  <1> QED BY <1>12, <1>13, <1>14 DEF CostJudged, byEan, bySku, lower, warned

\* A cost is called an increase exactly against the terms in force, unless the
\* catalog changed between the handler's two reads of it (documents/catalog.py,
\* documents/catalog_rules.py).
THEOREM CostsAreJudged == IntakeSpec => CostJudgedByTermsInForce
  <1>1. IntakeInit => OnceInv /\ StatusInv /\ PricedInv
    BY InitOnce, EditsAssumption DEF IntakeInit, StatusInv, PricedInv, NoRead
  <1>2. WorkerInv /\ HistoryInv /\ ObjectsInv /\ OnceInv /\ StatusInv /\ PricedInv
          /\ [IntakeNext]_vars => OnceInv' /\ StatusInv' /\ PricedInv'
    BY NextOnce, NextStatus, NextPriced
  <1>3. WorkerInv /\ HistoryInv /\ ObjectsInv /\ OnceInv /\ StatusInv /\ PricedInv
          /\ [IntakeNext]_vars =>
        [\A w \in Workers :
           stage[w] = "priced" /\ stage'[w] = "done" /\ read[w].at = edits =>
             \A row \in SheetOf(job[w]).rows :
               row["cost"].kind = "number" => CostJudged(row, draft'[w].findings)]_vars
    BY CostStep
  <1> QED
    BY <1>1, <1>2, <1>3, QueueInvariants, ObjectsHold, PTL
    DEF IntakeSpec, CostJudgedByTermsInForce

=============================================================================
