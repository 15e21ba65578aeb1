--------------------------- MODULE DocumentIntake ---------------------------
(***************************************************************************)
(* From an upload to the findings about it (api/routes/jobs.py, documents/ *)
(* storage.py, s3.py, process.py, persist.py and the intake handler of     *)
(* jobs/handlers.py), on top of the database queue: the request stores the *)
(* bytes, then the job; the worker reads them back and writes a document   *)
(* and its findings in the transaction that finishes the job.              *)
(*                                                                         *)
(* A request that dies is one that takes no further step.  Every upload    *)
(* draws a storage key of its own; a job keeps the key of the upload that  *)
(* created it.                                                             *)
(***************************************************************************)
EXTENDS DatabaseQueue, SupplierSheet

CONSTANTS Uploads,    \* upload requests, each with the storage key it draws
          Sheets,     \* what the uploaded bytes can be read as
          JobOf,      \* the job whose idempotency key each of them maps to
          Catalogs,   \* the catalogs there may be
          MaxEdits,   \* bound on changes of the catalog
          Outages     \* whether a service or the database may fail a call

ASSUME UploadsAssumption == None \notin Uploads
ASSUME JobOfAssumption == JobOf \in [Sheets -> Jobs]

\* Every row has a number of its own in its file.
ASSUME SheetsAssumption ==
  \A sheet \in Sheets :
    /\ sheet.rows \subseteq SheetRow
    /\ \A row, other \in sheet.rows : row.number = other.number => row = other

ASSUME CatalogsAssumption == \A stock \in Catalogs : CatalogKeys(stock)
ASSUME EditsAssumption == MaxEdits \in Nat
ASSUME OutagesAssumption == Outages \in BOOLEAN

VARIABLES objects,     \* what stands under each storage key
          request,     \* the storage key in each job's request
          documents,   \* supplier_documents with their findings
          stage,       \* how far each worker's handler has come
          read,        \* the products it has read, and when
          draft,       \* the status and findings it has flushed
          catalog,
          edits

handlerVars == <<stage, read, draft>>
requestVars == <<objects, request>>
catalogVars == <<catalog, edits>>
intakeVars == <<requestVars, documents, handlerVars, catalogVars>>
vars == <<workerVars, intakeVars>>

Stages == {"out", "loaded", "read", "inserted", "parsed", "priced", "done"}
FinalStatuses == {"parse_failed", "review_ready"}

Steps == {"none", "bytes", "stored", "answered"}
NoSheet == [read |-> "nothing", rows |-> {}]

NoRead == [products |-> {}, at |-> 0]
NoDraft == [status |-> "received", findings |-> {}]

IntakeInit ==
  /\ WorkerInit
  /\ objects = [u \in Uploads |-> [step |-> "none", sheet |-> NoSheet]]
  /\ request = [j \in Jobs |-> None]
  /\ documents = {}
  /\ stage = [w \in Workers |-> "out"]
  /\ read = [w \in Workers |-> NoRead]
  /\ draft = [w \in Workers |-> NoDraft]
  /\ catalog \in Catalogs
  /\ edits = 0

SheetOf(j) == objects[request[j]].sheet
Key(w) == request[job[w]]

----------------------------------------------------------------------------
(* The upload request.  Its guards (a supported suffix, not empty, not too *)
(* large) are what a member of Sheets has passed.                          *)

\* An object store takes bytes and description at once; the file store writes
\* the bytes, then a sidecar.
SaveBytes(u, sheet) ==
  /\ objects[u].step = "none"
  /\ \E step \in {"bytes", "stored"} :
       objects' = [objects EXCEPT ![u] = [step |-> step, sheet |-> sheet]]
  /\ UNCHANGED <<workerVars, request, documents, handlerVars, catalogVars>>

WriteSidecar(u) ==
  /\ objects[u].step = "bytes"
  /\ objects' = [objects EXCEPT ![u].step = "stored"]
  /\ UNCHANGED <<workerVars, request, documents, handlerVars, catalogVars>>

\* Mutant: the job is stored before the object is complete.
SubmitEarly(u) ==
  /\ objects[u].step \in {"bytes", "stored"}
  /\ LET j == JobOf[objects[u].sheet]
     IN  \/ Enqueue(j) /\ request' = [request EXCEPT ![j] = u]
         \/ rows[j].state # "absent" /\ UNCHANGED <<workerVars, request>>
  /\ UNCHANGED <<objects, documents, handlerVars, catalogVars>>

\* Mutant: a failed job is opened again when its file is sent again.
SubmitReopens(u) ==
  /\ objects[u].step = "stored"
  /\ objects' = [objects EXCEPT ![u].step = "answered"]
  /\ LET j == JobOf[objects[u].sheet]
     IN  \/ Enqueue(j) /\ request' = [request EXCEPT ![j] = u]
         \/ /\ rows[j].state = "failed"
            /\ rows' = [rows EXCEPT ![j].state = "queued"]
            /\ UNCHANGED <<pc, sessionVars, applied, lapses, faults, request>>
         \/ /\ rows[j].state \notin {"absent", "failed"}
            /\ UNCHANGED <<workerVars, request>>
  /\ UNCHANGED <<documents, handlerVars, catalogVars>>

\* A key already taken answers with the job there is, whatever its state; the
\* object just stored then belongs to no job.
Submit(u) ==
  /\ objects[u].step = "stored"
  /\ objects' = [objects EXCEPT ![u].step = "answered"]
  /\ LET j == JobOf[objects[u].sheet]
     IN  \/ Enqueue(j) /\ request' = [request EXCEPT ![j] = u]
         \/ rows[j].state # "absent" /\ UNCHANGED <<workerVars, request>>
  /\ UNCHANGED <<documents, handlerVars, catalogVars>>

----------------------------------------------------------------------------
(* The handler, between LoadJob and CommitWork.                            *)

Stage(w, next) == stage' = [stage EXCEPT ![w] = next]

\* The session of the handler is closed or rolled back.
Discard(w) ==
  /\ Stage(w, "out")
  /\ read' = [read EXCEPT ![w] = NoRead]
  /\ draft' = [draft EXCEPT ![w] = NoDraft]

Begin(w) ==
  /\ LoadJob(w)
  /\ Stage(w, "loaded")
  /\ UNCHANGED <<requestVars, documents, read, draft, catalogVars>>

\* PermanentJobError is not retried; every other exception is.
Raise(w, retry) ==
  /\ HandlerRaises(w)
  /\ again'[w] = retry
  /\ Discard(w)
  /\ UNCHANGED <<requestVars, documents, catalogVars>>

ReadBytes(w) ==
  /\ stage[w] = "loaded"
  /\ Stage(w, "read")
  /\ UNCHANGED <<workerVars, requestVars, documents, read, draft, catalogVars>>

\* A store that cannot be read is taken for one that never will be.
StoreFails(w) == Outages /\ stage[w] = "loaded" /\ Raise(w, FALSE)

Inserting(w) == stage[w] \in {"inserted", "parsed", "priced", "done"}

\* Mutant: storage_key is not unique.
InsertAnyway(w) ==
  /\ stage[w] = "read"
  /\ Stage(w, "inserted")
  /\ UNCHANGED <<workerVars, requestVars, documents, read, draft, catalogVars>>

\* storage_key is unique: an insert waits for the transaction that inserted the
\* same key, and is refused if that one commits.
InsertDocument(w) ==
  /\ stage[w] = "read"
  /\ \A v \in Workers : Inserting(v) => Key(v) # Key(w)
  /\ \A d \in documents : d.key # Key(w)
  /\ Stage(w, "inserted")
  /\ UNCHANGED <<workerVars, requestVars, documents, read, draft, catalogVars>>

InsertRefused(w) ==
  /\ stage[w] = "read"
  /\ \E d \in documents : d.key = Key(w)
  /\ Raise(w, TRUE)

\* ParseError: the document keeps what was wrong with the file.
ParseRefused(w) ==
  /\ stage[w] = "inserted"
  /\ SheetOf(job[w]).read = "refused"
  /\ Stage(w, "done")
  /\ draft' = [draft EXCEPT ![w] =
       [status |-> "parse_failed",
        findings |-> {Finding("parse_failed", "error", "", 0, 0)}]]
  /\ UNCHANGED <<workerVars, requestVars, documents, read, catalogVars>>

\* Any other exception of the reading libraries, or of a rule.
Raises(sheet) == sheet.read = "unreadable" \/ RulesRaise(sheet.rows)

ParseRaises(w) ==
  /\ stage[w] = "inserted"
  /\ Raises(SheetOf(job[w]))
  /\ Raise(w, TRUE)

\* Parse and apply the rules that need no catalog.
Parse(w) ==
  /\ stage[w] = "inserted"
  /\ LET sheet == SheetOf(job[w])
     IN  /\ sheet.read = "rows"
         /\ ~Raises(sheet)
         /\ draft' = [draft EXCEPT ![w] =
              [status |-> "parsed", findings |-> SheetFindings(sheet.rows)]]
  /\ Stage(w, "parsed")
  /\ UNCHANGED <<workerVars, requestVars, documents, read, catalogVars>>

ReadProducts(w) ==
  /\ stage[w] = "parsed"
  /\ read' = [read EXCEPT ![w] =
       [products |-> LiveProducts(catalog), at |-> edits]]
  /\ Stage(w, "priced")
  /\ UNCHANGED <<workerVars, requestVars, documents, draft, catalogVars>>

\* The index a handler compares with, given the order its query answered in.
Indexes(w) ==
  LET terms == LiveTerms(catalog, read[w].products)
  IN  {[products |-> read[w].products, terms |-> terms, last |-> last] :
         last \in LastTerms(terms)}

\* The terms are read by a later statement than the products.
CompareWithCatalog(w) ==
  /\ stage[w] = "priced"
  /\ LET listed == SheetOf(job[w]).rows
     IN  \E index \in Indexes(w) :
           \/ /\ CatalogRaises(listed, index)
              /\ Raise(w, TRUE)
           \/ /\ ~CatalogRaises(listed, index)
              /\ draft' = [draft EXCEPT ![w] =
                   [status |-> "review_ready",
                    findings |-> @.findings \cup CatalogFindings(listed, index)]]
              /\ Stage(w, "done")
              /\ read' = [read EXCEPT ![w] = NoRead]
              /\ UNCHANGED <<workerVars, requestVars, documents, catalogVars>>

\* A call to the database or to hosted analysis fails.
CallFails(w) == Outages /\ stage[w] # "out" /\ Raise(w, TRUE)

Recorded(w) ==
  [key |-> Key(w), attempt |-> token[w], status |-> draft[w].status,
   findings |-> draft[w].findings]

\* Mutant: the document is committed as soon as it is inserted.
CommitReceived(w) ==
  /\ stage[w] \in {"inserted", "done"}
  /\ documents' = documents \cup {Recorded(w)}
  /\ IF stage[w] = "done"
     THEN CommitWork(w) /\ Discard(w)
     ELSE UNCHANGED <<workerVars, handlerVars>>
  /\ UNCHANGED <<requestVars, catalogVars>>

\* The document, its findings and the finished job commit together.
Finish(w) ==
  /\ stage[w] = "done"
  /\ CommitWork(w)
  /\ documents' = documents \cup {Recorded(w)}
  /\ Discard(w)
  /\ UNCHANGED <<requestVars, catalogVars>>

FinishTooLate(w) ==
  /\ stage[w] = "done"
  /\ ConflictOnSuccess(w)
  /\ Discard(w)
  /\ UNCHANGED <<requestVars, documents, catalogVars>>

Handle(w) ==
  \/ Begin(w) \/ ReadBytes(w) \/ StoreFails(w) \/ InsertDocument(w)
  \/ InsertRefused(w) \/ ParseRefused(w) \/ ParseRaises(w) \/ Parse(w)
  \/ ReadProducts(w) \/ CompareWithCatalog(w) \/ CallFails(w)
  \/ Finish(w) \/ FinishTooLate(w)

----------------------------------------------------------------------------
(* Around the handler.                                                     *)

Die(w) ==
  /\ Crash(w)
  /\ Discard(w)
  /\ UNCHANGED <<requestVars, documents, catalogVars>>

\* Everything else the queue and the worker do.
Elsewhere ==
  /\ \/ \E w \in Workers : \/ Lease(w) \/ Release(w) \/ Restart(w)
                           \/ ReadForFailure(w) \/ RecordFailure(w)
                           \/ LoseFailureRecord(w)
     \/ \E j \in Jobs : Clock(j)
  /\ UNCHANGED intakeVars

\* Another request, or an ingestion, commits a different catalog.
EditCatalog ==
  /\ edits < MaxEdits
  /\ edits' = edits + 1
  /\ catalog' \in Catalogs \ {catalog}
  /\ UNCHANGED <<workerVars, requestVars, documents, handlerVars>>

Upload(u) ==
  (\E sheet \in Sheets : SaveBytes(u, sheet)) \/ WriteSidecar(u) \/ Submit(u)

IntakeNext ==
  \/ \E u \in Uploads : Upload(u)
  \/ \E w \in Workers : Handle(w) \/ Die(w)
  \/ Elsewhere
  \/ EditCatalog

IntakeSpec == IntakeInit /\ [][IntakeNext]_vars

----------------------------------------------------------------------------
Severities == {"error", "warning", "info"}

IntakeTypeOK ==
  /\ WorkerTypeOK
  /\ objects \in [Uploads -> [step : Steps, sheet : Sheets \cup {NoSheet}]]
  /\ request \in [Jobs -> Uploads \cup {None}]
  /\ \A d \in documents : /\ d.key \in Uploads /\ d.attempt \in Nat
                          /\ \A f \in d.findings : f.severity \in Severities
  /\ stage \in [Workers -> Stages]
  /\ \A w \in Workers : stage[w] # "out" <=> pc[w] = "working"
  /\ catalog \in Catalogs
  /\ edits \in 0..MaxEdits

\* The handler is the one commit the worker model takes it for: what holds of
\* the queue's jobs whatever they do holds of intake jobs (jobs/worker.py).
ImplementsQueue == Spec

\* "Submitting twice must not process twice" (ADR-013): however often a file is
\* sent and however many leases of its job run out under their holders, its job
\* commits at most once and there is at most one document of it.  The job row
\* alone does not give this: after a lapse two holders may both pass `succeed`.
ProcessedOnce ==
  \A j \in Jobs :
    /\ applied[j] <= 1
    /\ Cardinality({d \in documents : d.key = request[j]}) = applied[j]

\* The object, the job and the document tell the same (api/routes/jobs.py,
\* documents/process.py, jobs/worker.py).  Whenever requests die, a job in the
\* table names an object stored whole whose bytes map to its key; a document is
\* never seen half done; a job that succeeded has one, and while no lease of a
\* job ran out a document means that the job succeeded.
JobTellsDocument ==
  /\ \A j \in Jobs : rows[j].state # "absent" =>
       /\ request[j] # None
       /\ objects[request[j]].step \in {"stored", "answered"}
       /\ JobOf[SheetOf(j)] = j
  /\ \A d \in documents : d.status \in FinalStatuses
  /\ \A j \in Jobs :
       LET own == {d \in documents : d.key = request[j]}
       IN  /\ rows[j].state = "succeeded" => own # {}
           /\ own # {} /\ lapses[j] = 0 => rows[j].state = "succeeded"

\* What is wrong with a cell, by itself or beside the other rows; the lower
\* bounds are also the check constraints of supplier_products.
Missing(row, c) == c \in RequiredFields /\ row[c].kind = "blank"

OutOfRange(row, c) ==
  \/ c = "vat" /\ row[c].kind = "nan"
  \/ /\ row[c].kind = "number"
     /\ \/ c \in {"cost", "minimum_order_quantity", "lead_time_days"} /\ row[c].value < 0
        \/ c = "case_pack" /\ row[c].value <= 0
        \/ c = "vat" /\ row[c].value \notin AllowedVat
  \/ c = "ean" /\ row[c].kind = "text" /\ row[c].value \notin WellFormedEans

Shared(listed, row, c) ==
  /\ c \in {"supplier_sku", "ean"} /\ row[c].kind = "text"
  /\ \E other \in listed : other.number # row.number /\ other[c] = row[c]

Wrong(listed, row, c) ==
  \/ row[c].kind = "malformed" \/ Missing(row, c)
  \/ OutOfRange(row, c) \/ Shared(listed, row, c)

\* A reviewed document blames exactly the cells that are wrong: none is let
\* through, none blamed for nothing, and no number twice ("a malformed cost is
\* not also reported as missing", documents/types.py:77).  An infinite cost is
\* not wrong to any rule (documents/rules.py, documents/parse.py).
FindingsExact ==
  \A d \in documents : d.status = "review_ready" =>
    LET listed == objects[d.key].sheet.rows
        errors(row, c) == {f \in d.findings : /\ f.severity = "error"
                                              /\ f.row = row.number /\ f.field = c}
    IN  \A row \in listed, c \in Columns :
          /\ errors(row, c) # {} <=> Wrong(listed, row, c)
          /\ c \notin TextColumns => Cardinality(errors(row, c)) <= 1

\* What the findings about a row say of its cost, beside the catalog as it is.
CostJudged(row, findings) ==
  LET live(t) == /\ t.live /\ t.supplier = Supplier
                 /\ \E p \in catalog.products : p.live /\ p.id = t.product
      mine == {t \in catalog.terms : live(t)}
      byEan == {t \in mine : \E p \in catalog.products :
                  /\ p.id = t.product /\ row["ean"].kind = "text"
                  /\ p.ean = row["ean"].value}
      bySku == {t \in mine : /\ row["supplier_sku"].kind = "text"
                             /\ t.sku = row["supplier_sku"].value}
      lower(t) == t.cost < row["cost"].value
      warned == \E f \in findings : f.code = "cost_increase" /\ f.row = row.number
  IN  /\ warned => \E t \in byEan \cup bySku : lower(t)
      /\ byEan # {} => (warned <=> \A t \in byEan : lower(t))
      /\ bySku # {} /\ (\A t \in byEan \cup bySku : lower(t)) => warned

\* A cost is called an increase exactly against the terms in force: the term of
\* the product that bears the row's barcode decides, and only without one the
\* terms under the supplier's number, of which any may be taken when there are
\* several - provided the catalog did not change between the handler's two
\* reads of it (documents/catalog.py, documents/catalog_rules.py).
CostJudgedByTermsInForce ==
  [][\A w \in Workers :
       stage[w] = "priced" /\ stage'[w] = "done" /\ read[w].at = edits =>
         \A row \in SheetOf(job[w]).rows :
           row["cost"].kind = "number" => CostJudged(row, draft'[w].findings)]_vars

=============================================================================
