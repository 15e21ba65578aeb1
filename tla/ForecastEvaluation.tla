------------------------- MODULE ForecastEvaluation -------------------------
(***************************************************************************)
(* A forecast job (jobs/handlers.py run_forecast): evaluate_run.py reads   *)
(* the panel from the database, walks every baseline forward and stores    *)
(* one run per fold.  The span, the store codes, the category codes and    *)
(* the sales are four statements, each of which sees what was committed    *)
(* before it; meanwhile another program ingests a catalog and its sales    *)
(* in one transaction.  One evaluation at a time: two share no row.        *)
(***************************************************************************)
EXTENDS ForecastRules

CONSTANTS Batches,         \* what the other program may ingest
          Units,           \* what may have been sold instead (NoLeakage)
          Horizons, MinTrains,   \* what a request may ask
          MaxHorizon, MaxMinTrain,   \* 26 and 260 in the code
          InitialDatabases,   \* what a behaviour may start with
          MaxIngests, MaxEvaluations   \* bounds

\* A sale of a batch, and the category its catalog files the product under.
Batch == [row : [store : Stores, product : Products, day : Nat, units : Nat],
          category : Categories]

\* One row for a store, product and day.
SalesRows(rows) ==
  /\ IsFiniteSet(rows)
  /\ \A s \in rows :
       s.store \in Stores /\ s.product \in Products /\ s.day \in Nat /\ s.units \in Nat
  /\ \A s, q \in rows :
       s.store = q.store /\ s.product = q.product /\ s.day = q.day => s = q

\* The catalog's rows, and the foreign keys of a product and of a sale.
Consistent(rows, listing) ==
  /\ listing.stores \subseteq Stores /\ listing.categories \subseteq Categories
  /\ DOMAIN listing.filed \subseteq Products
  /\ \A p \in DOMAIN listing.filed : listing.filed[p] \in listing.categories
  /\ \A s \in rows : s.store \in listing.stores /\ s.product \in DOMAIN listing.filed

ASSUME SalesAssumption ==
  /\ Batches \subseteq Batch /\ Units \subseteq Nat
  /\ \A db \in InitialDatabases : SalesRows(db.sales) /\ Consistent(db.sales, db.catalog)
ASSUME AskedAssumption ==
  /\ MaxHorizon \in Nat /\ MaxMinTrain \in Nat
  /\ MaxIngests \in Nat /\ MaxEvaluations \in Nat

VARIABLES sales,      \* the sales rows
          catalog,    \* the stores, the categories and the filing of products
          step,       \* where the evaluation stands
          request,    \* its horizon and its least training history
          weeks,      \* the weeks of the span it read
          known,      \* the stores and the categories it read
          since,      \* history: the entities ingested since it read the stores
          panel,      \* the panel it built
          stored,     \* the folds stored, tagged with their evaluation
          ingests, evaluations

evaluationVars ==
  <<sales, catalog, step, request, weeks, known, since, panel, stored, ingests, evaluations>>

NoPanel == [c \in {} |-> {}]
NothingKnown == [stores |-> {}, categories |-> {}]

EvaluationInit ==
  /\ \E db \in InitialDatabases : sales = db.sales /\ catalog = db.catalog
  /\ step = "idle"
  /\ request = [horizon |-> 0, minTrain |-> 0]
  /\ weeks = {}
  /\ known = NothingKnown
  /\ since = {}
  /\ panel = NoPanel
  /\ stored = {}
  /\ ingests = 0
  /\ evaluations = 0

Listed(row, category) ==
  [stores |-> catalog.stores \cup {row.store},
   categories |-> catalog.categories \cup {category},
   filed |-> [p \in DOMAIN catalog.filed \cup {row.product} |->
                IF p = row.product THEN category ELSE catalog.filed[p]]]

\* The catalog and the sales of a batch are committed together; a row for a
\* store, product and day replaces the one stored before.
Ingest(row, category) ==
  /\ ingests < MaxIngests
  /\ ingests' = ingests + 1
  /\ catalog' = Listed(row, category)
  /\ sales' = {row} \cup
       {s \in sales : s.store # row.store \/ s.product # row.product \/ s.day # row.day}
  /\ since' = IF step \in {"placed", "listed"}
              THEN since \cup {<<row.store, category>>} ELSE since
  /\ UNCHANGED <<step, request, weeks, known, panel, stored, evaluations>>

EndEvaluation ==
  /\ step' = "idle"
  /\ request' = [horizon |-> 0, minTrain |-> 0]
  /\ weeks' = {}
  /\ known' = NothingKnown
  /\ since' = {}
  /\ panel' = NoPanel

Request(horizon, minTrain) ==
  /\ step = "idle"
  /\ evaluations < MaxEvaluations
  /\ evaluations' = evaluations + 1
  /\ horizon \in 1..MaxHorizon
  /\ minTrain \in 1..MaxMinTrain
  /\ request' = [horizon |-> horizon, minTrain |-> minTrain]
  /\ step' = "requested"
  /\ UNCHANGED <<sales, catalog, weeks, known, since, panel, stored, ingests>>

ReadSpan ==
  /\ step = "requested"
  /\ Span(sales) # {}
  /\ weeks' = Span(sales)
  /\ step' = "spanned"
  /\ UNCHANGED <<sales, catalog, request, known, since, panel, stored, ingests, evaluations>>

ReadStores ==
  /\ step = "spanned"
  /\ known' = [stores |-> catalog.stores, categories |-> {}]
  /\ step' = "placed"
  /\ UNCHANGED <<sales, catalog, request, weeks, since, panel, stored, ingests, evaluations>>

ReadCategories ==
  /\ step = "placed"
  /\ known' = [stores |-> known.stores, categories |-> catalog.categories]
  /\ step' = "listed"
  /\ UNCHANGED <<sales, catalog, request, weeks, since, panel, stored, ingests, evaluations>>

\* A sale is read with the category its product is filed under by now; one of
\* a store or a category that was not read is in no cell of the panel.
ReadSales ==
  /\ step = "listed"
  /\ known.stores # {} /\ known.categories # {}
  /\ panel' = DatabasePanel(sales, catalog.filed, known, weeks)
  /\ step' = "read"
  /\ UNCHANGED <<sales, catalog, request, weeks, known, since, stored, ingests, evaluations>>

\* The holdout split is made before the backtest and must be possible.
LongEnough ==
  /\ Cardinality(weeks) >= Validation + Test + 1
  /\ Cardinality(weeks) >= request.minTrain + request.horizon

PersistBacktest ==
  /\ step = "read"
  /\ LongEnough
  /\ stored' = stored \cup
       {[evaluation |-> evaluations, fold |-> f] :
          f \in Folds(panel, request.horizon, request.minTrain)}
  /\ EndEvaluation
  /\ UNCHANGED <<sales, catalog, ingests, evaluations>>

\* The empty catalog is checked for; a stored sale rules it out.
NoHistory ==
  CASE step = "requested" -> Span(sales) = {}
    [] step = "listed" -> known.stores = {} \/ known.categories = {}
    [] step = "read" -> ~LongEnough
    [] OTHER -> FALSE

\* A ValueError fails the job for good and stores nothing.
RejectHistory ==
  /\ NoHistory
  /\ EndEvaluation
  /\ UNCHANGED <<sales, catalog, stored, ingests, evaluations>>

EvaluationNext ==
  \/ \E batch \in Batches : Ingest(batch.row, batch.category)
  \/ \E horizon \in Horizons, minTrain \in MinTrains : Request(horizon, minTrain)
  \/ ReadSpan
  \/ ReadStores
  \/ ReadCategories
  \/ ReadSales
  \/ PersistBacktest
  \/ RejectHistory

EvaluationSpec == EvaluationInit /\ [][EvaluationNext]_evaluationVars

EvaluationTypeOK ==
  /\ SalesRows(sales) /\ Consistent(sales, catalog)
  /\ step \in {"idle", "requested", "spanned", "placed", "listed", "read"}
  /\ request \in [horizon : Nat, minTrain : Nat]
  /\ \A w \in weeks : w \in Int
  /\ known \in [stores : SUBSET Stores, categories : SUBSET Categories]
  /\ since \subseteq Stores \X Categories
  /\ panel = NoPanel \/ panel \in [known.stores \X known.categories -> [weeks -> Nat]]
  /\ \A r \in stored : r.evaluation \in 1..MaxEvaluations /\ r.fold.model \in Models
  /\ ingests \in 0..MaxIngests
  /\ evaluations \in 0..MaxEvaluations

-----------------------------------------------------------------------------
(* Properties.                                                             *)

\* What the weeks after a cutoff might have been instead.
Rewritten(p, cutoff, units) ==
  [c \in DOMAIN p |-> [w \in DOMAIN p[c] |-> IF w > cutoff THEN units ELSE p[c][w]]]

\* No baseline and no feature row reads a week after its cutoff: a stored
\* prediction, and the rows a model would predict from at that cutoff or be
\* fitted on up to it, are the same whatever is sold afterwards (models.py,
\* features.py; docs/architecture/ml-forecasting.md on leakage).
NoLeakage ==
  [][\A r \in stored' \ stored : \A units \in Units :
       LET fold == r.fold
           other == Rewritten(panel, fold.cutoff, units)
       IN  /\ fold.predicted =
                Predictions(fold.model, other, fold.cutoff, fold.horizon)
           /\ InferenceRows(panel, fold.cutoff, fold.horizon) =
                InferenceRows(other, fold.cutoff, fold.horizon)
           /\ Supervised(panel, fold.cutoff, fold.horizon, request.minTrain) =
                Supervised(other, fold.cutoff, fold.horizon, request.minTrain)]_stored

\* An evaluation walks every cutoff that leaves the history and the horizon
\* asked for, with every baseline and no other cutoff, and each of its folds
\* is scored on every predicted week of every store and category it read
\* (backtest.py).
EveryFoldScored ==
  [][stored' # stored =>
       LET new == stored' \ stored
           Cutoffs(model) == {r.fold.cutoff : r \in {q \in new : q.fold.model = model}}
       IN  /\ \A model \in Models :
                Cutoffs(model) =
                  {w \in weeks :
                     /\ Cardinality({v \in weeks : v <= w}) >= request.minTrain
                     /\ Cardinality({v \in weeks : v > w}) >= request.horizon}
           /\ \A r \in new :
                r.fold.score.count =
                  request.horizon * Cardinality(known.stores \X known.categories)]_stored

\* The sales reach from the Monday to the Sunday of every week of the panel an
\* evaluation built: no partial week lowers a target.  It counts each sale of
\* its weeks once, of the stores and categories it had read.  A sale it leaves
\* out is of a store or of a category that was ingested after the stores were
\* read: without such a commit between its statements it leaves out none
\* (database_frame.py:38-88, weeks.py; ingestion/cli.py:152-156).
PanelCountsSales ==
  [][step = "listed" /\ step' = "read" =>
       LET inWeeks == {s \in sales : WeekOf(s.day) \in weeks}
           counted == {s \in inWeeks :
                         EntityOf(s, catalog.filed) \in known.stores \X known.categories}
       IN  /\ \A w \in weeks :
                /\ \E s \in sales : s.day <= Monday(w)
                /\ \E s \in sales : s.day >= Monday(w + 1) - 1
           /\ SumFunction([s \in counted |-> s.units])
                = SumFunction([p \in (DOMAIN panel') \X weeks |-> panel'[p[1]][p[2]]])
           /\ \A s \in inWeeks \ counted : \E e \in since :
                \/ e[1] = s.store /\ s.store \notin known.stores
                \/ e[2] = catalog.filed[s.product] /\ e[2] \notin known.categories]_step

=============================================================================
