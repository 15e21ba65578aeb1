------------------------- MODULE ReconciliationRuns --------------------------
(***************************************************************************)
(* Reconciliation sessions over documents that keep changing               *)
(* (procurement/orchestrate.py, load.py, persist.py and the table of       *)
(* domain/models/reconciliation.py).                                       *)
(*                                                                         *)
(* A session reads its documents, the catalog and the latest run of the    *)
(* scope in separate statements under READ COMMITTED, evaluates what it    *)
(* read, and either answers with the latest run or stores the next         *)
(* version; the unique (scope_key, version) refuses the slower of two.  A  *)
(* row the session has already loaded keeps the values of that first read  *)
(* (SQLAlchemy's identity map).  One supplier; a header and its lines are  *)
(* read together.  The documents and the catalog are written elsewhere:    *)
(* one edit puts a row of the given sets in place.                         *)
(***************************************************************************)
EXTENDS ReconciliationRules

CONSTANTS OrderRows, ReceiptRows, InvoiceRows,   \* what a document's row may say
          Indexes,        \* what the catalog and the supplier's terms may say
          FirstBooks,     \* the tables the system may start from
          Tolerances,     \* [quantity, money, percent]
          Requests,       \* [po, invoice, tolerances], None where not given
          Sessions,
          MaxEdits, MaxRequests   \* bounds on the edits and on the requests

\* What the tables' keys allow: an id names one row, a number one order.
UniqueIds(table) == \A a, b \in table : a.id = b.id => a = b
UniqueNumbers(table) == \A a, b \in table : a.number = b.number => a = b

\* What their checks allow of a line, and that a line stays with its document.
Counted(line) == line.quantity \in Nat \ {0}
Priced(line) == Counted(line) /\ line.cost \in Nat /\ line.rate \in Nat /\ line.total \in Nat
LinesApart(rows) ==
  \A a, b \in rows : a.id # b.id => \A l \in a.lines, k \in b.lines : l.id # k.id

ASSUME RowsAssumption ==
  /\ \A row \in OrderRows \cup ReceiptRows \cup InvoiceRows :
       IsFiniteSet(row.lines) /\ UniqueIds(row.lines)
  /\ \A row \in OrderRows \cup InvoiceRows : \A l \in row.lines : Priced(l)
  /\ \A row \in ReceiptRows : \A l \in row.lines : Counted(l)
  /\ LinesApart(ReceiptRows) /\ LinesApart(InvoiceRows)
ASSUME BooksAssumption ==
  \A book \in FirstBooks :
    /\ book.orders \subseteq OrderRows /\ book.receipts \subseteq ReceiptRows
    /\ book.invoices \subseteq InvoiceRows /\ book.index \in Indexes
    /\ \A table \in {book.orders, book.receipts, book.invoices} :
         IsFiniteSet(table) /\ UniqueIds(table)
    /\ UniqueNumbers(book.orders)
ASSUME TolerancesAssumption ==
  /\ Tolerances \subseteq [quantity : Nat, money : Nat, percent : Nat]
  /\ \A r \in Requests : r.tolerances \in Tolerances
ASSUME RequestsAssumption ==
  Requests # {} /\ \A r \in Requests : r.po # None \/ r.invoice # None
ASSUME BoundsAssumption == MaxEdits \in Nat /\ MaxRequests \in Nat

VARIABLES orders, receipts, invoices, index,  \* the tables
          runs,                               \* reconciliation_runs
          pc, ask, seed, found, copy, catalog, latest, answer,  \* sessions
          disturbed,      \* whether an edit fell inside or after the request
          edits, requests

tables == <<orders, receipts, invoices, index>>
copies == <<seed, found, copy, catalog, latest>>
vars == <<orders, receipts, invoices, index, runs, pc, ask, seed, found, copy,
          catalog, latest, answer, disturbed, edits, requests>>

Live(row) == row.status # "cancelled"
Documents == [receipts : SUBSET ReceiptRows, invoices : SUBSET InvoiceRows]
Nothing == [receipts |-> {}, invoices |-> {}]
AnyIndex == CHOOSE i \in Indexes : TRUE

-----------------------------------------------------------------------------
(* What a run is keyed by, and what its fingerprint covers.                *)

ScopeKey(theOrders, r) ==
  IF theOrders = {} THEN <<"invoice", r.invoice>>
  ELSE <<"po", (CHOOSE o \in theOrders : TRUE).number>>

\* As if the tolerances were not part of the payload.
FingerprintOfDocuments(records, t) ==
  [orders |-> records.orders, receipts |-> records.receipts,
   invoices |-> records.invoices, tolerances |-> [quantity |-> 0]]

\* Equal hashes are taken for equal payloads.  Statuses, and the order and the
\* number a receipt or an invoice cites, are not part of the payload.
Fingerprint(records, t) ==
  [orders |-> {[id |-> o.id, number |-> o.number, currency |-> o.currency,
                lines |-> o.lines] : o \in records.orders},
   receipts |-> {[id |-> r.id, lines |-> r.lines] : r \in records.receipts},
   invoices |-> {[id |-> i.id, currency |-> i.currency, lines |-> i.lines]
                   : i \in records.invoices},
   tolerances |-> t]

Selected(s) == [orders |-> found[s], receipts |-> copy[s].receipts,
                invoices |-> copy[s].invoices]

\* The row persist_run writes; records and index are kept for the properties.
Run(s, version) ==
  LET exceptions == Evaluate(Selected(s), catalog[s], ask[s].tolerances) IN
  [scope |-> ScopeKey(found[s], ask[s]), version |-> version,
   fingerprint |-> Fingerprint(Selected(s), ask[s].tolerances),
   exceptions |-> exceptions, impact |-> Impact(exceptions),
   errors |-> Cardinality({e \in exceptions : e.code \in Errors}),
   warnings |-> Cardinality({e \in exceptions : e.code \in Warnings}),
   records |-> Selected(s), index |-> catalog[s]]

-----------------------------------------------------------------------------
Init ==
  /\ \E book \in FirstBooks :
       /\ orders = book.orders /\ receipts = book.receipts
       /\ invoices = book.invoices /\ index = book.index
  /\ runs = {}
  /\ pc = [s \in Sessions |-> "idle"]
  /\ ask = [s \in Sessions |-> CHOOSE r \in Requests : TRUE]
  /\ seed = [s \in Sessions |-> {}] /\ found = [s \in Sessions |-> {}]
  /\ copy = [s \in Sessions |-> Nothing]
  /\ catalog = [s \in Sessions |-> AnyIndex]
  /\ latest = [s \in Sessions |-> {}] /\ answer = [s \in Sessions |-> {}]
  /\ disturbed = [s \in Sessions |-> FALSE]
  /\ edits = 0 /\ requests = 0

Put(table, row) == {r \in table : r.id # row.id} \cup {row}

\* Someone stores a document, changes it, or changes the catalog.
Edit ==
  /\ edits < MaxEdits
  /\ edits' = edits + 1
  /\ \/ /\ \E row \in OrderRows : orders' = Put(orders, row)
        /\ UniqueNumbers(orders')
        /\ UNCHANGED <<receipts, invoices, index>>
     \/ /\ \E row \in ReceiptRows : receipts' = Put(receipts, row)
        /\ UNCHANGED <<orders, invoices, index>>
     \/ /\ \E row \in InvoiceRows : invoices' = Put(invoices, row)
        /\ UNCHANGED <<orders, receipts, index>>
     \/ /\ index' \in Indexes
        /\ UNCHANGED <<orders, receipts, invoices>>
  /\ tables' # tables
  /\ disturbed' = [s \in Sessions |-> TRUE]
  /\ UNCHANGED <<runs, pc, ask, copies, answer, requests>>

\* The request ends, with or without an answer; what it read is forgotten.
End(s, result) ==
  /\ pc' = [pc EXCEPT ![s] = "idle"]
  /\ answer' = [answer EXCEPT ![s] = result]
  /\ seed' = [seed EXCEPT ![s] = {}]
  /\ found' = [found EXCEPT ![s] = {}]
  /\ copy' = [copy EXCEPT ![s] = Nothing]
  /\ catalog' = [catalog EXCEPT ![s] = AnyIndex]
  /\ latest' = [latest EXCEPT ![s] = {}]
  /\ UNCHANGED <<tables, ask, disturbed, edits, requests>>

Ask(s, r) ==
  /\ pc[s] = "idle" /\ requests < MaxRequests
  /\ requests' = requests + 1
  /\ ask' = [ask EXCEPT ![s] = r]
  /\ answer' = [answer EXCEPT ![s] = {}]
  /\ disturbed' = [disturbed EXCEPT ![s] = FALSE]
  /\ pc' = [pc EXCEPT ![s] = IF r.invoice = None THEN "named" ELSE "seed"]
  /\ UNCHANGED <<tables, runs, copies, edits>>

\* The invoice asked for; an unknown or a cancelled one refuses the run.
SeedHits(s) == {i \in invoices : i.id = ask[s].invoice /\ Live(i)}

ReadSeed(s) ==
  /\ pc[s] = "seed" /\ SeedHits(s) # {}
  /\ seed' = [seed EXCEPT ![s] = SeedHits(s)]
  /\ pc' = [pc EXCEPT ![s] = "order"]
  /\ UNCHANGED <<tables, runs, ask, found, copy, catalog, latest, answer,
                 disturbed, edits, requests>>

\* The live order that invoice is linked to or, unlinked, cites by number.
ReadOrder(s) ==
  /\ pc[s] = "order"
  /\ found' = [found EXCEPT ![s] =
                 {o \in orders : Live(o) /\ \E i \in seed[s] : BelongsTo(i, o)}]
  /\ pc' = [pc EXCEPT ![s] = IF ask[s].po = None THEN "invoices" ELSE "named"]
  /\ UNCHANGED <<tables, runs, ask, seed, copy, catalog, latest, answer,
                 disturbed, edits, requests>>

\* The order asked for: refused when unknown, cancelled, or not the one the
\* invoice led to.  An order already loaded keeps its first copy.
NamedHits(s) ==
  LET named == {o \in orders : o.number = ask[s].po}
  IN  IF found[s] = {} THEN {o \in named : Live(o)}
      ELSE {o \in found[s] : o.id \in {n.id : n \in named}}

ReadNamed(s) ==
  /\ pc[s] = "named" /\ NamedHits(s) # {}
  /\ found' = [found EXCEPT ![s] = NamedHits(s)]
  /\ pc' = [pc EXCEPT ![s] = "invoices"]
  /\ UNCHANGED <<tables, runs, ask, seed, copy, catalog, latest, answer,
                 disturbed, edits, requests>>

Refuse(s) ==
  /\ \/ pc[s] = "seed" /\ SeedHits(s) = {}
     \/ pc[s] = "named" /\ NamedHits(s) = {}
  /\ End(s, {})
  /\ UNCHANGED runs

\* Live rows that carry the order's key or cite its number.
Citing(table, o) == {d \in table : Live(d) /\ (d.order = o.id \/ d.number = o.number)}

InvoicesFor(theOrders, theSeed, table) ==
  IF theOrders = {} THEN theSeed
  ELSE LET rows == UNION {Citing(table, o) : o \in theOrders}
           known == {i.id : i \in theSeed}
       IN  {i \in rows : i.id \notin known}
             \cup {i \in theSeed : i.id \in {r.id : r \in rows}}

ReceiptsFor(theOrders, table) == UNION {Citing(table, o) : o \in theOrders}

ReadInvoices(s) ==
  /\ pc[s] = "invoices"
  /\ copy' = [copy EXCEPT ![s] =
                [receipts |-> {}, invoices |-> InvoicesFor(found[s], seed[s], invoices)]]
  /\ pc' = [pc EXCEPT ![s] = "receipts"]
  /\ UNCHANGED <<tables, runs, ask, seed, found, catalog, latest, answer,
                 disturbed, edits, requests>>

ReadReceipts(s) ==
  /\ pc[s] = "receipts"
  /\ copy' = [copy EXCEPT ![s] =
                [receipts |-> ReceiptsFor(found[s], receipts), invoices |-> copy[s].invoices]]
  /\ pc' = [pc EXCEPT ![s] = "catalog"]
  /\ UNCHANGED <<tables, runs, ask, seed, found, catalog, latest, answer,
                 disturbed, edits, requests>>

ReadCatalog(s) ==
  /\ pc[s] = "catalog"
  /\ catalog' = [catalog EXCEPT ![s] = index]
  /\ pc' = [pc EXCEPT ![s] = "latest"]
  /\ UNCHANGED <<tables, runs, ask, seed, found, copy, latest, answer,
                 disturbed, edits, requests>>

LatestRuns(key) ==
  {r \in runs : r.scope = key
     /\ \A other \in runs : other.scope = key => other.version <= r.version}

ReadLatest(s) ==
  /\ pc[s] = "latest"
  /\ latest' = [latest EXCEPT ![s] = LatestRuns(ScopeKey(found[s], ask[s]))]
  /\ pc' = [pc EXCEPT ![s] = "deciding"]
  /\ UNCHANGED <<tables, runs, ask, seed, found, copy, catalog, answer,
                 disturbed, edits, requests>>

Reusable(s) ==
  {r \in latest[s] : r.fingerprint = Fingerprint(Selected(s), ask[s].tolerances)}

Reuse(s) ==
  /\ pc[s] = "deciding" /\ Reusable(s) # {}
  /\ End(s, Reusable(s))
  /\ UNCHANGED runs

NextVersion(s) ==
  IF latest[s] = {} THEN 1 ELSE (CHOOSE r \in latest[s] : TRUE).version + 1

\* As if the table had no unique constraint.
NeverTaken(s) == FALSE

\* The unique constraint on (scope_key, version).
Taken(s) ==
  \E r \in runs : r.scope = ScopeKey(found[s], ask[s]) /\ r.version = NextVersion(s)

Persist(s) ==
  /\ pc[s] = "deciding" /\ Reusable(s) = {} /\ ~Taken(s)
  /\ LET run == Run(s, NextVersion(s))
     IN  runs' = runs \cup {run} /\ End(s, {run})

LoseRace(s) ==
  /\ pc[s] = "deciding" /\ Reusable(s) = {} /\ Taken(s)
  /\ End(s, {})
  /\ UNCHANGED runs

SessionStep(s) ==
  \/ \E r \in Requests : Ask(s, r)
  \/ ReadSeed(s) \/ ReadOrder(s) \/ ReadNamed(s) \/ Refuse(s)
  \/ ReadInvoices(s) \/ ReadReceipts(s) \/ ReadCatalog(s) \/ ReadLatest(s)
  \/ Reuse(s) \/ Persist(s) \/ LoseRace(s)

Next == Edit \/ \E s \in Sessions : SessionStep(s)
Spec == Init /\ [][Next]_vars

-----------------------------------------------------------------------------
(* Properties.                                                             *)

ReconciliationTypeOK ==
  /\ orders \subseteq OrderRows /\ receipts \subseteq ReceiptRows
  /\ invoices \subseteq InvoiceRows /\ index \in Indexes
  /\ pc \in [Sessions -> {"idle", "seed", "order", "named", "invoices", "receipts",
                          "catalog", "latest", "deciding"}]
  /\ ask \in [Sessions -> Requests] /\ disturbed \in [Sessions -> BOOLEAN]
  /\ seed \in [Sessions -> SUBSET InvoiceRows]
  /\ found \in [Sessions -> SUBSET OrderRows]
  /\ \A s \in Sessions : Cardinality(seed[s]) <= 1 /\ Cardinality(found[s]) <= 1
  /\ copy \in [Sessions -> Documents] /\ catalog \in [Sessions -> Indexes]
  /\ \A s \in Sessions : Cardinality(latest[s]) <= 1
  /\ edits \in 0..MaxEdits /\ requests \in 0..MaxRequests

\* The versions of a scope are 1, 2, 3, ... with no gap and no repeat, and each
\* was stored because its inputs differ from those of the version before,
\* whoever else was reconciling the same scope (orchestrate.py:43-48).
VersionsTell ==
  /\ \A r, q \in runs : r.scope = q.scope /\ r.version = q.version => r = q
  /\ \A r \in runs :
       \/ r.version = 1
       \/ \E q \in runs : /\ q.scope = r.scope /\ q.version = r.version - 1
                          /\ q.fingerprint # r.fingerprint

\* What load_scope selects when nothing moves between its statements.
OrdersOf(r) ==
  IF r.po # None THEN {o \in orders : o.number = r.po}
  ELSE {o \in orders : Live(o) /\ \E i \in invoices : i.id = r.invoice /\ BelongsTo(i, o)}
SelectedNow(r) ==
  [orders |-> OrdersOf(r),
   receipts |-> {d \in receipts : Live(d) /\ \E o \in OrdersOf(r) :
                                    d.order = o.id \/ d.number = o.number},
   invoices |-> {i \in invoices : Live(i) /\
                   IF OrdersOf(r) = {} THEN i.id = r.invoice
                   ELSE \E o \in OrdersOf(r) : i.order = o.id \/ i.number = o.number}]

Cited(table) == {<<d.id, d.order, d.number>> : d \in table}
Links(docs) == <<Cited(docs.receipts), Cited(docs.invoices)>>

\* A request nothing disturbed is answered by a run of the documents as they
\* stand, new or reused, and the run's exceptions are the ones they give, save
\* when the catalog or a document's order was changed since the run was stored:
\* the fingerprint does not cover these (persist.py:25-86).
AnswerIsCurrent ==
  [][\A s \in Sessions : \A r \in answer'[s] \ answer[s] :
       ~disturbed[s] =>
         LET now == SelectedNow(ask[s]) IN
         /\ r.fingerprint = Fingerprint(now, ask[s].tolerances)
         /\ r.index = index /\ Links(r.records) = Links(now)
              => r.exceptions = Evaluate(now, index, ask[s].tolerances)]_answer

Strict(r) == \A bound \in DOMAIN r.fingerprint.tolerances : r.fingerprint.tolerances[bound] = 0
Codes(r) == {e.code : e \in r.exceptions}
BilledBy(r) ==
  UNION {i.lines : i \in {i \in r.records.invoices :
                            \E o \in r.records.orders : BelongsTo(i, o)}}
DeliveredBy(r) ==
  UNION {d.lines : d \in {d \in r.records.receipts :
                            \E o \in r.records.orders : BelongsTo(d, o)}}
OrderedBy(r) == UNION {o.lines : o \in r.records.orders}

\* With no tolerance, when all lines have found their order line and none of
\* the other amounts is off, the impacts of a run add up to what was billed
\* less what was ordered, however the quantities went astray between order,
\* receipts and invoices.  A line off both in price and against its receipts
\* is left out: rules.py:208,226,242 and 277 then count the price twice.
ImpactAddsUp ==
  [][\A r \in runs' \ runs :
       LET price == {"cost_mismatch"}
           receipt == {"short_receipt", "over_receipt"}
           invoice == {"over_invoice", "under_invoice", "invoice_without_receipt"}
       IN  /\ r.records.orders # {} /\ Strict(r)
           /\ Codes(r) \subseteq receipt \cup price \/ Codes(r) \subseteq receipt \cup invoice
           => r.impact = Value(BilledBy(r)) - Value(OrderedBy(r))]_runs

\* A run over an order that reports nothing, with no tolerance, means the three
\* documents agree: as many pieces ordered, delivered and billed in all and,
\* unless a receipt line cites the order line of another product, of each
\* product; and the bill is for the value ordered.
CleanRunsAgree ==
  [][\A r \in runs' \ runs :
       r.records.orders # {} /\ Strict(r) /\ r.exceptions = {} =>
         /\ Quantity(DeliveredBy(r)) = Quantity(OrderedBy(r))
         /\ Quantity(BilledBy(r)) = Quantity(OrderedBy(r))
         /\ Value(BilledBy(r)) = Value(OrderedBy(r))
         /\ \A p \in OrderedBy(r) :
              (\A d \in DeliveredBy(r) : \A o \in OrderedBy(r) :
                 d.po_line = o.id => d.product = o.product)
              => p.quantity =
                   Quantity({d \in DeliveredBy(r) : d.product = p.product})]_runs

\* Raising a tolerance only silences: whatever a run reports under wider
\* tolerances it would have reported, with the same impact, under tighter ones
\* (rules.py:166-251 tests the two quantity gaps one after the other).
RaisingSilences ==
  [][\A r \in runs' \ runs :
       LET reports == {<<t, Evaluate(r.records, r.index, t)>> : t \in Tolerances} IN
       \A tight, wide \in reports :
         (\A bound \in DOMAIN tight[1] : tight[1][bound] <= wide[1][bound])
           => wide[2] \subseteq tight[2]]_runs
=============================================================================
