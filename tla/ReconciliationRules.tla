------------------------- MODULE ReconciliationRules -------------------------
(***************************************************************************)
(* The three-way match of procurement/match.py, rules.py and money.py:     *)
(* pure operators from the documents of one order, the catalog's identity  *)
(* index and the tolerances to the set of exceptions a run stores.         *)
(*                                                                         *)
(* Money is an integer counting the fourth decimal the database stores     *)
(* (0.0001), a rate an integer number of parts of RateScale, a quantity an *)
(* integer.  A document's lines are a set of records told apart by id.     *)
(* Messages, the expected and actual texts and the order of the report are *)
(* left out.                                                               *)
(***************************************************************************)
EXTENDS Integers, FiniteSets, FiniteSetsExt

CONSTANT RateScale   \* the units of a rate that make 100 %: 10^6 at four decimals
ASSUME RateScaleAssumption == RateScale \in Nat \ {0}

None == "none"

Quantity(lines) == SumFunction([l \in lines |-> l.quantity])
Value(lines) == SumFunction([l \in lines |-> l.quantity * l.cost])
Billed(lines) == SumFunction([l \in lines |-> l.total])

-----------------------------------------------------------------------------
(* money.py                                                                *)

\* n / d to the nearest integer, ties to even: quantize under the default
\* decimal context, for d > 0 and n of either sign.
HalfEven(n, d) ==
  LET q == n \div d
      r == n % d
  IN  IF 2 * r > d \/ (2 * r = d /\ q % 2 = 1) THEN q + 1 ELSE q

TaxOn(extended, rate) == HalfEven(extended * rate, RateScale)

LineTotal(line) ==
  LET extended == line.quantity * line.cost
  IN  extended + TaxOn(extended, line.rate)

Distance(a, b) == IF a < b THEN b - a ELSE a - b

QuantityWithin(expected, actual, t) == Distance(expected, actual) <= t.quantity

MoneyWithin(expected, actual, t) ==
  \/ Distance(expected, actual) <= t.money
  \/ /\ expected # 0
     /\ Distance(expected, actual) * RateScale <= t.percent * Distance(expected, 0)

-----------------------------------------------------------------------------
(* match.py                                                                *)

BelongsTo(doc, order) ==
  IF doc.order # None THEN doc.order = order.id
  ELSE doc.number # None /\ doc.number = order.number

SkuProducts(line, index) == IF line.sku = None THEN {} ELSE index.sku[line.sku]

\* The products the strategies of resolve_invoice_product name between them.
NamedProducts(line, index) ==
  ({line.product} \cup SkuProducts(line, index)
     \cup (IF line.ean = None THEN {} ELSE {index.ean[line.ean]})) \ {None}

InvoiceTargets(line, ordered, index) ==
  {p \in ordered : p.product \in NamedProducts(line, index)}

\* A cited order line is taken as it stands, whatever product the receipt names.
ReceiptTargets(line, ordered) ==
  IF line.po_line # None THEN {p \in ordered : p.id = line.po_line}
  ELSE {p \in ordered : p.product = line.product}

InvoiceIssue(line, ordered, index) ==
  CASE \/ Cardinality(SkuProducts(line, index)) > 1
       \/ Cardinality(NamedProducts(line, index)) > 1
       \/ Cardinality(InvoiceTargets(line, ordered, index)) > 1 -> "ambiguous_line"
    [] InvoiceTargets(line, ordered, index) = {} -> "unmatched_line"
    [] OTHER -> None

ReceiptIssue(line, ordered) ==
  CASE Cardinality(ReceiptTargets(line, ordered)) > 1 -> "ambiguous_line"
    [] ReceiptTargets(line, ordered) = {} -> "unmatched_line"
    [] OTHER -> None

-----------------------------------------------------------------------------
(* rules.py                                                                *)

Warnings == {"short_receipt", "over_receipt", "under_invoice", "unexpected_tax"}
Errors == {"unmatched_purchase_order", "ambiguous_line", "unmatched_line",
           "over_invoice", "invoice_without_receipt", "cost_mismatch",
           "line_total_mismatch", "currency_mismatch"}

\* An exception: its code, the line or document it is about, its impact.
Exception(code, about, impact) == [code |-> code, about |-> about, impact |-> impact]
When(condition, exception) == IF condition THEN {exception} ELSE {}

CheckLineTotal(line, t) ==
  When(~MoneyWithin(LineTotal(line), line.total, t),
       Exception("line_total_mismatch", line.id, line.total - LineTotal(line)))

CheckPrice(p, line, t) ==
  When(~MoneyWithin(p.cost, line.cost, t),
       Exception("cost_mismatch", line.id, line.quantity * (line.cost - p.cost)))
  \cup
  When(~MoneyWithin(p.rate, line.rate, t),
       Exception("unexpected_tax", line.id,
                 TaxOn(line.quantity * line.cost, line.rate - p.rate)))

UnitCost(billed, fallback) ==
  IF Quantity(billed) = 0 THEN fallback
  ELSE HalfEven(Value(billed), Quantity(billed))

ReceiptGap(p, received, t) ==
  LET impact == (received - p.quantity) * p.cost IN
  CASE QuantityWithin(p.quantity, received, t) -> {}
    [] received < p.quantity -> {Exception("short_receipt", p.id, impact)}
    [] OTHER -> {Exception("over_receipt", p.id, impact)}

\* As if a line nobody billed yet were left for a later run.
InvoiceGapIfBilled(p, received, billed, t) ==
  LET invoiced == Quantity(billed)
      impact == (invoiced - received) * UnitCost(billed, p.cost)
  IN  CASE invoiced = 0 \/ QuantityWithin(received, invoiced, t) -> {}
        [] received = 0 -> {Exception("invoice_without_receipt", p.id, impact)}
        [] invoiced > received -> {Exception("over_invoice", p.id, impact)}
        [] OTHER -> {Exception("under_invoice", p.id, impact)}

\* As if a bill were measured against the order instead of the deliveries.
InvoiceGapToOrder(p, received, billed, t) ==
  LET invoiced == Quantity(billed)
      impact == (invoiced - p.quantity) * UnitCost(billed, p.cost)
  IN  CASE QuantityWithin(p.quantity, invoiced, t) -> {}
        [] invoiced > p.quantity -> {Exception("over_invoice", p.id, impact)}
        [] OTHER -> {Exception("under_invoice", p.id, impact)}

InvoiceGap(p, received, billed, t) ==
  LET invoiced == Quantity(billed)
      impact == (invoiced - received) * UnitCost(billed, p.cost)
  IN  CASE QuantityWithin(received, invoiced, t) -> {}
        [] invoiced > 0 /\ received = 0 ->
             {Exception("invoice_without_receipt", p.id, impact)}
        [] invoiced > received -> {Exception("over_invoice", p.id, impact)}
        [] OTHER -> {Exception("under_invoice", p.id, impact)}

\* As if the first gap found ended the check of the line.
CheckFirstGap(p, delivered, billed, t) ==
  LET received == Quantity(delivered)
      gap == ReceiptGap(p, received, t)
  IN  IF gap # {} THEN gap ELSE InvoiceGap(p, received, billed, t)

CheckQuantities(p, delivered, billed, t) ==
  LET received == Quantity(delivered)
  IN  ReceiptGap(p, received, t) \cup InvoiceGap(p, received, billed, t)

UnmatchedOrder(invoice, t) ==
  {Exception("unmatched_purchase_order", invoice.id, Billed(invoice.lines))}
    \cup (UNION {CheckLineTotal(l, t)
                   \cup {Exception("unmatched_line", l.id, l.total)} : l \in invoice.lines})

CheckCurrency(order, invoice) ==
  When(invoice.currency # order.currency,
       Exception("currency_mismatch", invoice.id, Billed(invoice.lines)))

\* The pass over the lines of one order, of its deliveries and of its bills.
Clear(l, ordered, index) == InvoiceIssue(l, ordered, index) = None
Identified(l, ordered) == ReceiptIssue(l, ordered) = None
BilledTo(p, ordered, billed, index) ==
  {l \in billed : Clear(l, ordered, index) /\ p \in InvoiceTargets(l, ordered, index)}
DeliveredTo(p, ordered, delivered) ==
  {l \in delivered : Identified(l, ordered) /\ p \in ReceiptTargets(l, ordered)}

CheckLine(p, delivered, billed, t) ==
  CheckQuantities(p, delivered, billed, t) \cup (UNION {CheckPrice(p, l, t) : l \in billed})

EvaluateLines(ordered, delivered, billed, index, t) ==
  (UNION {CheckLineTotal(l, t) : l \in billed \cup ordered})
  \cup (UNION {When(~Clear(l, ordered, index),
                   Exception(InvoiceIssue(l, ordered, index), l.id, l.total)) : l \in billed})
  \cup (UNION {When(~Identified(l, ordered), Exception(ReceiptIssue(l, ordered), l.id, 0))
                 : l \in delivered})
  \cup (UNION {CheckLine(p, DeliveredTo(p, ordered, delivered),
                           BilledTo(p, ordered, billed, index), t) : p \in ordered})

\* The pass over one order, with the invoices and receipts that belong to it.
EvaluateOrder(order, receipts, invoices, index, t) ==
  (UNION {CheckCurrency(order, i) : i \in invoices})
  \cup EvaluateLines(order.lines, UNION {r.lines : r \in receipts},
                     UNION {i.lines : i \in invoices}, index, t)

Evaluate(records, index, t) ==
  IF records.orders = {}
  THEN UNION {UnmatchedOrder(i, t) : i \in records.invoices}
  ELSE UNION {EvaluateOrder(o, {r \in records.receipts : BelongsTo(r, o)},
                            {i \in records.invoices : BelongsTo(i, o)}, index, t)
                : o \in records.orders}

Impact(exceptions) == SumFunction([e \in exceptions |-> e.impact])
=============================================================================
