------------------------ MODULE MCReconciliationRuns -------------------------
(* Instances of ReconciliationRuns for TLC: two orders of one supplier, two  *)
(* products, a receipt and two invoices that are stored late, corrected,     *)
(* cancelled, or moved to the other order.                                   *)
EXTENDS ReconciliationRuns, TLC

CONSTANTS s1, s2

Rate == 16
Ordered(id, product, quantity, cost) ==
  [id |-> id, product |-> product, quantity |-> quantity, cost |-> cost, rate |-> Rate,
   total |-> quantity * cost + HalfEven(quantity * cost * Rate, RateScale)]
Invoiced(id, product, sku, ean, quantity, cost, rate) ==
  [id |-> id, product |-> product, sku |-> sku, ean |-> ean, quantity |-> quantity,
   cost |-> cost, rate |-> rate,
   total |-> quantity * cost + HalfEven(quantity * cost * rate, RateScale)]
Received(id, product, cited, quantity) ==
  [id |-> id, product |-> product, po_line |-> cited, quantity |-> quantity]

Order(id, number, status, lines) ==
  [id |-> id, number |-> number, status |-> status, currency |-> "MXN", lines |-> lines]
Receipt(id, order, number, status, lines) ==
  [id |-> id, order |-> order, number |-> number, status |-> status, lines |-> lines]
Invoice(id, order, number, status, currency, lines) ==
  [id |-> id, order |-> order, number |-> number, status |-> status,
   currency |-> currency, lines |-> lines]

Cola == Ordered("a1", "cola", 3, 5)
Rice == Ordered("a2", "rice", 2, 7)
ColaTwice == {Cola, Ordered("a3", "cola", 1, 5)}

OrderA == Order("A", "PO-A", "open", {Cola, Rice})
OrderB == Order("B", "PO-B", "open", {Ordered("b1", "cola", 1, 5)})
MCOrderRows ==
  {OrderA, OrderB, Order("A", "PO-A", "cancelled", {Cola, Rice}),
   Order("A", "PO-A", "open", ColaTwice)}

InFull == {Received("r1", "cola", "a1", 3), Received("r2", "rice", None, 2)}
MCReceiptRows ==
  {Receipt("R", "A", None, "posted", InFull), Receipt("R", "A", None, "cancelled", InFull),
   Receipt("R", None, "PO-A", "posted", {Received("r1", "cola", "a1", 3)}),
   Receipt("R", "A", None, "posted", {Received("r1", "rice", "a1", 3), Received("r2", "rice", None, 4)}),
   Receipt("Q", "A", "PO-B", "posted", {Received("q1", "cola", "b1", 1)}),
   Receipt("Q", "A", "PO-B", "posted", {Received("q1", "cola", "a1", 1)})}

AsOrdered == {Invoiced("i1", "cola", None, None, 3, 5, Rate), Invoiced("i2", None, "SKU", None, 2, 7, Rate)}
InTwo == {Invoiced("i1", None, None, "EAN", 2, 5, Rate), Invoiced("i2", "rice", "SKU", None, 2, 7, Rate)}
MCInvoiceRows ==
  {Invoice("I", "A", None, "received", "MXN", AsOrdered),
   Invoice("I", "A", None, "cancelled", "MXN", AsOrdered),
   Invoice("I", None, "PO-A", "received", "MXN", InTwo),
   Invoice("I", "B", "PO-A", "received", "MXN", InTwo),
   Invoice("J", None, "PO-A", "received", "MXN", {Invoiced("j1", "cola", None, None, 1, 5, Rate)}),
   Invoice("J", None, "PO-A", "received", "USD", {Invoiced("j1", "cola", "SKU", None, 4, 6, 0)}),
   Invoice("J", None, "PO-A", "received", "MXN", {Invoiced("j1", "cola", None, None, 3, 6, Rate)}),
   Invoice("J", "B", "PO-B", "received", "MXN", {Invoiced("j1", "cola", None, None, 1, 6, Rate)}),
   Invoice("J", None, "PO-X", "received", "MXN", {Invoiced("j1", None, None, None, 1, 5, Rate)})}

Catalog(skus, product) == [sku |-> [k \in {"SKU"} |-> skus], ean |-> [k \in {"EAN"} |-> product]]
MCIndexes == {Catalog({"rice"}, "cola"), Catalog({"rice", "cola"}, "cola"), Catalog({}, None)}

MCFirstIndex == Catalog({"rice"}, "cola")
MCFirstBooks ==
  {[orders |-> {OrderA}, index |-> MCFirstIndex,
    receipts |-> {Receipt("R", "A", None, "posted", InFull)},
    invoices |-> {Invoice("I", None, "PO-A", "received", "MXN", InTwo)}],
   [orders |-> {OrderA, OrderB}, index |-> MCFirstIndex,
    receipts |-> {Receipt("R", "A", None, "posted", InFull),
                  Receipt("Q", "A", "PO-B", "posted", {Received("q1", "cola", "a1", 1)})},
    invoices |-> {Invoice("I", "A", None, "received", "MXN", AsOrdered),
                  Invoice("J", "B", "PO-B", "received", "MXN",
                          {Invoiced("j1", "cola", None, None, 1, 6, Rate)})}]}

Zero == [quantity |-> 0, money |-> 0, percent |-> 0]
Loose == [quantity |-> 2, money |-> 0, percent |-> 20]
MCTolerances == {Zero, Loose, [Zero EXCEPT !.quantity = 1]}
MCRequests ==
  {[po |-> None, invoice |-> "I", tolerances |-> Zero],
   [po |-> "PO-A", invoice |-> None, tolerances |-> Zero],
   [po |-> "PO-A", invoice |-> None, tolerances |-> Loose],
   [po |-> "PO-A", invoice |-> "J", tolerances |-> Zero]}

Symmetry == Permutations(Sessions)
=============================================================================
