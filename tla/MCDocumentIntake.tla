-------------------------- MODULE MCDocumentIntake --------------------------
(* Instances of DocumentIntake for TLC. *)
EXTENDS DocumentIntake, TLC

CONSTANTS w1, w2, u1, u2

\* Workers are alike, and so are uploads; every property here is a safety one.
Alike == Permutations({w1, w2}) \cup Permutations({u1, u2})

ServesAll == [w \in Workers |-> Jobs]

\* Text 1 is a barcode and 9 is not; the same numbers stand for supplier numbers.
Good(n) ==
  [number |-> n, supplier_sku |-> Cell("text", n), ean |-> Cell("text", n),
   description |-> Cell("text", 1), category |-> Cell("text", 1),
   cost |-> Cell("number", 10), vat |-> Cell("number", 16),
   case_pack |-> Cell("number", 1),
   minimum_order_quantity |-> Cell("number", 0),
   lead_time_days |-> Cell("number", 0)]

\* One of every error, and cells at the edge of each range.
Faulty ==
  {[Good(2) EXCEPT !.cost = Cell("malformed", 0), !.case_pack = Cell("number", 0),
                   !.ean = Cell("text", 9), !.category = Blank],
   [Good(3) EXCEPT !.supplier_sku = Cell("text", 2), !.ean = Cell("text", 9),
                   !.cost = Cell("number", -1), !.vat = Cell("number", 7),
                   !.case_pack = Cell("malformed", 0)],
   [Good(4) EXCEPT !.ean = Blank, !.vat = Cell("nan", 0), !.lead_time_days = Cell("number", -1),
                   !.minimum_order_quantity = Blank]}

\* Rows compared with the catalogs below: by barcode, by number, by both.
OfferLines ==
  {Good(2), [Good(3) EXCEPT !.ean = Blank, !.cost = Cell("number", 12)],
   [Good(4) EXCEPT !.supplier_sku = Cell("text", 3), !.category = Cell("text", 2)]}

Rows(listed) == [read |-> "rows", rows |-> listed]
NotRows(why) == [read |-> why, rows |-> {}]

\* A file no library can read does what the NaN does.
Contents ==
  {Rows(Faulty), Rows(OfferLines),
   Rows({[Good(2) EXCEPT !.cost = Cell("nan", 0)]}),
   Rows({[Good(2) EXCEPT !.cost = Cell("infinite", 0)]}),
   NotRows("refused")}

OneJob == [sheet \in Contents |-> 1]

\* Supplier 1's terms: the number 2 leads to another product than the barcode 2,
\* the number 3 stands in two terms, and supplier 2 uses the number 2 as well.
Product(id, ean, live) == [id |-> id, ean |-> ean, category |-> 1, live |-> live]
Term(supplier, product, sku, cost) ==
  [supplier |-> supplier, product |-> product, sku |-> sku, cost |-> cost,
   live |-> TRUE]

Terms ==
  {Term(1, 1, 0, 12), Term(1, 3, 2, 5), Term(1, 2, 3, 11), Term(1, 4, 3, 20),
   Term(2, 1, 2, 1)}

Stocked(first) ==
  [products |-> {Product(1, 2, first), Product(2, 4, TRUE), Product(3, 0, TRUE),
                 Product(4, 0, TRUE)},
   terms |-> Terms]

TwoCatalogs == {Stocked(TRUE), Stocked(FALSE)}
NoCatalog == {[products |-> {}, terms |-> {}]}

Corrupt == {NotRows("unreadable")}
OneCorruptJob == [sheet \in Corrupt |-> 1]

=============================================================================
