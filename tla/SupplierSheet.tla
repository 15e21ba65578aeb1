---------------------------- MODULE SupplierSheet ----------------------------
(***************************************************************************)
(* What a supplier sheet is read as and what the rules say of it           *)
(* (documents/parse.py, schema.py, rules.py, catalog.py, catalog_rules.py).*)
(*                                                                         *)
(* A sheet is what its bytes can be read as: refused as no supplier sheet, *)
(* unreadable (the reading library raises), or a set of rows.  A row gives *)
(* its number in the file and a cell for each canonical column.  Texts are *)
(* numbers that stand for them.  "infinite" is a number no amount of money *)
(* can be formatted from; a decimal cell may also hold the text "NaN",     *)
(* which the parser accepts.                                               *)
(***************************************************************************)
EXTENDS Integers, FiniteSets

CONSTANTS WellFormedEans,   \* texts of 8 to 14 digits
          AllowedVat,       \* RuleConfig.allowed_vat
          Supplier          \* whose sheets these are

ASSUME VatAssumption == AllowedVat \subseteq Nat

TextColumns == {"supplier_sku", "ean", "description", "category"}
DecimalColumns == {"cost", "vat"}
IntegerColumns == {"case_pack", "minimum_order_quantity", "lead_time_days"}
Columns == TextColumns \cup DecimalColumns \cup IntegerColumns
RequiredFields == Columns \ {"ean"}

Cell(kind, value) == [kind |-> kind, value |-> value]
Blank == Cell("blank", 0)

\* What a cell of each column may be, and a row.
TextCell == {Blank} \cup [kind : {"text"}, value : Nat \ {0}]
IntegerCell == [kind : {"blank", "malformed", "number"}, value : Int]
DecimalCell == [kind : {"blank", "malformed", "number", "nan", "infinite"}, value : Int]

SheetRow ==
  [number : Int, supplier_sku : TextCell, ean : TextCell, description : TextCell,
   category : TextCell, cost : DecimalCell, vat : DecimalCell, case_pack : IntegerCell,
   minimum_order_quantity : IntegerCell, lead_time_days : IntegerCell]

Invalid(row) == {c \in Columns \ TextColumns : row[c].kind = "malformed"}

\* What is kept of a cell: an unreadable one becomes None.
Given(row, c) == row[c].kind \notin {"blank", "malformed"}

\* NaN and Infinity compare with numbers by rules of their own.
Finite(row, c) == row[c].kind = "number"

Finding(code, severity, field, row, proposed) ==
  [code |-> code, severity |-> severity, field |-> field, row |-> row,
   proposed |-> proposed]

Blame(code, field, row) == Finding(code, "error", field, row.number, 0)

----------------------------------------------------------------------------
(* One row by itself.                                                      *)

Issues(row) == {Blame("malformed_value", c, row) : c \in Invalid(row)}

\* Mutant: a malformed cell is reported as missing too.
RequiredEvenIfInvalid(row) ==
  {Blame("required_field", c, row) : c \in {f \in RequiredFields : ~Given(row, f)}}

RequiredMissing(row) ==
  {Blame("required_field", c, row) :
     c \in {f \in RequiredFields \ Invalid(row) : ~Given(row, f)}}

EanFormat(row) ==
  IF Given(row, "ean") /\ row["ean"].value \notin WellFormedEans
  THEN {Blame("invalid_ean", "ean", row)} ELSE {}

CostNegative(row) ==
  IF Finite(row, "cost") /\ row["cost"].value < 0
  THEN {Blame("cost_negative", "cost", row)} ELSE {}

VatAllowed(row) ==
  IF /\ Given(row, "vat")
     /\ ~(Finite(row, "vat") /\ row["vat"].value \in AllowedVat)
  THEN {Blame("invalid_vat", "vat", row)} ELSE {}

\* case_pack must be positive, the other two not negative.
TooLow(row, code, c, least) ==
  IF Given(row, c) /\ row[c].value < least THEN {Blame(code, c, row)} ELSE {}

Amounts(row) ==
  TooLow(row, "case_pack_not_positive", "case_pack", 1)
    \cup TooLow(row, "moq_negative", "minimum_order_quantity", 0)
    \cup TooLow(row, "lead_time_negative", "lead_time_days", 0)

\* Every row of a group is blamed, the first one too.
Duplicates(rows, code, c) ==
  {Blame(code, c, row) :
     row \in {r \in rows : \E s \in rows \ {r} :
                Given(r, c) /\ Given(s, c) /\ r[c].value = s[c].value}}

SheetFindings(rows) ==
  (UNION {Issues(row) \cup RequiredMissing(row) \cup EanFormat(row)
            \cup CostNegative(row) \cup VatAllowed(row) \cup Amounts(row) :
            row \in rows})
    \cup Duplicates(rows, "duplicate_supplier_sku", "supplier_sku")
    \cup Duplicates(rows, "duplicate_ean", "ean")

\* The rules raise: a NaN cost cannot be ordered, and an infinite rate cannot
\* be written into the message that refuses it.
RulesRaise(rows) ==
  \E row \in rows : row["cost"].kind = "nan" \/ row["vat"].kind = "infinite"

----------------------------------------------------------------------------
(* The catalog.  A product is live when it and its category are active, a  *)
(* term when it and its supplier are.  One product bears a barcode and one *)
(* term links a supplier to a product, but a supplier may use one of its   *)
(* numbers in several terms.  0 is a barcode or a number that is not there. *)

\* What the keys and the constraints of the catalog's tables see to.
CatalogKeys(catalog) ==
  /\ \A p, q \in catalog.products :
       p.id = q.id \/ (p.ean = q.ean /\ p.ean # 0) => p = q
  /\ \A t, u \in catalog.terms :
       t.supplier = u.supplier /\ t.product = u.product => t = u
  /\ \A t \in catalog.terms : t.cost \in Int

LiveProducts(catalog) == {p \in catalog.products : p.live}

LiveTerms(catalog, products) ==
  {t \in catalog.terms : t.live /\ \E p \in products : p.id = t.product}

\* terms_by_supplier_and_sku keeps the term its unordered query gave last.
LastTerms(terms) ==
  {last \in SUBSET terms :
     /\ \A t \in last : t.sku # 0
     /\ \A t \in terms : t.sku # 0 =>
          Cardinality({u \in last : u.supplier = t.supplier /\ u.sku = t.sku}) = 1}

ByEan(index, row) == {p \in index.products : Given(row, "ean") /\ p.ean = row["ean"].value}

BySku(terms, row) ==
  {t \in terms : Given(row, "supplier_sku") /\ t.sku = row["supplier_sku"].value}

ProductOf(index, term) == CHOOSE p \in index.products : p.id = term.product

OwnTermByEan(index, row) ==
  {t \in index.terms :
     t.supplier = Supplier /\ \E p \in ByEan(index, row) : p.id = t.product}

OwnTermBySku(index, row) == {t \in BySku(index.last, row) : t.supplier = Supplier}

\* Mutant: the supplier's number is looked up before the barcode.
TermBySkuFirst(index, row) ==
  IF OwnTermBySku(index, row) # {}
  THEN OwnTermBySku(index, row) ELSE OwnTermByEan(index, row)

\* The term a row is compared with, as a set of at most one.
TermForRow(index, row) ==
  IF OwnTermByEan(index, row) # {}
  THEN OwnTermByEan(index, row) ELSE OwnTermBySku(index, row)

----------------------------------------------------------------------------
(* The catalog rules.                                                      *)

Note(code, severity, c, row, proposed) ==
  Finding(code, severity, c, row.number, proposed)

EanMatchesExisting(row, index) ==
  {Note("ean_matches_existing_product", "info", "ean", row, p.id) :
     p \in ByEan(index, row)}

SameIdentity(row, product) ==
  Given(row, "ean") => product.ean = row["ean"].value

SkuMappedElsewhere(row, index) ==
  {Note("supplier_sku_mapped_elsewhere",
        IF t.supplier = Supplier THEN "warning" ELSE "info",
        "supplier_sku", row, t.product) :
     t \in {u \in BySku(index.terms, row) :
              u.supplier = Supplier => ~SameIdentity(row, ProductOf(index, u))}}

\* Mutant: an unchanged cost is an increase.
CostNotLower(row, index) ==
  {Note("cost_increase", "warning", "cost", row, t.cost) :
     t \in {u \in TermForRow(index, row) :
              Finite(row, "cost") /\ row["cost"].value >= u.cost}}

CostIncrease(row, index) ==
  {Note("cost_increase", "warning", "cost", row, t.cost) :
     t \in {u \in TermForRow(index, row) :
              Finite(row, "cost") /\ row["cost"].value > u.cost}}

CategoryMismatch(row, index) ==
  {Note("category_mismatch", "warning", "category", row, p.category) :
     p \in {q \in ByEan(index, row) :
              Given(row, "category") /\ q.category # row["category"].value}}

CatalogFindings(rows, index) ==
  UNION {EanMatchesExisting(row, index) \cup SkuMappedElsewhere(row, index)
           \cup CostIncrease(row, index) \cup CategoryMismatch(row, index) :
           row \in rows}

\* An infinite cost is above any term and cannot be formatted.
CatalogRaises(rows, index) ==
  \E row \in rows : row["cost"].kind = "infinite" /\ TermForRow(index, row) # {}

=============================================================================
