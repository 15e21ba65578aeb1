----------------------------- MODULE DatasetRules ----------------------------
(***************************************************************************)
(* The portable dataset (dataset/contract.py, snapshot.py, validate.py):   *)
(* the columns of its seven files, what a reader makes of a cell, and the  *)
(* checks a dataset must pass.  A row is a function of its columns; money  *)
(* is counted in tenths of the smallest amount the database stores.        *)
(* Columns that no check, reference or comparison tells from a name        *)
(* (descriptions, tax ids, flags) are left out, and of an issue its        *)
(* wording and row number.                                                 *)
(***************************************************************************)
EXTENDS Integers, Sequences, FiniteSets

CONSTANTS None,      \* a value that is not there
          Blank,     \* a cell with nothing but white space
          Garbled,   \* a cell its column's type cannot be read from
          NoFile,    \* no such file
          Misshapen  \* identifiers that do not match their table's pattern

\* An empty cell is read as no value; it is not one.
ASSUME CellsAssumption == Blank # None

TableOrder == <<"categories", "products", "suppliers", "supplier_products", "stores",
                "daily_sales", "calendar">>
Tables == {TableOrder[i] : i \in DOMAIN TableOrder}

\* Columns that must hold text, that may be empty, that hold money, and the
\* other typed ones.
TextColumns ==
  [categories |-> {"code", "name"}, products |-> {"sku", "name", "category_code"},
   suppliers |-> {"code", "name"}, supplier_products |-> {"supplier_code", "product_sku"},
   stores |-> {"code", "name", "region", "store_type"},
   daily_sales |-> {"store_code", "product_sku"}, calendar |-> {}]
OptionalColumns ==
  [t \in Tables |-> CASE t = "categories" -> {"parent_code"} [] t = "products" -> {"ean"}
                      [] OTHER -> {}]
MoneyColumns ==
  [t \in Tables |-> CASE t = "supplier_products" -> {"cost"}
                      [] t = "daily_sales" -> {"unit_price", "discount_amount"}
                      [] OTHER -> {}]
NumberColumns ==
  [t \in Tables |->
     CASE t = "supplier_products" -> {"case_pack", "minimum_order_quantity", "lead_time_days"}
       [] t = "daily_sales" -> {"business_date", "units_sold", "stock_on_hand"}
       [] t = "calendar" -> {"business_date", "weekday", "demand_multiplier"}
       [] OTHER -> {}]
ColumnsOf(t) == TextColumns[t] \cup OptionalColumns[t] \cup MoneyColumns[t] \cup NumberColumns[t]

KeyColumns ==
  [categories |-> <<"code">>, products |-> <<"sku">>, suppliers |-> <<"code">>,
   supplier_products |-> <<"supplier_code", "product_sku">>, stores |-> <<"code">>,
   daily_sales |-> <<"store_code", "product_sku", "business_date">>,
   calendar |-> <<"business_date">>]
Key(t, row) == [i \in DOMAIN KeyColumns[t] |-> row[KeyColumns[t][i]]]

RowsIn(rows) == {rows[i] : i \in DOMAIN rows}
Keys(t, rows) == {Key(t, row) : row \in RowsIn(rows)}
Values(column, rows) == {row[column] : row \in RowsIn(rows)}

-----------------------------------------------------------------------------
(* The files.                                                              *)

\* Rounded to four places, a half to the even neighbour.
Quantized(money) ==
  LET down == money \div 10   rest == money % 10
  IN  10 * (IF rest > 5 \/ (rest = 5 /\ down % 2 = 1) THEN down + 1 ELSE down)

Formatted(t, row) ==
  [c \in ColumnsOf(t) |-> IF c \in MoneyColumns[t] THEN Quantized(row[c])
                        ELSE IF row[c] = None THEN Blank ELSE row[c]]

FileOf(t, rows) ==
  [header |-> ColumnsOf(t), rows |-> [i \in DOMAIN rows |-> Formatted(t, rows[i])]]

\* The rows of every table in the order of their keys: without repeated keys,
\* the set of them.
DatasetChecksum(dataset) ==
  [t \in Tables |-> {Formatted(t, row) : row \in RowsIn(dataset[t])}]

Issue(t, code, field, key) == [table |-> t, code |-> code, field |-> field, key |-> key]

ParseProblems(t, row) ==
  {c \in TextColumns[t] : row[c] = Blank}
    \cup {c \in MoneyColumns[t] \cup NumberColumns[t] : row[c] \in {Blank, Garbled}}

Parsed(t, row) ==
  [c \in ColumnsOf(t) |-> IF c \in MoneyColumns[t] THEN Quantized(row[c])
                        ELSE IF row[c] = Blank THEN None ELSE row[c]]

\* A file is read to its end; a row that cannot be parsed is an issue, whose
\* code the program takes from the wording of the error.
ReadIssues(t, file) ==
  IF file = NoFile THEN {Issue(t, "missing_column", None, None)}
  ELSE IF ~(ColumnsOf(t) \subseteq file.header) THEN {Issue(t, "missing_column", None, None)}
  ELSE {Issue(t, "unreadable", c, None) :
          c \in UNION {ParseProblems(t, row) : row \in RowsIn(file.rows)}}

LoadIssues(files) == UNION {ReadIssues(t, files[t]) : t \in Tables}
LoadDataset(files) ==
  [t \in Tables |-> [i \in DOMAIN files[t].rows |-> Parsed(t, files[t].rows[i])]]

-----------------------------------------------------------------------------
(* The checks.                                                             *)

Flagged(t, code, field, rows, Wrong(_)) ==
  {Issue(t, code, field, Key(t, row)) : row \in {r \in RowsIn(rows) : Wrong(r)}}

\* Mutant: a repeated key is looked for next to the first only.
DuplicatesApart(t, rows) ==
  {Issue(t, "duplicate_key", "key", Key(t, rows[i])) :
     i \in {j \in DOMAIN rows : \E k \in 1..(j - 2) : Key(t, rows[k]) = Key(t, rows[j])}}

DuplicateKeys(t, rows) ==
  {Issue(t, "duplicate_key", "key", Key(t, rows[i])) :
     i \in {j \in DOMAIN rows : \E k \in 1..(j - 1) : Key(t, rows[k]) = Key(t, rows[j])}}

MisshapenCodes(t, rows) ==
  LET field == KeyColumns[t][1]
      Wrong(row) == row[field] \in Misshapen
  IN  Flagged(t, "invalid_identifier", field, rows, Wrong)

Unnamed(t, fields, rows) ==
  {Issue(t, "null_required", pair[1], Key(t, pair[2])) :
     pair \in {p \in fields \X RowsIn(rows) : p[2][p[1]] = None}}

Unknown(t, field, rows, known) ==
  LET Wrong(row) == row[field] # None /\ row[field] \notin known
  IN  Flagged(t, "broken_reference", field, rows, Wrong)

Below(t, field, least, rows) ==
  LET Wrong(row) == row[field] < least
  IN  Flagged(t, "negative_value", field, rows, Wrong)

\* A chain of parents longer than the number of categories repeats one.
CategoryCycles(rows) ==
  LET last(code) == CHOOSE i \in DOMAIN rows :
                      /\ rows[i].code = code
                      /\ \A j \in DOMAIN rows : rows[j].code = code => j <= i
      parent == [code \in Values("code", rows) |-> rows[last(code)].parent_code]
      above(code) ==
        LET up[n \in Nat] == IF n = 0 THEN code
                             ELSE IF up[n - 1] \in DOMAIN parent THEN parent[up[n - 1]] ELSE None
        IN  up[Cardinality(DOMAIN parent) + 1]
  IN  {Issue("categories", "broken_reference", "parent_code", <<code>>) :
         code \in {c \in DOMAIN parent : above(c) # None}}

CategoryIssues(rows) ==
  LET Own(row) == row.parent_code = row.code
  IN  DuplicateKeys("categories", rows)
        \cup MisshapenCodes("categories", rows) \cup Unnamed("categories", {"name"}, rows)
        \cup Flagged("categories", "broken_reference", "parent_code", rows, Own)
        \cup Unknown("categories", "parent_code", rows, Values("code", rows))
        \cup CategoryCycles(rows)

ProductIssues(rows, categories) ==
  LET Shared(row) == row.ean # None /\ \E other \in RowsIn(rows) :
                       other.sku # row.sku /\ other.ean = row.ean
      Odd(row) == row.ean \in Misshapen
  IN  DuplicateKeys("products", rows)
        \cup MisshapenCodes("products", rows) \cup Unnamed("products", {"name"}, rows)
        \cup Flagged("products", "duplicate_key", "ean", rows, Shared)
        \cup Flagged("products", "invalid_identifier", "ean", rows, Odd)
        \cup Unknown("products", "category_code", rows, Values("code", categories))

SupplierIssues(rows) ==
  DuplicateKeys("suppliers", rows) \cup MisshapenCodes("suppliers", rows)
    \cup Unnamed("suppliers", {"name"}, rows)

TermIssues(rows, catalog) ==
  LET bare == Values("sku", catalog.products) \ Values("product_sku", rows)
  IN  DuplicateKeys("supplier_products", rows)
        \cup Unknown("supplier_products", "supplier_code", rows, Values("code", catalog.suppliers))
        \cup Unknown("supplier_products", "product_sku", rows, Values("sku", catalog.products))
        \cup Below("supplier_products", "cost", 0, rows)
        \cup Below("supplier_products", "case_pack", 1, rows)
        \cup Below("supplier_products", "minimum_order_quantity", 0, rows)
        \cup Below("supplier_products", "lead_time_days", 0, rows)
        \cup {Issue("supplier_products", "broken_reference", "product_sku", <<sku>>) : sku \in bare}

StoreIssues(rows) ==
  DuplicateKeys("stores", rows) \cup MisshapenCodes("stores", rows)
    \cup Unnamed("stores", {"name", "region", "store_type"}, rows)

SalesIssues(rows, catalog) ==
  LET Finer(row) == row.unit_price # Quantized(row.unit_price)
  IN  DuplicateKeys("daily_sales", rows)
        \cup Unknown("daily_sales", "store_code", rows, Values("code", catalog.stores))
        \cup Unknown("daily_sales", "product_sku", rows, Values("sku", catalog.products))
        \cup UNION {Below("daily_sales", field, 0, rows) :
                      field \in {"units_sold", "unit_price", "discount_amount", "stock_on_hand"}}
        \cup Flagged("daily_sales", "invalid_identifier", "unit_price", rows, Finer)

CalendarIssues(dataset) ==
  LET days == dataset.calendar
      Unlikely(day) == day.weekday \notin 0..6
      Unlisted(row) == days # << >> /\ row.business_date \notin Values("business_date", days)
  IN  DuplicateKeys("calendar", days)
        \cup Below("calendar", "demand_multiplier", 1, days)
        \cup Flagged("calendar", "invalid_date", "weekday", days, Unlikely)
        \cup Flagged("daily_sales", "invalid_date", "business_date", dataset.daily_sales, Unlisted)

ValidateCatalog(catalog) ==
  CategoryIssues(catalog.categories)
    \cup ProductIssues(catalog.products, catalog.categories)
    \cup SupplierIssues(catalog.suppliers)
    \cup TermIssues(catalog.supplier_products, catalog)
    \cup StoreIssues(catalog.stores)

ValidateDataset(dataset) ==
  ValidateCatalog(dataset) \cup SalesIssues(dataset.daily_sales, dataset) \cup CalendarIssues(dataset)
=============================================================================
