-------------------------- MODULE MCCatalogDatabase --------------------------
(***************************************************************************)
(* Instances for TLC of the catalog's database: its schema, moved by two   *)
(* commands at once with every revision as a target, and its contents,     *)
(* loaded by two processes from a directory that a generator replaces.     *)
(* The two share no state, so a behaviour is one of them.                  *)
(***************************************************************************)
EXTENDS SchemaMigrations, CatalogLoading

EveryRevision == 0..LastRevision

-----------------------------------------------------------------------------
(* Two datasets a generator writes.  In the second the categories change   *)
(* places, a barcode moves to the product after, a price and a term change *)
(* and a product, a store and a day are new.                               *)

CategoryRow(code, parent) == [code |-> code, name |-> "name", parent_code |-> parent]
ProductRow(sku, name, category, ean) ==
  [sku |-> sku, name |-> name, category_code |-> category, ean |-> ean]
TermRow(sku, cost, pack) ==
  [supplier_code |-> "SUP-A", product_sku |-> sku, cost |-> cost, case_pack |-> pack,
   minimum_order_quantity |-> 0, lead_time_days |-> 0]
StoreRow(code) == [code |-> code, name |-> "name", region |-> "north", store_type |-> "city"]
SaleRow(sku, day, units, price) ==
  [store_code |-> "ST-1", product_sku |-> sku, business_date |-> day, units_sold |-> units,
   unit_price |-> price, discount_amount |-> 0, stock_on_hand |-> 0]
DayRow(day) == [business_date |-> day, weekday |-> day - 1, demand_multiplier |-> 1]

FirstDataset ==
  [categories |-> <<CategoryRow("A", None), CategoryRow("B", "A")>>,
   products |-> <<ProductRow("SKU-1", "tea", "B", "ean1"), ProductRow("SKU-2", "mug", "A", None)>>,
   suppliers |-> <<[code |-> "SUP-A", name |-> "name"]>>,
   supplier_products |-> <<TermRow("SKU-1", 10, 1), TermRow("SKU-2", 0, 2)>>,
   stores |-> <<StoreRow("ST-1")>>,
   daily_sales |-> <<SaleRow("SKU-1", 1, 2, 10), SaleRow("SKU-2", 1, 0, 0)>>,
   calendar |-> <<DayRow(1)>>]

SecondDataset ==
  [categories |-> <<CategoryRow("A", "B"), CategoryRow("B", None)>>,
   products |-> <<ProductRow("SKU-1", "green tea", "B", None), ProductRow("SKU-2", "mug", "A", "ean1"),
                  ProductRow("SKU-3", "pot", "B", None)>>,
   suppliers |-> <<[code |-> "SUP-A", name |-> "name"]>>,
   supplier_products |-> <<TermRow("SKU-3", 10, 1), TermRow("SKU-1", 10, 3), TermRow("SKU-2", 0, 2)>>,
   stores |-> <<StoreRow("ST-2"), StoreRow("ST-1")>>,
   daily_sales |-> <<SaleRow("SKU-1", 1, 3, 10), SaleRow("SKU-3", 2, 0, 20)>>,
   calendar |-> <<DayRow(1), DayRow(2)>>]

BothDatasets == {FirstDataset, SecondDataset}

FilesOf(dataset) == [t \in Tables |-> FileOf(t, dataset[t])]

\* The files of the first dataset with one cell, row or file wrong: one defect
\* of every kind a check is there for, and one the checks let through.
Cell(t, i, c, value) == [FilesOf(FirstDataset) EXCEPT ![t].rows[i][c] = value]
Again(t) == [FilesOf(FirstDataset) EXCEPT ![t].rows = @ \o <<@[1]>>]
Without(t) == [FilesOf(FirstDataset) EXCEPT ![t].rows = Tail(@)]

FlawedFiles ==
  {[FilesOf(FirstDataset) EXCEPT !.stores = NoFile],
   [FilesOf(FirstDataset) EXCEPT !.products.header = {"sku"}],
   Cell("categories", 1, "name", Blank), Cell("daily_sales", 1, "unit_price", Garbled),
   Cell("products", 1, "sku", "sku 1"), Cell("products", 1, "ean", "12"),
   Cell("categories", 1, "parent_code", "A"), Cell("categories", 1, "parent_code", "B"),
   Cell("categories", 2, "parent_code", "C"), Cell("products", 2, "category_code", "C"),
   Cell("products", 2, "ean", "ean1"), Cell("supplier_products", 1, "supplier_code", "SUP-B"),
   Cell("supplier_products", 1, "cost", -10), Cell("supplier_products", 1, "case_pack", 0),
   Cell("supplier_products", 1, "lead_time_days", -1),
   Cell("daily_sales", 2, "store_code", "ST-9"), Cell("daily_sales", 2, "units_sold", -1),
   Cell("daily_sales", 2, "business_date", 2), Cell("calendar", 1, "weekday", 7),
   Cell("calendar", 1, "demand_multiplier", 0),
   Again("categories"), Again("products"), Again("suppliers"), Again("supplier_products"),
   Again("stores"), Again("daily_sales"), Again("calendar"),
   Without("suppliers"), Without("supplier_products"), Without("stores")}

HeldFiles ==
  {Cell("products", 1, "name", "a very long name"), Cell("supplier_products", 1, "case_pack", 99),
   Cell("products", 2, "ean", "ean2")}

FirstDirectories == {FilesOf(FirstDataset)} \cup HeldFiles \cup FlawedFiles

-----------------------------------------------------------------------------
VARIABLE part

databaseVars == <<part, migrationVars, loadingVars>>

CONSTANT FirstLoader

(***************************************************************************)
(* The contents in three parts, which keep their product small: one loader *)
(* beside a writer at every file; two loaders, with a writer that is done  *)
(* before they go on; one loader of files that nobody generated.           *)
(***************************************************************************)
Mixing ==
  /\ part = "mixing"
  /\ \/ \E dataset \in Generated : StartWriting(dataset)
     \/ WriteFile \/ CutWriting
     \/ LoaderStep(FirstLoader)

Racing ==
  /\ part = "racing"
  /\ \/ \E dataset \in Generated : StartWriting(dataset)
     \/ WriteFile
     \/ \E l \in Loaders : writer = NoWriter /\ LoaderStep(l)

Refusing == part = "refusing" /\ LoaderStep(FirstLoader)

DatabaseInit ==
  /\ part \in {"schema", "mixing", "racing", "refusing"}
  /\ MigrationInit /\ LoadingInit
  /\ files = FilesOf(FirstDataset) \/ part = "refusing"

DatabaseNext ==
  /\ part' = part
  /\ \/ part = "schema" /\ MigrationNext /\ UNCHANGED loadingVars
     \/ (Mixing \/ Racing \/ Refusing) /\ UNCHANGED migrationVars

DatabaseSpec == DatabaseInit /\ [][DatabaseNext]_databaseVars

-----------------------------------------------------------------------------
\* Every flaw is found, and nothing is found in what a generator writes.
ASSUME FlawsAreFound ==
  /\ \A files0 \in FlawedFiles :
       LoadIssues(files0) # {} \/ ValidateDataset(LoadDataset(files0)) # {}
  /\ \A dataset \in BothDatasets : ValidateDataset(dataset) = {}

\* What is written is read back as the database will store it, with the same
\* checksum, in whatever order its rows are.
ASSUME FilesKeepDatasets ==
  \A price \in 0..40 :
    LET dataset == [FirstDataset EXCEPT !.daily_sales[1].unit_price = price]
        turned == [dataset EXCEPT !.products = <<@[2], @[1]>>]
        back == LoadDataset(FilesOf(dataset))
    IN  /\ DatasetChecksum(back) = DatasetChecksum(dataset)
        /\ DatasetChecksum(turned) = DatasetChecksum(dataset)
        /\ back = dataset <=> price % 10 = 0
        /\ SalesIssues(dataset.daily_sales, dataset) = {} <=> price % 10 = 0
=============================================================================
