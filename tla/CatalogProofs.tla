---------------------------- MODULE CatalogProofs ---------------------------
(***************************************************************************)
(* Loading a catalog, for any number of loaders, of loads and of rows and  *)
(* any directory that fits its tables.  A loader that no other overlapped  *)
(* holds, table by table, changes that bring the stored rows in line with  *)
(* the rows of its files; what the checks of a dataset rule out then says  *)
(* what the loaded tables are, and which refusals remain.  And the tables  *)
(* themselves, for any number of processes that migrate them: wherever     *)
(* they stop, the schema is a height of one chain of statements.           *)
(***************************************************************************)
EXTENDS CatalogLoading, SchemaMigrations, SumLemmas, SequenceTheorems

----------------------------------------------------------------------------
(* The tables and the rows of a file.                                      *)

\* The turn of a table.
Place(t) == CHOOSE i \in DOMAIN SyncOrder : SyncOrder[i] = t

\* The order of the tables: a code is stored before the rows that refer to it.
LEMMA Places ==
  /\ DOMAIN SyncOrder = 1..6 /\ CommitTurn = 7
  /\ Stored = {"categories", "stores", "suppliers", "products", "supplier_products",
               "daily_sales"}
  /\ Place("categories") = 1 /\ Place("stores") = 2 /\ Place("suppliers") = 3
  /\ Place("products") = 4 /\ Place("supplier_products") = 5 /\ Place("daily_sales") = 6
  /\ \A t \in Stored : Place(t) \in 1..6 /\ SyncOrder[Place(t)] = t
  /\ \A i \in 1..6 : SyncOrder[i] \in Stored /\ Place(SyncOrder[i]) = i
  <1>1. DOMAIN SyncOrder = 1..6 /\ CommitTurn = 7
    BY DEF SyncOrder, CommitTurn
  <1>2. /\ SyncOrder[1] = "categories" /\ SyncOrder[2] = "stores" /\ SyncOrder[3] = "suppliers"
        /\ SyncOrder[4] = "products" /\ SyncOrder[5] = "supplier_products"
        /\ SyncOrder[6] = "daily_sales"
    BY DEF SyncOrder
  <1>3. 1..6 = {1, 2, 3, 4, 5, 6}
    OBVIOUS
  <1>4. \A i, j \in 1..6 : SyncOrder[i] = SyncOrder[j] => i = j
    BY <1>2, <1>3
  <1>5. \A i \in 1..6 : Place(SyncOrder[i]) = i
    BY <1>1, <1>4 DEF Place
  <1>6. Stored = {SyncOrder[i] : i \in 1..6}
    BY <1>1 DEF Stored
  <1> HIDE DEF Place
  <1> QED BY <1>1, <1>2, <1>3, <1>5, <1>6

\* The stored tables are the files but the calendar.
LEMMA StoredAreTables ==
  /\ Stored \subseteq Tables
  /\ Tables = {"categories", "products", "suppliers", "supplier_products", "stores",
               "daily_sales", "calendar"}
  <1>1. DOMAIN TableOrder = {1, 2, 3, 4, 5, 6, 7}
    BY DEF TableOrder
  <1>2. Tables = {"categories", "products", "suppliers", "supplier_products", "stores",
                  "daily_sales", "calendar"}
    BY <1>1 DEF Tables, TableOrder
  <1> QED BY <1>2, Places

\* One function laid over another.
LEMMA OntoIs ==
  ASSUME NEW f, NEW g
  PROVE  /\ DOMAIN Onto(f, g) = DOMAIN f \cup DOMAIN g
         /\ \A x \in DOMAIN f : Onto(f, g)[x] = f[x]
         /\ \A x \in DOMAIN g \ DOMAIN f : Onto(f, g)[x] = g[x]
  BY DEF Onto

\* Rows with changes laid over them.
LEMMA OverlaidIs ==
  ASSUME NEW rows, NEW changes
  PROVE  /\ DOMAIN Overlaid(rows, changes) = DOMAIN rows \cup DOMAIN changes
         /\ \A k \in DOMAIN changes \ DOMAIN rows : Overlaid(rows, changes)[k] = changes[k]
         /\ \A k \in DOMAIN rows \ DOMAIN changes : Overlaid(rows, changes)[k] = rows[k]
         /\ \A k \in DOMAIN rows \cap DOMAIN changes :
              Overlaid(rows, changes)[k] = Onto(changes[k], rows[k])
  <1> DEFINE new == [k \in DOMAIN changes |->
                       IF k \in DOMAIN rows THEN Onto(changes[k], rows[k]) ELSE changes[k]]
  <1>1. DOMAIN new = DOMAIN changes
    OBVIOUS
  <1>2. /\ \A k \in DOMAIN changes \ DOMAIN rows : new[k] = changes[k]
        /\ \A k \in DOMAIN rows \cap DOMAIN changes : new[k] = Onto(changes[k], rows[k])
    OBVIOUS
  <1>3. Overlaid(rows, changes) = Onto(new, rows)
    BY DEF Overlaid
  <1> HIDE DEF new
  <1>4. /\ DOMAIN Onto(new, rows) = DOMAIN new \cup DOMAIN rows
        /\ \A x \in DOMAIN new : Onto(new, rows)[x] = new[x]
        /\ \A x \in DOMAIN rows \ DOMAIN new : Onto(new, rows)[x] = rows[x]
    BY OntoIs
  <1> QED BY <1>1, <1>2, <1>3, <1>4

----------------------------------------------------------------------------
(* What a loader reads.                                                    *)

\* A list is a function over an initial segment of the numbers.
LEMMA ListIs ==
  ASSUME NEW rows
  PROVE  IsList(rows) <=> \E n \in Nat : rows = [i \in 1..n |-> rows[i]]
  <1>1. ASSUME IsList(rows) PROVE \E n \in Nat : rows = [i \in 1..n |-> rows[i]]
    <2>1. PICK n \in Nat : rows \in [1..n -> RowsIn(rows)]
      BY <1>1, SeqDef DEF IsList
    <2> QED BY <2>1
  <1>2. ASSUME NEW n \in Nat, rows = [i \in 1..n |-> rows[i]] PROVE IsList(rows)
    <2>1. DOMAIN rows = 1..n
      BY <1>2
    <2>2. \A i \in 1..n : rows[i] \in RowsIn(rows)
      BY <2>1 DEF RowsIn
    <2>3. rows \in [1..n -> RowsIn(rows)]
      BY <1>2, <2>2
    <2> QED BY <2>3, SeqDef DEF IsList
  <1> QED BY <1>1, <1>2

\* A list mapped row by row is a list.
LEMMA MappedList ==
  ASSUME NEW rows, IsList(rows), NEW new, new = [i \in DOMAIN rows |-> new[i]]
  PROVE  IsList(new)
  <1>1. PICK n \in Nat : rows = [i \in 1..n |-> rows[i]]
    BY ListIs
  <1>2. DOMAIN rows = 1..n
    BY <1>1
  <1>3. new = [i \in 1..n |-> new[i]]
    BY <1>2
  <1> QED BY <1>3, ListIs

SoundDataset(d) ==
  /\ ValidateDataset(d) = {}
  /\ \A t \in Tables : IsList(d[t]) /\ \A row \in RowsIn(d[t]) : DOMAIN row = ColumnsOf(t)
  /\ \A row \in RowsIn(d.categories) : row.code # None

\* Files that fit and pass every check are read as a sound dataset.
LEMMA ReadIsSound ==
  ASSUME NEW f, \A t \in Tables : FileFits(t, f[t]), LoadIssues(f) = {},
         ValidateDataset(LoadDataset(f)) = {}
  PROVE  SoundDataset(LoadDataset(f))
  <1> DEFINE d == LoadDataset(f)
  <1>1. ASSUME NEW t \in Tables
        PROVE  /\ f[t] # NoFile /\ ColumnsOf(t) \subseteq f[t].header
               /\ \A row \in RowsIn(f[t].rows) : ParseProblems(t, row) = {}
    <2>1. ReadIssues(t, f[t]) = {}
      BY DEF LoadIssues
    <2>2. f[t] # NoFile
      BY <2>1 DEF ReadIssues
    <2>3. ColumnsOf(t) \subseteq f[t].header
      BY <2>1, <2>2 DEF ReadIssues
    <2>4. {Issue(t, "unreadable", c, None) :
             c \in UNION {ParseProblems(t, row) : row \in RowsIn(f[t].rows)}} = {}
      BY <2>1, <2>2, <2>3 DEF ReadIssues
    <2>5. UNION {ParseProblems(t, row) : row \in RowsIn(f[t].rows)} = {}
      BY <2>4
    <2> QED BY <2>2, <2>3, <2>5
  <1>2. ASSUME NEW t \in Tables PROVE IsList(d[t])
    <2>1. IsList(f[t].rows)
      BY <1>1 DEF FileFits
    <2>2. d[t] = [i \in DOMAIN f[t].rows |-> Parsed(t, f[t].rows[i])]
      BY DEF LoadDataset
    <2>3. d[t] = [i \in DOMAIN f[t].rows |-> d[t][i]]
      BY <2>2
    <2> HIDE DEF d
    <2> QED BY <2>1, <2>3, MappedList
  <1>3. ASSUME NEW t \in Tables, NEW row \in RowsIn(d[t])
        PROVE  \E cells \in RowsIn(f[t].rows) : row = Parsed(t, cells)
    <2>1. d[t] = [i \in DOMAIN f[t].rows |-> Parsed(t, f[t].rows[i])]
      BY DEF LoadDataset
    <2>2. PICK i \in DOMAIN d[t] : row = d[t][i]
      BY DEF RowsIn
    <2>3. i \in DOMAIN f[t].rows /\ row = Parsed(t, f[t].rows[i])
      BY <2>1, <2>2
    <2> QED BY <2>3 DEF RowsIn
  <1>4. ASSUME NEW t \in Tables, NEW row \in RowsIn(d[t]) PROVE DOMAIN row = ColumnsOf(t)
    BY <1>3 DEF Parsed
  <1>5. ASSUME NEW row \in RowsIn(d.categories) PROVE row.code # None
    <2>1. "categories" \in Tables
      BY StoredAreTables
    <2>2. PICK cells \in RowsIn(f.categories.rows) : row = Parsed("categories", cells)
      BY <1>3, <2>1
    <2>3. "code" \in TextColumns["categories"] /\ "code" \in ColumnsOf("categories")
      BY DEF TextColumns, ColumnsOf
    <2>4. "code" \notin MoneyColumns["categories"]
      BY <2>1 DEF MoneyColumns
    <2>5. cells.code # Blank
      BY <1>1, <2>1, <2>2, <2>3 DEF ParseProblems
    <2>6. row.code = cells.code
      BY <2>2, <2>3, <2>4, <2>5 DEF Parsed
    <2>7. "code" \in f.categories.header
      BY <1>1, <2>1, <2>3
    <2>8. cells.code # None
      BY <1>1, <2>1, <2>2, <2>3, <2>7 DEF FileFits
    <2> QED BY <2>6, <2>8
  <1> QED BY <1>2, <1>4, <1>5 DEF SoundDataset
----------------------------------------------------------------------------
(* What the checks of a dataset say.                                       *)

\* No two rows of a file the check of keys lets through have one key.
LEMMA NoneTwice ==
  ASSUME NEW t, NEW rows, IsList(rows), DuplicateKeys(t, rows) = {},
         NEW i \in DOMAIN rows, NEW j \in DOMAIN rows, Key(t, rows[i]) = Key(t, rows[j])
  PROVE  i = j
  <1>1. PICK n \in Nat : rows = [k \in 1..n |-> rows[k]]
    BY ListIs
  <1>2. DOMAIN rows = 1..n
    BY <1>1
  <1>3. \A a, b \in 1..n : a < b => Key(t, rows[a]) # Key(t, rows[b])
    <2> SUFFICES ASSUME NEW a \in 1..n, NEW b \in 1..n, a < b, Key(t, rows[a]) = Key(t, rows[b])
                 PROVE  FALSE
      OBVIOUS
    <2>1. a \in 1..(b - 1)
      OBVIOUS
    <2>2. b \in {c \in DOMAIN rows : \E k \in 1..(c - 1) : Key(t, rows[k]) = Key(t, rows[c])}
      BY <1>2, <2>1
    <2>3. Issue(t, "duplicate_key", "key", Key(t, rows[b])) \in DuplicateKeys(t, rows)
      BY <2>2 DEF DuplicateKeys
    <2> QED BY <2>3
  <1>4. i \in 1..n /\ j \in 1..n
    BY <1>2
  <1> QED BY <1>3, <1>4

\* A reference the check lets through is empty or known.
LEMMA NoneUnknown ==
  ASSUME NEW t, NEW field, NEW rows, NEW known, Unknown(t, field, rows, known) = {},
         NEW row \in RowsIn(rows)
  PROVE  row[field] \in {None} \cup known
  <1> SUFFICES ASSUME row[field] # None, row[field] \notin known PROVE FALSE
    OBVIOUS
  <1>1. Issue(t, "broken_reference", field, Key(t, row)) \in Unknown(t, field, rows, known)
    BY DEF Unknown, Flagged
  <1> QED BY <1>1

\* A number the check lets through is not below the least one.
LEMMA NoneBelow ==
  ASSUME NEW t, NEW field, NEW least, NEW rows, Below(t, field, least, rows) = {},
         NEW row \in RowsIn(rows)
  PROVE  ~(row[field] < least)
  <1> SUFFICES ASSUME row[field] < least PROVE FALSE
    OBVIOUS
  <1>1. Issue(t, "negative_value", field, Key(t, row)) \in Below(t, field, least, rows)
    BY DEF Below, Flagged
  <1> QED BY <1>1

\* The checks of each table, from the dataset's.
LEMMA SoundChecks ==
  ASSUME NEW d, SoundDataset(d)
  PROVE  /\ DuplicateKeys("categories", d.categories) = {}
         /\ DuplicateKeys("stores", d.stores) = {}
         /\ DuplicateKeys("suppliers", d.suppliers) = {}
         /\ DuplicateKeys("products", d.products) = {}
         /\ DuplicateKeys("supplier_products", d.supplier_products) = {}
         /\ DuplicateKeys("daily_sales", d.daily_sales) = {}
         /\ CategoryCycles(d.categories) = {}
         /\ Unknown("categories", "parent_code", d.categories, Values("code", d.categories)) = {}
         /\ Unknown("products", "category_code", d.products, Values("code", d.categories)) = {}
         /\ Unknown("supplier_products", "supplier_code", d.supplier_products,
                    Values("code", d.suppliers)) = {}
         /\ Unknown("supplier_products", "product_sku", d.supplier_products,
                    Values("sku", d.products)) = {}
         /\ Unknown("daily_sales", "store_code", d.daily_sales, Values("code", d.stores)) = {}
         /\ Unknown("daily_sales", "product_sku", d.daily_sales, Values("sku", d.products)) = {}
         /\ Below("supplier_products", "cost", 0, d.supplier_products) = {}
         /\ Below("supplier_products", "case_pack", 1, d.supplier_products) = {}
         /\ Below("supplier_products", "minimum_order_quantity", 0, d.supplier_products) = {}
         /\ Below("supplier_products", "lead_time_days", 0, d.supplier_products) = {}
         /\ \A field \in {"units_sold", "unit_price", "discount_amount", "stock_on_hand"} :
              Below("daily_sales", field, 0, d.daily_sales) = {}
  <1>1. /\ CategoryIssues(d.categories) = {} /\ ProductIssues(d.products, d.categories) = {}
        /\ SupplierIssues(d.suppliers) = {} /\ TermIssues(d.supplier_products, d) = {}
        /\ StoreIssues(d.stores) = {} /\ SalesIssues(d.daily_sales, d) = {}
    BY DEF SoundDataset, ValidateDataset, ValidateCatalog
  <1>2. /\ DuplicateKeys("categories", d.categories) = {} /\ CategoryCycles(d.categories) = {}
        /\ Unknown("categories", "parent_code", d.categories, Values("code", d.categories)) = {}
    BY <1>1 DEF CategoryIssues
  <1>3. /\ DuplicateKeys("products", d.products) = {}
        /\ Unknown("products", "category_code", d.products, Values("code", d.categories)) = {}
    BY <1>1 DEF ProductIssues
  <1>4. DuplicateKeys("suppliers", d.suppliers) = {} /\ DuplicateKeys("stores", d.stores) = {}
    BY <1>1 DEF SupplierIssues, StoreIssues
  <1>5. /\ DuplicateKeys("supplier_products", d.supplier_products) = {}
        /\ Unknown("supplier_products", "supplier_code", d.supplier_products,
                   Values("code", d.suppliers)) = {}
        /\ Unknown("supplier_products", "product_sku", d.supplier_products,
                   Values("sku", d.products)) = {}
        /\ Below("supplier_products", "cost", 0, d.supplier_products) = {}
        /\ Below("supplier_products", "case_pack", 1, d.supplier_products) = {}
        /\ Below("supplier_products", "minimum_order_quantity", 0, d.supplier_products) = {}
        /\ Below("supplier_products", "lead_time_days", 0, d.supplier_products) = {}
    BY <1>1 DEF TermIssues
  <1>6. /\ DuplicateKeys("daily_sales", d.daily_sales) = {}
        /\ Unknown("daily_sales", "store_code", d.daily_sales, Values("code", d.stores)) = {}
        /\ Unknown("daily_sales", "product_sku", d.daily_sales, Values("sku", d.products)) = {}
        /\ UNION {Below("daily_sales", field, 0, d.daily_sales) :
                    field \in {"units_sold", "unit_price", "discount_amount", "stock_on_hand"}} = {}
    BY <1>1 DEF SalesIssues
  <1> QED BY <1>2, <1>3, <1>4, <1>5, <1>6

\* No key twice in a table.
LEMMA KeysApart ==
  ASSUME NEW d, SoundDataset(d), NEW t \in Stored,
         NEW i \in DOMAIN d[t], NEW j \in DOMAIN d[t], Key(t, d[t][i]) = Key(t, d[t][j])
  PROVE  i = j
  <1>1. IsList(d[t])
    BY StoredAreTables DEF SoundDataset
  <1>2. DuplicateKeys(t, d[t]) = {}
    BY SoundChecks, Places
  <1> QED BY <1>1, <1>2, NoneTwice

\* Two rows of a sound file with one key are one row.
LEMMA RowsApart ==
  ASSUME NEW d, SoundDataset(d), NEW t \in Stored,
         NEW row \in RowsIn(d[t]), NEW other \in RowsIn(d[t]), Key(t, row) = Key(t, other)
  PROVE  row = other
  BY KeysApart DEF RowsIn

\* The keys of the rows, and what they are made of.
LEMMA KeyIs ==
  ASSUME NEW row
  PROVE  /\ Key("categories", row) = <<row.code>> /\ Key("stores", row) = <<row.code>>
         /\ Key("suppliers", row) = <<row.code>> /\ Key("products", row) = <<row.sku>>
  BY DEF Key, KeyColumns

LEMMA CodesInKeys ==
  ASSUME NEW t, NEW c, NEW rows, \A row : Key(t, row) = <<row[c]>>,
         NEW code \in Values(c, rows)
  PROVE  code \in {k[1] : k \in Keys(t, rows)}
  <1>1. PICK row \in RowsIn(rows) : code = row[c]
    BY DEF Values
  <1>2. Key(t, row) \in Keys(t, rows)
    BY DEF Keys
  <1>3. Key(t, row)[1] = code
    BY <1>1
  <1> QED BY <1>2, <1>3

\* What a row refers to is in the dataset, and in a table that comes before its own.
LEMMA ReferencesFound ==
  ASSUME NEW d, SoundDataset(d), NEW t \in Stored, NEW row \in RowsIn(d[t]),
         NEW ref \in References(t)
  PROVE  /\ ref[2] \in Stored
         /\ t # "categories" => Place(ref[2]) < Place(t)
         /\ t = "categories" => row[ref[1]] \in {None} \cup Values("code", d[t])
         /\ row[ref[1]] \in {None} \cup {k[1] : k \in Keys(ref[2], d[ref[2]])}
  <1>1. /\ \A code \in Values("code", d.categories) : code \in {k[1] : k \in Keys("categories", d.categories)}
        /\ \A code \in Values("code", d.stores) : code \in {k[1] : k \in Keys("stores", d.stores)}
        /\ \A code \in Values("code", d.suppliers) : code \in {k[1] : k \in Keys("suppliers", d.suppliers)}
        /\ \A code \in Values("sku", d.products) : code \in {k[1] : k \in Keys("products", d.products)}
    <2>1. \A code \in Values("code", d.categories) : code \in {k[1] : k \in Keys("categories", d.categories)}
      BY KeyIs, CodesInKeys
    <2>2. \A code \in Values("code", d.stores) : code \in {k[1] : k \in Keys("stores", d.stores)}
      BY KeyIs, CodesInKeys
    <2>3. \A code \in Values("code", d.suppliers) : code \in {k[1] : k \in Keys("suppliers", d.suppliers)}
      BY KeyIs, CodesInKeys
    <2>4. \A code \in Values("sku", d.products) : code \in {k[1] : k \in Keys("products", d.products)}
      BY KeyIs, CodesInKeys
    <2> QED BY <2>1, <2>2, <2>3, <2>4
  <1>2. CASE t = "categories"
    <2>1. ref = <<"parent_code", "categories">>
      BY <1>2 DEF References
    <2>2. row.parent_code \in {None} \cup Values("code", d.categories)
      BY <1>2, SoundChecks, NoneUnknown
    <2> QED BY <1>1, <1>2, <2>1, <2>2, Places
  <1>3. CASE t = "products"
    <2>1. ref = <<"category_code", "categories">>
      BY <1>3 DEF References
    <2>2. row.category_code \in {None} \cup Values("code", d.categories)
      BY <1>3, SoundChecks, NoneUnknown
    <2> QED BY <1>1, <1>3, <2>1, <2>2, Places
  <1>4. CASE t = "supplier_products"
    <2>1. ref \in {<<"supplier_code", "suppliers">>, <<"product_sku", "products">>}
      BY <1>4 DEF References
    <2>2. /\ row.supplier_code \in {None} \cup Values("code", d.suppliers)
          /\ row.product_sku \in {None} \cup Values("sku", d.products)
      BY <1>4, SoundChecks, NoneUnknown
    <2> QED BY <1>1, <1>4, <2>1, <2>2, Places
  <1>5. CASE t = "daily_sales"
    <2>1. ref \in {<<"store_code", "stores">>, <<"product_sku", "products">>}
      BY <1>5 DEF References
    <2>2. /\ row.store_code \in {None} \cup Values("code", d.stores)
          /\ row.product_sku \in {None} \cup Values("sku", d.products)
      BY <1>5, SoundChecks, NoneUnknown
    <2> QED BY <1>1, <1>5, <2>1, <2>2, Places
  <1>6. CASE t \in {"stores", "suppliers"}
    BY <1>6 DEF References
  <1> QED BY <1>2, <1>3, <1>4, <1>5, <1>6, Places
----------------------------------------------------------------------------
(* Cycles of categories.                                                   *)

\* The chain of parents above a category, as CategoryCycles climbs it.
Climbed(parent, code, up, n) ==
  IF n = 0 THEN code
  ELSE IF up[n - 1] \in DOMAIN parent THEN parent[up[n - 1]] ELSE None
Climb(parent, code, up) == up = [n \in Nat |-> Climbed(parent, code, up, n)]

\* The climb is defined for every number of steps.
LEMMA ClimbExists ==
  ASSUME NEW parent, NEW code
  PROVE  \E up : Climb(parent, code, up)
  <1> DEFINE Upto(n, h) == \A m \in 0..n : h[m] = Climbed(parent, code, h, m)
             Good == {n \in Nat : \E h : Upto(n, h)}
             Longer(h) == [m \in Nat |-> Climbed(parent, code, h, m)]
  <1>1. 0 \in Good
    <2>1. Upto(0, [m \in Nat |-> code])
      BY DEF Climbed
    <2> QED BY <2>1
  <1>2. ASSUME NEW n \in Nat, NEW h, Upto(n, h)
        PROVE  Upto(n + 1, Longer(h))
    <2> SUFFICES ASSUME NEW m \in 0..(n + 1)
                 PROVE  Climbed(parent, code, h, m) = Climbed(parent, code, Longer(h), m)
      OBVIOUS
    <2>1. CASE m = 0
      BY <2>1 DEF Climbed
    <2>2. CASE m # 0
      <3>1. m - 1 \in 0..n
        BY <2>2
      <3>2. h[m - 1] = Climbed(parent, code, h, m - 1)
        BY <1>2, <3>1
      <3>3. Longer(h)[m - 1] = Climbed(parent, code, h, m - 1)
        BY <3>1
      <3> HIDE DEF Longer
      <3> QED BY <2>2, <3>2, <3>3 DEF Climbed
    <2> QED BY <2>1, <2>2
  <1>3. Nat \subseteq Good
    <2>1. ASSUME NEW n \in Nat, n \in Good PROVE n + 1 \in Good
      <3>1. PICK h : Upto(n, h)
        BY <2>1
      <3>2. Upto(n + 1, Longer(h))
        BY <1>2, <3>1
      <3> HIDE DEF Upto, Longer
      <3> QED BY <3>2
    <2> HIDE DEF Good
    <2> QED BY <1>1, <2>1, EveryNatural
  <1>4. ASSUME NEW g, NEW h, NEW n \in Nat, NEW m \in Nat, Upto(n, g), Upto(m, h),
               NEW k \in Nat, k <= n, k <= m
        PROVE  g[k] = h[k]
    <2> DEFINE Same == {j \in Nat : j <= n /\ j <= m => g[j] = h[j]}
    <2>1. 0 \in Same
      <3>1. g[0] = code /\ h[0] = code
        BY <1>4 DEF Climbed
      <3> QED BY <3>1
    <2>2. ASSUME NEW j \in Nat, j \in Same PROVE j + 1 \in Same
      <3> SUFFICES ASSUME j + 1 <= n, j + 1 <= m PROVE g[j + 1] = h[j + 1]
        OBVIOUS
      <3>1. g[j] = h[j]
        BY <2>2
      <3>2. /\ g[j + 1] = Climbed(parent, code, g, j + 1)
            /\ h[j + 1] = Climbed(parent, code, h, j + 1)
        BY <1>4
      <3>3. (j + 1) - 1 = j /\ j + 1 # 0
        OBVIOUS
      <3> QED BY <3>1, <3>2, <3>3 DEF Climbed
    <2>3. Nat \subseteq Same
      <3> HIDE DEF Same
      <3> QED BY <2>1, <2>2, EveryNatural
    <2> QED BY <1>4, <2>3
  <1> DEFINE Some(n) == CHOOSE h : Upto(n, h)
             up == [n \in Nat |-> Some(n)[n]]
  <1>5. \A n \in Nat : Upto(n, Some(n))
    BY <1>3
  <1> HIDE DEF Some
  <1>6. ASSUME NEW n \in Nat PROVE up[n] = Climbed(parent, code, up, n)
    <2>1. up[n] = Climbed(parent, code, Some(n), n)
      BY <1>5
    <2>2. CASE n = 0
      BY <2>1, <2>2 DEF Climbed
    <2>3. CASE n # 0
      <3>1. n - 1 \in Nat /\ n - 1 <= n
        BY <2>3
      <3>2. Upto(n, Some(n)) /\ Upto(n - 1, Some(n - 1))
        BY <1>5, <3>1
      <3> HIDE DEF Upto
      <3>3. Some(n - 1)[n - 1] = Some(n)[n - 1]
        BY <1>4, <3>1, <3>2
      <3>4. up[n - 1] = Some(n)[n - 1]
        BY <3>1, <3>3
      <3> QED BY <2>1, <2>3, <3>4 DEF Climbed
    <2> QED BY <2>2, <2>3
  <1>7. up = [n \in Nat |-> up[n]]
    OBVIOUS
  <1> HIDE DEF up
  <1>8. Climb(parent, code, up)
    BY <1>6, <1>7 DEF Climb
  <1> QED BY <1>8

LastOf(rows, code) == CHOOSE i \in DOMAIN rows :
                        /\ rows[i].code = code
                        /\ \A j \in DOMAIN rows : rows[j].code = code => j <= i
ParentIn(rows) == [code \in Values("code", rows) |-> rows[LastOf(rows, code)].parent_code]
Above(parent, code) == (CHOOSE up : Climb(parent, code, up))[Cardinality(DOMAIN parent) + 1]

\* The check of cycles, by the climbs.
LEMMA CyclesAre ==
  ASSUME NEW rows
  PROVE  CategoryCycles(rows) =
           {Issue("categories", "broken_reference", "parent_code", <<code>>) :
              code \in {c \in DOMAIN ParentIn(rows) : Above(ParentIn(rows), c) # None}}
  BY DEF CategoryCycles, ParentIn, LastOf, Above, Climb, Climbed

\* No set of categories that lead only to one another has one of the file in it.
LEMMA NoLoopInFile ==
  ASSUME NEW d, SoundDataset(d), NEW loop, None \notin loop,
         \A row \in RowsIn(d.categories) : row.code \in loop => row.parent_code \in loop
  PROVE  \A row \in RowsIn(d.categories) : row.code \notin loop
  <1> DEFINE rows == d.categories
             parent == ParentIn(rows)
             codes == Values("code", rows)
  <1>1. IsList(rows) /\ "categories" \in Stored
    BY StoredAreTables, Places DEF SoundDataset
  <1>2. PICK n \in Nat : rows = [i \in 1..n |-> rows[i]]
    BY <1>1, ListIs
  <1>3. DOMAIN rows = 1..n
    BY <1>2
  <1>4. ASSUME NEW c \in codes
        PROVE  parent[c] \in {r.parent_code : r \in {q \in RowsIn(rows) : q.code = c}}
    <2>1. PICK i \in DOMAIN rows : rows[i].code = c
      BY DEF Values, RowsIn
    <2>2. \A j \in DOMAIN rows : rows[j].code = c => j = i
      <3> TAKE j \in DOMAIN rows
      <3> HAVE rows[j].code = c
      <3>1. Key("categories", rows[j]) = Key("categories", rows[i])
        BY <2>1, KeyIs
      <3> QED BY <1>1, <3>1, KeysApart
    <2>3. i <= i
      BY <1>3
    <2>4. \E k \in DOMAIN rows : /\ rows[k].code = c
                                 /\ \A j \in DOMAIN rows : rows[j].code = c => j <= k
      BY <2>1, <2>2, <2>3
    <2>5. LastOf(rows, c) \in DOMAIN rows /\ rows[LastOf(rows, c)].code = c
      BY <2>4 DEF LastOf
    <2>6. parent[c] = rows[LastOf(rows, c)].parent_code
      BY DEF ParentIn
    <2> QED BY <2>5, <2>6 DEF RowsIn
  <1>5. DOMAIN parent = codes
    BY DEF ParentIn
  <1>6. IsFiniteSet(codes)
    <2> DEFINE f == [i \in 1..n |-> rows[i].code]
    <2>1. IsFiniteSet({f[i] : i \in 1..n})
      BY FS_Interval, FiniteRange, 1 \in Int, n \in Int
    <2>2. codes = {f[i] : i \in 1..n}
      BY <1>3 DEF Values, RowsIn
    <2> QED BY <2>1, <2>2
  <1>7. Cardinality(DOMAIN parent) + 1 \in Nat
    BY <1>5, <1>6, FS_CardinalityType
  <1>8. CategoryCycles(rows) = {}
    BY SoundChecks
  <1>9. \A c \in codes : Above(parent, c) = None
    BY <1>5, <1>8, CyclesAre
  <1> SUFFICES ASSUME NEW row \in RowsIn(rows), row.code \in loop
               PROVE  FALSE
    OBVIOUS
  <1>10. row.code \in codes
    BY DEF Values
  <1> HIDE DEF parent, codes
  <1>11. PICK up : Climb(parent, row.code, up) /\ up = (CHOOSE u : Climb(parent, row.code, u))
    BY ClimbExists
  <1> DEFINE In == {m \in Nat : up[m] \in loop /\ up[m] \in codes}
  <1>12. 0 \in In
    BY <1>10, <1>11 DEF Climb, Climbed
  <1>13. ASSUME NEW m \in Nat, m \in In PROVE m + 1 \in In
    <2>1. up[m + 1] = parent[up[m]]
      <3>1. up[m + 1] = Climbed(parent, row.code, up, m + 1)
        BY <1>11 DEF Climb
      <3>2. m + 1 # 0 /\ (m + 1) - 1 = m
        OBVIOUS
      <3> QED BY <1>5, <1>13, <3>1, <3>2 DEF Climbed
    <2>2. PICK r \in RowsIn(rows) : r.code = up[m] /\ parent[up[m]] = r.parent_code
      BY <1>4, <1>13
    <2>3. r.parent_code \in loop
      BY <1>13, <2>2
    <2>4. r.parent_code \in {None} \cup codes
      BY <2>2, SoundChecks, NoneUnknown DEF codes
    <2> QED BY <2>1, <2>2, <2>3, <2>4
  <1>14. Nat \subseteq In
    <2> HIDE DEF In
    <2> QED BY <1>12, <1>13, EveryNatural
  <1>15. Above(parent, row.code) \in loop
    BY <1>7, <1>11, <1>14 DEF Above
  <1> QED BY <1>9, <1>10, <1>15
----------------------------------------------------------------------------
(* The invariant.                                                          *)

FilesInv == DOMAIN files = Tables /\ \A t \in Tables : FileFits(t, files[t])

WriterInv ==
  /\ writer \in [dataset : Generated \cup {NoDataset}, done : 0..(Len(TableOrder) - 1)]
  /\ writer.dataset = NoDataset => writer = NoWriter

\* A category's key is its code.
CodeKey(k) == k = <<k[1]>> /\ k[1] # None

TablesInv ==
  /\ DOMAIN tables = Stored
  /\ \A t \in Stored : \A k \in DOMAIN tables[t] : ColumnsOf(t) \subseteq DOMAIN tables[t][k]
  /\ \A k \in DOMAIN tables["categories"] : CodeKey(k)

CountsInv ==
  /\ serial \in Nat /\ loads \in 0..MaxLoads /\ writes \in 0..MaxWrites
  /\ turn \in [Loaders -> 0..CommitTurn] /\ disturbed \in [Loaders -> BOOLEAN]
  /\ ended \in [Loaders -> {"never", "under way", "invalid", "refused", "abandoned", "loaded"}]
  /\ DOMAIN payload = Loaders /\ DOMAIN copy = Loaders
  /\ DOMAIN pending = Loaders /\ DOMAIN report = Loaders

\* What a loader holds, whatever others have committed since it began: its
\* writes go to tables it is done with, and make a row only where all of it is written.
LoaderInv(l) ==
  /\ IF turn[l] = 0
     THEN payload[l] = NoDataset /\ pending[l] = Untouched /\ report[l] = Nothing
     ELSE SoundDataset(payload[l]) /\ ended[l] = "under way"
  /\ copy[l] # NotRead => turn[l] \in DOMAIN SyncOrder /\ DOMAIN copy[l] \subseteq DOMAIN tables[At(l)]
  /\ DOMAIN pending[l] = Stored
  /\ \A t \in Stored : turn[l] <= Place(t) => pending[l][t] = NoRows
  /\ \A t \in Stored : \A k \in DOMAIN pending[l][t] :
       k \in DOMAIN tables[t] \/ ColumnsOf(t) \subseteq DOMAIN pending[l][t][k]
  /\ \A k \in DOMAIN pending[l]["categories"] : CodeKey(k)
  /\ DOMAIN report[l] = DOMAIN Nothing

\* The changes bring a table in line with the rows of a file, and no key is
\* changed that was in line already.
Synced(before, changes, t, rows) ==
  /\ DOMAIN changes \subseteq Keys(t, rows)
  /\ \A row \in RowsIn(rows) : \A c \in ColumnsOf(t) :
       IF Key(t, row) \in DOMAIN changes /\ c \in DOMAIN changes[Key(t, row)]
       THEN changes[Key(t, row)][c] = row[c]
       ELSE Key(t, row) \in DOMAIN before /\ before[Key(t, row)][c] = row[c]
  /\ IF t = "daily_sales" THEN DOMAIN changes = Keys(t, rows)
     ELSE \A k \in DOMAIN changes \cap DOMAIN before :
            \E c \in ColumnsOf(t) \cap DOMAIN changes[k] : changes[k][c] # before[k][c]

Born(l) == UNION {{<<t, k>> : k \in DOMAIN pending[l][t] \ DOMAIN tables[t]} : t \in Stored}
Edited(l) == UNION {{<<t, k>> : k \in DOMAIN pending[l][t] \cap DOMAIN tables[t]} : t \in Stored}

\* What a loader holds while no other has committed since it began.
AloneInv(l) ==
  turn[l] # 0 /\ ~disturbed[l] =>
    /\ copy[l] # NotRead =>
         /\ DOMAIN copy[l] = DOMAIN tables[At(l)]
         /\ \A k \in DOMAIN copy[l] : copy[l][k] = tables[At(l)][k]
    /\ \A t \in Stored : Place(t) < turn[l] =>
         Synced(tables[t], pending[l][t], t, payload[l][t])
    /\ report[l].created = Born(l) /\ report[l].updated = Edited(l)
    /\ report[l].rejected = {}
    /\ turn[l] = CommitTurn =>
         report[l].duplicates =
           Cardinality(DOMAIN tables["daily_sales"] \cap Keys("daily_sales", payload[l]["daily_sales"]))

CatalogInv ==
  /\ FilesInv /\ WriterInv /\ TablesInv /\ CountsInv
  /\ \A l \in Loaders : LoaderInv(l) /\ AloneInv(l)

----------------------------------------------------------------------------
(* What a loader writes to the table at hand.                              *)

\* Nothing else of a row is compared or written than its file's columns.
LEMMA NoIdColumn ==
  ASSUME NEW t \in Stored
  PROVE  "id" \notin ColumnsOf(t) /\ ColumnsOf(t) # {}
  <1>1. t \in Tables
    BY StoredAreTables
  <1>2. "id" \notin OptionalColumns[t] /\ "id" \notin MoneyColumns[t] /\ "id" \notin NumberColumns[t]
    BY <1>1 DEF OptionalColumns, MoneyColumns, NumberColumns
  <1>3. "id" \notin TextColumns[t] /\ TextColumns[t] # {}
    BY Places DEF TextColumns
  <1> QED BY <1>2, <1>3 DEF ColumnsOf

LEMMA AtStored ==
  ASSUME NEW l, turn[l] \in DOMAIN SyncOrder
  PROVE  /\ At(l) \in Stored /\ Place(At(l)) = turn[l]
         /\ \A t \in Stored : Place(t) = turn[l] => t = At(l)
  BY Places DEF At

\* What is written of a row: what differs, or all of it.
LEMMA ToWriteIs ==
  ASSUME NEW l, NEW row
  PROVE  /\ \A c \in DOMAIN ToWrite(l, row) : c \in DOMAIN row /\ ToWrite(l, row)[c] = row[c]
         /\ IF Key(At(l), row) \in DOMAIN copy[l] /\ At(l) # "daily_sales"
            THEN \A c \in DOMAIN row : c \in DOMAIN ToWrite(l, row)
                                         <=> row[c] # copy[l][Key(At(l), row)][c]
            ELSE ToWrite(l, row) = row
  <1>1. CASE Key(At(l), row) \in DOMAIN copy[l] /\ At(l) # "daily_sales"
    <2>1. ToWrite(l, row) =
            [c \in {d \in DOMAIN row : row[d] # copy[l][Key(At(l), row)][d]} |-> row[c]]
      BY <1>1 DEF ToWrite
    <2> QED BY <1>1, <2>1
  <1>2. CASE ~(Key(At(l), row) \in DOMAIN copy[l] /\ At(l) # "daily_sales")
    <2>1. ToWrite(l, row) = row
      BY <1>2 DEF ToWrite
    <2> QED BY <1>2, <2>1
  <1> QED BY <1>1, <1>2

\* The changes by key: each is of the one row with the key.
LEMMA ChangesAre ==
  ASSUME NEW l, turn[l] \in DOMAIN SyncOrder, SoundDataset(payload[l])
  PROVE  /\ \A k \in DOMAIN Changes(l) :
              \E row \in RowsIn(Rows(l)) : Resolves(l, At(l), row) /\ Key(At(l), row) = k
         /\ \A row \in RowsIn(Rows(l)) : Resolves(l, At(l), row) =>
              LET k == Key(At(l), row)
              IN  /\ k \in DOMAIN Changes(l) <=> DOMAIN ToWrite(l, row) # {}
                  /\ k \in DOMAIN Changes(l) =>
                       /\ DOMAIN ToWrite(l, row) \subseteq DOMAIN Changes(l)[k]
                       /\ DOMAIN Changes(l)[k] \subseteq DOMAIN ToWrite(l, row) \cup {"id"}
                       /\ \A c \in DOMAIN ToWrite(l, row) :
                            Changes(l)[k][c] = ToWrite(l, row)[c]
  <1> DEFINE t == At(l)
             rows == Rows(l)
             good == {i \in DOMAIN rows : Resolves(l, t, rows[i])}
             place(k) == CHOOSE i \in good : Key(t, rows[i]) = k
             differing(k) == ToWrite(l, rows[place(k)])
             keys == {Key(t, rows[i]) : i \in good}
             born(k) == t = "products" /\ k \notin DOMAIN copy[l]
  <1>1. Changes(l) =
          [k \in {j \in keys : DOMAIN differing(j) # {}} |->
             IF born(k) THEN Onto(differing(k), [id |-> serial + place(k)]) ELSE differing(k)]
    BY DEF Changes
  <1>2. t \in Stored
    BY AtStored
  <1>3. rows = payload[l][t]
    BY DEF Rows
  <1>4. ASSUME NEW i \in good PROVE place(Key(t, rows[i])) = i
    <2>1. \A j \in good : Key(t, rows[j]) = Key(t, rows[i]) => j = i
      <3> TAKE j \in good
      <3> HAVE Key(t, rows[j]) = Key(t, rows[i])
      <3>1. j \in DOMAIN payload[l][t] /\ i \in DOMAIN payload[l][t]
        BY <1>3
      <3> HIDE DEF t
      <3> QED BY <1>2, <1>3, <3>1, KeysApart
    <2> QED BY <2>1
  <1>5. \A k \in keys : \E i \in good : k = Key(t, rows[i]) /\ place(k) = i
    BY <1>4
  <1>6. \A i \in good : rows[i] \in RowsIn(rows)
    BY DEF RowsIn
  <1>7. ASSUME NEW row \in RowsIn(rows), Resolves(l, t, row)
        PROVE  Key(t, row) \in keys /\ differing(Key(t, row)) = ToWrite(l, row)
    <2>1. PICK i \in DOMAIN rows : row = rows[i]
      BY DEF RowsIn
    <2>2. i \in good
      BY <1>7, <2>1
    <2>3. place(Key(t, row)) = i
      BY <1>4, <2>1, <2>2
    <2> QED BY <2>1, <2>2, <2>3
  <1>8. ASSUME NEW k \in DOMAIN Changes(l)
        PROVE  \E row \in RowsIn(rows) : Resolves(l, t, row) /\ Key(t, row) = k
    <2>1. k \in keys
      BY <1>1
    <2>2. PICK i \in good : k = Key(t, rows[i])
      BY <2>1
    <2> QED BY <1>6, <2>2
  <1>9. ASSUME NEW k \in DOMAIN Changes(l)
        PROVE  /\ DOMAIN differing(k) \subseteq DOMAIN Changes(l)[k]
               /\ DOMAIN Changes(l)[k] \subseteq DOMAIN differing(k) \cup {"id"}
               /\ \A c \in DOMAIN differing(k) : Changes(l)[k][c] = differing(k)[c]
    <2>1. Changes(l)[k] =
            IF born(k) THEN Onto(differing(k), [id |-> serial + place(k)]) ELSE differing(k)
      BY <1>1
    <2> DEFINE new == [id |-> serial + place(k)]
    <2>2. DOMAIN new = {"id"}
      OBVIOUS
    <2> HIDE DEF new
    <2>3. /\ DOMAIN Onto(differing(k), new) = DOMAIN differing(k) \cup DOMAIN new
          /\ \A c \in DOMAIN differing(k) : Onto(differing(k), new)[c] = differing(k)[c]
      BY OntoIs
    <2>4. CASE born(k)
      <3>1. Changes(l)[k] = Onto(differing(k), new)
        BY <2>1, <2>4 DEF new
      <3> HIDE DEF differing
      <3> QED BY <2>2, <2>3, <3>1
    <2>5. CASE ~born(k)
      <3>1. Changes(l)[k] = differing(k)
        BY <2>1, <2>5
      <3> QED BY <3>1
    <2> QED BY <2>4, <2>5
  <1>10. DOMAIN Changes(l) = {j \in keys : DOMAIN differing(j) # {}}
    BY <1>1
  <1> HIDE DEF differing, keys, good
  <1>11. ASSUME NEW row \in RowsIn(rows), Resolves(l, t, row)
         PROVE  LET k == Key(t, row)
                IN  /\ k \in DOMAIN Changes(l) <=> DOMAIN ToWrite(l, row) # {}
                    /\ k \in DOMAIN Changes(l) =>
                         /\ DOMAIN ToWrite(l, row) \subseteq DOMAIN Changes(l)[k]
                         /\ DOMAIN Changes(l)[k] \subseteq DOMAIN ToWrite(l, row) \cup {"id"}
                         /\ \A c \in DOMAIN ToWrite(l, row) :
                              Changes(l)[k][c] = ToWrite(l, row)[c]
    <2> DEFINE k == Key(t, row)
    <2>1. k \in keys /\ differing(k) = ToWrite(l, row)
      BY <1>7, <1>11
    <2>2. k \in DOMAIN Changes(l) <=> DOMAIN ToWrite(l, row) # {}
      BY <1>10, <2>1
    <2>3. ASSUME k \in DOMAIN Changes(l)
          PROVE  /\ DOMAIN ToWrite(l, row) \subseteq DOMAIN Changes(l)[k]
                 /\ DOMAIN Changes(l)[k] \subseteq DOMAIN ToWrite(l, row) \cup {"id"}
                 /\ \A c \in DOMAIN ToWrite(l, row) : Changes(l)[k][c] = ToWrite(l, row)[c]
      <3> HIDE DEF k
      <3> QED BY <1>9, <2>1, <2>3
    <2> QED BY <2>2, <2>3
  <1> QED BY <1>8, <1>11

\* What a loader sees: the rows as committed, with its own writes laid over them.
LEMMA ViewIs ==
  ASSUME NEW l, NEW t
  PROVE  /\ DOMAIN View(l, t) = DOMAIN tables[t] \cup DOMAIN pending[l][t]
         /\ pending[l][t] = NoRows =>
              \A k \in DOMAIN tables[t] : View(l, t)[k] = tables[t][k]
  <1> DEFINE rows == tables[t]
             changes == pending[l][t]
  <1>1. DOMAIN NoRows = {}
    BY DEF NoRows
  <1>2. View(l, t) = Overlaid(rows, changes)
    BY DEF View
  <1> HIDE DEF rows, changes
  <1>3. /\ DOMAIN Overlaid(rows, changes) = DOMAIN rows \cup DOMAIN changes
        /\ \A k \in DOMAIN rows \ DOMAIN changes : Overlaid(rows, changes)[k] = rows[k]
    BY OverlaidIs
  <1>4. changes = NoRows => \A k \in DOMAIN rows : Overlaid(rows, changes)[k] = rows[k]
    BY <1>1, <1>3
  <1> QED BY <1>2, <1>3, <1>4 DEF rows, changes

LEMMA SoundRows ==
  ASSUME NEW l, turn[l] \in DOMAIN SyncOrder, SoundDataset(payload[l])
  PROVE  \A row \in RowsIn(Rows(l)) : DOMAIN row = ColumnsOf(At(l))
  BY AtStored, StoredAreTables DEF SoundDataset, Rows

\* What a loader that is not overlapped read before is in the tables or among its writes.
LEMMA AllResolve ==
  ASSUME NEW l, LoaderInv(l), AloneInv(l), ~disturbed[l], turn[l] \in DOMAIN SyncOrder,
         NEW row \in RowsIn(Rows(l))
  PROVE  Resolves(l, At(l), row)
  <1> DEFINE t == At(l)
             d == payload[l]
  <1>1. t \in Stored /\ Place(t) = turn[l] /\ turn[l] # 0
    BY AtStored, Places
  <1>2. SoundDataset(d) /\ row \in RowsIn(d[t])
    BY <1>1 DEF LoaderInv, Rows
  <1> SUFFICES ASSUME NEW ref \in References(t)
               PROVE  row[ref[1]] \in {None} \cup KeysSeen(l, ref[2])
                        \cup (IF t = "categories" THEN Values("code", Rows(l)) ELSE {})
    BY DEF Resolves
  <1> HIDE DEF t
  <1>3. /\ ref[2] \in Stored
        /\ t # "categories" => Place(ref[2]) < Place(t)
        /\ t = "categories" => row[ref[1]] \in {None} \cup Values("code", d[t])
        /\ row[ref[1]] \in {None} \cup {k[1] : k \in Keys(ref[2], d[ref[2]])}
    BY <1>1, <1>2, ReferencesFound
  <1>4. CASE t = "categories"
    BY <1>3, <1>4 DEF Rows, t
  <1>5. CASE t # "categories"
    <2>1. Synced(tables[ref[2]], pending[l][ref[2]], ref[2], d[ref[2]])
      BY <1>1, <1>3, <1>5 DEF AloneInv
    <2>2. ColumnsOf(ref[2]) # {}
      BY <1>3, NoIdColumn
    <2>3. Keys(ref[2], d[ref[2]]) \subseteq DOMAIN View(l, ref[2])
      <3> DEFINE s == ref[2]
      <3> SUFFICES ASSUME NEW other \in RowsIn(d[s]) PROVE Key(s, other) \in DOMAIN View(l, s)
        BY DEF Keys
      <3>1. PICK c : c \in ColumnsOf(s)
        BY <2>2
      <3> HIDE DEF s
      <3>2. Key(s, other) \in DOMAIN pending[l][s] \/ Key(s, other) \in DOMAIN tables[s]
        BY <2>1, <3>1 DEF Synced, s
      <3>3. DOMAIN View(l, s) = DOMAIN tables[s] \cup DOMAIN pending[l][s]
        BY ViewIs
      <3> QED BY <3>2, <3>3
    <2>4. {k[1] : k \in Keys(ref[2], d[ref[2]])} \subseteq KeysSeen(l, ref[2])
      BY <2>3 DEF KeysSeen
    <2> QED BY <1>3, <2>4
  <1> QED BY <1>4, <1>5

\* Whatever was read before, a change of a key that is new has the whole row.
LEMMA ChangesWhole ==
  ASSUME TablesInv, NEW l, LoaderInv(l), turn[l] \in DOMAIN SyncOrder, copy[l] # NotRead
  PROVE  /\ \A k \in DOMAIN Changes(l) :
              k \in DOMAIN tables[At(l)] \/ ColumnsOf(At(l)) \subseteq DOMAIN Changes(l)[k]
         /\ At(l) = "categories" => \A k \in DOMAIN Changes(l) : CodeKey(k)
  <1> DEFINE t == At(l)
  <1>0. turn[l] # 0
    BY Places
  <1>1. SoundDataset(payload[l]) /\ DOMAIN copy[l] \subseteq DOMAIN tables[t]
    BY <1>0 DEF LoaderInv
  <1>2. \A row \in RowsIn(Rows(l)) : DOMAIN row = ColumnsOf(t)
    BY <1>1, SoundRows
  <1>3. ASSUME NEW k \in DOMAIN Changes(l)
        PROVE  k \in DOMAIN tables[t] \/ ColumnsOf(t) \subseteq DOMAIN Changes(l)[k]
    <2>1. PICK row \in RowsIn(Rows(l)) : Resolves(l, t, row) /\ Key(t, row) = k
      BY <1>1, ChangesAre
    <2>2. DOMAIN ToWrite(l, row) \subseteq DOMAIN Changes(l)[k]
      BY <1>1, <2>1, ChangesAre
    <2>3. k \notin DOMAIN copy[l] => ToWrite(l, row) = row
      BY <2>1, ToWriteIs
    <2> QED BY <1>1, <1>2, <2>2, <2>3
  <1>4. ASSUME t = "categories", NEW k \in DOMAIN Changes(l) PROVE CodeKey(k)
    <2>1. PICK row \in RowsIn(Rows(l)) : Key(t, row) = k
      BY <1>1, ChangesAre
    <2>2. k = <<row.code>>
      BY <1>4, <2>1, KeyIs
    <2>3. row.code # None
      BY <1>1, <1>4 DEF SoundDataset, Rows
    <2> QED BY <2>2, <2>3 DEF CodeKey
  <1> QED BY <1>3, <1>4

\* The changes bring the table in line with its file.
LEMMA ChangesSync ==
  ASSUME NEW l, turn[l] \in DOMAIN SyncOrder, SoundDataset(payload[l]),
         \A row \in RowsIn(Rows(l)) : Resolves(l, At(l), row),
         DOMAIN copy[l] = DOMAIN tables[At(l)],
         \A k \in DOMAIN copy[l] : copy[l][k] = tables[At(l)][k]
  PROVE  Synced(tables[At(l)], Changes(l), At(l), Rows(l))
  <1> DEFINE t == At(l)
             rows == Rows(l)
             changes == Changes(l)
             before == tables[t]
  <1>1. t \in Stored
    BY AtStored
  <1>2. ASSUME NEW row \in RowsIn(rows) PROVE DOMAIN row = ColumnsOf(t)
    BY SoundRows
  <1>3. DOMAIN changes \subseteq Keys(t, rows)
    BY ChangesAre DEF Keys
  <1>4. ASSUME NEW row \in RowsIn(rows)
        PROVE  LET k == Key(t, row)
               IN  /\ k \in DOMAIN changes <=> DOMAIN ToWrite(l, row) # {}
                   /\ k \in DOMAIN changes =>
                        /\ DOMAIN ToWrite(l, row) \subseteq DOMAIN changes[k]
                        /\ DOMAIN changes[k] \subseteq DOMAIN ToWrite(l, row) \cup {"id"}
                        /\ \A c \in DOMAIN ToWrite(l, row) : changes[k][c] = ToWrite(l, row)[c]
    BY ChangesAre
  <1>5. "id" \notin ColumnsOf(t) /\ ColumnsOf(t) # {}
    BY <1>1, NoIdColumn
  <1> HIDE DEF changes, rows, t
  <1>6. ASSUME NEW row \in RowsIn(rows), NEW c \in ColumnsOf(t)
        PROVE  IF Key(t, row) \in DOMAIN changes /\ c \in DOMAIN changes[Key(t, row)]
               THEN changes[Key(t, row)][c] = row[c]
               ELSE Key(t, row) \in DOMAIN before /\ before[Key(t, row)][c] = row[c]
    <2> DEFINE k == Key(t, row)
    <2>1. CASE k \in DOMAIN changes /\ c \in DOMAIN changes[k]
      <3>1. c \in DOMAIN ToWrite(l, row)
        BY <1>4, <1>5, <2>1
      <3>2. ToWrite(l, row)[c] = row[c]
        BY <3>1, ToWriteIs
      <3> QED BY <1>4, <2>1, <3>1, <3>2
    <2>2. CASE ~(k \in DOMAIN changes /\ c \in DOMAIN changes[k])
      <3>1. c \notin DOMAIN ToWrite(l, row)
        BY <1>4, <2>2
      <3>2. c \in DOMAIN row
        BY <1>2
      <3>3. k \in DOMAIN copy[l] /\ row[c] = copy[l][k][c]
        BY <3>1, <3>2, ToWriteIs DEF t
      <3> QED BY <2>2, <3>3 DEF t
    <2> QED BY <2>1, <2>2
  <1>7. CASE t = "daily_sales"
    <2>1. Keys(t, rows) \subseteq DOMAIN changes
      <3> SUFFICES ASSUME NEW row \in RowsIn(rows) PROVE Key(t, row) \in DOMAIN changes
        BY DEF Keys
      <3>1. ToWrite(l, row) = row
        BY <1>7, ToWriteIs DEF t
      <3> QED BY <1>2, <1>4, <1>5, <3>1
    <2> QED BY <1>3, <1>6, <1>7, <2>1 DEF Synced, t, rows, changes
  <1>8. CASE t # "daily_sales"
    <2>1. ASSUME NEW k \in DOMAIN changes \cap DOMAIN before
          PROVE  \E c \in ColumnsOf(t) \cap DOMAIN changes[k] : changes[k][c] # before[k][c]
      <3>1. PICK row \in RowsIn(rows) : Key(t, row) = k
        BY <1>3 DEF Keys
      <3>2. PICK c \in DOMAIN ToWrite(l, row) : c \in DOMAIN row /\ ToWrite(l, row)[c] = row[c]
        BY <1>4, <3>1, ToWriteIs
      <3>3. k \in DOMAIN copy[l] /\ copy[l][k] = before[k]
        BY <2>1 DEF t
      <3>4. row[c] # copy[l][k][c]
        BY <1>8, <3>1, <3>2, <3>3, ToWriteIs DEF t
      <3>5. c \in DOMAIN changes[k] /\ changes[k][c] = row[c]
        BY <1>4, <3>1, <3>2
      <3>6. c \in ColumnsOf(t)
        BY <1>2, <3>2
      <3> QED BY <3>3, <3>4, <3>5, <3>6
    <2> QED BY <1>3, <1>6, <1>8, <2>1 DEF Synced, t, rows, changes
  <1> QED BY <1>7, <1>8

----------------------------------------------------------------------------
(* The invariant is one: the first states and the directory.               *)

\* The first states have the invariant.
LEMMA LoadingInitInv == LoadingInit => CatalogInv
  <1> SUFFICES ASSUME LoadingInit PROVE CatalogInv
    OBVIOUS
  <1> USE DEF LoadingInit
  <1>1. FilesInv
    BY DirectoriesAssumption DEF FilesInv
  <1>2. 0 \in 0..(Len(TableOrder) - 1)
    BY DEF TableOrder
  <1>3. WriterInv
    BY <1>2 DEF WriterInv, NoWriter
  <1>4. DOMAIN Untouched = Stored /\ \A t \in Stored : Untouched[t] = NoRows /\ DOMAIN Untouched[t] = {}
    BY DEF Untouched, NoRows
  <1>5. "categories" \in Stored
    BY Places
  <1>6. TablesInv
    BY <1>4, <1>5 DEF TablesInv
  <1>7. CountsInv
    BY LoadingBounds, Places DEF CountsInv
  <1>8. ASSUME NEW l \in Loaders PROVE LoaderInv(l) /\ AloneInv(l)
    <2>1. turn[l] = 0 /\ payload[l] = NoDataset /\ pending[l] = Untouched /\ report[l] = Nothing
          /\ copy[l] = NotRead
      OBVIOUS
    <2>2. LoaderInv(l)
      BY <1>4, <1>5, <2>1 DEF LoaderInv
    <2> QED BY <2>1, <2>2 DEF AloneInv
  <1> QED BY <1>1, <1>3, <1>6, <1>7, <1>8 DEF CatalogInv

\* A file the generator writes is one a reader can take.
LEMMA WrittenFits ==
  ASSUME NEW t \in Tables, NEW rows, IsList(rows)
  PROVE  /\ FileFits(t, FileOf(t, rows))
         /\ \A n \in 0..Len(FileOf(t, rows).rows) :
              FileFits(t, [FileOf(t, rows) EXCEPT !.rows = SubSeq(@, 1, n)])
  <1> DEFINE file == FileOf(t, rows)
             cells == [i \in DOMAIN rows |-> Formatted(t, rows[i])]
  <1>1. file = [header |-> ColumnsOf(t), rows |-> cells]
    BY DEF FileOf
  <1>2. IsList(cells)
    <2>1. cells = [i \in DOMAIN rows |-> cells[i]]
      OBVIOUS
    <2> HIDE DEF cells
    <2> QED BY <2>1, MappedList
  <1>3. ASSUME NEW row \in RowsIn(cells), NEW c \in TextColumns[t] PROVE row[c] # None
    <2>1. PICK i \in DOMAIN rows : row = Formatted(t, rows[i])
      BY <1>3 DEF RowsIn
    <2>2. c \in ColumnsOf(t) /\ c \notin MoneyColumns[t]
      BY <1>3, StoredAreTables DEF ColumnsOf, TextColumns, MoneyColumns
    <2>3. row[c] = IF rows[i][c] = None THEN Blank ELSE rows[i][c]
      BY <2>1, <2>2 DEF Formatted
    <2> QED BY <2>3, CellsAssumption
  <1> HIDE DEF cells
  <1>4. FileFits(t, file)
    BY <1>1, <1>2, <1>3 DEF FileFits
  <1>5. ASSUME NEW n \in 0..Len(file.rows)
        PROVE  FileFits(t, [file EXCEPT !.rows = SubSeq(@, 1, n)])
    <2> DEFINE cut == [file EXCEPT !.rows = SubSeq(@, 1, n)]
               S == RowsIn(cells)
    <2>1. cut = [header |-> ColumnsOf(t), rows |-> SubSeq(cells, 1, n)]
      <3> DEFINE some == SubSeq(cells, 1, n)
      <3>1. file.rows = cells
        BY <1>1
      <3>2. cut = [file EXCEPT !.rows = some]
        BY <3>1
      <3> HIDE DEF file, some, cut
      <3>3. [file EXCEPT !.rows = some] = [header |-> ColumnsOf(t), rows |-> some]
        BY <1>1
      <3> QED BY <3>2, <3>3 DEF some
    <2>2. cells \in Seq(S) /\ n \in 0..Len(cells)
      BY <1>1, <1>2 DEF IsList
    <2> HIDE DEF S, file
    <2>3. SubSeq(cells, 1, n) = [i \in 1..n |-> cells[i]]
      BY <2>2
    <2>4. IsList(SubSeq(cells, 1, n))
      <3> DEFINE part == SubSeq(cells, 1, n)
      <3>1. part = [i \in 1..n |-> cells[i]] /\ n \in Nat
        BY <2>2, <2>3
      <3> HIDE DEF part
      <3>2. part = [i \in 1..n |-> part[i]]
        BY <3>1
      <3> QED BY <3>1, <3>2, ListIs DEF part
    <2>5. RowsIn(SubSeq(cells, 1, n)) \subseteq RowsIn(cells)
      <3>1. DOMAIN cells = 1..Len(cells)
        BY <2>2
      <3>2. \A i \in 1..n : i \in DOMAIN cells
        BY <2>2, <3>1
      <3> QED BY <2>3, <3>2 DEF RowsIn
    <2>6. cut.header = ColumnsOf(t) /\ cut.rows = SubSeq(cells, 1, n)
      BY <2>1
    <2> HIDE DEF cut
    <2>7. FileFits(t, cut)
      BY <1>3, <2>4, <2>5, <2>6 DEF FileFits
    <2> QED BY <2>7 DEF cut
  <1> QED BY <1>4, <1>5

\* The files keep fitting their tables, whoever writes them and however he ends.
LEMMA FilesStep ==
  ASSUME FilesInv, WriterInv, LoadingNext \/ UNCHANGED loadingVars
  PROVE  FilesInv' /\ WriterInv'
  <1>1. CASE UNCHANGED <<files, writer>>
    BY <1>1 DEF FilesInv, WriterInv
  <1>2. ASSUME NEW dataset \in Generated, StartWriting(dataset) PROVE FilesInv' /\ WriterInv'
    <2>1. 0 \in 0..(Len(TableOrder) - 1)
      BY DEF TableOrder
    <2>2. ValidateDataset(dataset) = {} /\ writer' = [dataset |-> dataset, done |-> 0] /\ files' = files
      BY <1>2 DEF StartWriting
    <2>3. WriterInv'
      BY <2>1, <2>2 DEF WriterInv, NoWriter
    <2> QED BY <2>2, <2>3 DEF FilesInv
  <1>3. ASSUME WriteFile \/ CutWriting
        PROVE  LET t == TableOrder[writer.done + 1]
                   file == FileOf(t, writer.dataset[t])
               IN  /\ t \in Tables /\ FileFits(t, file) /\ FileFits(t, NoFile)
                   /\ \A n \in 0..Len(file.rows) : FileFits(t, [file EXCEPT !.rows = SubSeq(@, 1, n)])
    <2> DEFINE t == TableOrder[writer.done + 1]
    <2>0. writer.dataset # NoDataset
      BY <1>3 DEF WriteFile, CutWriting
    <2>1. writer.dataset \in Generated /\ writer.done + 1 \in DOMAIN TableOrder
      BY <2>0 DEF WriterInv, TableOrder
    <2>2. t \in Tables
      BY <2>1 DEF Tables
    <2>3. IsList(writer.dataset[t])
      BY <2>1, <2>2, GeneratedAssumption
    <2> HIDE DEF t
    <2>4. FileFits(t, NoFile)
      BY DEF FileFits
    <2> QED BY <2>2, <2>3, <2>4, WrittenFits DEF t
  <1>4. NoWriter \in [dataset : Generated \cup {NoDataset}, done : 0..(Len(TableOrder) - 1)]
    BY DEF NoWriter, TableOrder
  <1>5. CASE WriteFile
    <2> DEFINE t == TableOrder[writer.done + 1]
    <2>1. files' = [files EXCEPT ![t] = FileOf(t, writer.dataset[t])] /\ t \in Tables
          /\ FileFits(t, FileOf(t, writer.dataset[t]))
      BY <1>3, <1>5 DEF WriteFile
    <2> HIDE DEF t
    <2>2. FilesInv'
      BY <2>1 DEF FilesInv
    <2>3. CASE writer.done + 1 = Len(TableOrder)
      BY <1>4, <1>5, <2>2, <2>3 DEF WriteFile, WriterInv
    <2>4. CASE writer.done + 1 # Len(TableOrder)
      <3>1. writer' = [writer EXCEPT !.done = writer.done + 1] /\ writer.dataset # NoDataset
        BY <1>5, <2>4 DEF WriteFile
      <3>2. Len(TableOrder) \in Nat
        BY DEF TableOrder
      <3>3. writer.done \in 0..(Len(TableOrder) - 1)
        BY DEF WriterInv
      <3>4. writer.done + 1 \in 0..(Len(TableOrder) - 1)
        BY <2>4, <3>2, <3>3
      <3>5. writer'.dataset = writer.dataset
            /\ writer' \in [dataset : Generated \cup {NoDataset}, done : 0..(Len(TableOrder) - 1)]
        BY <3>1, <3>4 DEF WriterInv
      <3>6. WriterInv'
        BY <3>1, <3>5 DEF WriterInv
      <3> QED BY <2>2, <3>6
    <2> QED BY <2>3, <2>4
  <1>6. CASE CutWriting
    <2> DEFINE t == TableOrder[writer.done + 1]
               file == FileOf(t, writer.dataset[t])
    <2>1. writer' = NoWriter
          /\ \E cut \in {NoFile} \cup {[file EXCEPT !.rows = SubSeq(@, 1, n)] : n \in 0..Len(file.rows)} :
               files' = [files EXCEPT ![t] = cut]
      BY <1>6 DEF CutWriting
    <2>2. /\ t \in Tables /\ FileFits(t, file) /\ FileFits(t, NoFile)
          /\ \A n \in 0..Len(file.rows) : FileFits(t, [file EXCEPT !.rows = SubSeq(@, 1, n)])
      BY <1>3, <1>6
    <2> HIDE DEF t, file
    <2>3. PICK cut : FileFits(t, cut) /\ files' = [files EXCEPT ![t] = cut]
      BY <2>1, <2>2
    <2>4. FilesInv'
      BY <2>2, <2>3 DEF FilesInv
    <2>5. WriterInv'
      BY <1>4, <2>1 DEF WriterInv
    <2> QED BY <2>4, <2>5
  <1>7. ASSUME NEW l \in Loaders, LoaderStep(l) PROVE UNCHANGED <<files, writer>>
    BY <1>7 DEF LoaderStep, BeginLoad, ReadTable, SyncTable, CommitLoad, AbandonLoad
  <1> QED BY <1>1, <1>2, <1>5, <1>6, <1>7 DEF LoadingNext, loadingVars

----------------------------------------------------------------------------
(* The invariant is one: the loaders.                                      *)

\* What holds of a loader still does when nothing of it has changed.
LEMMA LoaderStays ==
  ASSUME NEW l, LoaderInv(l), AloneInv(l), tables' = tables,
         turn'[l] = turn[l], payload'[l] = payload[l], copy'[l] = copy[l],
         pending'[l] = pending[l], report'[l] = report[l], ended'[l] = ended[l],
         disturbed'[l] = disturbed[l]
  PROVE  LoaderInv(l)' /\ AloneInv(l)'
  <1>1. At(l)' = At(l)
    BY DEF At
  <1>2. LoaderInv(l)'
    BY <1>1 DEF LoaderInv
  <1>3. Born(l)' = Born(l) /\ Edited(l)' = Edited(l)
    BY DEF Born, Edited
  <1> QED BY <1>1, <1>2, <1>3 DEF AloneInv

\* A loader begins with nothing written.
LEMMA UntouchedIs ==
  DOMAIN Untouched = Stored /\ \A t \in Stored : Untouched[t] = NoRows /\ DOMAIN Untouched[t] = {}
  BY DEF Untouched, NoRows

\* A load that ends leaves its loader as it was before it.
LEMMA LoaderRests ==
  ASSUME CountsInv, NEW l \in Loaders, NEW how \in {"refused", "abandoned", "loaded"}, Rest(l, how)
  PROVE  /\ LoaderInv(l)' /\ AloneInv(l)'
         /\ \A other \in Loaders \ {l} :
              /\ turn'[other] = turn[other] /\ payload'[other] = payload[other]
              /\ copy'[other] = copy[other] /\ pending'[other] = pending[other]
              /\ report'[other] = report[other] /\ ended'[other] = ended[other]
         /\ turn' \in [Loaders -> 0..CommitTurn]
         /\ ended' \in [Loaders -> {"never", "under way", "invalid", "refused", "abandoned", "loaded"}]
         /\ DOMAIN payload' = Loaders /\ DOMAIN copy' = Loaders
         /\ DOMAIN pending' = Loaders /\ DOMAIN report' = Loaders
  <1>1. /\ turn'[l] = 0 /\ payload'[l] = NoDataset /\ copy'[l] = NotRead
        /\ pending'[l] = Untouched /\ report'[l] = Nothing
    BY DEF Rest, CountsInv
  <1>2. LoaderInv(l)'
    BY <1>1, UntouchedIs, Places DEF LoaderInv
  <1>3. AloneInv(l)'
    BY <1>1 DEF AloneInv
  <1>4. turn' \in [Loaders -> 0..CommitTurn]
    <2>1. 0 \in 0..CommitTurn
      BY Places
    <2> QED BY <2>1 DEF Rest, CountsInv
  <1> QED BY <1>2, <1>3, <1>4 DEF Rest, CountsInv

\* A step of one loader that changes neither the tables nor another loader.
LEMMA OthersStay ==
  ASSUME CatalogInv, NEW l \in Loaders, tables' = tables,
         \A other \in Loaders \ {l} :
           /\ turn'[other] = turn[other] /\ payload'[other] = payload[other]
           /\ copy'[other] = copy[other] /\ pending'[other] = pending[other]
           /\ report'[other] = report[other] /\ ended'[other] = ended[other]
           /\ disturbed'[other] = disturbed[other],
         LoaderInv(l)' /\ AloneInv(l)'
  PROVE  \A other \in Loaders : LoaderInv(other)' /\ AloneInv(other)'
  <1> SUFFICES ASSUME NEW other \in Loaders PROVE LoaderInv(other)' /\ AloneInv(other)'
    OBVIOUS
  <1>1. CASE other = l
    BY <1>1
  <1>2. CASE other # l
    <2>1. LoaderInv(other) /\ AloneInv(other)
      BY DEF CatalogInv
    <2> QED BY <1>2, <2>1, LoaderStays
  <1> QED BY <1>1, <1>2

\* A load begins: its files are read and checked.
LEMMA BeginStep ==
  ASSUME CatalogInv, NEW l \in Loaders, BeginLoad(l)
  PROVE  TablesInv' /\ CountsInv' /\ \A other \in Loaders : LoaderInv(other)' /\ AloneInv(other)'
  <1> DEFINE invalid == LoadIssues(files) # {} \/ ValidateDataset(LoadDataset(files)) # {}
  <1>1. /\ turn[l] = 0 /\ loads < MaxLoads /\ loads' = loads + 1 /\ tables' = tables
        /\ serial' = serial /\ copy' = copy /\ pending' = pending /\ report' = report
        /\ writes' = writes
        /\ invalid => /\ ended' = [ended EXCEPT ![l] = "invalid"]
                      /\ turn' = turn /\ payload' = payload /\ disturbed' = disturbed
        /\ ~invalid => /\ ended' = [ended EXCEPT ![l] = "under way"]
                       /\ turn' = [turn EXCEPT ![l] = 1]
                       /\ payload' = [payload EXCEPT ![l] = LoadDataset(files)]
                       /\ disturbed' = [disturbed EXCEPT ![l] = FALSE]
    BY DEF BeginLoad
  <1>2. CountsInv /\ LoaderInv(l) /\ TablesInv /\ FilesInv
    BY DEF CatalogInv
  <1>3. TablesInv'
    BY <1>1, <1>2 DEF TablesInv
  <1>4. CountsInv'
    <2>0. loads \in 0..MaxLoads
      BY <1>2 DEF CountsInv
    <2>1. loads' \in 0..MaxLoads
      <3>1. loads' = loads + 1 /\ loads < MaxLoads
        BY <1>1
      <3> QED BY <2>0, <3>1, LoadingBounds
    <2>2. 1 \in 0..CommitTurn
      BY Places
    <2>3. CASE invalid
      <3> HIDE DEF invalid
      <3> QED BY <1>1, <1>2, <2>1, <2>3 DEF CountsInv
    <2>4. CASE ~invalid
      <3> HIDE DEF invalid
      <3> QED BY <1>1, <1>2, <2>1, <2>2, <2>4 DEF CountsInv
    <2> QED BY <2>3, <2>4
  <1>5. /\ pending[l] = Untouched /\ report[l] = Nothing /\ copy[l] = NotRead
        /\ payload[l] = NoDataset
    <2>1. turn[l] = 0
      BY <1>1
    <2>2. 0 \notin DOMAIN SyncOrder
      BY Places
    <2>3. pending[l] = Untouched /\ report[l] = Nothing /\ payload[l] = NoDataset
      BY <1>2, <2>1 DEF LoaderInv
    <2>4. copy[l] = NotRead
      BY <1>2, <2>1, <2>2 DEF LoaderInv
    <2> QED BY <2>3, <2>4
  <1>6. LoaderInv(l)' /\ AloneInv(l)'
    <2>1. CASE invalid
      <3>1. turn'[l] = 0 /\ payload'[l] = NoDataset /\ pending'[l] = Untouched
            /\ report'[l] = Nothing /\ copy'[l] = NotRead
        <4> HIDE DEF invalid
        <4> QED BY <1>1, <1>5, <2>1
      <3>2. LoaderInv(l)'
        BY <3>1, UntouchedIs, Places DEF LoaderInv
      <3> QED BY <3>1, <3>2 DEF AloneInv
    <2>2. CASE ~invalid
      <3>1. SoundDataset(LoadDataset(files))
        BY <1>2, <2>2, ReadIsSound DEF FilesInv
      <3>2. /\ turn'[l] = 1 /\ payload'[l] = LoadDataset(files) /\ ended'[l] = "under way"
            /\ pending'[l] = Untouched /\ report'[l] = Nothing /\ copy'[l] = NotRead
        <4> HIDE DEF invalid
        <4> QED BY <1>1, <1>2, <1>5, <2>2 DEF CountsInv
      <3>3. LoaderInv(l)'
        <4>1. "categories" \in Stored
          BY Places
        <4>2. \A t \in Stored : pending'[l][t] = NoRows /\ DOMAIN pending'[l][t] = {}
          BY <3>2, UntouchedIs
        <4>3. DOMAIN pending'[l] = Stored
          BY <3>2, UntouchedIs
        <4>4. SoundDataset(payload'[l])
          BY <3>1, <3>2
        <4>5. turn'[l] # 0
          <5>1. turn'[l] = 1
            BY <3>2
          <5> QED BY <5>1
        <4> QED BY <3>2, <4>1, <4>2, <4>3, <4>4, <4>5 DEF LoaderInv, CodeKey
      <3>4. Born(l)' = {} /\ Edited(l)' = {}
        <4>1. \A t \in Stored : DOMAIN pending'[l][t] = {}
          BY <3>2, UntouchedIs
        <4> QED BY <4>1 DEF Born, Edited
      <3>5. \A t \in Stored : ~(Place(t) < 1)
        BY Places
      <3>6. report'[l].created = {} /\ report'[l].updated = {} /\ report'[l].rejected = {}
        <4>1. Nothing.created = {} /\ Nothing.updated = {} /\ Nothing.rejected = {}
          BY DEF Nothing
        <4> QED BY <3>2, <4>1
      <3>7. turn'[l] # CommitTurn
        <4>1. CommitTurn = 7
          BY Places
        <4>2. turn'[l] = 1
          BY <3>2
        <4> QED BY <4>1, <4>2
      <3> QED BY <3>2, <3>3, <3>4, <3>5, <3>6, <3>7 DEF AloneInv
    <2> QED BY <2>1, <2>2
  <1>7. \A other \in Loaders \ {l} :
          /\ turn'[other] = turn[other] /\ payload'[other] = payload[other]
          /\ ended'[other] = ended[other] /\ disturbed'[other] = disturbed[other]
    <2> HIDE DEF invalid
    <2> QED BY <1>1, <1>2 DEF CountsInv
  <1> QED BY <1>1, <1>3, <1>4, <1>6, <1>7, OthersStay

\* A load reads the stored rows of the table at hand.
LEMMA ReadStep ==
  ASSUME CatalogInv, NEW l \in Loaders, ReadTable(l)
  PROVE  TablesInv' /\ CountsInv' /\ \A other \in Loaders : LoaderInv(other)' /\ AloneInv(other)'
  <1> DEFINE t == At(l)
  <1>1. /\ turn[l] \in DOMAIN SyncOrder /\ copy' = [copy EXCEPT ![l] = View(l, t)]
        /\ UNCHANGED <<files, writer, tables, serial, turn, payload, pending, report, ended,
                       disturbed, loads, writes>>
    BY DEF ReadTable
  <1>2. CountsInv /\ LoaderInv(l) /\ AloneInv(l) /\ TablesInv
    BY DEF CatalogInv
  <1>3. TablesInv' /\ CountsInv'
    BY <1>1, <1>2 DEF TablesInv, CountsInv
  <1>4. t \in Stored /\ Place(t) = turn[l] /\ turn[l] \in 1..6
    BY <1>1, AtStored, Places
  <1>5. pending[l][t] = NoRows
    <2>1. \A s \in Stored : turn[l] <= Place(s) => pending[l][s] = NoRows
      BY <1>2 DEF LoaderInv
    <2> HIDE DEF t
    <2> QED BY <1>4, <2>1
  <1>6. copy'[l] = View(l, t)
    BY <1>1, <1>2 DEF CountsInv
  <1>7. DOMAIN copy'[l] = DOMAIN tables[t] /\ \A k \in DOMAIN copy'[l] : copy'[l][k] = tables[t][k]
    <2>1. DOMAIN NoRows = {}
      BY DEF NoRows
    <2> HIDE DEF t
    <2>2. DOMAIN View(l, t) = DOMAIN tables[t]
      <3>1. DOMAIN View(l, t) = DOMAIN tables[t] \cup DOMAIN pending[l][t]
        BY ViewIs
      <3> QED BY <1>5, <2>1, <3>1
    <2>3. \A k \in DOMAIN tables[t] : View(l, t)[k] = tables[t][k]
      BY <1>5, ViewIs
    <2> QED BY <1>6, <2>2, <2>3
  <1>8. At(l)' = t
    BY <1>1 DEF At
  <1>9. LoaderInv(l)'
    BY <1>1, <1>2, <1>7, <1>8 DEF LoaderInv
  <1>10. AloneInv(l)'
    <2>1. Born(l)' = Born(l) /\ Edited(l)' = Edited(l)
      BY <1>1 DEF Born, Edited
    <2> QED BY <1>1, <1>2, <1>7, <1>8, <2>1 DEF AloneInv
  <1>11. \A other \in Loaders \ {l} : copy'[other] = copy[other]
    BY <1>1, <1>2 DEF CountsInv
  <1> QED BY <1>1, <1>3, <1>9, <1>10, <1>11, OthersStay

\* A load commits: what others hold is no longer alone.
LEMMA CommitStep ==
  ASSUME CatalogInv, NEW l \in Loaders, CommitLoad(l)
  PROVE  TablesInv' /\ CountsInv' /\ \A other \in Loaders : LoaderInv(other)' /\ AloneInv(other)'
  <1>1. /\ turn[l] = CommitTurn
        /\ tables' = [t \in Stored |-> Overlaid(tables[t], pending[l][t])]
        /\ disturbed' = [other \in Loaders |-> disturbed[other] \/ (other # l /\ turn[other] # 0)]
        /\ Rest(l, "loaded") /\ UNCHANGED <<files, writer, serial, loads, writes>>
    BY DEF CommitLoad
  <1>2. CountsInv /\ LoaderInv(l) /\ TablesInv
    BY DEF CatalogInv
  <1>3. ASSUME NEW t \in Stored
        PROVE  /\ DOMAIN tables'[t] = DOMAIN tables[t] \cup DOMAIN pending[l][t]
               /\ \A k \in DOMAIN tables'[t] :
                    \/ k \in DOMAIN tables[t] /\ DOMAIN tables[t][k] \subseteq DOMAIN tables'[t][k]
                    \/ k \in DOMAIN pending[l][t] \ DOMAIN tables[t]
                         /\ tables'[t][k] = pending[l][t][k]
    <2> DEFINE before == tables[t]
               changes == pending[l][t]
    <2>1. tables'[t] = Overlaid(before, changes)
      BY <1>1
    <2> HIDE DEF before, changes
    <2>2. /\ DOMAIN Overlaid(before, changes) = DOMAIN before \cup DOMAIN changes
          /\ \A k \in DOMAIN changes \ DOMAIN before : Overlaid(before, changes)[k] = changes[k]
          /\ \A k \in DOMAIN before \ DOMAIN changes : Overlaid(before, changes)[k] = before[k]
          /\ \A k \in DOMAIN before \cap DOMAIN changes :
               Overlaid(before, changes)[k] = Onto(changes[k], before[k])
      BY OverlaidIs
    <2>3. \A k \in DOMAIN before \cap DOMAIN changes :
            DOMAIN before[k] \subseteq DOMAIN Onto(changes[k], before[k])
      <3> TAKE k \in DOMAIN before \cap DOMAIN changes
      <3>1. DOMAIN Onto(changes[k], before[k]) = DOMAIN changes[k] \cup DOMAIN before[k]
        BY OntoIs
      <3> QED BY <3>1
    <2> QED BY <2>1, <2>2, <2>3 DEF before, changes
  <1>4. TablesInv'
    <2>1. DOMAIN tables' = Stored
      BY <1>1
    <2>2. ASSUME NEW t \in Stored, NEW k \in DOMAIN tables'[t]
          PROVE  ColumnsOf(t) \subseteq DOMAIN tables'[t][k]
      <3>1. CASE k \in DOMAIN tables[t]
        BY <1>2, <1>3, <3>1 DEF TablesInv
      <3>2. CASE k \in DOMAIN pending[l][t] \ DOMAIN tables[t]
        <4>1. ColumnsOf(t) \subseteq DOMAIN pending[l][t][k]
          BY <1>2, <3>2 DEF LoaderInv
        <4> QED BY <1>3, <3>2, <4>1
      <3> QED BY <1>3, <3>1, <3>2
    <2>3. \A k \in DOMAIN tables'["categories"] : CodeKey(k)
      BY <1>2, <1>3, Places DEF TablesInv, LoaderInv
    <2> QED BY <2>1, <2>2, <2>3 DEF TablesInv, CodeKey
  <1>5. CountsInv'
    <2>1. disturbed' \in [Loaders -> BOOLEAN]
      BY <1>1
    <2> QED BY <1>1, <1>2, <2>1, LoaderRests DEF CountsInv
  <1>6. ASSUME NEW other \in Loaders \ {l} PROVE LoaderInv(other)' /\ AloneInv(other)'
    <2>1. /\ turn'[other] = turn[other] /\ payload'[other] = payload[other]
          /\ copy'[other] = copy[other] /\ pending'[other] = pending[other]
          /\ report'[other] = report[other] /\ ended'[other] = ended[other]
      BY <1>1, <1>2, LoaderRests
    <2>2. LoaderInv(other)
      BY DEF CatalogInv
    <2>3. At(other)' = At(other)
      BY <2>1 DEF At
    <2>4. LoaderInv(other)'
      <3>1. copy'[other] # NotRead =>
              turn'[other] \in DOMAIN SyncOrder /\ DOMAIN copy'[other] \subseteq DOMAIN tables'[At(other)]
        BY <1>3, <2>1, <2>2, AtStored DEF LoaderInv
      <3>2. \A t \in Stored : \A k \in DOMAIN pending'[other][t] :
              k \in DOMAIN tables'[t] \/ ColumnsOf(t) \subseteq DOMAIN pending'[other][t][k]
        <4>1. \A t \in Stored : \A k \in DOMAIN pending[other][t] :
                k \in DOMAIN tables[t] \/ ColumnsOf(t) \subseteq DOMAIN pending[other][t][k]
          BY <2>2 DEF LoaderInv
        <4>2. \A t \in Stored : DOMAIN tables[t] \subseteq DOMAIN tables'[t]
          BY <1>3
        <4> QED BY <2>1, <4>1, <4>2
      <3> QED BY <2>1, <2>2, <2>3, <3>1, <3>2 DEF LoaderInv, CodeKey
    <2>5. turn'[other] # 0 => disturbed'[other]
      BY <1>1, <2>1
    <2> QED BY <2>4, <2>5 DEF AloneInv
  <1>7. LoaderInv(l)' /\ AloneInv(l)'
    BY <1>1, <1>2, LoaderRests
  <1> QED BY <1>4, <1>5, <1>6, <1>7

\* A load that ends without a trace in the tables.
LEMMA GivenUpStep ==
  ASSUME CatalogInv, NEW l \in Loaders, NEW how \in {"refused", "abandoned", "loaded"},
         Rest(l, how), UNCHANGED <<files, writer, tables, serial, disturbed, loads, writes>>
  PROVE  TablesInv' /\ CountsInv' /\ \A other \in Loaders : LoaderInv(other)' /\ AloneInv(other)'
  <1>1. CountsInv /\ TablesInv
    BY DEF CatalogInv
  <1>2. TablesInv'
    BY <1>1 DEF TablesInv
  <1>3. CountsInv'
    BY <1>1, LoaderRests DEF CountsInv
  <1>4. LoaderInv(l)' /\ AloneInv(l)'
    BY <1>1, LoaderRests
  <1>5. \A other \in Loaders \ {l} :
          /\ turn'[other] = turn[other] /\ payload'[other] = payload[other]
          /\ copy'[other] = copy[other] /\ pending'[other] = pending[other]
          /\ report'[other] = report[other] /\ ended'[other] = ended[other]
          /\ disturbed'[other] = disturbed[other]
    BY <1>1, LoaderRests
  <1> QED BY <1>2, <1>3, <1>4, <1>5, OthersStay

\* How a table ends: the load is refused, or what it wrote is kept.
Refuses(l) ==
  \/ At(l) # "daily_sales" /\ \E row \in RowsIn(Rows(l)) : ~Resolves(l, At(l), row)
  \/ At(l) # "daily_sales" /\ KeyTaken(l, Changes(l))
  \/ Inadmissible(l, Changes(l))
  \/ BarcodeTaken(l, Changes(l))

Known(l) == {k \in DOMAIN Changes(l) : k \in DOMAIN copy[l]}
Bad(l) == {row \in RowsIn(Rows(l)) : ~Resolves(l, At(l), row)}

Keeps(l) ==
  /\ pending' = [pending EXCEPT ![l][At(l)] = Changes(l)]
  /\ report' = [report EXCEPT
       ![l].created = @ \cup {<<At(l), k>> : k \in DOMAIN Changes(l) \ Known(l)},
       ![l].updated = @ \cup {<<At(l), k>> : k \in Known(l)},
       ![l].rejected = IF At(l) = "daily_sales" THEN Bad(l) ELSE @,
       ![l].duplicates = IF At(l) = "daily_sales" THEN Cardinality(Known(l)) ELSE @]
  /\ copy' = [copy EXCEPT ![l] = NotRead]
  /\ turn' = [turn EXCEPT ![l] = @ + 1]
  /\ serial' = IF At(l) = "products" THEN serial + Len(Rows(l)) ELSE serial
  /\ UNCHANGED <<payload, ended>>

\* The two ends of a table, of the action.
LEMMA SyncEnds ==
  ASSUME NEW l, SyncTable(l)
  PROVE  /\ turn[l] \in DOMAIN SyncOrder /\ copy[l] # NotRead
         /\ UNCHANGED <<files, writer, tables, disturbed, loads, writes>>
         /\ (Rest(l, "refused") /\ serial' = serial /\ Refuses(l)) \/ Keeps(l)
  BY DEF SyncTable, Refuses, Keeps, Known, Bad

\* What is kept of a table, field by field.
LEMMA KeptIs ==
  ASSUME CountsInv, NEW l \in Loaders, LoaderInv(l), turn[l] \in DOMAIN SyncOrder, Keeps(l)
  PROVE  /\ pending'[l] = [pending[l] EXCEPT ![At(l)] = Changes(l)]
         /\ report'[l].created = report[l].created \cup {<<At(l), k>> : k \in DOMAIN Changes(l) \ Known(l)}
         /\ report'[l].updated = report[l].updated \cup {<<At(l), k>> : k \in Known(l)}
         /\ report'[l].rejected = IF At(l) = "daily_sales" THEN Bad(l) ELSE report[l].rejected
         /\ report'[l].duplicates = IF At(l) = "daily_sales" THEN Cardinality(Known(l))
                                    ELSE report[l].duplicates
         /\ DOMAIN report'[l] = DOMAIN Nothing
         /\ copy'[l] = NotRead /\ turn'[l] = turn[l] + 1
         /\ payload'[l] = payload[l] /\ ended'[l] = ended[l]
         /\ \A other \in Loaders \ {l} :
              /\ turn'[other] = turn[other] /\ payload'[other] = payload[other]
              /\ copy'[other] = copy[other] /\ pending'[other] = pending[other]
              /\ report'[other] = report[other] /\ ended'[other] = ended[other]
         /\ turn' \in [Loaders -> 0..CommitTurn] /\ DOMAIN payload' = Loaders
         /\ DOMAIN copy' = Loaders /\ DOMAIN pending' = Loaders /\ DOMAIN report' = Loaders
         /\ ended' = ended
  <1>1. /\ turn \in [Loaders -> 0..CommitTurn] /\ DOMAIN payload = Loaders
        /\ DOMAIN copy = Loaders /\ DOMAIN pending = Loaders /\ DOMAIN report = Loaders
    BY DEF CountsInv
  <1>2. DOMAIN report[l] = {"created", "updated", "rejected", "duplicates"}
        /\ DOMAIN Nothing = {"created", "updated", "rejected", "duplicates"}
    BY DEF LoaderInv, Nothing
  <1>3. DOMAIN pending[l] = Stored /\ At(l) \in Stored
    BY AtStored DEF LoaderInv
  <1> DEFINE born == {<<At(l), k>> : k \in DOMAIN Changes(l) \ Known(l)}
             edited == {<<At(l), k>> : k \in Known(l)}
             sales == At(l) = "daily_sales"
             count == Cardinality(Known(l))
             bad == Bad(l)
  <1>4. report' = [report EXCEPT ![l].created = @ \cup born, ![l].updated = @ \cup edited,
                                 ![l].rejected = IF sales THEN bad ELSE @,
                                 ![l].duplicates = IF sales THEN count ELSE @]
    BY DEF Keeps
  <1> HIDE DEF born, edited, sales, count, bad
  <1>5. /\ report'[l].created = report[l].created \cup born
        /\ report'[l].updated = report[l].updated \cup edited
        /\ report'[l].rejected = IF sales THEN bad ELSE report[l].rejected
        /\ report'[l].duplicates = IF sales THEN count ELSE report[l].duplicates
        /\ DOMAIN report'[l] = DOMAIN Nothing /\ DOMAIN report' = Loaders
        /\ \A other \in Loaders \ {l} : report'[other] = report[other]
    BY <1>1, <1>2, <1>4
  <1>6. /\ pending'[l] = [pending[l] EXCEPT ![At(l)] = Changes(l)] /\ DOMAIN pending' = Loaders
        /\ \A other \in Loaders \ {l} : pending'[other] = pending[other]
    BY <1>1 DEF Keeps
  <1>7. turn[l] + 1 \in 0..CommitTurn
    BY Places
  <1>8. /\ copy'[l] = NotRead /\ turn'[l] = turn[l] + 1
        /\ turn' \in [Loaders -> 0..CommitTurn] /\ DOMAIN copy' = Loaders
        /\ \A other \in Loaders \ {l} : copy'[other] = copy[other] /\ turn'[other] = turn[other]
    BY <1>1, <1>7 DEF Keeps
  <1>9. payload' = payload /\ ended' = ended
    BY DEF Keeps
  <1> QED BY <1>1, <1>5, <1>6, <1>8, <1>9 DEF born, edited, sales, count, bad

\* What a loader that keeps a table holds after it.
LEMMA KeptLoader ==
  ASSUME CatalogInv, NEW l \in Loaders, turn[l] \in DOMAIN SyncOrder, copy[l] # NotRead, Keeps(l),
         tables' = tables
  PROVE  LoaderInv(l)'
  <1> DEFINE t == At(l)
             changes == Changes(l)
  <1>1. CountsInv /\ LoaderInv(l) /\ TablesInv
    BY DEF CatalogInv
  <1>2. t \in Stored /\ Place(t) = turn[l] /\ turn[l] \in 1..6
        /\ (\A s \in Stored : Place(s) = turn[l] => s = t) /\ \A s \in Stored : Place(s) \in Nat
    BY AtStored, Places
  <1>3. DOMAIN pending[l] = Stored
    BY <1>1 DEF LoaderInv
  <1>4. pending'[l] = [pending[l] EXCEPT ![t] = changes]
    BY <1>1, KeptIs
  <1>5. turn'[l] = turn[l] + 1 /\ copy'[l] = NotRead /\ payload'[l] = payload[l]
        /\ ended'[l] = ended[l] /\ DOMAIN report'[l] = DOMAIN Nothing
    BY <1>1, KeptIs
  <1>6. /\ \A k \in DOMAIN changes : k \in DOMAIN tables[t] \/ ColumnsOf(t) \subseteq DOMAIN changes[k]
        /\ t = "categories" => \A k \in DOMAIN changes : CodeKey(k)
    BY <1>1, ChangesWhole
  <1>7. turn[l] # 0
    BY Places
  <1>8. SoundDataset(payload[l]) /\ ended[l] = "under way"
    BY <1>1, <1>7 DEF LoaderInv
  <1> HIDE DEF t, changes
  <1>9. pending'[l][t] = changes /\ \A s \in Stored \ {t} : pending'[l][s] = pending[l][s]
    BY <1>2, <1>3, <1>4
  <1>10. \A s \in Stored : turn'[l] <= Place(s) => pending'[l][s] = NoRows
    <2> SUFFICES ASSUME NEW s \in Stored, turn'[l] <= Place(s) PROVE pending'[l][s] = NoRows
      OBVIOUS
    <2>1. s # t /\ turn[l] <= Place(s)
      BY <1>2, <1>5
    <2>2. pending[l][s] = NoRows
      BY <1>1, <2>1 DEF LoaderInv
    <2> QED BY <1>9, <2>1, <2>2
  <1>11. ASSUME NEW s \in Stored, NEW k \in DOMAIN pending'[l][s]
         PROVE  k \in DOMAIN tables[s] \/ ColumnsOf(s) \subseteq DOMAIN pending'[l][s][k]
    <2>1. CASE s = t
      BY <1>6, <1>9, <2>1
    <2>2. CASE s # t
      <3>1. k \in DOMAIN pending[l][s] /\ pending'[l][s] = pending[l][s]
        BY <1>9, <2>2
      <3> QED BY <1>1, <3>1 DEF LoaderInv
    <2> QED BY <2>1, <2>2
  <1>12. \A k \in DOMAIN pending'[l]["categories"] : CodeKey(k)
    <2>1. CASE t = "categories"
      BY <1>6, <1>9, <2>1
    <2>2. CASE t # "categories"
      <3>1. "categories" \in Stored
        BY Places
      <3>2. pending'[l]["categories"] = pending[l]["categories"]
        BY <1>9, <2>2, <3>1
      <3> QED BY <1>1, <3>2 DEF LoaderInv
    <2> QED BY <2>1, <2>2
  <1>13. DOMAIN pending'[l] = Stored
    BY <1>3, <1>4
  <1>14. turn'[l] # 0
    BY <1>2, <1>5
  <1>15. SoundDataset(payload'[l]) /\ ended'[l] = "under way"
    BY <1>5, <1>8
  <1> QED BY <1>5, <1>10, <1>11, <1>12, <1>13, <1>14, <1>15 DEF LoaderInv, CodeKey

\* A table written while no other load committed is in line with its file.
LEMMA KeptAlone ==
  ASSUME CatalogInv, NEW l \in Loaders, turn[l] \in DOMAIN SyncOrder, copy[l] # NotRead, Keeps(l),
         tables' = tables, disturbed' = disturbed
  PROVE  AloneInv(l)'
  <1> SUFFICES ASSUME ~disturbed[l] PROVE AloneInv(l)'
    BY DEF AloneInv
  <1> DEFINE t == At(l)
             changes == Changes(l)
  <1>1. CountsInv /\ LoaderInv(l) /\ AloneInv(l)
    BY DEF CatalogInv
  <1>2. t \in Stored /\ Place(t) = turn[l] /\ turn[l] \in 1..6
        /\ (\A s \in Stored : Place(s) = turn[l] => s = t) /\ \A s \in Stored : Place(s) \in Nat
    BY AtStored, Places
  <1>3. turn[l] # 0
    BY <1>2
  <1>4. SoundDataset(payload[l]) /\ DOMAIN pending[l] = Stored
    BY <1>1, <1>3 DEF LoaderInv
  <1>5. DOMAIN copy[l] = DOMAIN tables[t] /\ \A k \in DOMAIN copy[l] : copy[l][k] = tables[t][k]
    BY <1>1, <1>3 DEF AloneInv
  <1>6. /\ \A s \in Stored : Place(s) < turn[l] => Synced(tables[s], pending[l][s], s, payload[l][s])
        /\ report[l].created = Born(l) /\ report[l].updated = Edited(l) /\ report[l].rejected = {}
    BY <1>1, <1>3 DEF AloneInv
  <1>7. \A row \in RowsIn(Rows(l)) : Resolves(l, t, row)
    BY <1>1, AllResolve
  <1>8. Synced(tables[t], changes, t, payload[l][t])
    BY <1>4, <1>5, <1>7, ChangesSync DEF Rows
  <1>9. pending[l][t] = NoRows /\ DOMAIN NoRows = {}
    <2>1. \A s \in Stored : turn[l] <= Place(s) => pending[l][s] = NoRows
      BY <1>1 DEF LoaderInv
    <2> HIDE DEF t
    <2> QED BY <1>2, <2>1 DEF NoRows
  <1>10. /\ pending'[l] = [pending[l] EXCEPT ![t] = changes]
         /\ turn'[l] = turn[l] + 1 /\ copy'[l] = NotRead /\ payload'[l] = payload[l]
    BY <1>1, KeptIs
  <1>11. /\ report'[l].created = report[l].created \cup {<<t, k>> : k \in DOMAIN changes \ Known(l)}
         /\ report'[l].updated = report[l].updated \cup {<<t, k>> : k \in Known(l)}
         /\ report'[l].rejected = IF t = "daily_sales" THEN Bad(l) ELSE report[l].rejected
         /\ report'[l].duplicates = IF t = "daily_sales" THEN Cardinality(Known(l))
                                    ELSE report[l].duplicates
    BY <1>1, KeptIs
  <1>12. Known(l) = DOMAIN changes \cap DOMAIN tables[t] /\ Bad(l) = {}
    BY <1>5, <1>7 DEF Known, Bad
  <1> HIDE DEF t, changes
  <1>13. pending'[l][t] = changes /\ \A s \in Stored \ {t} : pending'[l][s] = pending[l][s]
    BY <1>2, <1>4, <1>10
  <1>14. ASSUME NEW s \in Stored, Place(s) < turn'[l]
         PROVE  Synced(tables'[s], pending'[l][s], s, payload'[l][s])
    <2>1. CASE s = t
      BY <1>8, <1>10, <1>13, <2>1
    <2>2. CASE s # t
      <3>1. Place(s) < turn[l]
        BY <1>2, <1>10, <1>14, <2>2
      <3> QED BY <1>6, <1>10, <1>13, <2>2, <3>1
    <2> QED BY <2>1, <2>2
  <1>15. Born(l)' = Born(l) \cup {<<t, k>> : k \in DOMAIN changes \ DOMAIN tables[t]}
    BY <1>2, <1>9, <1>13 DEF Born
  <1>16. Edited(l)' = Edited(l) \cup {<<t, k>> : k \in DOMAIN changes \cap DOMAIN tables[t]}
    BY <1>2, <1>9, <1>13 DEF Edited
  <1>17. report'[l].created = Born(l)' /\ report'[l].updated = Edited(l)' /\ report'[l].rejected = {}
    <2>1. DOMAIN changes \ Known(l) = DOMAIN changes \ DOMAIN tables[t]
      BY <1>12
    <2>2. report'[l].created = Born(l)'
      BY <1>6, <1>11, <1>15, <2>1
    <2>3. report'[l].updated = Edited(l)'
      BY <1>6, <1>11, <1>12, <1>16
    <2>4. report'[l].rejected = {}
      BY <1>6, <1>11, <1>12
    <2> QED BY <2>2, <2>3, <2>4
  <1>18. ASSUME turn'[l] = CommitTurn
         PROVE  report'[l].duplicates =
                  Cardinality(DOMAIN tables'["daily_sales"]
                                \cap Keys("daily_sales", payload'[l]["daily_sales"]))
    <2>1. turn[l] = 6
      BY <1>2, <1>10, <1>18, Places
    <2>2. t = "daily_sales"
      BY <1>2, <2>1, Places
    <2>3. DOMAIN changes = Keys("daily_sales", payload[l]["daily_sales"])
      BY <1>8, <2>2 DEF Synced
    <2>4. Known(l) = DOMAIN tables["daily_sales"] \cap Keys("daily_sales", payload[l]["daily_sales"])
      BY <1>12, <2>2, <2>3
    <2> QED BY <1>10, <1>11, <2>2, <2>4
  <1> QED BY <1>10, <1>14, <1>17, <1>18 DEF AloneInv

\* A load writes the table at hand, or is refused.
LEMMA SyncStep ==
  ASSUME CatalogInv, NEW l \in Loaders, SyncTable(l)
  PROVE  TablesInv' /\ CountsInv' /\ \A other \in Loaders : LoaderInv(other)' /\ AloneInv(other)'
  <1>1. /\ turn[l] \in DOMAIN SyncOrder /\ copy[l] # NotRead
        /\ UNCHANGED <<files, writer, tables, disturbed, loads, writes>>
        /\ (Rest(l, "refused") /\ serial' = serial) \/ Keeps(l)
    BY SyncEnds
  <1>2. CASE Rest(l, "refused") /\ serial' = serial
    BY <1>1, <1>2, GivenUpStep
  <1>3. CASE Keeps(l)
    <2>1. CountsInv /\ TablesInv /\ LoaderInv(l)
      BY DEF CatalogInv
    <2>2. LoaderInv(l)' /\ AloneInv(l)'
      BY <1>1, <1>3, KeptLoader, KeptAlone
    <2>3. \A other \in Loaders \ {l} :
            /\ turn'[other] = turn[other] /\ payload'[other] = payload[other]
            /\ copy'[other] = copy[other] /\ pending'[other] = pending[other]
            /\ report'[other] = report[other] /\ ended'[other] = ended[other]
            /\ disturbed'[other] = disturbed[other]
      BY <1>1, <1>3, <2>1, KeptIs
    <2>4. TablesInv'
      BY <1>1, <2>1 DEF TablesInv
    <2>5. serial' \in Nat
      <3>1. CASE At(l) = "products"
        <4>1. turn[l] # 0
          BY <1>1, Places
        <4>2. IsList(Rows(l))
          BY <2>1, <3>1, <4>1, StoredAreTables DEF LoaderInv, SoundDataset, Rows
        <4>3. PICK n \in Nat : Rows(l) = [i \in 1..n |-> Rows(l)[i]]
          BY <4>2, ListIs
        <4> DEFINE rows == Rows(l)
        <4>4. rows \in Seq(RowsIn(rows))
          BY <4>2 DEF IsList
        <4> HIDE DEF rows
        <4>5. Len(rows) \in Nat
          BY <4>4
        <4>6. serial' = serial + Len(rows) /\ serial \in Nat
          BY <1>3, <2>1, <3>1 DEF Keeps, CountsInv, rows
        <4> QED BY <4>5, <4>6
      <3>2. CASE At(l) # "products"
        BY <1>3, <2>1, <3>2 DEF Keeps, CountsInv
      <3> QED BY <3>1, <3>2
    <2>6. CountsInv'
      <3>1. /\ turn' \in [Loaders -> 0..CommitTurn] /\ DOMAIN payload' = Loaders
            /\ DOMAIN copy' = Loaders /\ DOMAIN pending' = Loaders /\ DOMAIN report' = Loaders
            /\ ended' = ended
        BY <1>1, <1>3, <2>1, KeptIs
      <3> QED BY <1>1, <2>1, <2>5, <3>1 DEF CountsInv
    <2> QED BY <1>1, <2>2, <2>3, <2>4, <2>6, OthersStay
  <1> QED BY <1>1, <1>2, <1>3

\* Every step preserves the invariant.
LEMMA CatalogStep ==
  CatalogInv /\ [LoadingNext]_loadingVars => CatalogInv'
  <1> SUFFICES ASSUME CatalogInv, [LoadingNext]_loadingVars PROVE CatalogInv'
    OBVIOUS
  <1>1. FilesInv' /\ WriterInv'
    BY FilesStep DEF CatalogInv
  <1>2. ASSUME NEW l \in Loaders, LoaderStep(l)
        PROVE  TablesInv' /\ CountsInv' /\ \A other \in Loaders : LoaderInv(other)' /\ AloneInv(other)'
    <2>1. CASE BeginLoad(l)
      BY <2>1, BeginStep
    <2>2. CASE ReadTable(l)
      BY <2>2, ReadStep
    <2>3. CASE SyncTable(l)
      BY <2>3, SyncStep
    <2>4. CASE CommitLoad(l)
      BY <2>4, CommitStep
    <2>5. CASE AbandonLoad(l)
      <3>1. Rest(l, "abandoned") /\ UNCHANGED <<files, writer, tables, serial, disturbed, loads, writes>>
        BY <2>5 DEF AbandonLoad
      <3> QED BY <3>1, GivenUpStep
    <2> QED BY <1>2, <2>1, <2>2, <2>3, <2>4, <2>5 DEF LoaderStep
  <1>3. ASSUME UNCHANGED <<tables, serial, loaderVars>>, writes' \in 0..MaxWrites
        PROVE  TablesInv' /\ CountsInv' /\ \A other \in Loaders : LoaderInv(other)' /\ AloneInv(other)'
    <2>1. TablesInv /\ CountsInv
      BY DEF CatalogInv
    <2>2. TablesInv' /\ CountsInv'
      BY <1>3, <2>1 DEF TablesInv, CountsInv, loaderVars
    <2>3. \A other \in Loaders : LoaderInv(other)' /\ AloneInv(other)'
      BY <1>3, LoaderStays DEF loaderVars, CatalogInv
    <2> QED BY <2>2, <2>3
  <1>4. ASSUME NEW dataset \in Generated, StartWriting(dataset)
        PROVE  TablesInv' /\ CountsInv' /\ \A other \in Loaders : LoaderInv(other)' /\ AloneInv(other)'
    <2>1. writes \in 0..MaxWrites
      BY DEF CatalogInv, CountsInv
    <2>2. writes' = writes + 1 /\ writes < MaxWrites /\ UNCHANGED <<tables, serial, loaderVars>>
      BY <1>4 DEF StartWriting
    <2>3. writes' \in 0..MaxWrites
      BY <2>1, <2>2, LoadingBounds
    <2> QED BY <1>3, <2>2, <2>3
  <1>5. ASSUME WriteFile \/ CutWriting \/ UNCHANGED loadingVars
        PROVE  TablesInv' /\ CountsInv' /\ \A other \in Loaders : LoaderInv(other)' /\ AloneInv(other)'
    <2>1. UNCHANGED <<tables, serial, loaderVars>> /\ writes' = writes
      BY <1>5 DEF WriteFile, CutWriting, loadingVars
    <2>2. writes' \in 0..MaxWrites
      BY <2>1 DEF CatalogInv, CountsInv
    <2> QED BY <1>3, <2>1, <2>2
  <1>6. TablesInv' /\ CountsInv' /\ \A other \in Loaders : LoaderInv(other)' /\ AloneInv(other)'
    BY <1>2, <1>4, <1>5 DEF LoadingNext
  <1> QED BY <1>1, <1>6 DEF CatalogInv

LEMMA AlwaysCatalogInv == LoadingSpec => []CatalogInv
  BY LoadingInitInv, CatalogStep, PTL DEF LoadingSpec

----------------------------------------------------------------------------
(* What the invariant says of the steps.                                   *)

(***************************************************************************)
(* Type correctness: a loader at work holds a validated dataset, has       *)
(* written nothing to the tables it has not come to, and every stored row  *)
(* is whole.                                                               *)
(***************************************************************************)
THEOREM LoadingTypeCorrect == LoadingSpec => []LoadingTypeOK
  <1>1. CatalogInv => LoadingTypeOK
    <2> SUFFICES ASSUME CatalogInv PROVE LoadingTypeOK
      OBVIOUS
    <2>1. FilesInv /\ WriterInv /\ TablesInv /\ CountsInv
      BY DEF CatalogInv
    <2>2. writer # NoWriter => /\ writer.dataset \in Generated
                               /\ writer.done \in 0..(Len(TableOrder) - 1)
      BY <2>1 DEF WriterInv
    <2>3. ASSUME NEW l \in Loaders
          PROVE  /\ IF turn[l] = 0
                    THEN payload[l] = NoDataset /\ pending[l] = Untouched /\ report[l] = Nothing
                    ELSE ValidateDataset(payload[l]) = {} /\ ended[l] = "under way"
                 /\ turn[l] \in {0, CommitTurn} => copy[l] = NotRead
                 /\ \A t \in Stored : pending[l][t] # NoRows => turn[l] > Place(t)
      <3>1. LoaderInv(l)
        BY DEF CatalogInv
      <3>2. IF turn[l] = 0
            THEN payload[l] = NoDataset /\ pending[l] = Untouched /\ report[l] = Nothing
            ELSE ValidateDataset(payload[l]) = {} /\ ended[l] = "under way"
        BY <3>1 DEF LoaderInv, SoundDataset
      <3>3. ~(0 \in DOMAIN SyncOrder) /\ ~(CommitTurn \in DOMAIN SyncOrder)
        BY Places
      <3>4. turn[l] \in {0, CommitTurn} => copy[l] = NotRead
        BY <3>1, <3>3 DEF LoaderInv
      <3>5. ASSUME NEW t \in Stored, pending[l][t] # NoRows PROVE turn[l] > Place(t)
        <4>1. ~(turn[l] <= Place(t))
          BY <3>1, <3>5 DEF LoaderInv
        <4>2. CommitTurn = 7 /\ Place(t) \in 1..6
          BY Places
        <4>3. turn[l] \in 0..CommitTurn
          BY <2>1 DEF CountsInv
        <4> QED BY <4>1, <4>2, <4>3
      <3> QED BY <3>2, <3>4, <3>5
    <2> QED BY <2>1, <2>2, <2>3 DEF LoadingTypeOK, FilesInv, TablesInv, CountsInv, Place
  <1> QED BY <1>1, AlwaysCatalogInv, PTL

\* A load under way is ended by its own step only.
LEMMA EndsBy ==
  ASSUME CatalogInv, [LoadingNext]_loadingVars, NEW l \in Loaders, turn[l] # 0,
         ended'[l] # "under way"
  PROVE  SyncTable(l) \/ CommitLoad(l) \/ AbandonLoad(l)
  <1>1. ended[l] = "under way" /\ DOMAIN ended = Loaders
    BY DEF CatalogInv, LoaderInv, CountsInv
  <1>2. ended' # ended
    BY <1>1
  <1>3. PICK other \in Loaders : LoaderStep(other)
    BY <1>2 DEF LoadingNext, StartWriting, WriteFile, CutWriting, loadingVars, loaderVars
  <1>4. ASSUME other # l PROVE ended'[l] = ended[l]
    <2>1. CASE BeginLoad(other)
      BY <1>1, <1>4, <2>1 DEF BeginLoad
    <2>2. CASE ReadTable(other)
      BY <2>2 DEF ReadTable
    <2>3. CASE SyncTable(other)
      <3>1. Rest(other, "refused") \/ Keeps(other)
        BY <2>3, SyncEnds
      <3> QED BY <1>1, <1>4, <3>1 DEF Rest, Keeps
    <2>4. CASE CommitLoad(other) \/ AbandonLoad(other)
      BY <1>1, <1>4, <2>4 DEF CommitLoad, AbandonLoad, Rest
    <2> QED BY <1>3, <2>1, <2>2, <2>3, <2>4 DEF LoaderStep
  <1>5. LoaderStep(l)
    BY <1>1, <1>3, <1>4
  <1> QED BY <1>2, <1>5 DEF LoaderStep, BeginLoad, ReadTable

\* The rows of a table that changes bring in line.
LEMMA BroughtInLine ==
  ASSUME NEW t \in Stored, NEW rows, NEW before, NEW changes, Synced(before, changes, t, rows),
         \A k \in DOMAIN before : ColumnsOf(t) \subseteq DOMAIN before[k]
  PROVE  /\ InLine(before, Overlaid(before, changes), t, rows)
         /\ t # "daily_sales" => \A k \in DOMAIN Overlaid(before, changes) :
              k \in DOMAIN before /\ Overlaid(before, changes)[k] # before[k]
                <=> k \in DOMAIN before \cap DOMAIN changes
  <1> DEFINE after == Overlaid(before, changes)
  <1>1. /\ DOMAIN after = DOMAIN before \cup DOMAIN changes
        /\ \A k \in DOMAIN changes \ DOMAIN before : after[k] = changes[k]
        /\ \A k \in DOMAIN before \ DOMAIN changes : after[k] = before[k]
        /\ \A k \in DOMAIN before \cap DOMAIN changes : after[k] = Onto(changes[k], before[k])
    BY OverlaidIs
  <1> HIDE DEF after
  <1>2. ASSUME NEW k \in DOMAIN before \cap DOMAIN changes
        PROVE  /\ \A c \in DOMAIN changes[k] : after[k][c] = changes[k][c]
               /\ \A c \in DOMAIN before[k] \ DOMAIN changes[k] : after[k][c] = before[k][c]
    <2>1. after[k] = Onto(changes[k], before[k])
      BY <1>1
    <2> DEFINE f == changes[k]
               g == before[k]
    <2> HIDE DEF f, g
    <2>2. /\ \A c \in DOMAIN f : Onto(f, g)[c] = f[c]
          /\ \A c \in DOMAIN g \ DOMAIN f : Onto(f, g)[c] = g[c]
      BY OntoIs
    <2> QED BY <2>1, <2>2 DEF f, g
  <1>3. /\ DOMAIN changes \subseteq Keys(t, rows)
        /\ \A row \in RowsIn(rows) : \A c \in ColumnsOf(t) :
             IF Key(t, row) \in DOMAIN changes /\ c \in DOMAIN changes[Key(t, row)]
             THEN changes[Key(t, row)][c] = row[c]
             ELSE Key(t, row) \in DOMAIN before /\ before[Key(t, row)][c] = row[c]
    BY DEF Synced
  <1>4. DOMAIN after = DOMAIN before \cup Keys(t, rows)
    <2>1. ColumnsOf(t) # {}
      BY NoIdColumn
    <2>2. \A row \in RowsIn(rows) : Key(t, row) \in DOMAIN changes \cup DOMAIN before
      BY <1>3, <2>1
    <2> QED BY <1>1, <1>3, <2>2 DEF Keys
  <1>5. \A k \in DOMAIN before \ Keys(t, rows) : after[k] = before[k]
    BY <1>1, <1>3
  <1>6. ASSUME NEW row \in RowsIn(rows), NEW c \in ColumnsOf(t)
        PROVE  after[Key(t, row)][c] = row[c]
    <2> DEFINE k == Key(t, row)
    <2>1. IF k \in DOMAIN changes /\ c \in DOMAIN changes[k]
          THEN changes[k][c] = row[c]
          ELSE k \in DOMAIN before /\ before[k][c] = row[c]
      BY <1>3
    <2> HIDE DEF k
    <2>2. CASE k \in DOMAIN changes /\ c \in DOMAIN changes[k]
      <3>1. CASE k \in DOMAIN before
        BY <1>2, <2>1, <2>2, <3>1 DEF k
      <3>2. CASE k \notin DOMAIN before
        BY <1>1, <2>1, <2>2, <3>2 DEF k
      <3> QED BY <3>1, <3>2
    <2>3. CASE ~(k \in DOMAIN changes /\ c \in DOMAIN changes[k])
      <3>1. k \in DOMAIN before /\ before[k][c] = row[c] /\ c \in DOMAIN before[k]
        BY <2>1, <2>3
      <3>2. CASE k \in DOMAIN changes
        BY <1>2, <2>3, <3>1, <3>2 DEF k
      <3>3. CASE k \notin DOMAIN changes
        BY <1>1, <3>1, <3>3 DEF k
      <3> QED BY <3>2, <3>3
    <2> QED BY <2>2, <2>3
  <1>7. InLine(before, after, t, rows)
    BY <1>4, <1>5, <1>6 DEF InLine
  <1>8. ASSUME t # "daily_sales", NEW k \in DOMAIN after
        PROVE  k \in DOMAIN before /\ after[k] # before[k] <=> k \in DOMAIN before \cap DOMAIN changes
    <2>1. ASSUME k \in DOMAIN before \cap DOMAIN changes PROVE after[k] # before[k]
      <3>1. PICK c \in ColumnsOf(t) \cap DOMAIN changes[k] : changes[k][c] # before[k][c]
        BY <1>8, <2>1 DEF Synced
      <3>2. after[k][c] = changes[k][c]
        BY <1>2, <2>1, <3>1
      <3> QED BY <3>1, <3>2
    <2>2. ASSUME k \in DOMAIN before, k \notin DOMAIN changes PROVE after[k] = before[k]
      BY <1>1, <2>2
    <2> QED BY <2>1, <2>2
  <1> QED BY <1>7, <1>8 DEF after

\* A loop: categories whose parents are all among them.
LEMMA InLoops ==
  ASSUME NEW rows, NEW loop
  PROVE  loop \in Loops(rows) <=>
           /\ loop \subseteq {k[1] : k \in DOMAIN rows} /\ loop # {}
           /\ \A code \in loop : rows[<<code>>].parent_code \in loop
  <1> DEFINE codes == {k[1] : k \in DOMAIN rows}
             Closed(s) == \A code \in s : rows[<<code>>].parent_code \in s
  <1>1. Loops(rows) = {s \in (SUBSET codes) \ {{}} : Closed(s)}
    BY DEF Loops
  <1> HIDE DEF codes, Closed
  <1>2. loop \in Loops(rows) <=> loop \subseteq codes /\ loop # {} /\ Closed(loop)
    BY <1>1
  <1> QED BY <1>2 DEF codes, Closed

\* No cycle of categories is closed where the rows of a sound file are in line.
LEMMA NoLoopClosed ==
  ASSUME NEW d, SoundDataset(d), NEW before, NEW after,
         InLine(before, after, "categories", d.categories),
         \A k \in DOMAIN after : CodeKey(k)
  PROVE  Loops(after) \subseteq Loops(before)
  <1> SUFFICES ASSUME NEW loop \in Loops(after) PROVE loop \in Loops(before)
    OBVIOUS
  <1> DEFINE rows == d.categories
  <1>1. /\ loop \subseteq {k[1] : k \in DOMAIN after} /\ loop # {}
        /\ \A code \in loop : after[<<code>>].parent_code \in loop
    BY InLoops
  <1>2. \A code \in loop : code # None /\ <<code>> \in DOMAIN after
    BY <1>1 DEF CodeKey
  <1>3. /\ DOMAIN after = DOMAIN before \cup Keys("categories", rows)
        /\ \A k \in DOMAIN before \ Keys("categories", rows) : after[k] = before[k]
        /\ \A row \in RowsIn(rows) : \A c \in ColumnsOf("categories") :
             after[Key("categories", row)][c] = row[c]
    BY DEF InLine
  <1>4. "parent_code" \in ColumnsOf("categories")
    BY StoredAreTables DEF ColumnsOf, OptionalColumns
  <1>5. \A row \in RowsIn(rows) : Key("categories", row) = <<row.code>>
    BY KeyIs
  <1>6. \A row \in RowsIn(rows) : after[<<row.code>>].parent_code = row.parent_code
    BY <1>3, <1>4, <1>5
  <1>7. \A row \in RowsIn(rows) : row.code \in loop => row.parent_code \in loop
    BY <1>1, <1>6
  <1>8. \A row \in RowsIn(rows) : row.code \notin loop
    BY <1>2, <1>7, NoLoopInFile
  <1>9. \A code \in loop : <<code>> \notin Keys("categories", rows)
    BY <1>5, <1>8 DEF Keys
  <1>10. \A code \in loop : <<code>> \in DOMAIN before /\ after[<<code>>] = before[<<code>>]
    BY <1>2, <1>3, <1>9
  <1>11. loop \subseteq {k[1] : k \in DOMAIN before}
    <2> SUFFICES ASSUME NEW code \in loop PROVE code \in {k[1] : k \in DOMAIN before}
      OBVIOUS
    <2>1. <<code>>[1] = code
      OBVIOUS
    <2> QED BY <1>10, <2>1
  <1>12. \A code \in loop : before[<<code>>].parent_code \in loop
    BY <1>1, <1>10
  <1> QED BY <1>1, <1>11, <1>12, InLoops

(***************************************************************************)
(* Every load that no other overlapped leaves the tables as its files tell *)
(* them, closes no cycle of categories and reports what it did, whatever   *)
(* the tables held, the directory was and other loads did before.          *)
(***************************************************************************)
THEOREM LoadsTellTables == LoadingSpec => LoadTellsTables
  <1> DEFINE Told(l) ==
        /\ \A t \in Stored : InLine(tables[t], tables'[t], t, payload[l][t])
        /\ Loops(tables'.categories) \subseteq Loops(tables.categories)
        /\ report[l].rejected = {}
        /\ report[l].duplicates =
             Cardinality(DOMAIN tables.daily_sales \cap Keys("daily_sales", payload[l].daily_sales))
        /\ \A t \in Stored \ {"daily_sales"} : \A k \in DOMAIN tables'[t] :
             /\ <<t, k>> \in report[l].created <=> k \notin DOMAIN tables[t]
             /\ <<t, k>> \in report[l].updated <=>
                  k \in DOMAIN tables[t] /\ tables'[t][k] # tables[t][k]
  <1>1. ASSUME CatalogInv, [LoadingNext]_loadingVars, CatalogInv', NEW l \in Loaders,
               turn[l] = CommitTurn, ended'[l] = "loaded", ~disturbed[l]
        PROVE  Told(l)
    <2>0. CommitTurn = 7 /\ 7 \notin DOMAIN SyncOrder
      BY Places
    <2>1. turn[l] = 7 /\ turn[l] \notin DOMAIN SyncOrder /\ turn[l] # 0
      BY <1>1, <2>0
    <2>2. CountsInv /\ LoaderInv(l) /\ AloneInv(l) /\ TablesInv /\ TablesInv'
      BY <1>1 DEF CatalogInv
    <2>3. CommitLoad(l)
      <3>1. SyncTable(l) \/ CommitLoad(l) \/ AbandonLoad(l)
        BY <1>1, <2>1, EndsBy
      <3>2. ~SyncTable(l)
        BY <2>1, SyncEnds
      <3>3. ASSUME AbandonLoad(l) PROVE ended'[l] = "abandoned"
        BY <2>2, <3>3 DEF AbandonLoad, Rest, CountsInv
      <3> QED BY <1>1, <3>1, <3>2, <3>3
    <2>4. tables' = [t \in Stored |-> Overlaid(tables[t], pending[l][t])]
      BY <2>3 DEF CommitLoad
    <2>5. SoundDataset(payload[l])
      BY <2>1, <2>2 DEF LoaderInv
    <2>6. /\ \A t \in Stored : Place(t) < turn[l] => Synced(tables[t], pending[l][t], t, payload[l][t])
          /\ report[l].created = Born(l) /\ report[l].updated = Edited(l)
          /\ report[l].rejected = {}
          /\ report[l].duplicates =
               Cardinality(DOMAIN tables["daily_sales"] \cap Keys("daily_sales", payload[l]["daily_sales"]))
      BY <1>1, <2>1, <2>2 DEF AloneInv
    <2>7. ASSUME NEW t \in Stored
          PROVE  /\ InLine(tables[t], tables'[t], t, payload[l][t])
                 /\ t # "daily_sales" => \A k \in DOMAIN tables'[t] :
                      k \in DOMAIN tables[t] /\ tables'[t][k] # tables[t][k]
                        <=> k \in DOMAIN tables[t] \cap DOMAIN pending[l][t]
                 /\ DOMAIN tables'[t] = DOMAIN tables[t] \cup DOMAIN pending[l][t]
      <3> DEFINE before == tables[t]
                 changes == pending[l][t]
      <3>1. Place(t) < turn[l]
        BY <2>1, Places
      <3>2. Synced(before, changes, t, payload[l][t])
        BY <2>6, <3>1
      <3>3. \A k \in DOMAIN before : ColumnsOf(t) \subseteq DOMAIN before[k]
        BY <2>2 DEF TablesInv
      <3>4. tables'[t] = Overlaid(before, changes)
        BY <2>4
      <3> HIDE DEF before, changes
      <3>5. DOMAIN Overlaid(before, changes) = DOMAIN before \cup DOMAIN changes
        BY OverlaidIs
      <3>6. /\ InLine(before, tables'[t], t, payload[l][t])
            /\ t # "daily_sales" => \A k \in DOMAIN tables'[t] :
                 k \in DOMAIN before /\ tables'[t][k] # before[k]
                   <=> k \in DOMAIN before \cap DOMAIN changes
        BY <3>2, <3>3, <3>4, BroughtInLine
      <3> QED BY <3>4, <3>5, <3>6 DEF before, changes
    <2>8. Loops(tables'.categories) \subseteq Loops(tables.categories)
      <3>1. \A k \in DOMAIN tables'.categories : CodeKey(k)
        BY <2>2 DEF TablesInv, CodeKey
      <3>2. InLine(tables.categories, tables'.categories, "categories", payload[l].categories)
        BY <2>7, Places
      <3> QED BY <2>5, <3>1, <3>2, NoLoopClosed
    <2>9. ASSUME NEW t \in Stored \ {"daily_sales"}, NEW k \in DOMAIN tables'[t]
          PROVE  /\ <<t, k>> \in report[l].created <=> k \notin DOMAIN tables[t]
                 /\ <<t, k>> \in report[l].updated <=>
                      k \in DOMAIN tables[t] /\ tables'[t][k] # tables[t][k]
      <3>1. <<t, k>> \in Born(l) <=> k \in DOMAIN pending[l][t] \ DOMAIN tables[t]
        BY DEF Born
      <3>2. <<t, k>> \in Edited(l) <=> k \in DOMAIN pending[l][t] \cap DOMAIN tables[t]
        BY DEF Edited
      <3>3. k \in DOMAIN tables[t] \cup DOMAIN pending[l][t]
        BY <2>7, <2>9
      <3>4. k \in DOMAIN tables[t] /\ tables'[t][k] # tables[t][k]
              <=> k \in DOMAIN tables[t] \cap DOMAIN pending[l][t]
        BY <2>7, <2>9
      <3> QED BY <2>6, <3>1, <3>2, <3>3, <3>4
    <2> QED BY <2>6, <2>7, <2>8, <2>9
  <1>2. CatalogInv /\ [LoadingNext]_loadingVars /\ CatalogInv' =>
          [\A l \in Loaders :
             turn[l] = CommitTurn /\ ended'[l] = "loaded" /\ ~disturbed[l] => Told(l)]_loadingVars
    BY <1>1
  <1> QED BY <1>2, AlwaysCatalogInv, PTL DEF LoadingSpec, LoadTellsTables

\* The checks a table declares.
LEMMA TableChecks ==
  /\ TableFor("categories").checks = {<<"parent_not_self", "rule", {"null", "another id"}>>}
  /\ \A t \in {"stores", "suppliers", "products"} : TableFor(t).checks = {}
  /\ TableFor("supplier_products").checks =
       {<<"cost", "non_negative", {">= 0"}>>, <<"case_pack", "positive", {"> 0"}>>,
        <<"minimum_order_quantity", "non_negative", {">= 0"}>>,
        <<"lead_time_days", "non_negative", {">= 0"}>>}
  /\ TableFor("daily_sales").checks =
       {<<c, "non_negative", {">= 0"}>> :
          c \in {"units_sold", "unit_price", "discount_amount", "stock_on_hand"}}
  <1>1. /\ TableFor("categories") = Catalog!Category /\ TableFor("stores") = Catalog!Store
        /\ TableFor("suppliers") = Catalog!Supplier /\ TableFor("products") = Catalog!Product
        /\ TableFor("supplier_products") = Catalog!SupplierProduct
        /\ TableFor("daily_sales") = Catalog!SalesRecord
    BY DEF TableFor, Catalog!Declared
  <1>2. Catalog!Category.checks = {<<"parent_not_self", "rule", {"null", "another id"}>>}
    BY DEF Catalog!Category, Catalog!Table, Catalog!Rule
  <1>3. Catalog!Store.checks = {} /\ Catalog!Supplier.checks = {} /\ Catalog!Product.checks = {}
    BY DEF Catalog!Store, Catalog!Supplier, Catalog!Product, Catalog!Table
  <1>4. Catalog!SupplierProduct.checks =
          {<<"cost", "non_negative", {">= 0"}>>, <<"case_pack", "positive", {"> 0"}>>,
           <<"minimum_order_quantity", "non_negative", {">= 0"}>>,
           <<"lead_time_days", "non_negative", {">= 0"}>>}
    BY DEF Catalog!SupplierProduct, Catalog!Table, Catalog!NonNegative, Catalog!AboveZero
  <1>5. Catalog!SalesRecord.checks =
          {<<c, "non_negative", {">= 0"}>> :
             c \in {"units_sold", "unit_price", "discount_amount", "stock_on_hand"}}
    BY DEF Catalog!SalesRecord, Catalog!Table, Catalog!NonNegative
  <1> QED BY <1>1, <1>2, <1>3, <1>4, <1>5

\* The columns the tables check.
LEMMA CheckedColumns ==
  ASSUME NEW t \in Stored, NEW check \in TableFor(t).checks
  PROVE  \/ t = "categories" /\ check[1] = "parent_not_self"
         \/ /\ t = "supplier_products" /\ check[2] = "non_negative"
            /\ check[1] \in {"cost", "minimum_order_quantity", "lead_time_days"}
         \/ t = "supplier_products" /\ check[2] = "positive" /\ check[1] = "case_pack"
         \/ /\ t = "daily_sales" /\ check[2] = "non_negative"
            /\ check[1] \in {"units_sold", "unit_price", "discount_amount", "stock_on_hand"}
  <1>1. CASE t = "categories"
    <2>1. check = <<"parent_not_self", "rule", {"null", "another id"}>>
      BY <1>1, TableChecks
    <2> QED BY <1>1, <2>1
  <1>2. CASE t \in {"stores", "suppliers", "products"}
    BY <1>2, TableChecks
  <1>3. CASE t = "supplier_products"
    <2>1. check \in {<<"cost", "non_negative", {">= 0"}>>, <<"case_pack", "positive", {"> 0"}>>,
                     <<"minimum_order_quantity", "non_negative", {">= 0"}>>,
                     <<"lead_time_days", "non_negative", {">= 0"}>>}
      BY <1>3, TableChecks
    <2>2. CASE check = <<"cost", "non_negative", {">= 0"}>>
      BY <1>3, <2>2
    <2>3. CASE check = <<"case_pack", "positive", {"> 0"}>>
      BY <1>3, <2>3
    <2>4. CASE check = <<"minimum_order_quantity", "non_negative", {">= 0"}>>
      BY <1>3, <2>4
    <2>5. CASE check = <<"lead_time_days", "non_negative", {">= 0"}>>
      BY <1>3, <2>5
    <2> QED BY <2>1, <2>2, <2>3, <2>4, <2>5
  <1>4. CASE t = "daily_sales"
    <2>1. PICK c \in {"units_sold", "unit_price", "discount_amount", "stock_on_hand"} :
            check = <<c, "non_negative", {">= 0"}>>
      BY <1>4, TableChecks
    <2> QED BY <1>4, <2>1
  <1> QED BY <1>1, <1>2, <1>3, <1>4, Places

\* They hold of the rows of validated files.
LEMMA ChecksHold ==
  ASSUME NEW d, SoundDataset(d), NEW t \in Stored, NEW check \in TableFor(t).checks,
         check[1] \in ColumnsOf(t), NEW row \in RowsIn(d[t])
  PROVE  ~(row[check[1]] < (IF check[2] = "positive" THEN 1 ELSE 0))
  <1>1. ASSUME t = "categories" PROVE check[1] # "parent_not_self"
    BY <1>1, StoredAreTables DEF ColumnsOf, TextColumns, OptionalColumns, MoneyColumns, NumberColumns
  <1>2. ASSUME t = "supplier_products"
        PROVE  /\ \A c \in {"cost", "minimum_order_quantity", "lead_time_days"} : ~(row[c] < 0)
               /\ ~(row["case_pack"] < 1)
    <2> DEFINE rows == d.supplier_products
    <2>1. TermIssues(rows, d) = {}
      BY DEF SoundDataset, ValidateDataset, ValidateCatalog
    <2>2. /\ Below("supplier_products", "cost", 0, rows) = {}
          /\ Below("supplier_products", "case_pack", 1, rows) = {}
          /\ Below("supplier_products", "minimum_order_quantity", 0, rows) = {}
          /\ Below("supplier_products", "lead_time_days", 0, rows) = {}
      BY <2>1 DEF TermIssues
    <2>3. row \in RowsIn(rows)
      BY <1>2
    <2> HIDE DEF rows
    <2>4. ~(row["cost"] < 0)
      BY <2>2, <2>3, NoneBelow
    <2>5. ~(row["case_pack"] < 1)
      BY <2>2, <2>3, NoneBelow
    <2>6. ~(row["minimum_order_quantity"] < 0)
      BY <2>2, <2>3, NoneBelow
    <2>7. ~(row["lead_time_days"] < 0)
      BY <2>2, <2>3, NoneBelow
    <2> QED BY <2>4, <2>5, <2>6, <2>7
  <1>3. ASSUME t = "daily_sales",
               NEW c \in {"units_sold", "unit_price", "discount_amount", "stock_on_hand"}
        PROVE  ~(row[c] < 0)
    <2> DEFINE rows == d.daily_sales
    <2>1. SalesIssues(rows, d) = {}
      BY DEF SoundDataset, ValidateDataset
    <2>2. UNION {Below("daily_sales", field, 0, rows) :
                   field \in {"units_sold", "unit_price", "discount_amount", "stock_on_hand"}} = {}
      BY <2>1 DEF SalesIssues
    <2>3. Below("daily_sales", c, 0, rows) = {}
      BY <1>3, <2>2
    <2>4. row \in RowsIn(rows)
      BY <1>3
    <2> HIDE DEF rows
    <2> QED BY <2>3, <2>4, NoneBelow
  <1> QED BY <1>1, <1>2, <1>3, CheckedColumns

\* Only products have a barcode.
LEMMA OnlyProductsHaveBarcodes ==
  ASSUME NEW t \in Stored, "ean" \in ColumnsOf(t)
  PROVE  t = "products"
  <1>1. t \in Tables
    BY StoredAreTables
  <1>2. "ean" \notin TextColumns[t]
    BY Places DEF TextColumns
  <1>3. "ean" \notin MoneyColumns[t] /\ "ean" \notin NumberColumns[t]
    BY <1>1 DEF MoneyColumns, NumberColumns
  <1>4. "ean" \in OptionalColumns[t]
    BY <1>2, <1>3 DEF ColumnsOf
  <1> QED BY <1>1, <1>4 DEF OptionalColumns

\* No check is of the identity.
LEMMA NoIdChecked ==
  ASSUME NEW t \in Stored, NEW check \in TableFor(t).checks
  PROVE  check[1] # "id"
  BY CheckedColumns

(***************************************************************************)
(* Validated files are refused by a database no other load disturbs only   *)
(* for a value its column is too small for or a barcode that another       *)
(* product has: no reference is missing, no key is taken and no check of a *)
(* table fails, whatever the tables hold.                                  *)
(***************************************************************************)
THEOREM RefusalsAreKnown == LoadingSpec => OnlyKnownRefusals
  <1> DEFINE Told(l) ==
        \/ \E t \in Stored : \E row \in RowsIn(payload[l][t]) : Oversized(t, row)
        \/ \E row \in RowsIn(payload[l].products), k \in DOMAIN tables.products :
             row.ean # None /\ k # <<row.sku>> /\ tables.products[k].ean = row.ean
  <1>1. ASSUME CatalogInv, [LoadingNext]_loadingVars, NEW l \in Loaders,
               turn[l] # 0, ended'[l] = "refused", ~disturbed[l]
        PROVE  Told(l)
    <2> DEFINE t == At(l)
               changes == Changes(l)
    <2>1. CountsInv /\ LoaderInv(l) /\ AloneInv(l)
      BY <1>1 DEF CatalogInv
    <2>2. SyncTable(l)
      <3>1. SyncTable(l) \/ CommitLoad(l) \/ AbandonLoad(l)
        BY <1>1, EndsBy
      <3>2. ASSUME AbandonLoad(l) PROVE ended'[l] = "abandoned"
        BY <2>1, <3>2 DEF AbandonLoad, Rest, CountsInv
      <3>3. ASSUME CommitLoad(l) PROVE ended'[l] = "loaded"
        BY <2>1, <3>3 DEF CommitLoad, Rest, CountsInv
      <3> QED BY <1>1, <3>1, <3>2, <3>3
    <2>3. SoundDataset(payload[l]) /\ ended[l] = "under way"
      BY <1>1, <2>1 DEF LoaderInv
    <2>4. turn[l] \in DOMAIN SyncOrder /\ copy[l] # NotRead /\ Refuses(l)
      <3>1. ~Keeps(l)
        BY <1>1, <2>3 DEF Keeps
      <3> QED BY <2>2, <3>1, SyncEnds
    <2>5. t \in Stored /\ Place(t) = turn[l]
      BY <2>4, AtStored
    <2>6. DOMAIN copy[l] = DOMAIN tables[t] /\ Rows(l) = payload[l][t]
      BY <1>1, <2>1, <2>4 DEF AloneInv, Rows
    <2>7. \A row \in RowsIn(Rows(l)) : Resolves(l, t, row)
      BY <1>1, <2>1, <2>4, AllResolve
    <2>8. ~KeyTaken(l, changes)
      <3>1. ~(\E k \in DOMAIN changes \ DOMAIN copy[l] : k \in DOMAIN tables[t])
        BY <2>6
      <3>2. ~(\E i, j \in DOMAIN Rows(l) :
                /\ i # j /\ Key(t, Rows(l)[i]) = Key(t, Rows(l)[j])
                /\ Key(t, Rows(l)[i]) \notin DOMAIN copy[l])
        <4> HIDE DEF t
        <4> QED BY <2>3, <2>5, <2>6, KeysApart
      <3> HIDE DEF changes
      <3> QED BY <3>1, <3>2 DEF KeyTaken
    <2>9. Inadmissible(l, changes) \/ BarcodeTaken(l, changes)
      BY <2>4, <2>7, <2>8 DEF Refuses
    <2>10. ASSUME NEW k \in DOMAIN changes
           PROVE  \E row \in RowsIn(payload[l][t]) :
                    /\ Key(t, row) = k /\ DOMAIN row = ColumnsOf(t)
                    /\ DOMAIN changes[k] \subseteq ColumnsOf(t) \cup {"id"}
                    /\ \A c \in DOMAIN changes[k] \cap ColumnsOf(t) : changes[k][c] = row[c]
      <3>1. PICK row \in RowsIn(Rows(l)) : Resolves(l, t, row) /\ Key(t, row) = k
        BY <2>3, <2>4, ChangesAre
      <3>2. /\ DOMAIN changes[k] \subseteq DOMAIN ToWrite(l, row) \cup {"id"}
            /\ \A c \in DOMAIN ToWrite(l, row) : changes[k][c] = ToWrite(l, row)[c]
        BY <2>3, <2>4, <3>1, ChangesAre
      <3>3. \A c \in DOMAIN ToWrite(l, row) : c \in DOMAIN row /\ ToWrite(l, row)[c] = row[c]
        BY ToWriteIs
      <3>4. DOMAIN row = ColumnsOf(t)
        BY <2>3, <2>4, SoundRows
      <3>5. "id" \notin ColumnsOf(t)
        BY <2>5, NoIdColumn
      <3> HIDE DEF t, changes
      <3> QED BY <2>6, <3>1, <3>2, <3>3, <3>4, <3>5
    <2>11. "id" \notin ColumnsOf(t)
      BY <2>5, NoIdColumn
    <2> HIDE DEF t, changes
    <2>12. ASSUME NEW k \in DOMAIN changes, Oversized(t, changes[k]) PROVE Told(l)
      <3>1. PICK row \in RowsIn(payload[l][t]) :
              /\ DOMAIN row = ColumnsOf(t)
              /\ DOMAIN changes[k] \subseteq ColumnsOf(t) \cup {"id"}
              /\ \A c \in DOMAIN changes[k] \cap ColumnsOf(t) : changes[k][c] = row[c]
        BY <2>10
      <3>2. Oversized(t, row)
        <4>1. CASE \E c \in DOMAIN changes[k] \cap (TextColumns[t] \cup OptionalColumns[t]) :
                     changes[k][c] \in Overlong
          <5>1. PICK c \in DOMAIN changes[k] \cap (TextColumns[t] \cup OptionalColumns[t]) :
                  changes[k][c] \in Overlong
            BY <4>1
          <5>2. c \in ColumnsOf(t)
            BY DEF ColumnsOf
          <5> QED BY <3>1, <5>1, <5>2 DEF Oversized
        <4>2. CASE \E c \in DOMAIN changes[k] \cap (MoneyColumns[t] \cup NumberColumns[t]) :
                     changes[k][c] > Largest
          <5>1. PICK c \in DOMAIN changes[k] \cap (MoneyColumns[t] \cup NumberColumns[t]) :
                  changes[k][c] > Largest
            BY <4>2
          <5>2. c \in ColumnsOf(t)
            BY DEF ColumnsOf
          <5> QED BY <3>1, <5>1, <5>2 DEF Oversized
        <4> QED BY <2>12, <4>1, <4>2 DEF Oversized
      <3> QED BY <2>5, <3>2
    <2>13. ASSUME NEW k \in DOMAIN changes, NEW check \in TableFor(t).checks,
                  NEW c \in DOMAIN changes[k], check[1] = c
           PROVE  ~(changes[k][c] < (IF check[2] = "positive" THEN 1 ELSE 0))
      <3>1. PICK row \in RowsIn(payload[l][t]) :
              /\ DOMAIN changes[k] \subseteq ColumnsOf(t) \cup {"id"}
              /\ \A f \in DOMAIN changes[k] \cap ColumnsOf(t) : changes[k][f] = row[f]
        BY <2>10
      <3>2. c # "id"
        BY <2>5, <2>13, NoIdChecked
      <3>3. c \in ColumnsOf(t) /\ changes[k][c] = row[c]
        BY <3>1, <3>2
      <3> QED BY <2>3, <2>5, <2>13, <3>3, ChecksHold
    <2>14. ASSUME BarcodeTaken(l, changes) PROVE Told(l)
      <3>0. PICK k \in DOMAIN changes :
              /\ "ean" \in DOMAIN changes[k] /\ changes[k].ean # None
              /\ \E held \in DOMAIN View(l, "products") \ {k} :
                   View(l, "products")[held].ean = changes[k].ean
        BY <2>14 DEF BarcodeTaken
      <3>1. PICK held \in DOMAIN View(l, "products") \ {k} :
              View(l, "products")[held].ean = changes[k].ean
        BY <3>0
      <3>2. PICK row \in RowsIn(payload[l][t]) :
              /\ Key(t, row) = k
              /\ DOMAIN changes[k] \subseteq ColumnsOf(t) \cup {"id"}
              /\ \A c \in DOMAIN changes[k] \cap ColumnsOf(t) : changes[k][c] = row[c]
        BY <2>10
      <3>3. "ean" \in ColumnsOf(t) /\ changes[k].ean = row.ean
        BY <3>0, <3>2
      <3>4. t = "products"
        BY <2>5, <3>3, OnlyProductsHaveBarcodes
      <3>5. k = <<row.sku>>
        BY <3>2, <3>4, KeyIs
      <3>6. pending[l].products = NoRows
        <4>1. \A s \in Stored : turn[l] <= Place(s) => pending[l][s] = NoRows
          BY <2>1 DEF LoaderInv
        <4>2. turn[l] \in 1..6
          BY <2>4, Places
        <4> QED BY <2>5, <3>4, <4>1, <4>2
      <3>7. DOMAIN View(l, "products") = DOMAIN tables.products
            /\ \A j \in DOMAIN tables.products : View(l, "products")[j] = tables.products[j]
        <4>1. DOMAIN View(l, "products") = DOMAIN tables.products \cup DOMAIN pending[l].products
          BY ViewIs
        <4>2. DOMAIN NoRows = {}
          BY DEF NoRows
        <4>3. \A j \in DOMAIN tables.products : View(l, "products")[j] = tables.products[j]
          BY <3>6, ViewIs
        <4> QED BY <3>6, <4>1, <4>2, <4>3
      <3>8. held \in DOMAIN tables.products /\ held # <<row.sku>>
            /\ tables.products[held].ean = row.ean /\ row.ean # None
        BY <3>0, <3>1, <3>3, <3>5, <3>7
      <3> QED BY <3>2, <3>4, <3>8
    <2>15. CASE Inadmissible(l, changes)
      <3>1. PICK k \in DOMAIN changes :
              \/ Oversized(t, changes[k])
              \/ \E check \in TableFor(t).checks, c \in DOMAIN changes[k] :
                   check[1] = c /\ changes[k][c] < (IF check[2] = "positive" THEN 1 ELSE 0)
        BY <2>15 DEF Inadmissible, t
      <3> HIDE DEF Told
      <3> QED BY <2>12, <2>13, <3>1
    <2> HIDE DEF Told
    <2> QED BY <2>9, <2>14, <2>15
  <1>2. CatalogInv /\ [LoadingNext]_loadingVars =>
          [\A l \in Loaders :
             turn[l] # 0 /\ ended'[l] = "refused" /\ ~disturbed[l] => Told(l)]_loadingVars
    BY <1>1
  <1> QED BY <1>2, AlwaysCatalogInv, PTL DEF LoadingSpec, OnlyKnownRefusals

----------------------------------------------------------------------------
(* The schema.  The chain creates 23 tables and adds three columns in 26   *)
(* statements, so a database is at one of 27 heights; a command takes it   *)
(* from the height of one revision to that of another, one statement at a  *)
(* time, and none of them can fail.                                        *)

(* A transaction: a run of states, one for each statement.                 *)

Folded(db, seq, h, s) == IF s = {} THEN db ELSE Execute(seq[Max(s)], h[s \ {Max(s)}])
FoldTable(db, seq, h) == h = [s \in SUBSET (DOMAIN seq) |-> Folded(db, seq, h, s)]

Outcome(db, seq) == FoldLeft(LAMBDA d, step : Execute(step, d), db, seq)

LEMMA AfterIs ==
  ASSUME NEW from, NEW to
  PROVE  After(from, to) = Outcome(Database, Statements(from, to))
  BY DEF After, Outcome

\* A fold over a sequence is a choice of such a table.
LEMMA FoldIs ==
  ASSUME NEW db, NEW seq
  PROVE  Outcome(db, seq) = (CHOOSE h : FoldTable(db, seq, h))[DOMAIN seq]
  BY DEF Outcome, FoldLeft, MapThenFoldSet, FoldTable, Folded

\* There is one: by the number of the statements it covers.
LEMMA FoldsExist ==
  ASSUME NEW db, NEW seq, NEW n \in Nat, DOMAIN seq = 1..n
  PROVE  \E h : FoldTable(db, seq, h)
  <1> DEFINE U == DOMAIN seq
             Upto(k, h) == \A s \in SUBSET U : Cardinality(s) <= k => h[s] = Folded(db, seq, h, s)
             Good == {k \in Nat : \E h : Upto(k, h)}
             Next(h) == [s \in SUBSET U |-> Folded(db, seq, h, s)]
  <1>1. /\ IsFiniteSet(U)
        /\ \A s \in SUBSET U : IsFiniteSet(s) /\ Cardinality(s) \in Nat /\ s \subseteq Int
    <2>1. U = 1..n /\ U \subseteq Int /\ n \in Int /\ 1 \in Int
      OBVIOUS
    <2>2. IsFiniteSet(1..n)
      BY <2>1, FS_Interval
    <2> HIDE DEF U
    <2>3. IsFiniteSet(U)
      BY <2>1, <2>2
    <2> QED BY <2>1, <2>3, FS_Subset, FS_CardinalityType
  <1> HIDE DEF U
  <1>2. \A s \in SUBSET U : s # {} =>
          /\ Max(s) \in s /\ s \ {Max(s)} \in SUBSET U
          /\ Cardinality(s \ {Max(s)}) = Cardinality(s) - 1
    BY <1>1, FS_RemoveElement, MaxOfFinite
  <1>3. 0 \in Good
    <2>1. \A s \in SUBSET U : Cardinality(s) <= 0 => s = {}
      BY <1>1, FS_EmptySet
    <2>2. Upto(0, [s \in SUBSET U |-> db])
      BY <2>1 DEF Folded
    <2> QED BY <2>2
  <1>4. ASSUME NEW k \in Nat, NEW h, Upto(k, h)
        PROVE  Upto(k + 1, Next(h))
    <2> SUFFICES ASSUME NEW s \in SUBSET U, Cardinality(s) <= k + 1
                 PROVE  Folded(db, seq, h, s) = Folded(db, seq, Next(h), s)
      OBVIOUS
    <2>1. CASE s = {}
      BY <2>1 DEF Folded
    <2>2. CASE s # {}
      <3> DEFINE r == s \ {Max(s)}
      <3>1. r \in SUBSET U /\ Cardinality(r) <= k
        BY <1>1, <1>2, <2>2
      <3>2. h[r] = Folded(db, seq, h, r)
        BY <1>4, <3>1
      <3>3. Next(h)[r] = Folded(db, seq, h, r)
        BY <3>1
      <3>4. h[r] = Next(h)[r]
        BY <3>2, <3>3
      <3> HIDE DEF Next
      <3> QED BY <2>2, <3>4 DEF Folded
    <2> QED BY <2>1, <2>2
  <1>5. Nat \subseteq Good
    <2>1. ASSUME NEW k \in Nat, k \in Good
          PROVE  k + 1 \in Good
      <3>1. PICK h : Upto(k, h)
        BY <2>1
      <3>2. Upto(k + 1, Next(h))
        BY <1>4, <3>1
      <3> HIDE DEF Upto, Next
      <3> QED BY <3>2
    <2> HIDE DEF Good
    <2> QED BY <1>3, <2>1, EveryNatural
  <1>6. PICK h : Upto(Cardinality(U), h)
    BY <1>1, <1>5
  <1>7. \A s \in SUBSET U : h[s] = Folded(db, seq, h, s)
    BY <1>1, <1>6, FS_Subset
  <1>8. \A s \in SUBSET U : Folded(db, seq, h, s) = Folded(db, seq, Next(h), s)
    <2> TAKE s \in SUBSET U
    <2>1. s # {} => h[s \ {Max(s)}] = Next(h)[s \ {Max(s)}]
      BY <1>2, <1>7
    <2> HIDE DEF Next
    <2> QED BY <2>1 DEF Folded
  <1>9. FoldTable(db, seq, Next(h))
    BY <1>8 DEF FoldTable, U
  <1> QED BY <1>9

\* What a transaction does is what its statements do, one after the other.
LEMMA FoldRuns ==
  ASSUME NEW db, NEW seq, NEW n \in Nat, DOMAIN seq = 1..n
  PROVE  \E run : /\ run[0] = db
                  /\ \A j \in 1..n : run[j] = Execute(seq[j], run[j - 1])
                  /\ Outcome(db, seq) = run[n]
  <1> DEFINE h == CHOOSE g : FoldTable(db, seq, g)
             run == [j \in 0..n |-> h[1..j]]
  <1>1. FoldTable(db, seq, h)
    BY FoldsExist
  <1>2. Outcome(db, seq) = h[1..n]
    BY FoldIs
  <1> HIDE DEF h
  <1>3. \A s \in SUBSET (1..n) : h[s] = Folded(db, seq, h, s)
    BY <1>1 DEF FoldTable
  <1>4. run[0] = db
    <2>1. 1..0 = {} /\ {} \in SUBSET (1..n) /\ 0 \in 0..n
      OBVIOUS
    <2>2. h[1..0] = db
      BY <1>3, <2>1 DEF Folded
    <2> QED BY <2>1, <2>2
  <1>5. ASSUME NEW j \in 1..n PROVE run[j] = Execute(seq[j], run[j - 1])
    <2> DEFINE s == 1..j
    <2>0. 1 \in Int /\ j \in Int /\ j \in s
      OBVIOUS
    <2>1. /\ s \in SUBSET (1..n) /\ s # {} /\ IsFiniteSet(s) /\ s \subseteq Int
          /\ j \in 0..n /\ j - 1 \in 0..n
      <3>1. IsFiniteSet(1..j)
        BY <2>0, FS_Interval
      <3> QED BY <2>0, <3>1
    <2>2. Max(s) \in s /\ \A y \in s : Max(s) >= y
      BY <2>1, MaxOfFinite
    <2>3. Max(s) = j
      BY <2>2
    <2>4. s \ {j} = 1..(j - 1)
      OBVIOUS
    <2>5. h[s] = Execute(seq[j], h[1..(j - 1)])
      BY <1>3, <2>1, <2>3, <2>4 DEF Folded
    <2> QED BY <2>1, <2>5
  <1>6. run[n] = h[1..n]
    OBVIOUS
  <1> HIDE DEF run
  <1> QED BY <1>2, <1>4, <1>5, <1>6

\* Sequences put one behind the other, from the first on.
LEMMA FlattenRuns ==
  ASSUME NEW seqs, NEW n \in Nat \ {0}, Len(seqs) = n
  PROVE  \E flat : /\ flat[1] = seqs[1]
                   /\ \A i \in 2..n : flat[i] = flat[i - 1] \o seqs[i]
                   /\ FlattenSeq(seqs) = flat[n]
  <1> DEFINE Next(h, i) == IF i = 1 THEN seqs[i] ELSE h[i - 1] \o seqs[i]
             Flat(h, m) == h = [i \in 1..m |-> Next(h, i)]
             Good == {m \in Nat : \E h : Flat(h, m)}
  <1>1. 0 \in Good
    <2>1. Flat([i \in 1..0 |-> i], 0)
      OBVIOUS
    <2> QED BY <2>1
  <1>2. ASSUME NEW m \in Nat, NEW h, Flat(h, m)
        PROVE  \E g : Flat(g, m + 1)
    <2> DEFINE g == [i \in 1..(m + 1) |-> IF i <= m THEN h[i] ELSE Next(h, i)]
    <2>1. ASSUME NEW i \in 1..(m + 1) PROVE g[i] = Next(g, i)
      <3>1. g[i] = Next(h, i)
        <4>1. CASE i <= m
          <5>1. i \in 1..m /\ g[i] = h[i]
            BY <4>1
          <5> HIDE DEF Next, g
          <5> QED BY <1>2, <5>1
        <4>2. CASE ~(i <= m)
          BY <4>2
        <4> QED BY <4>1, <4>2
      <3>2. i # 1 => g[i - 1] = h[i - 1]
        OBVIOUS
      <3> HIDE DEF g
      <3> QED BY <3>1, <3>2
    <2>2. g = [i \in 1..(m + 1) |-> g[i]]
      OBVIOUS
    <2> HIDE DEF g, Next
    <2>3. Flat(g, m + 1)
      BY <2>1, <2>2
    <2> QED BY <2>3
  <1>3. Nat \subseteq Good
    <2>1. ASSUME NEW m \in Nat, m \in Good PROVE m + 1 \in Good
      <3>1. PICK h : Flat(h, m)
        BY <2>1
      <3> HIDE DEF Flat
      <3> QED BY <1>2, <3>1
    <2> HIDE DEF Good
    <2> QED BY <1>1, <2>1, EveryNatural
  <1>4. \E h : Flat(h, n)
    BY <1>3
  <1> DEFINE flat == CHOOSE h : Flat(h, n)
  <1>5. Flat(flat, n)
    BY <1>4
  <1>6. FlattenSeq(seqs) = flat[n]
    BY DEF FlattenSeq
  <1> HIDE DEF flat
  <1>7. flat[1] = seqs[1] /\ \A i \in 2..n : flat[i] = flat[i - 1] \o seqs[i]
    <2>1. \A i \in 1..n : flat[i] = Next(flat, i)
      <3> HIDE DEF Next
      <3> QED BY <1>5
    <2>2. 1 \in 1..n /\ \A i \in 2..n : i \in 1..n /\ i # 1
      OBVIOUS
    <2>3. flat[1] = seqs[1]
      BY <2>1, <2>2
    <2>4. ASSUME NEW i \in 2..n PROVE flat[i] = flat[i - 1] \o seqs[i]
      <3>1. i \in 1..n /\ i # 1
        BY <2>2
      <3> QED BY <2>1, <3>1
    <2> QED BY <2>3, <2>4
  <1> QED BY <1>6, <1>7
----------------------------------------------------------------------------
(* The tables: the statement of the chain that creates each, and the one   *)
(* that adds a column to it.                                               *)

BornAt ==
  [categories |-> 1, stores |-> 2, suppliers |-> 3, products |-> 4, sales_records |-> 5,
   supplier_products |-> 6, forecast_runs |-> 7, forecast_predictions |-> 8,
   supplier_documents |-> 9, document_findings |-> 10, purchase_orders |-> 11,
   purchase_order_lines |-> 12, goods_receipts |-> 13, goods_receipt_lines |-> 14,
   supplier_invoices |-> 15, supplier_invoice_lines |-> 16, reconciliation_runs |-> 17,
   reconciliation_exceptions |-> 18, review_cases |-> 19, review_ai_snapshots |-> 20,
   review_decisions |-> 21, review_audit_events |-> 22, processing_jobs |-> 26]

Made ==
  [categories |-> CreateCategories.table, stores |-> CreateStores.table,
   suppliers |-> CreateSuppliers.table, products |-> CreateProducts.table,
   sales_records |-> CreateSalesRecords.table,
   supplier_products |-> CreateSupplierProducts.table,
   forecast_runs |-> CreateForecastRuns.table,
   forecast_predictions |-> CreateForecastPredictions.table,
   supplier_documents |-> CreateSupplierDocuments.table,
   document_findings |-> CreateDocumentFindings.table,
   purchase_orders |-> CreatePurchaseOrders.table,
   purchase_order_lines |-> CreatePurchaseOrderLines.table,
   goods_receipts |-> CreateGoodsReceipts.table,
   goods_receipt_lines |-> CreateGoodsReceiptLines.table,
   supplier_invoices |-> CreateSupplierInvoices.table,
   supplier_invoice_lines |-> CreateSupplierInvoiceLines.table,
   reconciliation_runs |-> CreateReconciliationRuns.table,
   reconciliation_exceptions |-> CreateReconciliationExceptions.table,
   review_cases |-> CreateReviewCases.table,
   review_ai_snapshots |-> CreateReviewSnapshots.table,
   review_decisions |-> CreateReviewDecisions.table,
   review_audit_events |-> CreateReviewAuditEvents.table,
   processing_jobs |-> CreateProcessingJobs.table]

GrownAt == [review_cases |-> 23, review_decisions |-> 24, review_audit_events |-> 25]
Gained == [review_cases |-> "reviewer_subject", review_decisions |-> "reviewer_subject",
           review_audit_events |-> "actor_subject"]

\* A table, and all of them, after so many statements of the chain.
Form(n, k) ==
  IF n \in DOMAIN GrownAt /\ GrownAt[n] <= k
  THEN [Made[n] EXCEPT !.optional = @ \cup {Gained[n]}]
  ELSE Made[n]
Standing(k) == {n \in DOMAIN BornAt : BornAt[n] <= k}
Level(k) == [n \in Standing(k) |-> Form(n, k)]

\* Every table is created once, by one of the 26 statements, and three gain a column later.
LEMMA BornIs ==
  /\ DOMAIN BornAt = DOMAIN Declared /\ DOMAIN Made = DOMAIN Declared
  /\ \A n \in DOMAIN BornAt : BornAt[n] \in 1..26
  /\ \A n, m \in DOMAIN BornAt : BornAt[n] = BornAt[m] => n = m
  /\ DOMAIN GrownAt = {"review_cases", "review_decisions", "review_audit_events"}
  /\ DOMAIN GrownAt \subseteq DOMAIN BornAt
  /\ \A n \in DOMAIN GrownAt : GrownAt[n] \in 23..25 /\ BornAt[n] < GrownAt[n]
  /\ \A n \in DOMAIN BornAt : BornAt[n] \notin 23..25
  /\ \A n, m \in DOMAIN GrownAt : GrownAt[n] = GrownAt[m] => n = m
  <1>1. DOMAIN BornAt = DOMAIN Declared /\ DOMAIN Made = DOMAIN Declared
    BY DEF BornAt, Declared, Made
  <1>2. DOMAIN BornAt = {"categories", "stores", "suppliers", "products", "sales_records",
          "supplier_products", "forecast_runs", "forecast_predictions", "supplier_documents",
          "document_findings", "purchase_orders", "purchase_order_lines", "goods_receipts",
          "goods_receipt_lines", "supplier_invoices", "supplier_invoice_lines",
          "reconciliation_runs", "reconciliation_exceptions", "review_cases",
          "review_ai_snapshots", "review_decisions", "review_audit_events", "processing_jobs"}
    BY DEF BornAt
  <1>3. \A n \in DOMAIN BornAt : BornAt[n] \in 1..26 /\ BornAt[n] \notin 23..25
    BY <1>2 DEF BornAt
  <1>4. \A n, m \in DOMAIN BornAt : BornAt[n] = BornAt[m] => n = m
    BY <1>2 DEF BornAt
  <1>5. /\ DOMAIN GrownAt = {"review_cases", "review_decisions", "review_audit_events"}
        /\ \A n \in DOMAIN GrownAt : GrownAt[n] \in 23..25
        /\ \A n, m \in DOMAIN GrownAt : GrownAt[n] = GrownAt[m] => n = m
    BY DEF GrownAt
  <1>6. DOMAIN GrownAt \subseteq DOMAIN BornAt /\ \A n \in DOMAIN GrownAt : BornAt[n] < GrownAt[n]
    <2>1. /\ BornAt.review_cases = 19 /\ BornAt.review_decisions = 21
          /\ BornAt.review_audit_events = 22
      BY DEF BornAt
    <2>2. DOMAIN GrownAt \subseteq DOMAIN BornAt
      BY <1>2, <1>5
    <2> QED BY <1>5, <2>1, <2>2
  <1> QED BY <1>1, <1>3, <1>4, <1>5, <1>6

\* The keys, references and indexes of a table, one, two or three at a time.
LEMMA OneKey == \A c : ToSet(One(c)) = {c}
  BY DEF ToSet, One
LEMMA PairKey == \A c, d : ToSet(<<c, d>>) = {c, d}
  BY DEF ToSet
LEMMA TripleKey == \A c, d, e : ToSet(<<c, d, e>>) = {c, d, e}
  BY DEF ToSet
LEMMA FourKey == \A c, d, e, f : ToSet(<<c, d, e, f>>) = {c, d, e, f}
  BY DEF ToSet

\* The column of a reference and the table it points at.
LEMMA RefIs ==
  \A c, t : /\ RefersTo(c, t)[1] = c /\ RefersTo(c, t)[2] = t
            /\ OwnedBy(c, t)[1] = c /\ OwnedBy(c, t)[2] = t
  BY DEF RefersTo, OwnedBy

Refers(refs, columns, known) == \A ref \in refs : ref[1] \in columns /\ ref[2] \in known
Keyed(unique, columns) == \A key \in unique : ToSet(key) \subseteq columns
IndexedBy(indexes, names, columns) ==
  /\ {index[1] : index \in indexes} = names
  /\ \A index \in indexes : ToSet(index[2]) \subseteq columns

\* An index on each of some columns is named for it.
LEMMA IndexedIs ==
  ASSUME NEW C, NEW S \in SUBSET C
  PROVE  IndexedBy(Indexed(S), S, C)
  <1>1. ASSUME NEW index \in Indexed(S)
        PROVE  \E c \in S : index[1] = c /\ index[2] = One(c)
    <2>1. PICK c \in S : index = <<c, One(c)>>
      BY <1>1 DEF Indexed
    <2> QED BY <2>1
  <1>2. ASSUME NEW c \in S PROVE \E index \in Indexed(S) : index[1] = c
    <2>1. <<c, One(c)>> \in Indexed(S) /\ <<c, One(c)>>[1] = c
      BY DEF Indexed
    <2> QED BY <2>1
  <1>3. \A index \in Indexed(S) : ToSet(index[2]) \subseteq C
    BY <1>1, OneKey
  <1> QED BY <1>1, <1>2, <1>3 DEF IndexedBy

\* A table the database lets the k-th statement create, with the indexes it has then.
IsTable(table) ==
  table = Table(table.needed, table.defaulted, table.optional, table.refs, table.unique,
                table.checks, table.indexes)
Fits(table, k, names) ==
  /\ IsTable(table)
  /\ Refers(table.refs, Columns(table), Standing(k))
  /\ Keyed(table.unique, Columns(table))
  /\ IndexedBy(table.indexes, names, Columns(table))

\* Each migration's tables, one by one: the columns its keys, indexes and references
\* name are there, and so are the tables it refers to.
LEMMA CategoriesFits == Fits(CreateCategories.table, 1, {"parent_id"})
  <1> DEFINE t == CreateCategories.table
             C == Columns(t)
  <1>1. {"parent_id", "code"} \subseteq C
    BY DEF CreateCategories, Create, Table, Columns, Mutable, Fact
  <1>2. /\ t.refs = {RefersTo("parent_id", "categories")}
        /\ t.unique = {One("code")}
        /\ t.indexes = Indexed({"parent_id"})
    BY DEF CreateCategories, Create, Table
  <1>3. IsTable(t)
    BY DEF CreateCategories, Create, Table, IsTable
  <1>4. {"categories"} \subseteq Standing(1)
    BY DEF Standing, BornAt
  <1> HIDE DEF t, C
  <1>5. Refers(t.refs, C, Standing(1))
    BY <1>1, <1>2, <1>4, RefIs DEF Refers
  <1>6. Keyed(t.unique, C)
    BY <1>1, <1>2, OneKey DEF Keyed
  <1>7. IndexedBy(t.indexes, {"parent_id"}, C)
    BY <1>1, <1>2, IndexedIs
  <1> QED BY <1>1, <1>3, <1>5, <1>6, <1>7 DEF Fits, t, C

LEMMA StoresFits == Fits(CreateStores.table, 2, {"region", "store_type"})
  <1> DEFINE t == CreateStores.table
             C == Columns(t)
  <1>1. {"code", "region", "store_type"} \subseteq C
    BY DEF CreateStores, Create, Table, Columns, Mutable, Fact
  <1>2. /\ t.refs = {}
        /\ t.unique = {One("code")}
        /\ t.indexes = Indexed({"region", "store_type"})
    BY DEF CreateStores, Create, Table
  <1>3. IsTable(t)
    BY DEF CreateStores, Create, Table, IsTable
  <1> HIDE DEF t, C
  <1>5. Refers(t.refs, C, Standing(2))
    BY <1>2 DEF Refers
  <1>6. Keyed(t.unique, C)
    BY <1>1, <1>2, OneKey DEF Keyed
  <1>7. IndexedBy(t.indexes, {"region", "store_type"}, C)
    BY <1>1, <1>2, IndexedIs
  <1> QED BY <1>1, <1>3, <1>5, <1>6, <1>7 DEF Fits, t, C

LEMMA SuppliersFits == Fits(CreateSuppliers.table, 3, {})
  <1> DEFINE t == CreateSuppliers.table
             C == Columns(t)
  <1>1. {"code"} \subseteq C
    BY DEF CreateSuppliers, Create, Table, Columns, Mutable, Fact
  <1>2. /\ t.refs = {}
        /\ t.unique = {One("code")}
        /\ t.indexes = {}
    BY DEF CreateSuppliers, Create, Table
  <1>3. IsTable(t)
    BY DEF CreateSuppliers, Create, Table, IsTable
  <1> HIDE DEF t, C
  <1>5. Refers(t.refs, C, Standing(3))
    BY <1>2 DEF Refers
  <1>6. Keyed(t.unique, C)
    BY <1>1, <1>2, OneKey DEF Keyed
  <1>7. IndexedBy(t.indexes, {}, C)
    BY <1>2 DEF IndexedBy
  <1> QED BY <1>1, <1>3, <1>5, <1>6, <1>7 DEF Fits, t, C

LEMMA ProductsFits == Fits(CreateProducts.table, 4, {"category_id"})
  <1> DEFINE t == CreateProducts.table
             C == Columns(t)
  <1>1. {"category_id", "ean", "sku"} \subseteq C
    BY DEF CreateProducts, Create, Table, Columns, Mutable, Fact
  <1>2. /\ t.refs = {RefersTo("category_id", "categories")}
        /\ t.unique = {One("ean"), One("sku")}
        /\ t.indexes = Indexed({"category_id"})
    BY DEF CreateProducts, Create, Table
  <1>3. IsTable(t)
    BY DEF CreateProducts, Create, Table, IsTable
  <1>4. {"categories"} \subseteq Standing(4)
    BY DEF Standing, BornAt
  <1> HIDE DEF t, C
  <1>5. Refers(t.refs, C, Standing(4))
    BY <1>1, <1>2, <1>4, RefIs DEF Refers
  <1>6. Keyed(t.unique, C)
    BY <1>1, <1>2, OneKey DEF Keyed
  <1>7. IndexedBy(t.indexes, {"category_id"}, C)
    BY <1>1, <1>2, IndexedIs
  <1> QED BY <1>1, <1>3, <1>5, <1>6, <1>7 DEF Fits, t, C

LEMMA SalesRecordsFits == Fits(CreateSalesRecords.table, 5, {"business_date", "product_id",
  "store_id"})
  <1> DEFINE t == CreateSalesRecords.table
             C == Columns(t)
  <1>1. {"product_id", "store_id", "business_date"} \subseteq C
    BY DEF CreateSalesRecords, Create, Table, Columns, Mutable, Fact
  <1>2. /\ t.refs = {RefersTo("product_id", "products"), RefersTo("store_id", "stores")}
        /\ t.unique = {<<"store_id", "product_id", "business_date">>}
        /\ t.indexes = Indexed({"business_date", "product_id", "store_id"})
    BY DEF CreateSalesRecords, Create, Table
  <1>3. IsTable(t)
    BY DEF CreateSalesRecords, Create, Table, IsTable
  <1>4. {"products", "stores"} \subseteq Standing(5)
    BY DEF Standing, BornAt
  <1> HIDE DEF t, C
  <1>5. Refers(t.refs, C, Standing(5))
    BY <1>1, <1>2, <1>4, RefIs DEF Refers
  <1>6. Keyed(t.unique, C)
    BY <1>1, <1>2, TripleKey DEF Keyed
  <1>7. IndexedBy(t.indexes, {"business_date", "product_id", "store_id"}, C)
    BY <1>1, <1>2, IndexedIs
  <1> QED BY <1>1, <1>3, <1>5, <1>6, <1>7 DEF Fits, t, C

LEMMA SupplierProductsFits == Fits(CreateSupplierProducts.table, 6, {"product_id",
  "supplier_id"})
  <1> DEFINE t == CreateSupplierProducts.table
             C == Columns(t)
  <1>1. {"product_id", "supplier_id"} \subseteq C
    BY DEF CreateSupplierProducts, Create, Table, Columns, Mutable, Fact
  <1>2. /\ t.refs = {RefersTo("product_id", "products"), RefersTo("supplier_id", "suppliers")}
        /\ t.unique = {<<"supplier_id", "product_id">>}
        /\ t.indexes = Indexed({"product_id", "supplier_id"})
    BY DEF CreateSupplierProducts, Create, Table
  <1>3. IsTable(t)
    BY DEF CreateSupplierProducts, Create, Table, IsTable
  <1>4. {"products", "suppliers"} \subseteq Standing(6)
    BY DEF Standing, BornAt
  <1> HIDE DEF t, C
  <1>5. Refers(t.refs, C, Standing(6))
    BY <1>1, <1>2, <1>4, RefIs DEF Refers
  <1>6. Keyed(t.unique, C)
    BY <1>1, <1>2, PairKey DEF Keyed
  <1>7. IndexedBy(t.indexes, {"product_id", "supplier_id"}, C)
    BY <1>1, <1>2, IndexedIs
  <1> QED BY <1>1, <1>3, <1>5, <1>6, <1>7 DEF Fits, t, C

LEMMA ForecastRunsFits == Fits(CreateForecastRuns.table, 7, {"cutoff", "model_id"})
  <1> DEFINE t == CreateForecastRuns.table
             C == Columns(t)
  <1>1. {"cutoff", "model_id"} \subseteq C
    BY DEF CreateForecastRuns, Create, Table, Columns, Mutable, Fact
  <1>2. /\ t.refs = {}
        /\ t.unique = {}
        /\ t.indexes = Indexed({"cutoff", "model_id"})
    BY DEF CreateForecastRuns, Create, Table
  <1>3. IsTable(t)
    BY DEF CreateForecastRuns, Create, Table, IsTable
  <1> HIDE DEF t, C
  <1>5. Refers(t.refs, C, Standing(7))
    BY <1>2 DEF Refers
  <1>6. Keyed(t.unique, C)
    BY <1>2 DEF Keyed
  <1>7. IndexedBy(t.indexes, {"cutoff", "model_id"}, C)
    BY <1>1, <1>2, IndexedIs
  <1> QED BY <1>1, <1>3, <1>5, <1>6, <1>7 DEF Fits, t, C

LEMMA ForecastPredictionsFits == Fits(CreateForecastPredictions.table, 8, {"forecast_run_id",
  "period_start"})
  <1> DEFINE t == CreateForecastPredictions.table
             C == Columns(t)
  <1>1. {"forecast_run_id", "store_code", "category_code", "period_start"} \subseteq C
    BY DEF CreateForecastPredictions, Create, Table, Columns, Mutable, Fact
  <1>2. /\ t.refs = {OwnedBy("forecast_run_id", "forecast_runs")}
        /\ t.unique = {<<"forecast_run_id", "store_code", "category_code", "period_start">>}
        /\ t.indexes = Indexed({"forecast_run_id", "period_start"})
    BY DEF CreateForecastPredictions, Create, Table
  <1>3. IsTable(t)
    BY DEF CreateForecastPredictions, Create, Table, IsTable
  <1>4. {"forecast_runs"} \subseteq Standing(8)
    BY DEF Standing, BornAt
  <1> HIDE DEF t, C
  <1>5. Refers(t.refs, C, Standing(8))
    BY <1>1, <1>2, <1>4, RefIs DEF Refers
  <1>6. Keyed(t.unique, C)
    BY <1>1, <1>2, FourKey DEF Keyed
  <1>7. IndexedBy(t.indexes, {"forecast_run_id", "period_start"}, C)
    BY <1>1, <1>2, IndexedIs
  <1> QED BY <1>1, <1>3, <1>5, <1>6, <1>7 DEF Fits, t, C

LEMMA SupplierDocumentsFits == Fits(CreateSupplierDocuments.table, 9, {"status",
  "supplier_id"})
  <1> DEFINE t == CreateSupplierDocuments.table
             C == Columns(t)
  <1>1. {"supplier_id", "storage_key", "status"} \subseteq C
    BY DEF CreateSupplierDocuments, Create, Table, Columns, Mutable, Fact
  <1>2. /\ t.refs = {RefersTo("supplier_id", "suppliers")}
        /\ t.unique = {One("storage_key")}
        /\ t.indexes = Indexed({"status", "supplier_id"})
    BY DEF CreateSupplierDocuments, Create, Table
  <1>3. IsTable(t)
    BY DEF CreateSupplierDocuments, Create, Table, IsTable
  <1>4. {"suppliers"} \subseteq Standing(9)
    BY DEF Standing, BornAt
  <1> HIDE DEF t, C
  <1>5. Refers(t.refs, C, Standing(9))
    BY <1>1, <1>2, <1>4, RefIs DEF Refers
  <1>6. Keyed(t.unique, C)
    BY <1>1, <1>2, OneKey DEF Keyed
  <1>7. IndexedBy(t.indexes, {"status", "supplier_id"}, C)
    BY <1>1, <1>2, IndexedIs
  <1> QED BY <1>1, <1>3, <1>5, <1>6, <1>7 DEF Fits, t, C

LEMMA DocumentFindingsFits == Fits(CreateDocumentFindings.table, 10, {"document_id"})
  <1> DEFINE t == CreateDocumentFindings.table
             C == Columns(t)
  <1>1. {"document_id"} \subseteq C
    BY DEF CreateDocumentFindings, Create, Table, Columns, Mutable, Fact
  <1>2. /\ t.refs = {OwnedBy("document_id", "supplier_documents")}
        /\ t.unique = {}
        /\ t.indexes = Indexed({"document_id"})
    BY DEF CreateDocumentFindings, Create, Table
  <1>3. IsTable(t)
    BY DEF CreateDocumentFindings, Create, Table, IsTable
  <1>4. {"supplier_documents"} \subseteq Standing(10)
    BY DEF Standing, BornAt
  <1> HIDE DEF t, C
  <1>5. Refers(t.refs, C, Standing(10))
    BY <1>1, <1>2, <1>4, RefIs DEF Refers
  <1>6. Keyed(t.unique, C)
    BY <1>2 DEF Keyed
  <1>7. IndexedBy(t.indexes, {"document_id"}, C)
    BY <1>1, <1>2, IndexedIs
  <1> QED BY <1>1, <1>3, <1>5, <1>6, <1>7 DEF Fits, t, C

LEMMA PurchaseOrdersFits == Fits(CreatePurchaseOrders.table, 11, {"status", "store_id",
  "supplier_id"})
  <1> DEFINE t == CreatePurchaseOrders.table
             C == Columns(t)
  <1>1. {"supplier_id", "store_id", "po_number", "status"} \subseteq C
    BY DEF CreatePurchaseOrders, Create, Table, Columns, Mutable, Fact
  <1>2. /\ t.refs = {RefersTo("supplier_id", "suppliers"), RefersTo("store_id", "stores")}
        /\ t.unique = {<<"supplier_id", "po_number">>}
        /\ t.indexes = Indexed({"status", "store_id", "supplier_id"})
    BY DEF CreatePurchaseOrders, Create, Table
  <1>3. IsTable(t)
    BY DEF CreatePurchaseOrders, Create, Table, IsTable
  <1>4. {"stores", "suppliers"} \subseteq Standing(11)
    BY DEF Standing, BornAt
  <1> HIDE DEF t, C
  <1>5. Refers(t.refs, C, Standing(11))
    BY <1>1, <1>2, <1>4, RefIs DEF Refers
  <1>6. Keyed(t.unique, C)
    BY <1>1, <1>2, PairKey DEF Keyed
  <1>7. IndexedBy(t.indexes, {"status", "store_id", "supplier_id"}, C)
    BY <1>1, <1>2, IndexedIs
  <1> QED BY <1>1, <1>3, <1>5, <1>6, <1>7 DEF Fits, t, C

LEMMA PurchaseOrderLinesFits == Fits(CreatePurchaseOrderLines.table, 12, {"product_id",
  "purchase_order_id"})
  <1> DEFINE t == CreatePurchaseOrderLines.table
             C == Columns(t)
  <1>1. {"purchase_order_id", "product_id", "line_number"} \subseteq C
    BY DEF CreatePurchaseOrderLines, Create, Table, Columns, Mutable, Fact
  <1>2. /\ t.refs = {OwnedBy("purchase_order_id", "purchase_orders"), RefersTo("product_id",
           "products")}
        /\ t.unique = {<<"purchase_order_id", "line_number">>}
        /\ t.indexes = Indexed({"product_id", "purchase_order_id"})
    BY DEF CreatePurchaseOrderLines, Create, Table
  <1>3. IsTable(t)
    BY DEF CreatePurchaseOrderLines, Create, Table, IsTable
  <1>4. {"products", "purchase_orders"} \subseteq Standing(12)
    BY DEF Standing, BornAt
  <1> HIDE DEF t, C
  <1>5. Refers(t.refs, C, Standing(12))
    BY <1>1, <1>2, <1>4, RefIs DEF Refers
  <1>6. Keyed(t.unique, C)
    BY <1>1, <1>2, PairKey DEF Keyed
  <1>7. IndexedBy(t.indexes, {"product_id", "purchase_order_id"}, C)
    BY <1>1, <1>2, IndexedIs
  <1> QED BY <1>1, <1>3, <1>5, <1>6, <1>7 DEF Fits, t, C

LEMMA GoodsReceiptsFits == Fits(CreateGoodsReceipts.table, 13, {"purchase_order_id", "status",
  "supplier_id"})
  <1> DEFINE t == CreateGoodsReceipts.table
             C == Columns(t)
  <1>1. {"supplier_id", "purchase_order_id", "receipt_number", "status"} \subseteq C
    BY DEF CreateGoodsReceipts, Create, Table, Columns, Mutable, Fact
  <1>2. /\ t.refs = {RefersTo("supplier_id", "suppliers"), RefersTo("purchase_order_id",
           "purchase_orders")}
        /\ t.unique = {<<"supplier_id", "receipt_number">>}
        /\ t.indexes = Indexed({"purchase_order_id", "status", "supplier_id"})
    BY DEF CreateGoodsReceipts, Create, Table
  <1>3. IsTable(t)
    BY DEF CreateGoodsReceipts, Create, Table, IsTable
  <1>4. {"purchase_orders", "suppliers"} \subseteq Standing(13)
    BY DEF Standing, BornAt
  <1> HIDE DEF t, C
  <1>5. Refers(t.refs, C, Standing(13))
    BY <1>1, <1>2, <1>4, RefIs DEF Refers
  <1>6. Keyed(t.unique, C)
    BY <1>1, <1>2, PairKey DEF Keyed
  <1>7. IndexedBy(t.indexes, {"purchase_order_id", "status", "supplier_id"}, C)
    BY <1>1, <1>2, IndexedIs
  <1> QED BY <1>1, <1>3, <1>5, <1>6, <1>7 DEF Fits, t, C

LEMMA GoodsReceiptLinesFits == Fits(CreateGoodsReceiptLines.table, 14, {"goods_receipt_id",
  "product_id", "purchase_order_line_id"})
  <1> DEFINE t == CreateGoodsReceiptLines.table
             C == Columns(t)
  <1>1. {"goods_receipt_id", "product_id", "purchase_order_line_id", "line_number"} \subseteq C
    BY DEF CreateGoodsReceiptLines, Create, Table, Columns, Mutable, Fact
  <1>2. /\ t.refs = {OwnedBy("goods_receipt_id", "goods_receipts"), RefersTo("product_id",
           "products"), RefersTo("purchase_order_line_id", "purchase_order_lines")}
        /\ t.unique = {<<"goods_receipt_id", "line_number">>}
        /\ t.indexes = Indexed({"goods_receipt_id", "product_id", "purchase_order_line_id"})
    BY DEF CreateGoodsReceiptLines, Create, Table
  <1>3. IsTable(t)
    BY DEF CreateGoodsReceiptLines, Create, Table, IsTable
  <1>4. {"goods_receipts", "products", "purchase_order_lines"} \subseteq Standing(14)
    BY DEF Standing, BornAt
  <1> HIDE DEF t, C
  <1>5. Refers(t.refs, C, Standing(14))
    BY <1>1, <1>2, <1>4, RefIs DEF Refers
  <1>6. Keyed(t.unique, C)
    BY <1>1, <1>2, PairKey DEF Keyed
  <1>7. IndexedBy(t.indexes, {"goods_receipt_id", "product_id", "purchase_order_line_id"}, C)
    BY <1>1, <1>2, IndexedIs
  <1> QED BY <1>1, <1>3, <1>5, <1>6, <1>7 DEF Fits, t, C

LEMMA SupplierInvoicesFits == Fits(CreateSupplierInvoices.table, 15, {"purchase_order_id",
  "status", "supplier_id"})
  <1> DEFINE t == CreateSupplierInvoices.table
             C == Columns(t)
  <1>1. {"supplier_id", "purchase_order_id", "invoice_number", "status"} \subseteq C
    BY DEF CreateSupplierInvoices, Create, Table, Columns, Mutable, Fact
  <1>2. /\ t.refs = {RefersTo("supplier_id", "suppliers"), RefersTo("purchase_order_id",
           "purchase_orders")}
        /\ t.unique = {<<"supplier_id", "invoice_number">>}
        /\ t.indexes = Indexed({"purchase_order_id", "status", "supplier_id"})
    BY DEF CreateSupplierInvoices, Create, Table
  <1>3. IsTable(t)
    BY DEF CreateSupplierInvoices, Create, Table, IsTable
  <1>4. {"purchase_orders", "suppliers"} \subseteq Standing(15)
    BY DEF Standing, BornAt
  <1> HIDE DEF t, C
  <1>5. Refers(t.refs, C, Standing(15))
    BY <1>1, <1>2, <1>4, RefIs DEF Refers
  <1>6. Keyed(t.unique, C)
    BY <1>1, <1>2, PairKey DEF Keyed
  <1>7. IndexedBy(t.indexes, {"purchase_order_id", "status", "supplier_id"}, C)
    BY <1>1, <1>2, IndexedIs
  <1> QED BY <1>1, <1>3, <1>5, <1>6, <1>7 DEF Fits, t, C

LEMMA SupplierInvoiceLinesFits == Fits(CreateSupplierInvoiceLines.table, 16, {"product_id",
  "supplier_invoice_id"})
  <1> DEFINE t == CreateSupplierInvoiceLines.table
             C == Columns(t)
  <1>1. {"supplier_invoice_id", "product_id", "line_number"} \subseteq C
    BY DEF CreateSupplierInvoiceLines, Create, Table, Columns, Mutable, Fact
  <1>2. /\ t.refs = {OwnedBy("supplier_invoice_id", "supplier_invoices"), RefersTo("product_id",
           "products")}
        /\ t.unique = {<<"supplier_invoice_id", "line_number">>}
        /\ t.indexes = Indexed({"product_id", "supplier_invoice_id"})
    BY DEF CreateSupplierInvoiceLines, Create, Table
  <1>3. IsTable(t)
    BY DEF CreateSupplierInvoiceLines, Create, Table, IsTable
  <1>4. {"products", "supplier_invoices"} \subseteq Standing(16)
    BY DEF Standing, BornAt
  <1> HIDE DEF t, C
  <1>5. Refers(t.refs, C, Standing(16))
    BY <1>1, <1>2, <1>4, RefIs DEF Refers
  <1>6. Keyed(t.unique, C)
    BY <1>1, <1>2, PairKey DEF Keyed
  <1>7. IndexedBy(t.indexes, {"product_id", "supplier_invoice_id"}, C)
    BY <1>1, <1>2, IndexedIs
  <1> QED BY <1>1, <1>3, <1>5, <1>6, <1>7 DEF Fits, t, C

LEMMA ReconciliationRunsFits == Fits(CreateReconciliationRuns.table, 17, {"scope_key"})
  <1> DEFINE t == CreateReconciliationRuns.table
             C == Columns(t)
  <1>1. {"scope_key", "version"} \subseteq C
    BY DEF CreateReconciliationRuns, Create, Table, Columns, Mutable, Fact
  <1>2. /\ t.refs = {}
        /\ t.unique = {<<"scope_key", "version">>}
        /\ t.indexes = Indexed({"scope_key"})
    BY DEF CreateReconciliationRuns, Create, Table
  <1>3. IsTable(t)
    BY DEF CreateReconciliationRuns, Create, Table, IsTable
  <1> HIDE DEF t, C
  <1>5. Refers(t.refs, C, Standing(17))
    BY <1>2 DEF Refers
  <1>6. Keyed(t.unique, C)
    BY <1>1, <1>2, PairKey DEF Keyed
  <1>7. IndexedBy(t.indexes, {"scope_key"}, C)
    BY <1>1, <1>2, IndexedIs
  <1> QED BY <1>1, <1>3, <1>5, <1>6, <1>7 DEF Fits, t, C

LEMMA ReviewCasesFits == Fits(CreateReviewCases.table, 19, {"created_at", "priority", "risk",
  "status", "subject_type", "supplier_id"})
  <1> DEFINE t == CreateReviewCases.table
             C == Columns(t)
  <1>1. {"document_finding_id", "reconciliation_exception_id", "supplier_id", "created_at",
        "priority", "risk", "status", "subject_type"} \subseteq C
    BY DEF CreateReviewCases, Create, Table, Columns, Mutable, Fact
  <1>2. /\ t.refs = {RefersTo("document_finding_id", "document_findings"),
           RefersTo("reconciliation_exception_id", "reconciliation_exceptions"),
           RefersTo("supplier_id", "suppliers")}
        /\ t.unique = {One("document_finding_id"), One("reconciliation_exception_id")}
        /\ t.indexes = Indexed({"created_at", "priority", "risk", "status", "subject_type",
           "supplier_id"})
    BY DEF CreateReviewCases, Create, Table
  <1>3. IsTable(t)
    BY DEF CreateReviewCases, Create, Table, IsTable
  <1>4. {"document_findings", "reconciliation_exceptions", "suppliers"} \subseteq Standing(19)
    BY DEF Standing, BornAt
  <1> HIDE DEF t, C
  <1>5. Refers(t.refs, C, Standing(19))
    BY <1>1, <1>2, <1>4, RefIs DEF Refers
  <1>6. Keyed(t.unique, C)
    BY <1>1, <1>2, OneKey DEF Keyed
  <1>7. IndexedBy(t.indexes, {"created_at", "priority", "risk", "status", "subject_type",
        "supplier_id"}, C)
    BY <1>1, <1>2, IndexedIs
  <1> QED BY <1>1, <1>3, <1>5, <1>6, <1>7 DEF Fits, t, C

LEMMA ReviewSnapshotsFits == Fits(CreateReviewSnapshots.table, 20, {})
  <1> DEFINE t == CreateReviewSnapshots.table
             C == Columns(t)
  <1>1. {"review_case_id"} \subseteq C
    BY DEF CreateReviewSnapshots, Create, Table, Columns, Mutable, Fact
  <1>2. /\ t.refs = {OwnedBy("review_case_id", "review_cases")}
        /\ t.unique = {One("review_case_id")}
        /\ t.indexes = {}
    BY DEF CreateReviewSnapshots, Create, Table
  <1>3. IsTable(t)
    BY DEF CreateReviewSnapshots, Create, Table, IsTable
  <1>4. {"review_cases"} \subseteq Standing(20)
    BY DEF Standing, BornAt
  <1> HIDE DEF t, C
  <1>5. Refers(t.refs, C, Standing(20))
    BY <1>1, <1>2, <1>4, RefIs DEF Refers
  <1>6. Keyed(t.unique, C)
    BY <1>1, <1>2, OneKey DEF Keyed
  <1>7. IndexedBy(t.indexes, {}, C)
    BY <1>2 DEF IndexedBy
  <1> QED BY <1>1, <1>3, <1>5, <1>6, <1>7 DEF Fits, t, C

LEMMA ReviewDecisionsFits == Fits(CreateReviewDecisions.table, 21, {"snapshot_id"})
  <1> DEFINE t == CreateReviewDecisions.table
             C == Columns(t)
  <1>1. {"review_case_id", "snapshot_id"} \subseteq C
    BY DEF CreateReviewDecisions, Create, Table, Columns, Mutable, Fact
  <1>2. /\ t.refs = {OwnedBy("review_case_id", "review_cases"), RefersTo("snapshot_id",
           "review_ai_snapshots")}
        /\ t.unique = {One("review_case_id")}
        /\ t.indexes = Indexed({"snapshot_id"})
    BY DEF CreateReviewDecisions, Create, Table
  <1>3. IsTable(t)
    BY DEF CreateReviewDecisions, Create, Table, IsTable
  <1>4. {"review_ai_snapshots", "review_cases"} \subseteq Standing(21)
    BY DEF Standing, BornAt
  <1> HIDE DEF t, C
  <1>5. Refers(t.refs, C, Standing(21))
    BY <1>1, <1>2, <1>4, RefIs DEF Refers
  <1>6. Keyed(t.unique, C)
    BY <1>1, <1>2, OneKey DEF Keyed
  <1>7. IndexedBy(t.indexes, {"snapshot_id"}, C)
    BY <1>1, <1>2, IndexedIs
  <1> QED BY <1>1, <1>3, <1>5, <1>6, <1>7 DEF Fits, t, C

LEMMA ReviewAuditEventsFits == Fits(CreateReviewAuditEvents.table, 22, {"event_type",
  "review_case_id"})
  <1> DEFINE t == CreateReviewAuditEvents.table
             C == Columns(t)
  <1>1. {"review_case_id", "event_type"} \subseteq C
    BY DEF CreateReviewAuditEvents, Create, Table, Columns, Mutable, Fact
  <1>2. /\ t.refs = {OwnedBy("review_case_id", "review_cases")}
        /\ t.unique = {}
        /\ t.indexes = Indexed({"event_type", "review_case_id"})
    BY DEF CreateReviewAuditEvents, Create, Table
  <1>3. IsTable(t)
    BY DEF CreateReviewAuditEvents, Create, Table, IsTable
  <1>4. {"review_cases"} \subseteq Standing(22)
    BY DEF Standing, BornAt
  <1> HIDE DEF t, C
  <1>5. Refers(t.refs, C, Standing(22))
    BY <1>1, <1>2, <1>4, RefIs DEF Refers
  <1>6. Keyed(t.unique, C)
    BY <1>2 DEF Keyed
  <1>7. IndexedBy(t.indexes, {"event_type", "review_case_id"}, C)
    BY <1>1, <1>2, IndexedIs
  <1> QED BY <1>1, <1>3, <1>5, <1>6, <1>7 DEF Fits, t, C

\* What an exception may point at, spelt out.
LEMMA DifferingIs ==
  LET pointing == {"purchase_order_id", "purchase_order_line_id", "goods_receipt_id",
                   "goods_receipt_line_id", "supplier_invoice_id", "supplier_invoice_line_id",
                   "product_id"}
      pointed == {"purchase_orders", "purchase_order_lines", "goods_receipts",
                  "goods_receipt_lines", "supplier_invoices", "supplier_invoice_lines", "products"}
  IN /\ {d[1] : d \in Differing} = pointing
     /\ \A d \in Differing : d[1] \in pointing /\ d[2] \in pointed
     /\ {RefersTo(d[1], d[2]) : d \in Differing}
          = {RefersTo("purchase_order_id", "purchase_orders"),
             RefersTo("purchase_order_line_id", "purchase_order_lines"),
             RefersTo("goods_receipt_id", "goods_receipts"),
             RefersTo("goods_receipt_line_id", "goods_receipt_lines"),
             RefersTo("supplier_invoice_id", "supplier_invoices"),
             RefersTo("supplier_invoice_line_id", "supplier_invoice_lines"),
             RefersTo("product_id", "products")}
  BY DEF Differing

LEMMA ReconciliationExceptionsFits ==
  Fits(CreateReconciliationExceptions.table, 18,
       {"code", "reconciliation_run_id", "resolution_status"} \cup {d[1] : d \in Differing})
  <1> DEFINE t == CreateReconciliationExceptions.table
             C == Columns(t)
             P == {d[1] : d \in Differing}
             K == Standing(18)
  <1>1. {"code", "reconciliation_run_id", "resolution_status"} \cup P \subseteq C
    BY DEF CreateReconciliationExceptions, Create, Table, Columns
  <1>2. /\ t.refs = {OwnedBy("reconciliation_run_id", "reconciliation_runs")}
                      \cup {RefersTo(d[1], d[2]) : d \in Differing}
        /\ t.unique = {}
        /\ t.indexes = Indexed({"code", "reconciliation_run_id", "resolution_status"} \cup P)
    BY DEF CreateReconciliationExceptions, Create, Table
  <1>3. IsTable(t)
    BY DEF CreateReconciliationExceptions, Create, Table, IsTable
  <1>4. /\ {"purchase_orders", "purchase_order_lines", "goods_receipts", "goods_receipt_lines",
            "supplier_invoices", "supplier_invoice_lines", "products"} \subseteq K
        /\ "reconciliation_runs" \in K
    BY DEF Standing, BornAt
  <1>5. \A d \in Differing : d[1] \in P /\ d[2] \in K
    BY <1>4, DifferingIs
  <1> HIDE DEF t, C, K, P
  <1>6. Refers(t.refs, C, K)
    BY <1>1, <1>2, <1>4, <1>5, RefIs DEF Refers
  <1>7. Keyed(t.unique, C)
    BY <1>2 DEF Keyed
  <1>8. IndexedBy(t.indexes, {"code", "reconciliation_run_id", "resolution_status"} \cup P, C)
    BY <1>1, <1>2, IndexedIs
  <1> QED BY <1>1, <1>3, <1>6, <1>7, <1>8 DEF Fits, t, C, K, P

LEMMA ProcessingJobsFits == Fits(CreateProcessingJobs.table, 26, {"kind", "state", "claimable"})
  <1> DEFINE t == CreateProcessingJobs.table
             C == Columns(t)
             K == Standing(26)
  <1>1. {"kind", "state", "available_at", "idempotency_key"} \subseteq C
    BY DEF CreateProcessingJobs, Create, Table, Columns
  <1>2. /\ t.refs = {} /\ t.unique = {<<"kind", "idempotency_key">>}
        /\ t.indexes = Indexed({"kind", "state"})
                         \cup {<<"claimable", <<"state", "available_at">>>>}
    BY DEF CreateProcessingJobs, Create, Table
  <1>3. IsTable(t)
    BY DEF CreateProcessingJobs, Create, Table, IsTable
  <1> HIDE DEF t, C, K
  <1>4. Refers(t.refs, C, K)
    BY <1>2 DEF Refers
  <1>5. Keyed(t.unique, C)
    BY <1>1, <1>2, PairKey DEF Keyed
  <1>6. IndexedBy(t.indexes, {"kind", "state", "claimable"}, C)
    <2> DEFINE claimable == <<"claimable", <<"state", "available_at">>>>
    <2>1. IndexedBy(Indexed({"kind", "state"}), {"kind", "state"}, C)
      BY <1>1, IndexedIs
    <2>2. claimable[1] = "claimable" /\ ToSet(claimable[2]) \subseteq C
      BY <1>1, PairKey
    <2>3. t.indexes = Indexed({"kind", "state"}) \cup {claimable}
      BY <1>2
    <2> HIDE DEF claimable
    <2> DEFINE I == Indexed({"kind", "state"})
    <2>4. {index[1] : index \in I \cup {claimable}} = {index[1] : index \in I} \cup {claimable[1]}
      OBVIOUS
    <2> HIDE DEF I
    <2>5. {index[1] : index \in I} = {"kind", "state"}
      BY <2>1 DEF IndexedBy, I
    <2>6. {index[1] : index \in t.indexes} = {"kind", "state", "claimable"}
      BY <2>2, <2>3, <2>4, <2>5 DEF I
    <2> QED BY <2>1, <2>2, <2>3, <2>6 DEF IndexedBy
  <1> QED BY <1>1, <1>3, <1>4, <1>5, <1>6 DEF Fits, t, C, K
\* Each table against its model; the models are written apart from the migrations, in
\* another order and under other names.
LEMMA CategoriesServe == Serves(Made.categories, Category)
  BY DEF Serves, Made, CreateCategories, Category, Create, Table, Columns

LEMMA StoresServe == Serves(Made.stores, Store)
  BY DEF Serves, Made, CreateStores, Store, Create, Table, Columns

LEMMA SuppliersServe == Serves(Made.suppliers, Supplier)
  BY DEF Serves, Made, CreateSuppliers, Supplier, Create, Table, Columns

LEMMA ProductsServe == Serves(Made.products, Product)
  BY DEF Serves, Made, CreateProducts, Product, Create, Table, Columns

LEMMA SalesRecordsServe == Serves(Made.sales_records, SalesRecord)
  BY DEF Serves, Made, CreateSalesRecords, SalesRecord, Create, Table, Columns

LEMMA SupplierProductsServe == Serves(Made.supplier_products, SupplierProduct)
  BY DEF Serves, Made, CreateSupplierProducts, SupplierProduct, Create, Table, Columns

LEMMA ForecastRunsServe == Serves(Made.forecast_runs, ForecastRun)
  BY DEF Serves, Made, CreateForecastRuns, ForecastRun, Create, Table, Columns

LEMMA ForecastPredictionsServe == Serves(Made.forecast_predictions, ForecastPrediction)
  BY DEF Serves, Made, CreateForecastPredictions, ForecastPrediction, Create, Table,
         Columns

LEMMA SupplierDocumentsServe == Serves(Made.supplier_documents, SupplierDocument)
  BY DEF Serves, Made, CreateSupplierDocuments, SupplierDocument, Create, Table, Columns,
         DocumentTypes, DocumentStatuses

LEMMA DocumentFindingsServe == Serves(Made.document_findings, DocumentFinding)
  BY DEF Serves, Made, CreateDocumentFindings, DocumentFinding, Create, Table, Columns,
         FindingSeverities

LEMMA PurchaseOrdersServe == Serves(Made.purchase_orders, PurchaseOrder)
  BY DEF Serves, Made, CreatePurchaseOrders, PurchaseOrder, Create, Table, Columns,
         OrderStatuses

LEMMA PurchaseOrderLinesServe == Serves(Made.purchase_order_lines, PurchaseOrderLine)
  BY DEF Serves, Made, CreatePurchaseOrderLines, PurchaseOrderLine, Create, Table,
         Columns

LEMMA GoodsReceiptsServe == Serves(Made.goods_receipts, GoodsReceipt)
  BY DEF Serves, Made, CreateGoodsReceipts, GoodsReceipt, Create, Table, Columns,
         ReceiptStatuses

LEMMA GoodsReceiptLinesServe == Serves(Made.goods_receipt_lines, GoodsReceiptLine)
  BY DEF Serves, Made, CreateGoodsReceiptLines, GoodsReceiptLine, Create, Table, Columns

LEMMA SupplierInvoicesServe == Serves(Made.supplier_invoices, SupplierInvoice)
  BY DEF Serves, Made, CreateSupplierInvoices, SupplierInvoice, Create, Table, Columns,
         InvoiceStatuses

LEMMA SupplierInvoiceLinesServe == Serves(Made.supplier_invoice_lines, SupplierInvoiceLine)
  BY DEF Serves, Made, CreateSupplierInvoiceLines, SupplierInvoiceLine, Create, Table,
         Columns

LEMMA ReconciliationRunsServe == Serves(Made.reconciliation_runs, ReconciliationRun)
  BY DEF Serves, Made, CreateReconciliationRuns, ReconciliationRun, Create, Table,
         Columns, Tallies, RunCounts, Tallies

LEMMA ReconciliationExceptionsServe ==
  Serves(Made.reconciliation_exceptions, ReconciliationException)
  <1> DEFINE t == CreateReconciliationExceptions.table
             m == ReconciliationException
             P == {d[1] : d \in Differing}
  <1>1. Made.reconciliation_exceptions = t
    BY DEF Made
  <1>2. P = m.optional
    BY DifferingIs DEF ReconciliationException, Table
  <1>3. /\ t.needed = m.needed /\ t.defaulted = m.defaulted /\ t.unique = m.unique
        /\ t.checks = m.checks
    BY DEF CreateReconciliationExceptions, ReconciliationException, Create, Table,
           ExceptionSeverities, ExceptionResolutions
  <1>4. t.optional = m.optional
    BY <1>2 DEF CreateReconciliationExceptions, Create, Table
  <1>5. t.refs = m.refs
    BY DifferingIs DEF CreateReconciliationExceptions, ReconciliationException, Create, Table
  <1>6. t.indexes = m.indexes
    <2>1. t.indexes = Indexed({"code", "reconciliation_run_id", "resolution_status"} \cup P)
      BY DEF CreateReconciliationExceptions, Create, Table
    <2>2. m.indexes = Indexed({"code", "reconciliation_run_id", "resolution_status"}
                                \cup m.optional)
      BY DEF ReconciliationException, Table
    <2> QED BY <1>2, <2>1, <2>2
  <1> HIDE DEF t, m
  <1> QED BY <1>1, <1>3, <1>4, <1>5, <1>6 DEF Serves, Columns, m

LEMMA ReviewCasesServe == Serves([Made.review_cases EXCEPT !.optional = @ \cup
  {"reviewer_subject"}], ReviewCase)
  BY DEF Serves, Made, CreateReviewCases, ReviewCase, Create, Table, Columns,
         ReviewStatuses, ReviewPriorities, ReviewSubjectTypes, Risks

LEMMA ReviewSnapshotsServe == Serves(Made.review_ai_snapshots, ReviewAISnapshot)
  BY DEF Serves, Made, CreateReviewSnapshots, ReviewAISnapshot, Create, Table, Columns

LEMMA ReviewDecisionsServe == Serves([Made.review_decisions EXCEPT !.optional = @ \cup
  {"reviewer_subject"}], ReviewDecisionRecord)
  BY DEF Serves, Made, CreateReviewDecisions, ReviewDecisionRecord, Create, Table,
         Columns, ReviewDecisions

LEMMA ReviewAuditEventsServe == Serves([Made.review_audit_events EXCEPT !.optional = @ \cup
  {"actor_subject"}], ReviewAuditEvent)
  BY DEF Serves, Made, CreateReviewAuditEvents, ReviewAuditEvent, Create, Table, Columns,
         ReviewEventTypes

LEMMA ProcessingJobsServe == Serves(Made.processing_jobs, ProcessingJob)
  BY DEF Serves, Made, CreateProcessingJobs, ProcessingJob, Create, Table, Columns,
         JobKinds, JobStates

----------------------------------------------------------------------------
(* The chain, statement by statement: the k-th creates or extends a table, *)
(* and the downgrade that answers it drops what the k-th made.             *)

Forward(k, step) ==
  \/ \E n \in DOMAIN BornAt : BornAt[n] = k /\ step = Create(n, Made[n])
  \/ \E n \in DOMAIN GrownAt : GrownAt[n] = k /\ step = AddColumn(n, Gained[n], TRUE)
Backward(k, step) ==
  \/ \E n \in DOMAIN BornAt :
       BornAt[n] = k /\ \E indexes \in SUBSET IndexNames(Made[n]) : step = Drop(n, indexes)
  \/ \E n \in DOMAIN GrownAt : GrownAt[n] = k /\ step = DropColumn(n, Gained[n])

\* How many statements the first so many revisions hold.
Height(r) == <<0, 0, 6, 8, 10, 18, 22, 25, 26>>[r + 1]

\* Where each statement stands, and that its downgrade names indexes the table has.
LEMMA CategoriesSteps == Forward(1, CreateCategories) /\ Backward(1, Drop("categories",
  {"parent_id"}))
  <1>1. BornAt.categories = 1 /\ Made.categories = CreateCategories.table
    BY DEF BornAt, Made
  <1>2. CreateCategories = Create("categories", CreateCategories.table)
    BY DEF CreateCategories, Create
  <1>3. {"parent_id"} \subseteq IndexNames(CreateCategories.table)
    BY CategoriesFits DEF Fits, IndexedBy, IndexNames
  <1>4. "categories" \in DOMAIN BornAt
    BY DEF BornAt
  <1> QED BY <1>1, <1>2, <1>3, <1>4 DEF Forward, Backward

LEMMA StoresSteps == Forward(2, CreateStores) /\ Backward(2, Drop("stores", {"store_type",
  "region"}))
  <1>1. BornAt.stores = 2 /\ Made.stores = CreateStores.table
    BY DEF BornAt, Made
  <1>2. CreateStores = Create("stores", CreateStores.table)
    BY DEF CreateStores, Create
  <1>3. {"store_type", "region"} \subseteq IndexNames(CreateStores.table)
    BY StoresFits DEF Fits, IndexedBy, IndexNames
  <1>4. "stores" \in DOMAIN BornAt
    BY DEF BornAt
  <1> QED BY <1>1, <1>2, <1>3, <1>4 DEF Forward, Backward

LEMMA SuppliersSteps == Forward(3, CreateSuppliers) /\ Backward(3, Drop("suppliers", {}))
  <1>1. BornAt.suppliers = 3 /\ Made.suppliers = CreateSuppliers.table
    BY DEF BornAt, Made
  <1>2. CreateSuppliers = Create("suppliers", CreateSuppliers.table)
    BY DEF CreateSuppliers, Create
  <1>3. {} \subseteq IndexNames(CreateSuppliers.table)
    BY SuppliersFits DEF Fits, IndexedBy, IndexNames
  <1>4. "suppliers" \in DOMAIN BornAt
    BY DEF BornAt
  <1> QED BY <1>1, <1>2, <1>3, <1>4 DEF Forward, Backward

LEMMA ProductsSteps == Forward(4, CreateProducts) /\ Backward(4, Drop("products",
  {"category_id"}))
  <1>1. BornAt.products = 4 /\ Made.products = CreateProducts.table
    BY DEF BornAt, Made
  <1>2. CreateProducts = Create("products", CreateProducts.table)
    BY DEF CreateProducts, Create
  <1>3. {"category_id"} \subseteq IndexNames(CreateProducts.table)
    BY ProductsFits DEF Fits, IndexedBy, IndexNames
  <1>4. "products" \in DOMAIN BornAt
    BY DEF BornAt
  <1> QED BY <1>1, <1>2, <1>3, <1>4 DEF Forward, Backward

LEMMA SalesRecordsSteps == Forward(5, CreateSalesRecords) /\ Backward(5, Drop("sales_records",
  {"store_id", "product_id", "business_date"}))
  <1>1. BornAt.sales_records = 5 /\ Made.sales_records = CreateSalesRecords.table
    BY DEF BornAt, Made
  <1>2. CreateSalesRecords = Create("sales_records", CreateSalesRecords.table)
    BY DEF CreateSalesRecords, Create
  <1>3. {"store_id", "product_id", "business_date"} \subseteq
        IndexNames(CreateSalesRecords.table)
    BY SalesRecordsFits DEF Fits, IndexedBy, IndexNames
  <1>4. "sales_records" \in DOMAIN BornAt
    BY DEF BornAt
  <1> QED BY <1>1, <1>2, <1>3, <1>4 DEF Forward, Backward

LEMMA SupplierProductsSteps == Forward(6, CreateSupplierProducts) /\ Backward(6,
  Drop("supplier_products", {"supplier_id", "product_id"}))
  <1>1. BornAt.supplier_products = 6 /\ Made.supplier_products = CreateSupplierProducts.table
    BY DEF BornAt, Made
  <1>2. CreateSupplierProducts = Create("supplier_products", CreateSupplierProducts.table)
    BY DEF CreateSupplierProducts, Create
  <1>3. {"supplier_id", "product_id"} \subseteq IndexNames(CreateSupplierProducts.table)
    BY SupplierProductsFits DEF Fits, IndexedBy, IndexNames
  <1>4. "supplier_products" \in DOMAIN BornAt
    BY DEF BornAt
  <1> QED BY <1>1, <1>2, <1>3, <1>4 DEF Forward, Backward

LEMMA ForecastRunsSteps == Forward(7, CreateForecastRuns) /\ Backward(7, Drop("forecast_runs",
  {"model_id", "cutoff"}))
  <1>1. BornAt.forecast_runs = 7 /\ Made.forecast_runs = CreateForecastRuns.table
    BY DEF BornAt, Made
  <1>2. CreateForecastRuns = Create("forecast_runs", CreateForecastRuns.table)
    BY DEF CreateForecastRuns, Create
  <1>3. {"model_id", "cutoff"} \subseteq IndexNames(CreateForecastRuns.table)
    BY ForecastRunsFits DEF Fits, IndexedBy, IndexNames
  <1>4. "forecast_runs" \in DOMAIN BornAt
    BY DEF BornAt
  <1> QED BY <1>1, <1>2, <1>3, <1>4 DEF Forward, Backward

LEMMA ForecastPredictionsSteps == Forward(8, CreateForecastPredictions) /\ Backward(8,
  Drop("forecast_predictions", {"period_start", "forecast_run_id"}))
  <1>1. /\ BornAt.forecast_predictions = 8
        /\ Made.forecast_predictions = CreateForecastPredictions.table
    BY DEF BornAt, Made
  <1>2. CreateForecastPredictions
          = Create("forecast_predictions", CreateForecastPredictions.table)
    BY DEF CreateForecastPredictions, Create
  <1>3. {"period_start", "forecast_run_id"} \subseteq
        IndexNames(CreateForecastPredictions.table)
    BY ForecastPredictionsFits DEF Fits, IndexedBy, IndexNames
  <1>4. "forecast_predictions" \in DOMAIN BornAt
    BY DEF BornAt
  <1> QED BY <1>1, <1>2, <1>3, <1>4 DEF Forward, Backward

LEMMA SupplierDocumentsSteps == Forward(9, CreateSupplierDocuments) /\ Backward(9,
  Drop("supplier_documents", {"supplier_id", "status"}))
  <1>1. BornAt.supplier_documents = 9 /\ Made.supplier_documents = CreateSupplierDocuments.table
    BY DEF BornAt, Made
  <1>2. CreateSupplierDocuments = Create("supplier_documents", CreateSupplierDocuments.table)
    BY DEF CreateSupplierDocuments, Create
  <1>3. {"supplier_id", "status"} \subseteq IndexNames(CreateSupplierDocuments.table)
    BY SupplierDocumentsFits DEF Fits, IndexedBy, IndexNames
  <1>4. "supplier_documents" \in DOMAIN BornAt
    BY DEF BornAt
  <1> QED BY <1>1, <1>2, <1>3, <1>4 DEF Forward, Backward

LEMMA DocumentFindingsSteps == Forward(10, CreateDocumentFindings) /\ Backward(10,
  Drop("document_findings", {"document_id"}))
  <1>1. BornAt.document_findings = 10 /\ Made.document_findings = CreateDocumentFindings.table
    BY DEF BornAt, Made
  <1>2. CreateDocumentFindings = Create("document_findings", CreateDocumentFindings.table)
    BY DEF CreateDocumentFindings, Create
  <1>3. {"document_id"} \subseteq IndexNames(CreateDocumentFindings.table)
    BY DocumentFindingsFits DEF Fits, IndexedBy, IndexNames
  <1>4. "document_findings" \in DOMAIN BornAt
    BY DEF BornAt
  <1> QED BY <1>1, <1>2, <1>3, <1>4 DEF Forward, Backward

LEMMA PurchaseOrdersSteps == Forward(11, CreatePurchaseOrders) /\ Backward(11,
  Drop("purchase_orders", {"supplier_id", "store_id", "status"}))
  <1>1. BornAt.purchase_orders = 11 /\ Made.purchase_orders = CreatePurchaseOrders.table
    BY DEF BornAt, Made
  <1>2. CreatePurchaseOrders = Create("purchase_orders", CreatePurchaseOrders.table)
    BY DEF CreatePurchaseOrders, Create
  <1>3. {"supplier_id", "store_id", "status"} \subseteq IndexNames(CreatePurchaseOrders.table)
    BY PurchaseOrdersFits DEF Fits, IndexedBy, IndexNames
  <1>4. "purchase_orders" \in DOMAIN BornAt
    BY DEF BornAt
  <1> QED BY <1>1, <1>2, <1>3, <1>4 DEF Forward, Backward

LEMMA PurchaseOrderLinesSteps == Forward(12, CreatePurchaseOrderLines) /\ Backward(12,
  Drop("purchase_order_lines", {"purchase_order_id", "product_id"}))
  <1>1. /\ BornAt.purchase_order_lines = 12
        /\ Made.purchase_order_lines = CreatePurchaseOrderLines.table
    BY DEF BornAt, Made
  <1>2. CreatePurchaseOrderLines = Create("purchase_order_lines", CreatePurchaseOrderLines.table)
    BY DEF CreatePurchaseOrderLines, Create
  <1>3. {"purchase_order_id", "product_id"} \subseteq IndexNames(CreatePurchaseOrderLines.table)
    BY PurchaseOrderLinesFits DEF Fits, IndexedBy, IndexNames
  <1>4. "purchase_order_lines" \in DOMAIN BornAt
    BY DEF BornAt
  <1> QED BY <1>1, <1>2, <1>3, <1>4 DEF Forward, Backward

LEMMA GoodsReceiptsSteps == Forward(13, CreateGoodsReceipts) /\ Backward(13,
  Drop("goods_receipts", {"supplier_id", "status", "purchase_order_id"}))
  <1>1. BornAt.goods_receipts = 13 /\ Made.goods_receipts = CreateGoodsReceipts.table
    BY DEF BornAt, Made
  <1>2. CreateGoodsReceipts = Create("goods_receipts", CreateGoodsReceipts.table)
    BY DEF CreateGoodsReceipts, Create
  <1>3. {"supplier_id", "status", "purchase_order_id"} \subseteq
        IndexNames(CreateGoodsReceipts.table)
    BY GoodsReceiptsFits DEF Fits, IndexedBy, IndexNames
  <1>4. "goods_receipts" \in DOMAIN BornAt
    BY DEF BornAt
  <1> QED BY <1>1, <1>2, <1>3, <1>4 DEF Forward, Backward

LEMMA GoodsReceiptLinesSteps == Forward(14, CreateGoodsReceiptLines) /\ Backward(14,
  Drop("goods_receipt_lines", {"purchase_order_line_id", "product_id", "goods_receipt_id"}))
  <1>1. /\ BornAt.goods_receipt_lines = 14
        /\ Made.goods_receipt_lines = CreateGoodsReceiptLines.table
    BY DEF BornAt, Made
  <1>2. CreateGoodsReceiptLines = Create("goods_receipt_lines", CreateGoodsReceiptLines.table)
    BY DEF CreateGoodsReceiptLines, Create
  <1>3. {"purchase_order_line_id", "product_id", "goods_receipt_id"} \subseteq
        IndexNames(CreateGoodsReceiptLines.table)
    BY GoodsReceiptLinesFits DEF Fits, IndexedBy, IndexNames
  <1>4. "goods_receipt_lines" \in DOMAIN BornAt
    BY DEF BornAt
  <1> QED BY <1>1, <1>2, <1>3, <1>4 DEF Forward, Backward

LEMMA SupplierInvoicesSteps == Forward(15, CreateSupplierInvoices) /\ Backward(15,
  Drop("supplier_invoices", {"supplier_id", "status", "purchase_order_id"}))
  <1>1. BornAt.supplier_invoices = 15 /\ Made.supplier_invoices = CreateSupplierInvoices.table
    BY DEF BornAt, Made
  <1>2. CreateSupplierInvoices = Create("supplier_invoices", CreateSupplierInvoices.table)
    BY DEF CreateSupplierInvoices, Create
  <1>3. {"supplier_id", "status", "purchase_order_id"} \subseteq
        IndexNames(CreateSupplierInvoices.table)
    BY SupplierInvoicesFits DEF Fits, IndexedBy, IndexNames
  <1>4. "supplier_invoices" \in DOMAIN BornAt
    BY DEF BornAt
  <1> QED BY <1>1, <1>2, <1>3, <1>4 DEF Forward, Backward

LEMMA SupplierInvoiceLinesSteps == Forward(16, CreateSupplierInvoiceLines) /\ Backward(16,
  Drop("supplier_invoice_lines", {"supplier_invoice_id", "product_id"}))
  <1>1. /\ BornAt.supplier_invoice_lines = 16
        /\ Made.supplier_invoice_lines = CreateSupplierInvoiceLines.table
    BY DEF BornAt, Made
  <1>2. CreateSupplierInvoiceLines
          = Create("supplier_invoice_lines", CreateSupplierInvoiceLines.table)
    BY DEF CreateSupplierInvoiceLines, Create
  <1>3. {"supplier_invoice_id", "product_id"} \subseteq
        IndexNames(CreateSupplierInvoiceLines.table)
    BY SupplierInvoiceLinesFits DEF Fits, IndexedBy, IndexNames
  <1>4. "supplier_invoice_lines" \in DOMAIN BornAt
    BY DEF BornAt
  <1> QED BY <1>1, <1>2, <1>3, <1>4 DEF Forward, Backward

LEMMA ReconciliationRunsSteps == Forward(17, CreateReconciliationRuns) /\ Backward(17,
  Drop("reconciliation_runs", {"scope_key"}))
  <1>1. /\ BornAt.reconciliation_runs = 17
        /\ Made.reconciliation_runs = CreateReconciliationRuns.table
    BY DEF BornAt, Made
  <1>2. CreateReconciliationRuns = Create("reconciliation_runs", CreateReconciliationRuns.table)
    BY DEF CreateReconciliationRuns, Create
  <1>3. {"scope_key"} \subseteq IndexNames(CreateReconciliationRuns.table)
    BY ReconciliationRunsFits DEF Fits, IndexedBy, IndexNames
  <1>4. "reconciliation_runs" \in DOMAIN BornAt
    BY DEF BornAt
  <1> QED BY <1>1, <1>2, <1>3, <1>4 DEF Forward, Backward

LEMMA ReconciliationExceptionsSteps == Forward(18, CreateReconciliationExceptions) /\
  Backward(18, Drop("reconciliation_exceptions", {"supplier_invoice_line_id",
  "supplier_invoice_id", "resolution_status", "reconciliation_run_id", "purchase_order_line_id",
  "purchase_order_id", "product_id", "goods_receipt_line_id", "goods_receipt_id", "code"}))
  <1>1. /\ BornAt.reconciliation_exceptions = 18
        /\ Made.reconciliation_exceptions = CreateReconciliationExceptions.table
    BY DEF BornAt, Made
  <1>2. CreateReconciliationExceptions
          = Create("reconciliation_exceptions", CreateReconciliationExceptions.table)
    BY DEF CreateReconciliationExceptions, Create
  <1>3. {"supplier_invoice_line_id", "supplier_invoice_id", "resolution_status",
        "reconciliation_run_id", "purchase_order_line_id", "purchase_order_id", "product_id",
        "goods_receipt_line_id", "goods_receipt_id", "code"} \subseteq
        IndexNames(CreateReconciliationExceptions.table)
    BY ReconciliationExceptionsFits, DifferingIs DEF Fits, IndexedBy, IndexNames
  <1>4. "reconciliation_exceptions" \in DOMAIN BornAt
    BY DEF BornAt
  <1> QED BY <1>1, <1>2, <1>3, <1>4 DEF Forward, Backward

LEMMA ReviewCasesSteps == Forward(19, CreateReviewCases) /\ Backward(19, Drop("review_cases",
  {"supplier_id", "subject_type", "status", "risk", "priority", "created_at"}))
  <1>1. BornAt.review_cases = 19 /\ Made.review_cases = CreateReviewCases.table
    BY DEF BornAt, Made
  <1>2. CreateReviewCases = Create("review_cases", CreateReviewCases.table)
    BY DEF CreateReviewCases, Create
  <1>3. {"supplier_id", "subject_type", "status", "risk", "priority", "created_at"} \subseteq
        IndexNames(CreateReviewCases.table)
    BY ReviewCasesFits DEF Fits, IndexedBy, IndexNames
  <1>4. "review_cases" \in DOMAIN BornAt
    BY DEF BornAt
  <1> QED BY <1>1, <1>2, <1>3, <1>4 DEF Forward, Backward

LEMMA ReviewSnapshotsSteps == Forward(20, CreateReviewSnapshots) /\ Backward(20,
  Drop("review_ai_snapshots", {}))
  <1>1. BornAt.review_ai_snapshots = 20 /\ Made.review_ai_snapshots = CreateReviewSnapshots.table
    BY DEF BornAt, Made
  <1>2. CreateReviewSnapshots = Create("review_ai_snapshots", CreateReviewSnapshots.table)
    BY DEF CreateReviewSnapshots, Create
  <1>3. {} \subseteq IndexNames(CreateReviewSnapshots.table)
    BY ReviewSnapshotsFits DEF Fits, IndexedBy, IndexNames
  <1>4. "review_ai_snapshots" \in DOMAIN BornAt
    BY DEF BornAt
  <1> QED BY <1>1, <1>2, <1>3, <1>4 DEF Forward, Backward

LEMMA ReviewDecisionsSteps == Forward(21, CreateReviewDecisions) /\ Backward(21,
  Drop("review_decisions", {"snapshot_id"}))
  <1>1. BornAt.review_decisions = 21 /\ Made.review_decisions = CreateReviewDecisions.table
    BY DEF BornAt, Made
  <1>2. CreateReviewDecisions = Create("review_decisions", CreateReviewDecisions.table)
    BY DEF CreateReviewDecisions, Create
  <1>3. {"snapshot_id"} \subseteq IndexNames(CreateReviewDecisions.table)
    BY ReviewDecisionsFits DEF Fits, IndexedBy, IndexNames
  <1>4. "review_decisions" \in DOMAIN BornAt
    BY DEF BornAt
  <1> QED BY <1>1, <1>2, <1>3, <1>4 DEF Forward, Backward

LEMMA ReviewAuditEventsSteps == Forward(22, CreateReviewAuditEvents) /\ Backward(22,
  Drop("review_audit_events", {"review_case_id", "event_type"}))
  <1>1. /\ BornAt.review_audit_events = 22
        /\ Made.review_audit_events = CreateReviewAuditEvents.table
    BY DEF BornAt, Made
  <1>2. CreateReviewAuditEvents = Create("review_audit_events", CreateReviewAuditEvents.table)
    BY DEF CreateReviewAuditEvents, Create
  <1>3. {"review_case_id", "event_type"} \subseteq IndexNames(CreateReviewAuditEvents.table)
    BY ReviewAuditEventsFits DEF Fits, IndexedBy, IndexNames
  <1>4. "review_audit_events" \in DOMAIN BornAt
    BY DEF BornAt
  <1> QED BY <1>1, <1>2, <1>3, <1>4 DEF Forward, Backward

LEMMA ProcessingJobsSteps == Forward(26, CreateProcessingJobs) /\ Backward(26,
  Drop("processing_jobs", {"claimable", "state", "kind"}))
  <1>1. BornAt.processing_jobs = 26 /\ Made.processing_jobs = CreateProcessingJobs.table
    BY DEF BornAt, Made
  <1>2. CreateProcessingJobs = Create("processing_jobs", CreateProcessingJobs.table)
    BY DEF CreateProcessingJobs, Create
  <1>3. {"claimable", "state", "kind"} \subseteq IndexNames(CreateProcessingJobs.table)
    BY ProcessingJobsFits DEF Fits, IndexedBy, IndexNames
  <1>4. "processing_jobs" \in DOMAIN BornAt
    BY DEF BornAt
  <1> QED BY <1>1, <1>2, <1>3, <1>4 DEF Forward, Backward

LEMMA ReviewCasesGrow ==
  /\ Forward(23, AddColumn("review_cases", "reviewer_subject", TRUE))
  /\ Backward(23, DropColumn("review_cases", "reviewer_subject"))
  BY DEF Forward, Backward, GrownAt, Gained

LEMMA ReviewDecisionsGrow ==
  /\ Forward(24, AddColumn("review_decisions", "reviewer_subject", TRUE))
  /\ Backward(24, DropColumn("review_decisions", "reviewer_subject"))
  BY DEF Forward, Backward, GrownAt, Gained

LEMMA ReviewAuditEventsGrow ==
  /\ Forward(25, AddColumn("review_audit_events", "actor_subject", TRUE))
  /\ Backward(25, DropColumn("review_audit_events", "actor_subject"))
  BY DEF Forward, Backward, GrownAt, Gained

LEMMA AllFit == \A n \in DOMAIN BornAt : \E names : Fits(Made[n], BornAt[n], names)
  <1> DEFINE Suits(n) == \E names : Fits(Made[n], BornAt[n], names)
  <1>1. /\ Suits("categories")
        /\ Suits("stores")
        /\ Suits("suppliers")
        /\ Suits("products")
        /\ Suits("sales_records")
        /\ Suits("supplier_products")
    BY CategoriesFits, StoresFits, SuppliersFits, ProductsFits, SalesRecordsFits,
       SupplierProductsFits DEF BornAt, Made
  <1>2. /\ Suits("forecast_runs")
        /\ Suits("forecast_predictions")
        /\ Suits("supplier_documents")
        /\ Suits("document_findings")
        /\ Suits("purchase_orders")
        /\ Suits("purchase_order_lines")
    BY ForecastRunsFits, ForecastPredictionsFits, SupplierDocumentsFits,
       DocumentFindingsFits, PurchaseOrdersFits, PurchaseOrderLinesFits DEF BornAt, Made
  <1>3. /\ Suits("goods_receipts")
        /\ Suits("goods_receipt_lines")
        /\ Suits("supplier_invoices")
        /\ Suits("supplier_invoice_lines")
        /\ Suits("reconciliation_runs")
        /\ Suits("reconciliation_exceptions")
    BY GoodsReceiptsFits, GoodsReceiptLinesFits, SupplierInvoicesFits,
       SupplierInvoiceLinesFits, ReconciliationRunsFits, ReconciliationExceptionsFits DEF
       BornAt, Made
  <1>4. /\ Suits("review_cases")
        /\ Suits("review_ai_snapshots")
        /\ Suits("review_decisions")
        /\ Suits("review_audit_events")
        /\ Suits("processing_jobs")
    BY ReviewCasesFits, ReviewSnapshotsFits, ReviewDecisionsFits, ReviewAuditEventsFits,
       ProcessingJobsFits DEF BornAt, Made
  <1> HIDE DEF Suits
  <1>5. \A n \in DOMAIN BornAt : Suits(n)
    BY <1>1, <1>2, <1>3, <1>4 DEF BornAt
  <1> QED BY <1>5 DEF Suits

\* No table has the column it is to gain.
LEMMA GainIsNew == \A n \in DOMAIN GrownAt : Gained[n] \notin Columns(Made[n])
  <1>1. Gained.review_cases \notin Columns(Made.review_cases)
    BY DEF Gained, Made, CreateReviewCases, Create, Table, Columns, Mutable, Fact
  <1>2. Gained.review_decisions \notin Columns(Made.review_decisions)
    BY DEF Gained, Made, CreateReviewDecisions, Create, Table, Columns, Mutable, Fact
  <1>3. Gained.review_audit_events \notin Columns(Made.review_audit_events)
    BY DEF Gained, Made, CreateReviewAuditEvents, Create, Table, Columns, Mutable, Fact
  <1> QED BY <1>1, <1>2, <1>3 DEF GrownAt

\* After the last statement every table is the one its model declares.
LEMMA AllServe == \A n \in DOMAIN Declared : Serves(Form(n, 26), Declared[n])
  <1> DEFINE Served(n) == Serves(Form(n, 26), Declared[n])
  <1>0. \A n \in DOMAIN BornAt \ DOMAIN GrownAt : Form(n, 26) = Made[n]
    BY DEF Form
  <1>1. Served("categories") /\ Served("stores")
        /\ Served("suppliers")
        /\ Served("products")
        /\ Served("sales_records")
    BY <1>0, CategoriesServe, StoresServe, SuppliersServe, ProductsServe, SalesRecordsServe
       DEF BornAt, GrownAt, Declared
  <1>2. Served("supplier_products") /\ Served("forecast_runs")
        /\ Served("forecast_predictions")
        /\ Served("supplier_documents")
        /\ Served("document_findings")
    BY <1>0, SupplierProductsServe, ForecastRunsServe, ForecastPredictionsServe,
       SupplierDocumentsServe, DocumentFindingsServe DEF BornAt, GrownAt, Declared
  <1>3. Served("purchase_orders") /\ Served("purchase_order_lines")
        /\ Served("goods_receipts")
        /\ Served("goods_receipt_lines")
        /\ Served("supplier_invoices")
    BY <1>0, PurchaseOrdersServe, PurchaseOrderLinesServe, GoodsReceiptsServe,
       GoodsReceiptLinesServe, SupplierInvoicesServe DEF BornAt, GrownAt, Declared
  <1>4. Served("supplier_invoice_lines") /\ Served("reconciliation_runs")
        /\ Served("reconciliation_exceptions")
        /\ Served("review_ai_snapshots")
        /\ Served("processing_jobs")
    BY <1>0, SupplierInvoiceLinesServe, ReconciliationRunsServe,
       ReconciliationExceptionsServe, ReviewSnapshotsServe, ProcessingJobsServe DEF BornAt,
       GrownAt, Declared
  <1>5. Served("review_cases") /\ Served("review_decisions") /\ Served("review_audit_events")
    BY ReviewCasesServe, ReviewDecisionsServe, ReviewAuditEventsServe
       DEF Form, GrownAt, Gained, Declared
  <1> HIDE DEF Served
  <1>6. \A n \in DOMAIN Declared : Served(n)
    BY <1>1, <1>2, <1>3, <1>4, <1>5 DEF Declared
  <1> QED BY <1>6 DEF Served

----------------------------------------------------------------------------
(* A path along the chain, up or down.                                     *)

Steps == UNION {ToSet(Chain[r].up) \cup ToSet(Chain[r].down) : r \in 1..8}
Climbs(seq, a, b) ==
  /\ seq \in Seq(Steps) /\ Len(seq) = b - a
  /\ \A j \in 1..(b - a) : Forward(a + j, seq[j])
Descends(seq, b, a) ==
  /\ seq \in Seq(Steps) /\ Len(seq) = b - a
  /\ \A j \in 1..(b - a) : Backward(b + 1 - j, seq[j])

\* Each revision adds statements to those before it.
LEMMA HeightsRise ==
  /\ Height(0) = 0 /\ Height(8) = 26
  /\ \A r \in 0..8 : Height(r) \in 0..26
  /\ \A r \in 1..8 : Height(r - 1) <= Height(r)
  <1>1. /\ Height(0) = 0 /\ Height(1) = 0 /\ Height(2) = 6 /\ Height(3) = 8 /\ Height(4) = 10
        /\ Height(5) = 18 /\ Height(6) = 22 /\ Height(7) = 25 /\ Height(8) = 26
    BY DEF Height
  <1>2. \A r \in 0..8 : \/ r = 0 \/ r = 1 \/ r = 2 \/ r = 3 \/ r = 4
                          \/ r = 5 \/ r = 6 \/ r = 7 \/ r = 8
    OBVIOUS
  <1>3. \A r \in 0..8 : Height(r) \in 0..26
    BY <1>1, <1>2
  <1>4. ASSUME NEW r \in 1..8 PROVE Height(r - 1) <= Height(r)
    <2>1. 1 - 1 = 0 /\ 2 - 1 = 1 /\ 3 - 1 = 2 /\ 4 - 1 = 3 /\ 5 - 1 = 4 /\ 6 - 1 = 5 /\ 7 - 1 = 6
          /\ 8 - 1 = 7
      OBVIOUS
    <2> QED BY <1>1, <1>2, <2>1
  <1> QED BY <1>1, <1>3, <1>4

\* The revisions are eight.
LEMMA ChainLength == LastRevision = 8
  BY DEF LastRevision, Chain

Rung(r) == /\ Climbs(Chain[r].up, Height(r - 1), Height(r))
           /\ Descends(Chain[r].down, Height(r), Height(r - 1))

\* Paths one behind the other.
LEMMA JoinedClimbs ==
  ASSUME NEW a \in Int, NEW b \in Int, NEW c \in Int, a <= b, b <= c, NEW s, NEW t,
         Climbs(s, a, b), Climbs(t, b, c)
  PROVE  Climbs(s \o t, a, c)
  <1>1. /\ s \o t \in Seq(Steps) /\ Len(s \o t) = c - a
        /\ \A j \in 1..(c - a) : (s \o t)[j] = IF j <= b - a THEN s[j] ELSE t[j - (b - a)]
    <2>1. s \in Seq(Steps) /\ t \in Seq(Steps) /\ Len(s) = b - a /\ Len(t) = c - b
      BY DEF Climbs
    <2> HIDE DEF Steps
    <2>2. /\ s \o t \in Seq(Steps) /\ Len(s \o t) = Len(s) + Len(t)
          /\ \A j \in 1..(Len(s) + Len(t)) :
               (s \o t)[j] = IF j <= Len(s) THEN s[j] ELSE t[j - Len(s)]
      BY <2>1, ConcatProperties
    <2>3. Len(s) + Len(t) = c - a
      BY <2>1
    <2> QED BY <2>1, <2>2, <2>3
  <1>2. ASSUME NEW j \in 1..(c - a) PROVE Forward(a + j, (s \o t)[j])
    <2>1. CASE j <= b - a
      BY <1>1, <2>1 DEF Climbs
    <2>2. CASE ~(j <= b - a)
      <3>1. j - (b - a) \in 1..(c - b) /\ b + (j - (b - a)) = a + j
        BY <2>2
      <3>2. Forward(b + (j - (b - a)), t[j - (b - a)])
        BY <3>1 DEF Climbs
      <3> QED BY <1>1, <2>2, <3>1, <3>2
    <2> QED BY <2>1, <2>2
  <1> QED BY <1>1, <1>2 DEF Climbs

\* The same, going down.
LEMMA JoinedDescends ==
  ASSUME NEW a \in Int, NEW b \in Int, NEW c \in Int, a <= b, b <= c, NEW s, NEW t,
         Descends(s, c, b), Descends(t, b, a)
  PROVE  Descends(s \o t, c, a)
  <1>1. /\ s \o t \in Seq(Steps) /\ Len(s \o t) = c - a
        /\ \A j \in 1..(c - a) : (s \o t)[j] = IF j <= c - b THEN s[j] ELSE t[j - (c - b)]
    <2>1. s \in Seq(Steps) /\ t \in Seq(Steps) /\ Len(s) = c - b /\ Len(t) = b - a
      BY DEF Descends
    <2> HIDE DEF Steps
    <2>2. /\ s \o t \in Seq(Steps) /\ Len(s \o t) = Len(s) + Len(t)
          /\ \A j \in 1..(Len(s) + Len(t)) :
               (s \o t)[j] = IF j <= Len(s) THEN s[j] ELSE t[j - Len(s)]
      BY <2>1, ConcatProperties
    <2>3. Len(s) + Len(t) = c - a
      BY <2>1
    <2> QED BY <2>1, <2>2, <2>3
  <1>2. ASSUME NEW j \in 1..(c - a) PROVE Backward(c + 1 - j, (s \o t)[j])
    <2>1. CASE j <= c - b
      BY <1>1, <2>1 DEF Descends
    <2>2. CASE ~(j <= c - b)
      <3>1. j - (c - b) \in 1..(b - a) /\ b + 1 - (j - (c - b)) = c + 1 - j
        BY <2>2
      <3>2. Backward(b + 1 - (j - (c - b)), t[j - (c - b)])
        BY <3>1 DEF Descends
      <3> QED BY <1>1, <2>2, <3>1, <3>2
    <2> QED BY <2>1, <2>2
  <1> QED BY <1>1, <1>2 DEF Descends

LEMMA EachInSteps ==
  \A r \in 1..8 : ToSet(Chain[r].up) \subseteq Steps /\ ToSet(Chain[r].down) \subseteq Steps
  BY DEF Steps

\* A sequence over its own elements.
LEMMA OwnElements ==
  ASSUME NEW s, NEW n \in Nat, s \in [1..n -> ToSet(s)], ToSet(s) \subseteq Steps
  PROVE  s \in Seq(Steps) /\ Len(s) = n
  <1>1. s \in [1..n -> Steps]
    OBVIOUS
  <1> HIDE DEF Steps
  <1> QED BY <1>1

\* Each revision climbs from the height of the one before, and its downgrade comes back
\* by the same statements in reverse.
LEMMA EmptyRung == Rung(1)
  <1>1. Chain[1].up = << >> /\ Chain[1].down = << >>
    BY DEF Chain
  <1>2. Height(1) = 0 /\ Height(1 - 1) = 0
    BY DEF Height
  <1> QED BY <1>1, <1>2 DEF Rung, Climbs, Descends

LEMMA CatalogRung == Rung(2)
  <1> DEFINE up == UpgradeCatalog
             down == DowngradeCatalog
  <1>1. Chain[2].up = up /\ Chain[2].down = down
    BY DEF Chain
  <1>2. Height(2) = 6 /\ Height(2 - 1) = 0
    BY DEF Height
  <1>3. /\ Forward(1, up[1]) /\ Forward(2, up[2]) /\ Forward(3, up[3]) /\ Forward(4, up[4]) /\
           Forward(5, up[5]) /\ Forward(6, up[6])
        /\ Backward(6, down[1]) /\ Backward(5, down[2]) /\ Backward(4, down[3]) /\ Backward(3,
           down[4]) /\ Backward(2, down[5]) /\ Backward(1, down[6])
    BY CategoriesSteps, StoresSteps, SuppliersSteps, ProductsSteps, SalesRecordsSteps,
       SupplierProductsSteps DEF UpgradeCatalog, DowngradeCatalog
  <1>4. up \in [1..6 -> ToSet(up)] /\ down \in [1..6 -> ToSet(down)]
    BY DEF UpgradeCatalog, DowngradeCatalog, ToSet
  <1>5. /\ up \in Seq(Steps) /\ Len(up) = 6
        /\ down \in Seq(Steps) /\ Len(down) = 6
    <2>1. ToSet(up) \subseteq Steps /\ ToSet(down) \subseteq Steps
      BY <1>1, EachInSteps
    <2> HIDE DEF up, down
    <2> QED BY <1>4, <2>1, OwnElements
  <1> HIDE DEF up, down
  <1>6. \A j \in 1..6 : Forward(0 + j, up[j]) /\ Backward(6 + 1 - j, down[j])
    <2>1. \A j \in 1..6 : j = 1 \/ j = 2 \/ j = 3 \/ j = 4 \/ j = 5 \/ j = 6
      OBVIOUS
    <2>2. /\ 0 + 1 = 1 /\ 0 + 2 = 2 /\ 0 + 3 = 3 /\ 0 + 4 = 4 /\ 0 + 5 = 5 /\ 0 + 6 = 6
          /\ 6 + 1 - 1 = 6 /\ 6 + 1 - 2 = 5 /\ 6 + 1 - 3 = 4 /\ 6 + 1 - 4 = 3 /\ 6 + 1 - 5 = 2
             /\ 6 + 1 - 6 = 1
      OBVIOUS
    <2> QED BY <1>3, <2>1, <2>2
  <1>7. 6 - 0 = 6
    OBVIOUS
  <1> QED BY <1>1, <1>2, <1>5, <1>6, <1>7 DEF Rung, Climbs, Descends

LEMMA ForecastsRung == Rung(3)
  <1> DEFINE up == UpgradeForecasts
             down == DowngradeForecasts
  <1>1. Chain[3].up = up /\ Chain[3].down = down
    BY DEF Chain
  <1>2. Height(3) = 8 /\ Height(3 - 1) = 6
    BY DEF Height
  <1>3. /\ Forward(7, up[1]) /\ Forward(8, up[2])
        /\ Backward(8, down[1]) /\ Backward(7, down[2])
    BY ForecastRunsSteps, ForecastPredictionsSteps DEF UpgradeForecasts, DowngradeForecasts
  <1>4. up \in [1..2 -> ToSet(up)] /\ down \in [1..2 -> ToSet(down)]
    BY DEF UpgradeForecasts, DowngradeForecasts, ToSet
  <1>5. /\ up \in Seq(Steps) /\ Len(up) = 2
        /\ down \in Seq(Steps) /\ Len(down) = 2
    <2>1. ToSet(up) \subseteq Steps /\ ToSet(down) \subseteq Steps
      BY <1>1, EachInSteps
    <2> HIDE DEF up, down
    <2> QED BY <1>4, <2>1, OwnElements
  <1> HIDE DEF up, down
  <1>6. \A j \in 1..2 : Forward(6 + j, up[j]) /\ Backward(8 + 1 - j, down[j])
    <2>1. \A j \in 1..2 : j = 1 \/ j = 2
      OBVIOUS
    <2>2. /\ 6 + 1 = 7 /\ 6 + 2 = 8
          /\ 8 + 1 - 1 = 8 /\ 8 + 1 - 2 = 7
      OBVIOUS
    <2> QED BY <1>3, <2>1, <2>2
  <1>7. 8 - 6 = 2
    OBVIOUS
  <1> QED BY <1>1, <1>2, <1>5, <1>6, <1>7 DEF Rung, Climbs, Descends

LEMMA DocumentsRung == Rung(4)
  <1> DEFINE up == UpgradeDocuments
             down == DowngradeDocuments
  <1>1. Chain[4].up = up /\ Chain[4].down = down
    BY DEF Chain
  <1>2. Height(4) = 10 /\ Height(4 - 1) = 8
    BY DEF Height
  <1>3. /\ Forward(9, up[1]) /\ Forward(10, up[2])
        /\ Backward(10, down[1]) /\ Backward(9, down[2])
    BY SupplierDocumentsSteps, DocumentFindingsSteps DEF UpgradeDocuments, DowngradeDocuments
  <1>4. up \in [1..2 -> ToSet(up)] /\ down \in [1..2 -> ToSet(down)]
    BY DEF UpgradeDocuments, DowngradeDocuments, ToSet
  <1>5. /\ up \in Seq(Steps) /\ Len(up) = 2
        /\ down \in Seq(Steps) /\ Len(down) = 2
    <2>1. ToSet(up) \subseteq Steps /\ ToSet(down) \subseteq Steps
      BY <1>1, EachInSteps
    <2> HIDE DEF up, down
    <2> QED BY <1>4, <2>1, OwnElements
  <1> HIDE DEF up, down
  <1>6. \A j \in 1..2 : Forward(8 + j, up[j]) /\ Backward(10 + 1 - j, down[j])
    <2>1. \A j \in 1..2 : j = 1 \/ j = 2
      OBVIOUS
    <2>2. /\ 8 + 1 = 9 /\ 8 + 2 = 10
          /\ 10 + 1 - 1 = 10 /\ 10 + 1 - 2 = 9
      OBVIOUS
    <2> QED BY <1>3, <2>1, <2>2
  <1>7. 10 - 8 = 2
    OBVIOUS
  <1> QED BY <1>1, <1>2, <1>5, <1>6, <1>7 DEF Rung, Climbs, Descends

LEMMA ProcurementRung == Rung(5)
  <1> DEFINE up == UpgradeProcurement
             down == DowngradeProcurement
  <1>1. Chain[5].up = up /\ Chain[5].down = down
    BY DEF Chain
  <1>2. Height(5) = 18 /\ Height(5 - 1) = 10
    BY DEF Height
  <1>3. /\ Forward(11, up[1]) /\ Forward(12, up[2]) /\ Forward(13, up[3]) /\ Forward(14, up[4])
           /\ Forward(15, up[5]) /\ Forward(16, up[6]) /\ Forward(17, up[7]) /\ Forward(18,
           up[8])
        /\ Backward(18, down[1]) /\ Backward(17, down[2]) /\ Backward(16, down[3]) /\
           Backward(15, down[4]) /\ Backward(14, down[5]) /\ Backward(13, down[6]) /\
           Backward(12, down[7]) /\ Backward(11, down[8])
    BY PurchaseOrdersSteps, PurchaseOrderLinesSteps, GoodsReceiptsSteps,
       GoodsReceiptLinesSteps, SupplierInvoicesSteps, SupplierInvoiceLinesSteps,
       ReconciliationRunsSteps, ReconciliationExceptionsSteps DEF UpgradeProcurement,
       DowngradeProcurement
  <1>4. up \in [1..8 -> ToSet(up)] /\ down \in [1..8 -> ToSet(down)]
    BY DEF UpgradeProcurement, DowngradeProcurement, ToSet
  <1>5. /\ up \in Seq(Steps) /\ Len(up) = 8
        /\ down \in Seq(Steps) /\ Len(down) = 8
    <2>1. ToSet(up) \subseteq Steps /\ ToSet(down) \subseteq Steps
      BY <1>1, EachInSteps
    <2> HIDE DEF up, down
    <2> QED BY <1>4, <2>1, OwnElements
  <1> HIDE DEF up, down
  <1>6. \A j \in 1..8 : Forward(10 + j, up[j]) /\ Backward(18 + 1 - j, down[j])
    <2>1. \A j \in 1..8 : j = 1 \/ j = 2 \/ j = 3 \/ j = 4 \/ j = 5 \/ j = 6 \/ j = 7 \/ j = 8
      OBVIOUS
    <2>2. /\ 10 + 1 = 11 /\ 10 + 2 = 12 /\ 10 + 3 = 13 /\ 10 + 4 = 14 /\ 10 + 5 = 15 /\ 10 + 6 =
             16 /\ 10 + 7 = 17 /\ 10 + 8 = 18
          /\ 18 + 1 - 1 = 18 /\ 18 + 1 - 2 = 17 /\ 18 + 1 - 3 = 16 /\ 18 + 1 - 4 = 15 /\ 18 + 1
             - 5 = 14 /\ 18 + 1 - 6 = 13 /\ 18 + 1 - 7 = 12 /\ 18 + 1 - 8 = 11
      OBVIOUS
    <2> QED BY <1>3, <2>1, <2>2
  <1>7. 18 - 10 = 8
    OBVIOUS
  <1> QED BY <1>1, <1>2, <1>5, <1>6, <1>7 DEF Rung, Climbs, Descends

LEMMA ReviewRung == Rung(6)
  <1> DEFINE up == UpgradeReview
             down == DowngradeReview
  <1>1. Chain[6].up = up /\ Chain[6].down = down
    BY DEF Chain
  <1>2. Height(6) = 22 /\ Height(6 - 1) = 18
    BY DEF Height
  <1>3. /\ Forward(19, up[1]) /\ Forward(20, up[2]) /\ Forward(21, up[3]) /\ Forward(22, up[4])
        /\ Backward(22, down[1]) /\ Backward(21, down[2]) /\ Backward(20, down[3]) /\
           Backward(19, down[4])
    BY ReviewCasesSteps, ReviewSnapshotsSteps, ReviewDecisionsSteps, ReviewAuditEventsSteps
       DEF UpgradeReview, DowngradeReview
  <1>4. up \in [1..4 -> ToSet(up)] /\ down \in [1..4 -> ToSet(down)]
    BY DEF UpgradeReview, DowngradeReview, ToSet
  <1>5. /\ up \in Seq(Steps) /\ Len(up) = 4
        /\ down \in Seq(Steps) /\ Len(down) = 4
    <2>1. ToSet(up) \subseteq Steps /\ ToSet(down) \subseteq Steps
      BY <1>1, EachInSteps
    <2> HIDE DEF up, down
    <2> QED BY <1>4, <2>1, OwnElements
  <1> HIDE DEF up, down
  <1>6. \A j \in 1..4 : Forward(18 + j, up[j]) /\ Backward(22 + 1 - j, down[j])
    <2>1. \A j \in 1..4 : j = 1 \/ j = 2 \/ j = 3 \/ j = 4
      OBVIOUS
    <2>2. /\ 18 + 1 = 19 /\ 18 + 2 = 20 /\ 18 + 3 = 21 /\ 18 + 4 = 22
          /\ 22 + 1 - 1 = 22 /\ 22 + 1 - 2 = 21 /\ 22 + 1 - 3 = 20 /\ 22 + 1 - 4 = 19
      OBVIOUS
    <2> QED BY <1>3, <2>1, <2>2
  <1>7. 22 - 18 = 4
    OBVIOUS
  <1> QED BY <1>1, <1>2, <1>5, <1>6, <1>7 DEF Rung, Climbs, Descends

LEMMA IdentityRung == Rung(7)
  <1> DEFINE up == UpgradeIdentity
             down == DowngradeIdentity
  <1>1. Chain[7].up = up /\ Chain[7].down = down
    BY DEF Chain
  <1>2. Height(7) = 25 /\ Height(7 - 1) = 22
    BY DEF Height
  <1>3. /\ Forward(23, up[1]) /\ Forward(24, up[2]) /\ Forward(25, up[3])
        /\ Backward(25, down[1]) /\ Backward(24, down[2]) /\ Backward(23, down[3])
    BY ReviewCasesGrow, ReviewDecisionsGrow, ReviewAuditEventsGrow DEF UpgradeIdentity,
       DowngradeIdentity
  <1>4. up \in [1..3 -> ToSet(up)] /\ down \in [1..3 -> ToSet(down)]
    BY DEF UpgradeIdentity, DowngradeIdentity, ToSet
  <1>5. /\ up \in Seq(Steps) /\ Len(up) = 3
        /\ down \in Seq(Steps) /\ Len(down) = 3
    <2>1. ToSet(up) \subseteq Steps /\ ToSet(down) \subseteq Steps
      BY <1>1, EachInSteps
    <2> HIDE DEF up, down
    <2> QED BY <1>4, <2>1, OwnElements
  <1> HIDE DEF up, down
  <1>6. \A j \in 1..3 : Forward(22 + j, up[j]) /\ Backward(25 + 1 - j, down[j])
    <2>1. \A j \in 1..3 : j = 1 \/ j = 2 \/ j = 3
      OBVIOUS
    <2>2. /\ 22 + 1 = 23 /\ 22 + 2 = 24 /\ 22 + 3 = 25
          /\ 25 + 1 - 1 = 25 /\ 25 + 1 - 2 = 24 /\ 25 + 1 - 3 = 23
      OBVIOUS
    <2> QED BY <1>3, <2>1, <2>2
  <1>7. 25 - 22 = 3
    OBVIOUS
  <1> QED BY <1>1, <1>2, <1>5, <1>6, <1>7 DEF Rung, Climbs, Descends

LEMMA JobsRung == Rung(8)
  <1> DEFINE up == UpgradeJobs
             down == DowngradeJobs
  <1>1. Chain[8].up = up /\ Chain[8].down = down
    BY DEF Chain
  <1>2. Height(8) = 26 /\ Height(8 - 1) = 25
    BY DEF Height
  <1>3. /\ Forward(26, up[1])
        /\ Backward(26, down[1])
    BY ProcessingJobsSteps DEF UpgradeJobs, DowngradeJobs
  <1>4. up \in [1..1 -> ToSet(up)] /\ down \in [1..1 -> ToSet(down)]
    BY DEF UpgradeJobs, DowngradeJobs, ToSet
  <1>5. /\ up \in Seq(Steps) /\ Len(up) = 1
        /\ down \in Seq(Steps) /\ Len(down) = 1
    <2>1. ToSet(up) \subseteq Steps /\ ToSet(down) \subseteq Steps
      BY <1>1, EachInSteps
    <2> HIDE DEF up, down
    <2> QED BY <1>4, <2>1, OwnElements
  <1> HIDE DEF up, down
  <1>6. \A j \in 1..1 : Forward(25 + j, up[j]) /\ Backward(26 + 1 - j, down[j])
    <2>1. \A j \in 1..1 : j = 1
      OBVIOUS
    <2>2. /\ 25 + 1 = 26
          /\ 26 + 1 - 1 = 26
      OBVIOUS
    <2> QED BY <1>3, <2>1, <2>2
  <1>7. 26 - 25 = 1
    OBVIOUS
  <1> QED BY <1>1, <1>2, <1>5, <1>6, <1>7 DEF Rung, Climbs, Descends

LEMMA EveryRung == \A r \in 1..8 : Rung(r)
  <1>1. \A r \in 1..8 : r = 1 \/ r = 2 \/ r = 3 \/ r = 4 \/ r = 5 \/ r = 6 \/ r = 7 \/ r = 8
    OBVIOUS
  <1> QED BY <1>1, EmptyRung, CatalogRung, ForecastsRung, DocumentsRung, ProcurementRung,
             ReviewRung, IdentityRung, JobsRung

\* The statements of an upgrade climb from its first revision to its last.
LEMMA UpgradeClimbs ==
  ASSUME NEW from \in 0..8, NEW to \in 0..8, from < to
  PROVE  Climbs(Statements(from, to), Height(from), Height(to)) /\ Height(from) <= Height(to)
  <1> DEFINE n == to - from
             seqs == [i \in 1..n |-> Chain[from + i].up]
  <1>1. n \in Nat \ {0} /\ Len(seqs) = n
    OBVIOUS
  <1>2. Statements(from, to) = FlattenSeq(seqs)
    BY DEF Statements
  <1>3. \A i \in 1..n : seqs[i] = Chain[from + i].up
    OBVIOUS
  <1> HIDE DEF seqs
  <1>4. PICK flat : /\ flat[1] = seqs[1]
                    /\ \A i \in 2..n : flat[i] = flat[i - 1] \o seqs[i]
                    /\ FlattenSeq(seqs) = flat[n]
    BY <1>1, FlattenRuns
  <1>5. ASSUME NEW i \in 1..n
        PROVE  /\ Climbs(seqs[i], Height(from + i - 1), Height(from + i))
               /\ Height(from + i - 1) <= Height(from + i)
               /\ Height(from + i - 1) \in Int /\ Height(from + i) \in Int /\ Height(from) \in Int
    <2>1. from + i \in 1..8 /\ from + i - 1 \in 0..8 /\ from + i \in 0..8 /\ from \in 0..8
      OBVIOUS
    <2>2. seqs[i] = Chain[from + i].up
      BY <1>3
    <2>3. Rung(from + i)
      BY <2>1, EveryRung
    <2> QED BY <2>1, <2>2, <2>3, HeightsRise DEF Rung
  <1> DEFINE Good == {i \in Nat : i \in 1..n => /\ Climbs(flat[i], Height(from), Height(from + i))
                                                /\ Height(from) <= Height(from + i)}
  <1>6. ASSUME NEW i \in Nat, i \in Good PROVE i + 1 \in Good
    <2> SUFFICES ASSUME i + 1 \in 1..n
                 PROVE  /\ Climbs(flat[i + 1], Height(from), Height(from + (i + 1)))
                        /\ Height(from) <= Height(from + (i + 1))
      OBVIOUS
    <2>1. CASE i = 0
      <3>1. from + (i + 1) - 1 = from /\ flat[i + 1] = seqs[i + 1]
        BY <1>4, <2>1
      <3> QED BY <1>5, <3>1
    <2>2. CASE i # 0
      <3>1. i \in 1..n /\ i + 1 \in 2..n /\ (i + 1) - 1 = i /\ from + (i + 1) - 1 = from + i
        BY <2>2
      <3>2. /\ Climbs(flat[i], Height(from), Height(from + i)) /\ Height(from) <= Height(from + i)
            /\ Climbs(seqs[i + 1], Height(from + i), Height(from + (i + 1)))
            /\ Height(from + i) <= Height(from + (i + 1))
            /\ Height(from) \in Int /\ Height(from + i) \in Int /\ Height(from + (i + 1)) \in Int
        BY <1>5, <1>6, <3>1
      <3>3. flat[i + 1] = flat[i] \o seqs[i + 1]
        BY <1>4, <3>1
      <3> HIDE DEF Good
      <3>4. Climbs(flat[i] \o seqs[i + 1], Height(from), Height(from + (i + 1)))
        BY <3>2, JoinedClimbs
      <3> QED BY <3>2, <3>3, <3>4
    <2> QED BY <2>1, <2>2
  <1>7. n \in Good
    <2>1. 0 \in Good
      OBVIOUS
    <2> HIDE DEF Good
    <2> QED BY <1>1, <1>6, <2>1, EveryNatural
  <1>8. from + n = to /\ n \in 1..n
    OBVIOUS
  <1> QED BY <1>2, <1>4, <1>7, <1>8

\* Those of a downgrade descend by the same heights.
LEMMA DowngradeDescends ==
  ASSUME NEW from \in 0..8, NEW to \in 0..8, to < from
  PROVE  Descends(Statements(from, to), Height(from), Height(to)) /\ Height(to) <= Height(from)
  <1> DEFINE n == from - to
             seqs == [i \in 1..n |-> Chain[from + 1 - i].down]
  <1>1. n \in Nat \ {0} /\ Len(seqs) = n
    OBVIOUS
  <1>2. Statements(from, to) = FlattenSeq(seqs)
    BY DEF Statements
  <1>3. \A i \in 1..n : seqs[i] = Chain[from + 1 - i].down
    OBVIOUS
  <1> HIDE DEF seqs
  <1>4. PICK flat : /\ flat[1] = seqs[1]
                    /\ \A i \in 2..n : flat[i] = flat[i - 1] \o seqs[i]
                    /\ FlattenSeq(seqs) = flat[n]
    BY <1>1, FlattenRuns
  <1>5. ASSUME NEW i \in 1..n
        PROVE  /\ Descends(seqs[i], Height(from - (i - 1)), Height(from - i))
               /\ Height(from - i) <= Height(from - (i - 1))
               /\ Height(from - (i - 1)) \in Int /\ Height(from - i) \in Int /\ Height(from) \in Int
    <2>1. /\ from + 1 - i \in 1..8 /\ from - i \in 0..8 /\ from - (i - 1) \in 0..8 /\ from \in 0..8
          /\ from + 1 - i = from - (i - 1) /\ from - (i - 1) - 1 = from - i
      OBVIOUS
    <2>2. seqs[i] = Chain[from + 1 - i].down
      BY <1>3
    <2>3. Rung(from + 1 - i)
      BY <2>1, EveryRung
    <2> QED BY <2>1, <2>2, <2>3, HeightsRise DEF Rung
  <1> DEFINE Good == {i \in Nat : i \in 1..n => /\ Descends(flat[i], Height(from), Height(from - i))
                                                /\ Height(from - i) <= Height(from)}
  <1>6. ASSUME NEW i \in Nat, i \in Good PROVE i + 1 \in Good
    <2> SUFFICES ASSUME i + 1 \in 1..n
                 PROVE  /\ Descends(flat[i + 1], Height(from), Height(from - (i + 1)))
                        /\ Height(from - (i + 1)) <= Height(from)
      OBVIOUS
    <2>1. CASE i = 0
      <3>1. from - ((i + 1) - 1) = from /\ flat[i + 1] = seqs[i + 1]
        BY <1>4, <2>1
      <3> QED BY <1>5, <3>1
    <2>2. CASE i # 0
      <3>1. i \in 1..n /\ i + 1 \in 2..n /\ (i + 1) - 1 = i
        BY <2>2
      <3>2. /\ Descends(flat[i], Height(from), Height(from - i)) /\ Height(from - i) <= Height(from)
            /\ Descends(seqs[i + 1], Height(from - i), Height(from - (i + 1)))
            /\ Height(from - (i + 1)) <= Height(from - i)
            /\ Height(from) \in Int /\ Height(from - i) \in Int /\ Height(from - (i + 1)) \in Int
        BY <1>5, <1>6, <3>1
      <3>3. flat[i + 1] = flat[i] \o seqs[i + 1]
        BY <1>4, <3>1
      <3> HIDE DEF Good
      <3>4. Descends(flat[i] \o seqs[i + 1], Height(from), Height(from - (i + 1)))
        BY <3>2, JoinedDescends
      <3> QED BY <3>2, <3>3, <3>4
    <2> QED BY <2>1, <2>2
  <1>7. n \in Good
    <2>1. 0 \in Good
      OBVIOUS
    <2> HIDE DEF Good
    <2> QED BY <1>1, <1>6, <2>1, EveryNatural
  <1>8. from - n = to /\ n \in 1..n
    OBVIOUS
  <1> QED BY <1>2, <1>4, <1>7, <1>8

----------------------------------------------------------------------------
(* One statement, forward and back.                                        *)

\* To drop a column that was added gives the table back.
LEMMA Recast ==
  ASSUME NEW t, IsTable(t), NEW g, g \notin Columns(t)
  PROVE  /\ [[t EXCEPT !.optional = @ \cup {g}] EXCEPT !.optional = @ \ {g}, !.needed = @ \ {g}] = t
         /\ Columns([t EXCEPT !.optional = @ \cup {g}]) = Columns(t) \cup {g}
         /\ Parents([t EXCEPT !.optional = @ \cup {g}]) = Parents(t)
  BY DEF IsTable, Table, Columns, Parents

\* What a table refers to was there before it; only itself may come later.
LEMMA ParentsStand ==
  ASSUME NEW n \in DOMAIN BornAt, NEW k
  PROVE  Parents(Form(n, k)) = Parents(Made[n]) /\ Parents(Made[n]) \subseteq Standing(BornAt[n])
  <1>1. PICK names : Fits(Made[n], BornAt[n], names)
    BY AllFit
  <1>2. Parents(Made[n]) \subseteq Standing(BornAt[n])
    BY <1>1 DEF Fits, Refers, Parents
  <1>3. CASE n \in DOMAIN GrownAt /\ GrownAt[n] <= k
    <2>1. Form(n, k) = [Made[n] EXCEPT !.optional = @ \cup {Gained[n]}]
      BY <1>3 DEF Form
    <2>2. IsTable(Made[n]) /\ Gained[n] \notin Columns(Made[n])
      BY <1>1, <1>3, GainIsNew DEF Fits
    <2> QED BY <1>2, <2>1, <2>2, Recast
  <1>4. CASE ~(n \in DOMAIN GrownAt /\ GrownAt[n] <= k)
    BY <1>2, <1>4 DEF Form
  <1> QED BY <1>3, <1>4

\* Where the k-th statement creates a table, no other changes.
LEMMA AtBirth ==
  ASSUME NEW k \in 1..26, NEW n \in DOMAIN BornAt, BornAt[n] = k
  PROVE  /\ Standing(k) = Standing(k - 1) \cup {n} /\ n \notin Standing(k - 1)
         /\ Form(n, k) = Made[n]
         /\ \A m \in Standing(k - 1) : Form(m, k) = Form(m, k - 1)
  <1>1. Standing(k) = Standing(k - 1) \cup {n} /\ n \notin Standing(k - 1)
    <2>1. \A m \in DOMAIN BornAt : BornAt[m] \in Int /\ (BornAt[m] = k => m = n)
      BY BornIs
    <2> QED BY <2>1 DEF Standing
  <1>2. Form(n, k) = Made[n]
    <2>1. n \in DOMAIN GrownAt => GrownAt[n] > k /\ GrownAt[n] \in Int
      BY BornIs
    <2> QED BY <2>1 DEF Form
  <1>3. ASSUME NEW m \in Standing(k - 1) PROVE Form(m, k) = Form(m, k - 1)
    <2>1. m \in DOMAIN GrownAt => GrownAt[m] \in Int /\ GrownAt[m] # k
      BY BornIs
    <2>2. m \in DOMAIN GrownAt => (GrownAt[m] <= k <=> GrownAt[m] <= k - 1)
      BY <2>1
    <2> QED BY <2>2 DEF Form
  <1> QED BY <1>1, <1>2, <1>3

\* Where it adds a column, the tables stay and no other changes.
LEMMA AtGrowth ==
  ASSUME NEW k \in 1..26, NEW n \in DOMAIN GrownAt, GrownAt[n] = k
  PROVE  /\ Standing(k) = Standing(k - 1) /\ n \in Standing(k - 1)
         /\ Form(n, k - 1) = Made[n]
         /\ Form(n, k) = [Made[n] EXCEPT !.optional = @ \cup {Gained[n]}]
         /\ \A m \in Standing(k - 1) \ {n} : Form(m, k) = Form(m, k - 1)
  <1>1. Standing(k) = Standing(k - 1)
    <2>1. \A m \in DOMAIN BornAt : BornAt[m] \in Int /\ BornAt[m] # k
      BY BornIs
    <2>2. \A m \in DOMAIN BornAt : BornAt[m] <= k <=> BornAt[m] <= k - 1
      BY <2>1
    <2> QED BY <2>2 DEF Standing
  <1>2. n \in Standing(k - 1)
    BY BornIs DEF Standing
  <1>3. Form(n, k - 1) = Made[n] /\ Form(n, k) = [Made[n] EXCEPT !.optional = @ \cup {Gained[n]}]
    BY BornIs DEF Form
  <1>4. ASSUME NEW m \in Standing(k - 1) \ {n} PROVE Form(m, k) = Form(m, k - 1)
    <2>1. m \in DOMAIN GrownAt => GrownAt[m] \in Int /\ GrownAt[m] # k
      BY BornIs
    <2>2. m \in DOMAIN GrownAt => (GrownAt[m] <= k <=> GrownAt[m] <= k - 1)
      BY <2>1
    <2> QED BY <2>2 DEF Form
  <1> QED BY <1>1, <1>2, <1>3, <1>4

\* The k-th statement is possible where the first k - 1 have run, and leaves what k leave.
LEMMA StepUp ==
  ASSUME NEW k \in 1..26, NEW step, Forward(k, step), NEW db, db.schema = Level(k - 1)
  PROVE  /\ Possible(step, db) /\ Schema(step, Level(k - 1)) = Level(k)
         /\ step.op # "drop"
  <1>0. /\ DOMAIN Level(k - 1) = Standing(k - 1)
        /\ \A m \in Standing(k - 1) : Level(k - 1)[m] = Form(m, k - 1)
    BY DEF Level
  <1>1. ASSUME NEW n \in DOMAIN BornAt, BornAt[n] = k, step = Create(n, Made[n])
        PROVE  /\ Possible(step, db) /\ Schema(step, Level(k - 1)) = Level(k)
               /\ step.op # "drop"
    <2>1. step.op = "create" /\ step.name = n /\ step.table = Made[n]
      BY <1>1 DEF Create
    <2>2. PICK names : Fits(Made[n], k, names)
      BY <1>1, AllFit
    <2>3. /\ Standing(k) = Standing(k - 1) \cup {n} /\ n \notin Standing(k - 1)
          /\ Form(n, k) = Made[n]
          /\ \A m \in Standing(k - 1) : Form(m, k) = Form(m, k - 1)
      BY <1>1, AtBirth
    <2>4. Parents(Made[n]) \subseteq Standing(k)
      BY <1>1, ParentsStand
    <2>5. Possible(step, db)
      BY <1>0, <2>1, <2>2, <2>3, <2>4 DEF Possible, Fits, Refers, Keyed, IndexedBy
    <2>6. Schema(step, Level(k - 1))
            = [m \in Standing(k - 1) \cup {n} |-> IF m = n THEN Made[n] ELSE Level(k - 1)[m]]
      BY <1>0, <2>1 DEF Schema
    <2>7. Schema(step, Level(k - 1)) = Level(k)
      BY <1>0, <2>3, <2>6 DEF Level
    <2> QED BY <2>1, <2>5, <2>7
  <1>2. ASSUME NEW n \in DOMAIN GrownAt, GrownAt[n] = k, step = AddColumn(n, Gained[n], TRUE)
        PROVE  /\ Possible(step, db) /\ Schema(step, Level(k - 1)) = Level(k)
               /\ step.op # "drop"
    <2>1. step.op = "add column" /\ step.name = n /\ step.column = Gained[n] /\ step.null = TRUE
      BY <1>2 DEF AddColumn
    <2>2. /\ Standing(k) = Standing(k - 1) /\ n \in Standing(k - 1)
          /\ Form(n, k - 1) = Made[n]
          /\ Form(n, k) = [Made[n] EXCEPT !.optional = @ \cup {Gained[n]}]
          /\ \A m \in Standing(k - 1) \ {n} : Form(m, k) = Form(m, k - 1)
      BY <1>2, AtGrowth
    <2>3. Possible(step, db)
      BY <1>0, <2>1, <2>2, GainIsNew DEF Possible
    <2>4. Schema(step, Level(k - 1)) = [Level(k - 1) EXCEPT ![n].optional = @ \cup {Gained[n]}]
      BY <2>1 DEF Schema
    <2>5. Schema(step, Level(k - 1)) = Level(k)
      BY <1>0, <2>2, <2>4 DEF Level
    <2> QED BY <2>1, <2>3, <2>5
  <1> QED BY <1>1, <1>2 DEF Forward

\* Its downgrade is possible where k have run, and leaves what k - 1 leave.
LEMMA StepDown ==
  ASSUME NEW k \in 1..26, NEW step, Backward(k, step), NEW db, db.schema = Level(k)
  PROVE  /\ Possible(step, db) /\ Schema(step, Level(k)) = Level(k - 1)
         /\ IF step.op = "drop" THEN Standing(k - 1) = Standing(k) \ {step.name}
                                ELSE Standing(k - 1) = Standing(k)
  <1>0. DOMAIN Level(k) = Standing(k) /\ \A m \in Standing(k) : Level(k)[m] = Form(m, k)
    BY DEF Level
  <1>1. ASSUME NEW n \in DOMAIN BornAt, NEW indexes \in SUBSET IndexNames(Made[n]), BornAt[n] = k,
               step = Drop(n, indexes)
        PROVE  /\ Possible(step, db) /\ Schema(step, Level(k)) = Level(k - 1)
               /\ step.op = "drop" /\ Standing(k - 1) = Standing(k) \ {step.name}
    <2>1. step.op = "drop" /\ step.name = n /\ step.indexes = indexes
      BY <1>1 DEF Drop
    <2>2. /\ Standing(k) = Standing(k - 1) \cup {n} /\ n \notin Standing(k - 1)
          /\ Form(n, k) = Made[n]
          /\ \A m \in Standing(k - 1) : Form(m, k) = Form(m, k - 1)
      BY <1>1, AtBirth
    <2>3. ASSUME NEW m \in Standing(k) \ {n} PROVE n \notin Parents(Form(m, k))
      <3>1. m \in DOMAIN BornAt /\ BornAt[m] \in Int /\ BornAt[m] <= k /\ BornAt[m] # k
        BY <1>1, BornIs DEF Standing
      <3>2. Parents(Form(m, k)) \subseteq Standing(BornAt[m])
        BY <3>1, ParentsStand
      <3> QED BY <1>1, <3>1, <3>2 DEF Standing
    <2>4. Possible(step, db)
      BY <1>0, <2>1, <2>2, <2>3 DEF Possible
    <2>5. Schema(step, Level(k)) = [m \in Standing(k) \ {n} |-> Level(k)[m]]
      BY <1>0, <2>1 DEF Schema
    <2>6. Schema(step, Level(k)) = Level(k - 1)
      BY <1>0, <2>2, <2>5 DEF Level
    <2> QED BY <2>1, <2>2, <2>4, <2>6
  <1>2. ASSUME NEW n \in DOMAIN GrownAt, GrownAt[n] = k, step = DropColumn(n, Gained[n])
        PROVE  /\ Possible(step, db) /\ Schema(step, Level(k)) = Level(k - 1)
               /\ step.op # "drop" /\ Standing(k - 1) = Standing(k)
    <2>1. step.op = "drop column" /\ step.name = n /\ step.column = Gained[n]
      BY <1>2 DEF DropColumn
    <2>2. /\ Standing(k) = Standing(k - 1) /\ n \in Standing(k - 1)
          /\ Form(n, k - 1) = Made[n]
          /\ Form(n, k) = [Made[n] EXCEPT !.optional = @ \cup {Gained[n]}]
          /\ \A m \in Standing(k - 1) \ {n} : Form(m, k) = Form(m, k - 1)
      BY <1>2, AtGrowth
    <2>3. IsTable(Made[n]) /\ Gained[n] \notin Columns(Made[n])
      BY <2>2, AllFit, GainIsNew DEF Fits, Standing
    <2>4. /\ [Form(n, k) EXCEPT !.optional = @ \ {Gained[n]}, !.needed = @ \ {Gained[n]}]
               = Form(n, k - 1)
          /\ Gained[n] \in Columns(Form(n, k))
      <3> DEFINE t == Made[n]
                 g == Gained[n]
      <3>1. /\ [[t EXCEPT !.optional = @ \cup {g}]
                 EXCEPT !.optional = @ \ {g}, !.needed = @ \ {g}] = t
            /\ Columns([t EXCEPT !.optional = @ \cup {g}]) = Columns(t) \cup {g}
        BY <2>3, Recast
      <3> QED BY <2>2, <3>1
    <2>5. Possible(step, db)
      BY <1>0, <2>1, <2>2, <2>4 DEF Possible
    <2>6. Schema(step, Level(k)) = [Level(k) EXCEPT ![n].optional = @ \ {Gained[n]},
                                                    ![n].needed = @ \ {Gained[n]}]
      BY <2>1 DEF Schema
    <2>7. Schema(step, Level(k))
            = [Level(k) EXCEPT ![n] = [Form(n, k) EXCEPT !.optional = @ \ {Gained[n]},
                                                         !.needed = @ \ {Gained[n]}]]
      BY <1>0, <2>2, <2>6
    <2>8. Schema(step, Level(k)) = Level(k - 1)
      BY <1>0, <2>2, <2>4, <2>7 DEF Level
    <2> QED BY <2>1, <2>2, <2>5, <2>8
  <1> QED BY <1>1, <1>2 DEF Backward

----------------------------------------------------------------------------
(* A whole command.                                                        *)

\* What a statement that is possible leaves.
LEMMA Executed ==
  ASSUME NEW s, NEW f, NEW step, NEW db, db = [schema |-> s, filled |-> f, ok |-> TRUE],
         Possible(step, db)
  PROVE  Execute(step, db) = [schema |-> Schema(step, s),
                              filled |-> IF step.op = "drop" THEN f \ {step.name} ELSE f,
                              ok |-> TRUE]
  <1> DEFINE r == Schema(step, s)
             g == IF step.op = "drop" THEN f \ {step.name} ELSE f
             F == {"schema", "filled", "ok"}
             a == [db EXCEPT !.schema = r, !.filled = g]
             b == [schema |-> r, filled |-> g, ok |-> TRUE]
  <1>1. db.schema = s /\ db.filled = f /\ db.ok = TRUE
    OBVIOUS
  <1>2. Execute(step, db) = a
    BY <1>1 DEF Execute
  <1> HIDE DEF r, g
  <1>3. a = [n \in F |-> a[n]] /\ b = [n \in F |-> b[n]]
    OBVIOUS
  <1>4. a.schema = b.schema /\ a.filled = b.filled /\ a.ok = b.ok
    OBVIOUS
  <1> HIDE DEF a, b
  <1>5. \A n \in F : a[n] = b[n]
    BY <1>4
  <1>6. [n \in F |-> a[n]] = [n \in F |-> b[n]]
    BY <1>5
  <1>7. Execute(step, db) = b
    BY <1>2, <1>3, <1>6
  <1> QED BY <1>7 DEF b, r, g

\* The database between two statements, with rows in some of the tables.
StandsAt(db, k) == \E f \in SUBSET (Watched \cap Standing(k)) :
               db = [schema |-> Level(k), filled |-> f, ok |-> TRUE]

\* One statement after another along a path, from the tables at one height.
LEMMA StatementRises ==
  ASSUME NEW k \in 1..26, NEW step, Forward(k, step),
         NEW f \in SUBSET (Watched \cap Standing(k - 1)), NEW db,
         db = [schema |-> Level(k - 1), filled |-> f, ok |-> TRUE]
  PROVE  StandsAt(Execute(step, db), k)
  <1>1. db.schema = Level(k - 1)
    OBVIOUS
  <1>2. Possible(step, db) /\ Schema(step, Level(k - 1)) = Level(k) /\ step.op # "drop"
    BY <1>1, StepUp
  <1>3. Execute(step, db) = [schema |-> Level(k), filled |-> f, ok |-> TRUE]
    BY <1>2, Executed
  <1>4. Standing(k - 1) \subseteq Standing(k)
    BY BornIs DEF Standing
  <1> QED BY <1>3, <1>4 DEF StandsAt

\* And back.
LEMMA StatementFalls ==
  ASSUME NEW k \in 1..26, NEW step, Backward(k, step),
         NEW f \in SUBSET (Watched \cap Standing(k)), NEW db,
         db = [schema |-> Level(k), filled |-> f, ok |-> TRUE]
  PROVE  StandsAt(Execute(step, db), k - 1)
  <1> DEFINE g == IF step.op = "drop" THEN f \ {step.name} ELSE f
  <1>1. db.schema = Level(k)
    OBVIOUS
  <1>2. /\ Possible(step, db) /\ Schema(step, Level(k)) = Level(k - 1)
        /\ IF step.op = "drop" THEN Standing(k - 1) = Standing(k) \ {step.name}
                               ELSE Standing(k - 1) = Standing(k)
    BY <1>1, StepDown
  <1>3. Execute(step, db) = [schema |-> Level(k - 1), filled |-> g, ok |-> TRUE]
    BY <1>2, Executed
  <1>4. g \in SUBSET (Watched \cap Standing(k - 1))
    BY <1>2
  <1> QED BY <1>3, <1>4 DEF StandsAt

\* The transaction of a command takes the tables of its first revision to those
\* of its last, whatever rows they hold.
LEMMA CommandArrives ==
  ASSUME NEW from \in 0..8, NEW to \in 0..8, from # to, StandsAt(Database, Height(from))
  PROVE  StandsAt(After(from, to), Height(to))
  <1> DEFINE seq == Statements(from, to)
             a == Height(from)
             b == Height(to)
  <1>1. a \in 0..26 /\ b \in 0..26
    BY HeightsRise
  <1>2. CASE from < to
    <2> DEFINE n == b - a
    <2>1. Climbs(seq, a, b) /\ a <= b
      BY <1>2, UpgradeClimbs
    <2> HIDE DEF seq, a, b
    <2>2. n \in Nat /\ DOMAIN seq = 1..n
      <3> HIDE DEF Steps
      <3> QED BY <1>1, <2>1 DEF Climbs
    <2> HIDE DEF n
    <2>3. PICK run : /\ run[0] = Database
                     /\ \A j \in 1..n : run[j] = Execute(seq[j], run[j - 1])
                     /\ Outcome(Database, seq) = run[n]
      BY <2>2, FoldRuns
    <2> DEFINE Good == {j \in Nat : j <= n => StandsAt(run[j], a + j)}
    <2>4. 0 \in Good
      <3>1. a + 0 = a
        BY <1>1
      <3>2. StandsAt(run[0], a)
        BY <2>3 DEF a
      <3> QED BY <3>1, <3>2
    <2>5. ASSUME NEW j \in Nat, j \in Good PROVE j + 1 \in Good
      <3> SUFFICES ASSUME j + 1 <= n PROVE StandsAt(run[j + 1], a + (j + 1))
        OBVIOUS
      <3>0. StandsAt(run[j], a + j)
        BY <2>2, <2>5
      <3>1. PICK f \in SUBSET (Watched \cap Standing(a + j)) :
              run[j] = [schema |-> Level(a + j), filled |-> f, ok |-> TRUE]
        BY <3>0 DEF StandsAt
      <3>2. /\ j + 1 \in 1..n /\ (j + 1) - 1 = j
            /\ a + (j + 1) \in 1..26 /\ (a + (j + 1)) - 1 = a + j
        BY <1>1, <2>2 DEF n
      <3>3. Forward(a + (j + 1), seq[j + 1])
        BY <2>1, <3>2 DEF Climbs, n
      <3>4. run[j + 1] = Execute(seq[j + 1], run[j])
        BY <2>3, <3>2
      <3> DEFINE k == a + (j + 1)
      <3>5. k \in 1..26 /\ k - 1 = a + j /\ Forward(k, seq[j + 1])
        BY <3>2, <3>3
      <3> HIDE DEF k
      <3>6. /\ f \in SUBSET (Watched \cap Standing(k - 1))
            /\ run[j] = [schema |-> Level(k - 1), filled |-> f, ok |-> TRUE]
        BY <3>1, <3>5
      <3>7. StandsAt(Execute(seq[j + 1], run[j]), k)
        BY <3>5, <3>6, StatementRises
      <3> QED BY <3>4, <3>7 DEF k
    <2>6. StandsAt(run[n], b)
      <3>1. Nat \subseteq Good
        <4> HIDE DEF Good
        <4> QED BY <2>4, <2>5, EveryNatural
      <3> QED BY <1>1, <2>2, <3>1 DEF n
    <2> QED BY <2>3, <2>6, AfterIs DEF seq, b
  <1>3. CASE to < from
    <2> DEFINE n == a - b
    <2>1. Descends(seq, a, b) /\ b <= a
      BY <1>3, DowngradeDescends
    <2> HIDE DEF seq, a, b
    <2>2. n \in Nat /\ DOMAIN seq = 1..n
      <3> HIDE DEF Steps
      <3> QED BY <1>1, <2>1 DEF Descends
    <2> HIDE DEF n
    <2>3. PICK run : /\ run[0] = Database
                     /\ \A j \in 1..n : run[j] = Execute(seq[j], run[j - 1])
                     /\ Outcome(Database, seq) = run[n]
      BY <2>2, FoldRuns
    <2> DEFINE Good == {j \in Nat : j <= n => StandsAt(run[j], a - j)}
    <2>4. 0 \in Good
      <3>1. a - 0 = a
        BY <1>1
      <3>2. StandsAt(run[0], a)
        BY <2>3 DEF a
      <3> QED BY <3>1, <3>2
    <2>5. ASSUME NEW j \in Nat, j \in Good PROVE j + 1 \in Good
      <3> SUFFICES ASSUME j + 1 <= n PROVE StandsAt(run[j + 1], a - (j + 1))
        OBVIOUS
      <3>0. StandsAt(run[j], a - j)
        BY <2>2, <2>5
      <3>1. PICK f \in SUBSET (Watched \cap Standing(a - j)) :
              run[j] = [schema |-> Level(a - j), filled |-> f, ok |-> TRUE]
        BY <3>0 DEF StandsAt
      <3>2. /\ j + 1 \in 1..n /\ a - j \in 1..26 /\ (a - j) - 1 = a - (j + 1) /\ (j + 1) - 1 = j
            /\ a + 1 - (j + 1) = a - j
        BY <1>1, <2>2 DEF n
      <3>3. Backward(a - j, seq[j + 1])
        BY <2>1, <3>2 DEF Descends, n
      <3>4. run[j + 1] = Execute(seq[j + 1], run[j])
        BY <2>3, <3>2
      <3> DEFINE k == a - j
      <3>5. k \in 1..26 /\ k - 1 = a - (j + 1) /\ Backward(k, seq[j + 1])
        BY <3>2, <3>3
      <3>6. run[j] = [schema |-> Level(k), filled |-> f, ok |-> TRUE]
        BY <3>1
      <3> HIDE DEF k
      <3>7. StandsAt(Execute(seq[j + 1], run[j]), k - 1)
        BY <3>1, <3>5, <3>6, StatementFalls DEF k
      <3> QED BY <3>4, <3>5, <3>7
    <2>6. StandsAt(run[n], b)
      <3>1. Nat \subseteq Good
        <4> HIDE DEF Good
        <4> QED BY <2>4, <2>5, EveryNatural
      <3> QED BY <1>1, <2>2, <3>1 DEF n
    <2> QED BY <2>3, <2>6, AfterIs DEF seq, b
  <1> QED BY <1>2, <1>3

----------------------------------------------------------------------------
(* The specification.                                                      *)

\* Whatever ran, failed a race or was cut off, the tables are those the chain
\* makes up to the revision the version row names.
MigrationInv ==
  /\ revision \in 0..8 /\ schema = Level(Height(revision))
  /\ broken = FALSE
  /\ filled \in SUBSET (Watched \cap Standing(Height(revision)))
  /\ command \in [Migrators -> [busy : BOOLEAN, from : 0..8, to : 0..8]]
  /\ \A m \in Migrators : command[m].busy => command[m].from # command[m].to

\* The invariant holds of an empty database, at each step, and so always.
LEMMA MigrationInitHolds == MigrationInit => MigrationInv
  <1> SUFFICES ASSUME MigrationInit PROVE MigrationInv
    OBVIOUS
  <1>1. Height(0) = 0 /\ Standing(0) = {}
    BY HeightsRise, BornIs DEF Standing
  <1>2. schema = Level(Height(revision))
    BY <1>1 DEF MigrationInit, Level
  <1>3. command \in [Migrators -> [busy : BOOLEAN, from : 0..8, to : 0..8]]
    BY DEF MigrationInit, Resting
  <1> QED BY <1>2, <1>3 DEF MigrationInit, MigrationInv, Resting

\* What a committed command leaves.
LEMMA CommitArrives ==
  ASSUME MigrationInv, NEW m \in Migrators, CommitMigration(m)
  PROVE  /\ schema' = Level(Height(command[m].to)) /\ revision' = command[m].to
         /\ filled' \in SUBSET (Watched \cap Standing(Height(command[m].to)))
         /\ broken' = FALSE /\ command' = [command EXCEPT ![m] = Resting]
         /\ command[m].from = revision /\ command[m].to \in 0..8
  <1> DEFINE from == command[m].from
             to == command[m].to
             done == After(from, to)
  <1>1. /\ from \in 0..8 /\ to \in 0..8 /\ from # to /\ from = revision /\ broken = FALSE
        /\ command' = [command EXCEPT ![m] = Resting]
        /\ IF done.ok
           THEN schema' = done.schema /\ filled' = done.filled /\ revision' = to /\ broken' = broken
           ELSE broken' = TRUE /\ UNCHANGED <<schema, filled, revision>>
    BY DEF MigrationInv, CommitMigration
  <1>2. StandsAt(Database, Height(from))
    BY <1>1 DEF MigrationInv, StandsAt, Database
  <1> HIDE DEF from, to
  <1>3. StandsAt(done, Height(to))
    BY <1>1, <1>2, CommandArrives
  <1> HIDE DEF done
  <1>4. PICK f \in SUBSET (Watched \cap Standing(Height(to))) :
          done = [schema |-> Level(Height(to)), filled |-> f, ok |-> TRUE]
    BY <1>3 DEF StandsAt
  <1>5. done.ok /\ done.schema = Level(Height(to)) /\ done.filled = f
    BY <1>4
  <1> QED BY <1>1, <1>5 DEF from, to

LEMMA MigrationStepHolds == MigrationInv /\ [MigrationNext]_migrationVars => MigrationInv'
  <1> SUFFICES ASSUME MigrationInv, [MigrationNext]_migrationVars PROVE MigrationInv'
    OBVIOUS
  <1>0. Resting \in [busy : BOOLEAN, from : 0..8, to : 0..8] /\ Resting.busy = FALSE
    BY DEF Resting
  <1>1. ASSUME NEW m \in Migrators, BeginMigration(m) PROVE MigrationInv'
    <2>1. PICK target \in Targets :
            /\ target # revision
            /\ command' = [command EXCEPT ![m] = [busy |-> TRUE, from |-> revision, to |-> target]]
            /\ UNCHANGED <<schema, revision, filled, broken>>
      BY <1>1 DEF BeginMigration
    <2>2. target \in 0..8
      BY MigrationBounds, ChainLength
    <2> QED BY <2>1, <2>2 DEF MigrationInv
  <1>2. ASSUME NEW m \in Migrators, CommitMigration(m) PROVE MigrationInv'
    <2>1. /\ schema' = Level(Height(command[m].to)) /\ revision' = command[m].to
          /\ filled' \in SUBSET (Watched \cap Standing(Height(command[m].to)))
          /\ broken' = FALSE /\ command' = [command EXCEPT ![m] = Resting]
          /\ command[m].to \in 0..8
      BY <1>2, CommitArrives
    <2>2. schema' = Level(Height(revision')) /\ revision' \in 0..8
          /\ filled' \in SUBSET (Watched \cap Standing(Height(revision')))
      BY <2>1
    <2>3. /\ command' \in [Migrators -> [busy : BOOLEAN, from : 0..8, to : 0..8]]
          /\ \A n \in Migrators : command'[n].busy => command'[n].from # command'[n].to
      BY <1>0, <2>1 DEF MigrationInv
    <2> QED BY <2>1, <2>2, <2>3 DEF MigrationInv, Level, Standing, Form
  <1>3. ASSUME NEW m \in Migrators, AbortMigration(m) PROVE MigrationInv'
    BY <1>0, <1>3 DEF AbortMigration, MigrationInv
  <1>4. ASSUME NEW name \in Watched, FillTable(name) PROVE MigrationInv'
    <2>1. DOMAIN schema = Standing(Height(revision))
      BY DEF MigrationInv, Level
    <2> QED BY <1>4, <2>1 DEF FillTable, MigrationInv
  <1>5. CASE UNCHANGED migrationVars
    BY <1>5 DEF MigrationInv, migrationVars
  <1> QED BY <1>1, <1>2, <1>3, <1>4, <1>5 DEF MigrationNext

LEMMA MigrationInvHolds == MigrationSpec => []MigrationInv
  BY MigrationInitHolds, MigrationStepHolds, PTL DEF MigrationSpec

(***************************************************************************)
(* The tables are always some of those the models declare, the revision is *)
(* one of the chain and only tables that stand hold rows.                  *)
(***************************************************************************)
THEOREM SchemaTypeCorrect == MigrationSpec => []MigrationTypeOK
  <1>1. MigrationInv => MigrationTypeOK
    <2> SUFFICES ASSUME MigrationInv PROVE MigrationTypeOK
      OBVIOUS
    <2>1. DOMAIN schema = Standing(Height(revision))
      BY DEF MigrationInv, Level
    <2>2. Standing(Height(revision)) \subseteq DOMAIN Declared
      BY BornIs DEF Standing
    <2>3. /\ broken \in BOOLEAN /\ revision \in 0..LastRevision
          /\ filled \subseteq Watched \cap DOMAIN schema
      BY <2>1, ChainLength DEF MigrationInv
    <2> QED BY <2>1, <2>2, <2>3 DEF MigrationTypeOK
  <1> QED BY <1>1, MigrationInvHolds, PTL

(***************************************************************************)
(* However many processes migrate, wherever they are stopped and whatever  *)
(* rows the tables hold, no migration of the chain ever fails; and at its  *)
(* head every table is the one its model declares (migrations/versions     *)
(* against domain/models).                                                 *)
(***************************************************************************)
THEOREM HeadAlwaysServes == MigrationSpec => []HeadServesModels
  <1>1. MigrationInv => HeadServesModels
    <2> SUFFICES ASSUME MigrationInv PROVE HeadServesModels
      OBVIOUS
    <2>1. ~broken
      BY DEF MigrationInv
    <2>2. ASSUME revision = LastRevision
          PROVE  /\ DOMAIN schema = DOMAIN Declared
                 /\ \A name \in DOMAIN schema : Serves(schema[name], Declared[name])
      <3>1. schema = Level(26)
        BY <2>2, ChainLength, HeightsRise DEF MigrationInv
      <3>2. DOMAIN schema = DOMAIN Declared
        BY <3>1, BornIs DEF Level, Standing
      <3>3. \A name \in DOMAIN schema : schema[name] = Form(name, 26)
        BY <3>1 DEF Level
      <3> QED BY <3>2, <3>3, AllServe
    <2> QED BY <2>1, <2>2 DEF HeadServesModels
  <1> QED BY <1>1, MigrationInvHolds, PTL

\* A table at a later height gives what it gave at an earlier one.
LEMMA FormsGrow ==
  ASSUME NEW a \in 0..26, NEW b \in 0..26, a <= b, NEW n \in Standing(a)
  PROVE  n \in Standing(b) /\ StillServes(Form(n, b), Form(n, a))
  <1>1. n \in DOMAIN BornAt /\ n \in Standing(b)
    BY BornIs DEF Standing
  <1>2. PICK names : Fits(Made[n], BornAt[n], names)
    BY <1>1, AllFit
  <1>3. IsTable(Made[n]) /\ \A ref \in Made[n].refs : ref[1] \in Columns(Made[n])
    BY <1>2 DEF Fits, Refers
  <1>4. CASE Form(n, a) = Form(n, b)
    <2> \A t : StillServes(t, t)
      BY DEF StillServes
    <2> QED BY <1>1, <1>4
  <1>5. CASE Form(n, a) # Form(n, b)
    <2>1. /\ n \in DOMAIN GrownAt /\ Form(n, a) = Made[n]
          /\ Form(n, b) = [Made[n] EXCEPT !.optional = @ \cup {Gained[n]}]
      BY <1>5, BornIs DEF Form
    <2> DEFINE t == Made[n]
               g == Gained[n]
    <2>2. g \notin Columns(t)
      BY <2>1, GainIsNew
    <2> HIDE DEF t, g
    <2>3. StillServes([t EXCEPT !.optional = @ \cup {g}], t)
      BY <1>3, <2>2 DEF StillServes, IsTable, Table, Columns, t
    <2>4. Form(n, a) = t /\ Form(n, b) = [t EXCEPT !.optional = @ \cup {g}]
      BY <2>1 DEF t, g
    <2> QED BY <1>1, <2>3, <2>4
  <1> QED BY <1>4, <1>5

(***************************************************************************)
(* An upgrade, over however many revisions, takes no table, column or      *)
(* default from a release that is still running and asks nothing more of   *)
(* its rows (migrations/versions, as alembic upgrade runs them).           *)
(***************************************************************************)
THEOREM UpgradesAdd == MigrationSpec => UpgradesOnlyAdd
  <1> DEFINE Adds == revision' > revision =>
                       \A name \in DOMAIN schema :
                         name \in DOMAIN schema' /\ StillServes(schema'[name], schema[name])
  <1>1. MigrationInv /\ [MigrationNext]_migrationVars => [Adds]_migrationVars
    <2> SUFFICES ASSUME MigrationInv, [MigrationNext]_migrationVars, revision' > revision,
                        NEW name \in DOMAIN schema
                 PROVE  name \in DOMAIN schema' /\ StillServes(schema'[name], schema[name])
      OBVIOUS
    <2>1. PICK m \in Migrators : CommitMigration(m)
      BY DEF MigrationNext, BeginMigration, AbortMigration, FillTable, migrationVars, MigrationInv
    <2> DEFINE to == command[m].to
               a == Height(revision)
               b == Height(to)
    <2>2. /\ schema' = Level(b) /\ revision' = to /\ to \in 0..8
          /\ schema = Level(a) /\ revision \in 0..8
      BY <2>1, CommitArrives DEF MigrationInv
    <2> HIDE DEF to
    <2>3. a \in 0..26 /\ b \in 0..26 /\ a <= b
      BY <2>2, HeightsRise, UpgradeClimbs
    <2> HIDE DEF a, b
    <2>4. /\ DOMAIN schema = Standing(a) /\ schema[name] = Form(name, a)
          /\ DOMAIN schema' = Standing(b) /\ \A n \in Standing(b) : schema'[n] = Form(n, b)
      BY <2>2 DEF Level
    <2> QED BY <2>3, <2>4, FormsGrow
  <1> QED BY <1>1, MigrationInvHolds, PTL DEF MigrationSpec, UpgradesOnlyAdd
=============================================================================
