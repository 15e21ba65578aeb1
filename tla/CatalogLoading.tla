---------------------------- MODULE CatalogLoading ---------------------------
(***************************************************************************)
(* A directory of dataset files and the database they are loaded into      *)
(* (dataset/snapshot.py, ingestion/cli.py, catalog.py, sales.py).  A       *)
(* writer replaces the files one at a time.  A loader reads and validates  *)
(* them, then brings table after table in line inside one transaction:     *)
(* it reads a table, writes the columns that differ from what it read, and *)
(* the commit lays its writes over the rows as they are by then.           *)
(***************************************************************************)
EXTENDS DatasetRules

CONSTANTS Loaders,      \* processes that ingest
          Generated,    \* datasets a generator writes
          Directories,  \* what the directory may hold at first
          Overlong,     \* texts longer than their columns
          Largest,      \* the largest number a column holds
          MaxLoads, MaxWrites

\* A list of rows, and a file: there is text in every cell of a text column.
IsList(rows) == rows \in Seq(RowsIn(rows))

FileFits(t, file) ==
  file # NoFile =>
    /\ IsList(file.rows)
    /\ \A row \in RowsIn(file.rows) : \A c \in TextColumns[t] \cap file.header : row[c] # None

ASSUME DirectoriesAssumption ==
  \A d \in Directories : DOMAIN d = Tables /\ \A t \in Tables : FileFits(t, d[t])
ASSUME GeneratedAssumption == \A dataset \in Generated : \A t \in Tables : IsList(dataset[t])
ASSUME LoadingBounds == MaxLoads \in Nat /\ MaxWrites \in Nat

VARIABLES files,        \* the directory, by table
          writer,       \* the dataset being written and how many files are
          tables,       \* the committed tables: rows by key
          serial,       \* the products' next id
          turn,         \* per loader: 0 at rest, then the table at hand, last the commit
          payload,      \* per loader: the dataset it loads
          copy,         \* per loader: the table at hand as it was read
          pending,      \* per loader: what its transaction wrote, by table
          report,       \* per loader: the counts of the run
          ended,        \* per loader: how its last load ended
          disturbed,    \* per loader: another load was committed meanwhile
          loads, writes

loaderVars == <<turn, payload, copy, pending, report, ended, disturbed, loads>>
loadingVars == <<files, writer, tables, serial, loaderVars, writes>>

SyncOrder == <<"categories", "stores", "suppliers", "products", "supplier_products",
               "daily_sales">>
Stored == {SyncOrder[i] : i \in DOMAIN SyncOrder}
CommitTurn == Len(SyncOrder) + 1

NotRead == None
NoDataset == << >>
NoWriter == [dataset |-> NoDataset, done |-> 0]
Catalog == INSTANCE DomainTables
NoRows == << >>
Untouched == [t \in Stored |-> NoRows]
Nothing == [created |-> {}, updated |-> {}, rejected |-> {}, duplicates |-> 0]

-----------------------------------------------------------------------------
(* The directory.                                                          *)

StartWriting(dataset) ==
  /\ writer.dataset = NoDataset /\ writes < MaxWrites
  /\ ValidateDataset(dataset) = {}
  /\ writer' = [dataset |-> dataset, done |-> 0]
  /\ writes' = writes + 1
  /\ UNCHANGED <<files, tables, serial, loaderVars>>

\* The next file is replaced; after the last only the manifest is left.
WriteFile ==
  LET t == TableOrder[writer.done + 1]
      next == writer.done + 1
  IN  /\ writer.dataset # NoDataset
      /\ files' = [files EXCEPT ![t] = FileOf(t, writer.dataset[t])]
      /\ writer' = IF next = Len(TableOrder) THEN NoWriter ELSE [writer EXCEPT !.done = next]
      /\ UNCHANGED <<tables, serial, loaderVars, writes>>

\* The writer dies with a file half written: it is empty, which is read as if it
\* were not there, or its header and some rows are there.
CutWriting ==
  LET t == TableOrder[writer.done + 1]
      file == FileOf(t, writer.dataset[t])
  IN  /\ writer.dataset # NoDataset
      /\ \E cut \in {NoFile} \cup {[file EXCEPT !.rows = SubSeq(@, 1, n)] : n \in 0..Len(file.rows)} :
           files' = [files EXCEPT ![t] = cut]
      /\ writer' = NoWriter
      /\ UNCHANGED <<tables, serial, loaderVars, writes>>

-----------------------------------------------------------------------------
(* What a session sees and what it may write.                              *)

\* The columns of both, the changed ones as they were changed; and so for rows.
Onto(changed, before) ==
  [c \in DOMAIN changed \cup DOMAIN before |->
     IF c \in DOMAIN changed THEN changed[c] ELSE before[c]]

Overlaid(rows, changes) ==
  Onto([k \in DOMAIN changes |->
          IF k \in DOMAIN rows THEN Onto(changes[k], rows[k]) ELSE changes[k]], rows)

View(l, t) == Overlaid(tables[t], pending[l][t])
KeysSeen(l, t) == {k[1] : k \in DOMAIN View(l, t)}

At(l) == SyncOrder[turn[l]]
Rows(l) == payload[l][At(l)]

\* The codes a row refers to and the tables they are looked up in.
References(t) ==
  CASE t = "categories"        -> {<<"parent_code", "categories">>}
    [] t = "products"          -> {<<"category_code", "categories">>}
    [] t = "supplier_products" -> {<<"supplier_code", "suppliers">>, <<"product_sku", "products">>}
    [] t = "daily_sales"       -> {<<"store_code", "stores">>, <<"product_sku", "products">>}
    [] OTHER -> {}

\* Mutant: what is looked up must be stored already.
ResolvesStored(l, t, row) ==
  \A ref \in References(t) : row[ref[1]] \in {None} \cup KeysSeen(l, ref[2])

\* A new category may be the parent of another of the same file.
Resolves(l, t, row) ==
  \A ref \in References(t) :
    row[ref[1]] \in {None} \cup KeysSeen(l, ref[2])
                    \cup (IF t = "categories" THEN Values("code", Rows(l)) ELSE {})

\* Mutant: a value that is not there is not assigned: a category whose file
\* names no parent keeps the one it had.
ToWriteGiven(l, row) ==
  LET k == Key(At(l), row) IN
    IF k \in DOMAIN copy[l] /\ At(l) # "daily_sales"
    THEN [c \in {d \in DOMAIN row : row[d] # None /\ row[d] # copy[l][k][d]} |-> row[c]]
    ELSE row

\* The columns to write for one row: all of a new one, those that differ of
\* one that was read; a sale's are written as they come.
ToWrite(l, row) ==
  LET k == Key(At(l), row) IN
    IF k \in DOMAIN copy[l] /\ At(l) # "daily_sales"
    THEN [c \in {d \in DOMAIN row : row[d] # copy[l][k][d]} |-> row[c]]
    ELSE row

\* Of all that a session writes at once, updates go first and in the order of
\* their ids: a barcode is free once its holder has given it up.
BarcodeTaken(l, changes) ==
  LET seen == View(l, "products") IN
  \E k \in DOMAIN changes :
    /\ "ean" \in DOMAIN changes[k] /\ changes[k].ean # None
    /\ \E held \in DOMAIN seen \ {k} :
         /\ seen[held].ean = changes[k].ean
         /\ \/ held \notin DOMAIN changes \/ "ean" \notin DOMAIN changes[held]
            \/ k \in DOMAIN seen /\ seen[held].id > seen[k].id

\* A key that was not there when the table was read, or is new twice.
KeyTaken(l, changes) ==
  \/ \E k \in DOMAIN changes \ DOMAIN copy[l] : k \in DOMAIN tables[At(l)]
  \/ \E i, j \in DOMAIN Rows(l) :
       /\ i # j /\ Key(At(l), Rows(l)[i]) = Key(At(l), Rows(l)[j])
       /\ Key(At(l), Rows(l)[i]) \notin DOMAIN copy[l]

\* Some value of a row that its column does not hold.
Oversized(t, row) ==
  \/ \E c \in DOMAIN row \cap (TextColumns[t] \cup OptionalColumns[t]) : row[c] \in Overlong
  \/ \E c \in DOMAIN row \cap (MoneyColumns[t] \cup NumberColumns[t]) : row[c] > Largest

TableFor(t) == Catalog!Declared[IF t = "daily_sales" THEN "sales_records" ELSE t]

\* A value its column does not hold, or a check of the table does not admit.
Inadmissible(l, changes) ==
  \E k \in DOMAIN changes :
    \/ Oversized(At(l), changes[k])
    \/ \E check \in TableFor(At(l)).checks, c \in DOMAIN changes[k] :
         check[1] = c /\ changes[k][c] < (IF check[2] = "positive" THEN 1 ELSE 0)

\* No two transactions hold one row, one new key or one barcode: the second waits.
Contends(l, changes) ==
  \E other \in Loaders \ {l} :
    LET theirs == pending[other][At(l)] IN
    \/ DOMAIN changes \cap DOMAIN theirs # {}
    \/ \E k \in DOMAIN changes, h \in DOMAIN theirs :
         /\ "ean" \in DOMAIN changes[k] /\ "ean" \in DOMAIN theirs[h] /\ changes[k].ean # None
         /\ \/ changes[k].ean = theirs[h].ean
            \/ h \in DOMAIN tables.products /\ changes[k].ean = tables.products[h].ean

\* What the table at hand gets: one set of columns for each key with a change.
\* New products take the next ids in the order of the file.
Changes(l) ==
  LET t == At(l)
      good == {i \in DOMAIN Rows(l) : Resolves(l, t, Rows(l)[i])}
      row(k) == Rows(l)[CHOOSE i \in good : Key(t, Rows(l)[i]) = k]
      place(k) == CHOOSE i \in good : Key(t, Rows(l)[i]) = k
      born(k) == t = "products" /\ k \notin DOMAIN copy[l]
      differing(k) == ToWrite(l, row(k))
  IN  [k \in {j \in {Key(t, Rows(l)[i]) : i \in good} : DOMAIN differing(j) # {}} |->
         IF born(k) THEN Onto(differing(k), [id |-> serial + place(k)]) ELSE differing(k)]

-----------------------------------------------------------------------------
(* A load.                                                                 *)

Rest(l, how) ==
  /\ turn' = [turn EXCEPT ![l] = 0]
  /\ payload' = [payload EXCEPT ![l] = NoDataset]
  /\ copy' = [copy EXCEPT ![l] = NotRead]
  /\ pending' = [pending EXCEPT ![l] = Untouched]
  /\ report' = [report EXCEPT ![l] = Nothing]
  /\ ended' = [ended EXCEPT ![l] = how]

\* The files are read and validated before the transaction begins.
BeginLoad(l) ==
  /\ turn[l] = 0 /\ loads < MaxLoads
  /\ loads' = loads + 1
  /\ IF LoadIssues(files) # {} \/ ValidateDataset(LoadDataset(files)) # {}
     THEN /\ ended' = [ended EXCEPT ![l] = "invalid"]
          /\ UNCHANGED <<turn, payload, disturbed>>
     ELSE /\ ended' = [ended EXCEPT ![l] = "under way"]
          /\ turn' = [turn EXCEPT ![l] = 1]
          /\ payload' = [payload EXCEPT ![l] = LoadDataset(files)]
          /\ disturbed' = [disturbed EXCEPT ![l] = FALSE]
  /\ UNCHANGED <<files, writer, tables, serial, copy, pending, report, writes>>

ReadTable(l) ==
  /\ turn[l] \in DOMAIN SyncOrder /\ copy[l] = NotRead
  /\ copy' = [copy EXCEPT ![l] = View(l, At(l))]
  /\ UNCHANGED <<files, writer, tables, serial, turn, payload, pending, report, ended,
                 disturbed, loads, writes>>

\* What is written goes to the database at the end of the table.
SyncTable(l) ==
  LET t == At(l)
      changes == Changes(l)
      known == {k \in DOMAIN changes : k \in DOMAIN copy[l]}
      bad == {row \in RowsIn(Rows(l)) : ~Resolves(l, t, row)}
      sales == t = "daily_sales"
  IN  /\ turn[l] \in DOMAIN SyncOrder /\ copy[l] # NotRead
      /\ IF ~sales /\ bad # {}
         THEN Rest(l, "refused") /\ serial' = serial
         ELSE /\ ~Contends(l, changes)
              /\ IF \/ ~sales /\ KeyTaken(l, changes)
                    \/ Inadmissible(l, changes) \/ BarcodeTaken(l, changes)
                 THEN Rest(l, "refused") /\ serial' = serial
                 ELSE /\ pending' = [pending EXCEPT ![l][t] = changes]
                      /\ report' = [report EXCEPT
                           ![l].created = @ \cup {<<t, k>> : k \in DOMAIN changes \ known},
                           ![l].updated = @ \cup {<<t, k>> : k \in known},
                           ![l].rejected = IF sales THEN bad ELSE @,
                           ![l].duplicates = IF sales THEN Cardinality(known) ELSE @]
                      /\ copy' = [copy EXCEPT ![l] = NotRead]
                      /\ turn' = [turn EXCEPT ![l] = @ + 1]
                      /\ serial' = IF t = "products" THEN serial + Len(Rows(l)) ELSE serial
                      /\ UNCHANGED <<payload, ended>>
      /\ UNCHANGED <<files, writer, tables, disturbed, loads, writes>>

CommitLoad(l) ==
  /\ turn[l] = CommitTurn
  /\ tables' = [t \in Stored |-> Overlaid(tables[t], pending[l][t])]
  /\ disturbed' = [other \in Loaders |-> disturbed[other] \/ (other # l /\ turn[other] # 0)]
  /\ Rest(l, "loaded")
  /\ UNCHANGED <<files, writer, serial, loads, writes>>

\* The process dies, the connection breaks or the database ends a deadlock.
AbandonLoad(l) ==
  /\ turn[l] # 0
  /\ Rest(l, "abandoned")
  /\ UNCHANGED <<files, writer, tables, serial, disturbed, loads, writes>>

LoadingInit ==
  /\ files \in Directories
  /\ writer = NoWriter
  /\ tables = Untouched
  /\ serial = 0
  /\ turn = [l \in Loaders |-> 0]
  /\ payload = [l \in Loaders |-> NoDataset]
  /\ copy = [l \in Loaders |-> NotRead]
  /\ pending = [l \in Loaders |-> Untouched]
  /\ report = [l \in Loaders |-> Nothing]
  /\ ended = [l \in Loaders |-> "never"]
  /\ disturbed = [l \in Loaders |-> FALSE]
  /\ loads = 0 /\ writes = 0

LoaderStep(l) ==
  BeginLoad(l) \/ ReadTable(l) \/ SyncTable(l) \/ CommitLoad(l) \/ AbandonLoad(l)

LoadingNext ==
  \/ \E dataset \in Generated : StartWriting(dataset)
  \/ WriteFile \/ CutWriting
  \/ \E l \in Loaders : LoaderStep(l)

LoadingSpec == LoadingInit /\ [][LoadingNext]_loadingVars
-----------------------------------------------------------------------------
(***************************************************************************)
(* Type invariant: a loader at rest holds nothing, one at work holds a     *)
(* validated dataset, and every stored row has all columns of its table.   *)
(***************************************************************************)
LoadingTypeOK ==
  /\ DOMAIN files = Tables
  /\ writer # NoWriter => /\ writer.dataset \in Generated
                           /\ writer.done \in 0..(Len(TableOrder) - 1)
  /\ DOMAIN tables = Stored
  /\ \A t \in Stored : \A k \in DOMAIN tables[t] : ColumnsOf(t) \subseteq DOMAIN tables[t][k]
  /\ serial \in Nat /\ loads \in 0..MaxLoads /\ writes \in 0..MaxWrites
  /\ turn \in [Loaders -> 0..CommitTurn] /\ disturbed \in [Loaders -> BOOLEAN]
  /\ ended \in [Loaders -> {"never", "under way", "invalid", "refused", "abandoned", "loaded"}]
  /\ \A l \in Loaders :
       /\ IF turn[l] = 0
          THEN payload[l] = NoDataset /\ pending[l] = Untouched /\ report[l] = Nothing
          ELSE ValidateDataset(payload[l]) = {} /\ ended[l] = "under way"
       /\ turn[l] \in {0, CommitTurn} => copy[l] = NotRead
       /\ \A t \in Stored : pending[l][t] # NoRows => turn[l] > CHOOSE i \in DOMAIN SyncOrder : SyncOrder[i] = t

\* Sets of categories that lead only to one another: a cycle with what hangs on it.
Loops(rows) ==
  LET codes == {k[1] : k \in DOMAIN rows}
      Closed(loop) == \A code \in loop : rows[<<code>>].parent_code \in loop
  IN  {loop \in (SUBSET codes) \ {{}} : Closed(loop)}

\* What an undisturbed load should leave of a table.
InLine(before, after, t, rows) ==
  /\ DOMAIN after = DOMAIN before \cup Keys(t, rows)
  /\ \A k \in DOMAIN before \ Keys(t, rows) : after[k] = before[k]
  /\ \A row \in RowsIn(rows) : \A c \in ColumnsOf(t) : after[Key(t, row)][c] = row[c]

(***************************************************************************)
(* LoadTellsTables: "ingestion is safe to re-run against a database that   *)
(* already has data" (ADR-003).  A load that no other overlapped leaves    *)
(* the rows of its files as they are there and every other row alone, and  *)
(* closes no cycle of categories, which no constraint rules out, whatever  *)
(* parents the categories had before; its report names exactly the rows    *)
(* that are new and those that changed, so a second load reports none, and *)
(* no sale of validated files is rejected.                                 *)
(***************************************************************************)
LoadTellsTables ==
  [][\A l \in Loaders :
       turn[l] = CommitTurn /\ ended'[l] = "loaded" /\ ~disturbed[l] =>
         /\ \A t \in Stored : InLine(tables[t], tables'[t], t, payload[l][t])
         /\ Loops(tables'.categories) \subseteq Loops(tables.categories)
         /\ report[l].rejected = {}
         /\ report[l].duplicates =
              Cardinality(DOMAIN tables.daily_sales \cap Keys("daily_sales", payload[l].daily_sales))
         /\ \A t \in Stored \ {"daily_sales"} : \A k \in DOMAIN tables'[t] :
              /\ <<t, k>> \in report[l].created <=> k \notin DOMAIN tables[t]
              /\ <<t, k>> \in report[l].updated <=>
                   k \in DOMAIN tables[t] /\ tables'[t][k] # tables[t][k]
    ]_loadingVars

(***************************************************************************)
(* OnlyKnownRefusals: the checks of a dataset cover the constraints of the *)
(* tables.  Files that pass them, whatever mixture of two datasets a dead  *)
(* writer left, are refused by an undisturbed database for two reasons     *)
(* only: a value exceeds its column, or a barcode moves between products.  *)
(***************************************************************************)
OnlyKnownRefusals ==
  [][\A l \in Loaders :
       turn[l] # 0 /\ ended'[l] = "refused" /\ ~disturbed[l] =>
         \/ \E t \in Stored : \E row \in RowsIn(payload[l][t]) : Oversized(t, row)
         \/ \E row \in RowsIn(payload[l].products), k \in DOMAIN tables.products :
              row.ean # None /\ k # <<row.sku>> /\ tables.products[k].ean = row.ean
    ]_loadingVars
=============================================================================
