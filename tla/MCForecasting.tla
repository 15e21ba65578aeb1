---------------------------- MODULE MCForecasting ----------------------------
(* Evaluations and trainings for TLC.  The two share no state, so behaviours  *)
(* in which only one of them moves are all there is to check.                 *)
EXTENDS ForecastEvaluation, ModelRegistry

CONSTANTS p1, p2, p3, s1, s2

Sold(store, p, d, u) == [store |-> store, product |-> p, day |-> d, units |-> u]

Drinks == {p1, p2}
Filing(products) == [p \in products |-> IF p \in Drinks THEN "drinks" ELSE "dairy"]
Listing(products, categories) ==
  [stores |-> {"north"}, categories |-> categories, filed |-> Filing(products)]

\* A full history with a category that sells nothing, one that starts and ends
\* in the middle of a week, a short one, and a catalog without a sale.
Full == {Sold("north", p, d, (d + (IF p = p2 THEN 1 ELSE 0)) % 3) :
           p \in {p1, p2, p3}, d \in 0..9}
Ragged == {Sold("north", p, d, d % 2) : p \in {p1, p3}, d \in 1..8}
            \ {Sold("north", p3, 5, 1)}
Short == {Sold("north", p1, d, 1) : d \in 2..7}

Database(rows, listing) == [sales |-> rows, catalog |-> listing]

InitialDatabasesDef ==
  {Database(Full, Listing({p1, p2, p3}, {"drinks", "dairy", "food"})),
   Database(Ragged, Listing({p1, p3}, {"drinks", "dairy"})),
   Database(Short, Listing({p1}, {"drinks"})),
   Database({}, Listing({p1}, {"drinks"}))}

\* Corrections and new days of sales known before; a sale of a new store; of a
\* product that is new, or is filed elsewhere from now on.
BatchesDef ==
  {[row |-> Sold("north", p1, d, u), category |-> "drinks"] : d \in {0, 4, 9}, u \in {0, 3}}
    \cup {[row |-> Sold("south", p1, d, 3), category |-> "drinks"] : d \in {4, 9}}
    \cup {[row |-> Sold("north", p2, 4, 3), category |-> "food"],
           [row |-> Sold("north", p3, 7, 3), category |-> "drinks"],
           [row |-> Sold("south", p3, 0, 3), category |-> "food"]}

\* The two builders agree where they cover the same, and without a sale the
\* file-backed one is a panel of zeros over its calendar.
ASSUME BuildersAgree ==
  \A db \in InitialDatabasesDef :
    LET file == FilePanel(db.sales, db.catalog, 1..6)
        base == DatabasePanel(db.sales, db.catalog.filed, db.catalog, Span(db.sales))
    IN  /\ db.sales # {} => \A c \in DOMAIN file : file[c] = base[c]
        /\ db.sales = {} => file = [c \in {<<"north", "drinks">>} |-> [w \in CompleteWeeks(1, 6) |-> 0]]

\* Four weeks of one category: rising, seasonal, and without any demand.
Weekly(f) == [c \in {"drinks"} |-> f]
PanelsDef == {Weekly(<<1, 2, 3, 4>>), Weekly(<<2, 0, 2, 1>>), Weekly(<<0, 0, 0, 0>>)}

OutputDef == [s \in {s1, s2} |-> s]

Init == EvaluationInit /\ RegistryInit
Next ==
  \/ started = 0 /\ EvaluationNext /\ UNCHANGED registryVars
  \/ ingests = 0 /\ evaluations = 0 /\ sales = {}
       /\ RegistryNext /\ UNCHANGED evaluationVars
Spec == Init /\ [][Next]_<<evaluationVars, registryVars>>

ForecastTypeOK == EvaluationTypeOK /\ RegistryTypeOK

=============================================================================
