------------------------ MODULE ReconciliationProofs -------------------------
(***************************************************************************)
(* Reconciliation for any documents the tables' constraints allow, any     *)
(* tolerances and any number of sessions, edits and runs: the versions of  *)
(* a scope, what a request is answered with, and what the exceptions of a  *)
(* run say - wider tolerances are quieter, a clean run means agreement,    *)
(* and the impacts add up.                                                 *)
(***************************************************************************)
EXTENDS ReconciliationRuns, SumLemmas, TLAPS

\* What VersionsTell needs to be inductive: a session about to decide holds a
\* run that is still in the table and of the scope it reconciles.
Numbered == \A r \in runs : r.version \in Nat
LatestKnown == latest \in [Sessions -> SUBSET runs]
LatestOfScope ==
  \A s \in Sessions : pc[s] = "deciding" =>
    \A r \in latest[s] : r.scope = ScopeKey(found[s], ask[s])
Total(f) == f = [s \in Sessions |-> f[s]]
VersionsInv ==
  /\ Total(pc) /\ Total(found) /\ Total(ask)
  /\ Numbered /\ LatestKnown /\ LatestOfScope /\ VersionsTell

\* What a decision to store rests on: the version follows the one the session
\* read, whose inputs were different.
LEMMA NextVersionFollows ==
  ASSUME VersionsInv, NEW s \in Sessions, pc[s] = "deciding", Reusable(s) = {}
  PROVE  /\ NextVersion(s) \in Nat
         /\ \/ NextVersion(s) = 1
            \/ \E q \in runs :
                 /\ q.scope = ScopeKey(found[s], ask[s])
                 /\ q.version = NextVersion(s) - 1
                 /\ q.fingerprint # Fingerprint(Selected(s), ask[s].tolerances)
<1>1. CASE latest[s] = {}
  BY <1>1 DEF NextVersion
<1>2. CASE latest[s] # {}
  <2>1. PICK l : l = CHOOSE r \in latest[s] : TRUE
    OBVIOUS
  <2>2. l \in latest[s]
    BY <1>2, <2>1
  <2>3. l \in runs /\ l.version \in Nat
    BY <2>2 DEF VersionsInv, LatestKnown, Numbered
  <2>4. l.scope = ScopeKey(found[s], ask[s])
    BY <2>2 DEF VersionsInv, LatestOfScope
  <2>5. l.fingerprint # Fingerprint(Selected(s), ask[s].tolerances)
    BY <2>2 DEF Reusable
  <2>6. NextVersion(s) = l.version + 1
    BY <1>2, <2>1 DEF NextVersion
  <2>7. NextVersion(s) \in Nat /\ l.version = NextVersion(s) - 1
    BY <2>3, <2>6
  <2> QED
    BY <2>3, <2>4, <2>5, <2>7
<1> QED
  BY <1>1, <1>2

LEMMA ExceptTotal ==
  ASSUME NEW f, Total(f), NEW s, NEW v
  PROVE  Total([f EXCEPT ![s] = v])
BY DEF Total

LEMMA RunFields ==
  ASSUME NEW s, NEW v
  PROVE  /\ Run(s, v).scope = ScopeKey(found[s], ask[s])
         /\ Run(s, v).version = v
         /\ Run(s, v).fingerprint = Fingerprint(Selected(s), ask[s].tolerances)
BY DEF Run

\* A step that ends a request and leaves the runs alone.
LEMMA EndKeeps ==
  ASSUME VersionsInv, NEW s \in Sessions, NEW result, End(s, result), UNCHANGED runs
  PROVE  VersionsInv'
<1>1. Total(pc') /\ Total(found') /\ Total(ask')
  BY ExceptTotal DEF VersionsInv, End
<1>2. LatestKnown'
  BY DEF VersionsInv, LatestKnown, End
<1>3. ASSUME NEW q \in Sessions, pc'[q] = "deciding"
      PROVE  /\ pc[q] = "deciding" /\ latest'[q] = latest[q]
             /\ found'[q] = found[q] /\ ask'[q] = ask[q]
  BY <1>3 DEF VersionsInv, Total, LatestKnown, End
<1>4. LatestOfScope'
  BY <1>3 DEF VersionsInv, LatestOfScope
<1> QED
  BY <1>1, <1>2, <1>4 DEF VersionsInv, Numbered, VersionsTell

\* A step that reads or asks: the session does not get to decide by it.
LEMMA ReadKeeps ==
  ASSUME VersionsInv, NEW s \in Sessions, NEW p, p # "deciding",
         UNCHANGED <<runs, latest>>, pc' = [pc EXCEPT ![s] = p],
         Total(found'), Total(ask'),
         \A q \in Sessions \ {s} : found'[q] = found[q] /\ ask'[q] = ask[q]
  PROVE  VersionsInv'
<1>1. Total(pc')
  BY ExceptTotal DEF VersionsInv
<1>2. LatestKnown'
  BY DEF VersionsInv, LatestKnown
<1>3. ASSUME NEW q \in Sessions, pc'[q] = "deciding"
      PROVE  q # s /\ pc[q] = "deciding"
  BY <1>3 DEF VersionsInv, Total
<1>4. LatestOfScope'
  BY <1>3 DEF VersionsInv, LatestOfScope
<1> QED
  BY <1>1, <1>2, <1>4 DEF VersionsInv, Numbered, VersionsTell

LEMMA ReadLatestKeeps ==
  ASSUME VersionsInv, NEW s \in Sessions, ReadLatest(s)
  PROVE  VersionsInv'
<1>1. Total(pc') /\ Total(found') /\ Total(ask')
  BY ExceptTotal DEF VersionsInv, ReadLatest
<1>2. LatestRuns(ScopeKey(found[s], ask[s])) \subseteq runs
  BY DEF LatestRuns
<1>3. LatestKnown'
  BY <1>2 DEF VersionsInv, LatestKnown, ReadLatest
<1>4. ASSUME NEW q \in Sessions, pc'[q] = "deciding", NEW r \in latest'[q]
      PROVE  r.scope = ScopeKey(found'[q], ask'[q])
  <2>1. CASE q = s
    <3>1. latest'[q] = LatestRuns(ScopeKey(found[s], ask[s]))
      BY <2>1 DEF VersionsInv, LatestKnown, ReadLatest
    <3> QED
      BY <2>1, <3>1, <1>4 DEF LatestRuns, ReadLatest
  <2>2. CASE q # s
    <3>1. pc[q] = "deciding" /\ latest'[q] = latest[q]
      BY <2>2, <1>4 DEF VersionsInv, Total, LatestKnown, ReadLatest
    <3> QED
      BY <3>1, <1>4 DEF VersionsInv, LatestOfScope, ReadLatest
  <2> QED
    BY <2>1, <2>2
<1> QED
  BY <1>1, <1>3, <1>4 DEF VersionsInv, LatestOfScope, Numbered, VersionsTell, ReadLatest

LEMMA PersistKeeps ==
  ASSUME VersionsInv, NEW s \in Sessions, Persist(s)
  PROVE  VersionsInv'
<1> DEFINE new == Run(s, NextVersion(s))
<1>1. runs' = runs \cup {new} /\ End(s, {new})
  BY DEF Persist
<1>2. /\ new.scope = ScopeKey(found[s], ask[s]) /\ new.version = NextVersion(s)
      /\ new.fingerprint = Fingerprint(Selected(s), ask[s].tolerances)
  BY RunFields
<1>3. pc[s] = "deciding" /\ Reusable(s) = {} /\ ~Taken(s)
  BY DEF Persist
<1>4. /\ new.version \in Nat
      /\ \/ new.version = 1
         \/ \E q \in runs : /\ q.scope = new.scope /\ q.version = new.version - 1
                            /\ q.fingerprint # new.fingerprint
  BY <1>2, <1>3, NextVersionFollows
<1>5. \A r \in runs : ~(r.scope = new.scope /\ r.version = new.version)
  BY <1>2, <1>3 DEF Taken
<1> HIDE DEF new
<1>6. Numbered'
  BY <1>1, <1>4 DEF VersionsInv, Numbered
<1>7. VersionsTell'
  BY <1>1, <1>4, <1>5 DEF VersionsInv, VersionsTell
<1>8. LatestKnown'
  BY <1>1 DEF VersionsInv, LatestKnown, End
<1>9. ASSUME NEW q \in Sessions, pc'[q] = "deciding"
      PROVE  /\ pc[q] = "deciding" /\ latest'[q] = latest[q]
             /\ found'[q] = found[q] /\ ask'[q] = ask[q]
  BY <1>1, <1>9 DEF VersionsInv, Total, LatestKnown, End
<1>11. LatestOfScope'
  BY <1>9 DEF VersionsInv, LatestOfScope
<1>10. Total(pc') /\ Total(found') /\ Total(ask')
  BY <1>1, ExceptTotal DEF VersionsInv, End
<1> QED
  BY <1>6, <1>7, <1>8, <1>10, <1>11 DEF VersionsInv

LEMMA VersionsHold == Spec => []VersionsInv
<1>1. Init => VersionsInv
  BY DEF Init, VersionsInv, Total, Numbered, LatestKnown, LatestOfScope, VersionsTell
<1>2. VersionsInv /\ [Next]_vars => VersionsInv'
  <2> SUFFICES ASSUME VersionsInv, [Next]_vars PROVE VersionsInv'
    OBVIOUS
  <2>1. CASE UNCHANGED vars
    BY <2>1 DEF vars, VersionsInv, Numbered, LatestKnown, LatestOfScope, VersionsTell
  <2>2. CASE Edit
    BY <2>2 DEF Edit, copies, VersionsInv, Numbered, LatestKnown, LatestOfScope, VersionsTell
  <2>3. ASSUME NEW s \in Sessions, SessionStep(s) PROVE VersionsInv'
    <3>1. ASSUME NEW r \in Requests, Ask(s, r) PROVE VersionsInv'
      <4>1. PICK p : p # "deciding" /\ pc' = [pc EXCEPT ![s] = p]
        BY <3>1 DEF Ask
      <4>2. \A q \in Sessions \ {s} : found'[q] = found[q] /\ ask'[q] = ask[q]
        BY <3>1 DEF Ask, copies, VersionsInv, Total
      <4> QED
        BY <3>1, <4>1, <4>2, ReadKeeps, ExceptTotal DEF Ask, copies, VersionsInv
    <3>2. CASE ReadSeed(s)
      BY <3>2, ReadKeeps, ExceptTotal DEF ReadSeed, VersionsInv
    <3>3. CASE ReadOrder(s)
      <4>1. PICK p : p # "deciding" /\ pc' = [pc EXCEPT ![s] = p]
        BY <3>3 DEF ReadOrder
      <4>2. \A q \in Sessions \ {s} : found'[q] = found[q] /\ ask'[q] = ask[q]
        BY <3>3 DEF ReadOrder, VersionsInv, Total
      <4> QED
        BY <3>3, <4>1, <4>2, ReadKeeps, ExceptTotal DEF ReadOrder, VersionsInv
    <3>4. CASE ReadNamed(s)
      <4>1. \A q \in Sessions \ {s} : found'[q] = found[q] /\ ask'[q] = ask[q]
        BY <3>4 DEF ReadNamed, VersionsInv, Total
      <4> QED
        BY <3>4, <4>1, ReadKeeps, ExceptTotal DEF ReadNamed, VersionsInv
    <3>5. CASE Refuse(s)
      BY <3>5, EndKeeps DEF Refuse
    <3>6. CASE ReadInvoices(s)
      BY <3>6, ReadKeeps, ExceptTotal DEF ReadInvoices, VersionsInv
    <3>7. CASE ReadReceipts(s)
      BY <3>7, ReadKeeps, ExceptTotal DEF ReadReceipts, VersionsInv
    <3>8. CASE ReadCatalog(s)
      BY <3>8, ReadKeeps, ExceptTotal DEF ReadCatalog, VersionsInv
    <3>9. CASE ReadLatest(s)
      BY <3>9, ReadLatestKeeps
    <3>10. CASE Reuse(s)
      BY <3>10, EndKeeps DEF Reuse
    <3>11. CASE Persist(s)
      BY <3>11, PersistKeeps
    <3>12. CASE LoseRace(s)
      BY <3>12, EndKeeps DEF LoseRace
    <3> QED
      BY <2>3, <3>1, <3>2, <3>3, <3>4, <3>5, <3>6, <3>7, <3>8, <3>9, <3>10, <3>11,
         <3>12 DEF SessionStep
  <2> QED
    BY <2>1, <2>2, <2>3 DEF Next
<1> QED
  BY <1>1, <1>2, PTL DEF Spec

\* Whatever the sessions read and whoever gets there first, the versions of a
\* scope are consecutive and unique and each differs in its inputs from the one
\* before.
THEOREM VersionsCorrect == Spec => []VersionsTell
<1>1. VersionsInv => VersionsTell
  BY DEF VersionsInv
<1> QED
  BY <1>1, VersionsHold, PTL

-----------------------------------------------------------------------------
(* Equal fingerprints and equal links make equal exceptions.               *)

SameOrder(o, p) ==
  o.id = p.id /\ o.number = p.number /\ o.currency = p.currency /\ o.lines = p.lines
SameReceipt(r, q) ==
  r.id = q.id /\ r.order = q.order /\ r.number = q.number /\ r.lines = q.lines
SameInvoice(i, j) == SameReceipt(i, j) /\ i.currency = j.currency

\* Every document of one selection has its like in the other.
CoveredBy(a, b) ==
  /\ \A o \in a.orders : \E p \in b.orders : SameOrder(o, p)
  /\ \A r \in a.receipts : \E q \in b.receipts : SameReceipt(r, q)
  /\ \A i \in a.invoices : \E j \in b.invoices : SameInvoice(i, j)

LEMMA BelongsAlike ==
  ASSUME NEW d, NEW e, SameReceipt(d, e), NEW o, NEW p, SameOrder(o, p)
  PROVE  BelongsTo(d, o) <=> BelongsTo(e, p)
  BY DEF BelongsTo, SameReceipt, SameOrder

LEMMA OrderCovered ==
  ASSUME NEW a, NEW b, CoveredBy(a, b), CoveredBy(b, a), NEW o, NEW p, SameOrder(o, p),
         NEW ix, NEW t
  PROVE  EvaluateOrder(o, {r \in a.receipts : BelongsTo(r, o)},
                          {i \in a.invoices : BelongsTo(i, o)}, ix, t)
           = EvaluateOrder(p, {r \in b.receipts : BelongsTo(r, p)},
                              {i \in b.invoices : BelongsTo(i, p)}, ix, t)
  <1> DEFINE ra == {r \in a.receipts : BelongsTo(r, o)}
             rb == {r \in b.receipts : BelongsTo(r, p)}
             ia == {i \in a.invoices : BelongsTo(i, o)}
             ib == {i \in b.invoices : BelongsTo(i, p)}
  <1>1. /\ \A r \in ra : \E q \in rb : r.lines = q.lines
        /\ \A q \in rb : \E r \in ra : r.lines = q.lines
    <2>1. ASSUME NEW r \in ra PROVE \E q \in rb : r.lines = q.lines
      <3>1. PICK q \in b.receipts : SameReceipt(r, q)
        BY DEF CoveredBy
      <3>2. BelongsTo(q, p)
        BY <3>1, BelongsAlike
      <3> QED BY <3>1, <3>2 DEF SameReceipt
    <2>2. ASSUME NEW q \in rb PROVE \E r \in ra : r.lines = q.lines
      <3>1. PICK r \in a.receipts : SameReceipt(q, r)
        BY DEF CoveredBy
      <3>2. BelongsTo(r, o) /\ r.lines = q.lines
        BY <3>1, BelongsAlike DEF SameReceipt, SameOrder
      <3> QED BY <3>2
    <2> QED BY <2>1, <2>2
  <1>2. /\ \A i \in ia : \E j \in ib : SameInvoice(i, j)
        /\ \A j \in ib : \E i \in ia : SameInvoice(i, j)
    <2>1. ASSUME NEW i \in ia PROVE \E j \in ib : SameInvoice(i, j)
      <3>1. PICK j \in b.invoices : SameInvoice(i, j)
        BY DEF CoveredBy
      <3>2. BelongsTo(j, p)
        BY <3>1, BelongsAlike DEF SameInvoice
      <3> QED BY <3>1, <3>2
    <2>2. ASSUME NEW j \in ib PROVE \E i \in ia : SameInvoice(i, j)
      <3>1. PICK i \in a.invoices : SameInvoice(j, i)
        BY DEF CoveredBy
      <3>2. SameInvoice(i, j)
        BY <3>1 DEF SameInvoice, SameReceipt
      <3>3. BelongsTo(i, o)
        BY <3>2, BelongsAlike DEF SameInvoice
      <3> QED BY <3>2, <3>3
    <2> QED BY <2>1, <2>2
  <1> HIDE DEF ra, rb, ia, ib
  <1>3. UNION {r.lines : r \in ra} = UNION {r.lines : r \in rb}
    BY <1>1
  <1>4. UNION {i.lines : i \in ia} = UNION {i.lines : i \in ib}
    BY <1>2 DEF SameInvoice, SameReceipt
  <1>5. \A i, j : SameInvoice(i, j) => CheckCurrency(o, i) = CheckCurrency(p, j)
    BY DEF CheckCurrency, SameInvoice, SameReceipt, SameOrder
  <1>6. UNION {CheckCurrency(o, i) : i \in ia} = UNION {CheckCurrency(p, i) : i \in ib}
    BY <1>2, <1>5
  <1>7. o.lines = p.lines
    BY DEF SameOrder
  <1>8. EvaluateOrder(o, ra, ia, ix, t) = EvaluateOrder(p, rb, ib, ix, t)
    BY <1>3, <1>4, <1>6, <1>7 DEF EvaluateOrder
  <1> QED BY <1>8 DEF ra, rb, ia, ib

LEMMA EvaluateCovered ==
  ASSUME NEW a, NEW b, CoveredBy(a, b), CoveredBy(b, a), NEW ix, NEW t
  PROVE  Evaluate(a, ix, t) = Evaluate(b, ix, t)
  <1> DEFINE Of(x, o) == EvaluateOrder(o, {r \in x.receipts : BelongsTo(r, o)},
                                      {i \in x.invoices : BelongsTo(i, o)}, ix, t)
  <1>1. CASE a.orders = {}
    <2>1. b.orders = {}
      BY <1>1 DEF CoveredBy
    <2>2. \A i, j : SameInvoice(i, j) => UnmatchedOrder(i, t) = UnmatchedOrder(j, t)
      BY DEF UnmatchedOrder, SameInvoice, SameReceipt
    <2>3. \A i, j : SameInvoice(i, j) => SameInvoice(j, i)
      BY DEF SameInvoice, SameReceipt
    <2>4. /\ \A i \in a.invoices : \E j \in b.invoices : UnmatchedOrder(i, t) = UnmatchedOrder(j, t)
          /\ \A j \in b.invoices : \E i \in a.invoices : UnmatchedOrder(i, t) = UnmatchedOrder(j, t)
      BY <2>2, <2>3 DEF CoveredBy
    <2>5. UNION {UnmatchedOrder(i, t) : i \in a.invoices}
            = UNION {UnmatchedOrder(i, t) : i \in b.invoices}
      BY <2>4
    <2> QED BY <1>1, <2>1, <2>5 DEF Evaluate
  <1>2. CASE a.orders # {}
    <2>1. b.orders # {}
      BY <1>2 DEF CoveredBy
    <2>2. \A o, p : SameOrder(o, p) => Of(a, o) = Of(b, p)
      BY OrderCovered
    <2> HIDE DEF Of
    <2>3. /\ \A o \in a.orders : \E p \in b.orders : Of(a, o) = Of(b, p)
          /\ \A p \in b.orders : \E o \in a.orders : Of(a, o) = Of(b, p)
      <3>1. \A p \in b.orders : \E o \in a.orders : SameOrder(o, p)
        BY DEF CoveredBy, SameOrder
      <3> QED BY <2>2, <3>1 DEF CoveredBy
    <2>4. UNION {Of(a, o) : o \in a.orders} = UNION {Of(b, o) : o \in b.orders}
      BY <2>3
    <2> QED BY <1>2, <2>1, <2>4 DEF Evaluate, Of
  <1> QED BY <1>1, <1>2

\* A fingerprint and the links pin down all that the rules read.
LEMMA FingerprintCovers ==
  ASSUME NEW a, NEW b, NEW t, NEW u, Fingerprint(a, t) = Fingerprint(b, u),
         Links(a) = Links(b), UniqueIds(b.receipts), UniqueIds(b.invoices)
  PROVE  t = u /\ CoveredBy(a, b)
  <1>1. /\ {[id |-> o.id, number |-> o.number, currency |-> o.currency,
             lines |-> o.lines] : o \in a.orders}
             = {[id |-> o.id, number |-> o.number, currency |-> o.currency,
                 lines |-> o.lines] : o \in b.orders}
        /\ {[id |-> r.id, lines |-> r.lines] : r \in a.receipts}
             = {[id |-> r.id, lines |-> r.lines] : r \in b.receipts}
        /\ {[id |-> i.id, currency |-> i.currency, lines |-> i.lines] : i \in a.invoices}
             = {[id |-> i.id, currency |-> i.currency, lines |-> i.lines] : i \in b.invoices}
        /\ t = u
    BY DEF Fingerprint
  <1>2. Cited(a.receipts) = Cited(b.receipts) /\ Cited(a.invoices) = Cited(b.invoices)
    BY DEF Links
  <1>3. ASSUME NEW o \in a.orders PROVE \E p \in b.orders : SameOrder(o, p)
    <2>1. PICK p \in b.orders :
            [id |-> o.id, number |-> o.number, currency |-> o.currency, lines |-> o.lines]
              = [id |-> p.id, number |-> p.number, currency |-> p.currency, lines |-> p.lines]
      BY <1>1
    <2> QED BY <2>1 DEF SameOrder
  <1>4. ASSUME NEW r \in a.receipts PROVE \E q \in b.receipts : SameReceipt(r, q)
    <2>1. PICK q \in b.receipts :
            [id |-> r.id, lines |-> r.lines] = [id |-> q.id, lines |-> q.lines]
      BY <1>1
    <2>2. PICK k \in b.receipts : <<r.id, r.order, r.number>> = <<k.id, k.order, k.number>>
      BY <1>2 DEF Cited
    <2>3. q.id = r.id /\ q.lines = r.lines /\ k.id = r.id
      BY <2>1, <2>2
    <2>4. k = q
      BY <2>3 DEF UniqueIds
    <2> QED BY <2>2, <2>3, <2>4 DEF SameReceipt
  <1>5. ASSUME NEW r \in a.invoices PROVE \E q \in b.invoices : SameInvoice(r, q)
    <2>1. PICK q \in b.invoices :
            [id |-> r.id, currency |-> r.currency, lines |-> r.lines]
              = [id |-> q.id, currency |-> q.currency, lines |-> q.lines]
      BY <1>1
    <2>2. PICK k \in b.invoices : <<r.id, r.order, r.number>> = <<k.id, k.order, k.number>>
      BY <1>2 DEF Cited
    <2>3. q.id = r.id /\ q.lines = r.lines /\ k.id = r.id /\ q.currency = r.currency
      BY <2>1, <2>2
    <2>4. k = q
      BY <2>3 DEF UniqueIds
    <2> QED BY <2>2, <2>3, <2>4 DEF SameReceipt, SameInvoice
  <1> QED BY <1>1, <1>3, <1>4, <1>5 DEF CoveredBy

-----------------------------------------------------------------------------
(* What an undisturbed session holds is what the tables say.               *)

\* The seed as the tables have it.
SeedOf(r) ==
  IF r.invoice = None THEN {} ELSE {i \in invoices : i.id = r.invoice /\ Live(i)}

PastSeed == {"order", "named", "invoices", "receipts", "catalog", "latest", "deciding"}
PastOrder == {"invoices", "receipts", "catalog", "latest", "deciding"}
PastInvoices == {"receipts", "catalog", "latest", "deciding"}
PastReceipts == {"catalog", "latest", "deciding"}
PastCatalog == {"latest", "deciding"}

Fresh(s) ==
  /\ pc[s] \in {"seed", "order"} => ask[s].invoice # None
  /\ pc[s] = "named" => ask[s].po # None
  /\ pc[s] = "named" /\ ask[s].invoice = None => found[s] = {}
  /\ pc[s] \in PastSeed => /\ seed[s] = SeedOf(ask[s])
                           /\ ask[s].invoice # None => seed[s] # {}
  /\ pc[s] = "named" => found[s] = {o \in orders : Live(o) /\ \E i \in seed[s] : BelongsTo(i, o)}
  /\ pc[s] \in PastOrder => found[s] = OrdersOf(ask[s]) /\ (ask[s].po # None => found[s] # {})
  /\ pc[s] \in PastInvoices => copy[s].invoices = SelectedNow(ask[s]).invoices
  /\ pc[s] \in PastReceipts => copy[s].receipts = SelectedNow(ask[s]).receipts
  /\ pc[s] \in PastCatalog => catalog[s] = index

\* What any session holds has one row per id.
Distinct(s) ==
  /\ pc[s] = "idle" => seed[s] = {} /\ found[s] = {}
  /\ pc[s] = "seed" => found[s] = {}
  /\ UniqueIds(seed[s])
  /\ UniqueIds(copy[s].receipts) /\ UniqueIds(copy[s].invoices)

KeysHold ==
  /\ UniqueIds(orders) /\ UniqueNumbers(orders)
  /\ UniqueIds(receipts) /\ UniqueIds(invoices)

\* A stored run is the evaluation of what it was stored with.
RunSound(r) ==
  /\ r.fingerprint = Fingerprint(r.records, r.fingerprint.tolerances)
  /\ r.exceptions = Evaluate(r.records, r.index, r.fingerprint.tolerances)
  /\ UniqueIds(r.records.receipts) /\ UniqueIds(r.records.invoices)

Totals ==
  /\ Total(pc) /\ Total(ask) /\ Total(seed) /\ Total(found) /\ Total(copy)
  /\ Total(catalog) /\ Total(latest) /\ Total(answer) /\ Total(disturbed)

AnswerInv ==
  /\ Totals /\ KeysHold
  /\ ask \in [Sessions -> Requests]
  /\ \A s \in Sessions : Distinct(s) /\ (~disturbed[s] => Fresh(s))
  /\ \A r \in runs : RunSound(r)

\* A step of one session leaves the tables and the others' memory alone.
Alone(s) ==
  /\ UNCHANGED tables
  /\ \A q \in Sessions \ {s} :
       /\ pc'[q] = pc[q] /\ ask'[q] = ask[q] /\ seed'[q] = seed[q] /\ found'[q] = found[q]
       /\ copy'[q] = copy[q] /\ catalog'[q] = catalog[q] /\ latest'[q] = latest[q]
       /\ disturbed'[q] = disturbed[q]

LEMMA SelectionStays ==
  ASSUME UNCHANGED tables, NEW r
  PROVE  /\ SeedOf(r)' = SeedOf(r) /\ OrdersOf(r)' = OrdersOf(r)
         /\ SelectedNow(r)' = SelectedNow(r)
  BY DEF tables, SeedOf, OrdersOf, SelectedNow

LEMMA OthersStay ==
  ASSUME AnswerInv, NEW s \in Sessions, Alone(s), NEW q \in Sessions, q # s
  PROVE  Distinct(q)' /\ (~disturbed'[q] => Fresh(q)')
  <1>1. Distinct(q)'
    BY DEF AnswerInv, Distinct, Alone, UniqueIds
  <1>2. ASSUME ~disturbed'[q] PROVE Fresh(q)'
    <2>1. Fresh(q)
      BY <1>2 DEF AnswerInv, Alone
    <2>2. orders' = orders /\ index' = index
      BY DEF Alone, tables
    <2>4. ask'[q] = ask[q]
      BY DEF Alone
    <2>5. /\ SeedOf(ask[q])' = SeedOf(ask[q])
          /\ OrdersOf(ask[q])' = OrdersOf(ask[q])
      BY <2>4 DEF Alone, tables, SeedOf, OrdersOf
    <2>3. SelectedNow(ask[q])' = SelectedNow(ask[q])
      BY <2>4, <2>5 DEF Alone, tables, SelectedNow
    <2> QED BY <2>1, <2>2, <2>3, <2>4, <2>5 DEF Alone, Fresh
  <1> QED BY <1>1, <1>2

\* Every step of a session but storing a run leaves the runs alone and asks for
\* this much of the session itself.
LEMMA SessionKeeps ==
  ASSUME AnswerInv, NEW s \in Sessions, Alone(s), Totals', ask' \in [Sessions -> Requests],
         Distinct(s)', ~disturbed'[s] => Fresh(s)', \A r \in runs' : RunSound(r)
  PROVE  AnswerInv'
  <1>1. KeysHold'
    BY DEF Alone, tables, AnswerInv, KeysHold, UniqueIds, UniqueNumbers
  <1>2. \A q \in Sessions : Distinct(q)' /\ (~disturbed'[q] => Fresh(q)')
    BY OthersStay
  <1>3. \A r \in runs' : RunSound(r)'
    BY DEF RunSound, UniqueIds
  <1> QED BY <1>1, <1>2, <1>3 DEF AnswerInv

LEMMA AskAnswers ==
  ASSUME AnswerInv, NEW s \in Sessions, NEW r \in Requests, Ask(s, r)
  PROVE  AnswerInv'
  <1>1. Alone(s) /\ runs' = runs
    BY DEF AnswerInv, Totals, Total, Alone, Ask, copies, tables
  <1>2. Totals'
    BY ExceptTotal DEF AnswerInv, Totals, Ask, copies
  <1>3. ask' \in [Sessions -> Requests] /\ ask'[s] = r
    BY DEF AnswerInv, Ask
  <1>4. /\ pc[s] = "idle" /\ pc'[s] = IF r.invoice = None THEN "named" ELSE "seed"
        /\ seed'[s] = seed[s] /\ found'[s] = found[s] /\ copy'[s] = copy[s]
        /\ orders' = orders
    BY DEF AnswerInv, Totals, Total, Ask, copies, tables
  <1>5. seed[s] = {} /\ found[s] = {}
    BY <1>4 DEF AnswerInv, Distinct
  <1>6. Distinct(s)'
    BY <1>4, <1>5 DEF AnswerInv, Distinct, UniqueIds
  <1>7. r.invoice = None => r.po # None
    BY RequestsAssumption
  <1>8. Fresh(s)'
    BY <1>3, <1>4, <1>5, <1>7
    DEF Fresh, SeedOf, PastSeed, PastOrder, PastInvoices, PastReceipts, PastCatalog
  <1> QED BY <1>1, <1>2, <1>3, <1>6, <1>8, SessionKeeps DEF AnswerInv

LEMMA ReadSeedAnswers ==
  ASSUME AnswerInv, NEW s \in Sessions, ReadSeed(s)
  PROVE  AnswerInv'
  <1>1. Alone(s) /\ runs' = runs
    BY DEF AnswerInv, Totals, Total, Alone, ReadSeed, tables
  <1>2. Totals'
    BY ExceptTotal DEF AnswerInv, Totals, ReadSeed
  <1>3. ask' = ask /\ disturbed' = disturbed /\ invoices' = invoices
    BY DEF ReadSeed, tables
  <1>4. /\ pc[s] = "seed" /\ pc'[s] = "order" /\ seed'[s] = SeedHits(s) /\ SeedHits(s) # {}
        /\ found'[s] = found[s] /\ copy'[s] = copy[s]
    BY DEF AnswerInv, Totals, Total, ReadSeed
  <1>5. UniqueIds(SeedHits(s))
    BY DEF AnswerInv, KeysHold, UniqueIds, SeedHits
  <1>6. Distinct(s)'
    BY <1>4, <1>5 DEF AnswerInv, Distinct, UniqueIds
  <1>7. ASSUME ~disturbed'[s] PROVE Fresh(s)'
    <2>1. ask[s].invoice # None
      BY <1>3, <1>4, <1>7 DEF AnswerInv, Fresh
    <2>2. SeedOf(ask[s])' = SeedHits(s)
      BY <1>3, <2>1 DEF SeedOf, SeedHits
    <2> QED BY <1>3, <1>4, <2>1, <2>2
        DEF Fresh, PastSeed, PastOrder, PastInvoices, PastReceipts, PastCatalog
  <1> QED BY <1>1, <1>2, <1>3, <1>6, <1>7, SessionKeeps DEF AnswerInv

\* What the seed leads to is the order the tables give for it.
LEMMA OrderOfSeed ==
  ASSUME KeysHold, NEW r \in Requests, r.po = None, r.invoice # None,
         SeedOf(r) # {}
  PROVE  {o \in orders : Live(o) /\ \E i \in SeedOf(r) : BelongsTo(i, o)} = OrdersOf(r)
  <1>1. PICK j \in SeedOf(r) : TRUE
    OBVIOUS
  <1>2. j \in invoices /\ j.id = r.invoice /\ Live(j)
    BY <1>1 DEF SeedOf
  <1>3. \A i \in invoices : i.id = r.invoice => i = j
    BY <1>2 DEF KeysHold, UniqueIds
  <1>4. SeedOf(r) = {j}
    BY <1>2, <1>3 DEF SeedOf
  <1>5. OrdersOf(r) = {o \in orders : Live(o) /\ \E i \in invoices :
                                        i.id = r.invoice /\ BelongsTo(i, o)}
    BY DEF OrdersOf
  <1>6. \A o : (\E i \in invoices : i.id = r.invoice /\ BelongsTo(i, o)) <=> BelongsTo(j, o)
    BY <1>2, <1>3
  <1> QED BY <1>4, <1>5, <1>6

LEMMA ReadOrderAnswers ==
  ASSUME AnswerInv, NEW s \in Sessions, ReadOrder(s)
  PROVE  AnswerInv'
  <1> DEFINE led == {o \in orders : Live(o) /\ \E i \in seed[s] : BelongsTo(i, o)}
  <1>1. Alone(s) /\ runs' = runs
    BY DEF AnswerInv, Totals, Total, Alone, ReadOrder, tables
  <1>2. Totals'
    BY ExceptTotal DEF AnswerInv, Totals, ReadOrder
  <1>3. ask' = ask /\ disturbed' = disturbed /\ orders' = orders /\ seed' = seed /\ UNCHANGED tables
    BY DEF ReadOrder, tables
  <1>4. /\ pc[s] = "order" /\ found'[s] = led
        /\ pc'[s] = IF ask[s].po = None THEN "invoices" ELSE "named"
        /\ copy'[s] = copy[s]
    BY DEF AnswerInv, Totals, Total, ReadOrder
  <1>6. Distinct(s)'
    BY <1>3, <1>4 DEF AnswerInv, Distinct, UniqueIds
  <1>7. ASSUME ~disturbed'[s] PROVE Fresh(s)'
    <2>1. ask[s].invoice # None /\ seed[s] = SeedOf(ask[s]) /\ seed[s] # {}
      BY <1>3, <1>4, <1>7 DEF AnswerInv, Fresh, PastSeed
    <2>2. SeedOf(ask[s])' = SeedOf(ask[s])
      BY <1>3 DEF SeedOf, tables
    <2>3. ask[s] \in Requests /\ KeysHold
      BY DEF AnswerInv
    <2>4. ask[s].po = None => led = OrdersOf(ask[s])
      BY <2>1, <2>3, OrderOfSeed
    <2>5. OrdersOf(ask[s])' = OrdersOf(ask[s])
      BY <1>3 DEF OrdersOf, tables
    <2>6. led' = led
      BY <1>3
    <2> HIDE DEF led
    <2>7. CASE ask[s].po = None
      BY <1>3, <1>4, <2>1, <2>2, <2>4, <2>5, <2>7
      DEF Fresh, PastSeed, PastOrder, PastInvoices, PastReceipts, PastCatalog
    <2>8. CASE ask[s].po # None
      <3>1. found'[s] = {o \in orders' : Live(o) /\ \E i \in seed'[s] : BelongsTo(i, o)}
        BY <1>3, <1>4 DEF led
      <3> QED BY <1>3, <1>4, <2>1, <2>2, <2>8, <3>1
          DEF Fresh, PastSeed, PastOrder, PastInvoices, PastReceipts, PastCatalog
    <2> QED BY <2>7, <2>8
  <1> QED BY <1>1, <1>2, <1>3, <1>6, <1>7, SessionKeeps DEF AnswerInv

\* The order asked for by number is the one the tables have under it.
LEMMA NamedIsOrder ==
  ASSUME AnswerInv, NEW s \in Sessions, pc[s] = "named", Fresh(s), NamedHits(s) # {}
  PROVE  NamedHits(s) = OrdersOf(ask[s])
  <1> DEFINE named == {o \in orders : o.number = ask[s].po}
  <1>1. OrdersOf(ask[s]) = named
    BY DEF Fresh, OrdersOf
  <1>2. \A n, m \in named : n = m
    BY DEF AnswerInv, KeysHold, UniqueNumbers
  <1>3. found[s] \subseteq orders
    BY DEF Fresh
  <1>4. PICK h : h \in NamedHits(s)
    OBVIOUS
  <1>5. CASE found[s] = {}
    <2>1. NamedHits(s) = {o \in named : Live(o)}
      BY <1>5 DEF NamedHits
    <2> QED BY <1>1, <1>2, <1>4, <2>1
  <1>6. CASE found[s] # {}
    <2>1. NamedHits(s) = {o \in found[s] : o.id \in {n.id : n \in named}}
      BY <1>6 DEF NamedHits
    <2>2. \A o \in NamedHits(s) : o \in named
      <3> TAKE o \in NamedHits(s)
      <3>1. PICK n \in named : o.id = n.id
        BY <2>1
      <3>2. o \in orders
        BY <1>3, <2>1
      <3> QED BY <3>1, <3>2 DEF AnswerInv, KeysHold, UniqueIds
    <2> QED BY <1>1, <1>2, <1>4, <2>2
  <1> QED BY <1>5, <1>6

LEMMA ReadNamedAnswers ==
  ASSUME AnswerInv, NEW s \in Sessions, ReadNamed(s)
  PROVE  AnswerInv'
  <1>1. Alone(s) /\ runs' = runs
    BY DEF AnswerInv, Totals, Total, Alone, ReadNamed, tables
  <1>2. Totals'
    BY ExceptTotal DEF AnswerInv, Totals, ReadNamed
  <1>3. ask' = ask /\ disturbed' = disturbed /\ seed' = seed /\ UNCHANGED tables
    BY DEF ReadNamed, tables
  <1>4. /\ pc[s] = "named" /\ found'[s] = NamedHits(s) /\ NamedHits(s) # {}
        /\ pc'[s] = "invoices" /\ copy'[s] = copy[s]
    BY DEF AnswerInv, Totals, Total, ReadNamed
  <1>6. Distinct(s)'
    BY <1>3, <1>4 DEF AnswerInv, Distinct, UniqueIds
  <1>7. ASSUME ~disturbed'[s] PROVE Fresh(s)'
    <2>1. Fresh(s)
      BY <1>3, <1>7 DEF AnswerInv
    <2>2. NamedHits(s) = OrdersOf(ask[s])
      BY <1>4, <2>1, NamedIsOrder
    <2>3. SeedOf(ask[s])' = SeedOf(ask[s]) /\ OrdersOf(ask[s])' = OrdersOf(ask[s])
      BY <1>3 DEF SeedOf, OrdersOf, tables
    <2> QED BY <1>3, <1>4, <2>1, <2>2, <2>3
        DEF Fresh, PastSeed, PastOrder, PastInvoices, PastReceipts, PastCatalog
  <1> QED BY <1>1, <1>2, <1>3, <1>6, <1>7, SessionKeeps DEF AnswerInv

\* Live rows citing one of the orders, in the words of load_scope.
LEMMA CitingAny ==
  ASSUME NEW them, NEW table
  PROVE  (UNION {Citing(table, o) : o \in them})
           = {d \in table : Live(d) /\ \E o \in them : d.order = o.id \/ d.number = o.number}
  BY DEF Citing

LEMMA InvoicesAreNow ==
  ASSUME KeysHold, NEW r \in Requests, NEW s \in Sessions,
         seed[s] = SeedOf(r), found[s] = OrdersOf(r),
         r.invoice # None => seed[s] # {}, r.po # None => found[s] # {}
  PROVE  InvoicesFor(found[s], seed[s], invoices) = SelectedNow(r).invoices
  <1> DEFINE rows == {i \in invoices : Live(i) /\ \E o \in found[s] : i.order = o.id \/ i.number = o.number}
  <1>1. CASE found[s] = {}
    <2>1. r.invoice # None
      BY <1>1, RequestsAssumption
    <2>2. SelectedNow(r).invoices = {i \in invoices : Live(i) /\ i.id = r.invoice}
      BY <1>1 DEF SelectedNow
    <2>3. SeedOf(r) = {i \in invoices : Live(i) /\ i.id = r.invoice}
      BY <2>1 DEF SeedOf
    <2> QED BY <1>1, <2>2, <2>3 DEF InvoicesFor
  <1>2. CASE found[s] # {}
    <2>1. SelectedNow(r).invoices = rows
      BY <1>2 DEF SelectedNow
    <2>2. InvoicesFor(found[s], seed[s], invoices)
            = {i \in rows : i.id \notin {k.id : k \in seed[s]}}
                \cup {i \in seed[s] : i.id \in {k.id : k \in rows}}
      BY <1>2, CitingAny DEF InvoicesFor
    <2>3. seed[s] \subseteq invoices
      BY DEF SeedOf
    <2>4. \A i \in seed[s], k \in rows : i.id = k.id => i = k
      BY <2>3 DEF KeysHold, UniqueIds
    <2> HIDE DEF rows
    <2>5. {i \in rows : i.id \notin {k.id : k \in seed[s]}}
                \cup {i \in seed[s] : i.id \in {k.id : k \in rows}} = rows
      BY <2>4
    <2> QED BY <2>1, <2>2, <2>5
  <1> QED BY <1>1, <1>2

LEMMA InvoicesDistinct ==
  ASSUME NEW them, NEW first, UniqueIds(first), UniqueIds(invoices)
  PROVE  UniqueIds(InvoicesFor(them, first, invoices))
  <1> DEFINE rows == UNION {Citing(invoices, o) : o \in them}
  <1>1. rows \subseteq invoices
    BY DEF Citing
  <1>2. CASE them = {}
    BY <1>2 DEF InvoicesFor
  <1>3. CASE them # {}
    <2>1. InvoicesFor(them, first, invoices)
            = {i \in rows : i.id \notin {k.id : k \in first}}
                \cup {i \in first : i.id \in {k.id : k \in rows}}
      BY <1>3 DEF InvoicesFor
    <2> HIDE DEF rows
    <2> QED BY <1>1, <2>1 DEF UniqueIds
  <1> QED BY <1>2, <1>3

LEMMA ReadInvoicesAnswers ==
  ASSUME AnswerInv, NEW s \in Sessions, ReadInvoices(s)
  PROVE  AnswerInv'
  <1>1. Alone(s) /\ runs' = runs
    BY DEF AnswerInv, Totals, Total, Alone, ReadInvoices, tables
  <1>2. Totals'
    BY ExceptTotal DEF AnswerInv, Totals, ReadInvoices
  <1>3. ask' = ask /\ disturbed' = disturbed /\ seed' = seed /\ found' = found /\ UNCHANGED tables
    BY DEF ReadInvoices, tables
  <1>4. /\ pc[s] = "invoices" /\ pc'[s] = "receipts"
        /\ copy'[s].invoices = InvoicesFor(found[s], seed[s], invoices)
        /\ copy'[s].receipts = {}
    BY DEF AnswerInv, Totals, Total, ReadInvoices
  <1>5. UniqueIds(InvoicesFor(found[s], seed[s], invoices))
    BY InvoicesDistinct DEF AnswerInv, Distinct, KeysHold
  <1>6. Distinct(s)'
    BY <1>3, <1>4, <1>5 DEF AnswerInv, Distinct, UniqueIds
  <1>7. ASSUME ~disturbed'[s] PROVE Fresh(s)'
    <2>1. Fresh(s)
      BY <1>3, <1>7 DEF AnswerInv
    <2>2. InvoicesFor(found[s], seed[s], invoices) = SelectedNow(ask[s]).invoices
      <3>1. KeysHold /\ ask[s] \in Requests
        BY DEF AnswerInv
      <3>2. /\ seed[s] = SeedOf(ask[s]) /\ found[s] = OrdersOf(ask[s])
            /\ ask[s].invoice # None => seed[s] # {}
            /\ ask[s].po # None => found[s] # {}
        BY <1>4, <2>1 DEF Fresh, PastSeed, PastOrder
      <3> QED BY <3>1, <3>2, InvoicesAreNow
    <2>3. SeedOf(ask[s])' = SeedOf(ask[s]) /\ OrdersOf(ask[s])' = OrdersOf(ask[s])
      BY <1>3 DEF SeedOf, OrdersOf, tables
    <2>4. SelectedNow(ask[s])' = SelectedNow(ask[s])
      BY <1>3, <2>3 DEF SelectedNow, tables
    <2> QED BY <1>3, <1>4, <2>1, <2>2, <2>3, <2>4
        DEF Fresh, PastSeed, PastOrder, PastInvoices, PastReceipts, PastCatalog
  <1> QED BY <1>1, <1>2, <1>3, <1>6, <1>7, SessionKeeps DEF AnswerInv

LEMMA ReadReceiptsAnswers ==
  ASSUME AnswerInv, NEW s \in Sessions, ReadReceipts(s)
  PROVE  AnswerInv'
  <1>1. Alone(s) /\ runs' = runs
    BY DEF AnswerInv, Totals, Total, Alone, ReadReceipts, tables
  <1>2. Totals'
    BY ExceptTotal DEF AnswerInv, Totals, ReadReceipts
  <1>3. ask' = ask /\ disturbed' = disturbed /\ seed' = seed /\ found' = found /\ UNCHANGED tables
    BY DEF ReadReceipts, tables
  <1>4. /\ pc[s] = "receipts" /\ pc'[s] = "catalog"
        /\ copy'[s].invoices = copy[s].invoices
        /\ copy'[s].receipts = ReceiptsFor(found[s], receipts)
    BY DEF AnswerInv, Totals, Total, ReadReceipts
  <1>5. UniqueIds(ReceiptsFor(found[s], receipts))
    <2>1. ReceiptsFor(found[s], receipts) \subseteq receipts
      BY DEF ReceiptsFor, Citing
    <2> QED BY <2>1 DEF AnswerInv, KeysHold, UniqueIds
  <1>6. Distinct(s)'
    BY <1>3, <1>4, <1>5 DEF AnswerInv, Distinct, UniqueIds
  <1>7. ASSUME ~disturbed'[s] PROVE Fresh(s)'
    <2>1. Fresh(s)
      BY <1>3, <1>7 DEF AnswerInv
    <2>2. ReceiptsFor(found[s], receipts) = SelectedNow(ask[s]).receipts
      <3>1. found[s] = OrdersOf(ask[s])
        BY <1>4, <2>1 DEF Fresh, PastOrder
      <3> QED BY <3>1, CitingAny DEF ReceiptsFor, SelectedNow
    <2>3. SeedOf(ask[s])' = SeedOf(ask[s]) /\ OrdersOf(ask[s])' = OrdersOf(ask[s])
      BY <1>3 DEF SeedOf, OrdersOf, tables
    <2>4. SelectedNow(ask[s])' = SelectedNow(ask[s])
      BY <1>3, <2>3 DEF SelectedNow, tables
    <2> QED BY <1>3, <1>4, <2>1, <2>2, <2>3, <2>4
        DEF Fresh, PastSeed, PastOrder, PastInvoices, PastReceipts, PastCatalog
  <1> QED BY <1>1, <1>2, <1>3, <1>6, <1>7, SessionKeeps DEF AnswerInv

LEMMA ReadCatalogAnswers ==
  ASSUME AnswerInv, NEW s \in Sessions, ReadCatalog(s) \/ ReadLatest(s)
  PROVE  AnswerInv'
  <1>1. Alone(s) /\ runs' = runs
    BY DEF AnswerInv, Totals, Total, Alone, ReadCatalog, ReadLatest, tables
  <1>2. Totals'
    BY ExceptTotal DEF AnswerInv, Totals, ReadCatalog, ReadLatest
  <1>3. /\ ask' = ask /\ disturbed' = disturbed /\ seed' = seed /\ found' = found
        /\ copy' = copy /\ UNCHANGED tables
    BY DEF ReadCatalog, ReadLatest, tables
  <1>4. \/ pc[s] = "catalog" /\ pc'[s] = "latest" /\ catalog'[s] = index
        \/ pc[s] = "latest" /\ pc'[s] = "deciding" /\ catalog'[s] = catalog[s]
    BY DEF AnswerInv, Totals, Total, ReadCatalog, ReadLatest
  <1>6. Distinct(s)'
    BY <1>3, <1>4 DEF AnswerInv, Distinct, UniqueIds
  <1>7. ASSUME ~disturbed'[s] PROVE Fresh(s)'
    <2>1. Fresh(s)
      BY <1>3, <1>7 DEF AnswerInv
    <2>3. SeedOf(ask[s])' = SeedOf(ask[s]) /\ OrdersOf(ask[s])' = OrdersOf(ask[s])
      BY <1>3 DEF SeedOf, OrdersOf, tables
    <2>4. SelectedNow(ask[s])' = SelectedNow(ask[s])
      BY <1>3, <2>3 DEF SelectedNow, tables
    <2>5. index' = index
      BY <1>3 DEF tables
    <2> QED BY <1>3, <1>4, <2>1, <2>3, <2>4, <2>5
        DEF Fresh, PastSeed, PastOrder, PastInvoices, PastReceipts, PastCatalog
  <1> QED BY <1>1, <1>2, <1>3, <1>6, <1>7, SessionKeeps DEF AnswerInv

LEMMA EndAnswers ==
  ASSUME AnswerInv, NEW s \in Sessions, NEW result, End(s, result),
         \A r \in runs' : RunSound(r)
  PROVE  AnswerInv'
  <1>1. Alone(s)
    BY DEF AnswerInv, Totals, Total, Alone, End, tables
  <1>2. Totals'
    BY ExceptTotal DEF AnswerInv, Totals, End
  <1>3. ask' = ask
    BY DEF End
  <1>4. pc'[s] = "idle" /\ seed'[s] = {} /\ found'[s] = {} /\ copy'[s] = Nothing
    BY DEF AnswerInv, Totals, Total, End
  <1>6. Distinct(s)'
    BY <1>4 DEF Distinct, UniqueIds, Nothing
  <1>7. Fresh(s)'
    BY <1>4 DEF Fresh, PastSeed, PastOrder, PastInvoices, PastReceipts, PastCatalog
  <1> QED BY <1>1, <1>2, <1>3, <1>6, <1>7, SessionKeeps DEF AnswerInv

LEMMA RunIsSound ==
  ASSUME NEW s \in Sessions, Distinct(s), NEW v
  PROVE  /\ RunSound(Run(s, v)) /\ Run(s, v).records = Selected(s)
         /\ Run(s, v).index = catalog[s]
         /\ Run(s, v).fingerprint = Fingerprint(Selected(s), ask[s].tolerances)
  <1>1. Fingerprint(Selected(s), ask[s].tolerances).tolerances = ask[s].tolerances
    BY DEF Fingerprint
  <1>2. /\ Run(s, v).fingerprint = Fingerprint(Selected(s), ask[s].tolerances)
        /\ Run(s, v).records = Selected(s) /\ Run(s, v).index = catalog[s]
        /\ Run(s, v).exceptions = Evaluate(Selected(s), catalog[s], ask[s].tolerances)
    BY DEF Run
  <1>3. UniqueIds(Selected(s).receipts) /\ UniqueIds(Selected(s).invoices)
    BY DEF Selected, Distinct
  <1> QED BY <1>1, <1>2, <1>3 DEF RunSound

LEMMA EditAnswers ==
  ASSUME AnswerInv, Edit
  PROVE  AnswerInv'
  <1>1. \A s \in Sessions : disturbed'[s] = TRUE
    BY DEF Edit
  <1>2. Totals'
    BY DEF AnswerInv, Totals, Total, Edit, copies
  <1>3. \A table, row : UniqueIds(table) => UniqueIds(Put(table, row))
    BY DEF UniqueIds, Put
  <1>4. UNCHANGED <<runs, pc, ask, copies>>
    BY DEF Edit
  <1>5. KeysHold'
    BY <1>3 DEF AnswerInv, KeysHold, Edit, UniqueIds, UniqueNumbers
  <1>6. \A s \in Sessions : Distinct(s)'
    BY <1>4 DEF copies, AnswerInv, Distinct, UniqueIds
  <1>7. \A r \in runs' : RunSound(r)'
    BY <1>4 DEF AnswerInv, RunSound, UniqueIds
  <1> QED BY <1>1, <1>2, <1>4, <1>5, <1>6, <1>7 DEF AnswerInv

LEMMA NextAnswers ==
  ASSUME AnswerInv, [Next]_vars
  PROVE  AnswerInv'
  <1>1. CASE UNCHANGED vars
    BY <1>1 DEF vars, AnswerInv, Totals, Total, KeysHold, UniqueIds, UniqueNumbers, Distinct,
                Fresh, SeedOf, OrdersOf, SelectedNow, RunSound
  <1>2. CASE Edit
    BY <1>2, EditAnswers
  <1>3. ASSUME NEW s \in Sessions, SessionStep(s) PROVE AnswerInv'
    <2>1. ASSUME NEW r \in Requests, Ask(s, r) PROVE AnswerInv'
      BY <2>1, AskAnswers
    <2>2. CASE Refuse(s) \/ Reuse(s) \/ LoseRace(s)
      <3>1. PICK result : End(s, result) /\ runs' = runs
        BY <2>2 DEF Refuse, Reuse, LoseRace
      <3> QED BY <3>1, EndAnswers DEF AnswerInv
    <2>3. CASE Persist(s)
      <3>1. PICK v : runs' = runs \cup {Run(s, v)} /\ End(s, {Run(s, v)})
        BY <2>3 DEF Persist
      <3>2. \A r \in runs' : RunSound(r)
        BY <3>1, RunIsSound DEF AnswerInv
      <3> QED BY <3>1, <3>2, EndAnswers
    <2> QED BY <1>3, <2>1, <2>2, <2>3, ReadSeedAnswers, ReadOrderAnswers, ReadNamedAnswers,
               ReadInvoicesAnswers, ReadReceiptsAnswers, ReadCatalogAnswers DEF SessionStep
  <1> QED BY <1>1, <1>2, <1>3 DEF Next

\* What a session deciding holds, undisturbed, is the selection of its request.
LEMMA DecidesOnNow ==
  ASSUME AnswerInv, NEW s \in Sessions, pc[s] = "deciding", ~disturbed[s]
  PROVE  /\ Selected(s) = SelectedNow(ask[s]) /\ catalog[s] = index
         /\ UniqueIds(SelectedNow(ask[s]).receipts) /\ UniqueIds(SelectedNow(ask[s]).invoices)
  <1>1. Fresh(s)
    BY DEF AnswerInv
  <1>2. /\ found[s] = OrdersOf(ask[s]) /\ copy[s].invoices = SelectedNow(ask[s]).invoices
        /\ copy[s].receipts = SelectedNow(ask[s]).receipts /\ catalog[s] = index
    BY <1>1 DEF Fresh, PastOrder, PastInvoices, PastReceipts, PastCatalog
  <1>3. SelectedNow(ask[s]).orders = OrdersOf(ask[s])
    BY DEF SelectedNow
  <1>4. SelectedNow(ask[s]) = [orders |-> SelectedNow(ask[s]).orders,
                               receipts |-> SelectedNow(ask[s]).receipts,
                               invoices |-> SelectedNow(ask[s]).invoices]
    BY DEF SelectedNow
  <1>5. UniqueIds(copy[s].receipts) /\ UniqueIds(copy[s].invoices)
    BY DEF AnswerInv, Distinct
  <1> QED BY <1>2, <1>3, <1>4, <1>5 DEF Selected

\* A run of the same fingerprint has the exceptions its documents give now.
LEMMA SameRunSameExceptions ==
  ASSUME NEW r, RunSound(r), NEW now, NEW t, NEW ix,
         UniqueIds(now.receipts), UniqueIds(now.invoices),
         r.fingerprint = Fingerprint(now, t), r.index = ix, Links(r.records) = Links(now)
  PROVE  r.exceptions = Evaluate(now, ix, t)
  <1>1. Fingerprint(r.records, r.fingerprint.tolerances) = Fingerprint(now, t)
    BY DEF RunSound
  <1>2. r.fingerprint.tolerances = t /\ CoveredBy(r.records, now)
    BY <1>1, FingerprintCovers
  <1>3. CoveredBy(now, r.records)
    BY <1>1, FingerprintCovers DEF RunSound
  <1> QED BY <1>2, <1>3, EvaluateCovered DEF RunSound

LEMMA InitAnswers == Init => AnswerInv
  <1> SUFFICES ASSUME Init PROVE AnswerInv
    OBVIOUS
  <1>1. Totals /\ runs = {}
    BY DEF Init, Totals, Total
  <1>2. KeysHold
    BY BooksAssumption DEF Init, KeysHold
  <1>3. ask \in [Sessions -> Requests]
    BY RequestsAssumption DEF Init
  <1>4. ASSUME NEW s \in Sessions PROVE Distinct(s) /\ Fresh(s)
    <2>1. /\ pc[s] = "idle" /\ seed[s] = {} /\ found[s] = {}
          /\ copy[s].receipts = {} /\ copy[s].invoices = {}
      BY DEF Init, Nothing
    <2> QED BY <2>1 DEF Distinct, UniqueIds, Fresh, PastSeed, PastOrder, PastInvoices,
                        PastReceipts, PastCatalog
  <1> QED BY <1>1, <1>2, <1>3, <1>4 DEF AnswerInv

LEMMA AnswersHold == Spec => []AnswerInv
  BY InitAnswers, NextAnswers, PTL DEF Spec

\* Whatever the documents, the tolerances and the runs stored before, a request
\* no edit disturbed is answered by a run of the documents as they stand, whose
\* exceptions are theirs.
THEOREM AnswersAreCurrent == Spec => AnswerIsCurrent
  <1> DEFINE Current(s) ==
        \A r \in answer'[s] \ answer[s] :
          ~disturbed[s] =>
            LET now == SelectedNow(ask[s]) IN
            /\ r.fingerprint = Fingerprint(now, ask[s].tolerances)
            /\ r.index = index /\ Links(r.records) = Links(now)
                 => r.exceptions = Evaluate(now, index, ask[s].tolerances)
  <1>1. AnswerInv /\ VersionsInv /\ [Next]_vars => [\A s \in Sessions : Current(s)]_answer
    <2> SUFFICES ASSUME AnswerInv, VersionsInv, Next, NEW q \in Sessions,
                        NEW r \in answer'[q] \ answer[q], ~disturbed[q]
                 PROVE  /\ r.fingerprint = Fingerprint(SelectedNow(ask[q]), ask[q].tolerances)
                        /\ r.index = index /\ Links(r.records) = Links(SelectedNow(ask[q]))
                             => r.exceptions = Evaluate(SelectedNow(ask[q]), index, ask[q].tolerances)
      BY DEF vars
    <2>1. PICK s \in Sessions : SessionStep(s)
      BY DEF Next, Edit
    <2>2. /\ pc[s] = "deciding" /\ q = s
          /\ \/ r \in Reusable(s)
             \/ r = Run(s, NextVersion(s))
      <3>1. \/ \E p \in Requests : Ask(s, p)
            \/ Refuse(s) \/ LoseRace(s)
            \/ pc[s] = "deciding" /\ End(s, Reusable(s))
            \/ pc[s] = "deciding" /\ End(s, {Run(s, NextVersion(s))})
        BY <2>1 DEF SessionStep, ReadSeed, ReadOrder, ReadNamed, ReadInvoices, ReadReceipts,
                    ReadCatalog, ReadLatest, Reuse, Persist
      <3>2. PICK result : /\ answer' = [answer EXCEPT ![s] = result]
                          /\ \/ result = {}
                             \/ pc[s] = "deciding" /\ result = Reusable(s)
                             \/ pc[s] = "deciding" /\ result = {Run(s, NextVersion(s))}
        BY <3>1 DEF Ask, Refuse, LoseRace, End
      <3>3. \A p \in Sessions : answer'[p] = IF p = s THEN result ELSE answer[p]
        BY <3>2 DEF AnswerInv, Totals, Total
      <3> QED BY <3>2, <3>3
    <2>3. /\ Selected(s) = SelectedNow(ask[s]) /\ catalog[s] = index
          /\ UniqueIds(SelectedNow(ask[s]).receipts) /\ UniqueIds(SelectedNow(ask[s]).invoices)
      BY <2>2, DecidesOnNow
    <2>4. RunSound(r) /\ r.fingerprint = Fingerprint(Selected(s), ask[s].tolerances)
      <3>1. CASE r \in Reusable(s)
        <4>1. r \in runs
          BY <3>1 DEF Reusable, VersionsInv, LatestKnown
        <4> QED BY <3>1, <4>1 DEF Reusable, AnswerInv
      <3>2. CASE r = Run(s, NextVersion(s))
        <4>1. Distinct(s)
          BY DEF AnswerInv
        <4> QED BY <3>2, <4>1, RunIsSound
      <3> QED BY <2>2, <3>1, <3>2
    <2> QED BY <2>2, <2>3, <2>4, SameRunSameExceptions
  <1>2. Spec => []VersionsInv
    BY VersionsHold
  <1> QED BY <1>1, <1>2, AnswersHold, PTL DEF Spec, AnswerIsCurrent

-----------------------------------------------------------------------------
(* What the tables and the sessions hold are rows of the tables' types, and *)
(* a seed, an order found and a latest run are one each.                    *)

Lone(set) == \A x, y \in set : x = y

TablesTyped ==
  /\ orders \subseteq OrderRows /\ receipts \subseteq ReceiptRows
  /\ invoices \subseteq InvoiceRows /\ index \in Indexes
  /\ IsFiniteSet(orders) /\ IsFiniteSet(receipts) /\ IsFiniteSet(invoices)

Held(s) ==
  /\ seed[s] \subseteq InvoiceRows /\ Lone(seed[s])
  /\ found[s] \subseteq OrderRows /\ Lone(found[s])
  /\ copy[s] \in Documents
  /\ IsFiniteSet(copy[s].receipts) /\ IsFiniteSet(copy[s].invoices)
  /\ catalog[s] \in Indexes /\ Lone(latest[s])

Steps == {"idle", "seed", "order", "named", "invoices", "receipts", "catalog", "latest",
          "deciding"}
HeldInv ==
  /\ TablesTyped /\ \A s \in Sessions : Held(s)
  /\ pc \in [Sessions -> Steps] /\ disturbed \in [Sessions -> BOOLEAN]
  /\ edits \in 0..MaxEdits /\ requests \in 0..MaxRequests

LEMMA LoneIsFinite ==
  ASSUME NEW set, Lone(set)
  PROVE  IsFiniteSet(set) /\ Cardinality(set) <= 1
  <1>1. CASE set = {}
    BY <1>1, FS_EmptySet
  <1>2. CASE set # {}
    <2>1. PICK x \in set : set = {x}
      BY <1>2 DEF Lone
    <2>2. IsFiniteSet({x}) /\ Cardinality({x}) = 1
      BY FS_Singleton
    <2> QED BY <2>1, <2>2
  <1> QED BY <1>1, <1>2

LEMMA SeedHitsHeld ==
  ASSUME AnswerInv, HeldInv, NEW s \in Sessions
  PROVE  SeedHits(s) \subseteq InvoiceRows /\ Lone(SeedHits(s))
  BY DEF AnswerInv, HeldInv, TablesTyped, KeysHold, UniqueIds, SeedHits, Lone

LEMMA OrderHeld ==
  ASSUME AnswerInv, HeldInv, NEW s \in Sessions
  PROVE  LET led == {o \in orders : Live(o) /\ \E i \in seed[s] : BelongsTo(i, o)}
         IN  led \subseteq OrderRows /\ Lone(led)
  <1> DEFINE led == {o \in orders : Live(o) /\ \E i \in seed[s] : BelongsTo(i, o)}
  <1>1. led \subseteq orders /\ orders \subseteq OrderRows
    BY DEF HeldInv, TablesTyped
  <1>2. ASSUME NEW o \in led, NEW p \in led PROVE o = p
    <2>1. PICK i \in seed[s] : BelongsTo(i, o)
      OBVIOUS
    <2>2. PICK j \in seed[s] : BelongsTo(j, p)
      OBVIOUS
    <2>3. i = j
      BY DEF HeldInv, Held, Lone
    <2> QED BY <2>1, <2>2, <2>3 DEF BelongsTo, AnswerInv, KeysHold, UniqueIds, UniqueNumbers
  <1> QED BY <1>1, <1>2 DEF Lone

LEMMA NamedHeld ==
  ASSUME AnswerInv, HeldInv, NEW s \in Sessions
  PROVE  NamedHits(s) \subseteq OrderRows /\ Lone(NamedHits(s))
  <1>1. CASE found[s] = {}
    BY <1>1 DEF NamedHits, AnswerInv, KeysHold, UniqueNumbers, HeldInv, TablesTyped, Lone
  <1>2. CASE found[s] # {}
    <2>1. NamedHits(s) \subseteq found[s]
      BY <1>2 DEF NamedHits
    <2> QED BY <2>1 DEF HeldInv, Held, Lone
  <1> QED BY <1>1, <1>2

LEMMA DocumentsHeld ==
  ASSUME HeldInv, NEW s \in Sessions
  PROVE  /\ InvoicesFor(found[s], seed[s], invoices) \subseteq InvoiceRows
         /\ IsFiniteSet(InvoicesFor(found[s], seed[s], invoices))
         /\ ReceiptsFor(found[s], receipts) \subseteq ReceiptRows
         /\ IsFiniteSet(ReceiptsFor(found[s], receipts))
  <1> DEFINE bills == InvoicesFor(found[s], seed[s], invoices)
             posted == ReceiptsFor(found[s], receipts)
  <1>1. (UNION {Citing(invoices, o) : o \in found[s]}) \subseteq invoices
    BY DEF Citing
  <1>2. bills \subseteq seed[s] \cup invoices
    BY <1>1 DEF InvoicesFor
  <1>3. posted \subseteq receipts
    BY DEF ReceiptsFor, Citing
  <1> HIDE DEF bills, posted
  <1>4. IsFiniteSet(seed[s])
    BY LoneIsFinite DEF HeldInv, Held
  <1>5. IsFiniteSet(seed[s] \cup invoices)
    BY <1>4, FS_Union DEF HeldInv, TablesTyped
  <1>6. IsFiniteSet(bills)
    BY <1>2, <1>5, FS_Subset
  <1>7. IsFiniteSet(posted)
    BY <1>3, FS_Subset DEF HeldInv, TablesTyped
  <1>8. bills \subseteq InvoiceRows /\ posted \subseteq ReceiptRows
    BY <1>2, <1>3 DEF HeldInv, Held, TablesTyped
  <1> QED BY <1>6, <1>7, <1>8 DEF bills, posted

LEMMA LatestHeld ==
  ASSUME VersionsInv, NEW key
  PROVE  Lone(LatestRuns(key))
  <1> SUFFICES ASSUME NEW r \in LatestRuns(key), NEW q \in LatestRuns(key) PROVE r = q
    BY DEF Lone
  <1>1. /\ r \in runs /\ q \in runs /\ r.scope = key /\ q.scope = key
        /\ r.version <= q.version /\ q.version <= r.version
    BY DEF LatestRuns
  <1>2. r.version \in Nat /\ q.version \in Nat
    BY <1>1 DEF VersionsInv, Numbered
  <1>3. r.version = q.version
    BY <1>1, <1>2
  <1> QED BY <1>1, <1>3 DEF VersionsInv, VersionsTell

LEMMA HeldStays ==
  ASSUME HeldInv, NEW s \in Sessions, Alone(s), Held(s)',
         pc' \in [Sessions -> Steps], disturbed' \in [Sessions -> BOOLEAN],
         edits' = edits, requests' \in 0..MaxRequests
  PROVE  HeldInv'
  <1>1. TablesTyped'
    BY DEF HeldInv, TablesTyped, Alone, tables
  <1>2. \A q \in Sessions : Held(q)'
    <2> TAKE q \in Sessions
    <2>1. CASE q = s
      BY <2>1
    <2>2. CASE q # s
      BY <2>2 DEF Alone, HeldInv, Held, Lone
    <2> QED BY <2>1, <2>2
  <1> QED BY <1>1, <1>2 DEF HeldInv

LEMMA NothingHeld == Nothing \in Documents /\ IsFiniteSet(Nothing.receipts) /\ IsFiniteSet(Nothing.invoices)
  BY FS_EmptySet DEF Nothing, Documents

LEMMA SessionHolds ==
  ASSUME AnswerInv, VersionsInv, HeldInv, NEW s \in Sessions, SessionStep(s)
  PROVE  HeldInv'
  <1>0. Held(s) /\ pc \in [Sessions -> Steps] /\ disturbed \in [Sessions -> BOOLEAN]
        /\ requests \in 0..MaxRequests
    BY DEF HeldInv
  <1>1. ASSUME NEW r \in Requests, Ask(s, r) PROVE HeldInv'
    <2>1. Alone(s) /\ edits' = edits
      BY <1>1 DEF AnswerInv, Totals, Total, Alone, Ask, copies, tables
    <2>2. Held(s)'
      BY <1>0, <1>1 DEF Ask, copies, Held, Lone
    <2>3. pc' \in [Sessions -> Steps] /\ disturbed' \in [Sessions -> BOOLEAN]
      BY <1>0, <1>1 DEF Ask, Steps
    <2>4. requests' \in 0..MaxRequests
      BY <1>0, <1>1, BoundsAssumption DEF Ask
    <2> QED BY <2>1, <2>2, <2>3, <2>4, HeldStays
  <1>2. ASSUME ReadSeed(s) PROVE HeldInv'
    <2>1. Alone(s)
      BY <1>2 DEF AnswerInv, Totals, Total, Alone, ReadSeed, tables
    <2>2. seed'[s] = SeedHits(s)
      BY <1>2 DEF AnswerInv, Totals, Total, ReadSeed
    <2>3. Held(s)'
      BY <1>0, <1>2, <2>2, SeedHitsHeld DEF ReadSeed, Held, Lone
    <2> QED BY <1>0, <1>2, <2>1, <2>3, HeldStays DEF ReadSeed, Steps
  <1>3. ASSUME ReadOrder(s) PROVE HeldInv'
    <2>1. Alone(s)
      BY <1>3 DEF AnswerInv, Totals, Total, Alone, ReadOrder, tables
    <2>2. found'[s] = {o \in orders : Live(o) /\ \E i \in seed[s] : BelongsTo(i, o)}
      BY <1>3 DEF AnswerInv, Totals, Total, ReadOrder
    <2>4. found'[s] \subseteq OrderRows /\ Lone(found'[s])
      BY <2>2, OrderHeld
    <2>3. Held(s)'
      BY <1>0, <1>3, <2>4 DEF ReadOrder, Held, Lone
    <2> QED BY <1>0, <1>3, <2>1, <2>3, HeldStays DEF ReadOrder, Steps
  <1>4. ASSUME ReadNamed(s) PROVE HeldInv'
    <2>1. Alone(s)
      BY <1>4 DEF AnswerInv, Totals, Total, Alone, ReadNamed, tables
    <2>2. found'[s] = NamedHits(s)
      BY <1>4 DEF AnswerInv, Totals, Total, ReadNamed
    <2>3. Held(s)'
      BY <1>0, <1>4, <2>2, NamedHeld DEF ReadNamed, Held, Lone
    <2> QED BY <1>0, <1>4, <2>1, <2>3, HeldStays DEF ReadNamed, Steps
  <1>5. ASSUME ReadInvoices(s) PROVE HeldInv'
    <2>1. Alone(s)
      BY <1>5 DEF AnswerInv, Totals, Total, Alone, ReadInvoices, tables
    <2>2. copy'[s] = [receipts |-> {}, invoices |-> InvoicesFor(found[s], seed[s], invoices)]
      BY <1>5 DEF AnswerInv, Totals, Total, ReadInvoices
    <2>4. copy'[s] \in Documents /\ IsFiniteSet(copy'[s].receipts) /\ IsFiniteSet(copy'[s].invoices)
      BY <2>2, DocumentsHeld, FS_EmptySet DEF Documents
    <2>3. Held(s)'
      BY <1>0, <1>5, <2>4 DEF ReadInvoices, Held, Lone
    <2> QED BY <1>0, <1>5, <2>1, <2>3, HeldStays DEF ReadInvoices, Steps
  <1>6. ASSUME ReadReceipts(s) PROVE HeldInv'
    <2>1. Alone(s)
      BY <1>6 DEF AnswerInv, Totals, Total, Alone, ReadReceipts, tables
    <2>2. copy'[s] = [receipts |-> ReceiptsFor(found[s], receipts), invoices |-> copy[s].invoices]
      BY <1>6 DEF AnswerInv, Totals, Total, ReadReceipts
    <2>4. copy'[s] \in Documents /\ IsFiniteSet(copy'[s].receipts) /\ IsFiniteSet(copy'[s].invoices)
      BY <1>0, <2>2, DocumentsHeld DEF Documents, Held
    <2>3. Held(s)'
      BY <1>0, <1>6, <2>4 DEF ReadReceipts, Held, Lone
    <2> QED BY <1>0, <1>6, <2>1, <2>3, HeldStays DEF ReadReceipts, Steps
  <1>7. ASSUME ReadCatalog(s) PROVE HeldInv'
    <2>1. Alone(s)
      BY <1>7 DEF AnswerInv, Totals, Total, Alone, ReadCatalog, tables
    <2>2. catalog'[s] = index /\ index \in Indexes
      BY <1>7 DEF AnswerInv, Totals, Total, ReadCatalog, HeldInv, TablesTyped
    <2>3. Held(s)'
      BY <1>0, <1>7, <2>2 DEF ReadCatalog, Held, Lone
    <2> QED BY <1>0, <1>7, <2>1, <2>3, HeldStays DEF ReadCatalog, Steps
  <1>8. ASSUME ReadLatest(s) PROVE HeldInv'
    <2>1. Alone(s)
      BY <1>8 DEF AnswerInv, Totals, Total, Alone, ReadLatest, tables
    <2>2. latest'[s] = LatestRuns(ScopeKey(found[s], ask[s]))
      BY <1>8 DEF AnswerInv, Totals, Total, ReadLatest
    <2>4. Lone(latest'[s])
      BY <2>2, LatestHeld
    <2>3. Held(s)'
      BY <1>0, <1>8, <2>4 DEF ReadLatest, Held, Lone
    <2> QED BY <1>0, <1>8, <2>1, <2>3, HeldStays DEF ReadLatest, Steps
  <1>9. ASSUME Refuse(s) \/ Reuse(s) \/ LoseRace(s) \/ Persist(s) PROVE HeldInv'
    <2>1. PICK result : End(s, result)
      BY <1>9 DEF Refuse, Reuse, LoseRace, Persist
    <2>2. Alone(s)
      BY <2>1 DEF AnswerInv, Totals, Total, Alone, End, tables
    <2>3. /\ seed'[s] = {} /\ found'[s] = {} /\ copy'[s] = Nothing /\ catalog'[s] = AnyIndex
          /\ latest'[s] = {}
      BY <2>1 DEF AnswerInv, Totals, Total, End
    <2>4. AnyIndex \in Indexes
      BY DEF AnyIndex, HeldInv, TablesTyped
    <2>5. Held(s)'
      BY <2>3, <2>4, NothingHeld DEF Held, Lone
    <2> QED BY <1>0, <2>1, <2>2, <2>5, HeldStays DEF End, Steps
  <1> QED BY <1>1, <1>2, <1>3, <1>4, <1>5, <1>6, <1>7, <1>8, <1>9 DEF SessionStep

LEMMA EditHolds ==
  ASSUME HeldInv, Edit
  PROVE  HeldInv'
  <1>1. ASSUME NEW table, NEW row, NEW rows, IsFiniteSet(table), table \subseteq rows, row \in rows
        PROVE  IsFiniteSet(Put(table, row)) /\ Put(table, row) \subseteq rows
    <2>1. Put(table, row) \subseteq table \cup {row}
      BY DEF Put
    <2>2. IsFiniteSet(table \cup {row})
      BY <1>1, FS_AddElement
    <2> QED BY <1>1, <2>1, <2>2, FS_Subset
  <1>2. TablesTyped'
    <2>1. ASSUME NEW row \in OrderRows, orders' = Put(orders, row),
                 UNCHANGED <<receipts, invoices, index>> PROVE TablesTyped'
      BY <2>1, <1>1 DEF HeldInv, TablesTyped
    <2>2. ASSUME NEW row \in ReceiptRows, receipts' = Put(receipts, row),
                 UNCHANGED <<orders, invoices, index>> PROVE TablesTyped'
      BY <2>2, <1>1 DEF HeldInv, TablesTyped
    <2>3. ASSUME NEW row \in InvoiceRows, invoices' = Put(invoices, row),
                 UNCHANGED <<orders, receipts, index>> PROVE TablesTyped'
      BY <2>3, <1>1 DEF HeldInv, TablesTyped
    <2>4. ASSUME index' \in Indexes, UNCHANGED <<orders, receipts, invoices>> PROVE TablesTyped'
      BY <2>4 DEF HeldInv, TablesTyped
    <2> QED BY <2>1, <2>2, <2>3, <2>4 DEF Edit
  <1>3. \A s \in Sessions : Held(s)'
    BY DEF Edit, copies, HeldInv, Held, Lone
  <1>4. edits' \in 0..MaxEdits
    BY BoundsAssumption DEF Edit, HeldInv
  <1> QED BY <1>2, <1>3, <1>4 DEF HeldInv, Edit

LEMMA RowsHold == Spec => []HeldInv
  <1>1. Init => HeldInv
    <2> SUFFICES ASSUME Init PROVE HeldInv
      OBVIOUS
    <2>1. PICK book \in FirstBooks :
            /\ orders = book.orders /\ receipts = book.receipts
            /\ invoices = book.invoices /\ index = book.index
      BY DEF Init
    <2>2. TablesTyped
      BY <2>1, BooksAssumption DEF TablesTyped
    <2>3. AnyIndex \in Indexes
      BY <2>2 DEF AnyIndex, TablesTyped
    <2>4. \A s \in Sessions : Held(s)
      BY <2>3, NothingHeld DEF Init, Held, Lone
    <2>5. edits \in 0..MaxEdits /\ requests \in 0..MaxRequests
      BY BoundsAssumption DEF Init
    <2> QED BY <2>2, <2>4, <2>5 DEF HeldInv, Init, Steps
  <1>2. AnswerInv /\ VersionsInv /\ HeldInv /\ [Next]_vars => HeldInv'
    <2> SUFFICES ASSUME AnswerInv, VersionsInv, HeldInv, [Next]_vars PROVE HeldInv'
      OBVIOUS
    <2>1. CASE UNCHANGED vars
      BY <2>1 DEF vars, HeldInv, TablesTyped, Held, Lone
    <2> QED BY <2>1, EditHolds, SessionHolds DEF Next
  <1> QED BY <1>1, <1>2, AnswersHold, VersionsHold, PTL DEF Spec

\* The tables, what each session holds of them, and the bounds.
THEOREM TypeCorrect == Spec => []ReconciliationTypeOK
  <1>1. AnswerInv /\ HeldInv => ReconciliationTypeOK
    <2> SUFFICES ASSUME AnswerInv, HeldInv PROVE ReconciliationTypeOK
      OBVIOUS
    <2>1. \A s \in Sessions : Held(s)
      BY DEF HeldInv
    <2>2. /\ Total(seed) /\ Total(found) /\ Total(copy) /\ Total(catalog)
      BY DEF AnswerInv, Totals
    <2>3. seed \in [Sessions -> SUBSET InvoiceRows] /\ found \in [Sessions -> SUBSET OrderRows]
      BY <2>1, <2>2 DEF Held, Total
    <2>4. copy \in [Sessions -> Documents] /\ catalog \in [Sessions -> Indexes]
      BY <2>1, <2>2 DEF Held, Total
    <2>5. \A s \in Sessions : Cardinality(seed[s]) <= 1 /\ Cardinality(found[s]) <= 1
                              /\ Cardinality(latest[s]) <= 1
      BY <2>1, LoneIsFinite DEF Held
    <2> QED BY <2>3, <2>4, <2>5 DEF AnswerInv, HeldInv, TablesTyped, Steps, ReconciliationTypeOK
  <1> QED BY <1>1, AnswersHold, RowsHold, PTL

-----------------------------------------------------------------------------
(* The evaluation of typed documents.                                      *)

Bounds == [quantity : Nat, money : Nat, percent : Nat]
Tighter(tight, wide) ==
  /\ tight \in Bounds /\ wide \in Bounds
  /\ tight.quantity <= wide.quantity /\ tight.money <= wide.money
  /\ tight.percent <= wide.percent

\* The documents of a run.
Recorded(records) ==
  /\ records.orders \subseteq OrderRows /\ Lone(records.orders)
  /\ records.receipts \subseteq ReceiptRows /\ UniqueIds(records.receipts)
  /\ records.invoices \subseteq InvoiceRows /\ UniqueIds(records.invoices)
  /\ IsFiniteSet(records.receipts) /\ IsFiniteSet(records.invoices)

LEMMA DistanceType ==
  ASSUME NEW a \in Int, NEW b \in Int
  PROVE  Distance(a, b) \in Nat /\ (Distance(a, b) = 0 <=> a = b)
  BY DEF Distance

LEMMA HalfEvenType ==
  ASSUME NEW n \in Int, NEW d \in Nat \ {0}
  PROVE  HalfEven(n, d) \in Int
  <1>1. n \div d \in Int
    OBVIOUS
  <1> QED BY <1>1 DEF HalfEven

LEMMA LineTotalType ==
  ASSUME NEW l, Priced(l)
  PROVE  LineTotal(l) \in Int
  <1>1. l.quantity \in Int /\ l.cost \in Int /\ l.rate \in Int
    BY DEF Priced, Counted
  <1>2. PICK x \in Int : x = l.quantity * l.cost
    BY <1>1
  <1>3. x * l.rate \in Int
    BY <1>1, <1>2
  <1>4. TaxOn(x, l.rate) \in Int
    BY <1>3, HalfEvenType, RateScaleAssumption DEF TaxOn
  <1> QED BY <1>2, <1>4 DEF LineTotal

LEMMA QuantityTolerated ==
  ASSUME NEW tight, NEW wide, Tighter(tight, wide), NEW a \in Int, NEW b \in Int,
         QuantityWithin(a, b, tight)
  PROVE  QuantityWithin(a, b, wide)
  <1>1. Distance(a, b) \in Int /\ tight.quantity \in Int /\ wide.quantity \in Int
    BY DistanceType DEF Tighter, Bounds
  <1> QED BY <1>1 DEF QuantityWithin, Tighter

LEMMA MoneyTolerated ==
  ASSUME NEW tight, NEW wide, Tighter(tight, wide), NEW a \in Int, NEW b \in Int,
         MoneyWithin(a, b, tight)
  PROVE  MoneyWithin(a, b, wide)
  <1>1. /\ tight.money \in Int /\ wide.money \in Int
        /\ tight.percent \in Int /\ wide.percent \in Int
        /\ tight.money <= wide.money /\ tight.percent <= wide.percent
    BY DEF Tighter, Bounds
  <1>2. PICK d \in Nat : d = Distance(a, b)
    BY DistanceType
  <1>3. PICK e \in Nat : e = Distance(a, 0)
    BY DistanceType
  <1>4. \A x, y \in Int : x <= y => x * e <= y * e
    OBVIOUS
  <1>5. tight.percent * e <= wide.percent * e
    BY <1>1, <1>4
  <1>6. tight.percent * e \in Int /\ wide.percent * e \in Int /\ d * RateScale \in Int
    BY <1>1, RateScaleAssumption
  <1> QED BY <1>1, <1>2, <1>3, <1>5, <1>6 DEF MoneyWithin

LEMMA LineTotalSilenced ==
  ASSUME NEW tight, NEW wide, Tighter(tight, wide), NEW l, Priced(l)
  PROVE  CheckLineTotal(l, wide) \subseteq CheckLineTotal(l, tight)
  <1>1. LineTotal(l) \in Int /\ l.total \in Int
    BY LineTotalType DEF Priced
  <1>2. MoneyWithin(LineTotal(l), l.total, tight) => MoneyWithin(LineTotal(l), l.total, wide)
    BY <1>1, MoneyTolerated
  <1> QED BY <1>2 DEF CheckLineTotal, When

LEMMA PriceSilenced ==
  ASSUME NEW tight, NEW wide, Tighter(tight, wide), NEW p, Priced(p), NEW l, Priced(l)
  PROVE  CheckPrice(p, l, wide) \subseteq CheckPrice(p, l, tight)
  <1>1. p.cost \in Int /\ l.cost \in Int /\ p.rate \in Int /\ l.rate \in Int
    BY DEF Priced
  <1>2. MoneyWithin(p.cost, l.cost, tight) => MoneyWithin(p.cost, l.cost, wide)
    BY <1>1, MoneyTolerated
  <1>3. MoneyWithin(p.rate, l.rate, tight) => MoneyWithin(p.rate, l.rate, wide)
    BY <1>1, MoneyTolerated
  <1> QED BY <1>2, <1>3 DEF CheckPrice, When

LEMMA QuantitiesSilenced ==
  ASSUME NEW tight, NEW wide, Tighter(tight, wide), NEW p, p.quantity \in Int,
         NEW received \in Int, NEW billed, Quantity(billed) \in Int
  PROVE  /\ ReceiptGap(p, received, wide) \subseteq ReceiptGap(p, received, tight)
         /\ InvoiceGap(p, received, billed, wide) \subseteq InvoiceGap(p, received, billed, tight)
  <1>1. QuantityWithin(p.quantity, received, tight) => QuantityWithin(p.quantity, received, wide)
    BY QuantityTolerated
  <1>2. QuantityWithin(received, Quantity(billed), tight)
          => QuantityWithin(received, Quantity(billed), wide)
    BY QuantityTolerated
  <1>3. ReceiptGap(p, received, wide) \subseteq ReceiptGap(p, received, tight)
    BY <1>1 DEF ReceiptGap
  <1>4. InvoiceGap(p, received, billed, wide) \subseteq InvoiceGap(p, received, billed, tight)
    BY <1>2 DEF InvoiceGap
  <1> QED BY <1>3, <1>4

LEMMA QuantityType ==
  ASSUME NEW lines, IsFiniteSet(lines), \A l \in lines : Counted(l)
  PROVE  Quantity(lines) \in Nat
  <1> DEFINE f == [l \in lines |-> l.quantity]
  <1>1. \A l \in lines : f[l] \in Nat
    BY DEF Counted
  <1>2. SumFunctionOnSet(f, lines) \in Nat
    BY <1>1, SumType
  <1>3. Quantity(lines) = SumFunctionOnSet(f, lines)
    BY DEF Quantity, SumFunction
  <1> QED BY <1>2, <1>3

LEMMA LinesSilenced ==
  ASSUME NEW tight, NEW wide, Tighter(tight, wide), NEW ordered, NEW delivered, NEW billed, NEW ix,
         IsFiniteSet(delivered), IsFiniteSet(billed),
         \A l \in ordered : Priced(l), \A l \in billed : Priced(l), \A l \in delivered : Counted(l)
  PROVE  EvaluateLines(ordered, delivered, billed, ix, wide)
           \subseteq EvaluateLines(ordered, delivered, billed, ix, tight)
  <1> DEFINE D(p) == DeliveredTo(p, ordered, delivered)
             B(p) == BilledTo(p, ordered, billed, ix)
  <1>1. ASSUME NEW p \in ordered
        PROVE  CheckLine(p, D(p), B(p), wide) \subseteq CheckLine(p, D(p), B(p), tight)
    <2>1. D(p) \subseteq delivered /\ B(p) \subseteq billed
      BY DEF DeliveredTo, BilledTo
    <2> HIDE DEF D, B
    <2>2. IsFiniteSet(D(p)) /\ IsFiniteSet(B(p))
      BY <2>1, FS_Subset
    <2>3. Quantity(D(p)) \in Nat /\ Quantity(B(p)) \in Nat
      BY <2>1, <2>2, QuantityType DEF Priced
    <2>4. p.quantity \in Nat
      BY DEF Priced, Counted
    <2>5. CheckQuantities(p, D(p), B(p), wide) \subseteq CheckQuantities(p, D(p), B(p), tight)
      BY <2>3, <2>4, QuantitiesSilenced DEF CheckQuantities
    <2>6. \A l \in B(p) : CheckPrice(p, l, wide) \subseteq CheckPrice(p, l, tight)
      BY <2>1, PriceSilenced
    <2>7. (UNION {CheckPrice(p, l, wide) : l \in B(p)}) \subseteq (UNION {CheckPrice(p, l, tight) : l \in B(p)})
      BY <2>6
    <2> QED BY <2>5, <2>7 DEF CheckLine
  <1>2. \A l \in billed \cup ordered : CheckLineTotal(l, wide) \subseteq CheckLineTotal(l, tight)
    BY LineTotalSilenced
  <1>3. (UNION {CheckLineTotal(l, wide) : l \in billed \cup ordered})
          \subseteq (UNION {CheckLineTotal(l, tight) : l \in billed \cup ordered})
    BY <1>2
  <1>4. (UNION {CheckLine(p, D(p), B(p), wide) : p \in ordered})
          \subseteq (UNION {CheckLine(p, D(p), B(p), tight) : p \in ordered})
    BY <1>1
  <1> QED BY <1>3, <1>4 DEF EvaluateLines

\* The lines of a set of documents.
LEMMA LinesOf ==
  ASSUME NEW rows, IsFiniteSet(rows), \A row \in rows : IsFiniteSet(row.lines)
  PROVE  IsFiniteSet(UNION {row.lines : row \in rows})
  <1> DEFINE f == [row \in rows |-> row.lines]
  <1>1. IsFiniteSet({f[row] : row \in rows})
    BY FiniteRange
  <1>2. {f[row] : row \in rows} = {row.lines : row \in rows}
    OBVIOUS
  <1>3. IsFiniteSet({row.lines : row \in rows})
    BY <1>1, <1>2
  <1> HIDE DEF f
  <1> QED BY <1>3, FS_UNION

LEMMA EvaluationSilenced ==
  ASSUME NEW tight, NEW wide, Tighter(tight, wide), NEW records, Recorded(records), NEW ix
  PROVE  Evaluate(records, ix, wide) \subseteq Evaluate(records, ix, tight)
  <1>1. CASE records.orders = {}
    <2>1. ASSUME NEW i \in records.invoices
          PROVE  UnmatchedOrder(i, wide) \subseteq UnmatchedOrder(i, tight)
      <3>1. \A l \in i.lines : CheckLineTotal(l, wide) \subseteq CheckLineTotal(l, tight)
        BY RowsAssumption, LineTotalSilenced DEF Recorded
      <3> QED BY <3>1 DEF UnmatchedOrder
    <2> QED BY <1>1, <2>1 DEF Evaluate
  <1>2. CASE records.orders # {}
    <2>1. ASSUME NEW o \in records.orders, NEW posted, posted \subseteq records.receipts,
                 NEW bills, bills \subseteq records.invoices
          PROVE  EvaluateOrder(o, posted, bills, ix, wide) \subseteq EvaluateOrder(o, posted, bills, ix, tight)
      <3> DEFINE delivered == UNION {r.lines : r \in posted}
                 billed == UNION {i.lines : i \in bills}
      <3>1. IsFiniteSet(posted) /\ IsFiniteSet(bills)
        BY <2>1, FS_Subset DEF Recorded
      <3>2. /\ \A r \in posted : IsFiniteSet(r.lines)
            /\ \A i \in bills : IsFiniteSet(i.lines)
        BY <2>1, RowsAssumption DEF Recorded
      <3>3. IsFiniteSet(delivered) /\ IsFiniteSet(billed)
        BY <3>1, <3>2, LinesOf
      <3>4. /\ \A l \in o.lines : Priced(l)
            /\ \A l \in delivered : Counted(l)
            /\ \A l \in billed : Priced(l)
        BY <2>1, RowsAssumption DEF Recorded
      <3> HIDE DEF delivered, billed
      <3>5. EvaluateLines(o.lines, delivered, billed, ix, wide)
              \subseteq EvaluateLines(o.lines, delivered, billed, ix, tight)
        BY <3>3, <3>4, LinesSilenced
      <3> QED BY <3>5 DEF EvaluateOrder, delivered, billed
    <2>2. \A o \in records.orders :
            EvaluateOrder(o, {r \in records.receipts : BelongsTo(r, o)},
                          {i \in records.invoices : BelongsTo(i, o)}, ix, wide)
              \subseteq EvaluateOrder(o, {r \in records.receipts : BelongsTo(r, o)},
                          {i \in records.invoices : BelongsTo(i, o)}, ix, tight)
      BY <2>1
    <2> QED BY <1>2, <2>2 DEF Evaluate
  <1> QED BY <1>1, <1>2

\* A run that appears was stored by a session with what it held.
LEMMA StoredHeld ==
  ASSUME AnswerInv, HeldInv, Next, NEW r \in runs' \ runs
  PROVE  \E s \in Sessions : r.records = Selected(s) /\ Recorded(r.records)
                              /\ r.index = catalog[s] /\ r.index \in Indexes
                              /\ r.fingerprint.tolerances = ask[s].tolerances
                              /\ r.exceptions = Evaluate(r.records, r.index, ask[s].tolerances)
                              /\ r.impact = Impact(r.exceptions)
  <1>1. PICK s \in Sessions : SessionStep(s)
    BY DEF Next, Edit
  <1>2. PICK v : r = Run(s, v)
    BY <1>1 DEF SessionStep, Ask, ReadSeed, ReadOrder, ReadNamed, Refuse, ReadInvoices, ReadReceipts,
                ReadCatalog, ReadLatest, Reuse, Persist, LoseRace
  <1>3. /\ r.records = Selected(s) /\ r.index = catalog[s]
        /\ r.fingerprint = Fingerprint(Selected(s), ask[s].tolerances)
        /\ r.exceptions = Evaluate(Selected(s), catalog[s], ask[s].tolerances)
        /\ r.impact = Impact(r.exceptions)
    BY <1>2 DEF Run
  <1>4. r.fingerprint.tolerances = ask[s].tolerances
    BY <1>3 DEF Fingerprint
  <1>5. Held(s) /\ Distinct(s)
    BY DEF AnswerInv, HeldInv
  <1>6. /\ Selected(s).orders = found[s] /\ Selected(s).receipts = copy[s].receipts
        /\ Selected(s).invoices = copy[s].invoices
    BY DEF Selected
  <1>7. Recorded(Selected(s))
    BY <1>5, <1>6 DEF Held, Distinct, Documents, Recorded
  <1> QED BY <1>3, <1>4, <1>5, <1>7 DEF Held

\* Raising tolerances only silences what a run reports, whatever the documents.
THEOREM WiderIsQuieter == Spec => RaisingSilences
  <1> DEFINE Quieter(r) ==
        LET reports == {<<t, Evaluate(r.records, r.index, t)>> : t \in Tolerances} IN
        \A tight, wide \in reports :
          (\A bound \in DOMAIN tight[1] : tight[1][bound] <= wide[1][bound])
            => wide[2] \subseteq tight[2]
  <1>1. AnswerInv /\ HeldInv /\ [Next]_vars => [\A r \in runs' \ runs : Quieter(r)]_runs
    <2> SUFFICES ASSUME AnswerInv, HeldInv, Next, NEW r \in runs' \ runs,
                        NEW t \in Tolerances, NEW u \in Tolerances,
                        \A bound \in DOMAIN t : t[bound] <= u[bound]
                 PROVE  Evaluate(r.records, r.index, u) \subseteq Evaluate(r.records, r.index, t)
      BY DEF vars
    <2>1. t \in Bounds /\ u \in Bounds
      BY TolerancesAssumption DEF Bounds
    <2>2. DOMAIN t = {"quantity", "money", "percent"}
      BY <2>1 DEF Bounds
    <2>3. Tighter(t, u)
      BY <2>1, <2>2 DEF Tighter
    <2>4. Recorded(r.records)
      BY StoredHeld
    <2> QED BY <2>3, <2>4, EvaluationSilenced
  <1> QED BY <1>1, AnswersHold, RowsHold, PTL DEF Spec, RaisingSilences

-----------------------------------------------------------------------------
(* Sums over the lines and the exceptions of an order.                     *)

LEMMA SingletonOf ==
  ASSUME NEW S, IsFiniteSet(S), S # {}, ~(Cardinality(S) > 1)
  PROVE  \E x \in S : S = {x}
  <1>1. PICK x \in S : TRUE
    OBVIOUS
  <1>2. ASSUME NEW y \in S, y # x PROVE FALSE
    <2>1. IsFiniteSet({x}) /\ Cardinality({x}) = 1
      BY FS_Singleton
    <2>5. y \notin {x}
      BY <1>2
    <2>6. /\ IsFiniteSet({x} \cup {y})
          /\ Cardinality({x} \cup {y}) = IF y \in {x} THEN Cardinality({x}) ELSE Cardinality({x}) + 1
      BY <2>1, FS_AddElement
    <2>2. IsFiniteSet({x} \cup {y}) /\ Cardinality({x} \cup {y}) = 2
      BY <2>1, <2>5, <2>6
    <2>3. Cardinality({x} \cup {y}) <= Cardinality(S)
      BY <1>2, FS_Subset
    <2>4. Cardinality(S) \in Nat
      BY FS_CardinalityType
    <2> QED BY <2>2, <2>3, <2>4
  <1> QED BY <1>1, <1>2

LEMMA QuantityOfParts ==
  ASSUME NEW P, NEW part, Split(P, part), \A p \in P : \A l \in part[p] : Counted(l),
         NEW sums, \A p \in P : sums[p] = Quantity(part[p])
  PROVE  Quantity(UNION {part[p] : p \in P}) = SumFunctionOnSet(sums, P)
  <1> DEFINE all == UNION {part[p] : p \in P}
             f == [l \in all |-> l.quantity]
             piece == [p \in P |-> [l \in part[p] |-> l.quantity]]
  <1>1. Pieces(P, part, f, piece)
    BY DEF Counted, Pieces
  <1>2. \A p \in P : Quantity(part[p]) = SumFunctionOnSet(piece[p], part[p])
    BY DEF Quantity, SumFunction
  <1>3. Quantity(all) = SumFunctionOnSet(f, all)
    BY DEF Quantity, SumFunction
  <1> HIDE DEF f, piece
  <1> QED BY <1>1, <1>2, <1>3, SumOfPieces

LEMMA ValueOfParts ==
  ASSUME NEW P, NEW part, Split(P, part), \A p \in P : \A l \in part[p] : Priced(l),
         NEW sums, \A p \in P : sums[p] = Value(part[p])
  PROVE  Value(UNION {part[p] : p \in P}) = SumFunctionOnSet(sums, P)
  <1> DEFINE all == UNION {part[p] : p \in P}
             f == [l \in all |-> l.quantity * l.cost]
             piece == [p \in P |-> [l \in part[p] |-> l.quantity * l.cost]]
  <1>1. \A p \in P : \A l \in part[p] : l.quantity * l.cost \in Int
    BY DEF Priced, Counted
  <1>5. Pieces(P, part, f, piece)
    BY <1>1 DEF Pieces
  <1>2. \A p \in P : Value(part[p]) = SumFunctionOnSet(piece[p], part[p])
    BY DEF Value, SumFunction
  <1>3. Value(all) = SumFunctionOnSet(f, all)
    BY DEF Value, SumFunction
  <1> HIDE DEF f, piece
  <1> QED BY <1>5, <1>2, <1>3, SumOfPieces

LEMMA ImpactOfParts ==
  ASSUME NEW P, NEW part, Split(P, part), \A p \in P : \A e \in part[p] : e.impact \in Int,
         NEW sums, \A p \in P : sums[p] = Impact(part[p])
  PROVE  Impact(UNION {part[p] : p \in P}) = SumFunctionOnSet(sums, P)
  <1> DEFINE all == UNION {part[p] : p \in P}
             f == [e \in all |-> e.impact]
             piece == [p \in P |-> [e \in part[p] |-> e.impact]]
  <1>1. Pieces(P, part, f, piece)
    BY DEF Pieces
  <1>2. \A p \in P : Impact(part[p]) = SumFunctionOnSet(piece[p], part[p])
    BY DEF Impact, SumFunction
  <1>3. Impact(all) = SumFunctionOnSet(f, all)
    BY DEF Impact, SumFunction
  <1> HIDE DEF f, piece
  <1>4. SumFunctionOnSet(f, all) = SumFunctionOnSet(sums, P)
    BY <1>1, <1>2, SumOfPieces
  <1> QED BY <1>3, <1>4

LEMMA ValueType ==
  ASSUME NEW lines, IsFiniteSet(lines), \A l \in lines : Priced(l)
  PROVE  Value(lines) \in Int
  <1> DEFINE f == [l \in lines |-> l.quantity * l.cost]
  <1>1. \A l \in lines : l.quantity * l.cost \in Int
    BY DEF Priced, Counted
  <1>2. \A l \in lines : f[l] \in Int
    BY <1>1
  <1>3. Value(lines) = SumFunctionOnSet(f, lines)
    BY DEF Value, SumFunction
  <1> HIDE DEF f
  <1> QED BY <1>2, <1>3, SumType

LEMMA SumOfZero ==
  ASSUME NEW S, IsFiniteSet(S), NEW z, \A x \in S : z[x] = 0
  PROVE  SumFunctionOnSet(z, S) = 0
  <1>1. \A x \in S : z[x] \in Int /\ z[x] = z[x] + 1 * z[x]
    OBVIOUS
  <1>2. SumFunctionOnSet(z, S) \in Int
    BY <1>1, SumType
  <1>3. SumFunctionOnSet(z, S) = SumFunctionOnSet(z, S) + 1 * SumFunctionOnSet(z, S)
    BY <1>1, SumLinear
  <1>4. \A n \in Int : n = n + 1 * n => n = 0
    OBVIOUS
  <1> QED BY <1>2, <1>3, <1>4

\* What lines are worth above the same pieces at cost c.
LEMMA ValueAbove ==
  ASSUME NEW lines, IsFiniteSet(lines), \A l \in lines : Priced(l), NEW c \in Int,
         NEW above, \A l \in lines : above[l] = l.quantity * (l.cost - c)
  PROVE  SumFunctionOnSet(above, lines) = Value(lines) - c * Quantity(lines)
  <1> DEFINE f == [l \in lines |-> l.quantity * l.cost]
             g == [l \in lines |-> l.quantity]
  <1>1. ASSUME NEW l \in lines
        PROVE  f[l] \in Int /\ g[l] \in Int /\ above[l] = f[l] + (0 - c) * g[l]
    <2>1. l.quantity \in Int /\ l.cost \in Int
      BY DEF Priced, Counted
    <2>2. l.quantity * (l.cost - c) = l.quantity * l.cost + (0 - c) * l.quantity
      BY <2>1
    <2>3. l.quantity * l.cost \in Int
      BY <2>1
    <2> QED BY <2>1, <2>2, <2>3
  <1>2. Value(lines) = SumFunctionOnSet(f, lines) /\ Quantity(lines) = SumFunctionOnSet(g, lines)
    BY DEF Value, Quantity, SumFunction
  <1> HIDE DEF f, g
  <1>3. 0 - c \in Int
    OBVIOUS
  <1>4. SumFunctionOnSet(above, lines)
          = SumFunctionOnSet(f, lines) + (0 - c) * SumFunctionOnSet(g, lines)
    BY <1>1, <1>3, SumLinear
  <1>5. Value(lines) \in Int /\ Quantity(lines) \in Int
    BY ValueType, QuantityType DEF Priced
  <1>6. PICK v \in Int : v = Value(lines)
    BY <1>5
  <1>7. PICK q \in Int : q = Quantity(lines)
    BY <1>5
  <1>8. SumFunctionOnSet(above, lines) = v + (0 - c) * q
    BY <1>2, <1>4, <1>6, <1>7
  <1>9. v + (0 - c) * q = v - c * q
    OBVIOUS
  <1> QED BY <1>6, <1>7, <1>8, <1>9

LEMMA ValueAtCost ==
  ASSUME NEW lines, IsFiniteSet(lines), \A l \in lines : Priced(l), NEW c \in Int,
         \A l \in lines : l.cost = c
  PROVE  Value(lines) = c * Quantity(lines)
  <1> DEFINE z == [l \in lines |-> l.quantity * (l.cost - c)]
  <1>1. \A l \in lines : z[l] = 0
    BY DEF Priced, Counted
  <1>2. SumFunctionOnSet(z, lines) = Value(lines) - c * Quantity(lines)
    BY ValueAbove
  <1>3. SumFunctionOnSet(z, lines) = 0
    BY <1>1, SumOfZero
  <1> HIDE DEF z
  <1>4. PICK v \in Int : v = Value(lines)
    BY ValueType
  <1>5. PICK q \in Int : q = Quantity(lines)
    BY QuantityType DEF Priced
  <1>6. v - c * q = 0
    BY <1>2, <1>3, <1>4, <1>5
  <1>7. v = c * q
    BY <1>6
  <1> QED BY <1>4, <1>5, <1>7

-----------------------------------------------------------------------------
(* The pass over one order with no tolerance.                              *)

\* The lines of an order, of its deliveries and of its bills.
Trade(ordered, delivered, billed) ==
  /\ IsFiniteSet(ordered) /\ IsFiniteSet(delivered) /\ IsFiniteSet(billed)
  /\ UniqueIds(ordered) /\ UniqueIds(delivered) /\ UniqueIds(billed)
  /\ \A l \in ordered : Priced(l)
  /\ \A l \in billed : Priced(l)
  /\ \A l \in delivered : Counted(l)

Exact(t) == t.quantity = 0 /\ t.money = 0 /\ t.percent = 0
Unsorted == {"ambiguous_line", "unmatched_line"}
Bills(ordered, billed, ix) == [p \in ordered |-> BilledTo(p, ordered, billed, ix)]
Drops(ordered, delivered) == [p \in ordered |-> DeliveredTo(p, ordered, delivered)]

LEMMA ExactQuantity ==
  ASSUME NEW t, Exact(t), NEW a \in Int, NEW b \in Int
  PROVE  QuantityWithin(a, b, t) <=> a = b
  <1>1. Distance(a, b) \in Nat /\ (Distance(a, b) = 0 <=> a = b)
    BY DistanceType
  <1> QED BY <1>1 DEF QuantityWithin, Exact

LEMMA ExactMoney ==
  ASSUME NEW t, Exact(t), NEW a \in Int, NEW b \in Int
  PROVE  MoneyWithin(a, b, t) <=> a = b
  <1>1. PICK d \in Nat : d = Distance(a, b) /\ (d = 0 <=> a = b)
    BY DistanceType
  <1>2. PICK e \in Nat : e = Distance(a, 0)
    BY DistanceType
  <1>3. d * RateScale <= 0 * e => d = 0
    <2>1. d # 0 => d * RateScale > 0
      BY RateScaleAssumption
    <2> QED BY <2>1, RateScaleAssumption
  <1> QED BY <1>1, <1>2, <1>3 DEF MoneyWithin, Exact

\* Nothing reported as unmatched or ambiguous: every line found its order line.
LEMMA AllSorted ==
  ASSUME NEW ordered, NEW delivered, NEW billed, NEW ix, NEW t,
         \A e \in EvaluateLines(ordered, delivered, billed, ix, t) : e.code \notin Unsorted
  PROVE  /\ \A l \in billed : Clear(l, ordered, ix)
         /\ \A l \in delivered : Identified(l, ordered)
  <1>1. ASSUME NEW l \in billed, ~Clear(l, ordered, ix) PROVE FALSE
    <2> DEFINE e == Exception(InvoiceIssue(l, ordered, ix), l.id, l.total)
    <2>1. e \in EvaluateLines(ordered, delivered, billed, ix, t)
      BY <1>1 DEF EvaluateLines, When
    <2>2. e.code = InvoiceIssue(l, ordered, ix)
      BY DEF Exception
    <2>3. InvoiceIssue(l, ordered, ix) \in Unsorted
      BY <1>1 DEF Clear, InvoiceIssue, Unsorted
    <2> QED BY <2>1, <2>2, <2>3
  <1>2. ASSUME NEW l \in delivered, ~Identified(l, ordered) PROVE FALSE
    <2> DEFINE e == Exception(ReceiptIssue(l, ordered), l.id, 0)
    <2>1. e \in EvaluateLines(ordered, delivered, billed, ix, t)
      BY <1>2 DEF EvaluateLines, When
    <2>2. e.code = ReceiptIssue(l, ordered)
      BY DEF Exception
    <2>3. ReceiptIssue(l, ordered) \in Unsorted
      BY <1>2 DEF Identified, ReceiptIssue, Unsorted
    <2> QED BY <2>1, <2>2, <2>3
  <1> QED BY <1>1, <1>2

LEMMA BilledOnce ==
  ASSUME NEW ordered, IsFiniteSet(ordered), NEW ix, NEW l, Clear(l, ordered, ix)
  PROVE  \E p \in ordered : InvoiceTargets(l, ordered, ix) = {p}
  <1>1. /\ ~(Cardinality(InvoiceTargets(l, ordered, ix)) > 1)
        /\ InvoiceTargets(l, ordered, ix) # {}
    BY DEF Clear, InvoiceIssue, None
  <1>2. InvoiceTargets(l, ordered, ix) \subseteq ordered
    BY DEF InvoiceTargets
  <1>3. IsFiniteSet(InvoiceTargets(l, ordered, ix))
    BY <1>2, FS_Subset
  <1> QED BY <1>1, <1>2, <1>3, SingletonOf

LEMMA DeliveredOnce ==
  ASSUME NEW ordered, IsFiniteSet(ordered), NEW l, Identified(l, ordered)
  PROVE  \E p \in ordered : ReceiptTargets(l, ordered) = {p}
  <1>1. ~(Cardinality(ReceiptTargets(l, ordered)) > 1) /\ ReceiptTargets(l, ordered) # {}
    BY DEF Identified, ReceiptIssue, None
  <1>2. ReceiptTargets(l, ordered) \subseteq ordered
    BY DEF ReceiptTargets
  <1>3. IsFiniteSet(ReceiptTargets(l, ordered))
    BY <1>2, FS_Subset
  <1> QED BY <1>1, <1>2, <1>3, SingletonOf

\* The bills and the deliveries of an order, line by line.
LEMMA BilledInParts ==
  ASSUME NEW ordered, NEW delivered, NEW billed, Trade(ordered, delivered, billed), NEW ix,
         \A l \in billed : Clear(l, ordered, ix)
  PROVE  LET part == Bills(ordered, billed, ix) IN
         /\ Split(ordered, part) /\ billed = UNION {part[p] : p \in ordered}
         /\ \A p \in ordered : part[p] \subseteq billed /\ IsFiniteSet(part[p])
  <1> DEFINE part == Bills(ordered, billed, ix)
  <1>1. \A p \in ordered : part[p] = {l \in billed : p \in InvoiceTargets(l, ordered, ix)}
    BY DEF Bills, BilledTo
  <1> HIDE DEF part
  <1>2. \A p \in ordered : part[p] \subseteq billed
    BY <1>1
  <1>3. \A p \in ordered : IsFiniteSet(part[p])
    BY <1>2, FS_Subset DEF Trade
  <1>4. \A l \in billed : \E p \in ordered : InvoiceTargets(l, ordered, ix) = {p}
    BY BilledOnce DEF Trade
  <1>5. \A p, q \in ordered : p # q => part[p] \cap part[q] = {}
    BY <1>1, <1>4
  <1>6. billed = UNION {part[p] : p \in ordered}
    BY <1>1, <1>2, <1>4
  <1> QED BY <1>2, <1>3, <1>5, <1>6 DEF Split, Trade, part

LEMMA DeliveredInParts ==
  ASSUME NEW ordered, NEW delivered, NEW billed, Trade(ordered, delivered, billed),
         \A l \in delivered : Identified(l, ordered)
  PROVE  LET part == Drops(ordered, delivered) IN
         /\ Split(ordered, part) /\ delivered = UNION {part[p] : p \in ordered}
         /\ \A p \in ordered : part[p] \subseteq delivered /\ IsFiniteSet(part[p])
  <1> DEFINE part == Drops(ordered, delivered)
  <1>1. \A p \in ordered : part[p] = {l \in delivered : p \in ReceiptTargets(l, ordered)}
    BY DEF Drops, DeliveredTo
  <1> HIDE DEF part
  <1>2. \A p \in ordered : part[p] \subseteq delivered
    BY <1>1
  <1>3. \A p \in ordered : IsFiniteSet(part[p])
    BY <1>2, FS_Subset DEF Trade
  <1>4. \A l \in delivered : \E p \in ordered : ReceiptTargets(l, ordered) = {p}
    BY DeliveredOnce DEF Trade
  <1>5. \A p, q \in ordered : p # q => part[p] \cap part[q] = {}
    BY <1>1, <1>4
  <1>6. delivered = UNION {part[p] : p \in ordered}
    BY <1>1, <1>2, <1>4
  <1> QED BY <1>2, <1>3, <1>5, <1>6 DEF Split, Trade, part

\* What the pass over one order line reports is part of the whole.
LEMMA LineReported ==
  ASSUME NEW ordered, NEW delivered, NEW billed, NEW ix, NEW t, NEW p \in ordered
  PROVE  CheckLine(p, Drops(ordered, delivered)[p], Bills(ordered, billed, ix)[p], t)
           \subseteq EvaluateLines(ordered, delivered, billed, ix, t)
  BY DEF EvaluateLines, Drops, Bills

LEMMA LineTypes ==
  ASSUME NEW ordered, NEW delivered, NEW billed, Trade(ordered, delivered, billed), NEW ix,
         NEW p \in ordered
  PROVE  LET drops == Drops(ordered, delivered)[p]
             bills == Bills(ordered, billed, ix)[p]
         IN  /\ p.quantity \in Nat \ {0} /\ p.cost \in Nat /\ p.rate \in Nat
             /\ drops \subseteq delivered /\ IsFiniteSet(drops) /\ Quantity(drops) \in Nat
             /\ bills \subseteq billed /\ IsFiniteSet(bills) /\ Quantity(bills) \in Nat
             /\ \A l \in bills : Priced(l)
  <1> DEFINE drops == Drops(ordered, delivered)[p]
             bills == Bills(ordered, billed, ix)[p]
  <1>1. drops \subseteq delivered /\ bills \subseteq billed
    BY DEF Drops, Bills, DeliveredTo, BilledTo
  <1> HIDE DEF drops, bills
  <1>2. IsFiniteSet(drops) /\ IsFiniteSet(bills)
    BY <1>1, FS_Subset DEF Trade
  <1>3. (\A l \in drops : Counted(l)) /\ (\A l \in bills : Priced(l) /\ Counted(l))
    BY <1>1 DEF Trade, Priced
  <1>4. Quantity(drops) \in Nat /\ Quantity(bills) \in Nat
    BY <1>2, <1>3, QuantityType
  <1>5. p.quantity \in Nat \ {0} /\ p.cost \in Nat /\ p.rate \in Nat
    BY DEF Trade, Priced, Counted
  <1> QED BY <1>1, <1>2, <1>3, <1>4, <1>5 DEF drops, bills

\* An order line about which an exact pass reports nothing.
LEMMA CleanLine ==
  ASSUME NEW ordered, NEW delivered, NEW billed, Trade(ordered, delivered, billed), NEW ix,
         NEW t, Exact(t), EvaluateLines(ordered, delivered, billed, ix, t) = {},
         NEW p \in ordered
  PROVE  /\ Quantity(Drops(ordered, delivered)[p]) = p.quantity
         /\ Quantity(Bills(ordered, billed, ix)[p]) = p.quantity
         /\ \A l \in Bills(ordered, billed, ix)[p] : l.cost = p.cost
  <1> DEFINE drops == Drops(ordered, delivered)[p]
             bills == Bills(ordered, billed, ix)[p]
  <1>1. CheckLine(p, drops, bills, t) = {}
    BY LineReported
  <1>2. /\ p.quantity \in Int /\ p.cost \in Int
        /\ Quantity(drops) \in Int /\ Quantity(bills) \in Int
        /\ \A l \in bills : Priced(l)
    BY LineTypes
  <1> HIDE DEF drops, bills
  <1>3. CheckQuantities(p, drops, bills, t) = {} /\ \A l \in bills : CheckPrice(p, l, t) = {}
    BY <1>1 DEF CheckLine
  <1>4. ReceiptGap(p, Quantity(drops), t) = {} /\ InvoiceGap(p, Quantity(drops), bills, t) = {}
    BY <1>3 DEF CheckQuantities
  <1>5. QuantityWithin(p.quantity, Quantity(drops), t)
    BY <1>4 DEF ReceiptGap
  <1>6. QuantityWithin(Quantity(drops), Quantity(bills), t)
    BY <1>4 DEF InvoiceGap
  <1>7. p.quantity = Quantity(drops) /\ Quantity(drops) = Quantity(bills)
    BY <1>2, <1>5, <1>6, ExactQuantity
  <1>8. ASSUME NEW l \in bills PROVE l.cost = p.cost
    <2>1. MoneyWithin(p.cost, l.cost, t)
      BY <1>3 DEF CheckPrice, When
    <2>2. l.cost \in Int
      BY <1>2 DEF Priced
    <2> QED BY <1>2, <2>1, <2>2, ExactMoney
  <1> QED BY <1>7, <1>8 DEF drops, bills

\* In an exact clean pass a product is on one order line: lines that share one
\* leave each bill of it ambiguous, and no bill at all is a gap.
LEMMA OneLinePerProduct ==
  ASSUME NEW ordered, NEW delivered, NEW billed, Trade(ordered, delivered, billed), NEW ix,
         NEW t, Exact(t), EvaluateLines(ordered, delivered, billed, ix, t) = {},
         NEW p \in ordered, NEW q \in ordered, p.product = q.product
  PROVE  p = q
  <1> DEFINE bills == Bills(ordered, billed, ix)[p]
  <1>1. Quantity(bills) = p.quantity /\ p.quantity # 0
    BY CleanLine, LineTypes
  <1>2. bills # {}
    <2>1. Quantity({}) = 0
      BY SumEmpty DEF Quantity, SumFunction
    <2> QED BY <1>1, <2>1
  <1>3. PICK l : l \in bills
    BY <1>2
  <1>4. l \in billed /\ Clear(l, ordered, ix) /\ p \in InvoiceTargets(l, ordered, ix)
    BY <1>3 DEF Bills, BilledTo
  <1>5. q \in InvoiceTargets(l, ordered, ix)
    BY <1>4 DEF InvoiceTargets
  <1>6. \E o \in ordered : InvoiceTargets(l, ordered, ix) = {o}
    BY <1>4, BilledOnce DEF Trade
  <1> QED BY <1>4, <1>5, <1>6

LEMMA CleanPass ==
  ASSUME NEW ordered, NEW delivered, NEW billed, Trade(ordered, delivered, billed), NEW ix,
         NEW t, Exact(t), EvaluateLines(ordered, delivered, billed, ix, t) = {}
  PROVE  /\ Quantity(delivered) = Quantity(ordered)
         /\ Quantity(billed) = Quantity(ordered)
         /\ Value(billed) = Value(ordered)
         /\ \A p \in ordered :
              (\A d \in delivered : \A o \in ordered : d.po_line = o.id => d.product = o.product)
              => p.quantity = Quantity({d \in delivered : d.product = p.product})
  <1> DEFINE drops == Drops(ordered, delivered)
             bills == Bills(ordered, billed, ix)
             pieces == [p \in ordered |-> p.quantity]
             worth == [p \in ordered |-> p.quantity * p.cost]
  <1>1. (\A l \in billed : Clear(l, ordered, ix)) /\ (\A l \in delivered : Identified(l, ordered))
    BY AllSorted
  <1>2. Split(ordered, bills) /\ billed = UNION {bills[p] : p \in ordered}
    BY <1>1, BilledInParts
  <1>3. Split(ordered, drops) /\ delivered = UNION {drops[p] : p \in ordered}
    BY <1>1, DeliveredInParts
  <1>4. ASSUME NEW p \in ordered
        PROVE  /\ drops[p] \subseteq delivered /\ bills[p] \subseteq billed
               /\ \A l \in drops[p] : Counted(l)
               /\ \A l \in bills[p] : Counted(l) /\ Priced(l) /\ l.cost = p.cost
               /\ Quantity(drops[p]) = p.quantity /\ Quantity(bills[p]) = p.quantity
               /\ IsFiniteSet(bills[p])
    BY CleanLine, LineTypes DEF Priced, Trade
  <1>5. \A p \in ordered : Value(bills[p]) = p.quantity * p.cost
    <2> TAKE p \in ordered
    <2>1. p.cost \in Int /\ p.quantity \in Int
      BY LineTypes
    <2>2. Value(bills[p]) = p.cost * Quantity(bills[p])
      BY <1>4, <2>1, ValueAtCost
    <2> QED BY <1>4, <2>1, <2>2
  <1> HIDE DEF drops, bills
  <1>6. Quantity(ordered) = SumFunctionOnSet(pieces, ordered)
    BY DEF Quantity, SumFunction
  <1>7. Value(ordered) = SumFunctionOnSet(worth, ordered)
    BY DEF Value, SumFunction
  <1>8. \A p \in ordered : pieces[p] = Quantity(drops[p]) /\ pieces[p] = Quantity(bills[p])
                           /\ worth[p] = Value(bills[p])
    BY <1>4, <1>5
  <1> HIDE DEF pieces, worth
  <1>9. Quantity(delivered) = SumFunctionOnSet(pieces, ordered)
    BY <1>3, <1>4, <1>8, QuantityOfParts
  <1>10. Quantity(billed) = SumFunctionOnSet(pieces, ordered)
    BY <1>2, <1>4, <1>8, QuantityOfParts
  <1>11. Value(billed) = SumFunctionOnSet(worth, ordered)
    BY <1>2, <1>4, <1>8, ValueOfParts
  <1>12. ASSUME NEW p \in ordered,
                \A d \in delivered : \A o \in ordered : d.po_line = o.id => d.product = o.product
         PROVE  p.quantity = Quantity({d \in delivered : d.product = p.product})
    <2>1. ASSUME NEW d \in delivered, NEW o \in ordered, d \in drops[o]
          PROVE  d.product = o.product
      <3>1. o \in ReceiptTargets(d, ordered)
        BY <2>1 DEF drops, Drops, DeliveredTo
      <3> QED BY <1>12, <3>1 DEF ReceiptTargets
    <2>2. ASSUME NEW d \in delivered, d.product = p.product PROVE d \in drops[p]
      <3>1. PICK o \in ordered : d \in drops[o]
        BY <1>3
      <3>2. o.product = p.product
        BY <2>1, <2>2, <3>1
      <3> QED BY <3>1, <3>2, OneLinePerProduct
    <2>3. drops[p] = {d \in delivered : d.product = p.product}
      BY <1>4, <2>1, <2>2
    <2> QED BY <1>4, <2>3
  <1> QED BY <1>6, <1>7, <1>9, <1>10, <1>11, <1>12

LEMMA UniqueLines ==
  ASSUME NEW rows, IsFiniteSet(rows), UniqueIds(rows), LinesApart(rows),
         \A row \in rows : IsFiniteSet(row.lines) /\ UniqueIds(row.lines)
  PROVE  LET all == UNION {row.lines : row \in rows}
         IN  IsFiniteSet(all) /\ UniqueIds(all)
  <1> DEFINE all == UNION {row.lines : row \in rows}
  <1>1. IsFiniteSet(all)
    BY LinesOf
  <1>2. ASSUME NEW l \in all, NEW k \in all, l.id = k.id PROVE l = k
    <2>1. PICK a \in rows : l \in a.lines
      OBVIOUS
    <2>2. PICK b \in rows : k \in b.lines
      OBVIOUS
    <2>3. a = b
      BY <1>2, <2>1, <2>2 DEF LinesApart, UniqueIds
    <2> QED BY <1>2, <2>1, <2>2, <2>3 DEF UniqueIds
  <1> QED BY <1>1, <1>2 DEF UniqueIds

\* The evaluation of a run over an order is the pass over its lines.
LEMMA RunIsPass ==
  ASSUME NEW r, Recorded(r.records), r.records.orders # {}, NEW t
  PROVE  /\ Trade(OrderedBy(r), DeliveredBy(r), BilledBy(r))
         /\ EvaluateLines(OrderedBy(r), DeliveredBy(r), BilledBy(r), r.index, t)
              \subseteq Evaluate(r.records, r.index, t)
         /\ \A e \in Evaluate(r.records, r.index, t) :
              \/ e.code = "currency_mismatch"
              \/ e \in EvaluateLines(OrderedBy(r), DeliveredBy(r), BilledBy(r), r.index, t)
  <1>1. PICK o \in OrderRows : r.records.orders = {o}
    BY DEF Recorded, Lone
  <1> DEFINE posted == {d \in r.records.receipts : BelongsTo(d, o)}
             bills == {i \in r.records.invoices : BelongsTo(i, o)}
             delivered == UNION {d.lines : d \in posted}
             billed == UNION {i.lines : i \in bills}
  <1>2. OrderedBy(r) = o.lines
    BY <1>1 DEF OrderedBy
  <1>3. DeliveredBy(r) = delivered
    BY <1>1 DEF DeliveredBy
  <1>4. BilledBy(r) = billed
    BY <1>1 DEF BilledBy
  <1>5. posted \subseteq ReceiptRows /\ bills \subseteq InvoiceRows
        /\ UniqueIds(posted) /\ UniqueIds(bills)
    BY DEF Recorded, UniqueIds
  <1>6. IsFiniteSet(posted) /\ IsFiniteSet(bills)
    BY FS_Subset DEF Recorded
  <1>7. Evaluate(r.records, r.index, t) = EvaluateOrder(o, posted, bills, r.index, t)
    BY <1>1 DEF Evaluate
  <1> HIDE DEF posted, bills
  <1>8. LinesApart(posted) /\ LinesApart(bills)
    BY <1>5, RowsAssumption DEF LinesApart
  <1>9. /\ \A d \in posted : IsFiniteSet(d.lines) /\ UniqueIds(d.lines)
        /\ \A i \in bills : IsFiniteSet(i.lines) /\ UniqueIds(i.lines)
    BY <1>5, RowsAssumption
  <1>10. IsFiniteSet(delivered) /\ UniqueIds(delivered)
    BY <1>5, <1>6, <1>8, <1>9, UniqueLines
  <1>11. IsFiniteSet(billed) /\ UniqueIds(billed)
    BY <1>5, <1>6, <1>8, <1>9, UniqueLines
  <1>12. /\ \A l \in delivered : Counted(l)
         /\ \A l \in billed : Priced(l)
    BY <1>5, RowsAssumption
  <1>13. IsFiniteSet(o.lines) /\ UniqueIds(o.lines) /\ \A l \in o.lines : Priced(l)
    BY RowsAssumption
  <1>14. Evaluate(r.records, r.index, t)
           = (UNION {CheckCurrency(o, i) : i \in bills})
               \cup EvaluateLines(o.lines, delivered, billed, r.index, t)
    BY <1>7 DEF EvaluateOrder
  <1>15. \A i \in bills : \A e \in CheckCurrency(o, i) : e.code = "currency_mismatch"
    BY DEF CheckCurrency, When, Exception
  <1> HIDE DEF delivered, billed
  <1>16. Trade(o.lines, delivered, billed)
    BY <1>10, <1>11, <1>12, <1>13 DEF Trade
  <1> QED BY <1>2, <1>3, <1>4, <1>14, <1>15, <1>16

LEMMA StrictIsExact ==
  ASSUME NEW r, r.fingerprint.tolerances \in Tolerances, Strict(r)
  PROVE  Exact(r.fingerprint.tolerances)
  <1> DEFINE t == r.fingerprint.tolerances
  <1>1. t \in Bounds /\ \A bound \in DOMAIN t : t[bound] = 0
    BY TolerancesAssumption DEF Strict, Bounds
  <1> HIDE DEF t
  <1>2. DOMAIN t = {"quantity", "money", "percent"}
    BY <1>1 DEF Bounds
  <1>3. Exact(t)
    BY <1>1, <1>2 DEF Exact
  <1> QED BY <1>3 DEF t

LEMMA StoredStrict ==
  ASSUME AnswerInv, HeldInv, Next, NEW r \in runs' \ runs, Strict(r)
  PROVE  /\ Recorded(r.records) /\ Exact(r.fingerprint.tolerances)
         /\ r.exceptions = Evaluate(r.records, r.index, r.fingerprint.tolerances)
         /\ r.impact = Impact(r.exceptions)
  <1>1. PICK s \in Sessions :
          /\ Recorded(r.records) /\ r.fingerprint.tolerances = ask[s].tolerances
          /\ r.exceptions = Evaluate(r.records, r.index, ask[s].tolerances)
          /\ r.impact = Impact(r.exceptions)
    BY StoredHeld
  <1>2. r.fingerprint.tolerances \in Tolerances
    BY <1>1, TolerancesAssumption DEF AnswerInv
  <1> QED BY <1>1, <1>2, StrictIsExact

\* Whatever the documents, a run over an order that reports nothing at no
\* tolerance means they agree on the pieces and on the value.
THEOREM CleanMeansAgreed == Spec => CleanRunsAgree
  <1> DEFINE Agreed(r) ==
        r.records.orders # {} /\ Strict(r) /\ r.exceptions = {} =>
          /\ Quantity(DeliveredBy(r)) = Quantity(OrderedBy(r))
          /\ Quantity(BilledBy(r)) = Quantity(OrderedBy(r))
          /\ Value(BilledBy(r)) = Value(OrderedBy(r))
          /\ \A p \in OrderedBy(r) :
               (\A d \in DeliveredBy(r) : \A o \in OrderedBy(r) :
                  d.po_line = o.id => d.product = o.product)
               => p.quantity =
                    Quantity({d \in DeliveredBy(r) : d.product = p.product})
  <1>1. AnswerInv /\ HeldInv /\ [Next]_vars => [\A r \in runs' \ runs : Agreed(r)]_runs
    <2> SUFFICES ASSUME AnswerInv, HeldInv, Next, NEW r \in runs' \ runs,
                        r.records.orders # {}, Strict(r), r.exceptions = {}
                 PROVE  Agreed(r)
      BY DEF vars
    <2>1. Recorded(r.records) /\ Exact(r.fingerprint.tolerances)
          /\ Evaluate(r.records, r.index, r.fingerprint.tolerances) = {}
      BY StoredStrict
    <2>2. /\ Trade(OrderedBy(r), DeliveredBy(r), BilledBy(r))
          /\ EvaluateLines(OrderedBy(r), DeliveredBy(r), BilledBy(r), r.index,
                           r.fingerprint.tolerances) = {}
      BY <2>1, RunIsPass
    <2> QED BY <2>1, <2>2, CleanPass
  <1> QED BY <1>1, AnswersHold, RowsHold, PTL DEF Spec, CleanRunsAgree

-----------------------------------------------------------------------------
(* What the exceptions of an exact pass add up to.                         *)

PriceCodes == {"cost_mismatch"}
ReceiptCodes == {"short_receipt", "over_receipt"}
InvoiceCodes == {"over_invoice", "under_invoice", "invoice_without_receipt"}

LEMMA ImpactOfNone == Impact({}) = 0
  BY SumEmpty DEF Impact, SumFunction

LEMMA ImpactOfOne ==
  ASSUME NEW e, e.impact \in Int
  PROVE  Impact({e}) = e.impact
  <1> DEFINE f == [x \in {e} |-> x.impact]
  <1>1. f[e] = e.impact
    OBVIOUS
  <1>2. Impact({e}) = SumFunctionOnSet(f, {e})
    BY DEF Impact, SumFunction
  <1> HIDE DEF f
  <1>3. SumFunctionOnSet(f, {e}) = f[e]
    BY <1>1, SumOfOne
  <1> QED BY <1>1, <1>2, <1>3

LEMMA ImpactOfUnion ==
  ASSUME NEW A, NEW B, IsFiniteSet(A), IsFiniteSet(B), \A e \in A : e \notin B,
         \A e \in A : e.impact \in Int, \A e \in B : e.impact \in Int
  PROVE  Impact(A \cup B) = Impact(A) + Impact(B)
  <1> DEFINE f == [e \in A \cup B |-> e.impact]
             g == [e \in A |-> e.impact]
             h == [e \in B |-> e.impact]
  <1>1. /\ Impact(A \cup B) = SumFunctionOnSet(f, A \cup B)
        /\ Impact(A) = SumFunctionOnSet(g, A) /\ Impact(B) = SumFunctionOnSet(h, B)
    BY DEF Impact, SumFunction
  <1>2. \A e \in A : g[e] = f[e] /\ f[e] \in Int
    OBVIOUS
  <1>3. \A e \in B : h[e] = f[e] /\ f[e] \in Int
    OBVIOUS
  <1> HIDE DEF f, g, h
  <1>4. SumFunctionOnSet(g, A) = SumFunctionOnSet(f, A)
    BY <1>2, SumSame
  <1>5. SumFunctionOnSet(h, B) = SumFunctionOnSet(f, B)
    BY <1>3, SumSame
  <1>6. SumFunctionOnSet(f, A \cup B) = SumFunctionOnSet(f, A) + SumFunctionOnSet(f, B)
    BY <1>2, <1>3, SumUnion
  <1> QED BY <1>1, <1>4, <1>5, <1>6

LEMMA ReceiptImpact ==
  ASSUME NEW p, p.quantity \in Int, p.cost \in Int, NEW received \in Int, NEW t, Exact(t)
  PROVE  LET gap == ReceiptGap(p, received, t) IN
         /\ IsFiniteSet(gap) /\ Impact(gap) = (received - p.quantity) * p.cost
         /\ \A e \in gap : e.code \in ReceiptCodes /\ e.about = p.id /\ e.impact \in Int
  <1> DEFINE gap == ReceiptGap(p, received, t)
             impact == (received - p.quantity) * p.cost
  <1>1. CASE received = p.quantity
    <2>1. gap = {}
      BY <1>1, ExactQuantity DEF ReceiptGap
    <2> QED BY <1>1, <2>1, ImpactOfNone, FS_EmptySet
  <1>2. CASE received # p.quantity
    <2>1. impact \in Int
      OBVIOUS
    <2>2. ~QuantityWithin(p.quantity, received, t)
      BY <1>2, ExactQuantity
    <2>3. PICK code \in ReceiptCodes : gap = {Exception(code, p.id, impact)}
      BY <2>2 DEF ReceiptGap, ReceiptCodes
    <2> DEFINE e == Exception(code, p.id, impact)
    <2>4. e.code = code /\ e.about = p.id /\ e.impact = impact
      BY DEF Exception
    <2> HIDE DEF e, gap, impact
    <2>5. gap = {e}
      BY <2>3 DEF e
    <2>6. IsFiniteSet({e})
      BY FS_Singleton
    <2>7. Impact({e}) = impact
      BY <2>1, <2>4, ImpactOfOne
    <2> QED BY <2>1, <2>4, <2>5, <2>6, <2>7 DEF gap, impact
  <1> QED BY <1>1, <1>2

\* What CheckPrice reports, when it reports no tax.
LEMMA PriceImpact ==
  ASSUME NEW p, p.cost \in Int, NEW l, Priced(l), NEW t, Exact(t),
         \A e \in CheckPrice(p, l, t) : e.code # "unexpected_tax"
  PROVE  LET reported == CheckPrice(p, l, t) IN
         /\ IsFiniteSet(reported) /\ Impact(reported) = l.quantity * (l.cost - p.cost)
         /\ \A e \in reported : e.code \in PriceCodes /\ e.about = l.id /\ e.impact \in Int
  <1> DEFINE reported == CheckPrice(p, l, t)
             impact == l.quantity * (l.cost - p.cost)
             e == Exception("cost_mismatch", l.id, impact)
             tax == Exception("unexpected_tax", l.id, TaxOn(l.quantity * l.cost, l.rate - p.rate))
  <1>1. l.cost \in Int /\ l.quantity \in Int
    BY DEF Priced, Counted
  <1>2. impact \in Int
    BY <1>1
  <1>3. reported = When(l.cost # p.cost, e) \cup When(~MoneyWithin(p.rate, l.rate, t), tax)
    BY <1>1, ExactMoney DEF CheckPrice
  <1>4. e.code = "cost_mismatch" /\ e.about = l.id /\ e.impact = impact /\ tax.code = "unexpected_tax"
    BY DEF Exception
  <1> HIDE DEF reported, e, tax
  <1>5. \A x \in reported : x.code # "unexpected_tax"
    BY DEF reported
  <1>6. reported = When(l.cost # p.cost, e)
    BY <1>3, <1>4, <1>5 DEF When
  <1>7. CASE l.cost = p.cost
    <2>1. reported = {} /\ impact = 0
      BY <1>1, <1>6, <1>7 DEF When
    <2> HIDE DEF impact
    <2>2. IsFiniteSet(reported) /\ Impact(reported) = impact
      BY <2>1, ImpactOfNone, FS_EmptySet
    <2> QED BY <2>1, <2>2 DEF reported, impact
  <1>8. CASE l.cost # p.cost
    <2>1. reported = {e}
      BY <1>6, <1>8 DEF When
    <2> HIDE DEF impact
    <2>2. IsFiniteSet({e})
      BY FS_Singleton
    <2>3. Impact({e}) = impact
      BY <1>2, <1>4, ImpactOfOne
    <2>4. e.code \in PriceCodes
      BY <1>4 DEF PriceCodes
    <2> QED BY <1>2, <1>4, <2>1, <2>2, <2>3, <2>4 DEF reported, impact
  <1> QED BY <1>7, <1>8

Prices(p, bills, t) == UNION {CheckPrice(p, l, t) : l \in bills}

LEMMA PricesImpact ==
  ASSUME NEW p, p.cost \in Int, NEW bills, IsFiniteSet(bills), UniqueIds(bills),
         \A l \in bills : Priced(l), NEW t, Exact(t),
         \A l \in bills : \A e \in CheckPrice(p, l, t) : e.code # "unexpected_tax"
  PROVE  LET prices == Prices(p, bills, t) IN
         /\ IsFiniteSet(prices) /\ Impact(prices) = Value(bills) - p.cost * Quantity(bills)
         /\ \A e \in prices : /\ e.code \in PriceCodes /\ e.impact \in Int
                              /\ \E l \in bills : e.about = l.id
  <1> DEFINE part == [l \in bills |-> CheckPrice(p, l, t)]
             prices == Prices(p, bills, t)
             above == [l \in bills |-> l.quantity * (l.cost - p.cost)]
  <1>1. ASSUME NEW l \in bills
        PROVE  /\ IsFiniteSet(part[l]) /\ Impact(part[l]) = above[l]
               /\ \A e \in part[l] : e.code \in PriceCodes /\ e.about = l.id /\ e.impact \in Int
    BY PriceImpact
  <1>2. prices = UNION {part[l] : l \in bills}
    BY DEF Prices
  <1>3. \A l \in bills : above[l] = l.quantity * (l.cost - p.cost)
    OBVIOUS
  <1> HIDE DEF part, prices, above
  <1>4. Split(bills, part)
    BY <1>1 DEF Split, UniqueIds
  <1>5. Impact(UNION {part[l] : l \in bills}) = SumFunctionOnSet(above, bills)
    BY <1>1, <1>4, ImpactOfParts
  <1>6. SumFunctionOnSet(above, bills) = Value(bills) - p.cost * Quantity(bills)
    BY <1>3, ValueAbove
  <1>7. IsFiniteSet({part[l] : l \in bills})
    BY FiniteRange
  <1>8. IsFiniteSet(UNION {part[l] : l \in bills})
    BY <1>1, <1>7, FS_UNION
  <1>9. \A e \in prices : /\ e.code \in PriceCodes /\ e.impact \in Int
                          /\ \E l \in bills : e.about = l.id
    BY <1>1, <1>2
  <1> QED BY <1>2, <1>5, <1>6, <1>8, <1>9 DEF prices

LEMMA EvenDivision ==
  ASSUME NEW c \in Int, NEW q \in Nat \ {0}
  PROVE  HalfEven(c * q, q) = c
  <1> DEFINE n == c * q
             x == n \div q
             r == n % q
  <1>1. n \in Int
    OBVIOUS
  <1> HIDE DEF n
  <1>2. x \in Int /\ r \in Int /\ n = q * x + r /\ 0 <= r /\ r < q
    BY <1>1
  <1> HIDE DEF x, r
  <1>3. n = q * c
    BY DEF n
  <1>4. PICK d \in Int : d = c - x
    BY <1>2
  <1>5. q * d = r
    BY <1>2, <1>3, <1>4
  <1>6. d = 0
    <2>1. d >= 1 => q * d >= q
      OBVIOUS
    <2>2. d <= -1 => q * d <= -q
      OBVIOUS
    <2> QED BY <1>2, <1>5, <2>1, <2>2
  <1>7. x = c /\ r = 0
    BY <1>2, <1>4, <1>5, <1>6
  <1>8. HalfEven(n, q) = IF 2 * r > q \/ (2 * r = q /\ x % 2 = 1) THEN x + 1 ELSE x
    BY DEF HalfEven, x, r
  <1>9. HalfEven(n, q) = c
    BY <1>7, <1>8
  <1> QED BY <1>9 DEF n

LEMMA UnitCostOfOrder ==
  ASSUME NEW bills, IsFiniteSet(bills), \A l \in bills : Priced(l), NEW c \in Int,
         \A l \in bills : l.cost = c
  PROVE  UnitCost(bills, c) = c
  <1>1. PICK q \in Nat : q = Quantity(bills)
    BY QuantityType DEF Priced
  <1>2. Value(bills) = c * q
    BY <1>1, ValueAtCost
  <1>3. q # 0 => HalfEven(c * q, q) = c
    BY EvenDivision
  <1> QED BY <1>1, <1>2, <1>3 DEF UnitCost

LEMMA InvoiceImpact ==
  ASSUME NEW p, p.cost \in Int, NEW received \in Int, NEW bills, IsFiniteSet(bills),
         \A l \in bills : Priced(l), \A l \in bills : l.cost = p.cost, NEW t, Exact(t)
  PROVE  LET gap == InvoiceGap(p, received, bills, t) IN
         /\ IsFiniteSet(gap) /\ Impact(gap) = (Quantity(bills) - received) * p.cost
         /\ \A e \in gap : e.code \in InvoiceCodes /\ e.about = p.id /\ e.impact \in Int
  <1> DEFINE gap == InvoiceGap(p, received, bills, t)
  <1>1. PICK q \in Int : q = Quantity(bills)
    BY QuantityType DEF Priced
  <1> DEFINE impact == (q - received) * p.cost
  <1>2. UnitCost(bills, p.cost) = p.cost
    BY UnitCostOfOrder
  <1>3. CASE received = q
    <2>1. gap = {}
      BY <1>1, <1>3, ExactQuantity DEF InvoiceGap
    <2> QED BY <1>1, <1>3, <2>1, ImpactOfNone, FS_EmptySet
  <1>4. CASE received # q
    <2>1. impact \in Int
      OBVIOUS
    <2>2. ~QuantityWithin(received, q, t)
      BY <1>4, ExactQuantity
    <2>3. PICK code \in InvoiceCodes : gap = {Exception(code, p.id, impact)}
      BY <1>1, <1>2, <2>2 DEF InvoiceGap, InvoiceCodes
    <2> DEFINE e == Exception(code, p.id, impact)
    <2>4. e.code = code /\ e.about = p.id /\ e.impact = impact
      BY DEF Exception
    <2> HIDE DEF e, gap, impact
    <2>5. gap = {e}
      BY <2>3 DEF e
    <2>6. IsFiniteSet({e})
      BY FS_Singleton
    <2>7. Impact({e}) = impact
      BY <2>1, <2>4, ImpactOfOne
    <2> QED BY <1>1, <2>1, <2>4, <2>5, <2>6, <2>7 DEF gap, impact
  <1> QED BY <1>3, <1>4

\* The exceptions of one order line: what was billed on it above what was ordered.
LEMMA LineImpact ==
  ASSUME NEW p, p.quantity \in Int, p.cost \in Int, NEW drops, Quantity(drops) \in Int,
         NEW bills, IsFiniteSet(bills), UniqueIds(bills), \A l \in bills : Priced(l),
         NEW t, Exact(t),
         \/ \A e \in CheckLine(p, drops, bills, t) : e.code \in ReceiptCodes \cup PriceCodes
         \/ \A e \in CheckLine(p, drops, bills, t) : e.code \in ReceiptCodes \cup InvoiceCodes
  PROVE  LET line == CheckLine(p, drops, bills, t) IN
         /\ IsFiniteSet(line) /\ Impact(line) = Value(bills) - p.quantity * p.cost
         /\ \A e \in line :
              /\ e.impact \in Int
              /\ \/ e.code \in ReceiptCodes \cup InvoiceCodes /\ e.about = p.id
                 \/ e.code \in PriceCodes /\ \E l \in bills : e.about = l.id
  <1> DEFINE line == CheckLine(p, drops, bills, t)
             gap == ReceiptGap(p, Quantity(drops), t)
             due == InvoiceGap(p, Quantity(drops), bills, t)
             prices == Prices(p, bills, t)
  <1>1. line = (gap \cup due) \cup prices
    BY DEF CheckLine, CheckQuantities, Prices
  <1>2. PICK d \in Int : d = Quantity(drops)
    OBVIOUS
  <1>3. PICK q \in Int : q = Quantity(bills)
    BY QuantityType DEF Priced
  <1>4. PICK v \in Int : v = Value(bills)
    BY ValueType
  <1>5. /\ IsFiniteSet(gap) /\ Impact(gap) = (d - p.quantity) * p.cost
        /\ \A e \in gap : e.code \in ReceiptCodes /\ e.about = p.id /\ e.impact \in Int
    BY <1>2, ReceiptImpact
  <1>6. CASE \A e \in line : e.code \in ReceiptCodes \cup PriceCodes
    <2>1. due = {}
      <3>1. \A e \in due : e.code \in InvoiceCodes
        BY DEF InvoiceGap, InvoiceCodes, Exception
      <3> QED BY <1>1, <1>6, <3>1 DEF ReceiptCodes, PriceCodes, InvoiceCodes
    <2>2. d = q
      <3>1. QuantityWithin(Quantity(drops), Quantity(bills), t)
        BY <2>1 DEF InvoiceGap
      <3> QED BY <1>2, <1>3, <3>1, ExactQuantity
    <2>3. \A l \in bills : \A e \in CheckPrice(p, l, t) : e.code # "unexpected_tax"
      BY <1>1, <1>6 DEF ReceiptCodes, PriceCodes, Prices
    <2>4. /\ IsFiniteSet(prices) /\ Impact(prices) = v - p.cost * q
          /\ \A e \in prices : /\ e.code \in PriceCodes /\ e.impact \in Int
                               /\ \E l \in bills : e.about = l.id
      BY <1>3, <1>4, <2>3, PricesImpact
    <2> HIDE DEF line, gap, due, prices
    <2>5. line = gap \cup prices
      BY <1>1, <2>1
    <2>6. \A e \in gap : e \notin prices
      BY <1>5, <2>4 DEF ReceiptCodes, PriceCodes
    <2>7. IsFiniteSet(line)
      BY <1>5, <2>4, <2>5, FS_Union
    <2>8. Impact(line) = Impact(gap) + Impact(prices)
      BY <1>5, <2>4, <2>5, <2>6, ImpactOfUnion
    <2>9. (d - p.quantity) * p.cost + (v - p.cost * q) = v - p.quantity * p.cost
      BY <2>2
    <2>10. Impact(line) = Value(bills) - p.quantity * p.cost
      BY <1>4, <1>5, <2>4, <2>8, <2>9
    <2> QED BY <1>5, <2>4, <2>5, <2>7, <2>10 DEF line
  <1>7. CASE \A e \in line : e.code \in ReceiptCodes \cup InvoiceCodes
    <2>1. prices = {}
      <3>1. \A l \in bills : \A e \in CheckPrice(p, l, t) : e.code \in {"cost_mismatch", "unexpected_tax"}
        BY DEF CheckPrice, When, Exception
      <3> QED BY <1>1, <1>7, <3>1 DEF ReceiptCodes, InvoiceCodes, Prices
    <2>2. ASSUME NEW l \in bills PROVE l.cost = p.cost
      <3>1. CheckPrice(p, l, t) = {}
        BY <2>1 DEF Prices
      <3>2. MoneyWithin(p.cost, l.cost, t)
        BY <3>1 DEF CheckPrice, When
      <3>3. l.cost \in Int
        BY DEF Priced
      <3> QED BY <3>2, <3>3, ExactMoney
    <2>3. v = p.cost * q
      BY <1>3, <1>4, <2>2, ValueAtCost
    <2>4. /\ IsFiniteSet(due) /\ Impact(due) = (q - d) * p.cost
          /\ \A e \in due : e.code \in InvoiceCodes /\ e.about = p.id /\ e.impact \in Int
      BY <1>2, <1>3, <2>2, InvoiceImpact
    <2> HIDE DEF line, gap, due, prices
    <2>5. line = gap \cup due
      BY <1>1, <2>1
    <2>6. \A e \in gap : e \notin due
      BY <1>5, <2>4 DEF ReceiptCodes, InvoiceCodes
    <2>7. IsFiniteSet(line)
      BY <1>5, <2>4, <2>5, FS_Union
    <2>8. Impact(line) = Impact(gap) + Impact(due)
      BY <1>5, <2>4, <2>5, <2>6, ImpactOfUnion
    <2>9. (d - p.quantity) * p.cost + (q - d) * p.cost = p.cost * q - p.quantity * p.cost
      OBVIOUS
    <2>10. Impact(line) = Value(bills) - p.quantity * p.cost
      BY <1>4, <1>5, <2>3, <2>4, <2>8, <2>9
    <2> QED BY <1>5, <2>4, <2>5, <2>7, <2>10 DEF line
  <1> QED BY <1>6, <1>7

LEMMA PassImpact ==
  ASSUME NEW ordered, NEW delivered, NEW billed, Trade(ordered, delivered, billed), NEW ix,
         NEW t, Exact(t),
         \/ \A e \in EvaluateLines(ordered, delivered, billed, ix, t) :
              e.code \in ReceiptCodes \cup PriceCodes
         \/ \A e \in EvaluateLines(ordered, delivered, billed, ix, t) :
              e.code \in ReceiptCodes \cup InvoiceCodes
  PROVE  Impact(EvaluateLines(ordered, delivered, billed, ix, t)) = Value(billed) - Value(ordered)
  <1> DEFINE all == EvaluateLines(ordered, delivered, billed, ix, t)
             drops == Drops(ordered, delivered)
             bills == Bills(ordered, billed, ix)
             line == [p \in ordered |-> CheckLine(p, drops[p], bills[p], t)]
             due == [p \in ordered |-> Value(bills[p])]
             worth == [p \in ordered |-> p.quantity * p.cost]
             rest == [p \in ordered |-> Value(bills[p]) - p.quantity * p.cost]
  <1>1. \A e \in all : e.code \in ReceiptCodes \cup PriceCodes \cup InvoiceCodes
    OBVIOUS
  <1>2. \A e \in all : e.code \notin Unsorted /\ e.code # "line_total_mismatch"
    BY <1>1 DEF Unsorted, ReceiptCodes, PriceCodes, InvoiceCodes
  <1>3. (\A l \in billed : Clear(l, ordered, ix)) /\ (\A l \in delivered : Identified(l, ordered))
    BY <1>2, AllSorted
  <1>4. /\ Split(ordered, bills) /\ billed = UNION {bills[p] : p \in ordered}
        /\ \A p \in ordered : bills[p] \subseteq billed
    BY <1>3, BilledInParts
  <1>5. all = UNION {line[p] : p \in ordered}
    <2>1. \A l \in billed \cup ordered : CheckLineTotal(l, t) \subseteq all
      BY DEF EvaluateLines
    <2>2. \A l \in billed \cup ordered : CheckLineTotal(l, t) = {}
      BY <1>2, <2>1 DEF CheckLineTotal, When, Exception
    <2>3. (UNION {CheckLineTotal(l, t) : l \in billed \cup ordered}) = {}
      BY <2>2
    <2>4. \A l \in billed : When(~Clear(l, ordered, ix), Exception(InvoiceIssue(l, ordered, ix), l.id, l.total)) = {}
      BY <1>3 DEF When
    <2>5. \A l \in delivered : When(~Identified(l, ordered), Exception(ReceiptIssue(l, ordered), l.id, 0)) = {}
      BY <1>3 DEF When
    <2>6. \A p \in ordered : line[p] = CheckLine(p, DeliveredTo(p, ordered, delivered),
                                               BilledTo(p, ordered, billed, ix), t)
      BY DEF Drops, Bills
    <2> HIDE DEF line
    <2>7. (UNION {CheckLine(p, DeliveredTo(p, ordered, delivered), BilledTo(p, ordered, billed, ix), t) : p \in ordered})
            = UNION {line[p] : p \in ordered}
      BY <2>6
    <2> QED BY <2>3, <2>4, <2>5, <2>7 DEF EvaluateLines
  <1>6. ASSUME NEW p \in ordered
        PROVE  /\ IsFiniteSet(line[p]) /\ Impact(line[p]) = rest[p]
               /\ \A e \in line[p] :
                    /\ e.impact \in Int
                    /\ \/ e.code \in ReceiptCodes \cup InvoiceCodes /\ e.about = p.id
                       \/ e.code \in PriceCodes /\ \E l \in bills[p] : e.about = l.id
    <2>1. /\ p.quantity \in Int /\ p.cost \in Int /\ Quantity(drops[p]) \in Int
          /\ IsFiniteSet(bills[p]) /\ bills[p] \subseteq billed /\ \A l \in bills[p] : Priced(l)
      BY LineTypes
    <2>2. UniqueIds(bills[p])
      BY <2>1 DEF UniqueIds, Trade
    <2>3. CheckLine(p, drops[p], bills[p], t) \subseteq all
      BY LineReported
    <2> HIDE DEF drops, bills, all
    <2>4. \/ \A e \in CheckLine(p, drops[p], bills[p], t) : e.code \in ReceiptCodes \cup PriceCodes
          \/ \A e \in CheckLine(p, drops[p], bills[p], t) : e.code \in ReceiptCodes \cup InvoiceCodes
      BY <2>3 DEF all
    <2> QED BY <2>1, <2>2, <2>4, LineImpact
  <1>7. \A p \in ordered : Value(bills[p]) \in Int /\ p.quantity * p.cost \in Int
    <2> TAKE p \in ordered
    <2>1. /\ p.quantity \in Int /\ p.cost \in Int /\ IsFiniteSet(bills[p])
          /\ \A l \in bills[p] : Priced(l)
      BY LineTypes
    <2> QED BY <2>1, ValueType
  <1>8. Split(ordered, line)
    <2>1. ASSUME NEW p \in ordered, NEW q \in ordered, NEW e \in line[p], e \in line[q] PROVE p = q
      <3>1. CASE e.code \in PriceCodes
        <4>1. e.code \notin ReceiptCodes \cup InvoiceCodes
          BY <3>1 DEF PriceCodes, ReceiptCodes, InvoiceCodes
        <4>2. PICK l \in bills[p] : e.about = l.id
          BY <1>6, <4>1
        <4>3. PICK k \in bills[q] : e.about = k.id
          BY <1>6, <2>1, <4>1
        <4> HIDE DEF bills
        <4>4. l \in billed /\ k \in billed /\ l.id = k.id
          BY <1>4, <4>2, <4>3
        <4>5. l = k
          BY <4>4 DEF Trade, UniqueIds
        <4> QED BY <1>4, <4>2, <4>3, <4>5 DEF Split
      <3>2. CASE e.code \notin PriceCodes
        <4>1. e.about = p.id /\ e.about = q.id
          BY <1>6, <2>1, <3>2
        <4> QED BY <4>1 DEF Trade, UniqueIds
      <3> QED BY <3>1, <3>2
    <2>2. \A p, q \in ordered : p # q => line[p] \cap line[q] = {}
      BY <2>1
    <2> HIDE DEF line
    <2> QED BY <1>6, <2>2 DEF Split, Trade
  <1> HIDE DEF all, drops, bills, line
  <1>9. Impact(UNION {line[p] : p \in ordered}) = SumFunctionOnSet(rest, ordered)
    <2>1. \A p \in ordered : rest[p] = Impact(line[p])
      BY <1>6
    <2>2. \A p \in ordered : \A e \in line[p] : e.impact \in Int
      BY <1>6
    <2> HIDE DEF rest
    <2> QED BY <1>8, <2>1, <2>2, ImpactOfParts
  <1>10. Value(billed) = SumFunctionOnSet(due, ordered)
    <2>1. \A p \in ordered : \A l \in bills[p] : Priced(l)
      BY <1>4 DEF Trade
    <2>2. \A p \in ordered : due[p] = Value(bills[p])
      OBVIOUS
    <2> HIDE DEF due
    <2> QED BY <1>4, <2>1, <2>2, ValueOfParts
  <1>11. Value(ordered) = SumFunctionOnSet(worth, ordered)
    BY DEF Value, SumFunction
  <1>12. \A p \in ordered : due[p] \in Int /\ worth[p] \in Int /\ rest[p] = due[p] + (-1) * worth[p]
    BY <1>7
  <1>13. IsFiniteSet(ordered) /\ -1 \in Int
    BY DEF Trade
  <1> HIDE DEF due, worth, rest
  <1>14. SumFunctionOnSet(rest, ordered)
           = SumFunctionOnSet(due, ordered) + (-1) * SumFunctionOnSet(worth, ordered)
    BY <1>12, <1>13, SumLinear
  <1>15. SumFunctionOnSet(due, ordered) \in Int /\ SumFunctionOnSet(worth, ordered) \in Int
    BY <1>12, <1>13, SumType
  <1>16. Impact(all) = Value(billed) - Value(ordered)
    BY <1>5, <1>9, <1>10, <1>11, <1>14, <1>15
  <1> QED BY <1>16 DEF all

\* However the quantities of an order went astray, what a run reports at no
\* tolerance adds up to what was billed less what was ordered.
THEOREM ImpactsAddUp == Spec => ImpactAddsUp
  <1> DEFINE Adds(r) ==
        LET price == {"cost_mismatch"}
            receipt == {"short_receipt", "over_receipt"}
            invoice == {"over_invoice", "under_invoice", "invoice_without_receipt"}
        IN  /\ r.records.orders # {} /\ Strict(r)
            /\ Codes(r) \subseteq receipt \cup price \/ Codes(r) \subseteq receipt \cup invoice
            => r.impact = Value(BilledBy(r)) - Value(OrderedBy(r))
  <1>1. AnswerInv /\ HeldInv /\ [Next]_vars => [\A r \in runs' \ runs : Adds(r)]_runs
    <2> SUFFICES ASSUME AnswerInv, HeldInv, Next, NEW r \in runs' \ runs,
                        r.records.orders # {}, Strict(r),
                        \/ Codes(r) \subseteq ReceiptCodes \cup PriceCodes
                        \/ Codes(r) \subseteq ReceiptCodes \cup InvoiceCodes
                 PROVE  r.impact = Value(BilledBy(r)) - Value(OrderedBy(r))
      BY DEF vars, ReceiptCodes, PriceCodes, InvoiceCodes
    <2> DEFINE t == r.fingerprint.tolerances
               pass == EvaluateLines(OrderedBy(r), DeliveredBy(r), BilledBy(r), r.index, t)
    <2>1. /\ Recorded(r.records) /\ Exact(t) /\ r.exceptions = Evaluate(r.records, r.index, t)
          /\ r.impact = Impact(r.exceptions)
      BY StoredStrict
    <2>2. /\ Trade(OrderedBy(r), DeliveredBy(r), BilledBy(r))
          /\ pass \subseteq r.exceptions
          /\ \A e \in r.exceptions : e.code = "currency_mismatch" \/ e \in pass
      <3>1. Recorded(r.records) /\ r.records.orders # {}
        BY <2>1
      <3>2. /\ Trade(OrderedBy(r), DeliveredBy(r), BilledBy(r))
            /\ pass \subseteq Evaluate(r.records, r.index, t)
            /\ \A e \in Evaluate(r.records, r.index, t) : e.code = "currency_mismatch" \/ e \in pass
        BY <3>1, RunIsPass
      <3> QED BY <2>1, <3>2
    <2>3. \/ \A e \in r.exceptions : e.code \in ReceiptCodes \cup PriceCodes
          \/ \A e \in r.exceptions : e.code \in ReceiptCodes \cup InvoiceCodes
      BY DEF Codes
    <2> HIDE DEF pass, t
    <2>4. pass = r.exceptions
      BY <2>2, <2>3 DEF ReceiptCodes, PriceCodes, InvoiceCodes
    <2>5. \/ \A e \in pass : e.code \in ReceiptCodes \cup PriceCodes
          \/ \A e \in pass : e.code \in ReceiptCodes \cup InvoiceCodes
      BY <2>3, <2>4
    <2>6. Impact(pass) = Value(BilledBy(r)) - Value(OrderedBy(r))
      BY <2>1, <2>2, <2>5, PassImpact DEF pass
    <2> QED BY <2>1, <2>4, <2>6
  <1> QED BY <1>1, AnswersHold, RowsHold, PTL DEF Spec, ImpactAddsUp

=============================================================================
