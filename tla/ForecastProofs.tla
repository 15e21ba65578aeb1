--------------------------- MODULE ForecastProofs ----------------------------
(***************************************************************************)
(* The local model registry under any number of overlapping and killed     *)
(* sessions, the promotion gates, and the evaluations of a panel read      *)
(* while sales are ingested.                                               *)
(***************************************************************************)
EXTENDS ModelRegistry, ForecastEvaluation, SumLemmas, TLAPS

-----------------------------------------------------------------------------
(* The gates.                                                              *)

Scores == [error : Nat, actual : Nat, count : Nat]

LEMMA Cancel ==
  ASSUME NEW a \in Nat, NEW b \in Nat, NEW k \in Nat \ {0}, a * k < b * k
  PROVE  a <= b
<1>1. SUFFICES ASSUME b < a PROVE FALSE
  OBVIOUS
<1>2. PICK d \in Nat : a = b + d
  <2>1. a - b \in Nat /\ a = b + (a - b)
    BY <1>1
  <2> QED
    BY <2>1
<1>3. a * k = b * k + d * k
  BY <1>2
<1>4. d * k \in Nat /\ b * k \in Nat
  OBVIOUS
<1> QED
  BY <1>3, <1>4

LEMMA Scale2 ==
  ASSUME NEW a \in Nat, NEW b \in Nat, NEW k \in Nat, a <= b
  PROVE  a * k <= b * k
<1>1. PICK d \in Nat : b = a + d
  <2>1. b - a \in Nat /\ b = a + (b - a)
    OBVIOUS
  <2> QED
    BY <2>1
<1>2. b * k = a * k + d * k
  BY <1>1
<1>3. d * k \in Nat /\ a * k \in Nat
  OBVIOUS
<1> QED
  BY <1>2, <1>3

\* A model that passes the accuracy gate against another passes the secondary
\* gate against it when both were scored on the same points: the mean and the
\* weighted error divide the same sum of errors.
THEOREM GateImplied ==
  ASSUME NEW mine \in Scores, NEW other \in Scores,
         mine.actual = other.actual, mine.count = other.count,
         Below(Wape(mine), Wape(other))
  PROVE  AtMost(Mae(mine), Mae(other))
<1> DEFINE e == mine.error
           f == other.error
           n == mine.count
<1>0. e \in Nat /\ f \in Nat /\ n \in Nat /\ mine.actual \in Nat
  BY DEF Scores
<1>1. e <= f
  <2>1. CASE mine.actual > 0
    <3>1. Wape(mine) = <<e, mine.actual>> /\ Wape(other) = <<f, mine.actual>>
      BY <2>1 DEF Wape
    <3>2. e * mine.actual < f * mine.actual
      BY <3>1 DEF Below
    <3> QED
      BY <3>2, <2>1, <1>0, Cancel
  <2>2. CASE mine.actual = 0
    <3>1. CASE e = 0
      BY <3>1, <1>0
    <3>2. CASE e > 0
      <4>1. Wape(mine) = <<1, 1>>
        BY <2>2, <3>2 DEF Wape
      <4>2. Wape(other) = <<0, 1>> \/ Wape(other) = <<1, 1>>
        <5>1. f = 0 \/ f > 0
          BY <1>0
        <5> QED
          BY <2>2, <5>1 DEF Wape
      <4> QED
        BY <4>1, <4>2 DEF Below
    <3> QED
      BY <3>1, <3>2, <1>0
  <2> QED
    BY <2>1, <2>2, <1>0
<1>2. e * n <= f * n
  BY <1>0, <1>1, Scale2
<1> QED
  BY <1>2 DEF AtMost, Mae

-----------------------------------------------------------------------------
(* The registry.  Sessions know the index file and the copies they read of *)
(* it.  Whatever is known agrees with itself and lists only versions whose *)
(* directory is there; a session that made a directory is the only one     *)
(* about to fill it, and nobody knows of its version yet.  That is what    *)
(* lets it add the version to its copy, with no lock.                      *)

Fine(ix, dirs) ==
  ~ix.torn =>
    /\ Champions(ix) = {ix.champion} \ {None}
    /\ \A v \in Registered(ix) : dirs[v] # Missing

Unknown(ix, v) == ~ix.torn => v \notin Registered(ix)

KnownFine ==
  /\ Fine(index, folders)
  /\ \A s \in Sessions : Fine(work[s].copy, folders)

Fitting == {"compare", "clear", "stage", "register", "claim", "copy"}
Staged == {"register", "claim", "copy"}
Holding == {"claim", "copy", "save", "write", "save_approval", "write_approval"}

SessionsReady ==
  \A s \in Sessions :
    /\ pc[s] \in Fitting => work[s].run # None
    /\ pc[s] \in Staged => staging[Output[s]].by # None
    /\ pc[s] \in Holding => ~work[s].copy.torn
    /\ pc[s] \in {"claim", "copy"} => work[s].version \in Versions

ClaimsHeld ==
  \A s \in Sessions : pc[s] = "copy" =>
    /\ folders[work[s].version] # Missing
    /\ Unknown(index, work[s].version)
    /\ \A t \in Sessions : Unknown(work[t].copy, work[s].version)
    /\ \A t \in Sessions \ {s} : pc[t] = "copy" => work[t].version # work[s].version

RegistryInv == RegistryTypeOK /\ KnownFine /\ SessionsReady /\ ClaimsHeld

LEMMA TornFine == \A dirs : Fine(Torn, dirs)
BY DEF Fine, Torn

LEMMA TornUnknown == \A v : Unknown(Torn, v)
BY DEF Unknown, Torn

\* Entering a version nobody knows keeps the copy fine.
LEMMA RecordedFine ==
  ASSUME NEW ix \in Index, NEW v \in Versions, NEW run \in 1..MaxRuns, NEW dirs,
         Fine(ix, dirs), Unknown(ix, v), dirs[v] # Missing
  PROVE  /\ Recorded(ix, v, run) \in Index
         /\ Fine(Recorded(ix, v, run), dirs)
         /\ Registered(Recorded(ix, v, run)) = Registered(ix) \cup {v}
         /\ \A u \in Versions \ {v} : Recorded(ix, v, run).rows[u] = ix.rows[u]
         /\ Recorded(ix, v, run).rows[v].by = run
<1> DEFINE new == Recorded(ix, v, run)
<1>1. new \in Index
  BY DEF Index, Recorded, Row, Statuses
<1>2. /\ new.rows[v] = [status |-> "candidate", by |-> run]
      /\ \A u \in Versions \ {v} : new.rows[u] = ix.rows[u]
      /\ new.champion = ix.champion /\ ~new.torn /\ ~ix.torn
  BY DEF Index, Recorded
<1>3. ix.rows[v] = Absent
  BY <1>2 DEF Unknown, Registered
<1>4. Champions(new) = Champions(ix)
  BY <1>2, <1>3 DEF Champions, Absent
<1>5. Registered(new) = Registered(ix) \cup {v}
  BY <1>2 DEF Registered, Absent, None
<1> QED
  BY <1>1, <1>2, <1>4, <1>5 DEF Fine

\* A status change moves the champion and loses no version.
LEMMA ApprovedFine ==
  ASSUME NEW ix \in Index, NEW v \in Registered(ix), NEW status \in Statuses, NEW dirs,
         Fine(ix, dirs)
  PROVE  /\ Approved(ix, v, status) \in Index
         /\ Fine(Approved(ix, v, status), dirs)
         /\ Registered(Approved(ix, v, status)) = Registered(ix)
         /\ \A u \in Versions : Approved(ix, v, status).rows[u].by = ix.rows[u].by
<1> DEFINE new == Approved(ix, v, status)
           After(u) == IF u = v THEN status
                       ELSE IF status = "champion" /\ ix.rows[u].status = "champion"
                       THEN "approved" ELSE ix.rows[u].status
<1>0. /\ v \in Versions /\ ix.rows \in [Versions -> Row \cup {Absent}]
      /\ ix.rows[v] \in Row /\ ~ix.torn /\ ix.champion \in Versions \cup {None}
  BY DEF Registered, Index
<1>1. /\ \A u \in Versions : new.rows[u] = [status |-> After(u), by |-> ix.rows[u].by]
      /\ new.champion = ChampionAfter(ix, v, status) /\ new.torn = FALSE
  BY DEF Approved
<1>a. \A u \in Versions : new.rows[u].status = After(u) /\ new.rows[u].by = ix.rows[u].by
  <2> HIDE DEF new, After
  <2>1. TAKE u \in Versions
  <2>2. new.rows[u] = [status |-> After(u), by |-> ix.rows[u].by]
    BY <1>1
  <2> QED
    BY <2>2
<1>2. \A u \in Versions : new.rows[u] \in Row \cup {Absent} /\ (new.rows[u] = Absent <=> ix.rows[u] = Absent)
  <2>1. TAKE u \in Versions
  <2>2. CASE ix.rows[u] = Absent
    <3>1. u # v
      BY <2>2 DEF Registered
    <3>2. After(u) = "absent"
      BY <2>2, <3>1 DEF Absent
    <3> QED
      BY <1>1, <2>2, <3>2 DEF Absent
  <2>3. CASE ix.rows[u] \in Row
    <3>1. After(u) \in Statuses
      BY <2>3 DEF Row, Statuses
    <3>2. ix.rows[u].by \in 1..MaxRuns
      BY <2>3 DEF Row
    <3> HIDE DEF new, After
    <3>a. new.rows[u] = [status |-> After(u), by |-> ix.rows[u].by]
      BY <1>1
    <3>b. ASSUME NEW a \in Statuses, NEW b \in 1..MaxRuns PROVE [status |-> a, by |-> b] \in Row
      BY DEF Row
    <3>3. new.rows[u] \in Row
      BY <3>a, <3>b, <3>1, <3>2
    <3>4. ix.rows[u] # Absent /\ new.rows[u] # Absent
      BY <2>3, <3>3 DEF Row, Absent, None
    <3> QED
      BY <3>3, <3>4
  <2> QED
    BY <1>0, <2>2, <2>3
<1>3. new \in Index
  <2>1. new.rows \in [Versions -> Row \cup {Absent}]
    BY <1>2 DEF Approved
  <2>2. ChampionAfter(ix, v, status) \in Versions \cup {None}
    BY <1>0 DEF ChampionAfter
  <2> QED
    BY <2>1, <2>2 DEF Approved, Index
<1>4. Registered(new) = Registered(ix)
  BY <1>2 DEF Registered
<1>5. Champions(new) = {new.champion} \ {None}
  <2>1. Champions(ix) = {ix.champion} \ {None}
    BY <1>0 DEF Fine
  <2>2. Champions(new) = {u \in Versions : After(u) = "champion"}
    <3> HIDE DEF new, After
    <3> QED
      BY <1>a DEF Champions
  <2>3. CASE status = "champion"
    BY <2>2, <2>3, <1>1, <1>0 DEF ChampionAfter, Versions, None
  <2>4. CASE status # "champion"
    <3>1. Champions(new) = Champions(ix) \ {v}
      BY <2>2, <2>4 DEF Champions
    <3> QED
      BY <3>1, <2>1, <2>4, <1>1 DEF ChampionAfter
  <2> QED
    BY <2>3, <2>4
<1> HIDE DEF new
<1>6. Fine(new, dirs)
  BY <1>0, <1>4, <1>5 DEF Fine
<1> QED
  BY <1>a, <1>3, <1>4, <1>6 DEF new

\* A newer champion only marks the sessions under way.
LEMMA OvertakenKeeps ==
  ASSUME work \in [Sessions -> Work], NEW s \in Sessions
  PROVE  /\ Overtaken(work, s) \in [Sessions -> Work]
         /\ \A t \in Sessions :
              /\ Overtaken(work, s)[t].run = work[t].run
              /\ Overtaken(work, s)[t].version = work[t].version
              /\ Overtaken(work, s)[t].copy = work[t].copy
BY DEF Overtaken, Work

\* Most steps make no directory and write only what somebody knew already.
LEMMA KnownStaysFine ==
  ASSUME RegistryInv, folders' = folders,
         index' \in {index, Torn} \cup {work[t].copy : t \in Sessions},
         \A t \in Sessions : work'[t].copy \in {work[t].copy, Torn, index},
         \A t \in Sessions : pc'[t] = "copy" =>
           pc[t] = "copy" /\ work'[t].version = work[t].version
  PROVE  KnownFine' /\ ClaimsHeld'
<1>1. KnownFine'
  BY TornFine DEF RegistryInv, KnownFine
<1>2. ClaimsHeld'
  <2>1. SUFFICES ASSUME NEW s \in Sessions, pc[s] = "copy", work'[s].version = work[s].version
                 PROVE  /\ folders[work[s].version] # Missing
                        /\ Unknown(index', work[s].version)
                        /\ \A t \in Sessions : Unknown(work'[t].copy, work[s].version)
                        /\ \A t \in Sessions \ {s} : pc'[t] = "copy" =>
                             work'[t].version # work[s].version
    BY DEF ClaimsHeld
  <2> QED
    BY <2>1, TornUnknown DEF RegistryInv, ClaimsHeld
<1> QED
  BY <1>1, <1>2

LEMMA FreshWork ==
  NoWork \in Work
BY BoundsAssumption DEF NoWork, Work, None, Statuses

\* The sessions that do not move keep what they hold.
LEMMA OthersReady ==
  ASSUME RegistryInv, NEW s \in Sessions,
         pc' \in [Sessions -> Labels],
         \A t \in Sessions \ {s} :
           /\ pc'[t] = pc[t] /\ work'[t].run = work[t].run
           /\ work'[t].version = work[t].version /\ work'[t].copy = work[t].copy,
         \A o \in Outputs : staging[o].by # None => staging'[o].by # None,
         pc'[s] \in Fitting => work'[s].run # None,
         pc'[s] \in Staged => staging'[Output[s]].by # None,
         pc'[s] \in Holding => ~work'[s].copy.torn,
         pc'[s] \in {"claim", "copy"} => work'[s].version \in Versions
  PROVE  SessionsReady'
BY DEF RegistryInv, SessionsReady, Outputs

THEOREM RegistryStep ==
  RegistryInv /\ [RegistryNext]_registryVars => RegistryInv'
<1> SUFFICES ASSUME RegistryInv, [RegistryNext]_registryVars PROVE RegistryInv'
  OBVIOUS
<1>0. RegistryTypeOK
  BY DEF RegistryInv
<1>1. CASE UNCHANGED registryVars
  BY <1>1 DEF registryVars, RegistryInv, RegistryTypeOK, KnownFine, SessionsReady, ClaimsHeld,
              Fine, Unknown
<1>2. ASSUME NEW s \in Sessions, LoadChampion(s) PROVE RegistryInv'
  <2>1. PICK promote \in BOOLEAN, taught \in Panels :
          IF ~index.torn /\ Loads(ChampionOf(index))
          THEN /\ pc' = [pc EXCEPT ![s] = "compare"]
               /\ work' = [work EXCEPT ![s] =
                    [NoWork EXCEPT !.run = started + 1, !.promote = promote,
                       !.panel = taught, !.rival = ChampionOf(index)]]
          ELSE UNCHANGED <<pc, work>>
    BY <1>2 DEF LoadChampion, Goto
  <2>2. started + 1 \in 0..MaxRuns /\ started + 1 # None /\ started' = started + 1
    BY <1>2, <1>0, BoundsAssumption DEF LoadChampion, Start, RegistryTypeOK, None
  <2>3. RegistryTypeOK'
    <3>1. ASSUME ~index.torn PROVE ChampionOf(index) \in Versions \cup {None}
      BY <3>1, <1>0 DEF ChampionOf, RegistryInv, RegistryTypeOK, KnownFine, Fine, Registered, Index, Torn
    <3>2. ASSUME ~index.torn
          PROVE  [NoWork EXCEPT !.run = started + 1, !.promote = promote,
                    !.panel = taught, !.rival = ChampionOf(index)] \in Work
      BY <3>1, <3>2, <2>2, FreshWork DEF Work
    <3> QED
      BY <1>0, <1>2, <2>1, <2>2, <3>2 DEF LoadChampion, RegistryTypeOK, Labels
  <2>4. \/ UNCHANGED <<pc, work>>
        \/ /\ work'[s].copy = Torn /\ work'[s].run = started + 1
           /\ pc' = [pc EXCEPT ![s] = "compare"]
           /\ \A t \in Sessions \ {s} : work'[t] = work[t]
    <3>1. [NoWork EXCEPT !.run = started + 1, !.promote = promote,
             !.panel = taught, !.rival = ChampionOf(index)].copy = Torn
      BY DEF NoWork
    <3>2. [NoWork EXCEPT !.run = started + 1, !.promote = promote,
             !.panel = taught, !.rival = ChampionOf(index)].run = started + 1
      BY DEF NoWork
    <3> QED
      BY <1>0, <2>1, <3>1, <3>2 DEF RegistryTypeOK
  <2>5. UNCHANGED <<index, folders, staging>>
    BY <1>2 DEF LoadChampion
  <2>6. KnownFine' /\ ClaimsHeld'
    BY <1>0, <2>4, <2>5, KnownStaysFine DEF RegistryTypeOK
  <2>7. SessionsReady'
    BY <1>0, <2>2, <2>4, <2>5, BoundsAssumption
    DEF RegistryInv, SessionsReady, RegistryTypeOK, Staged, Holding, Fitting, None
  <2> QED
    BY <2>3, <2>6, <2>7 DEF RegistryInv
<1>3. ASSUME NEW s \in Sessions, Compare(s) PROVE RegistryInv'
  <2>1. PICK passed \in BOOLEAN : work' = [work EXCEPT ![s].passed = passed, ![s].panel = << >>]
    BY <1>3 DEF Compare, EvaluatePromotion
  <2>2. RegistryTypeOK'
    <3>1. work[s] \in Work
      BY <1>0 DEF RegistryTypeOK
    <3>2. [work[s] EXCEPT !.passed = passed, !.panel = << >>] \in Work
      BY <3>1 DEF Work
    <3>3. work' = [work EXCEPT ![s] = [work[s] EXCEPT !.passed = passed, !.panel = << >>]]
      BY <2>1, <1>0 DEF RegistryTypeOK
    <3> QED
      BY <1>0, <1>3, <3>2, <3>3 DEF Compare, Goto, RegistryTypeOK, Labels
  <2>3. KnownFine' /\ ClaimsHeld'
    BY <1>0, <1>3, <2>1, KnownStaysFine DEF Compare, Goto, RegistryTypeOK, Work
  <2>4. SessionsReady'
    BY <1>0, <1>3, <2>1
    DEF Compare, Goto, RegistryInv, SessionsReady, RegistryTypeOK, Work, Staged, Holding, Fitting
  <2> QED
    BY <2>2, <2>3, <2>4 DEF RegistryInv
<1>4. ASSUME NEW s \in Sessions, ClearStaging(s) PROVE RegistryInv'
  <2>1. RegistryTypeOK'
    BY <1>0, <1>4 DEF ClearStaging, Goto, RegistryTypeOK, Work, Folder, Partial, Labels, Outputs
  <2>2. KnownFine' /\ ClaimsHeld'
    BY <1>0, <1>4, KnownStaysFine DEF ClearStaging, Goto, RegistryTypeOK
  <2>3. SessionsReady'
    BY <1>0, <1>4, <2>1, OthersReady
    DEF ClearStaging, Goto, RegistryTypeOK, RegistryInv, SessionsReady, Partial, Outputs, Staged, Holding, Fitting
  <2> QED
    BY <2>1, <2>2, <2>3 DEF RegistryInv
<1>5. ASSUME NEW s \in Sessions, WriteArtifact(s) PROVE RegistryInv'
  <2>1. RegistryTypeOK'
    BY <1>0, <1>5 DEF WriteArtifact, Goto, RegistryTypeOK, Work, Folder, Whole, Labels, Outputs
  <2>2. KnownFine' /\ ClaimsHeld'
    BY <1>0, <1>5, KnownStaysFine DEF WriteArtifact, Goto, RegistryTypeOK
  <2>3. SessionsReady'
    BY <1>0, <1>5, <2>1, OthersReady
    DEF WriteArtifact, Goto, RegistryTypeOK, RegistryInv, SessionsReady, Whole, Outputs, Staged, Holding, Fitting
  <2> QED
    BY <2>1, <2>2, <2>3 DEF RegistryInv
<1>6. ASSUME NEW s \in Sessions, Kill(s) PROVE RegistryInv'
  <2>1. RegistryTypeOK'
    BY <1>0, <1>6, FreshWork DEF Kill, Stop, RegistryTypeOK, Labels
  <2>2. work'[s].copy = Torn
    BY <1>0, <1>6 DEF Kill, Stop, NoWork, RegistryTypeOK
  <2>3. KnownFine' /\ ClaimsHeld'
    BY <1>0, <1>6, <2>2, KnownStaysFine DEF Kill, Stop, RegistryTypeOK
  <2>4. SessionsReady'
    BY <1>0, <1>6, <2>1, OthersReady DEF Kill, Stop, RegistryTypeOK, Staged, Holding, Fitting
  <2> QED
    BY <2>1, <2>3, <2>4 DEF RegistryInv
<1>7. ASSUME NEW s \in Sessions, OpenIndex(s) PROVE RegistryInv'
  <2>1. RegistryTypeOK'
    BY <1>0, <1>7 DEF OpenIndex, Goto, RegistryTypeOK, Labels
  <2>2. KnownFine' /\ ClaimsHeld'
    BY <1>0, <1>7, KnownStaysFine DEF OpenIndex, Goto, RegistryTypeOK
  <2>3. SessionsReady'
    BY <1>0, <1>7, <2>1, OthersReady
    DEF OpenIndex, Goto, RegistryTypeOK, RegistryInv, SessionsReady, Staged, Holding, Fitting
  <2> QED
    BY <2>1, <2>2, <2>3 DEF RegistryInv
<1>8. ASSUME NEW s \in Sessions, AskApproval(s) PROVE RegistryInv'
  <2>1. PICK v \in Versions, status \in Statuses :
          work' = [work EXCEPT ![s] = [NoWork EXCEPT !.version = v, !.status = status]]
    BY <1>8 DEF AskApproval
  <2>2. RegistryTypeOK'
    <3>1. [NoWork EXCEPT !.version = v, !.status = status] \in Work
      BY FreshWork DEF Work
    <3> QED
      BY <1>0, <1>8, <2>1, <3>1, BoundsAssumption DEF AskApproval, Start, Goto, RegistryTypeOK, Labels
  <2>3. work'[s].copy = Torn
    BY <1>0, <2>1 DEF RegistryTypeOK, NoWork
  <2>4. KnownFine' /\ ClaimsHeld'
    BY <1>0, <1>8, <2>1, <2>3, KnownStaysFine DEF AskApproval, Goto, RegistryTypeOK
  <2>5. SessionsReady'
    BY <1>0, <1>8, <2>1, <2>2, OthersReady
    DEF AskApproval, Goto, RegistryTypeOK, Staged, Holding, Fitting
  <2> QED
    BY <2>2, <2>4, <2>5 DEF RegistryInv
<1>9. ASSUME NEW s \in Sessions, ReadIndex(s) PROVE RegistryInv'
  <2>1. CASE index.torn
    <3>1. work' = [work EXCEPT ![s] = NoWork] /\ pc' = [pc EXCEPT ![s] = "idle"]
      BY <1>9, <2>1 DEF ReadIndex, Stop
    <3>2. RegistryTypeOK'
      BY <1>0, <1>9, <3>1, FreshWork DEF ReadIndex, RegistryTypeOK, Labels
    <3>3. work'[s].copy = Torn
      BY <1>0, <3>1 DEF NoWork, RegistryTypeOK
    <3>4. KnownFine' /\ ClaimsHeld'
      BY <1>0, <1>9, <3>1, <3>3, KnownStaysFine DEF ReadIndex, RegistryTypeOK
    <3>5. SessionsReady'
      BY <1>0, <1>9, <3>1, <3>2, OthersReady DEF ReadIndex, RegistryTypeOK, Staged, Holding, Fitting
    <3> QED
      BY <3>2, <3>4, <3>5 DEF RegistryInv
  <2>2. CASE ~index.torn
    <3> DEFINE held == [work[s] EXCEPT !.copy = index, !.version = NextVersion(index)]
    <3>1. /\ NextVersion(index) \in Versions /\ pc' = [pc EXCEPT ![s] = "claim"]
          /\ work' = [work EXCEPT ![s].copy = index, ![s].version = NextVersion(index)]
      BY <1>9, <2>2 DEF ReadIndex, Goto
    <3>2. work' = [work EXCEPT ![s] = held]
      BY <1>0, <3>1 DEF RegistryTypeOK
    <3>3. held \in Work /\ held.copy = index /\ held.run = work[s].run /\ held.version \in Versions
      BY <1>0, <3>1 DEF RegistryTypeOK, Work
    <3> HIDE DEF held
    <3>4. RegistryTypeOK'
      BY <1>0, <1>9, <3>1, <3>2, <3>3 DEF ReadIndex, RegistryTypeOK, Labels
    <3>5. KnownFine' /\ ClaimsHeld'
      BY <1>0, <1>9, <3>1, <3>2, <3>3, KnownStaysFine DEF ReadIndex, RegistryTypeOK
    <3>6. SessionsReady'
      BY <1>0, <1>9, <2>2, <3>1, <3>2, <3>3, <3>4, OthersReady
      DEF ReadIndex, RegistryTypeOK, RegistryInv, SessionsReady, Staged, Holding, Fitting
    <3> QED
      BY <3>4, <3>5, <3>6 DEF RegistryInv
  <2> QED
    BY <2>1, <2>2
<1>10. ASSUME NEW s \in Sessions, MakeFolder(s) PROVE RegistryInv'
  <2> DEFINE v == work[s].version
  <2>0. v \in Versions /\ pc[s] = "claim" /\ work[s].run # None
    BY <1>10 DEF MakeFolder, RegistryInv, SessionsReady, Fitting
  <2>1. CASE folders[v] = Missing
    <3>1. /\ folders' = [folders EXCEPT ![v] = Partial(work[s].run)]
          /\ pc' = [pc EXCEPT ![s] = "copy"] /\ UNCHANGED <<index, staging, work, started, crowned>>
      BY <1>10, <2>1 DEF MakeFolder, Goto
    <3>2. RegistryTypeOK'
      BY <1>0, <2>0, <3>1 DEF RegistryTypeOK, Work, Folder, Partial, Labels
    <3>3. /\ folders'[v] # Missing
          /\ \A u \in Versions : folders[u] # Missing => folders'[u] # Missing
      BY <1>0, <2>0, <3>1 DEF RegistryTypeOK, Partial, Missing
    <3>4. KnownFine'
      BY <3>1, <3>3 DEF RegistryInv, KnownFine, Fine, Registered
    <3>5. Unknown(index, v) /\ \A t \in Sessions : Unknown(work[t].copy, v)
      BY <2>1 DEF RegistryInv, KnownFine, Fine, Unknown
    <3>6. \A t \in Sessions : pc[t] = "copy" => work[t].version \in Versions /\ work[t].version # v
      BY <2>1 DEF RegistryInv, ClaimsHeld, SessionsReady
    <3>7. ClaimsHeld'
      BY <1>0, <3>1, <3>3, <3>5, <3>6 DEF RegistryTypeOK, RegistryInv, ClaimsHeld
    <3>8. SessionsReady'
      BY <1>0, <2>0, <3>1, <3>2, OthersReady
      DEF RegistryTypeOK, RegistryInv, SessionsReady, Staged, Holding, Fitting
    <3> QED
      BY <3>2, <3>4, <3>7, <3>8 DEF RegistryInv
  <2>2. CASE folders[v] # Missing
    <3>1. /\ work' = [work EXCEPT ![s] = NoWork] /\ pc' = [pc EXCEPT ![s] = "idle"]
          /\ UNCHANGED <<index, folders, staging, started, crowned>>
      BY <1>10, <2>2 DEF MakeFolder, Stop
    <3>2. RegistryTypeOK'
      BY <1>0, <3>1, FreshWork DEF RegistryTypeOK, Labels
    <3>3. work'[s].copy = Torn
      BY <1>0, <3>1 DEF NoWork, RegistryTypeOK
    <3>4. KnownFine' /\ ClaimsHeld'
      BY <1>0, <3>1, <3>3, KnownStaysFine DEF RegistryTypeOK
    <3>5. SessionsReady'
      BY <1>0, <3>1, <3>2, OthersReady DEF RegistryTypeOK, Staged, Holding, Fitting
    <3> QED
      BY <3>2, <3>4, <3>5 DEF RegistryInv
  <2> QED
    BY <2>1, <2>2
<1>11. ASSUME NEW s \in Sessions, CopyTree(s) PROVE RegistryInv'
  <2> DEFINE v == work[s].version
             run == work[s].run
             new == Recorded(work[s].copy, v, run)
             held == [work[s] EXCEPT !.copy = new]
  <2>1. /\ pc[s] = "copy" /\ v \in Versions /\ run \in 1..MaxRuns
        /\ ~work[s].copy.torn /\ work[s].copy \in Index
        /\ staging[Output[s]].by # None /\ staging[Output[s]] \in Folder
    <3>1. /\ pc[s] = "copy" /\ v \in Versions /\ run # None /\ ~work[s].copy.torn
          /\ staging[Output[s]].by # None
      BY <1>11 DEF CopyTree, RegistryInv, SessionsReady, Staged, Holding, Fitting
    <3>2. work[s] \in Work /\ Output[s] \in Outputs
      BY <1>0 DEF RegistryTypeOK, Outputs
    <3>3. run \in 1..MaxRuns /\ work[s].copy \in Index
      BY <3>1, <3>2, BoundsAssumption DEF Work, None, Torn
    <3> QED
      BY <1>0, <3>1, <3>2, <3>3 DEF RegistryTypeOK
  <2>2. /\ folders' = [folders EXCEPT ![v] = staging[Output[s]]]
        /\ pc' = [pc EXCEPT ![s] = "save"] /\ UNCHANGED <<index, staging, started, crowned>>
        /\ work' = [work EXCEPT ![s] = held]
    BY <1>0, <1>11 DEF CopyTree, Goto, RegistryTypeOK
  <2>3. /\ folders'[v] # Missing
        /\ \A u \in Versions : folders[u] # Missing => folders'[u] # Missing
    BY <1>0, <2>1, <2>2 DEF RegistryTypeOK, Missing
  <2>4. /\ Unknown(index, v) /\ \A t \in Sessions : Unknown(work[t].copy, v)
        /\ \A t \in Sessions \ {s} : pc[t] = "copy" =>
             work[t].version # v /\ Unknown(work[s].copy, work[t].version)
    BY <2>1 DEF RegistryInv, ClaimsHeld
  <2>5. Fine(work[s].copy, folders')
    BY <2>3 DEF RegistryInv, KnownFine, Fine, Registered
  <2>6. new \in Index /\ Fine(new, folders') /\ Registered(new) = Registered(work[s].copy) \cup {v}
    BY <2>1, <2>3, <2>4, <2>5, RecordedFine
  <2>7. held \in Work /\ held.copy = new /\ held.run = run /\ held.version = v
    BY <1>0, <2>6 DEF RegistryTypeOK, Work
  <2> HIDE DEF held, new
  <2>8. RegistryTypeOK'
    BY <1>0, <2>1, <2>2, <2>7 DEF RegistryTypeOK, Labels
  <2>9. KnownFine'
    <3>1. Fine(index, folders') /\ \A t \in Sessions : Fine(work[t].copy, folders')
      BY <2>3 DEF RegistryInv, KnownFine, Fine, Registered
    <3> QED
      BY <1>0, <2>2, <2>6, <2>7, <3>1 DEF KnownFine, RegistryTypeOK
  <2>10. ClaimsHeld'
    <3>1. SUFFICES ASSUME NEW t \in Sessions \ {s}, pc[t] = "copy"
                   PROVE  /\ folders'[work[t].version] # Missing
                          /\ Unknown(index, work[t].version)
                          /\ \A u \in Sessions : Unknown(work'[u].copy, work[t].version)
                          /\ \A u \in Sessions \ {s, t} : pc[u] = "copy" =>
                               work[u].version # work[t].version
      BY <1>0, <2>2 DEF ClaimsHeld, RegistryTypeOK
    <3>2. /\ folders[work[t].version] # Missing /\ work[t].version \in Versions
          /\ Unknown(index, work[t].version)
          /\ \A u \in Sessions : Unknown(work[u].copy, work[t].version)
          /\ \A u \in Sessions \ {s, t} : pc[u] = "copy" => work[u].version # work[t].version
      BY <3>1 DEF RegistryInv, ClaimsHeld, SessionsReady
    <3>3. Unknown(new, work[t].version)
      BY <2>1, <2>4, <2>6, <3>1 DEF Unknown
    <3> QED
      BY <1>0, <2>2, <2>3, <2>7, <3>2, <3>3 DEF RegistryTypeOK
  <2>11. SessionsReady'
    <3>1. ~new.torn
      BY <2>6 DEF Index
    <3> QED
      BY <1>0, <2>1, <2>2, <2>7, <2>8, <3>1, OthersReady
      DEF RegistryTypeOK, Staged, Holding, Fitting
  <2> QED
    BY <2>8, <2>9, <2>10, <2>11 DEF RegistryInv
<1>12. ASSUME NEW s \in Sessions, Approve(s) PROVE RegistryInv'
  <2>1. CASE index.torn \/ work[s].version \notin Registered(index)
    <3>1. /\ work' = [work EXCEPT ![s] = NoWork] /\ pc' = [pc EXCEPT ![s] = "idle"]
          /\ UNCHANGED <<index, folders, staging, started, crowned>>
      BY <1>12, <2>1 DEF Approve, Stop
    <3>2. RegistryTypeOK'
      BY <1>0, <3>1, FreshWork DEF RegistryTypeOK, Labels
    <3>3. work'[s].copy = Torn
      BY <1>0, <3>1 DEF NoWork, RegistryTypeOK
    <3>4. KnownFine' /\ ClaimsHeld'
      BY <1>0, <3>1, <3>3, KnownStaysFine DEF RegistryTypeOK
    <3>5. SessionsReady'
      BY <1>0, <3>1, <3>2, OthersReady DEF RegistryTypeOK, Staged, Holding, Fitting
    <3> QED
      BY <3>2, <3>4, <3>5 DEF RegistryInv
  <2>2. CASE ~index.torn /\ work[s].version \in Registered(index)
    <3> DEFINE v == work[s].version
               new == Approved(index, v, work[s].status)
               held == [work[s] EXCEPT !.copy = new]
    <3>1. /\ pc[s] = "approve" /\ pc' = [pc EXCEPT ![s] = "save_approval"]
          /\ work' = [work EXCEPT ![s] = held]
          /\ UNCHANGED <<index, folders, staging, started, crowned>>
      BY <1>0, <1>12, <2>2 DEF Approve, Goto, RegistryTypeOK
    <3>2. index \in Index /\ work[s].status \in Statuses /\ Fine(index, folders)
      BY <1>0, <2>2 DEF RegistryTypeOK, RegistryInv, KnownFine, Work, Torn
    <3>3. new \in Index /\ Fine(new, folders) /\ Registered(new) = Registered(index)
      BY <2>2, <3>2, ApprovedFine
    <3>4. held \in Work /\ held.copy = new /\ held.run = work[s].run /\ held.version = v
      BY <1>0, <3>3 DEF RegistryTypeOK, Work
    <3> HIDE DEF new, held
    <3>5. RegistryTypeOK'
      BY <1>0, <3>1, <3>4 DEF RegistryTypeOK, Labels
    <3>6. KnownFine'
      BY <1>0, <3>1, <3>3, <3>4 DEF KnownFine, RegistryInv, RegistryTypeOK
    <3>7. ClaimsHeld'
      <4>1. ASSUME NEW u, Unknown(index, u) PROVE Unknown(new, u)
        BY <2>2, <3>3, <4>1 DEF Unknown
      <4> QED
        BY <1>0, <3>1, <3>4, <4>1 DEF ClaimsHeld, RegistryInv, RegistryTypeOK
    <3>8. SessionsReady'
      <4>1. ~new.torn
        BY <3>3 DEF Index
      <4> QED
        BY <1>0, <3>1, <3>4, <3>5, <4>1, OthersReady DEF RegistryTypeOK, Staged, Holding, Fitting
    <3> QED
      BY <3>5, <3>6, <3>7, <3>8 DEF RegistryInv
  <2> QED
    BY <2>1, <2>2
<1>13. ASSUME NEW s \in Sessions, WriteRegistration(s) \/ WriteApproval(s) PROVE RegistryInv'
  <2> DEFINE marked == Overtaken(work, s)
             told == [marked[s] EXCEPT !.copy = Torn, !.status = "champion"]
  <2>1. /\ pc[s] \in Holding /\ UNCHANGED <<folders, staging, started>>
        /\ index' \in {work[s].copy, Torn} /\ crowned' = Champions(work[s].copy)
    BY <1>13 DEF WriteRegistration, WriteApproval, Written, Overwrite, Holding
  <2>2. /\ marked \in [Sessions -> Work]
        /\ \A t \in Sessions : marked[t].run = work[t].run /\ marked[t].version = work[t].version
             /\ marked[t].copy = work[t].copy
    BY <1>0, OvertakenKeeps DEF RegistryTypeOK
  <2> HIDE DEF marked
  <2>3. told \in Work /\ told.copy = Torn
    BY <2>2 DEF Work, Statuses
  <2>4. \/ work' = [marked EXCEPT ![s] = told] /\ pc' = [pc EXCEPT ![s] = "approve"]
        \/ work' = [marked EXCEPT ![s] = NoWork] /\ pc' = [pc EXCEPT ![s] = "idle"]
    BY <1>13, <2>2 DEF WriteRegistration, WriteApproval, Goto, marked
  <2>5. NoWork.copy = Torn
    BY DEF NoWork
  <2> HIDE DEF told
  <2>6. RegistryTypeOK'
    <3>1. index' \in Index \cup {Torn} /\ crowned' \subseteq Versions
      BY <1>0, <2>1 DEF RegistryTypeOK, Work, Champions
    <3> QED
      BY <1>0, <2>1, <2>2, <2>3, <2>4, <3>1, FreshWork DEF RegistryTypeOK, Labels
  <2>7. work'[s].copy = Torn /\ \A t \in Sessions \ {s} : work'[t] = marked[t]
    BY <2>2, <2>3, <2>4, <2>5
  <2>8. KnownFine' /\ ClaimsHeld'
    BY <1>0, <2>1, <2>2, <2>4, <2>7, KnownStaysFine DEF RegistryTypeOK
  <2>9. SessionsReady'
    BY <1>0, <2>1, <2>2, <2>4, <2>6, <2>7, OthersReady
    DEF RegistryTypeOK, Staged, Holding, Fitting
  <2> QED
    BY <2>6, <2>8, <2>9 DEF RegistryInv
<1> QED
  BY <1>1, <1>2, <1>3, <1>4, <1>5, <1>6, <1>7, <1>8, <1>9, <1>10, <1>11, <1>12, <1>13
  DEF RegistryNext

LEMMA InitiallyInv ==
  RegistryInit => RegistryInv
<1> SUFFICES ASSUME RegistryInit PROVE RegistryInv
  OBVIOUS
<1>1. EmptyIndex \in Index
  BY DEF EmptyIndex, Index
<1>2. Champions(EmptyIndex) = {} /\ Registered(EmptyIndex) = {}
  BY DEF Champions, Registered, EmptyIndex, Absent
<1>3. RegistryTypeOK
  BY <1>1, FreshWork, BoundsAssumption
  DEF RegistryInit, RegistryTypeOK, Labels, Folder, Missing, None
<1>4. KnownFine
  <2>1. Fine(EmptyIndex, folders)
    BY <1>2 DEF Fine, EmptyIndex
  <2> QED
    BY <2>1, TornFine DEF RegistryInit, KnownFine, NoWork
<1>5. SessionsReady /\ ClaimsHeld
  BY DEF RegistryInit, SessionsReady, ClaimsHeld, Staged, Holding, Fitting
<1> QED
  BY <1>3, <1>4, <1>5 DEF RegistryInv

\* Whatever sessions overlap or are killed, the file that can be read names as
\* champion the one version whose row says so.
THEOREM IndexAlwaysAgrees ==
  RegistrySpec => []IndexAgrees
<1>1. RegistryInit => RegistryInv
  BY InitiallyInv
<1>2. RegistryInv => IndexAgrees
  BY DEF RegistryInv, KnownFine, Fine, IndexAgrees
<1> QED
  BY <1>1, <1>2, RegistryStep, PTL DEF RegistrySpec

-----------------------------------------------------------------------------
(* With an output directory each, what a session staged stays what its     *)
(* training wrote, so the copy that ends up beside a row is whole.         *)

Separate == \A s, t \in Sessions : Output[s] = Output[t] => s = t

Filled(ix, dirs) ==
  ~ix.torn => \A v \in Registered(ix) : dirs[v] = Whole(ix.rows[v].by)

AllFilled ==
  /\ Filled(index, folders)
  /\ \A s \in Sessions : Filled(work[s].copy, folders)
  /\ \A s \in Sessions : pc[s] \in Staged => staging[Output[s]] = Whole(work[s].run)

LEMMA FilledStep ==
  ASSUME Separate, RegistryInv, AllFilled, RegistryInv', [RegistryNext]_registryVars
  PROVE  AllFilled'
<1>0. RegistryTypeOK
  BY DEF RegistryInv
<1>t. \A dirs : Filled(Torn, dirs)
  BY DEF Filled, Torn
\* A step of s that makes no directory and writes nothing new.
<1>a. ASSUME NEW s \in Sessions, folders' = folders, staging' = staging,
             index' = index \/ index' = Torn \/ \E t \in Sessions : index' = work[t].copy,
             \A t \in Sessions :
               work'[t].copy = work[t].copy \/ work'[t].copy = Torn \/ work'[t].copy = index,
             \A t \in Sessions \ {s} : pc'[t] = pc[t] /\ work'[t].run = work[t].run,
             pc'[s] \in Staged => pc[s] \in Staged /\ work'[s].run = work[s].run
      PROVE  AllFilled'
  BY <1>a, <1>t DEF AllFilled
\* s stops.
<1>b. ASSUME NEW s \in Sessions, Stop(s), UNCHANGED <<index, folders, staging>>
      PROVE  AllFilled'
  <2>1. work'[s].copy = Torn
    BY <1>0, <1>b DEF Stop, NoWork, RegistryTypeOK
  <2>2. \A t \in Sessions \ {s} : pc'[t] = pc[t] /\ work'[t] = work[t]
    BY <1>0, <1>b DEF Stop, RegistryTypeOK
  <2>3. pc'[s] \notin Staged
    BY <1>0, <1>b DEF Stop, RegistryTypeOK, Staged
  <2> QED
    BY <1>a, <1>b, <2>1, <2>2, <2>3
<1>1. CASE UNCHANGED registryVars
  BY <1>1 DEF registryVars, AllFilled, Filled
<1>2. ASSUME NEW s \in Sessions, LoadChampion(s) PROVE AllFilled'
  <2>1. PICK promote \in BOOLEAN, taught \in Panels :
          IF ~index.torn /\ Loads(ChampionOf(index))
          THEN /\ pc' = [pc EXCEPT ![s] = "compare"]
               /\ work' = [work EXCEPT ![s] =
                    [NoWork EXCEPT !.run = started + 1, !.promote = promote,
                       !.panel = taught, !.rival = ChampionOf(index)]]
          ELSE UNCHANGED <<pc, work>>
    BY <1>2 DEF LoadChampion, Goto
  <2>2. [NoWork EXCEPT !.run = started + 1, !.promote = promote,
           !.panel = taught, !.rival = ChampionOf(index)].copy = Torn
    BY DEF NoWork
  <2>3. UNCHANGED <<index, folders, staging>>
    BY <1>2 DEF LoadChampion
  <2>4. CASE UNCHANGED <<pc, work>>
    BY <1>a, <1>2, <2>3, <2>4
  <2>5. CASE ~UNCHANGED <<pc, work>>
    <3>1. pc' = [pc EXCEPT ![s] = "compare"] /\ work'[s].copy = Torn
          /\ \A t \in Sessions \ {s} : work'[t] = work[t]
      BY <1>0, <2>1, <2>2, <2>5 DEF RegistryTypeOK
    <3> QED
      BY <1>0, <1>a, <2>3, <3>1 DEF RegistryTypeOK, Staged
  <2> QED
    BY <2>4, <2>5
<1>3. ASSUME NEW s \in Sessions, Compare(s) PROVE AllFilled'
  <2>1. PICK passed \in BOOLEAN : work' = [work EXCEPT ![s].passed = passed, ![s].panel = << >>]
    BY <1>3 DEF Compare, EvaluatePromotion
  <2>2. pc' = [pc EXCEPT ![s] = "clear"] /\ UNCHANGED <<index, folders, staging>>
    BY <1>3 DEF Compare, Goto
  <2>3. work' = [work EXCEPT ![s] = [work[s] EXCEPT !.passed = passed, !.panel = << >>]]
    BY <1>0, <1>3, <2>1 DEF RegistryTypeOK
  <2>4. /\ [work[s] EXCEPT !.passed = passed, !.panel = << >>].copy = work[s].copy
        /\ [work[s] EXCEPT !.passed = passed, !.panel = << >>].run = work[s].run
    <3>1. work[s] \in Work
      BY <1>0, <1>3 DEF RegistryTypeOK
    <3> QED
      BY <3>1 DEF Work
  <2>5. \A t \in Sessions : work'[t].copy = work[t].copy /\ work'[t].run = work[t].run
    BY <1>0, <1>3, <2>3, <2>4 DEF RegistryTypeOK
  <2> QED
    BY <1>0, <1>a, <1>3, <2>2, <2>5 DEF RegistryTypeOK, Staged
<1>4. ASSUME NEW s \in Sessions, ClearStaging(s) \/ WriteArtifact(s) PROVE AllFilled'
  <2>1. \A t \in Sessions \ {s} : pc'[t] = pc[t] /\ staging'[Output[t]] = staging[Output[t]]
    BY <1>0, <1>4 DEF ClearStaging, WriteArtifact, Goto, RegistryTypeOK, Outputs, Separate
  <2>2. pc'[s] \in Staged => staging'[Output[s]] = Whole(work[s].run)
    BY <1>0, <1>4 DEF ClearStaging, WriteArtifact, Goto, RegistryTypeOK, Staged, Outputs
  <2>3. UNCHANGED <<index, folders, work>>
    BY <1>4 DEF ClearStaging, WriteArtifact
  <2> QED
    BY <2>1, <2>2, <2>3 DEF AllFilled, Filled
<1>5. ASSUME NEW s \in Sessions, Kill(s) PROVE AllFilled'
  BY <1>5, <1>b DEF Kill
<1>6. ASSUME NEW s \in Sessions, OpenIndex(s) PROVE AllFilled'
  BY <1>0, <1>a, <1>6 DEF OpenIndex, Goto, RegistryTypeOK, Staged
<1>7. ASSUME NEW s \in Sessions, AskApproval(s) PROVE AllFilled'
  <2>1. PICK v, status :
          work' = [work EXCEPT ![s] = [NoWork EXCEPT !.version = v, !.status = status]]
    BY <1>7 DEF AskApproval
  <2>2. work'[s].copy = Torn
    BY <1>0, <2>1 DEF RegistryTypeOK, NoWork
  <2> QED
    BY <1>0, <1>a, <1>7, <2>1, <2>2 DEF AskApproval, Goto, RegistryTypeOK, Staged
<1>8. ASSUME NEW s \in Sessions, ReadIndex(s) PROVE AllFilled'
  <2>1. CASE index.torn
    BY <1>8, <1>b, <2>1 DEF ReadIndex
  <2>2. CASE ~index.torn
    <3>1. /\ pc[s] = "register" /\ pc' = [pc EXCEPT ![s] = "claim"]
          /\ work' = [work EXCEPT ![s].copy = index, ![s].version = NextVersion(index)]
          /\ UNCHANGED <<index, folders, staging>>
      BY <1>8, <2>2 DEF ReadIndex, Goto
    <3>2. work'[s].copy = index /\ work'[s].run = work[s].run
      BY <1>0, <3>1 DEF RegistryTypeOK, Work
    <3> QED
      BY <1>0, <1>a, <3>1, <3>2 DEF RegistryTypeOK, Staged
  <2> QED
    BY <2>1, <2>2
<1>9. ASSUME NEW s \in Sessions, MakeFolder(s) PROVE AllFilled'
  <2> DEFINE v == work[s].version
  <2>1. CASE folders[v] # Missing
    BY <1>9, <1>b, <2>1 DEF MakeFolder
  <2>2. CASE folders[v] = Missing
    <3>1. /\ folders' = [folders EXCEPT ![v] = Partial(work[s].run)]
          /\ pc[s] = "claim" /\ pc' = [pc EXCEPT ![s] = "copy"]
          /\ UNCHANGED <<index, staging, work>>
      BY <1>9, <2>2 DEF MakeFolder, Goto
    <3>2. Unknown(index, v) /\ \A t \in Sessions : Unknown(work[t].copy, v)
      BY <2>2 DEF RegistryInv, KnownFine, Fine, Unknown
    <3>3. \A u \in Versions \ {v} : folders'[u] = folders[u]
      BY <1>0, <3>1 DEF RegistryTypeOK
    <3>4. ASSUME NEW ix, Filled(ix, folders), Unknown(ix, v) PROVE Filled(ix, folders')
      BY <3>3, <3>4 DEF Filled, Unknown, Registered
    <3> QED
      BY <1>0, <3>1, <3>2, <3>4 DEF AllFilled, RegistryTypeOK, Staged
  <2> QED
    BY <2>1, <2>2
<1>10. ASSUME NEW s \in Sessions, CopyTree(s) PROVE AllFilled'
  <2> DEFINE v == work[s].version
             run == work[s].run
             new == Recorded(work[s].copy, v, run)
             held == [work[s] EXCEPT !.copy = new]
  <2>1. /\ pc[s] = "copy" /\ v \in Versions /\ run \in 1..MaxRuns
        /\ work[s].copy \in Index /\ staging[Output[s]] = Whole(run)
    <3>1. /\ pc[s] = "copy" /\ v \in Versions /\ run # None /\ ~work[s].copy.torn
          /\ staging[Output[s]] = Whole(run)
      BY <1>10 DEF CopyTree, RegistryInv, SessionsReady, AllFilled, Staged, Holding, Fitting
    <3>2. work[s] \in Work
      BY <1>0 DEF RegistryTypeOK
    <3> QED
      BY <3>1, <3>2, BoundsAssumption DEF Work, None, Torn
  <2>2. /\ folders' = [folders EXCEPT ![v] = Whole(run)]
        /\ pc' = [pc EXCEPT ![s] = "save"] /\ UNCHANGED <<index, staging>>
        /\ work' = [work EXCEPT ![s] = held]
    BY <1>0, <1>10, <2>1 DEF CopyTree, Goto, RegistryTypeOK
  <2>3. held.copy = new
    BY <1>0 DEF RegistryTypeOK, Work
  <2>4. folders'[v] = Whole(run) /\ \A u \in Versions \ {v} : folders'[u] = folders[u]
    BY <1>0, <2>1, <2>2 DEF RegistryTypeOK
  <2>5. Unknown(index, v) /\ \A t \in Sessions : Unknown(work[t].copy, v)
    BY <2>1 DEF RegistryInv, ClaimsHeld
  <2>6. ASSUME NEW ix, Filled(ix, folders), Unknown(ix, v) PROVE Filled(ix, folders')
    BY <2>4, <2>6 DEF Filled, Unknown, Registered
  <2>7. Filled(new, folders')
    <3>1. folders[v] # Missing /\ Fine(work[s].copy, folders) /\ Filled(work[s].copy, folders)
      BY <2>1 DEF RegistryInv, ClaimsHeld, KnownFine, AllFilled
    <3>2. /\ new \in Index /\ Registered(new) = Registered(work[s].copy) \cup {v}
          /\ \A u \in Versions \ {v} : new.rows[u] = work[s].copy.rows[u]
          /\ new.rows[v].by = run
      BY <2>1, <2>5, <3>1, RecordedFine
    <3>3. ~work[s].copy.torn
      BY <2>1 DEF Index
    <3> QED
      BY <2>4, <3>1, <3>2, <3>3 DEF Filled, Registered
  <2> HIDE DEF held, new
  <2>8. \A t \in Sessions : Filled(work'[t].copy, folders')
    BY <1>0, <2>2, <2>3, <2>5, <2>6, <2>7 DEF AllFilled, RegistryTypeOK
  <2> QED
    BY <1>0, <2>2, <2>5, <2>6, <2>8 DEF AllFilled, RegistryTypeOK, Staged
<1>11. ASSUME NEW s \in Sessions, Approve(s) PROVE AllFilled'
  <2>1. CASE index.torn \/ work[s].version \notin Registered(index)
    BY <1>11, <1>b, <2>1 DEF Approve
  <2>2. CASE ~index.torn /\ work[s].version \in Registered(index)
    <3> DEFINE new == Approved(index, work[s].version, work[s].status)
               held == [work[s] EXCEPT !.copy = new]
    <3>1. /\ pc[s] = "approve" /\ pc' = [pc EXCEPT ![s] = "save_approval"]
          /\ work' = [work EXCEPT ![s] = held]
          /\ UNCHANGED <<index, folders, staging>>
      BY <1>0, <1>11, <2>2 DEF Approve, Goto, RegistryTypeOK
    <3>2. index \in Index /\ work[s].status \in Statuses /\ Fine(index, folders)
      BY <1>0, <2>2 DEF RegistryTypeOK, RegistryInv, KnownFine, Work, Torn
    <3>3. /\ Registered(new) = Registered(index)
          /\ \A u \in Versions : new.rows[u].by = index.rows[u].by
      BY <2>2, <3>2, ApprovedFine
    <3>4. held.copy = new
      BY <1>0 DEF RegistryTypeOK, Work
    <3> HIDE DEF new, held
    <3>5. Filled(new, folders)
      BY <2>2, <3>3 DEF AllFilled, Filled, Registered
    <3> QED
      BY <1>0, <3>1, <3>4, <3>5 DEF AllFilled, RegistryTypeOK, Staged
  <2> QED
    BY <2>1, <2>2
<1>12. ASSUME NEW s \in Sessions, WriteRegistration(s) \/ WriteApproval(s) PROVE AllFilled'
  <2> DEFINE marked == Overtaken(work, s)
             told == [marked[s] EXCEPT !.copy = Torn, !.status = "champion"]
  <2>1. /\ UNCHANGED <<folders, staging>> /\ (index' = work[s].copy \/ index' = Torn)
    BY <1>12 DEF WriteRegistration, WriteApproval, Written, Overwrite
  <2>2. /\ marked \in [Sessions -> Work]
        /\ \A t \in Sessions : marked[t].run = work[t].run /\ marked[t].copy = work[t].copy
    BY <1>0, OvertakenKeeps DEF RegistryTypeOK
  <2> HIDE DEF marked
  <2>3. told.copy = Torn /\ NoWork.copy = Torn
    BY <2>2 DEF Work, NoWork
  <2>4. \/ work' = [marked EXCEPT ![s] = told] /\ pc' = [pc EXCEPT ![s] = "approve"]
        \/ work' = [marked EXCEPT ![s] = NoWork] /\ pc' = [pc EXCEPT ![s] = "idle"]
    BY <1>12, <2>2 DEF WriteRegistration, WriteApproval, Goto, marked
  <2> HIDE DEF told
  <2>5. work'[s].copy = Torn /\ \A t \in Sessions \ {s} : work'[t] = marked[t]
    BY <2>2, <2>3, <2>4
  <2> QED
    BY <1>0, <1>a, <2>1, <2>2, <2>4, <2>5 DEF RegistryTypeOK, Staged
<1> QED
  BY <1>1, <1>2, <1>3, <1>4, <1>5, <1>6, <1>7, <1>8, <1>9, <1>10, <1>11, <1>12
  DEF RegistryNext

\* Every version the index lists has its directory, complete and written by the
\* run that registered it, as long as no two sessions share an output
\* directory: register copies before it saves.
THEOREM RowsAlwaysLoad ==
  ASSUME Separate
  PROVE  RegistrySpec => []RowsLoad
<1>1. RegistryInit => AllFilled
  <2>1. Registered(EmptyIndex) = {}
    BY DEF Registered, EmptyIndex, Absent
  <2> QED
    BY <2>1 DEF RegistryInit, AllFilled, Filled, NoWork, Staged, Torn
<1>2. RegistryInv /\ AllFilled /\ [RegistryNext]_registryVars => (RegistryInv /\ AllFilled)'
  BY RegistryStep, FilledStep
<1>3. AllFilled => RowsLoad
  BY DEF AllFilled, Filled, RowsLoad
<1> QED
  BY <1>1, <1>2, <1>3, InitiallyInv, PTL DEF RegistrySpec

-----------------------------------------------------------------------------
(* Promotions.  Whoever last wrote the index told every session under way  *)
(* that it was overtaken, unless the champion is the one before; so a      *)
(* training nobody overtook still competes with the champion it loaded.    *)

Approving == {"approve", "save_approval", "write_approval"}

Earned(s) ==
  pc[s] # "idle" /\ work[s].run # None =>
    /\ pc[s] \in Approving => work[s].passed
    /\ work[s].overtaken \/ crowned = {work[s].rival} \ {None}
    /\ pc[s] = "compare" => work[s].panel \in Panels

PromotionInv ==
  /\ ~index.torn => crowned = Champions(index)
  /\ \A s \in Sessions : Earned(s)

\* The champion that get_champion finds is the one the rows name.
LEMMA ChampionFound ==
  ASSUME RegistryInv, ~index.torn
  PROVE  {ChampionOf(index)} \ {None} = Champions(index)
<1>1. Champions(index) = {index.champion} \ {None} /\ index \in Index
  BY DEF RegistryInv, KnownFine, Fine, RegistryTypeOK, Torn
<1>2. CASE index.champion = None
  <2>1. Champions(index) = {}
    BY <1>1, <1>2
  <2> QED
    BY <1>2, <2>1 DEF ChampionOf
<1>3. CASE index.champion # None
  <2>1. index.champion \in Champions(index)
    BY <1>1, <1>3
  <2>2. index.champion \in Registered(index)
    BY <2>1 DEF Champions, Registered, Absent
  <2> QED
    BY <1>1, <1>3, <2>2 DEF ChampionOf
<1> QED
  BY <1>2, <1>3

\* A newer champion marks every session under way, and no champion none.
LEMMA OvertakenTells ==
  ASSUME work \in [Sessions -> Work], NEW s \in Sessions, NEW t \in Sessions
  PROVE  /\ Overtaken(work, s)[t].rival = work[t].rival
         /\ Overtaken(work, s)[t].passed = work[t].passed
         /\ Overtaken(work, s)[t].panel = work[t].panel
         /\ pc[t] # "idle" => \/ Overtaken(work, s)[t].overtaken
                              \/ /\ Overtaken(work, s)[t].overtaken = work[t].overtaken
                                 /\ crowned = Champions(work[s].copy)
<1>1. work[t] \in Work
  OBVIOUS
<1>2. CASE crowned = Champions(work[s].copy)
  BY <1>2 DEF Overtaken
<1>3. CASE crowned # Champions(work[s].copy)
  <2> DEFINE marked == [work[t] EXCEPT !.overtaken = TRUE]
  <2>1. /\ marked.rival = work[t].rival /\ marked.passed = work[t].passed
        /\ marked.panel = work[t].panel /\ marked.overtaken
    BY <1>1 DEF Work
  <2>2. Overtaken(work, s)[t] = IF pc[t] = "idle" THEN work[t] ELSE marked
    BY <1>3, <1>1 DEF Overtaken
  <2> HIDE DEF marked
  <2> QED
    BY <2>1, <2>2
<1> QED
  BY <1>2, <1>3

LEMMA PromotionStep ==
  ASSUME RegistryInv, PromotionInv, [RegistryNext]_registryVars
  PROVE  PromotionInv'
<1>0. RegistryTypeOK
  BY DEF RegistryInv
\* A step of s that writes no index, and starts no training.
<1>a. ASSUME NEW s \in Sessions, crowned' = crowned, index' = index \/ index' = Torn,
             \A t \in Sessions \ {s} : pc'[t] = pc[t] /\ work'[t] = work[t],
             \/ pc'[s] = "idle" \/ work'[s].run = None
             \/ /\ pc[s] # "idle" /\ pc'[s] # "compare" /\ work'[s].run = work[s].run
                /\ work'[s].rival = work[s].rival
                /\ work'[s].overtaken = work[s].overtaken
                /\ pc'[s] \in Approving => pc[s] \in Approving /\ work'[s].passed = work[s].passed
      PROVE  PromotionInv'
  <2>1. ~index'.torn => crowned' = Champions(index')
    BY <1>a DEF PromotionInv, Torn
  <2>2. Earned(s)'
    BY <1>a DEF PromotionInv, Earned
  <2>3. ASSUME NEW t \in Sessions, t # s PROVE Earned(t)'
    BY <1>a, <2>3 DEF PromotionInv, Earned
  <2> QED
    BY <2>1, <2>2, <2>3 DEF PromotionInv
<1>b. ASSUME NEW s \in Sessions, Stop(s), UNCHANGED <<index, crowned>>
      PROVE  PromotionInv'
  <2>1. pc'[s] = "idle" /\ \A t \in Sessions \ {s} : pc'[t] = pc[t] /\ work'[t] = work[t]
    BY <1>0, <1>b DEF Stop, RegistryTypeOK
  <2> QED
    BY <1>a, <1>b, <2>1
<1>1. CASE UNCHANGED registryVars
  BY <1>1 DEF registryVars, PromotionInv, Earned
<1>2. ASSUME NEW s \in Sessions, LoadChampion(s) PROVE PromotionInv'
  <2> DEFINE Fresh(promote, taught) ==
        [NoWork EXCEPT !.run = started + 1, !.promote = promote,
           !.panel = taught, !.rival = ChampionOf(index)]
  <2>1. PICK promote \in BOOLEAN, taught \in Panels :
          IF ~index.torn /\ Loads(ChampionOf(index))
          THEN /\ pc' = [pc EXCEPT ![s] = "compare"]
               /\ work' = [work EXCEPT ![s] = Fresh(promote, taught)]
          ELSE UNCHANGED <<pc, work>>
    BY <1>2 DEF LoadChampion, Goto
  <2>2. UNCHANGED <<index, crowned>>
    BY <1>2 DEF LoadChampion
  <2>3. Fresh(promote, taught).rival = ChampionOf(index) /\ Fresh(promote, taught).panel = taught
    BY DEF NoWork
  <2> HIDE DEF Fresh
  <2>4. CASE UNCHANGED <<pc, work>>
    BY <2>2, <2>4 DEF PromotionInv, Earned
  <2>5. CASE ~UNCHANGED <<pc, work>>
    <3>1. /\ ~index.torn /\ pc'[s] = "compare" /\ work'[s] = Fresh(promote, taught)
          /\ \A t \in Sessions \ {s} : pc'[t] = pc[t] /\ work'[t] = work[t]
      BY <1>0, <2>1, <2>5 DEF RegistryTypeOK
    <3>2. crowned = {work'[s].rival} \ {None}
      BY <2>3, <3>1, ChampionFound DEF PromotionInv
    <3>3. Earned(s)'
      BY <2>2, <2>3, <3>1, <3>2 DEF Earned, Approving
    <3>4. ASSUME NEW t \in Sessions, t # s PROVE Earned(t)'
      BY <2>2, <3>1, <3>4 DEF PromotionInv, Earned
    <3> QED
      BY <2>2, <3>3, <3>4 DEF PromotionInv
  <2> QED
    BY <2>4, <2>5
<1>3. ASSUME NEW s \in Sessions, Compare(s) PROVE PromotionInv'
  <2>1. PICK passed \in BOOLEAN : work' = [work EXCEPT ![s].passed = passed, ![s].panel = << >>]
    BY <1>3 DEF Compare, EvaluatePromotion
  <2> DEFINE held == [work[s] EXCEPT !.passed = passed, !.panel = << >>]
  <2>2. work' = [work EXCEPT ![s] = held]
    BY <1>0, <1>3, <2>1 DEF RegistryTypeOK
  <2>3. held.run = work[s].run /\ held.rival = work[s].rival /\ held.overtaken = work[s].overtaken
    <3>1. work[s] \in Work
      BY <1>0, <1>3 DEF RegistryTypeOK
    <3> QED
      BY <3>1 DEF Work
  <2> HIDE DEF held
  <2>4. work'[s] = held /\ \A t \in Sessions \ {s} : pc'[t] = pc[t] /\ work'[t] = work[t]
    BY <1>0, <1>3, <2>2 DEF Compare, Goto, RegistryTypeOK
  <2>5. pc[s] = "compare" /\ pc'[s] = "clear" /\ UNCHANGED <<index, crowned>>
    BY <1>0, <1>3 DEF Compare, Goto, RegistryTypeOK
  <2> QED
    BY <1>a, <2>3, <2>4, <2>5 DEF Approving
<1>4. ASSUME NEW s \in Sessions, ClearStaging(s) \/ WriteArtifact(s) PROVE PromotionInv'
  <2>1. /\ UNCHANGED <<index, crowned, work>> /\ pc[s] # "idle"
        /\ pc'[s] \notin Approving /\ pc'[s] # "compare"
        /\ \A t \in Sessions \ {s} : pc'[t] = pc[t]
    BY <1>0, <1>4 DEF ClearStaging, WriteArtifact, Goto, RegistryTypeOK, Approving
  <2> QED
    BY <1>a, <2>1
<1>5. ASSUME NEW s \in Sessions, Kill(s) PROVE PromotionInv'
  BY <1>5, <1>b DEF Kill
<1>6. ASSUME NEW s \in Sessions, OpenIndex(s) PROVE PromotionInv'
  <2>1. /\ UNCHANGED <<crowned, work>> /\ index' = Torn /\ pc[s] # "idle"
        /\ pc'[s] \in Approving => pc[s] \in Approving
        /\ pc'[s] # "compare" /\ \A t \in Sessions \ {s} : pc'[t] = pc[t]
    BY <1>0, <1>6 DEF OpenIndex, Goto, RegistryTypeOK, Approving
  <2> QED
    BY <1>a, <2>1
<1>7. ASSUME NEW s \in Sessions, AskApproval(s) PROVE PromotionInv'
  <2>1. PICK v, status :
          work' = [work EXCEPT ![s] = [NoWork EXCEPT !.version = v, !.status = status]]
    BY <1>7 DEF AskApproval
  <2>2. work'[s].run = None /\ \A t \in Sessions \ {s} : work'[t] = work[t]
    BY <1>0, <2>1 DEF RegistryTypeOK, NoWork
  <2>3. UNCHANGED <<index, crowned>> /\ \A t \in Sessions \ {s} : pc'[t] = pc[t]
    BY <1>0, <1>7 DEF AskApproval, Goto, RegistryTypeOK
  <2> QED
    BY <1>a, <2>2, <2>3
<1>8. ASSUME NEW s \in Sessions, ReadIndex(s) PROVE PromotionInv'
  <2>1. CASE index.torn
    BY <1>8, <1>b, <2>1 DEF ReadIndex
  <2>2. CASE ~index.torn
    <3> DEFINE held == [work[s] EXCEPT !.copy = index, !.version = NextVersion(index)]
    <3>1. /\ pc[s] = "register" /\ pc' = [pc EXCEPT ![s] = "claim"]
          /\ work' = [work EXCEPT ![s].copy = index, ![s].version = NextVersion(index)]
          /\ UNCHANGED <<index, crowned>>
      BY <1>8, <2>2 DEF ReadIndex, Goto
    <3>2. work' = [work EXCEPT ![s] = held]
      BY <1>0, <3>1 DEF RegistryTypeOK
    <3>3. held.run = work[s].run /\ held.rival = work[s].rival /\ held.overtaken = work[s].overtaken
      BY <1>0 DEF RegistryTypeOK, Work
    <3> HIDE DEF held
    <3>4. work'[s] = held /\ \A t \in Sessions \ {s} : pc'[t] = pc[t] /\ work'[t] = work[t]
      BY <1>0, <3>1, <3>2 DEF RegistryTypeOK
    <3>5. pc'[s] = "claim"
      BY <1>0, <3>1 DEF RegistryTypeOK
    <3> QED
      BY <1>a, <3>1, <3>3, <3>4, <3>5 DEF Approving
  <2> QED
    BY <2>1, <2>2
<1>9. ASSUME NEW s \in Sessions, MakeFolder(s) PROVE PromotionInv'
  <2>1. CASE folders[work[s].version] # Missing
    BY <1>9, <1>b, <2>1 DEF MakeFolder
  <2>2. CASE folders[work[s].version] = Missing
    <3>1. /\ pc[s] # "idle" /\ pc'[s] = "copy" /\ UNCHANGED <<index, work, crowned>>
          /\ \A t \in Sessions \ {s} : pc'[t] = pc[t]
      BY <1>0, <1>9, <2>2 DEF MakeFolder, Goto, RegistryTypeOK
    <3> QED
      BY <1>a, <3>1 DEF Approving
  <2> QED
    BY <2>1, <2>2
<1>10. ASSUME NEW s \in Sessions, CopyTree(s) PROVE PromotionInv'
  <2> DEFINE held == [work[s] EXCEPT !.copy = Recorded(work[s].copy, work[s].version, work[s].run)]
  <2>1. /\ pc[s] = "copy" /\ pc' = [pc EXCEPT ![s] = "save"] /\ UNCHANGED <<index, crowned>>
        /\ work' = [work EXCEPT ![s] = held]
    BY <1>0, <1>10 DEF CopyTree, Goto, RegistryTypeOK
  <2>2. held.run = work[s].run /\ held.rival = work[s].rival /\ held.overtaken = work[s].overtaken
    BY <1>0 DEF RegistryTypeOK, Work
  <2> HIDE DEF held
  <2>3. work'[s] = held /\ \A t \in Sessions \ {s} : pc'[t] = pc[t] /\ work'[t] = work[t]
    BY <1>0, <2>1 DEF RegistryTypeOK
  <2>4. pc'[s] = "save"
    BY <1>0, <2>1 DEF RegistryTypeOK
  <2> QED
    BY <1>a, <2>1, <2>2, <2>3, <2>4 DEF Approving
<1>11. ASSUME NEW s \in Sessions, Approve(s) PROVE PromotionInv'
  <2>1. CASE index.torn \/ work[s].version \notin Registered(index)
    BY <1>11, <1>b, <2>1 DEF Approve
  <2>2. CASE ~index.torn /\ work[s].version \in Registered(index)
    <3> DEFINE held == [work[s] EXCEPT !.copy = Approved(index, work[s].version, work[s].status)]
    <3>1. /\ pc[s] = "approve" /\ pc' = [pc EXCEPT ![s] = "save_approval"]
          /\ work' = [work EXCEPT ![s] = held]
          /\ UNCHANGED <<index, crowned>>
      BY <1>0, <1>11, <2>2 DEF Approve, Goto, RegistryTypeOK
    <3>2. /\ held.run = work[s].run /\ held.rival = work[s].rival
          /\ held.overtaken = work[s].overtaken /\ held.passed = work[s].passed
      BY <1>0 DEF RegistryTypeOK, Work
    <3> HIDE DEF held
    <3>3. work'[s] = held /\ \A t \in Sessions \ {s} : pc'[t] = pc[t] /\ work'[t] = work[t]
      BY <1>0, <3>1 DEF RegistryTypeOK
    <3>4. pc[s] # "idle" /\ pc[s] \in Approving /\ pc'[s] # "compare"
      BY <1>0, <3>1 DEF RegistryTypeOK, Approving
    <3> QED
      BY <1>a, <3>1, <3>2, <3>3, <3>4
  <2> QED
    BY <2>1, <2>2
<1>12. ASSUME NEW s \in Sessions, WriteRegistration(s) \/ WriteApproval(s) PROVE PromotionInv'
  <2> DEFINE marked == Overtaken(work, s)
             told == [marked[s] EXCEPT !.copy = Torn, !.status = "champion"]
  <2>1. /\ crowned' = Champions(work[s].copy) /\ (index' = work[s].copy \/ index' = Torn)
        /\ pc[s] # "idle"
    BY <1>12 DEF WriteRegistration, WriteApproval, Written, Overwrite
  <2>2. /\ marked \in [Sessions -> Work]
        /\ \A t \in Sessions :
             /\ marked[t].run = work[t].run
             /\ marked[t].rival = work[t].rival /\ marked[t].passed = work[t].passed
             /\ marked[t].panel = work[t].panel
             /\ pc[t] # "idle" => \/ marked[t].overtaken
                                  \/ /\ marked[t].overtaken = work[t].overtaken
                                     /\ crowned = Champions(work[s].copy)
    BY <1>0, OvertakenKeeps, OvertakenTells DEF RegistryTypeOK
  <2> HIDE DEF marked
  <2>3. /\ told.run = marked[s].run /\ told.rival = marked[s].rival
        /\ told.passed = marked[s].passed /\ told.overtaken = marked[s].overtaken
    BY <2>2 DEF Work
  <2>4. \/ /\ work' = [marked EXCEPT ![s] = told] /\ pc' = [pc EXCEPT ![s] = "approve"]
           /\ work[s].passed
        \/ work' = [marked EXCEPT ![s] = NoWork] /\ pc' = [pc EXCEPT ![s] = "idle"]
    BY <1>12, <2>2 DEF WriteRegistration, WriteApproval, Goto, marked
  <2> HIDE DEF told
  <2>5. ~index'.torn => crowned' = Champions(index')
    BY <2>1 DEF Torn
  <2>6. ASSUME NEW t \in Sessions, t # s PROVE Earned(t)'
    <3>1. work'[t] = marked[t] /\ pc'[t] = pc[t]
      BY <1>0, <2>2, <2>4, <2>6 DEF RegistryTypeOK
    <3>2. Earned(t)
      BY DEF PromotionInv
    <3> QED
      BY <2>1, <2>2, <3>1, <3>2 DEF Earned
  <2>7. Earned(s)'
    <3>1. CASE pc'[s] = "idle"
      BY <3>1 DEF Earned
    <3>2. CASE pc'[s] # "idle"
      <4>1. work'[s] = told /\ work[s].passed /\ pc'[s] # "compare"
        BY <1>0, <2>2, <2>4, <3>2 DEF RegistryTypeOK
      <4>2. Earned(s)
        BY DEF PromotionInv
      <4> QED
        BY <2>1, <2>2, <2>3, <4>1, <4>2 DEF Earned
    <3> QED
      BY <3>1, <3>2
  <2> QED
    BY <2>5, <2>6, <2>7 DEF PromotionInv
<1> QED
  BY <1>1, <1>2, <1>3, <1>4, <1>5, <1>6, <1>7, <1>8, <1>9, <1>10, <1>11, <1>12
  DEF RegistryNext

\* What a training was told of the champion stays true until it is overtaken.
LEMMA PromotionsHold ==
  RegistrySpec => [](RegistryInv /\ PromotionInv)
<1>1. RegistryInit => RegistryInv /\ PromotionInv
  <2>1. Champions(EmptyIndex) = {}
    BY DEF Champions, EmptyIndex, Absent
  <2> QED
    BY <2>1, InitiallyInv DEF RegistryInit, PromotionInv, Earned
<1>2. RegistryInv /\ PromotionInv /\ [RegistryNext]_registryVars => (RegistryInv /\ PromotionInv)'
  BY RegistryStep, PromotionStep
<1> QED
  BY <1>1, <1>2, PTL DEF RegistrySpec

\* Whatever sessions overlap or are killed, a training makes its version
\* champion only after it passed the gates, against the champion it replaces
\* unless somebody overtook it (train.py, update_approval).
THEOREM PromotionsAreEarned ==
  RegistrySpec => PromotionEarned
<1>1. PromotionInv =>
        \A s \in Sessions :
          pc[s] = "write_approval" /\ work[s].run # None /\ pc'[s] = "idle"
            /\ index' # index /\ ~index'.torn =>
               /\ work[s].passed
               /\ work[s].overtaken \/ crowned = {work[s].rival} \ {None}
  BY DEF PromotionInv, Earned, Approving
<1> QED
  BY <1>1, PromotionsHold, PTL DEF PromotionEarned

-----------------------------------------------------------------------------
(* Panels: a run of weeks, the same for every category.                    *)

Run(spell) ==
  /\ IsFiniteSet(spell) /\ spell \subseteq Int /\ spell # {}
  /\ \A v, w \in spell : v..w \subseteq spell

Balanced(taught, spell) ==
  /\ IsFiniteSet(DOMAIN taught) /\ DOMAIN taught # {}
  /\ \A c \in DOMAIN taught : taught[c] \in [spell -> Nat]

LEMMA RunIsInterval ==
  ASSUME NEW spell, Run(spell)
  PROVE  /\ Min(spell) \in Int /\ Max(spell) \in Int
         /\ spell = Min(spell)..Max(spell)
         /\ Cardinality(spell) = Max(spell) - Min(spell) + 1
<1>1. /\ Min(spell) \in spell /\ \A w \in spell : Min(spell) <= w
      /\ Max(spell) \in spell /\ \A w \in spell : w <= Max(spell)
  <2>1. IsFiniteSet(spell) /\ spell \subseteq Int /\ spell # {}
    BY DEF Run
  <2>2. Max(spell) \in spell /\ \A w \in spell : Max(spell) >= w
    BY <2>1, MaxOfFinite
  <2>3. Min(spell) \in spell /\ \A w \in spell : Min(spell) <= w
    BY <2>1, MinOfFinite
  <2>4. \A w \in spell : w <= Max(spell)
    <3>1. \A a, b \in Int : a >= b => b <= a
      OBVIOUS
    <3> QED
      BY <2>1, <2>2, <3>1
  <2> QED
    BY <2>2, <2>3, <2>4
<1>2. PICK a, b : a = Min(spell) /\ b = Max(spell)
  OBVIOUS
<1>3. a \in spell /\ b \in spell /\ a \in Int /\ b \in Int
  BY <1>1, <1>2 DEF Run
<1>4. spell = a..b
  <2>1. a..b \subseteq spell
    BY <1>3 DEF Run
  <2>2. ASSUME NEW w \in spell PROVE w \in a..b
    <3>1. w \in Int /\ a <= w /\ w <= b
      BY <1>1, <1>2 DEF Run
    <3> QED
      BY <1>3, <3>1
  <2> QED
    BY <2>1, <2>2
<1>5. a <= b
  BY <1>1, <1>2
<1>6. Cardinality(a..b) = b - a + 1
  BY <1>3, <1>5, FS_Interval
<1> QED
  BY <1>2, <1>3, <1>4, <1>6

LEMMA PeriodsOfPanel ==
  ASSUME NEW taught, NEW spell, Balanced(taught, spell)
  PROVE  Periods(taught) = spell
<1>1. \A c \in DOMAIN taught : DOMAIN taught[c] = spell
  BY DEF Balanced
<1>2. PICK c : c \in DOMAIN taught
  BY DEF Balanced
<1> QED
  BY <1>1, <1>2 DEF Periods

LEMMA SeenWeeks ==
  ASSUME NEW taught, NEW spell, Run(spell), Balanced(taught, spell),
         NEW c \in DOMAIN taught, NEW cutoff \in spell
  PROVE  LET seen == Seen(taught, c, cutoff)
         IN  /\ seen \subseteq spell /\ IsFiniteSet(seen) /\ seen # {} /\ seen \subseteq Int
             /\ Max(seen) \in seen /\ \A w \in seen : w <= cutoff
<1> DEFINE seen == Seen(taught, c, cutoff)
<1>1. DOMAIN taught[c] = spell
  BY DEF Balanced
<1>2. /\ seen \subseteq spell /\ \A w \in seen : w <= cutoff
      /\ cutoff \in seen /\ seen \subseteq Int
  BY <1>1 DEF Seen, Run
<1>3. IsFiniteSet(seen)
  BY <1>2, FS_Subset DEF Run
<1>4. Max(seen) \in seen
  <2> HIDE DEF seen
  <2> QED
    BY <1>2, <1>3, MaxOfFinite
<1> QED
  BY <1>2, <1>3, <1>4

LEMMA TrailingWeeks ==
  ASSUME NEW seen, IsFiniteSet(seen), seen # {}, seen \subseteq Int, NEW n \in Nat \ {0}
  PROVE  /\ Trailing(seen, n) \subseteq seen /\ IsFiniteSet(Trailing(seen, n))
         /\ Cardinality(Trailing(seen, n)) \in Nat \ {0}
<1> DEFINE recent == Trailing(seen, n)
<1>1. recent \subseteq seen
  BY DEF Trailing
<1>2. IsFiniteSet(recent)
  BY <1>1, FS_Subset
<1>3. Max(seen) \in recent
  <2>1. Max(seen) \in seen /\ \A w \in seen : Max(seen) >= w
    BY MaxOfFinite
  <2>4. PICK m : m = Max(seen)
    OBVIOUS
  <2>5. m \in Int /\ \A w \in seen : w \in Int /\ m >= w
    BY <2>1, <2>4
  <2>6. {v \in seen : v > m} = {}
    <3>1. ASSUME NEW v \in seen, v > m PROVE FALSE
      <4>1. v \in Int /\ m \in Int /\ m >= v
        BY <2>5
      <4> QED
        BY <3>1, <4>1
    <3> QED
      BY <3>1
  <2>2. {v \in seen : v > Max(seen)} = {}
    BY <2>4, <2>6
  <2>3. Cardinality({}) = 0
    BY FS_EmptySet
  <2> QED
    BY <2>1, <2>2, <2>3 DEF Trailing
<1>4. Cardinality(recent) \in Nat /\ Cardinality(recent) # 0
  BY <1>2, <1>3, FS_CardinalityType, FS_EmptySet
<1> QED
  BY <1>1, <1>2, <1>4

LEMMA WholePredictions ==
  ASSUME NEW taught, NEW spell, Run(spell), Balanced(taught, spell),
         NEW cutoff \in spell, NEW horizon \in Nat, NEW model \in Models
  PROVE  Predictions(model, taught, cutoff, horizon)
           \in [(DOMAIN taught) \X (1..horizon) -> Int]
<1>1. SUFFICES ASSUME NEW c \in DOMAIN taught, NEW step_ \in 1..horizon
               PROVE  Predict(model, taught, c, cutoff, step_) \in Int
  BY DEF Predictions
<1> DEFINE seen == Seen(taught, c, cutoff)
<1>2. Scale \in Nat /\ Window \in Nat \ {0}
  BY ScaleAssumption, LagAssumption
<1>3. /\ seen \subseteq spell /\ IsFiniteSet(seen) /\ seen # {} /\ seen \subseteq Int
      /\ Max(seen) \in seen
  BY SeenWeeks
<1>4. \A w \in spell : taught[c][w] \in Nat
  BY DEF Balanced
<1>5. \A w \in spell : Scale * taught[c][w] \in Int
  <2>1. \A x \in Nat : Scale * x \in Int
    BY <1>2
  <2> QED
    BY <1>4, <2>1
<1>6. Naive(taught, c, cutoff) \in Int
  BY <1>3, <1>5 DEF Naive
<1>7. SeasonalNaive(taught, c, cutoff, step_) \in Int
  BY <1>3, <1>5, <1>6 DEF SeasonalNaive
<1>8. MovingAverage(taught, c, cutoff) \in Int
  <2> DEFINE recent == Trailing(seen, Window)
             total == SumFunction([w \in recent |-> taught[c][w]])
  <2>1. recent \subseteq seen /\ IsFiniteSet(recent) /\ Cardinality(recent) \in Nat \ {0}
    BY <1>2, <1>3, TrailingWeeks
  <2>2. total \in Int
    <3> DEFINE f == [w \in recent |-> taught[c][w]]
    <3>1. DOMAIN f = recent /\ \A w \in recent : f[w] \in Int
      BY <1>3, <1>4, <2>1
    <3> HIDE DEF f, recent
    <3>2. SumFunctionOnSet(f, recent) \in Int
      BY <2>1, <3>1, SumType
    <3> QED
      BY <3>1, <3>2 DEF SumFunction, f
  <2> HIDE DEF recent, total
  <2>3. \A x \in Int, k \in Nat \ {0} : (Scale * x) \div k \in Int
    <3>1. \A x \in Int : Scale * x \in Int
      BY <1>2
    <3>2. \A y \in Int, k \in Nat \ {0} : y \div k \in Int
      OBVIOUS
    <3> QED
      BY <3>1, <3>2
  <2>4. (Scale * total) \div Cardinality(recent) \in Int
    BY <2>1, <2>2, <2>3
  <2> QED
    BY <2>4 DEF MovingAverage, recent, total
<1> QED
  BY <1>6, <1>7, <1>8 DEF Predict, Models

\* Whatever is predicted for a panel, its score has the panel's points and
\* actuals.
LEMMA ScoreOfPanel ==
  ASSUME NEW taught, NEW spell, Run(spell), Balanced(taught, spell),
         NEW cutoff \in spell, NEW horizon \in Nat,
         NEW predicted \in [(DOMAIN taught) \X (1..horizon) -> Int]
  PROVE  Score(taught, cutoff, horizon, predicted) \in Scores
<1> DEFINE points == Scored(taught, cutoff, horizon)
           actuals == [p \in points |-> Scale * taught[p[1]][cutoff + p[2]]]
           errors == [p \in points |->
                        Distance(predicted[p], Scale * taught[p[1]][cutoff + p[2]])]
<1>1. points \subseteq (DOMAIN taught) \X (1..horizon)
  BY DEF Scored
<1>2. IsFiniteSet(points)
  <2>1. IsFiniteSet(1..horizon)
    BY FS_Interval
  <2>2. IsFiniteSet((DOMAIN taught) \X (1..horizon))
    BY <2>1, FS_Product DEF Balanced
  <2> QED
    BY <1>1, <2>2, FS_Subset
<1>3. ASSUME NEW p \in points
      PROVE  Scale * taught[p[1]][cutoff + p[2]] \in Nat
  <2>1. p[1] \in DOMAIN taught /\ cutoff + p[2] \in DOMAIN taught[p[1]]
    BY DEF Scored
  <2>2. taught[p[1]][cutoff + p[2]] \in Nat
    BY <2>1 DEF Balanced
  <2>3. \A x \in Nat : Scale * x \in Nat
    BY ScaleAssumption
  <2> QED
    BY <2>2, <2>3
<1>4. \A p \in points : actuals[p] \in Nat
  BY <1>3
<1>5. \A p \in points : errors[p] \in Nat
  <2>1. \A a, b \in Int : Distance(a, b) \in Nat
    BY DEF Distance
  <2>2. \A p \in points : predicted[p] \in Int
    BY <1>1
  <2>3. ASSUME NEW p \in points
        PROVE  Distance(predicted[p], Scale * taught[p[1]][cutoff + p[2]]) \in Nat
    <3>1. predicted[p] \in Int
      BY <2>2
    <3>2. Scale * taught[p[1]][cutoff + p[2]] \in Int
      BY <1>3
    <3> HIDE DEF points
    <3> QED
      BY <2>1, <3>1, <3>2
  <2> HIDE DEF points
  <2> QED
    BY <2>3
<1>6. DOMAIN actuals = points /\ DOMAIN errors = points
  OBVIOUS
<1>9. Score(taught, cutoff, horizon, predicted)
        = [error |-> SumFunction(errors), actual |-> SumFunction(actuals),
           count |-> Cardinality(points)]
  BY DEF Score
<1> HIDE DEF points, actuals, errors
<1>7. SumFunction(actuals) \in Nat /\ SumFunction(errors) \in Nat
  BY <1>2, <1>4, <1>5, <1>6, SumType DEF SumFunction
<1>8. Cardinality(points) \in Nat
  BY <1>2, FS_CardinalityType
<1> QED
  BY <1>7, <1>8, <1>9 DEF Scores

-----------------------------------------------------------------------------
(* A training scores every model on the same points, so one gate decides.  *)

LEMMA TrainingPanel ==
  ASSUME NEW taught \in Panels
  PROVE  /\ Run(Periods(taught)) /\ Balanced(taught, Periods(taught))
         /\ TrainEnd(taught, Validation, Test) \in Periods(taught)
<1> DEFINE spell == Periods(taught)
<1>1. LongEnoughToTrain(taught)
  BY TrainingAssumption
<1>2. /\ IsFiniteSet(DOMAIN taught) /\ IsFiniteSet(spell) /\ spell \subseteq Int
      /\ \A c \in DOMAIN taught : taught[c] \in [spell -> Nat]
      /\ \A v, w \in spell : v..w \subseteq spell
      /\ Cardinality(spell) > Validation + Test
  BY <1>1 DEF LongEnoughToTrain
<1>3. Validation \in Nat \ {0} /\ Test \in Nat \ {0}
  BY HoldoutAssumption
<1>4. spell # {}
  <2> HIDE DEF spell
  <2>1. Cardinality({}) = 0
    BY FS_EmptySet
  <2> QED
    BY <1>2, <1>3, <2>1
<1>5. DOMAIN taught # {}
  BY <1>4 DEF Periods
<1>6. Run(spell) /\ Balanced(taught, spell)
  BY <1>2, <1>4, <1>5 DEF Run, Balanced
<1> HIDE DEF spell
<1>7. /\ Min(spell) \in Int /\ Max(spell) \in Int
      /\ spell = Min(spell)..Max(spell)
      /\ Cardinality(spell) = Max(spell) - Min(spell) + 1
  BY <1>6, RunIsInterval
<1>8. Max(spell) - Validation - Test \in Min(spell)..Max(spell)
  BY <1>2, <1>3, <1>7
<1>9. TrainEnd(taught, Validation, Test) \in spell
  BY <1>7, <1>8 DEF TrainEnd, spell
<1> QED
  BY <1>6, <1>9 DEF spell

LEMMA GatesAgree ==
  ASSUME NEW a \in Nat, NEW n \in Nat, NEW scores, scores \subseteq Scores,
         \A other \in scores : other.actual = a /\ other.count = n,
         NEW mine \in scores, NEW baselines, baselines \subseteq scores,
         NEW champions, champions \subseteq scores, AccuracyGate(mine, baselines, champions)
  PROVE  SecondaryGate(mine, baselines, champions)
<1>1. ASSUME NEW other \in baselines \cup champions
      PROVE  AtMost(Mae(mine), Mae(other))
  <2>1. Below(Wape(mine), Wape(other))
    BY DEF AccuracyGate
  <2>2. mine \in Scores /\ other \in Scores
    OBVIOUS
  <2>3. mine.actual = other.actual /\ mine.count = other.count
    OBVIOUS
  <2> QED
    BY <2>1, <2>2, <2>3, GateImplied
<1> QED
  BY <1>1 DEF SecondaryGate

\* A score of a training: its points are the panel's, whatever the error.
LEMMA TrainingScores ==
  ASSUME NEW taught \in Panels, NEW model \in Models
  PROVE  LET cutoff == TrainEnd(taught, Validation, Test)
             score == Score(taught, cutoff, Horizon, Predictions(model, taught, cutoff, Horizon))
             naive == Score(taught, cutoff, Horizon, Predictions("naive", taught, cutoff, Horizon))
         IN  /\ score \in Scores /\ naive \in Scores
             /\ score.actual = naive.actual /\ score.count = naive.count
<1> DEFINE cutoff == TrainEnd(taught, Validation, Test)
           score(m) == Score(taught, cutoff, Horizon, Predictions(m, taught, cutoff, Horizon))
<1>1. /\ Run(Periods(taught)) /\ Balanced(taught, Periods(taught)) /\ cutoff \in Periods(taught)
  BY TrainingPanel
<1>2. Horizon \in Nat /\ "naive" \in Models
  BY TrainingAssumption DEF Models
<1>4. score(model).actual = score("naive").actual /\ score(model).count = score("naive").count
  BY DEF Score
<1>3. ASSUME NEW m \in Models PROVE score(m) \in Scores
  <2> HIDE DEF cutoff
  <2>1. Predictions(m, taught, cutoff, Horizon) \in [(DOMAIN taught) \X (1..Horizon) -> Int]
    BY <1>1, <1>2, WholePredictions
  <2> QED
    BY <1>1, <1>2, <2>1, ScoreOfPanel
<1> QED
  BY <1>2, <1>3, <1>4

\* promotion.py's second gate refuses nothing that the first let through.
THEOREM SecondGateIdle ==
  RegistrySpec => SecondGateNeverDecides
<1> DEFINE Idle(s) ==
      LET taught == work[s].panel
          cutoff == TrainEnd(taught, Validation, Test)
          Of(model) == Score(taught, cutoff, Horizon,
                             Predictions(model, taught, cutoff, Horizon))
          baselines == {Of(m) : m \in Models}
          fitted == {[Of("naive") EXCEPT !.error = e] : e \in Errors}
      IN  \A mine \in fitted, its \in {{}} \cup {{f} : f \in fitted} :
            AccuracyGate(mine, baselines, its) => SecondaryGate(mine, baselines, its)
<1>1. ASSUME NEW s \in Sessions, RegistryInv, PromotionInv, pc[s] = "compare"
      PROVE  Idle(s)
  <2> DEFINE taught == work[s].panel
             cutoff == TrainEnd(taught, Validation, Test)
             Of(model) == Score(taught, cutoff, Horizon,
                                Predictions(model, taught, cutoff, Horizon))
             baselines == {Of(m) : m \in Models}
             fitted == {[Of("naive") EXCEPT !.error = e] : e \in Errors}
             a == Of("naive").actual
             n == Of("naive").count
             Same(x) == x \in Scores /\ x.actual = a /\ x.count = n
  <2>1. taught \in Panels
    BY <1>1 DEF PromotionInv, Earned, RegistryInv, SessionsReady, Fitting
  <2>2. \A m \in Models : Of(m) \in Scores /\ Of(m).actual = a /\ Of(m).count = n
    BY <2>1, TrainingScores
  <2>3. Of("naive") \in Scores
    BY <2>2 DEF Models
  <2> HIDE DEF taught, cutoff, Of
  <2>4. ASSUME NEW e \in Errors PROVE Same([Of("naive") EXCEPT !.error = e])
    <3>1. e \in Nat
      BY TrainingAssumption
    <3> QED
      BY <2>3, <3>1 DEF Scores
  <2>5. a \in Nat /\ n \in Nat
    BY <2>3 DEF Scores
  <2> HIDE DEF a, n
  <2>6. \A x \in baselines \cup fitted : Same(x)
    BY <2>2, <2>4
  <2> HIDE DEF baselines, fitted
  <2>7. ASSUME NEW mine \in fitted, NEW its \in {{}} \cup {{f} : f \in fitted},
               AccuracyGate(mine, baselines, its)
        PROVE  SecondaryGate(mine, baselines, its)
    <3> DEFINE scores == baselines \cup fitted
    <3>1. its \subseteq scores /\ baselines \subseteq scores /\ mine \in scores
      OBVIOUS
    <3>2. scores \subseteq Scores /\ \A other \in scores : other.actual = a /\ other.count = n
      BY <2>6
    <3> HIDE DEF scores
    <3> QED
      BY <2>5, <2>7, <3>1, <3>2, GatesAgree
  <2> QED
    BY <2>7 DEF taught, cutoff, Of, baselines, fitted
<1> HIDE DEF Idle
<1>2. RegistryInv /\ PromotionInv =>
        \A s \in Sessions : pc[s] = "compare" /\ pc'[s] = "clear" => Idle(s)
  BY <1>1
<1>3. RegistrySpec => [](RegistryInv /\ PromotionInv)
  BY PromotionsHold
<1>4. [](RegistryInv /\ PromotionInv) =>
        [][\A s \in Sessions : pc[s] = "compare" /\ pc'[s] = "clear" => Idle(s)]_pc
  BY <1>2, PTL
<1> QED
  BY <1>3, <1>4, PTL DEF SecondGateNeverDecides, Idle

-----------------------------------------------------------------------------
(* Evaluations.  Rows are ingested and corrected between the four reads of *)
(* an evaluation, and never deleted: the days its span was read from are   *)
(* still there when its sales are read, and so is what its catalog listed. *)

Spans(rows, run) ==
  \A w \in run : /\ \E s \in rows : s.day <= Monday(w)
                 /\ \E s \in rows : s.day >= Monday(w + 1) - 1

LEMMA Monotone ==
  ASSUME NEW a \in Int, NEW b \in Int, a <= b, NEW d \in Nat
  PROVE  a * d <= b * d
<1>1. PICK k \in Nat : b = a + k
  <2>1. b - a \in Nat /\ b = a + (b - a)
    OBVIOUS
  <2> QED
    BY <2>1
<1>2. b * d = a * d + k * d
  BY <1>1
<1>3. k * d \in Nat /\ a * d \in Int
  OBVIOUS
<1> QED
  BY <1>2, <1>3

LEMMA SpanIsRun ==
  ASSUME NEW rows, SalesRows(rows), Span(rows) # {}
  PROVE  Run(Span(rows)) /\ Spans(rows, Span(rows)) /\ rows # {}
<1> DEFINE days == {s.day : s \in rows}
           first == Min(days)
           last == Max(days)
           run == CompleteWeeks(first, last)
<1>1. rows # {} /\ Span(rows) = run
  BY DEF Span, SpanOf
<1>2. IsFiniteSet(days) /\ days \subseteq Int /\ days # {}
  <2> DEFINE day == [s \in rows |-> s.day]
  <2>1. \A s \in rows : day[s] = s.day /\ s.day \in Int
    BY DEF SalesRows
  <2>2. days = {day[s] : s \in rows}
    BY <2>1
  <2> HIDE DEF day
  <2>3. IsFiniteSet({day[s] : s \in rows})
    BY FiniteRange DEF SalesRows
  <2> QED
    BY <1>1, <2>1, <2>2, <2>3
<1> HIDE DEF days
<1>3. first \in days /\ last \in days
  BY <1>2, MinOfFinite, MaxOfFinite
<1>4. first \in Int /\ last \in Int
  BY <1>2, <1>3
<1> HIDE DEF first, last
<1>5. DaysPerWeek \in Nat \ {0}
  BY WeekAssumption
<1>6. \A x \in Int : WeekOf(x) \in Int
  BY <1>5 DEF WeekOf
<1>7. run \subseteq WeekOf(first)..WeekOf(last)
  BY DEF CompleteWeeks
<1>8. IsFiniteSet(run) /\ run \subseteq Int
  <2>1. IsFiniteSet(WeekOf(first)..WeekOf(last))
    BY <1>4, <1>6, FS_Interval
  <2>2. \A a, b \in Int : a..b \subseteq Int
    OBVIOUS
  <2>3. WeekOf(first) \in Int /\ WeekOf(last) \in Int
    BY <1>4, <1>6
  <2> HIDE DEF run
  <2> QED
    BY <1>7, <2>1, <2>2, <2>3, FS_Subset
<1>9. \A w \in run : first <= Monday(w) /\ Monday(w + 1) - 1 <= last
  BY DEF CompleteWeeks
<1>10. ASSUME NEW v \in run, NEW w \in run, NEW u \in v..w PROVE u \in run
  <2>1. v \in Int /\ w \in Int /\ u \in Int /\ v <= u /\ u <= w
    <3> HIDE DEF run
    <3> QED
      BY <1>8
  <2>2. PICK a, b, c, d : /\ a = Monday(v) /\ b = Monday(u)
                          /\ c = Monday(u + 1) /\ d = Monday(w + 1)
    OBVIOUS
  <2>3. a \in Int /\ b \in Int /\ c \in Int /\ d \in Int
    BY <1>5, <2>1, <2>2 DEF Monday
  <2>4. a <= b /\ c <= d
    <3>1. u + 1 <= w + 1 /\ u + 1 \in Int /\ w + 1 \in Int
      BY <2>1
    <3> QED
      BY <1>5, <2>1, <2>2, <3>1, Monotone DEF Monday
  <2>5. first <= a /\ d - 1 <= last
    BY <1>9, <2>2
  <2>6. first <= b /\ c - 1 <= last
    BY <1>4, <2>3, <2>4, <2>5
  <2>7. u \in WeekOf(first)..WeekOf(last)
    <3>1. v \in WeekOf(first)..WeekOf(last) /\ w \in WeekOf(first)..WeekOf(last)
      BY <1>7
    <3>2. WeekOf(first) \in Int /\ WeekOf(last) \in Int
      BY <1>4, <1>6
    <3> QED
      BY <2>1, <3>1, <3>2
  <2> QED
    BY <2>2, <2>6, <2>7 DEF CompleteWeeks
<1>11. ASSUME NEW w \in run
       PROVE  /\ \E s \in rows : s.day <= Monday(w)
              /\ \E s \in rows : s.day >= Monday(w + 1) - 1
  <2>1. PICK s \in rows : s.day = first
    BY <1>3 DEF days
  <2>2. PICK q \in rows : q.day = last
    BY <1>3 DEF days
  <2>3. Monday(w + 1) \in Int
    <3>1. w \in Int
      BY <1>8
    <3> QED
      BY <1>5, <3>1 DEF Monday
  <2>4. last >= Monday(w + 1) - 1
    BY <1>4, <1>9, <2>3
  <2> QED
    BY <1>9, <2>1, <2>2, <2>4
<1> HIDE DEF run
<1>12. Run(run)
  BY <1>1, <1>8, <1>10 DEF Run
<1>13. Spans(rows, run)
  BY <1>11 DEF Spans
<1> QED
  BY <1>1, <1>12, <1>13

LEMMA DemandIsWhole ==
  ASSUME NEW rows, SalesRows(rows), NEW filed, NEW c, NEW w
  PROVE  Demand(rows, filed, c, w) \in Nat
<1> DEFINE sold == {s \in rows : EntityOf(s, filed) = c /\ WeekOf(s.day) = w}
           units == [s \in sold |-> s.units]
<1>1. IsFiniteSet(sold)
  BY FS_Subset DEF SalesRows
<1>2. DOMAIN units = sold /\ \A s \in sold : units[s] \in Nat
  BY DEF SalesRows
<1>3. Demand(rows, filed, c, w) = SumFunction(units)
  BY DEF Demand
<1> HIDE DEF sold, units
<1>4. SumFunctionOnSet(units, sold) \in Nat
  BY <1>1, <1>2, SumType
<1> QED
  BY <1>2, <1>3, <1>4 DEF SumFunction

LEMMA PanelRead ==
  ASSUME NEW rows, SalesRows(rows), NEW filed, NEW read, NEW run
  PROVE  DatabasePanel(rows, filed, read, run)
           \in [read.stores \X read.categories -> [run -> Nat]]
BY DemandIsWhole DEF DatabasePanel, Panel

\* What an evaluation has not read of the catalog was ingested since.
Covered ==
  /\ step \in {"placed", "listed"} =>
       \A x \in catalog.stores \ known.stores : \E e \in since : e[1] = x
  /\ step = "listed" =>
       \A x \in catalog.categories \ known.categories : \E e \in since : e[2] = x

Asked ==
  /\ request.horizon \in 1..MaxHorizon
  /\ request.minTrain \in 1..MaxMinTrain

EvaluationInv ==
  /\ EvaluationTypeOK
  /\ step # "idle" => Asked /\ evaluations \in 1..MaxEvaluations
  /\ step \in {"spanned", "placed", "listed", "read"} => Run(weeks) /\ sales # {}
  /\ step \in {"spanned", "placed", "listed"} => Spans(sales, weeks)
  /\ Covered
  /\ IF step = "read"
     THEN /\ known.stores # {} /\ known.categories # {}
          /\ panel \in [known.stores \X known.categories -> [weeks -> Nat]]
     ELSE panel = NoPanel
  /\ \A r \in stored : r.evaluation <= evaluations
  /\ step # "idle" => \A r \in stored : r.evaluation # evaluations

LEMMA EvaluationStarts ==
  EvaluationInit => EvaluationInv
<1> SUFFICES ASSUME EvaluationInit PROVE EvaluationInv
  OBVIOUS
<1>1. SalesRows(sales) /\ Consistent(sales, catalog)
  BY SalesAssumption DEF EvaluationInit
<1>2. EvaluationTypeOK
  BY <1>1, AskedAssumption DEF EvaluationInit, EvaluationTypeOK, NothingKnown
<1> QED
  BY <1>1, <1>2 DEF EvaluationInit, EvaluationInv, Covered

\* A batch keeps the rows well formed and what they refer to in place.
LEMMA BatchKeeps ==
  ASSUME EvaluationTypeOK, NEW row, NEW category, Ingest(row, category),
         [row |-> row, category |-> category] \in Batch
  PROVE  /\ SalesRows(sales') /\ Consistent(sales', catalog')
         /\ catalog'.stores = catalog.stores \cup {row.store}
         /\ catalog'.categories = catalog.categories \cup {category}
         /\ <<row.store, category>> \in Stores \X Categories
         /\ sales' # {} /\ \A s \in sales : \E q \in sales' : q.day = s.day
<1> DEFINE kept == {s \in sales : s.store # row.store \/ s.product # row.product
                                \/ s.day # row.day}
<1>1. sales' = {row} \cup kept /\ catalog' = Listed(row, category)
  BY DEF Ingest
<1>2. /\ row.store \in Stores /\ row.product \in Products /\ row.day \in Nat
      /\ row.units \in Nat /\ category \in Categories
  BY DEF Batch
<1>3. SalesRows(sales) /\ Consistent(sales, catalog)
  BY DEF EvaluationTypeOK
<1>4. SalesRows(sales')
  <2>1. IsFiniteSet(kept)
    BY <1>3, FS_Subset DEF SalesRows
  <2>2. IsFiniteSet(kept \cup {row})
    BY <2>1, FS_AddElement
  <2>3. kept \cup {row} = sales'
    BY <1>1
  <2> QED
    BY <1>1, <1>2, <1>3, <2>2, <2>3 DEF SalesRows
<1>5. /\ catalog'.stores = catalog.stores \cup {row.store}
      /\ catalog'.categories = catalog.categories \cup {category}
      /\ DOMAIN catalog'.filed = DOMAIN catalog.filed \cup {row.product}
      /\ \A p \in DOMAIN catalog'.filed :
           catalog'.filed[p] = IF p = row.product THEN category ELSE catalog.filed[p]
  BY <1>1 DEF Listed
<1>6. Consistent(sales', catalog')
  BY <1>1, <1>2, <1>3, <1>5 DEF Consistent
<1> QED
  BY <1>1, <1>2, <1>4, <1>5, <1>6

LEMMA EvaluationStep ==
  EvaluationInv /\ [EvaluationNext]_evaluationVars => EvaluationInv'
<1> SUFFICES ASSUME EvaluationInv, [EvaluationNext]_evaluationVars PROVE EvaluationInv'
  OBVIOUS
<1> USE AskedAssumption
<1>0. EvaluationTypeOK /\ SalesRows(sales) /\ Consistent(sales, catalog)
  BY DEF EvaluationInv, EvaluationTypeOK
<1>1. CASE UNCHANGED evaluationVars
  BY <1>1 DEF evaluationVars, EvaluationInv, EvaluationTypeOK, Asked, Spans, Covered
<1>2. ASSUME NEW batch \in Batches, Ingest(batch.row, batch.category) PROVE EvaluationInv'
  <2>1. PICK row, category : row = batch.row /\ category = batch.category
    OBVIOUS
  <2>2. /\ Ingest(row, category) /\ [row |-> row, category |-> category] \in Batch
    BY <1>2, <2>1, SalesAssumption DEF Batch
  <2>3. /\ UNCHANGED <<step, request, weeks, known, panel, stored, evaluations>>
        /\ ingests < MaxIngests /\ ingests' = ingests + 1
        /\ since' = IF step \in {"placed", "listed"}
                    THEN since \cup {<<row.store, category>>} ELSE since
    BY <2>2 DEF Ingest
  <2>4. /\ SalesRows(sales') /\ Consistent(sales', catalog')
        /\ catalog'.stores = catalog.stores \cup {row.store}
        /\ catalog'.categories = catalog.categories \cup {category}
        /\ <<row.store, category>> \in Stores \X Categories
        /\ sales' # {} /\ \A s \in sales : \E q \in sales' : q.day = s.day
    BY <1>0, <2>2, BatchKeeps
  <2>5. EvaluationTypeOK'
    BY <1>0, <2>3, <2>4 DEF EvaluationTypeOK
  <2>6. step \in {"spanned", "placed", "listed"} => Spans(sales, weeks)'
    BY <2>3, <2>4 DEF EvaluationInv, Spans
  <2>7. Covered'
    <3>1. ASSUME step \in {"placed", "listed"}
          PROVE  \A x \in catalog'.stores \ known.stores : \E e \in since' : e[1] = x
      BY <2>3, <2>4, <3>1 DEF EvaluationInv, Covered
    <3>2. ASSUME step = "listed"
          PROVE  \A x \in catalog'.categories \ known.categories : \E e \in since' : e[2] = x
      BY <2>3, <2>4, <3>2 DEF EvaluationInv, Covered
    <3> QED
      BY <2>3, <3>1, <3>2 DEF Covered
  <2> QED
    BY <2>3, <2>4, <2>5, <2>6, <2>7 DEF EvaluationInv, Asked
<1>3. ASSUME NEW horizon \in Horizons, NEW minTrain \in MinTrains, Request(horizon, minTrain)
      PROVE  EvaluationInv'
  <2>1. /\ step = "idle" /\ step' = "requested" /\ evaluations' = evaluations + 1
        /\ evaluations < MaxEvaluations
        /\ request' = [horizon |-> horizon, minTrain |-> minTrain]
        /\ horizon \in 1..MaxHorizon /\ minTrain \in 1..MaxMinTrain
        /\ UNCHANGED <<sales, catalog, weeks, known, since, panel, stored, ingests>>
    BY <1>3 DEF Request
  <2>2. EvaluationTypeOK'
    BY <1>0, <2>1 DEF EvaluationTypeOK
  <2>3. Asked' /\ Covered'
    BY <2>1 DEF Asked, Covered
  <2>4. evaluations \in Nat /\ evaluations' \in 1..MaxEvaluations
    BY <1>0, <2>1 DEF EvaluationTypeOK
  <2>5. \A r \in stored : r.evaluation <= evaluations' /\ r.evaluation # evaluations'
    <3>1. \A r \in stored : r.evaluation \in Int /\ r.evaluation <= evaluations
      BY <1>0 DEF EvaluationInv, EvaluationTypeOK
    <3> QED
      BY <2>1, <2>4, <3>1
  <2> QED
    BY <2>1, <2>2, <2>3, <2>4, <2>5 DEF EvaluationInv
<1>4. CASE ReadSpan
  <2>1. /\ step = "requested" /\ step' = "spanned" /\ Span(sales) # {}
        /\ weeks' = Span(sales)
        /\ UNCHANGED <<sales, catalog, request, known, since, panel, stored, ingests, evaluations>>
    BY <1>4 DEF ReadSpan
  <2>2. Run(weeks') /\ Spans(sales, weeks') /\ sales # {}
    BY <1>0, <2>1, SpanIsRun
  <2>3. EvaluationTypeOK'
    BY <1>0, <2>1, <2>2 DEF EvaluationInv, EvaluationTypeOK, Run
  <2>4. Spans(sales, weeks)' /\ Covered'
    BY <2>1, <2>2 DEF Spans, Covered
  <2> QED
    BY <2>1, <2>2, <2>3, <2>4 DEF EvaluationInv, Asked
<1>5. CASE ReadStores
  <2>1. /\ step = "spanned" /\ step' = "placed"
        /\ known' = [stores |-> catalog.stores, categories |-> {}]
        /\ UNCHANGED <<sales, catalog, request, weeks, since, panel, stored, ingests, evaluations>>
    BY <1>5 DEF ReadStores
  <2>2. panel = NoPanel
    BY <2>1 DEF EvaluationInv
  <2>3. EvaluationTypeOK'
    BY <1>0, <2>1, <2>2 DEF EvaluationTypeOK, Consistent
  <2>4. Spans(sales, weeks)' /\ Covered'
    BY <2>1 DEF EvaluationInv, Spans, Covered
  <2> QED
    BY <2>1, <2>2, <2>3, <2>4 DEF EvaluationInv, Asked
<1>6. CASE ReadCategories
  <2>1. /\ step = "placed" /\ step' = "listed"
        /\ known' = [stores |-> known.stores, categories |-> catalog.categories]
        /\ UNCHANGED <<sales, catalog, request, weeks, since, panel, stored, ingests, evaluations>>
    BY <1>6 DEF ReadCategories
  <2>2. panel = NoPanel
    BY <2>1 DEF EvaluationInv
  <2>3. EvaluationTypeOK'
    BY <1>0, <2>1, <2>2 DEF EvaluationTypeOK, Consistent
  <2>4. Spans(sales, weeks)' /\ Covered'
    BY <2>1 DEF EvaluationInv, Spans, Covered
  <2> QED
    BY <2>1, <2>2, <2>3, <2>4 DEF EvaluationInv, Asked
<1>7. CASE ReadSales
  <2>1. /\ step = "listed" /\ step' = "read" /\ known.stores # {} /\ known.categories # {}
        /\ panel' = DatabasePanel(sales, catalog.filed, known, weeks)
        /\ UNCHANGED <<sales, catalog, request, weeks, known, since, stored, ingests, evaluations>>
    BY <1>7 DEF ReadSales
  <2>2. panel' \in [known.stores \X known.categories -> [weeks -> Nat]]
    BY <1>0, <2>1, PanelRead
  <2>3. EvaluationTypeOK' /\ Covered'
    BY <1>0, <2>1, <2>2 DEF EvaluationTypeOK, Covered
  <2> QED
    BY <2>1, <2>2, <2>3 DEF EvaluationInv, Asked
<1>8. CASE PersistBacktest
  <2>1. /\ step = "read" /\ step' = "idle" /\ weeks' = {} /\ panel' = NoPanel
        /\ request' = [horizon |-> 0, minTrain |-> 0]
        /\ known' = NothingKnown /\ since' = {}
        /\ stored' = stored \cup
             {[evaluation |-> evaluations, fold |-> f] :
                f \in Folds(panel, request.horizon, request.minTrain)}
        /\ UNCHANGED <<sales, catalog, ingests, evaluations>>
    BY <1>8 DEF PersistBacktest, EndEvaluation
  <2>2. \A f \in Folds(panel, request.horizon, request.minTrain) : f.model \in Models
    BY DEF Folds, Fold
  <2>3. evaluations \in 1..MaxEvaluations
    BY <2>1 DEF EvaluationInv
  <2>4. \A r \in stored' : r.evaluation \in 1..MaxEvaluations /\ r.fold.model \in Models
    BY <1>0, <2>1, <2>2, <2>3 DEF EvaluationTypeOK
  <2>5. \A r \in stored' : r.evaluation <= evaluations
    BY <2>1, <2>3 DEF EvaluationInv
  <2>6. EvaluationTypeOK' /\ Covered'
    BY <1>0, <2>1, <2>4 DEF EvaluationTypeOK, NothingKnown, Covered
  <2> QED
    BY <2>1, <2>5, <2>6 DEF EvaluationInv
<1>9. CASE RejectHistory
  <2>1. /\ step' = "idle" /\ weeks' = {} /\ panel' = NoPanel
        /\ request' = [horizon |-> 0, minTrain |-> 0]
        /\ known' = NothingKnown /\ since' = {}
        /\ UNCHANGED <<sales, catalog, stored, ingests, evaluations>>
    BY <1>9 DEF RejectHistory, EndEvaluation
  <2>2. EvaluationTypeOK' /\ Covered'
    BY <1>0, <2>1 DEF EvaluationTypeOK, NothingKnown, Covered
  <2> QED
    BY <2>1, <2>2 DEF EvaluationInv
<1> QED
  BY <1>1, <1>2, <1>3, <1>4, <1>5, <1>6, <1>7, <1>8, <1>9 DEF EvaluationNext

LEMMA EvaluationsHold ==
  EvaluationSpec => []EvaluationInv
BY EvaluationStarts, EvaluationStep, PTL DEF EvaluationSpec

\* Both machines keep their types, however many sales, requests and sessions.
THEOREM TypeCorrect ==
  /\ EvaluationSpec => []EvaluationTypeOK
  /\ RegistrySpec => []RegistryTypeOK
<1>1. EvaluationInv => EvaluationTypeOK
  BY DEF EvaluationInv
<1>2. RegistryInv => RegistryTypeOK
  BY DEF RegistryInv
<1> QED
  BY <1>1, <1>2, EvaluationsHold, PromotionsHold, PTL

-----------------------------------------------------------------------------
(* What an evaluation stores: the folds of the panel it read.              *)

LEMMA OriginsOfRun ==
  ASSUME NEW p, NEW run, Run(run), Balanced(p, run),
         NEW horizon \in Nat \ {0}, NEW minTrain \in Nat \ {0}
  PROVE  /\ RollingOrigins(p, horizon, minTrain) =
              {w \in run : /\ Cardinality({v \in run : v <= w}) >= minTrain
                           /\ Cardinality({v \in run : v > w}) >= horizon}
         /\ \A cutoff \in RollingOrigins(p, horizon, minTrain) :
              cutoff \in run /\ \A s \in 1..horizon : cutoff + s \in run
<1>1. /\ Periods(p) = run /\ Min(run) \in Int /\ Max(run) \in Int
      /\ run = Min(run)..Max(run) /\ Cardinality(run) = Max(run) - Min(run) + 1
  BY RunIsInterval, PeriodsOfPanel
<1>2. PICK a \in Int, b \in Int : a = Min(run) /\ b = Max(run)
  BY <1>1
<1>3. RollingOrigins(p, horizon, minTrain) = {a + k - 1 : k \in minTrain..(b - a + 1 - horizon)}
  BY <1>1, <1>2 DEF RollingOrigins, Period
<1>4. run = a..b
  BY <1>1, <1>2
<1> DEFINE Before(w) == {v \in run : v <= w}
           After(w) == {v \in run : v > w}
<1>5. ASSUME NEW w \in run
      PROVE  Cardinality(Before(w)) = w - a + 1 /\ Cardinality(After(w)) = b - w
  <2>1. w \in Int /\ a <= w /\ w <= b
    BY <1>4
  <2>2. Before(w) = a..w
    BY <1>4, <2>1
  <2>3. After(w) = (w + 1)..b
    BY <1>4, <2>1
  <2> HIDE DEF Before, After
  <2>4. Cardinality(a..w) = IF a > w THEN 0 ELSE w - a + 1
    BY <2>1, FS_Interval
  <2>5. Cardinality((w + 1)..b) = IF w + 1 > b THEN 0 ELSE b - (w + 1) + 1
    <3>1. w + 1 \in Int
      BY <2>1
    <3> QED
      BY <3>1, FS_Interval
  <2>6. (IF a > w THEN 0 ELSE w - a + 1) = w - a + 1
    BY <2>1
  <2>7. (IF w + 1 > b THEN 0 ELSE b - (w + 1) + 1) = b - w
    BY <2>1
  <2> QED
    BY <2>2, <2>3, <2>4, <2>5, <2>6, <2>7
<1> DEFINE Origins == {a + k - 1 : k \in minTrain..(b - a + 1 - horizon)}
           Walked == {w \in run : Cardinality(Before(w)) >= minTrain
                                  /\ Cardinality(After(w)) >= horizon}
<1> HIDE DEF Before, After
<1>6. ASSUME NEW w \in Origins
      PROVE  w \in Walked /\ \A s \in 1..horizon : w + s \in run
  <2>1. PICK k \in minTrain..(b - a + 1 - horizon) : w = a + k - 1
    OBVIOUS
  <2>2. k \in Int /\ minTrain <= k /\ k <= b - a + 1 - horizon
    OBVIOUS
  <2>3. w \in Int /\ a <= w /\ w + horizon <= b /\ w - a + 1 >= minTrain
    BY <2>1, <2>2
  <2>4. w \in run
    BY <1>4, <2>3
  <2>5. b - w >= horizon
    BY <2>3
  <2>6. \A s \in 1..horizon : w + s \in a..b
    BY <2>3
  <2> QED
    BY <1>4, <1>5, <2>3, <2>4, <2>5, <2>6
<1>7. ASSUME NEW w \in Walked PROVE w \in Origins
  <2>1. w \in run /\ w - a + 1 >= minTrain /\ b - w >= horizon
    BY <1>5
  <2>2. w \in Int
    BY <1>4, <2>1
  <2> DEFINE k == w - a + 1
  <2>3. k \in minTrain..(b - a + 1 - horizon) /\ w = a + k - 1
    BY <2>1, <2>2
  <2> HIDE DEF k
  <2> QED
    BY <2>3
<1>8. Origins = Walked
  BY <1>6, <1>7
<1> QED
  BY <1>3, <1>6, <1>8 DEF Before, After

\* The folds a step adds to the table are those of the panel read.
LEMMA BacktestStored ==
  ASSUME EvaluationInv, [EvaluationNext]_evaluationVars, stored' # stored
  PROVE  /\ stored' \ stored =
              {[evaluation |-> evaluations, fold |-> f] :
                 f \in Folds(panel, request.horizon, request.minTrain)}
         /\ request.horizon \in Nat \ {0} /\ request.minTrain \in Nat \ {0}
         /\ Run(weeks) /\ Balanced(panel, weeks)
         /\ DOMAIN panel = known.stores \X known.categories
<1>1. PersistBacktest
  BY DEF EvaluationNext, evaluationVars, Ingest, Request, ReadSpan, ReadStores, ReadCategories,
         ReadSales, RejectHistory
<1> DEFINE new == {[evaluation |-> evaluations, fold |-> f] :
                     f \in Folds(panel, request.horizon, request.minTrain)}
           entities == known.stores \X known.categories
<1>2. step = "read" /\ stored' = stored \cup new
  BY <1>1 DEF PersistBacktest
<1>3. \A r \in stored : r.evaluation # evaluations
  BY <1>2 DEF EvaluationInv
<1>4. stored' \ stored = new
  <2>1. \A r \in new : r.evaluation = evaluations
    OBVIOUS
  <2> HIDE DEF new
  <2> QED
    BY <1>2, <1>3, <2>1
<1>5. Asked /\ Run(weeks) /\ panel \in [entities -> [weeks -> Nat]]
  BY <1>2 DEF EvaluationInv
<1>6. request.horizon \in Nat \ {0} /\ request.minTrain \in Nat \ {0}
  BY <1>5, AskedAssumption DEF Asked
<1>7. entities # {} /\ IsFiniteSet(entities)
  <2>1. known.stores # {} /\ known.categories # {}
    BY <1>2 DEF EvaluationInv
  <2>2. IsFiniteSet(known.stores) /\ IsFiniteSet(known.categories)
    BY CatalogAssumption, FS_Subset DEF EvaluationInv, EvaluationTypeOK
  <2>3. entities # {}
    <3>1. PICK place \in known.stores, kind \in known.categories : TRUE
      BY <2>1
    <3>2. <<place, kind>> \in entities
      OBVIOUS
    <3> QED
      BY <3>2
  <2>4. IsFiniteSet(known.stores \X known.categories)
    BY <2>2, FS_Product
  <2> QED
    BY <2>3, <2>4
<1> HIDE DEF entities
<1>8. Balanced(panel, weeks)
  BY <1>5, <1>7 DEF Balanced
<1> QED
  BY <1>4, <1>5, <1>6, <1>8 DEF entities

LEMMA FoldPoints ==
  ASSUME NEW p, NEW run, Balanced(p, run), NEW horizon \in Nat \ {0},
         NEW cutoff, \A s \in 1..horizon : cutoff + s \in run
  PROVE  Cardinality(Scored(p, cutoff, horizon)) = horizon * Cardinality(DOMAIN p)
<1>1. \A c \in DOMAIN p : DOMAIN p[c] = run
  BY DEF Balanced
<1>2. Scored(p, cutoff, horizon) = (DOMAIN p) \X (1..horizon)
  BY <1>1 DEF Scored
<1>3. IsFiniteSet(1..horizon) /\ Cardinality(1..horizon) = horizon
  <2>1. Cardinality(1..horizon) = IF 1 > horizon THEN 0 ELSE horizon - 1 + 1
    BY FS_Interval
  <2> QED
    BY <2>1, FS_Interval
<1>4. IsFiniteSet(DOMAIN p)
  BY DEF Balanced
<1>5. Cardinality((DOMAIN p) \X (1..horizon)) = Cardinality(DOMAIN p) * horizon
  BY <1>3, <1>4, FS_Product
<1>6. Cardinality(DOMAIN p) \in Nat
  BY <1>4, FS_CardinalityType
<1>7. \A m, n \in Nat : m * n = n * m
  OBVIOUS
<1> QED
  BY <1>2, <1>5, <1>6, <1>7

\* Every baseline is walked over exactly the cutoffs that leave the history
\* and the horizon asked for, and every fold is scored on all its points.
THEOREM FoldsAreScored ==
  EvaluationSpec => EveryFoldScored
<1> DEFINE Complete ==
      LET new == stored' \ stored
          Cutoffs(model) == {r.fold.cutoff : r \in {q \in new : q.fold.model = model}}
      IN  /\ \A model \in Models :
               Cutoffs(model) =
                 {w \in weeks :
                    /\ Cardinality({v \in weeks : v <= w}) >= request.minTrain
                    /\ Cardinality({v \in weeks : v > w}) >= request.horizon}
          /\ \A r \in new :
               r.fold.score.count = request.horizon * Cardinality(known.stores \X known.categories)
<1>1. ASSUME EvaluationInv, [EvaluationNext]_evaluationVars, stored' # stored PROVE Complete
  <2> DEFINE horizon == request.horizon
             minTrain == request.minTrain
             origins == RollingOrigins(panel, horizon, minTrain)
             Walk(model, cutoff) == [evaluation |-> evaluations,
                                     fold |-> Fold(model, panel, cutoff, horizon)]
             new == stored' \ stored
             walked == {w \in weeks :
                          /\ Cardinality({v \in weeks : v <= w}) >= minTrain
                          /\ Cardinality({v \in weeks : v > w}) >= horizon}
  <2>1. /\ new = {[evaluation |-> evaluations, fold |-> f] : f \in Folds(panel, horizon, minTrain)}
        /\ horizon \in Nat \ {0} /\ minTrain \in Nat \ {0}
        /\ Run(weeks) /\ Balanced(panel, weeks)
        /\ DOMAIN panel = known.stores \X known.categories
    BY <1>1, BacktestStored
  <2>2. origins = walked /\ \A cutoff \in origins : \A s \in 1..horizon : cutoff + s \in weeks
    <3> HIDE DEF horizon, minTrain
    <3>1. \A cutoff \in origins : \A s \in 1..horizon : cutoff + s \in weeks
      BY <2>1, OriginsOfRun
    <3>2. origins = walked
      BY <2>1, OriginsOfRun
    <3> QED
      BY <3>1, <3>2
  <2>3. new = {Walk(model, cutoff) : model \in Models, cutoff \in origins}
    BY <2>1 DEF Folds
  <2>4. \A model, cutoff : /\ Walk(model, cutoff).fold.model = model
                           /\ Walk(model, cutoff).fold.cutoff = cutoff
    BY DEF Fold
  <2>5. ASSUME NEW cutoff \in origins, NEW model
        PROVE  Walk(model, cutoff).fold.score.count = horizon * Cardinality(known.stores \X known.categories)
    <3>1. Walk(model, cutoff).fold.score.count = Cardinality(Scored(panel, cutoff, horizon))
      BY DEF Fold, Score
    <3> HIDE DEF Walk, horizon, origins
    <3> QED
      BY <2>1, <2>2, <3>1, FoldPoints
  <2> HIDE DEF Walk, new, origins, walked, horizon, minTrain
  <2>6. ASSUME NEW model \in Models
        PROVE  {r.fold.cutoff : r \in {q \in new : q.fold.model = model}} = origins
    <3>1. ASSUME NEW r \in new, r.fold.model = model PROVE r.fold.cutoff \in origins
      BY <2>3, <2>4, <3>1
    <3>2. ASSUME NEW cutoff \in origins
          PROVE  \E r \in new : r.fold.model = model /\ r.fold.cutoff = cutoff
      <4>1. Walk(model, cutoff) \in new
        BY <2>3
      <4> QED
        BY <2>4, <4>1
    <3> QED
      BY <3>1, <3>2
  <2>7. \A r \in new : r.fold.score.count = horizon * Cardinality(known.stores \X known.categories)
    <3>1. PICK points : points = horizon * Cardinality(known.stores \X known.categories)
      OBVIOUS
    <3>2. \A model, cutoff : cutoff \in origins => Walk(model, cutoff).fold.score.count = points
      BY <2>5, <3>1
    <3>3. \A r \in new : r.fold.score.count = points
      BY <2>3, <3>2
    <3> QED
      BY <3>1, <3>3
  <2> QED
    BY <2>2, <2>6, <2>7 DEF new, walked, horizon, minTrain
<1>2. EvaluationInv /\ [EvaluationNext]_evaluationVars => [stored' # stored => Complete]_stored
  BY <1>1
<1> HIDE DEF Complete
<1>3. EvaluationSpec => [][stored' # stored => Complete]_stored
  BY <1>2, EvaluationsHold, PTL DEF EvaluationSpec
<1> QED
  BY <1>3, PTL DEF EveryFoldScored, Complete

-----------------------------------------------------------------------------
(* The panel an evaluation reads.                                          *)

SoldIn(rows, filed, entities, run) ==
  {s \in rows : WeekOf(s.day) \in run /\ EntityOf(s, filed) \in entities}
UnitsOf(rows) == [s \in rows |-> s.units]
Cells(rows, filed, entities, run) ==
  [p \in entities \X run |-> Demand(rows, filed, p[1], p[2])]

\* A balanced panel splits the sales of its weeks: none is counted twice.
LEMMA DemandsAddUp ==
  ASSUME NEW rows, SalesRows(rows), NEW filed, NEW entities, IsFiniteSet(entities),
         NEW run, IsFiniteSet(run)
  PROVE  SumFunction(UnitsOf(SoldIn(rows, filed, entities, run)))
           = SumFunction(Cells(rows, filed, entities, run))
<1> DEFINE P == entities \X run
           sold == {s \in rows : WeekOf(s.day) \in run /\ EntityOf(s, filed) \in entities}
           Cell(p) == {s \in rows : EntityOf(s, filed) = p[1] /\ WeekOf(s.day) = p[2]}
           part == [p \in P |-> Cell(p)]
           f == [s \in sold |-> s.units]
           piece == [p \in P |-> [s \in Cell(p) |-> s.units]]
           sums == [p \in P |-> Demand(rows, filed, p[1], p[2])]
<1>1. IsFiniteSet(P)
  BY FS_Product
<1>2. \A p \in P : part[p] = Cell(p) /\ IsFiniteSet(part[p])
  <2>1. \A p \in P : Cell(p) \in SUBSET rows
    OBVIOUS
  <2>2. IsFiniteSet(rows)
    BY DEF SalesRows
  <2> HIDE DEF Cell, P
  <2> QED
    BY <2>1, <2>2, FS_Subset
<1>3. ASSUME NEW p \in P, NEW q \in P, p # q
      PROVE  part[p] \cap part[q] = {}
  <2>1. p = <<p[1], p[2]>> /\ q = <<q[1], q[2]>>
    OBVIOUS
  <2>2. p[1] # q[1] \/ p[2] # q[2]
    BY <1>3, <2>1
  <2>3. Cell(p) \cap Cell(q) = {}
    BY <2>2
  <2> HIDE DEF Cell, part, P
  <2> QED
    BY <1>2, <2>3
<1>4. Split(P, part)
  <2> HIDE DEF P, part
  <2> QED
    BY <1>1, <1>2, <1>3 DEF Split
<1>5. ASSUME NEW p \in P, NEW s \in part[p]
      PROVE  f[s] \in Int /\ piece[p][s] = f[s]
  <2>1. p[1] \in entities /\ p[2] \in run /\ s \in Cell(p)
    BY <1>2
  <2>2. s \in sold /\ s.units \in Nat
    BY <2>1 DEF SalesRows
  <2> QED
    BY <2>1, <2>2
<1>6. Pieces(P, part, f, piece)
  <2> HIDE DEF P, part, f, piece
  <2> QED
    BY <1>5 DEF Pieces
<1>7. \A p \in P : sums[p] = SumFunctionOnSet(piece[p], part[p])
  <2>1. ASSUME NEW p \in P PROVE sums[p] = SumFunctionOnSet(piece[p], part[p])
    <3>1. sums[p] = SumFunction([s \in Cell(p) |-> s.units])
      BY DEF Demand
    <3>2. DOMAIN [s \in Cell(p) |-> s.units] = Cell(p)
      OBVIOUS
    <3>3. piece[p] = [s \in Cell(p) |-> s.units] /\ part[p] = Cell(p)
      OBVIOUS
    <3> HIDE DEF sums, piece, part, Cell
    <3> QED
      BY <3>1, <3>2, <3>3 DEF SumFunction
  <2> QED
    BY <2>1
<1>8. UNION {part[p] : p \in P} = sold
  <2>1. ASSUME NEW s \in sold PROVE \E p \in P : s \in part[p]
    <3> DEFINE p == <<EntityOf(s, filed), WeekOf(s.day)>>
    <3>1. p \in P
      OBVIOUS
    <3>2. s \in Cell(p)
      OBVIOUS
    <3>3. s \in part[p]
      BY <3>1, <3>2
    <3> QED
      BY <3>1, <3>3
  <2>2. ASSUME NEW p \in P, NEW s \in part[p] PROVE s \in sold
    OBVIOUS
  <2> HIDE DEF part, P, sold
  <2> QED
    BY <2>1, <2>2
<1>9. DOMAIN f = sold /\ DOMAIN sums = P
  OBVIOUS
<1> HIDE DEF P, part, f, piece, sums, sold
<1>10. SumFunctionOnSet(f, UNION {part[p] : p \in P}) = SumFunctionOnSet(sums, P)
  BY <1>4, <1>6, <1>7, SumOfPieces
<1> QED
  <2>1. UnitsOf(SoldIn(rows, filed, entities, run)) = f
    BY DEF UnitsOf, SoldIn, f, sold
  <2>2. Cells(rows, filed, entities, run) = sums
    BY DEF Cells, sums, P
  <2> QED
    BY <1>8, <1>9, <1>10, <2>1, <2>2 DEF SumFunction

\* A panel counts each sale of its weeks, stores and categories once, the
\* sales reach over every week of it, and what it leaves out was ingested
\* after its stores were read.
THEOREM SalesAreCounted ==
  EvaluationSpec => PanelCountsSales
<1> DEFINE entities == known.stores \X known.categories
           inWeeks == {s \in sales : WeekOf(s.day) \in weeks}
           counted == {s \in inWeeks : EntityOf(s, catalog.filed) \in entities}
           Counted ==
             /\ \A w \in weeks :
                  /\ \E s \in sales : s.day <= Monday(w)
                  /\ \E s \in sales : s.day >= Monday(w + 1) - 1
             /\ SumFunction([s \in counted |-> s.units])
                  = SumFunction([p \in (DOMAIN panel') \X weeks |-> panel'[p[1]][p[2]]])
             /\ \A s \in inWeeks \ counted : \E e \in since :
                  \/ e[1] = s.store /\ s.store \notin known.stores
                  \/ e[2] = catalog.filed[s.product] /\ e[2] \notin known.categories
<1>1. ASSUME EvaluationInv, [EvaluationNext]_evaluationVars, step = "listed", step' = "read"
      PROVE  Counted
  <2>1. ReadSales
    BY <1>1 DEF EvaluationNext, evaluationVars, Ingest, Request, ReadSpan, ReadStores,
                ReadCategories, PersistBacktest, RejectHistory, EndEvaluation
  <2>2. panel' = DatabasePanel(sales, catalog.filed, known, weeks)
    BY <2>1 DEF ReadSales
  <2>3. /\ Spans(sales, weeks) /\ IsFiniteSet(weeks) /\ Covered
        /\ SalesRows(sales) /\ Consistent(sales, catalog)
    BY <1>1 DEF EvaluationInv, EvaluationTypeOK, Run
  <2>4. IsFiniteSet(entities)
    <3>1. IsFiniteSet(known.stores) /\ IsFiniteSet(known.categories)
      BY <1>1, CatalogAssumption, FS_Subset DEF EvaluationInv, EvaluationTypeOK
    <3> QED
      BY <3>1, FS_Product
  <2>5. /\ DOMAIN panel' = entities
        /\ \A p \in entities \X weeks :
             panel'[p[1]][p[2]] = Demand(sales, catalog.filed, p[1], p[2])
    BY <2>2 DEF DatabasePanel, Panel
  <2>6. SumFunction([s \in counted |-> s.units])
          = SumFunction([p \in (DOMAIN panel') \X weeks |-> panel'[p[1]][p[2]]])
    <3>1. UnitsOf(SoldIn(sales, catalog.filed, entities, weeks)) = [s \in counted |-> s.units]
      <4> HIDE DEF entities
      <4> QED
        BY DEF UnitsOf, SoldIn
    <3> HIDE DEF entities
    <3>2. Cells(sales, catalog.filed, entities, weeks)
            = [p \in (DOMAIN panel') \X weeks |-> panel'[p[1]][p[2]]]
      BY <2>5 DEF Cells
    <3>3. SumFunction(UnitsOf(SoldIn(sales, catalog.filed, entities, weeks)))
            = SumFunction(Cells(sales, catalog.filed, entities, weeks))
      BY <2>3, <2>4, DemandsAddUp
    <3> QED
      BY <3>1, <3>2, <3>3
  <2>7. \A w \in weeks : /\ \E s \in sales : s.day <= Monday(w)
                         /\ \E s \in sales : s.day >= Monday(w + 1) - 1
    BY <2>3 DEF Spans
  <2>8. ASSUME NEW s \in inWeeks \ counted
        PROVE  \E e \in since : \/ e[1] = s.store /\ s.store \notin known.stores
                                \/ e[2] = catalog.filed[s.product] /\ e[2] \notin known.categories
    <3>1. s \in sales /\ (s.store \notin known.stores
                         \/ catalog.filed[s.product] \notin known.categories)
      BY DEF EntityOf
    <3>2. s.store \in catalog.stores /\ catalog.filed[s.product] \in catalog.categories
      BY <2>3, <3>1 DEF Consistent
    <3> QED
      BY <1>1, <2>3, <3>1, <3>2 DEF Covered
  <2> QED
    BY <2>6, <2>7, <2>8
<1>2. EvaluationInv /\ [EvaluationNext]_evaluationVars =>
        [step = "listed" /\ step' = "read" => Counted]_step
  BY <1>1
<1> HIDE DEF Counted
<1>3. EvaluationSpec => [][step = "listed" /\ step' = "read" => Counted]_step
  BY <1>2, EvaluationsHold, PTL DEF EvaluationSpec
<1> QED
  BY <1>3, PTL DEF PanelCountsSales, Counted

-----------------------------------------------------------------------------
(* What is predicted at a cutoff is a matter of the weeks up to it.        *)

Agree(p, q, run, cutoff) ==
  /\ DOMAIN q = DOMAIN p /\ DOMAIN p # {}
  /\ \A c \in DOMAIN p :
       /\ DOMAIN p[c] = run /\ DOMAIN q[c] = run
       /\ \A w \in run : w <= cutoff => p[c][w] = q[c][w]

LEMMA RewrittenAgrees ==
  ASSUME NEW p, NEW run, Run(run), Balanced(p, run), NEW cutoff \in Int, NEW units
  PROVE  Agree(p, Rewritten(p, cutoff, units), run, cutoff)
<1> DEFINE q == Rewritten(p, cutoff, units)
<1>1. /\ DOMAIN q = DOMAIN p
      /\ \A c \in DOMAIN p :
           q[c] = [w \in DOMAIN p[c] |-> IF w > cutoff THEN units ELSE p[c][w]]
  BY DEF Rewritten
<1> HIDE DEF q
<1>2. DOMAIN p # {} /\ \A c \in DOMAIN p : DOMAIN p[c] = run
  BY DEF Balanced
<1>3. ASSUME NEW c \in DOMAIN p
      PROVE  DOMAIN q[c] = run /\ \A w \in run : w <= cutoff => p[c][w] = q[c][w]
  <2>1. q[c] = [w \in run |-> IF w > cutoff THEN units ELSE p[c][w]]
    BY <1>1, <1>2
  <2>2. \A w \in run : w <= cutoff => ~(w > cutoff)
    BY DEF Run
  <2> QED
    BY <2>1, <2>2
<1> QED
  BY <1>1, <1>2, <1>3 DEF Agree, q

LEMMA TrailingWithin ==
  \A T, n : Trailing(T, n) \subseteq T
BY DEF Trailing

LEMMA PredictionsAgree ==
  ASSUME NEW p, NEW q, NEW run, Run(run), Balanced(p, run), NEW cutoff \in run,
         Agree(p, q, run, cutoff), NEW model \in Models, NEW horizon
  PROVE  Predictions(model, p, cutoff, horizon) = Predictions(model, q, cutoff, horizon)
<1>1. ASSUME NEW c \in DOMAIN p, NEW s
      PROVE  Predict(model, p, c, cutoff, s) = Predict(model, q, c, cutoff, s)
  <2> DEFINE seen == Seen(p, c, cutoff)
  <2>1. Seen(q, c, cutoff) = seen
    BY DEF Agree, Seen
  <2>2. Max(seen) \in seen
    BY SeenWeeks
  <2>3. \A w \in seen : p[c][w] = q[c][w]
    BY DEF Agree, Seen
  <2>4. Naive(p, c, cutoff) = Naive(q, c, cutoff)
    BY <2>1, <2>2, <2>3 DEF Naive
  <2>5. SeasonalNaive(p, c, cutoff, s) = SeasonalNaive(q, c, cutoff, s)
    <3> HIDE DEF seen
    <3>1. PICK lookback : lookback = cutoff + s - SeasonalLag
      OBVIOUS
    <3>2. lookback \in seen => p[c][lookback] = q[c][lookback]
      BY <2>3
    <3> QED
      BY <2>1, <2>4, <3>1, <3>2 DEF SeasonalNaive, seen
  <2>6. MovingAverage(p, c, cutoff) = MovingAverage(q, c, cutoff)
    <3> DEFINE recent == Trailing(seen, Window)
    <3>1. \A w \in recent : p[c][w] = q[c][w]
      BY <2>3, TrailingWithin
    <3> HIDE DEF recent
    <3>2. [w \in recent |-> p[c][w]] = [w \in recent |-> q[c][w]]
      BY <3>1
    <3> QED
      BY <2>1, <3>2 DEF MovingAverage, recent
  <2> QED
    BY <2>4, <2>5, <2>6 DEF Predict
<1>2. DOMAIN q = DOMAIN p
  BY DEF Agree
<1> QED
  BY <1>1, <1>2 DEF Predictions

LEMMA RowsAgree ==
  ASSUME NEW p, NEW q, NEW run, Run(run), NEW cutoff \in Int,
         Agree(p, q, run, cutoff), NEW c \in DOMAIN p,
         NEW origin \in Int, origin <= cutoff, NEW s \in Int
  PROVE  FeatureRow(p, c, origin, s) = FeatureRow(q, c, origin, s)
<1> DEFINE period == origin + s
<1>1. DOMAIN p[c] = run /\ DOMAIN q[c] = run
  BY DEF Agree
<1>2. \A w \in run : w <= origin => p[c][w] = q[c][w]
  <2>1. \A w \in run : w \in Int
    BY DEF Run
  <2>2. \A w \in Int : w <= origin => w <= cutoff
    OBVIOUS
  <2> QED
    BY <2>1, <2>2 DEF Agree
<1>3. \A l : LagValue(p, c, period, l, origin) = LagValue(q, c, period, l, origin)
  BY <1>1, <1>2 DEF LagValue
<1>4. Rolling(p, c, period, origin) = Rolling(q, c, period, origin)
  <2> DEFINE eligible == {w \in run : w < period /\ w <= origin}
             recent == Trailing(eligible, Window)
  <2>1. \A w \in recent : p[c][w] = q[c][w]
    BY <1>2, TrailingWithin
  <2> HIDE DEF recent
  <2>2. [w \in recent |-> p[c][w]] = [w \in recent |-> q[c][w]]
    BY <2>1
  <2> QED
    BY <1>1, <2>2 DEF Rolling, recent
<1>5. LastObserved(p, c, period, origin) = LastObserved(q, c, period, origin)
  <2> DEFINE earlier == {w \in run : w <= origin /\ w < period}
             recent == Trailing(earlier, 1)
  <2>1. \A w \in recent : p[c][w] = q[c][w]
    BY <1>2, TrailingWithin
  <2> HIDE DEF recent
  <2>2. {p[c][w] : w \in recent} = {q[c][w] : w \in recent}
    BY <2>1
  <2> QED
    BY <1>1, <2>2 DEF LastObserved, recent
<1> QED
  BY <1>3, <1>4, <1>5 DEF FeatureRow

LEMMA InferenceAgrees ==
  ASSUME NEW p, NEW q, NEW run, Run(run), NEW cutoff \in Int,
         Agree(p, q, run, cutoff), NEW horizon \in Nat
  PROVE  InferenceRows(p, cutoff, horizon) = InferenceRows(q, cutoff, horizon)
<1>1. \A c \in DOMAIN p, s \in 1..horizon : FeatureRow(p, c, cutoff, s) = FeatureRow(q, c, cutoff, s)
  <2>1. TAKE c \in DOMAIN p, s \in 1..horizon
  <2>2. cutoff <= cutoff /\ s \in Int
    OBVIOUS
  <2> QED
    BY <2>2, RowsAgree
<1>2. DOMAIN q = DOMAIN p
  BY DEF Agree
<1> QED
  BY <1>1, <1>2 DEF InferenceRows

LEMMA SupervisedAgrees ==
  ASSUME NEW p, NEW q, NEW run, Run(run), NEW cutoff \in run,
         Agree(p, q, run, cutoff), NEW horizon \in Nat, NEW history
  PROVE  Supervised(p, cutoff, horizon, history) = Supervised(q, cutoff, horizon, history)
<1> DEFINE origins == {w \in run : /\ w <= cutoff - horizon
                                   /\ Cardinality({v \in run : v <= w}) >= history}
           Sample(u, c, s, origin) == [row |-> FeatureRow(u, c, origin, s),
                                       label |-> u[c][origin + s]]
<1>1. DOMAIN q = DOMAIN p /\ Periods(p) = run /\ Periods(q) = run
  BY DEF Agree, Periods
<1>2. run \subseteq Int /\ cutoff \in Int
  BY DEF Run
<1>3. ASSUME NEW c \in DOMAIN p, NEW s \in 1..horizon, NEW origin \in origins
      PROVE  Sample(p, c, s, origin) = Sample(q, c, s, origin)
  <2>1. origin \in run /\ origin \in Int /\ s \in Int /\ origin <= cutoff - horizon
    BY <1>2
  <2>2. origin <= cutoff /\ origin + s \in origin..cutoff /\ origin + s <= cutoff
    BY <1>2, <2>1
  <2>3. origin + s \in run
    BY <2>1, <2>2 DEF Run
  <2>4. FeatureRow(p, c, origin, s) = FeatureRow(q, c, origin, s)
    <3> HIDE DEF origins
    <3> QED
      BY <1>2, <2>1, <2>2, RowsAgree
  <2>5. p[c][origin + s] = q[c][origin + s]
    BY <2>2, <2>3 DEF Agree
  <2> QED
    BY <2>4, <2>5
<1>4. /\ Supervised(p, cutoff, horizon, history)
           = {Sample(p, c, s, origin) : c \in DOMAIN p, s \in 1..horizon, origin \in origins}
      /\ Supervised(q, cutoff, horizon, history)
           = {Sample(q, c, s, origin) : c \in DOMAIN p, s \in 1..horizon, origin \in origins}
  BY <1>1 DEF Supervised
<1> HIDE DEF Sample, origins
<1> QED
  BY <1>3, <1>4

\* A stored prediction, and every feature and training row at its cutoff, is
\* the same whatever is sold after the cutoff.
THEOREM NothingLeaks ==
  EvaluationSpec => NoLeakage
<1> DEFINE Blind(r, units) ==
      LET fold == r.fold
          other == Rewritten(panel, fold.cutoff, units)
      IN  /\ fold.predicted =
               Predictions(fold.model, other, fold.cutoff, fold.horizon)
          /\ InferenceRows(panel, fold.cutoff, fold.horizon) =
               InferenceRows(other, fold.cutoff, fold.horizon)
          /\ Supervised(panel, fold.cutoff, fold.horizon, request.minTrain) =
               Supervised(other, fold.cutoff, fold.horizon, request.minTrain)
<1>1. ASSUME EvaluationInv, [EvaluationNext]_evaluationVars, NEW r \in stored' \ stored,
             NEW units
      PROVE  Blind(r, units)
  <2> DEFINE horizon == request.horizon
             origins == RollingOrigins(panel, horizon, request.minTrain)
  <2>1. /\ stored' \ stored = {[evaluation |-> evaluations, fold |-> f] :
                                 f \in Folds(panel, horizon, request.minTrain)}
        /\ horizon \in Nat \ {0} /\ request.minTrain \in Nat \ {0}
        /\ Run(weeks) /\ Balanced(panel, weeks)
    BY <1>1, BacktestStored
  <2>2. PICK model \in Models, cutoff \in origins : r.fold = Fold(model, panel, cutoff, horizon)
    BY <1>1, <2>1 DEF Folds
  <2>3. /\ r.fold.model = model /\ r.fold.cutoff = cutoff /\ r.fold.horizon = horizon
        /\ r.fold.predicted = Predictions(model, panel, cutoff, horizon)
    BY <2>2 DEF Fold
  <2>4. cutoff \in weeks
    <3> HIDE DEF horizon
    <3> QED
      BY <2>1, OriginsOfRun
  <2> DEFINE other == Rewritten(panel, cutoff, units)
  <2>6. weeks \subseteq Int /\ cutoff \in Int
    BY <2>1, <2>4 DEF Run
  <2>5. Agree(panel, other, weeks, cutoff)
    BY <2>1, <2>6, RewrittenAgrees
  <2> HIDE DEF other, horizon
  <2>7. Predictions(model, panel, cutoff, horizon) = Predictions(model, other, cutoff, horizon)
    BY <2>1, <2>4, <2>5, PredictionsAgree
  <2>8. InferenceRows(panel, cutoff, horizon) = InferenceRows(other, cutoff, horizon)
    BY <2>1, <2>5, <2>6, InferenceAgrees
  <2>9. Supervised(panel, cutoff, horizon, request.minTrain)
          = Supervised(other, cutoff, horizon, request.minTrain)
    BY <2>1, <2>4, <2>5, SupervisedAgrees
  <2> QED
    BY <2>3, <2>7, <2>8, <2>9 DEF other, horizon
<1> HIDE DEF Blind
<1>2. EvaluationInv /\ [EvaluationNext]_evaluationVars =>
        [\A r \in stored' \ stored : \A units \in Units : Blind(r, units)]_stored
  BY <1>1
<1>3. EvaluationSpec => [][\A r \in stored' \ stored : \A units \in Units : Blind(r, units)]_stored
  BY <1>2, EvaluationsHold, PTL DEF EvaluationSpec
<1> QED
  BY <1>3, PTL DEF NoLeakage, Blind

=============================================================================
