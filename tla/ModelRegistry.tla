---------------------------- MODULE ModelRegistry ---------------------------
(***************************************************************************)
(* Trainings and approvals over the local model registry                   *)
(* (forecasting/train.py, artifact.py, registry.py).  The registry is a    *)
(* directory: one index.json that every operation reads whole and writes   *)
(* whole, and one directory per version.  There is no lock and no rename:  *)
(* a session may be overtaken, or killed, between any two file operations. *)
(*                                                                         *)
(* A session is one process, training or approving.  An artifact is known  *)
(* by the training run that wrote it.                                      *)
(***************************************************************************)
EXTENDS ForecastRules

CONSTANTS Sessions,
          Output,       \* the output directory of each session
          Panels,       \* the panels a training may load
          Errors,       \* the errors a fitted model may have on a panel
          Horizon,
          MaxRuns,      \* bound on the sessions started
          MaxVersion    \* bound on the versions registered

Versions == 1..MaxVersion
Outputs == {Output[s] : s \in Sessions}
None == 0
Statuses == {"candidate", "approved", "champion", "rejected", "archived"}

ASSUME BoundsAssumption == MaxRuns \in Nat /\ MaxVersion \in Nat

\* A panel that split_holdout lets through: every category has the same run of
\* weeks, and one of them is left to train on.
LongEnoughToTrain(panel) ==
  LET weeks == Periods(panel)
  IN  /\ IsFiniteSet(DOMAIN panel) /\ IsFiniteSet(weeks) /\ weeks \subseteq Int
      /\ \A c \in DOMAIN panel : panel[c] \in [weeks -> Nat]
      /\ \A v, w \in weeks : v..w \subseteq weeks
      /\ Cardinality(weeks) > Validation + Test
ASSUME TrainingAssumption ==
  /\ \A panel \in Panels : LongEnoughToTrain(panel)
  /\ Errors \subseteq Nat /\ Horizon \in Nat \ {0}

VARIABLES index,      \* index.json: its rows and champion_version, or Torn
          folders,    \* the version directories
          staging,    \* the artifact in each output directory
          pc, work,   \* each session: where it stands and what it holds
          started,    \* sessions so far
          crowned     \* the champions in the last index written

registryVars == <<index, folders, staging, pc, work, started, crowned>>

\* A file opened for writing and not yet written: not JSON.
Torn == [torn |-> TRUE]
Absent == [status |-> "absent", by |-> None]
EmptyIndex == [torn |-> FALSE, champion |-> None, rows |-> [v \in Versions |-> Absent]]

\* An artifact directory: the run that wrote it, and whether every file is
\* there.
Missing == [by |-> None, whole |-> FALSE]
Partial(run) == [by |-> run, whole |-> FALSE]
Whole(run) == [by |-> run, whole |-> TRUE]

NoWork == [run |-> None, promote |-> FALSE, rival |-> None, panel |-> << >>,
           passed |-> FALSE, version |-> None, status |-> "candidate",
           copy |-> Torn, overtaken |-> FALSE]

RegistryInit ==
  /\ index = EmptyIndex
  /\ folders = [v \in Versions |-> Missing]
  /\ staging = [o \in Outputs |-> Missing]
  /\ pc = [s \in Sessions |-> "idle"]
  /\ work = [s \in Sessions |-> NoWork]
  /\ started = 0
  /\ crowned = {}

-----------------------------------------------------------------------------
(* registry.py on a copy of the index.                                     *)

Registered(ix) == {v \in Versions : ix.rows[v] # Absent}

NextVersion(ix) == IF Registered(ix) = {} THEN 1 ELSE Max(Registered(ix)) + 1

Recorded(ix, v, run) ==
  [torn |-> FALSE, champion |-> ix.champion,
   rows |-> [ix.rows EXCEPT ![v] = [status |-> "candidate", by |-> run]]]

\* champion_version follows the status given to its row.
ChampionAfter(ix, v, status) ==
  IF status = "champion" THEN v ELSE IF ix.champion = v THEN None ELSE ix.champion

\* Mutant: the champion before is left in place.
ApprovedBeside(ix, v, status) ==
  [torn |-> FALSE, champion |-> ChampionAfter(ix, v, status),
   rows |-> [ix.rows EXCEPT ![v] = [status |-> status, by |-> ix.rows[v].by]]]

Approved(ix, v, status) ==
  [torn |-> FALSE, champion |-> ChampionAfter(ix, v, status),
   rows |-> [u \in Versions |->
               [status |-> IF u = v THEN status
                           ELSE IF status = "champion" /\ ix.rows[u].status = "champion"
                           THEN "approved" ELSE ix.rows[u].status,
                by |-> ix.rows[u].by]]]

Champions(ix) == {v \in Versions : ix.rows[v].status = "champion"}

\* champion_version, or a row that still says champion.
ChampionOf(ix) ==
  IF ix.champion # None
  THEN IF ix.champion \in Registered(ix) THEN ix.champion ELSE None
  ELSE IF Champions(ix) = {} THEN None ELSE Min(Champions(ix))

-----------------------------------------------------------------------------
(* A session.                                                              *)

Goto(s, label) == pc' = [pc EXCEPT ![s] = label]
Stop(s) ==
  /\ pc' = [pc EXCEPT ![s] = "idle"]
  /\ work' = [work EXCEPT ![s] = NoWork]

Start(s) ==
  /\ pc[s] = "idle"
  /\ started < MaxRuns
  /\ started' = started + 1

\* A champion that cannot be loaded, or an index that cannot be parsed, ends
\* the training before anything is written.
Loads(v) == v = None \/ folders[v].whole

\* The dataset is loaded, the candidate fitted, the champion loaded.
LoadChampion(s) ==
  /\ Start(s)
  /\ \E promote \in BOOLEAN, panel \in Panels :
       IF ~index.torn /\ Loads(ChampionOf(index))
       THEN /\ Goto(s, "compare")
            /\ work' = [work EXCEPT ![s] =
                 [NoWork EXCEPT !.run = started + 1, !.promote = promote,
                    !.panel = panel, !.rival = ChampionOf(index)]]
       ELSE UNCHANGED <<pc, work>>
  /\ UNCHANGED <<index, folders, staging, crowned>>

\* How well the candidate and the champion do at the locked origin is up to
\* the data; the baselines are computed.
Compare(s) ==
  /\ pc[s] = "compare"
  /\ LET panel == work[s].panel
         cutoff == TrainEnd(panel, Validation, Test)
         points == Cardinality(Scored(panel, cutoff, Horizon))
         Of(model) == Score(panel, cutoff, Horizon,
                            Predictions(model, panel, cutoff, Horizon))
         Fitted(error) == [Of("naive") EXCEPT !.error = error]
     IN  \E mine, its \in Errors :
           work' = [work EXCEPT ![s].passed =
                      EvaluatePromotion(Fitted(mine), {Of(m) : m \in Models},
                        IF work[s].rival = None THEN {} ELSE {Fitted(its)}),
                    ![s].panel = << >>]
  /\ Goto(s, "clear")
  /\ UNCHANGED <<index, folders, staging, started, crowned>>

ClearStaging(s) ==
  /\ pc[s] = "clear"
  /\ staging' = [staging EXCEPT ![Output[s]] = Partial(work[s].run)]
  /\ Goto(s, "stage")
  /\ UNCHANGED <<index, folders, work, started, crowned>>

WriteArtifact(s) ==
  /\ pc[s] = "stage"
  /\ staging' = [staging EXCEPT ![Output[s]] = Whole(work[s].run)]
  /\ Goto(s, "register")
  /\ UNCHANGED <<index, folders, work, started, crowned>>

\* register: read the index, take the next version ...
ReadIndex(s) ==
  /\ pc[s] = "register"
  /\ IF index.torn
     THEN Stop(s)
     ELSE /\ NextVersion(index) \in Versions
          /\ work' = [work EXCEPT ![s].copy = index, ![s].version = NextVersion(index)]
          /\ Goto(s, "claim")
  /\ UNCHANGED <<index, folders, staging, started, crowned>>

\* Mutant: a directory that is there is taken all the same.
MakeFolderAnyway(s) ==
  /\ pc[s] = "claim"
  /\ folders' = [folders EXCEPT ![work[s].version] = Partial(work[s].run)]
  /\ Goto(s, "copy")
  /\ UNCHANGED <<index, staging, work, started, crowned>>

\* ... make its directory, which fails when it is already there, ...
MakeFolder(s) ==
  /\ pc[s] = "claim"
  /\ LET v == work[s].version
     IN  IF folders[v] = Missing
         THEN /\ folders' = [folders EXCEPT ![v] = Partial(work[s].run)]
              /\ Goto(s, "copy")
              /\ UNCHANGED work
         ELSE Stop(s) /\ UNCHANGED folders
  /\ UNCHANGED <<index, staging, started, crowned>>

\* ... copy the artifact, ...
CopyTree(s) ==
  /\ pc[s] = "copy"
  /\ folders' = [folders EXCEPT ![work[s].version] = staging[Output[s]]]
  /\ work' = [work EXCEPT ![s].copy = Recorded(@, work[s].version, work[s].run)]
  /\ Goto(s, "save")
  /\ UNCHANGED <<index, staging, started, crowned>>

\* ... and save the index, which opens the file and then writes it.
OpenIndex(s) ==
  /\ pc[s] \in {"save", "save_approval"}
  /\ index' = Torn
  /\ Goto(s, IF pc[s] = "save" THEN "write" ELSE "write_approval")
  /\ UNCHANGED <<folders, staging, work, started, crowned>>

\* A session that wrote since this one opened the file may have left a longer
\* text, whose tail stays behind.
Overwrite(s) ==
  \/ index' = work[s].copy
  \/ ~index.torn /\ index' = Torn

\* Whoever is under way when the champion changes has been overtaken.
Written(s) ==
  /\ Overwrite(s)
  /\ crowned' = Champions(work[s].copy)

Overtaken(w, s) ==
  IF crowned = Champions(w[s].copy) THEN w
  ELSE [t \in Sessions |-> IF pc[t] = "idle" THEN w[t] ELSE [w[t] EXCEPT !.overtaken = TRUE]]

\* Mutant: --promote alone promotes.
WriteRegistrationAsTold(s) ==
  /\ pc[s] = "write"
  /\ Written(s)
  /\ IF work[s].promote
     THEN /\ Goto(s, "approve")
          /\ work' = [Overtaken(work, s) EXCEPT ![s].copy = Torn, ![s].status = "champion"]
     ELSE /\ Goto(s, "idle")
          /\ work' = [Overtaken(work, s) EXCEPT ![s] = NoWork]
  /\ UNCHANGED <<folders, staging, started>>

WriteRegistration(s) ==
  /\ pc[s] = "write"
  /\ Written(s)
  /\ IF work[s].promote /\ work[s].passed
     THEN /\ Goto(s, "approve")
          /\ work' = [Overtaken(work, s) EXCEPT ![s].copy = Torn, ![s].status = "champion"]
     ELSE /\ Goto(s, "idle")
          /\ work' = [Overtaken(work, s) EXCEPT ![s] = NoWork]
  /\ UNCHANGED <<folders, staging, started>>

WriteApproval(s) ==
  /\ pc[s] = "write_approval"
  /\ Written(s)
  /\ Goto(s, "idle")
  /\ work' = [Overtaken(work, s) EXCEPT ![s] = NoWork]
  /\ UNCHANGED <<folders, staging, started>>

\* update_approval, by the training that just registered or by a session of
\* its own.
Approve(s) ==
  /\ pc[s] = "approve"
  /\ IF index.torn \/ work[s].version \notin Registered(index)
     THEN Stop(s)
     ELSE /\ work' = [work EXCEPT ![s].copy =
                        Approved(index, work[s].version, work[s].status)]
          /\ Goto(s, "save_approval")
  /\ UNCHANGED <<index, folders, staging, started, crowned>>

AskApproval(s) ==
  /\ Start(s)
  /\ \E v \in Versions, status \in Statuses :
       work' = [work EXCEPT ![s] = [NoWork EXCEPT !.version = v, !.status = status]]
  /\ Goto(s, "approve")
  /\ UNCHANGED <<index, folders, staging, crowned>>

Kill(s) ==
  /\ pc[s] # "idle"
  /\ Stop(s)
  /\ UNCHANGED <<index, folders, staging, started, crowned>>

RegistryNext ==
  \E s \in Sessions :
    \/ LoadChampion(s) \/ Compare(s)
    \/ ClearStaging(s) \/ WriteArtifact(s)
    \/ ReadIndex(s) \/ MakeFolder(s) \/ CopyTree(s)
    \/ OpenIndex(s) \/ WriteRegistration(s) \/ WriteApproval(s)
    \/ Approve(s) \/ AskApproval(s)
    \/ Kill(s)

RegistrySpec == RegistryInit /\ [][RegistryNext]_registryVars

Row == [status : Statuses, by : 1..MaxRuns]
Index == [torn : {FALSE}, champion : Versions \cup {None},
          rows : [Versions -> Row \cup {Absent}]]
Folder == [by : 0..MaxRuns, whole : BOOLEAN]

Labels == {"idle", "compare", "clear", "stage", "register", "claim", "copy",
           "save", "write", "approve", "save_approval", "write_approval"}
Work == [run : 0..MaxRuns, promote : BOOLEAN, rival : Versions \cup {None},
         panel : Panels \cup {<< >>}, passed : BOOLEAN,
         version : Versions \cup {None}, status : Statuses,
         copy : Index \cup {Torn}, overtaken : BOOLEAN]

RegistryTypeOK ==
  /\ index \in Index \cup {Torn}
  /\ folders \in [Versions -> Folder]
  /\ staging \in [Outputs -> Folder]
  /\ pc \in [Sessions -> Labels]
  /\ work \in [Sessions -> Work]
  /\ started \in 0..MaxRuns
  /\ crowned \subseteq Versions

-----------------------------------------------------------------------------
(* Properties.                                                             *)

\* An index that can be read names as champion the one version whose row says
\* so, and none when no row does, whatever sessions overlapped or were killed
\* (update_approval demotes the old champion in the same file).
IndexAgrees ==
  ~index.torn => Champions(index) = {index.champion} \ {None}

\* Every version the index lists has its directory, complete and written by the
\* run that registered it, so the champion always loads (register copies
\* before it saves; load_artifact refuses an incomplete directory).
RowsLoad ==
  ~index.torn =>
    \A v \in Registered(index) : folders[v] = Whole(index.rows[v].by)

\* A training makes its version champion only after it beat the champion that
\* is being replaced, or the baselines where there was none.  Left out is a
\* training overtaken by another promotion: train.py reads the champion before
\* it fits and never again.
PromotionEarned ==
  [][\A s \in Sessions :
       pc[s] = "write_approval" /\ work[s].run # None /\ pc'[s] = "idle"
         /\ index' # index /\ ~index'.torn =>
            /\ work[s].passed
            /\ work[s].overtaken \/ crowned = {work[s].rival} \ {None}]_registryVars

\* Candidate, champion and baselines are scored on the same points, so the
\* accuracy gate already decides: whoever passes it passes the secondary gate.
\* promotion.py says a single-metric win is not enough.
SecondGateNeverDecides ==
  [][\A s \in Sessions : pc[s] = "compare" /\ pc'[s] = "clear" =>
       LET panel == work[s].panel
           cutoff == TrainEnd(panel, Validation, Test)
           Of(model) == Score(panel, cutoff, Horizon,
                              Predictions(model, panel, cutoff, Horizon))
           baselines == {Of(m) : m \in Models}
           fitted == {[Of("naive") EXCEPT !.error = e] : e \in Errors}
       IN  \A mine \in fitted, its \in {{}} \cup {{f} : f \in fitted} :
             AccuracyGate(mine, baselines, its) => SecondaryGate(mine, baselines, its)]_pc

\* "Registration always records a candidate version" (train.py:91): the version
\* a training is about to take is free, or another training is registering it.
RegistrationProceeds ==
  \A s \in Sessions :
    pc[s] = "claim" /\ folders[work[s].version] # Missing =>
      \E t \in Sessions \ {s} :
        pc[t] # "idle" /\ work[t].run # None /\ work[t].version = work[s].version

=============================================================================
