--------------------------- MODULE HostedRegistry ---------------------------
(***************************************************************************)
(* The hosted model registry (forecasting/sagemaker_registry.py): package  *)
(* versions kept by a service that offers single calls and no transaction. *)
(* A registration lists and then creates; a promotion lists the champions, *)
(* takes the mark off each and then puts it on its own version, each in a  *)
(* call of its own.  Any call may fail, and the process may stop between   *)
(* two of them: nothing done before is undone.                             *)
(*                                                                         *)
(* The service answers a listing with its oldest PageSize packages; the    *)
(* adapter never asks for the page after.                                  *)
(***************************************************************************)
EXTENDS Integers, Sequences, FiniteSets, SequencesExt, FiniteSetsExt

CONSTANTS Operators,      \* processes that use the registry
          PageSize,       \* packages in one answer of the service
          MaxPackages,    \* bound on the packages created
          MaxCalls        \* bound on the operations begun

ASSUME HostedBounds ==
  PageSize \in Nat \ {0} /\ MaxPackages \in Nat /\ MaxCalls \in Nat

VARIABLES packages,     \* the service: the packages in order of creation
          operator,     \* each process: the call it makes next, and with what
          begun,        \* operations so far
          crowned,      \* the label the last completed promotion marked, or NoLabel
          overlapped,   \* two approvals were under way at once
          halted        \* approvals that stopped before their last call

hostedVars == <<packages, operator, begun, crowned, overlapped, halted>>

-----------------------------------------------------------------------------
(* A package is its version label and the approval in its metadata, which  *)
(* decides its status; the service's own status only follows it.           *)

Approvals == {"candidate", "approved", "champion", "rejected", "archived"}
Labels == 1..MaxPackages
NoLabel == 0
ServiceStatuses == {"PendingManualApproval", "Approved", "Rejected"}
Unmarked == "unmarked"    \* a package somebody else put in the group
Package == [label : Labels, approval : Approvals \cup {Unmarked}, status : ServiceStatuses]

\* The service's word for each approval: it has none for a champion.
ServiceStatus(approval) ==
  IF approval = "candidate" THEN "PendingManualApproval"
  ELSE IF approval \in {"approved", "champion"} THEN "Approved" ELSE "Rejected"

\* The mark in the metadata wins; without one the service's status is read.
StatusFrom(package) ==
  IF package.approval # Unmarked THEN package.approval
  ELSE IF package.status = "Approved" THEN "approved"
  ELSE IF package.status = "Rejected" THEN "rejected" ELSE "candidate"

\* What one listing shows.
Listed == SubSeq(packages, 1, IF Len(packages) < PageSize THEN Len(packages) ELSE PageSize)

NextLabel ==
  IF Listed = << >> THEN 1 ELSE Max({Listed[i].label : i \in DOMAIN Listed}) + 1

\* The package a label stands for: the first that is marked with it.
Carriers(label) ==
  {i \in DOMAIN Listed : Listed[i].label = label /\ Listed[i].approval # Unmarked}
Resolves(label) == Carriers(label) # {}
PackageFor(label) == Min(Carriers(label))

\* get_champion: the last of the champions in the order of their versions.
GetChampion ==
  LET champions == {Listed[i].label : i \in {j \in DOMAIN Listed :
                      StatusFrom(Listed[j]) = "champion"}}
  IN  IF champions = {} THEN NoLabel ELSE Max(champions)

-----------------------------------------------------------------------------
Idle == [at |-> "idle", label |-> NoLabel, approval |-> "candidate",
         todo |-> << >>, seen |-> 0]

HostedInit ==
  /\ packages = << >>
  /\ operator = [o \in Operators |-> Idle]
  /\ begun = 0
  /\ crowned = NoLabel
  /\ overlapped = FALSE
  /\ halted = 0

Begin == begun < MaxCalls /\ begun' = begun + 1

Approving(o) == operator[o].at \in {"scan", "demote", "write"}

\* register: the label is taken from a listing, the package is created in a
\* later call.
TakeLabel(o) ==
  /\ operator[o].at = "idle" /\ Begin
  /\ NextLabel <= MaxPackages
  /\ operator' = [operator EXCEPT ![o] = [Idle EXCEPT !.at = "create", !.label = NextLabel]]
  /\ UNCHANGED <<packages, crowned, overlapped, halted>>

CreatePackage(o) ==
  /\ operator[o].at = "create"
  /\ Len(packages) < MaxPackages
  /\ packages' = Append(packages, [label |-> operator[o].label, approval |-> "candidate",
                                   status |-> ServiceStatus("candidate")])
  /\ operator' = [operator EXCEPT ![o] = Idle]
  /\ UNCHANGED <<begun, crowned, overlapped, halted>>

\* A package that did not come from here has no metadata; its label is the
\* number the service gave it.
CreateElsewhere ==
  /\ Begin
  /\ Len(packages) < MaxPackages
  /\ \E status \in ServiceStatuses :
       packages' = Append(packages, [label |-> Len(packages) + 1, approval |-> Unmarked,
                                     status |-> status])
  /\ UNCHANGED <<operator, crowned, overlapped, halted>>

\* update_approval: the version must be known.  Only a promotion looks at
\* the other versions.
BeginApproval(o) ==
  /\ operator[o].at = "idle" /\ Begin
  /\ \E label \in Labels, approval \in Approvals :
       /\ Resolves(label)
       /\ operator' = [operator EXCEPT ![o] =
            [Idle EXCEPT !.label = label, !.approval = approval,
               !.at = IF approval = "champion" THEN "scan" ELSE "write"]]
  /\ overlapped' = (overlapped \/ \E other \in Operators \ {o} : Approving(other))
  /\ UNCHANGED <<packages, crowned, halted>>

\* Mutant: a version that was seen before the promotion's own is left alone.
DescribeLater(o) ==
  LET me == operator[o]
      next == Listed[me.seen + 1]
  IN  /\ me.at = "scan" /\ me.seen < Len(Listed)
      /\ operator' = [operator EXCEPT ![o] =
           [me EXCEPT !.seen = @ + 1,
              !.todo = IF next.label > me.label /\ StatusFrom(next) = "champion"
                       THEN Append(@, next.label) ELSE @]]
      /\ UNCHANGED <<packages, begun, crowned, overlapped, halted>>

\* The listing describes its packages one call at a time, so each status is
\* as old as its own call.
Describe(o) ==
  LET me == operator[o]
      next == Listed[me.seen + 1]
  IN  /\ me.at = "scan" /\ me.seen < Len(Listed)
      /\ operator' = [operator EXCEPT ![o] =
           [me EXCEPT !.seen = @ + 1,
              !.todo = IF next.label # me.label /\ StatusFrom(next) = "champion"
                       THEN Append(@, next.label) ELSE @]]
      /\ UNCHANGED <<packages, begun, crowned, overlapped, halted>>

EndScan(o) ==
  /\ operator[o].at = "scan" /\ operator[o].seen >= Len(Listed)
  /\ operator' = [operator EXCEPT ![o].at = "demote"]
  /\ UNCHANGED <<packages, begun, crowned, overlapped, halted>>

\* _write_approval: metadata and service status together, in one call.
WriteApproval(label, approval) ==
  packages' = [packages EXCEPT ![PackageFor(label)] =
    [@ EXCEPT !.approval = approval, !.status = ServiceStatus(approval)]]

\* The champions seen become approved, one call each.
Demote(o) ==
  LET me == operator[o] IN
  /\ me.at = "demote" /\ me.todo # << >>
  /\ WriteApproval(Head(me.todo), "approved")
  /\ operator' = [operator EXCEPT ![o].todo = Tail(@)]
  /\ UNCHANGED <<begun, crowned, overlapped, halted>>

EndDemotions(o) ==
  /\ operator[o].at = "demote" /\ operator[o].todo = << >>
  /\ operator' = [operator EXCEPT ![o].at = "write"]
  /\ UNCHANGED <<packages, begun, crowned, overlapped, halted>>

WriteOwn(o) ==
  LET me == operator[o] IN
  /\ me.at = "write"
  /\ WriteApproval(me.label, me.approval)
  /\ crowned' = IF me.approval = "champion" THEN me.label
                ELSE IF crowned = me.label THEN NoLabel ELSE crowned
  /\ operator' = [operator EXCEPT ![o] = Idle]
  /\ UNCHANGED <<begun, overlapped, halted>>

\* A call fails (RegistryError) or the process stops.
HaltOperation(o) ==
  /\ operator[o].at # "idle"
  /\ halted' = IF Approving(o) THEN halted + 1 ELSE halted
  /\ operator' = [operator EXCEPT ![o] = Idle]
  /\ UNCHANGED <<packages, begun, crowned, overlapped>>

HostedNext ==
  \/ CreateElsewhere
  \/ \E o \in Operators :
    \/ TakeLabel(o) \/ CreatePackage(o) \/ BeginApproval(o) \/ Describe(o)
    \/ EndScan(o) \/ Demote(o) \/ EndDemotions(o) \/ WriteOwn(o) \/ HaltOperation(o)

HostedSpec == HostedInit /\ [][HostedNext]_hostedVars

-----------------------------------------------------------------------------
HostedTypeOK ==
  /\ packages \in Seq(Package) /\ Len(packages) <= MaxPackages
  /\ \A o \in Operators :
       /\ operator[o].at \in {"idle", "create", "scan", "demote", "write"}
       /\ operator[o].label \in Labels \cup {NoLabel}
       /\ operator[o].approval \in Approvals
       /\ operator[o].todo \in Seq(Labels)
       /\ operator[o].seen \in 0..MaxPackages
  /\ begun \in 0..MaxCalls
  /\ crowned \in Labels \cup {NoLabel}
  /\ overlapped \in BOOLEAN
  /\ halted \in Nat

ChampionLabels == {packages[i].label : i \in {j \in DOMAIN packages :
                     StatusFrom(packages[j]) = "champion"}}

\* Whether every package has a label of its own, and all fit one page.
Addressable ==
  /\ Len(packages) <= PageSize
  /\ \A i, j \in DOMAIN packages : i # j => packages[i].label # packages[j].label

(* The champion the registry shows is the version whose promotion was the  *)
(* last to complete, or there is none; it is lost only when a promotion    *)
(* stopped half way.  This takes approvals that do not overlap and a       *)
(* registry that still fits the page the adapter reads with no label given *)
(* twice: past either, a champion may stay beside the new one              *)
(* (sagemaker_registry.py:141-148, "Promoting a version demotes the        *)
(* previous champion", :8-9).                                              *)
ChampionTold ==
  Addressable /\ ~overlapped =>
    /\ ChampionLabels \subseteq {crowned}
    /\ halted = 0 /\ (\A o \in Operators : ~Approving(o)) => GetChampion = crowned
=============================================================================
