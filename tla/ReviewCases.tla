---------------------------- MODULE ReviewCases -----------------------------
(***************************************************************************)
(* The review queue under concurrent requests (review/workflow.py,         *)
(* review/persist.py, api/routes/reviews.py).  A request reads the row of  *)
(* its case, reads the case's snapshots and decisions in further           *)
(* statements, decides on those copies, and writes and commits.  There is  *)
(* no row version: under READ COMMITTED an update waits for the row and    *)
(* then applies, and the session sends only the columns whose value        *)
(* differs from its copy.  What stops a late writer is the unique          *)
(* constraint on the case, on its snapshot and on its decision.            *)
(***************************************************************************)
EXTENDS Naturals, SequencesExt

CONSTANTS Cases,        \* subjects, each with at most one case
          Actors,       \* principals: a display name and a verified subject
          Decisions,    \* approved, rejected, corrected
          Sessions,     \* request threads
          MaxRequests   \* bound on the requests served

Unverified == "unverified"

Statuses == {"absent", "open", "in_review", "cancelled"} \cup Decisions
Terminal == {"cancelled"} \cup Decisions

ASSUME ActorsAssumption == \A a \in Actors : DOMAIN a = {"name", "subject"}
ASSUME DecisionsAssumption ==
  Decisions \cap {"absent", "open", "in_review", "cancelled", "none",
                  "created", "status_changed"} = {}
ASSUME MaxRequestsAssumption == MaxRequests \in Nat

VARIABLES cases,      \* the row of each case
          snapshots,  \* whether each case has its AI snapshot
          decisions,  \* the decision records of each case, in id order
          audit,      \* the audit events of each case, in id order
          pc, request, seen, history,   \* each session and its copies
          served,     \* requests so far
          raced       \* cases some request wrote over a newer row

caseVars == <<cases, snapshots, decisions, audit, raced>>
vars == <<cases, snapshots, decisions, audit, pc, request, seen, history,
          served, raced>>

Names == {a.name : a \in Actors}
Subjects == {a.subject : a \in Actors}

CaseRow == [status : Statuses, name : Names \cup {"none"},
            subject : Subjects \cup {Unverified}]
NoCase == [status |-> "absent", name |-> "none", subject |-> Unverified]
System == [name |-> "system", subject |-> Unverified]

Request ==
  [op : {"create"}, case : Cases, result : BOOLEAN]
    \cup [op : {"start", "assign", "cancel"}, case : Cases, actor : Actors]
    \cup [op : {"close"}, case : Cases, actor : Actors, decision : Decisions]
History == [decision : BOOLEAN, snapshot : BOOLEAN]
Record == [decision : Decisions, actor : Actors, snapshot : BOOLEAN]
EventTypes == {"created", "status_changed", "opened", "assigned"} \cup Decisions
AuditEvent == [type : EventTypes, actor : Actors \cup {System},
               from : Statuses, to : Statuses]

ReviewTypeOK ==
  /\ cases \in [Cases -> CaseRow]
  /\ snapshots \in [Cases -> BOOLEAN]
  /\ pc \in [Sessions -> {"idle", "reading", "deciding"}]
  /\ DOMAIN request = Sessions
  /\ \A s \in Sessions : pc[s] # "idle" => request[s] \in Request
  /\ seen \in [Sessions -> CaseRow]
  /\ history \in [Sessions -> History]
  /\ decisions \in [Cases -> Seq(Record)]
  /\ audit \in [Cases -> Seq(AuditEvent)]
  /\ served \in 0..MaxRequests
  /\ raced \subseteq Cases

NoHistory == [decision |-> FALSE, snapshot |-> FALSE]
NoRequest == [op |-> "none"]

Init ==
  /\ cases = [c \in Cases |-> NoCase]
  /\ snapshots = [c \in Cases |-> FALSE]
  /\ decisions = [c \in Cases |-> << >>]
  /\ audit = [c \in Cases |-> << >>]
  /\ pc = [s \in Sessions |-> "idle"]
  /\ request = [s \in Sessions |-> NoRequest]
  /\ seen = [s \in Sessions |-> NoCase]
  /\ history = [s \in Sessions |-> NoHistory]
  /\ served = 0
  /\ raced = {}

----------------------------------------------------------------------------
(* Reading.                                                                *)

ReadCase(s, r) ==
  /\ pc[s] = "idle"
  /\ served < MaxRequests
  /\ served' = served + 1
  /\ pc' = [pc EXCEPT ![s] = "reading"]
  /\ request' = [request EXCEPT ![s] = r]
  /\ seen' = [seen EXCEPT ![s] = cases[r.case]]
  /\ UNCHANGED <<caseVars, history>>

ReadHistory(s) ==
  /\ pc[s] = "reading"
  /\ pc' = [pc EXCEPT ![s] = "deciding"]
  /\ LET c == request[s].case
     IN  history' = [history EXCEPT ![s] = [decision |-> decisions[c] # << >>,
                                            snapshot |-> snapshots[c]]]
  /\ UNCHANGED <<caseVars, request, seen, served>>

----------------------------------------------------------------------------
(* What a request may do with what it read.                                *)

\* Mutant: a decision may be recorded without taking the case up.
AllowedFromOpen(from, to) ==
  \/ from = "open" /\ to \in {"in_review", "cancelled"} \cup Decisions
  \/ from = "in_review" /\ to \in {"cancelled"} \cup Decisions

Allowed(from, to) ==
  \/ from = "open" /\ to \in {"in_review", "cancelled"}
  \/ from = "in_review" /\ to \in {"cancelled"} \cup Decisions

\* The verified subject decides; cases taken up without one are compared by
\* display name.
SameReviewer(row, actor) ==
  IF row.subject # Unverified
  THEN row.subject = actor.subject
  ELSE row.name = actor.name

MayCreate(s) ==
  request[s].op = "create" /\ seen[s].status = "absent"

MayAttach(s) ==
  /\ request[s].op = "create" /\ seen[s].status # "absent"
  /\ request[s].result /\ ~history[s].snapshot

MayStart(s) ==
  /\ request[s].op \in {"start", "assign"}
  /\ Allowed(seen[s].status, "in_review")

MayAssign(s) ==
  /\ request[s].op = "assign" /\ seen[s].status = "in_review"
  /\ ~SameReviewer(seen[s], request[s].actor)

MayClose(s) ==
  /\ request[s].op = "close"
  /\ Allowed(seen[s].status, request[s].decision)
  /\ ~history[s].decision

MayCancel(s) ==
  request[s].op = "cancel" /\ Allowed(seen[s].status, "cancelled")

----------------------------------------------------------------------------
(* Writing.  The update, the inserts that follow it and the commit are one *)
(* step: a second writer of the row waits for the commit.                  *)

\* Only the columns that differ from the copy are sent.
Written(row, copy, new) ==
  [column \in DOMAIN row |->
     IF new[column] # copy[column] THEN new[column] ELSE row[column]]

\* Mutant: the reviewer is not recorded.
UpdateStatusOnly(s, status) ==
  LET c == request[s].case
  IN  /\ cases' = [cases EXCEPT ![c] = Written(@, seen[s], [seen[s] EXCEPT !.status = status])]
      /\ raced' = IF cases[c] # seen[s] THEN raced \cup {c} ELSE raced

Update(s, status) ==
  LET c == request[s].case
      actor == request[s].actor
      new == [status |-> status, name |-> actor.name, subject |-> actor.subject]
  IN  /\ cases' = [cases EXCEPT ![c] = Written(@, seen[s], new)]
      /\ raced' = IF cases[c] # seen[s] THEN raced \cup {c} ELSE raced

Event(type, actor, from, to) ==
  [type |-> type, actor |-> actor, from |-> from, to |-> to]

Log(s, events) == audit' = [audit EXCEPT ![request[s].case] = @ \o events]

Done(s) ==
  /\ pc' = [pc EXCEPT ![s] = "idle"]
  /\ request' = [request EXCEPT ![s] = NoRequest]
  /\ seen' = [seen EXCEPT ![s] = NoCase]
  /\ history' = [history EXCEPT ![s] = NoHistory]
  /\ served' = served

\* The unique constraint on the subject refuses a second row.
CreateReview(s) ==
  /\ pc[s] = "deciding" /\ MayCreate(s)
  /\ LET c == request[s].case
     IN  /\ cases[c].status = "absent"
         /\ cases' = [cases EXCEPT ![c].status = "open"]
         /\ snapshots' = [snapshots EXCEPT ![c] = request[s].result]
  /\ Log(s, <<Event("created", System, "absent", "open")>>)
  /\ Done(s)
  /\ UNCHANGED <<decisions, raced>>

AttachSnapshot(s) ==
  /\ pc[s] = "deciding" /\ MayAttach(s)
  /\ ~snapshots[request[s].case]
  /\ snapshots' = [snapshots EXCEPT ![request[s].case] = TRUE]
  /\ Done(s)
  /\ UNCHANGED <<cases, decisions, audit, raced>>

StartReview(s) ==
  /\ pc[s] = "deciding" /\ MayStart(s)
  /\ Update(s, "in_review")
  /\ LET actor == request[s].actor
     IN  Log(s, <<Event("status_changed", actor, seen[s].status, "in_review"),
                  Event("opened", actor, seen[s].status, "in_review"),
                  Event("assigned", actor, "in_review", "in_review")>>)
  /\ Done(s)
  /\ UNCHANGED <<snapshots, decisions>>

\* Mutant: an assignment writes the whole row, the status it read too.
AssignWholeRow(s) ==
  /\ pc[s] = "deciding" /\ MayAssign(s)
  /\ LET actor == request[s].actor
         c == request[s].case
     IN  /\ cases' = [cases EXCEPT ![c] =
               [status |-> seen[s].status, name |-> actor.name, subject |-> actor.subject]]
         /\ raced' = IF cases[c] # seen[s] THEN raced \cup {c} ELSE raced
         /\ Log(s, <<Event("assigned", actor, seen[s].status, seen[s].status)>>)
  /\ Done(s)
  /\ UNCHANGED <<snapshots, decisions>>

AssignReview(s) ==
  /\ pc[s] = "deciding" /\ MayAssign(s)
  /\ Update(s, seen[s].status)
  /\ Log(s, <<Event("assigned", request[s].actor, seen[s].status, seen[s].status)>>)
  /\ Done(s)
  /\ UNCHANGED <<snapshots, decisions>>

\* Mutant: no unique constraint on the decision of a case.
CloseAgain(s) ==
  /\ pc[s] = "deciding" /\ MayClose(s)
  /\ Update(s, request[s].decision)
  /\ LET r == request[s]
     IN  /\ decisions' = [decisions EXCEPT ![r.case] =
                            Append(@, [decision |-> r.decision, actor |-> r.actor,
                                       snapshot |-> history[s].snapshot])]
         /\ Log(s, <<Event("status_changed", r.actor, seen[s].status, r.decision),
                     Event(r.decision, r.actor, seen[s].status, r.decision)>>)
  /\ Done(s)
  /\ UNCHANGED snapshots

\* The unique constraint on the decision refuses a second record, and the
\* update goes with it.
CloseReview(s) ==
  /\ pc[s] = "deciding" /\ MayClose(s)
  /\ decisions[request[s].case] = << >>
  /\ Update(s, request[s].decision)
  /\ LET r == request[s]
     IN  /\ decisions' = [decisions EXCEPT ![r.case] =
                            Append(@, [decision |-> r.decision, actor |-> r.actor,
                                       snapshot |-> history[s].snapshot])]
         /\ Log(s, <<Event("status_changed", r.actor, seen[s].status, r.decision),
                     Event(r.decision, r.actor, seen[s].status, r.decision)>>)
  /\ Done(s)
  /\ UNCHANGED snapshots

CancelReview(s) ==
  /\ pc[s] = "deciding" /\ MayCancel(s)
  /\ Update(s, "cancelled")
  /\ Log(s, <<Event("status_changed", request[s].actor, seen[s].status, "cancelled")>>)
  /\ Done(s)
  /\ UNCHANGED <<snapshots, decisions>>

\* Not found, a conflict, nothing to change, or a unique constraint: the
\* request leaves no trace.
Refuse(s) ==
  /\ pc[s] = "deciding"
  /\ LET c == request[s].case
     IN  /\ ~(MayStart(s) \/ MayAssign(s) \/ MayCancel(s))
         /\ MayCreate(s) => cases[c].status # "absent"
         /\ MayAttach(s) => snapshots[c]
         /\ MayClose(s) => decisions[c] # << >>
  /\ Done(s)
  /\ UNCHANGED caseVars

Write(s) ==
  \/ CreateReview(s) \/ AttachSnapshot(s) \/ StartReview(s) \/ AssignReview(s)
  \/ CloseReview(s) \/ CancelReview(s)

Next ==
  \E s \in Sessions :
    \/ \E r \in Request : ReadCase(s, r)
    \/ ReadHistory(s) \/ Write(s) \/ Refuse(s)

Spec == Init /\ [][Next]_vars

----------------------------------------------------------------------------
\* What the feedback export says of a decided case: its first decision.
Feedback(c) == decisions[c][1].decision

\* A case that says it was decided carries exactly one decision record and the
\* export tells the same decision as the queue, whichever requests raced: the
\* losing writer's status goes down with its record.
FeedbackAgrees ==
  \A c \in Cases :
    /\ Len(decisions[c]) <= 1
    /\ cases[c].status \in Decisions
         => Len(decisions[c]) = 1 /\ Feedback(c) = cases[c].status

StatusEvent(event) == event.type \in {"created", "status_changed"}

\* The last status event of a history leads to this status.
Tells(events, status) ==
  \E i \in 1..Len(events) :
    /\ StatusEvent(events[i]) /\ events[i].to = status
    /\ \A k \in (i + 1)..Len(events) : ~StatusEvent(events[k])

\* The audit history of a case tells the status its row has, also after
\* requests overwrote one another.
AuditTellsStatus ==
  \A c \in Cases :
    IF audit[c] = << >>
    THEN cases[c].status = "absent"
    ELSE Tells(audit[c], cases[c].status)

\* While no request wrote over a newer row, whoever acted last on a case is the
\* reviewer its row names, by name and by verified subject together.
ReviewerActedLast ==
  \A c \in Cases \ raced :
    cases[c].status \in Terminal \cup {"in_review"}
      => /\ Last(audit[c]).actor.name = cases[c].name
         /\ Last(audit[c]).actor.subject = cases[c].subject

\* The queue implements the documented life of a case.
Lifecycle ==
  INSTANCE ReviewLifecycle
    WITH status <- [c \in Cases |-> cases[c].status],
         decided <- [c \in Cases |-> IF decisions[c] = << >> THEN "none"
                                     ELSE decisions[c][1].decision]

ImplementsLifecycle == Lifecycle!Spec

----------------------------------------------------------------------------
(* What the repository says of a case and the code does not keep.          *)

\* "Terminal statuses do not leave those states" (review/cases.py).
TerminalStays ==
  [][\A c \in Cases : cases[c].status \in Terminal
                       => cases'[c].status = cases[c].status]_vars

=============================================================================
