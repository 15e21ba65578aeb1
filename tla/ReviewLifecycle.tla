-------------------------- MODULE ReviewLifecycle ---------------------------
(***************************************************************************)
(* What review/cases.py promises of a review case, without requests or     *)
(* sessions.  A case whose row was never written over a newer one lives    *)
(* the documented life: opened, taken up, then decided once or cancelled.  *)
(* Once a request has written over a newer row ("raced") its status may    *)
(* move anywhere but back to nothing; even then it never says a decision   *)
(* that was not recorded, and a recorded decision is never replaced.       *)
(***************************************************************************)
CONSTANTS Cases, Decisions

VARIABLES status,     \* the status of each case
          decided,    \* the decision recorded for it, or "none"
          raced       \* the cases some request wrote over a newer row

lifecycleVars == <<status, decided, raced>>

Init ==
  /\ status = [c \in Cases |-> "absent"]
  /\ decided = [c \in Cases |-> "none"]
  /\ raced = {}

Move(c, place) == status' = [status EXCEPT ![c] = place]

Open(c) == status[c] = "absent" /\ Move(c, "open") /\ UNCHANGED <<decided, raced>>

Start(c) == status[c] = "open" /\ Move(c, "in_review") /\ UNCHANGED <<decided, raced>>

Cancel(c) ==
  /\ status[c] \in {"open", "in_review"}
  /\ Move(c, "cancelled")
  /\ UNCHANGED <<decided, raced>>

Record(c, d) == decided[c] = "none" /\ decided' = [decided EXCEPT ![c] = d]

Decide(c) ==
  /\ status[c] = "in_review"
  /\ \E d \in Decisions : Move(c, d) /\ Record(c, d)
  /\ UNCHANGED raced

Overwrite(c) ==
  /\ status[c] # "absent"
  /\ raced' = raced \cup {c}
  /\ \/ \E place \in {"in_review", "cancelled"} : Move(c, place) /\ UNCHANGED decided
     \/ \E d \in Decisions : Move(c, d) /\ Record(c, d)
     \/ UNCHANGED <<status, decided>>

Next ==
  \E c \in Cases : Open(c) \/ Start(c) \/ Cancel(c) \/ Decide(c) \/ Overwrite(c)

Spec == Init /\ [][Next]_lifecycleVars

=============================================================================
