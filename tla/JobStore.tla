------------------------------ MODULE JobStore ------------------------------
(***************************************************************************)
(* The processing_jobs table and the statements that change one row of it  *)
(* (jobs/store.py, domain/models/job.py).  A row operator gives the row a  *)
(* statement leaves behind; the queue and worker modules say when it runs. *)
(*                                                                         *)
(* Time is two booleans of a row, set by the environment: "due" once       *)
(* available_at has passed, "lapsed" once leased_until has.  A lease token *)
(* is random and never drawn twice; the attempt number it was minted with  *)
(* names it, because attempts only ever grows and every claim adds one.    *)
(***************************************************************************)
EXTENDS Naturals

CONSTANTS Jobs,         \* primary keys, one per (kind, idempotency key)
          MaxAttempts   \* max_attempts of every row

ASSUME JobsAssumption == Jobs \subseteq Nat \ {0}
ASSUME MaxAttemptsAssumption == MaxAttempts \in Nat \ {0}

VARIABLE rows

None == 0

RowStates == {"absent", "queued", "running", "succeeded", "failed"}
TerminalStates == {"succeeded", "failed"}

Row == [state : RowStates, token : Nat, attempts : Nat,
        due : BOOLEAN, lapsed : BOOLEAN]

AbsentRow == [state |-> "absent", token |-> None, attempts |-> 0,
              due |-> FALSE, lapsed |-> FALSE]

----------------------------------------------------------------------------
(* The statements, as what each leaves in a row.                           *)

Inserted(row) == [row EXCEPT !.state = "queued", !.due = TRUE]

Due(row) == row.state = "queued" /\ row.due

Claimed(row) ==
  [row EXCEPT !.state = "running", !.token = row.attempts + 1,
              !.attempts = row.attempts + 1, !.lapsed = FALSE]

Lapsed(row) == row.state = "running" /\ row.lapsed

\* Mutant: every running row is released, whenever its lease ends.
ReleasedBug(row) ==
  IF row.state = "running"
  THEN [row EXCEPT !.state = "queued", !.token = None,
                   !.due = TRUE, !.lapsed = FALSE]
  ELSE row

\* Mutant: nothing takes a lapsed lease away.
ReleasedNever(row) == row

Released(row) ==
  IF Lapsed(row)
  THEN [row EXCEPT !.state = "queued", !.token = None,
                   !.due = TRUE, !.lapsed = FALSE]
  ELSE row

\* The check of `_leased`, made on whatever copy of the row the session holds.
Owns(copy, token) == copy.token = token /\ copy.state = "running"

Succeeded(row) ==
  [row EXCEPT !.state = "succeeded", !.token = None, !.lapsed = FALSE]

\* Mutant: one attempt too many.
FailedOffByOne(row, copy, again) ==
  IF again /\ copy.attempts <= MaxAttempts
  THEN [row EXCEPT !.state = "queued", !.token = None,
                   !.due = FALSE, !.lapsed = FALSE]
  ELSE [row EXCEPT !.state = "failed", !.token = None, !.lapsed = FALSE]

\* The decision uses the attempts of the copy; the update goes to the row by
\* primary key alone.
Failed(row, copy, again) ==
  IF again /\ copy.attempts < MaxAttempts
  THEN [row EXCEPT !.state = "queued", !.token = None,
                   !.due = FALSE, !.lapsed = FALSE]
  ELSE [row EXCEPT !.state = "failed", !.token = None, !.lapsed = FALSE]

=============================================================================
