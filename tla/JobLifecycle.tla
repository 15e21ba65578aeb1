---------------------------- MODULE JobLifecycle ----------------------------
(***************************************************************************)
(* What the job store promises of a job, without workers, sessions or      *)
(* queues (jobs/store.py, domain/models/job.py).  While no lease of a job  *)
(* has run out its life is the documented one: stored, claimed, then       *)
(* finished once or offered again, its work applied exactly when it        *)
(* succeeds.  After a lease ran out a late holder may overwrite the        *)
(* outcome, and the promise is weaker.                                     *)
(***************************************************************************)
EXTENDS Naturals

CONSTANT Jobs

VARIABLES state,      \* the state of each job
          applied,    \* how many times its work took effect
          lapses      \* how many of its leases ran out

lifecycleVars == <<state, applied, lapses>>

Init ==
  /\ state = [j \in Jobs |-> "absent"]
  /\ applied = [j \in Jobs |-> 0]
  /\ lapses = [j \in Jobs |-> 0]

Stays(j) == state'[j] = state[j]
Keeps(j) == applied'[j] = applied[j] /\ lapses'[j] = lapses[j]
Applies(j) == applied'[j] = applied[j] + 1 /\ lapses'[j] = lapses[j]

Store(j) == state[j] = "absent" /\ state'[j] = "queued" /\ Keeps(j)

Claim(j) == state[j] = "queued" /\ state'[j] = "running" /\ Keeps(j)

Succeed(j) == state[j] = "running" /\ state'[j] = "succeeded" /\ Applies(j)

Fail(j) == state[j] = "running" /\ state'[j] \in {"queued", "failed"} /\ Keeps(j)

LeaseRunsOut(j) ==
  /\ state[j] = "running" /\ Stays(j)
  /\ applied'[j] = applied[j] /\ lapses'[j] = lapses[j] + 1

Release(j) ==
  /\ lapses[j] > 0 /\ state[j] = "running"
  /\ state'[j] = "queued" /\ Keeps(j)

\* A holder whose lease ran out still writes its outcome.
LateOutcome(j) ==
  /\ lapses[j] > 0 /\ state[j] # "absent"
  /\ \/ state'[j] = "succeeded" /\ Applies(j)
     \/ state'[j] \in {"queued", "failed"} /\ Keeps(j)

Step(j) ==
  \/ Store(j) \/ Claim(j) \/ Succeed(j) \/ Fail(j)
  \/ LeaseRunsOut(j) \/ Release(j) \/ LateOutcome(j)
  \/ Stays(j) /\ Keeps(j)

\* One statement may release several jobs at once.
Next == \A j \in Jobs : Step(j)

Spec == Init /\ [][Next]_lifecycleVars

=============================================================================
