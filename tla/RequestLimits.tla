---------------------------- MODULE RequestLimits ---------------------------
(***************************************************************************)
(* The endpoint that decides review cases, up to the handler (api/deps.py, *)
(* core/ratelimit.py): the caller must be verified, must be a reviewer,    *)
(* and must be within its allowance of the current window.  The counters   *)
(* belong to a limiter that the first request of a process builds; each    *)
(* request runs in a thread of its own and reads the clock before it takes *)
(* the limiter's lock.                                                     *)
(*                                                                         *)
(* Every process reads the same clock here, in ticks.                      *)
(***************************************************************************)
EXTENDS Integers, FiniteSets

CONSTANTS Processes, Callers,
          Requests,       \* request threads
          HomeOf,         \* the process each runs in
          Limit,          \* decision_rate_limit
          Window,         \* decision_rate_window_seconds
          Second,         \* ticks in a second
          MaxLimiters,    \* bound on the limiters built
          MaxArrivals,    \* bound on the requests that arrive
          MaxTicks        \* bound on the clock

ASSUME LimitBounds ==
  /\ {Limit, Window, Second} \subseteq Nat \ {0}
  /\ {MaxLimiters, MaxArrivals, MaxTicks} \subseteq Nat
  /\ HomeOf \in [Requests -> Processes]

VARIABLES current,    \* each process: the limiter on its application, or NoLimiter
          buckets,    \* each limiter: the window of its counters, and the counters
          checking,   \* each request
          admitted,   \* requests let through, by caller and window
          built,      \* limiters so far
          late,       \* requests that counted in a window older than the limiter's
          arrived,    \* requests so far
          clock

limitVars == <<current, buckets, checking, admitted, built, late, arrived, clock>>

NoLimiter == 0
Limiters == 1..MaxLimiters
WindowOf(moment) == moment \div (Window * Second)
Windows == 0..WindowOf(MaxTicks)

NoCounts == [window |-> -1, count |-> [c \in Callers |-> 0]]

\* The header of a refusal: whole seconds, at least one.
RetryAfter(moment) ==
  LET left == ((Window * Second) - (moment % (Window * Second))) \div Second
  IN  IF left < 1 THEN 1 ELSE left

-----------------------------------------------------------------------------
Waiting == [at |-> "idle", caller |-> "nobody", limiter |-> NoLimiter, moment |-> 0]

LimitInit ==
  /\ current = [p \in Processes |-> NoLimiter]
  /\ buckets = [l \in Limiters |-> NoCounts]
  /\ checking = [r \in Requests |-> Waiting]
  /\ admitted = [c \in Callers |-> [w \in Windows |-> 0]]
  /\ built = 0
  /\ late = 0
  /\ arrived = 0
  /\ clock = 0

\* get_decision_limiter, first half: the attribute is read.  A caller that is
\* refused before (401, 403) never comes here.
Arrive(r) ==
  /\ checking[r].at = "idle"
  /\ arrived < MaxArrivals
  /\ arrived' = arrived + 1
  /\ \E c \in Callers :
       checking' = [checking EXCEPT ![r] =
         [at |-> IF current[HomeOf[r]] = NoLimiter THEN "build" ELSE "read",
          caller |-> c, limiter |-> current[HomeOf[r]], moment |-> 0]]
  /\ UNCHANGED <<current, buckets, admitted, built, late, clock>>

\* Second half: whoever saw none builds one and puts it there, over one that
\* came meanwhile.
BuildLimiter(r) ==
  /\ checking[r].at = "build"
  /\ built < MaxLimiters
  /\ built' = built + 1
  /\ current' = [current EXCEPT ![HomeOf[r]] = built + 1]
  /\ checking' = [checking EXCEPT ![r].at = "read", ![r].limiter = built + 1]
  /\ UNCHANGED <<buckets, admitted, late, arrived, clock>>

ReadClock(r) ==
  /\ checking[r].at = "read"
  /\ checking' = [checking EXCEPT ![r].at = "count", ![r].moment = clock]
  /\ UNCHANGED <<current, buckets, admitted, built, late, arrived, clock>>

\* Mutant: the counters of the window itself go with the stale ones.
KeptNone(bucket, window) == [c \in Callers |-> 0]

\* The limiter's counters once all but this window's are discarded.
Kept(bucket, window) == IF bucket.window = window THEN bucket.count ELSE NoCounts.count

\* check, under the lock.
Count(r) ==
  LET me == checking[r]
      window == WindowOf(me.moment)
      bucket == buckets[me.limiter]
      count == Kept(bucket, window)[me.caller] + 1
  IN  /\ me.at = "count"
      /\ buckets' = [buckets EXCEPT ![me.limiter] =
           [window |-> window,
            count |-> [Kept(bucket, window) EXCEPT ![me.caller] = count]]]
      /\ admitted' = IF count > Limit THEN admitted
                     ELSE [admitted EXCEPT ![me.caller][window] = @ + 1]
      /\ late' = IF window < bucket.window THEN late + 1 ELSE late
      /\ checking' = [checking EXCEPT ![r] = Waiting]
      /\ UNCHANGED <<current, built, arrived, clock>>

\* A process stops and another takes its place.
Restart(p) ==
  /\ current[p] # NoLimiter
  /\ current' = [current EXCEPT ![p] = NoLimiter]
  /\ checking' = [r \in Requests |-> IF HomeOf[r] = p THEN Waiting ELSE checking[r]]
  /\ UNCHANGED <<buckets, admitted, built, late, arrived, clock>>

LimitTick ==
  /\ clock < MaxTicks
  /\ clock' = clock + 1
  /\ UNCHANGED <<current, buckets, checking, admitted, built, late, arrived>>

LimitNext ==
  \/ \E r \in Requests : Arrive(r) \/ BuildLimiter(r) \/ ReadClock(r) \/ Count(r)
  \/ \E p \in Processes : Restart(p)
  \/ LimitTick

LimitSpec == LimitInit /\ [][LimitNext]_limitVars

-----------------------------------------------------------------------------
LimitTypeOK ==
  /\ current \in [Processes -> Limiters \cup {NoLimiter}]
  /\ buckets \in [Limiters -> [window : Windows \cup {-1}, count : [Callers -> Nat]]]
  /\ \A r \in Requests :
       /\ checking[r].at \in {"idle", "build", "read", "count"}
       /\ checking[r].limiter \in Limiters \cup {NoLimiter}
       /\ checking[r].moment \in 0..MaxTicks
  /\ admitted \in [Callers -> [Windows -> Nat]]
  /\ built \in 0..MaxLimiters
  /\ late \in Nat
  /\ arrived \in 0..MaxArrivals
  /\ clock \in 0..MaxTicks

(* In one window a caller gets through at most Limit times for every       *)
(* limiter that was built and every request that came to a limiter after   *)
(* its window had passed there: a request that read the clock before the   *)
(* edge and takes the lock behind one that read it after throws away the   *)
(* younger counters, not only the earlier ones (ratelimit.py:32-41), and   *)
(* two first requests of a process each build a limiter (deps.py:62-67).   *)
AdmissionsPaidFor ==
  \A c \in Callers, w \in Windows : admitted[c][w] <= Limit * (built + late)
=============================================================================
