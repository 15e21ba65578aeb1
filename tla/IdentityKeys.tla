---------------------------- MODULE IdentityKeys ----------------------------
(***************************************************************************)
(* Verification of a bearer token (identity/cognito.py, local.py, types.py *)
(* and api/deps.py).  A hosted token is checked with a signing key of the  *)
(* provider, taken from a copy of its key document that the process keeps  *)
(* and refreshes at most once in Refresh when a token names a key the copy *)
(* lacks.  Request threads share the copy under a lock; between two uses   *)
(* of the lock anything may happen.                                        *)
(*                                                                         *)
(* A token is what its header and claims say, and by whom it was signed.   *)
(***************************************************************************)
EXTENDS Integers, FiniteSets

CONSTANTS Keys,         \* key ids the provider may publish
          Bearers,      \* the tokens requests may carry
          Content,      \* what each of them says
          Threads,      \* request threads of one process
          Refresh,      \* refresh_seconds
          MaxTime       \* bound on the clock

ASSUME IdentityBounds == Refresh \in Nat \ {0} /\ MaxTime \in Nat

VARIABLES published,    \* the provider: when each key was published, or Never
          cached,       \* the copy: the keys in it
          fetchedAt,    \* the time it is dated by, or Never
          thread,       \* each thread: what it does and with which token
          answered,     \* the last answer given
          time

identityVars == <<published, cached, fetchedAt, thread, answered, time>>

Never == -1
Nobody == "nobody"
Roles == {"viewer", "reviewer"}

-----------------------------------------------------------------------------
(* What a verified token says.                                             *)

\* parse_roles: groups that are no role are left out.
ParseRoles(groups) == groups \cap Roles

\* Principal: a subject that fits its column, and a name to show.  A name
\* that is there but blank hides the e-mail address behind it.
PrincipalFrom(token) ==
  IF token.subject # "fits" \/ token.name = "blank"
  THEN [outcome |-> "invalid", roles |-> {}]
  ELSE [outcome |-> "accepted", roles |-> ParseRoles(token.groups)]

Refused(why) == [outcome |-> why, roles |-> {}]

\* jwt.decode with a key: an expired token is told from one that is wrong.
Decode(token, key, now) ==
  IF token.signedBy # key \/ ~token.scoped THEN Refused("invalid")
  ELSE IF token.exp <= now THEN Refused("expired")
  ELSE IF token.use = "access" THEN Refused("invalid")
  ELSE PrincipalFrom(token)

\* A token whose header names no key, or an algorithm that is not taken.
Readable(token) == token.kid \in Keys /\ token.algorithm

\* The development provider has one key of its own, and no token uses.
VerifyLocally(token, secret, now) ==
  IF ~token.algorithm \/ token.signedBy # secret \/ ~token.scoped THEN Refused("invalid")
  ELSE IF token.exp <= now THEN Refused("expired")
  ELSE PrincipalFrom(token)

\* get_principal: an identity error is the caller's, anything else is not
\* caught here.
HttpStatus(outcome) ==
  IF outcome = "accepted" THEN 200 ELSE IF outcome = "unavailable" THEN 500 ELSE 401

\* require_reviewer_role, and limit_decisions behind it.
MayDecide(roles) == "reviewer" \in roles

DecisionStatus(verdict, within) ==
  IF HttpStatus(verdict.outcome) # 200 THEN HttpStatus(verdict.outcome)
  ELSE IF ~MayDecide(verdict.roles) THEN 403
  ELSE IF ~within THEN 429 ELSE 200

-----------------------------------------------------------------------------
AtRest == [at |-> "idle", token |-> Nobody, decided |-> Never, copy |-> Never]
NoAnswer == [outcome |-> "none", roles |-> {}, token |-> Nobody, decided |-> Never,
             copy |-> Never]

IdentityInit ==
  /\ published = [k \in Keys |-> Never]
  /\ cached = {}
  /\ fetchedAt = Never
  /\ thread = [t \in Threads |-> AtRest]
  /\ answered = NoAnswer
  /\ time = 0

Answer(t, bearer, verdict) ==
  /\ answered' = [outcome |-> verdict.outcome, roles |-> verdict.roles, token |-> bearer,
                  decided |-> thread[t].decided, copy |-> thread[t].copy]
  /\ thread' = [thread EXCEPT ![t] = AtRest]

\* _refresh keeps the lock while it fetches, and a look takes it.
Free == \A t \in Threads : thread[t].at # "fetching"

\* _signing_key, first look: a key of the copy is used as it is.
Look(t) ==
  /\ thread[t].at = "idle"
  /\ \E bearer \in Bearers :
       LET token == Content[bearer] IN
       \/ /\ ~Readable(token)
          /\ Answer(t, bearer, Refused("invalid"))
       \/ /\ Readable(token) /\ Free /\ token.kid \in cached
          /\ Answer(t, bearer, Decode(token, token.kid, time))
       \/ /\ Readable(token) /\ Free /\ token.kid \notin cached
          /\ thread' = [thread EXCEPT ![t] = [AtRest EXCEPT !.at = "missed", !.token = bearer]]
          /\ UNCHANGED answered
  /\ UNCHANGED <<published, cached, fetchedAt, time>>

TooSoon == fetchedAt # Never /\ time - fetchedAt < Refresh

KeepCopy(t) ==
  /\ thread[t].at = "missed"
  /\ Free
  /\ TooSoon
  /\ thread' = [thread EXCEPT ![t].at = "looked", ![t].decided = time, ![t].copy = fetchedAt]
  /\ UNCHANGED <<published, cached, fetchedAt, answered, time>>

BeginFetch(t) ==
  /\ thread[t].at = "missed"
  /\ Free
  /\ ~TooSoon
  /\ thread' = [thread EXCEPT ![t].at = "fetching", ![t].decided = time]
  /\ UNCHANGED <<published, cached, fetchedAt, answered, time>>

\* The copy is dated by the clock read before the document was asked for.
TakeDocument(t) ==
  /\ fetchedAt' = thread[t].decided
  /\ cached' = {k \in Keys : published[k] # Never}
  /\ thread' = [thread EXCEPT ![t].at = "looked", ![t].copy = thread[t].decided]
  /\ UNCHANGED <<published, answered, time>>

\* Mutant: the time of the attempt is kept before the document is there.
EndFetchStamped(t) ==
  /\ thread[t].at = "fetching"
  /\ \/ TakeDocument(t)
     \/ /\ \E why \in {"unavailable", "invalid"} : Answer(t, thread[t].token, Refused(why))
        /\ fetchedAt' = thread[t].decided
        /\ UNCHANGED <<published, cached, time>>

\* The document is not served, or an entry of it is no key (no identity
\* error), or it is no object (one): nothing is kept, not even the time.
EndFetch(t) ==
  /\ thread[t].at = "fetching"
  /\ \/ TakeDocument(t)
     \/ /\ \E why \in {"unavailable", "invalid"} : Answer(t, thread[t].token, Refused(why))
        /\ UNCHANGED <<published, cached, fetchedAt, time>>

\* _signing_key, second look.
LookAgain(t) ==
  LET token == Content[thread[t].token] IN
  /\ thread[t].at = "looked"
  /\ Free
  /\ Answer(t, thread[t].token, IF token.kid \in cached THEN Decode(token, token.kid, time)
                      ELSE Refused("unknown key"))
  /\ UNCHANGED <<published, cached, fetchedAt, time>>

\* The provider.
Publish(k) ==
  /\ published[k] = Never
  /\ published' = [published EXCEPT ![k] = time]
  /\ UNCHANGED <<cached, fetchedAt, thread, answered, time>>

Withdraw(k) ==
  /\ published[k] # Never
  /\ published' = [published EXCEPT ![k] = Never]
  /\ UNCHANGED <<cached, fetchedAt, thread, answered, time>>

IdentityTick ==
  /\ time < MaxTime
  /\ time' = time + 1
  /\ UNCHANGED <<published, cached, fetchedAt, thread, answered>>

IdentityNext ==
  \/ \E t \in Threads : Look(t) \/ KeepCopy(t) \/ BeginFetch(t) \/ EndFetch(t) \/ LookAgain(t)
  \/ \E k \in Keys : Publish(k) \/ Withdraw(k)
  \/ IdentityTick

IdentitySpec == IdentityInit /\ [][IdentityNext]_identityVars

-----------------------------------------------------------------------------
Times == 0..MaxTime
Moments == Times \cup {Never}

IdentityTypeOK ==
  /\ published \in [Keys -> Moments]
  /\ cached \subseteq Keys
  /\ fetchedAt \in Moments
  /\ \A t \in Threads :
       /\ thread[t].at \in {"idle", "missed", "fetching", "looked"}
       /\ thread[t].token \in Bearers \cup {Nobody}
       /\ thread[t].decided \in Moments
       /\ thread[t].copy \in Moments
  /\ time \in Times

(* A token the provider vouches for is turned away for its key only when   *)
(* the key was published after the copy the thread relied on, and that     *)
(* copy was younger than Refresh when the thread decided to rely on it:    *)
(* however the requests of the process, the provider's rotation and its    *)
(* failures interleave, a failed fetch never stands for a fetched document *)
(* (cognito.py:133-166, "refreshing at most once per interval when an      *)
(* unknown key id appears", :10).  The same holds of a token whose key     *)
(* was withdrawn: it is taken as long as no miss replaces the copy.        *)
RefusalsExplained ==
  answered.outcome = "unknown key" /\ published[Content[answered.token].kid] # Never =>
    /\ published[Content[answered.token].kid] >= answered.copy
    /\ answered.decided - answered.copy < Refresh
=============================================================================
