-------------------------- MODULE CallbackWorkflow --------------------------
(***************************************************************************)
(* The wait-for-callback side of a human review (review/cloud_workflow.py):*)
(* a case is started with a fresh task token, and the token is used up by  *)
(* a success, a failure or a timeout.  The timeout is a call like the      *)
(* others: nothing makes it when the time comes.  The object takes no      *)
(* lock, so its calls may overlap: one checks, then marks the handle or    *)
(* the token, then records its event.  A call refused at its check changes *)
(* nothing, nor does a start that finds an open handle.                    *)
(***************************************************************************)
EXTENDS Integers, Sequences

CONSTANTS WorkflowCases,
          WorkflowCallers,   \* who may call at the same time
          Timeout,           \* timeout_seconds
          MaxTokens,         \* bound on the tokens issued
          MaxNow             \* bound on the clock

ASSUME WorkflowBounds ==
  Timeout \in Nat \ {0} /\ MaxTokens \in Nat /\ MaxNow \in Nat

VARIABLES handles,      \* each case: its last handle, or NoHandle
          consumed,     \* the tokens used up
          recorded,     \* the code's list of events
          issued,       \* tokens so far; a token is its number
          now,
          calling       \* what each caller is at

workflowVars == <<handles, consumed, recorded, issued, now, calling>>

Tokens == 1..MaxTokens
EndPhases == {"success", "failure", "timeout"}

NoHandle == [token |-> 0, expires |-> 0]
Handle == [token : Tokens, expires : Nat]

\* History: when the call checked, by the clock, and how many events were
\* recorded by then.  A start's two events are one.
WorkflowEvent ==
  [phase : EndPhases \cup {"start"}, token : Tokens, case : WorkflowCases, at : 0..MaxNow,
   when : 0..MaxNow, from : Nat]

NoCall == [at |-> "idle"]
Call ==
  [at : {"checked", "marked"}, phase : EndPhases \cup {"start"}, case : WorkflowCases,
   token : Tokens, expires : Nat, when : 0..MaxNow, from : Nat]

WorkflowInit ==
  /\ handles = [c \in WorkflowCases |-> NoHandle]
  /\ consumed = {}
  /\ recorded = << >>
  /\ issued = 0
  /\ now = 0
  /\ calling = [w \in WorkflowCallers |-> NoCall]

Open(c) == handles[c] # NoHandle /\ handles[c].token \notin consumed

Enter(w, phase, c, handle) ==
  /\ calling[w] = NoCall
  /\ calling' = [calling EXCEPT ![w] =
       [at |-> "checked", phase |-> phase, case |-> c, token |-> handle.token,
        expires |-> handle.expires, when |-> now, from |-> Len(recorded)]]

StartFresh(w, c) ==
  /\ ~Open(c)
  /\ issued < MaxTokens
  /\ issued' = issued + 1
  /\ Enter(w, "start", c, [token |-> issued + 1, expires |-> now + Timeout])
  /\ UNCHANGED <<handles, consumed, recorded, now>>

\* callback_success and callback_failure: _require_open.  A token is looked
\* for among the last handles, so a call names the case that holds it; one
\* that was replaced is unknown.
Callback(w, c, phase) ==
  /\ phase \in {"success", "failure"}
  /\ Open(c)
  /\ now < handles[c].expires
  /\ Enter(w, phase, c, handles[c])
  /\ UNCHANGED <<handles, consumed, recorded, issued, now>>

\* Mutant: a used token may still time out.
ExpireAny(w, c) ==
  /\ handles[c] # NoHandle
  /\ now >= handles[c].expires
  /\ Enter(w, "timeout", c, handles[c])
  /\ UNCHANGED <<handles, consumed, recorded, issued, now>>

Expire(w, c) ==
  /\ Open(c)
  /\ now >= handles[c].expires
  /\ Enter(w, "timeout", c, handles[c])
  /\ UNCHANGED <<handles, consumed, recorded, issued, now>>

Install(w) ==
  /\ calling[w].at = "checked"
  /\ calling[w].phase = "start"
  /\ handles' = [handles EXCEPT ![calling[w].case] =
                   [token |-> calling[w].token, expires |-> calling[w].expires]]
  /\ calling' = [calling EXCEPT ![w].at = "marked"]
  /\ UNCHANGED <<consumed, recorded, issued, now>>

UseUp(w) ==
  /\ calling[w].at = "checked"
  /\ calling[w].phase \in EndPhases
  /\ consumed' = consumed \cup {calling[w].token}
  /\ calling' = [calling EXCEPT ![w].at = "marked"]
  /\ UNCHANGED <<handles, recorded, issued, now>>

\* A start and a timeout record the time they checked at, and so does an
\* answer that was given its time; another reads the clock again.
RecordEvent(w, at) ==
  /\ calling[w].at = "marked"
  /\ at = calling[w].when \/ (at = now /\ calling[w].phase \in {"success", "failure"})
  /\ recorded' = Append(recorded,
       [phase |-> calling[w].phase, token |-> calling[w].token, case |-> calling[w].case,
        at |-> at, when |-> calling[w].when, from |-> calling[w].from])
  /\ calling' = [calling EXCEPT ![w] = NoCall]
  /\ UNCHANGED <<handles, consumed, issued, now>>

WorkflowTick ==
  /\ now < MaxNow
  /\ now' = now + 1
  /\ UNCHANGED <<handles, consumed, recorded, issued, calling>>

WorkflowNext ==
  \/ \E w \in WorkflowCallers :
       \/ \E c \in WorkflowCases :
            \/ StartFresh(w, c)
            \/ \E phase \in {"success", "failure"} : Callback(w, c, phase)
            \/ Expire(w, c)
       \/ Install(w)
       \/ UseUp(w)
       \/ \E at \in 0..MaxNow : RecordEvent(w, at)
  \/ WorkflowTick

WorkflowSpec == WorkflowInit /\ [][WorkflowNext]_workflowVars

-----------------------------------------------------------------------------
WorkflowTypeOK ==
  /\ handles \in [WorkflowCases -> Handle \cup {NoHandle}]
  /\ consumed \subseteq Tokens
  /\ recorded \in Seq(WorkflowEvent)
  /\ issued \in 0..MaxTokens
  /\ now \in 0..MaxNow
  /\ calling \in [WorkflowCallers -> Call \cup {NoCall}]

Ends == {i \in DOMAIN recorded : recorded[i].phase \in EndPhases}
Starts == DOMAIN recorded \ Ends
Marking(phases) ==
  {w \in WorkflowCallers : calling[w].at = "marked" /\ calling[w].phase \in phases}

\* Of two recorded calls, the one recorded later checked before the other was
\* recorded.
Overlap(i, j) == i # j /\ recorded[i].from < j /\ recorded[j].from < i

\* Another start of its case overlapped the i-th event's.
Overtaken(i) ==
  \/ \E j \in Starts : recorded[j].case = recorded[i].case /\ Overlap(i, j)
  \/ \E w \in Marking({"start"}) :
       calling[w].case = recorded[i].case /\ calling[w].from < i

(* A token ends twice only by calls that overlapped: whatever order the    *)
(* answers, the timeout and a second start come in, a call that checks     *)
(* after an end was recorded is refused.  A token ends in the case it was  *)
(* issued for; an answer was checked before its time ran out, though it    *)
(* may be recorded after, and a timeout only after.  A token is used up    *)
(* exactly when an end of it was recorded or is about to be.  A case does  *)
(* not lose a token that nothing used up, however old, unless two starts   *)
(* of it overlapped (cloud_workflow.py:84-98, :115-117, :143-150,          *)
(* :160-167, :192).                                                        *)
OutcomesInOrder ==
  /\ \A i, j \in Ends : recorded[i].token = recorded[j].token /\ i # j => Overlap(i, j)
  /\ \A i \in Starts, j \in Ends :
       recorded[i].token = recorded[j].token =>
         /\ recorded[i].case = recorded[j].case
         /\ IF recorded[j].phase = "timeout"
            THEN recorded[j].at >= recorded[i].at + Timeout
            ELSE recorded[j].when < recorded[i].at + Timeout
  /\ consumed = {recorded[i].token : i \in Ends}
                  \cup {calling[w].token : w \in Marking(EndPhases)}
  /\ \A i \in Starts :
       \/ handles[recorded[i].case].token = recorded[i].token
       \/ recorded[i].token \in consumed
       \/ Overtaken(i)
=============================================================================
