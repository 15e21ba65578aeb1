---------------------------- MODULE ServiceProofs ----------------------------
(***************************************************************************)
(* Theorems about the callback workflow, for any cases, tokens and clock,  *)
(* about the copy of the signing keys, for any keys, bearers, threads and  *)
(* refresh period, about the request limit, for any processes, callers and *)
(* limits, about the hosted registry, for any operators and page size,     *)
(* about a model's review of a sheet or an exception, for anything the     *)
(* model may answer and its service may raise, and about the review queue, *)
(* for any cases, people, decisions, sessions and requests.                *)
(***************************************************************************)
EXTENDS ModelReview, ReviewCases, CallbackWorkflow, IdentityKeys, RequestLimits,
        HostedRegistry, SumLemmas, SequenceTheorems

-----------------------------------------------------------------------------
(* Callbacks.  All that names a token, a handle, a call under way or the   *)
(* event of a start, names one case and one time for it; a call under way  *)
(* checked before any end of its token was recorded; and a start that has  *)
(* checked, or has installed its handle, knows what became of the others.  *)

Claimed(token, c, expires) ==
  \/ /\ c \in WorkflowCases /\ handles[c] # NoHandle
     /\ handles[c].token = token /\ handles[c].expires = expires
  \/ \E w \in WorkflowCallers :
       /\ calling[w] # NoCall
       /\ calling[w].token = token /\ calling[w].case = c /\ calling[w].expires = expires
  \/ \E i \in Starts :
       /\ recorded[i].token = token /\ recorded[i].case = c
       /\ recorded[i].at + Timeout = expires

OneClaim ==
  /\ \A t, c, x, d, y : Claimed(t, c, x) /\ Claimed(t, d, y) => c = d /\ x = y
  /\ \A t, c, x : Claimed(t, c, x) => t \in 1..issued
  /\ \A i \in Ends : recorded[i].token \in 1..issued

CallsInTime ==
  \A w \in WorkflowCallers : calling[w] # NoCall =>
    /\ calling[w].from <= Len(recorded)
    /\ calling[w].when <= now
    /\ calling[w].phase = "start" => calling[w].expires = calling[w].when + Timeout
    /\ calling[w].phase = "timeout" => calling[w].when >= calling[w].expires
    /\ calling[w].phase \in {"success", "failure"} => calling[w].when < calling[w].expires

EndsInTime ==
  \A i \in Ends : \A c, x : Claimed(recorded[i].token, c, x) =>
    /\ recorded[i].case = c
    /\ IF recorded[i].phase = "timeout" THEN recorded[i].at >= x ELSE recorded[i].when < x

EndsMeet ==
  /\ \A i \in DOMAIN recorded : recorded[i].from < i
  /\ \A i, j \in Ends : recorded[i].token = recorded[j].token /\ i # j => Overlap(i, j)
  /\ \A w \in WorkflowCallers, i \in Ends :
       /\ calling[w] # NoCall /\ calling[w].phase \in EndPhases
       /\ calling[w].token = recorded[i].token
       => calling[w].from < i
  /\ consumed = {recorded[i].token : i \in Ends}
                  \cup {calling[w].token : w \in Marking(EndPhases)}

HeldOrLost(i) ==
  \/ handles[recorded[i].case].token = recorded[i].token
  \/ recorded[i].token \in consumed
  \/ Overtaken(i)

Replaced(w) ==
  \/ \E j \in Starts : recorded[j].case = calling[w].case /\ calling[w].from < j
  \/ \E v \in Marking({"start"}) : v # w /\ calling[v].case = calling[w].case

StartsAccounted ==
  /\ \A i \in Starts : HeldOrLost(i)
  /\ \A w \in WorkflowCallers, i \in Starts :
       /\ calling[w].at = "checked" /\ calling[w].phase = "start"
       /\ calling[w].case = recorded[i].case /\ i <= calling[w].from
       => recorded[i].token \in consumed \/ Overtaken(i)
  /\ \A w \in Marking({"start"}) :
       \/ handles[calling[w].case].token = calling[w].token
       \/ calling[w].token \in consumed
       \/ Replaced(w)

WorkflowInv ==
  WorkflowTypeOK /\ OneClaim /\ CallsInTime /\ EndsInTime /\ EndsMeet /\ StartsAccounted

\* What an appended event leaves and adds.
LEMMA RecordedGrows ==
  ASSUME WorkflowInv, NEW e, recorded' = Append(recorded, e)
  PROVE  LET n == Len(recorded) + 1 IN
         /\ n \in Nat /\ n \notin DOMAIN recorded /\ Len(recorded') = n
         /\ DOMAIN recorded' = DOMAIN recorded \cup {n} /\ recorded'[n] = e
         /\ \A i \in DOMAIN recorded : i \in Nat /\ i < n /\ recorded'[i] = recorded[i]
  BY DEF WorkflowInv, WorkflowTypeOK

LEMMA EventsTyped ==
  ASSUME WorkflowInv
  PROVE  \A i \in DOMAIN recorded : recorded[i] \in WorkflowEvent
  BY DEF WorkflowInv, WorkflowTypeOK

LEMMA CallsTyped ==
  ASSUME WorkflowInv
  PROVE  \A w \in WorkflowCallers : calling[w] = NoCall \/ calling[w] \in Call
  BY DEF WorkflowInv, WorkflowTypeOK

\* A call begins: its token is new, or the one its case holds open.
LEMMA EnterKeeps ==
  ASSUME WorkflowInv, NEW w \in WorkflowCallers, NEW c \in WorkflowCases,
         NEW phase \in EndPhases \cup {"start"}, NEW handle \in Handle,
         Enter(w, phase, c, handle), UNCHANGED <<handles, consumed, recorded, now>>,
         IF phase = "start"
         THEN /\ ~Open(c) /\ issued' = issued + 1 /\ issued' <= MaxTokens
              /\ handle.token = issued' /\ handle.expires = now + Timeout
         ELSE /\ Open(c) /\ issued' = issued /\ handle = handles[c]
              /\ phase = "timeout" <=> now >= handle.expires
  PROVE  WorkflowInv'
  <1> USE WorkflowBounds DEF Tokens
  <1> DEFINE call == [at |-> "checked", phase |-> phase, case |-> c, token |-> handle.token,
                      expires |-> handle.expires, when |-> now, from |-> Len(recorded)]
  <1>1. call \in Call
    BY DEF Call, Handle, WorkflowInv, WorkflowTypeOK
  <1>2. /\ call.at = "checked" /\ call.phase = phase /\ call.case = c /\ call.from = Len(recorded)
        /\ call.token = handle.token /\ call.expires = handle.expires /\ call.when = now
        /\ call # NoCall
    BY DEF NoCall
  <1>3. calling' = [calling EXCEPT ![w] = call] /\ calling[w] = NoCall /\ calling[w].at = "idle"
    BY DEF Enter, NoCall
  <1> HIDE DEF call
  <1>4. /\ calling'[w] = call /\ \A v \in WorkflowCallers \ {w} : calling'[v] = calling[v]
        /\ \A v \in WorkflowCallers : v # w \/ calling[v].at = "idle"
    BY <1>3 DEF WorkflowInv, WorkflowTypeOK
  <1>5. /\ issued \in 0..MaxTokens /\ issued' \in 0..MaxTokens /\ issued <= issued'
        /\ Len(recorded) \in Nat /\ now \in Nat /\ handle.expires \in Int
        /\ \A i \in DOMAIN recorded : i \in 1..Len(recorded)
    BY DEF WorkflowInv, WorkflowTypeOK, Handle
  <1>6. WorkflowTypeOK'
    BY <1>1, <1>3, <1>5 DEF WorkflowInv, WorkflowTypeOK
  <1>7. /\ Ends' = Ends /\ Starts' = Starts
        /\ \A phases : Marking(phases)' = Marking(phases)
        /\ \A phases : \A v \in Marking(phases) : v # w /\ calling'[v] = calling[v]
    <2>1. Ends' = Ends /\ Starts' = Starts
      BY DEF Ends, Starts
    <2>2. ASSUME NEW phases PROVE Marking(phases)' = Marking(phases)
                  /\ \A v \in Marking(phases) : v # w /\ calling'[v] = calling[v]
      BY <1>2, <1>3, <1>4 DEF Marking
    <2> QED BY <2>1, <2>2
  <1>8. \A t, d, x : Claimed(t, d, x)' =>
          Claimed(t, d, x) \/ (t = handle.token /\ d = c /\ x = handle.expires)
    BY <1>2, <1>4, <1>7 DEF Claimed
  <1>9. phase # "start" => Claimed(handle.token, c, handle.expires)
    BY DEF Claimed, Open
  <1>10. phase = "start" => \A t : t \in 1..issued => t # handle.token
    BY <1>5
  <1>11. OneClaim'
    <2>1. CASE phase = "start"
      BY <2>1, <1>5, <1>7, <1>8, <1>10 DEF WorkflowInv, OneClaim
    <2>2. CASE phase # "start"
      <3>1. \A t, d, x : Claimed(t, d, x)' => Claimed(t, d, x)
        BY <2>2, <1>8, <1>9
      <3> QED BY <2>2, <3>1, <1>7 DEF WorkflowInv, OneClaim
    <2> QED BY <2>1, <2>2
  <1>12. CallsInTime'
    <2>1. phase \in {"success", "failure"} => now < handle.expires
      BY <1>5
    <2> QED BY <2>1, <1>2, <1>4, <1>5 DEF WorkflowInv, CallsInTime, EndPhases
  <1>13. EndsInTime'
    <2>1. ASSUME NEW i \in Ends, NEW d, NEW x, Claimed(recorded[i].token, d, x)'
          PROVE  Claimed(recorded[i].token, d, x)
      BY <2>1, <1>8, <1>9, <1>10 DEF WorkflowInv, OneClaim
    <2> QED BY <2>1, <1>7 DEF WorkflowInv, EndsInTime
  <1>14. EndsMeet'
    <2>1. \A i \in Ends : phase \in EndPhases => handle.token # recorded[i].token
      BY DEF WorkflowInv, EndsMeet, Open, EndPhases
    <2>2. \A i, j : Overlap(i, j)' <=> Overlap(i, j)
      BY DEF Overlap
    <2>3. consumed' = {recorded'[i].token : i \in Ends'}
                        \cup {calling'[v].token : v \in Marking(EndPhases)'}
      BY <1>7 DEF WorkflowInv, EndsMeet
    <2>4. \A v \in WorkflowCallers, i \in Ends :
            calling'[v] # NoCall /\ calling'[v].phase \in EndPhases
              /\ calling'[v].token = recorded[i].token => calling'[v].from < i
      BY <2>1, <1>2, <1>4 DEF WorkflowInv, EndsMeet
    <2> QED BY <2>2, <2>3, <2>4, <1>7 DEF WorkflowInv, EndsMeet
  <1>15. StartsAccounted'
    <2>1. \A i : Overtaken(i)' <=> Overtaken(i)
      BY <1>7 DEF Overtaken, Overlap
    <2>2. \A i \in Starts : HeldOrLost(i)'
      BY <2>1 DEF WorkflowInv, StartsAccounted, HeldOrLost
    <2>3. \A v \in Marking({"start"}) : Replaced(v)' <=> Replaced(v)
      BY <1>7 DEF Replaced
    <2>4. ASSUME NEW i \in Starts, recorded[i].case = c, phase = "start"
          PROVE  recorded[i].token \in consumed \/ Overtaken(i)
      <3>1. recorded[i] \in WorkflowEvent /\ recorded[i].token # 0
        BY EventsTyped DEF Starts, WorkflowEvent
      <3>2. handles[c].token = recorded[i].token => recorded[i].token \in consumed
        BY <2>4, <3>1 DEF Open, NoHandle
      <3> QED BY <2>4, <3>2 DEF WorkflowInv, StartsAccounted, HeldOrLost
    <2>5. \A v \in WorkflowCallers, i \in Starts :
            calling'[v].at = "checked" /\ calling'[v].phase = "start"
              /\ calling'[v].case = recorded[i].case /\ i <= calling'[v].from
              => recorded[i].token \in consumed \/ Overtaken(i)
      BY <2>4, <1>2, <1>4 DEF WorkflowInv, StartsAccounted
    <2> QED BY <2>1, <2>2, <2>3, <2>5, <1>7 DEF WorkflowInv, StartsAccounted
  <1> QED BY <1>6, <1>11, <1>12, <1>13, <1>14, <1>15 DEF WorkflowInv

\* A start puts its handle in place of the one its case had.
LEMMA InstallKeeps ==
  ASSUME WorkflowInv, NEW w \in WorkflowCallers, Install(w)
  PROVE  WorkflowInv'
  <1> DEFINE handle == [token |-> calling[w].token, expires |-> calling[w].expires]
             call == [calling[w] EXCEPT !.at = "marked"]
             c == calling[w].case
  <1>1. calling[w].at = "checked" /\ calling[w].phase = "start" /\ calling[w] \in Call
    BY CallsTyped DEF Install, NoCall
  <1>2. /\ calling[w] # NoCall /\ call # NoCall /\ call \in Call /\ call.at = "marked"
        /\ call.phase = "start" /\ call.case = c /\ call.token = calling[w].token
        /\ call.expires = calling[w].expires /\ call.when = calling[w].when
        /\ call.from = calling[w].from
    BY <1>1 DEF Call, NoCall
  <1>3. /\ handle \in Handle /\ handle.token = call.token /\ handle.expires = call.expires
        /\ handle # NoHandle /\ c \in WorkflowCases
    BY <1>1, <1>2 DEF Call, Handle, NoHandle, Tokens
  <1>4. /\ handles' = [handles EXCEPT ![c] = handle] /\ calling' = [calling EXCEPT ![w] = call]
        /\ UNCHANGED <<consumed, recorded, issued, now>>
    BY DEF Install
  <1> HIDE DEF handle, call, c
  <1>5. /\ handles'[c] = handle /\ \A d \in WorkflowCases \ {c} : handles'[d] = handles[d]
        /\ calling'[w] = call /\ \A v \in WorkflowCallers \ {w} : calling'[v] = calling[v]
    BY <1>3, <1>4 DEF WorkflowInv, WorkflowTypeOK
  <1>6. WorkflowTypeOK'
    BY <1>2, <1>3, <1>4 DEF WorkflowInv, WorkflowTypeOK
  <1>7. Ends' = Ends /\ Starts' = Starts /\ DOMAIN recorded' = DOMAIN recorded
    BY <1>4 DEF Ends, Starts
  <1>8. /\ Marking({"start"})' = Marking({"start"}) \cup {w}
        /\ Marking(EndPhases)' = Marking(EndPhases) /\ w \notin Marking(EndPhases)
    <2>1. \A v \in WorkflowCallers : v \in Marking({"start"})' <=> v \in Marking({"start"}) \/ v = w
      BY <1>2, <1>5 DEF Marking
    <2>2. \A v \in WorkflowCallers : v \in Marking(EndPhases)' <=> v \in Marking(EndPhases)
      BY <1>1, <1>2, <1>5 DEF Marking, EndPhases
    <2> QED BY <2>1, <2>2, <1>1 DEF Marking, EndPhases
  <1>9. \A t, d, x : Claimed(t, d, x)' => Claimed(t, d, x)
    <2>1. Claimed(call.token, c, call.expires)
      BY <1>2 DEF Claimed, c
    <2> QED BY <2>1, <1>2, <1>3, <1>4, <1>5, <1>7 DEF Claimed
  <1>10. OneClaim' /\ EndsInTime'
    BY <1>4, <1>7, <1>9 DEF WorkflowInv, OneClaim, EndsInTime
  <1>11. CallsInTime'
    BY <1>1, <1>2, <1>4, <1>5 DEF WorkflowInv, CallsInTime
  <1>12. EndsMeet'
    <2>1. \A i, j : Overlap(i, j)' <=> Overlap(i, j)
      BY <1>4 DEF Overlap
    <2>2. \A v \in WorkflowCallers, i \in Ends :
            calling'[v] # NoCall /\ calling'[v].phase \in EndPhases
              /\ calling'[v].token = recorded[i].token => calling'[v].from < i
      BY <1>2, <1>5 DEF WorkflowInv, EndsMeet, EndPhases
    <2>3. \A v \in Marking(EndPhases) : calling'[v] = calling[v]
      BY <1>5, <1>8 DEF Marking
    <2> QED BY <2>1, <2>2, <2>3, <1>4, <1>7, <1>8 DEF WorkflowInv, EndsMeet
  <1>13. StartsAccounted'
    <2>1. \A i \in Starts : Overtaken(i) => Overtaken(i)'
      <3>1. \A v \in Marking({"start"}) : calling'[v].case = calling[v].case
                                           /\ calling'[v].from = calling[v].from
        BY <1>2, <1>5 DEF Marking, c
      <3> QED BY <3>1, <1>4, <1>7, <1>8 DEF Overtaken, Overlap
    <2>2. ASSUME NEW i \in Starts PROVE HeldOrLost(i)'
      <3>1. CASE recorded[i].case # c
        <4>1. recorded[i].case \in WorkflowCases
          BY EventsTyped DEF Starts, WorkflowEvent
        <4> QED BY <2>1, <3>1, <4>1, <1>4, <1>5 DEF WorkflowInv, StartsAccounted, HeldOrLost
      <3>2. CASE recorded[i].case = c /\ i <= calling[w].from
        BY <2>1, <3>2, <1>1, <1>4 DEF WorkflowInv, StartsAccounted, HeldOrLost, c
      <3>3. CASE recorded[i].case = c /\ ~(i <= calling[w].from)
        <4>1. calling[w].from < i
          BY <3>3, <1>1 DEF Starts, Call, WorkflowInv, WorkflowTypeOK
        <4> QED BY <4>1, <3>3, <1>2, <1>4, <1>5, <1>8 DEF HeldOrLost, Overtaken
      <3> QED BY <3>1, <3>2, <3>3
    <2>3. \A v \in WorkflowCallers, i \in Starts :
            calling'[v].at = "checked" /\ calling'[v].phase = "start"
              /\ calling'[v].case = recorded[i].case /\ i <= calling'[v].from
              => recorded[i].token \in consumed \/ Overtaken(i)'
      BY <2>1, <1>2, <1>5 DEF WorkflowInv, StartsAccounted
    <2>4. ASSUME NEW v \in Marking({"start"})'
          PROVE  \/ handles'[calling'[v].case].token = calling'[v].token
                 \/ calling'[v].token \in consumed
                 \/ Replaced(v)'
      <3>1. CASE v = w
        BY <3>1, <1>2, <1>3, <1>5
      <3>2. CASE v # w /\ calling[v].case = c
        BY <3>2, <2>4, <1>2, <1>5, <1>8 DEF Replaced, Marking
      <3>3. CASE v # w /\ calling[v].case # c
        <4>1. v \in Marking({"start"}) /\ calling'[v] = calling[v] /\ calling[v].case \in WorkflowCases
          BY <3>3, <2>4, <1>5, <1>8, CallsTyped DEF Marking, Call, NoCall
        <4>2. handles'[calling[v].case] = handles[calling[v].case]
          BY <3>3, <4>1, <1>5
        <4>3. Replaced(v) => Replaced(v)'
          <5>1. ASSUME NEW u \in Marking({"start"}), u # v, calling[u].case = calling[v].case
                PROVE  u \in Marking({"start"})' /\ calling'[u].case = calling'[v].case
            BY <5>1, <3>3, <4>1, <1>5, <1>8 DEF Marking, c
          <5>2. ASSUME NEW j \in Starts, recorded[j].case = calling[v].case, calling[v].from < j
                PROVE  /\ j \in Starts' /\ recorded'[j].case = calling'[v].case
                       /\ calling'[v].from < j
            BY <5>2, <4>1, <1>4, <1>7
          <5> QED BY <5>1, <5>2 DEF Replaced
        <4> QED BY <4>1, <4>2, <4>3 DEF WorkflowInv, StartsAccounted
      <3> QED BY <3>1, <3>2, <3>3
    <2> QED BY <2>2, <2>3, <2>4, <1>4, <1>7 DEF StartsAccounted
  <1> QED BY <1>6, <1>10, <1>11, <1>12, <1>13 DEF WorkflowInv

\* An end uses its token up.
LEMMA UseUpKeeps ==
  ASSUME WorkflowInv, NEW w \in WorkflowCallers, UseUp(w)
  PROVE  WorkflowInv'
  <1> DEFINE call == [calling[w] EXCEPT !.at = "marked"]
  <1>1. calling[w].at = "checked" /\ calling[w].phase \in EndPhases /\ calling[w] \in Call
    BY CallsTyped DEF UseUp, NoCall
  <1>2. /\ calling[w] # NoCall /\ call # NoCall /\ call \in Call /\ call.at = "marked"
        /\ call.phase = calling[w].phase /\ call.case = calling[w].case
        /\ call.token = calling[w].token /\ call.expires = calling[w].expires
        /\ call.when = calling[w].when /\ call.from = calling[w].from /\ call.token \in Tokens
    BY <1>1 DEF Call, NoCall
  <1>3. /\ consumed' = consumed \cup {call.token} /\ calling' = [calling EXCEPT ![w] = call]
        /\ UNCHANGED <<handles, recorded, issued, now>>
    BY DEF UseUp
  <1> HIDE DEF call
  <1>4. calling'[w] = call /\ \A v \in WorkflowCallers \ {w} : calling'[v] = calling[v]
    BY <1>3 DEF WorkflowInv, WorkflowTypeOK
  <1>5. WorkflowTypeOK'
    BY <1>2, <1>3 DEF WorkflowInv, WorkflowTypeOK
  <1>6. Ends' = Ends /\ Starts' = Starts /\ DOMAIN recorded' = DOMAIN recorded
    BY <1>3 DEF Ends, Starts
  <1>7. /\ Marking(EndPhases)' = Marking(EndPhases) \cup {w} /\ w \notin Marking(EndPhases)
        /\ Marking({"start"})' = Marking({"start"}) /\ w \notin Marking({"start"})
    <2>1. \A v \in WorkflowCallers :
            v \in Marking(EndPhases)' <=> v \in Marking(EndPhases) \/ v = w
      BY <1>1, <1>2, <1>4 DEF Marking
    <2>2. \A v \in WorkflowCallers : v \in Marking({"start"})' <=> v \in Marking({"start"})
      BY <1>1, <1>2, <1>4 DEF Marking, EndPhases
    <2> QED BY <2>1, <2>2, <1>1 DEF Marking, EndPhases
  <1>8. \A t, d, x : Claimed(t, d, x)' => Claimed(t, d, x)
    BY <1>2, <1>3, <1>4, <1>6 DEF Claimed
  <1>9. OneClaim' /\ EndsInTime'
    BY <1>3, <1>6, <1>8 DEF WorkflowInv, OneClaim, EndsInTime
  <1>10. CallsInTime'
    BY <1>2, <1>3, <1>4 DEF WorkflowInv, CallsInTime
  <1>11. EndsMeet'
    <2>1. \A i, j : Overlap(i, j)' <=> Overlap(i, j)
      BY <1>3 DEF Overlap
    <2>2. \A v \in WorkflowCallers, i \in Ends :
            calling'[v] # NoCall /\ calling'[v].phase \in EndPhases
              /\ calling'[v].token = recorded[i].token => calling'[v].from < i
      BY <1>2, <1>4 DEF WorkflowInv, EndsMeet
    <2>3. \A v \in Marking(EndPhases) : calling'[v] = calling[v]
      BY <1>4, <1>7 DEF Marking
    <2>4. {calling'[v].token : v \in Marking(EndPhases)'} =
            {calling[v].token : v \in Marking(EndPhases)} \cup {call.token}
      BY <2>3, <1>4, <1>7
    <2> QED BY <2>1, <2>2, <2>4, <1>3, <1>6 DEF WorkflowInv, EndsMeet
  <1>12. StartsAccounted'
    <2>1. \A v \in Marking({"start"}) : v # w /\ calling'[v] = calling[v]
      BY <1>4, <1>7 DEF Marking
    <2>2. \A i \in Starts : Overtaken(i)' <=> Overtaken(i)
      BY <2>1, <1>3, <1>6, <1>7 DEF Overtaken, Overlap
    <2>3. \A i \in Starts : HeldOrLost(i)'
      BY <2>2, <1>3 DEF WorkflowInv, StartsAccounted, HeldOrLost
    <2>4. \A v \in WorkflowCallers, i \in Starts :
            calling'[v].at = "checked" /\ calling'[v].phase = "start"
              /\ calling'[v].case = recorded[i].case /\ i <= calling'[v].from
              => recorded[i].token \in consumed' \/ Overtaken(i)'
      BY <2>2, <1>2, <1>3, <1>4 DEF WorkflowInv, StartsAccounted
    <2>5. \A v \in Marking({"start"}) : Replaced(v)' <=> Replaced(v)
      BY <2>1, <1>3, <1>6, <1>7 DEF Replaced
    <2> QED BY <2>1, <2>3, <2>4, <2>5, <1>3, <1>6, <1>7 DEF WorkflowInv, StartsAccounted
  <1> QED BY <1>5, <1>9, <1>10, <1>11, <1>12 DEF WorkflowInv

\* A call records its event and is done.
LEMMA RecordKeeps ==
  ASSUME WorkflowInv, NEW w \in WorkflowCallers, NEW at \in 0..MaxNow, RecordEvent(w, at)
  PROVE  WorkflowInv'
  <1>1. PICK e : e = [phase |-> calling[w].phase, token |-> calling[w].token,
                       case |-> calling[w].case, at |-> at, when |-> calling[w].when,
                       from |-> calling[w].from]
    OBVIOUS
  <1>2. PICK n : n = Len(recorded) + 1
    OBVIOUS
  <1>3. calling[w].at = "marked" /\ calling[w] # NoCall /\ calling[w] \in Call
    BY CallsTyped DEF RecordEvent, NoCall
  <1>4. /\ e \in WorkflowEvent /\ e.phase = calling[w].phase /\ e.token = calling[w].token
        /\ e.case = calling[w].case /\ e.at = at /\ e.when = calling[w].when
        /\ e.from = calling[w].from /\ e.from \in Nat /\ e.when \in Nat /\ e.token \in Tokens
    BY <1>3, <1>1 DEF Call, WorkflowEvent
  <1>5. /\ recorded' = Append(recorded, e) /\ calling' = [calling EXCEPT ![w] = NoCall]
        /\ UNCHANGED <<handles, consumed, issued, now>>
        /\ at = e.when \/ (at = now /\ e.phase \in {"success", "failure"})
    BY <1>4, <1>1 DEF RecordEvent
  <1>6. /\ n \in Nat /\ n \notin DOMAIN recorded /\ Len(recorded') = n
        /\ DOMAIN recorded' = DOMAIN recorded \cup {n} /\ recorded'[n] = e
        /\ \A i \in DOMAIN recorded : i \in Nat /\ i < n /\ recorded'[i] = recorded[i]
    BY <1>5, <1>2, RecordedGrows
  <1>7. Len(recorded) \in Nat /\ Len(recorded) < n /\ e.from <= Len(recorded) /\ e.from < n
    <2>1. Len(recorded) \in Nat /\ Len(recorded) < n
      BY <1>2 DEF WorkflowInv, WorkflowTypeOK
    <2>2. e.from <= Len(recorded)
      BY <1>3, <1>4 DEF WorkflowInv, CallsInTime
    <2> QED BY <1>4, <1>6, <2>1, <2>2
  <1>8. /\ calling'[w] = NoCall /\ \A v \in WorkflowCallers \ {w} : calling'[v] = calling[v]
        /\ NoCall.at = "idle"
    BY <1>5 DEF WorkflowInv, WorkflowTypeOK, NoCall
  <1>9. WorkflowTypeOK'
    BY <1>4, <1>5 DEF WorkflowInv, WorkflowTypeOK
  <1>10. /\ Ends' = IF e.phase \in EndPhases THEN Ends \cup {n} ELSE Ends
         /\ Starts' = IF e.phase \in EndPhases THEN Starts ELSE Starts \cup {n}
         /\ Ends \subseteq DOMAIN recorded /\ Starts \subseteq DOMAIN recorded
    <2>1. \A i : i \in Ends' <=> i \in Ends \/ (i = n /\ e.phase \in EndPhases)
      BY <1>6 DEF Ends
    <2>2. \A i : i \in Starts' <=> i \in Starts \/ (i = n /\ e.phase \notin EndPhases)
      BY <1>6, <2>1 DEF Starts, Ends
    <2> QED BY <2>1, <2>2 DEF Ends, Starts
  <1>11. \A phases : Marking(phases)' = Marking(phases) \ {w}
    BY <1>8 DEF Marking
  <1>12. e.phase \notin EndPhases => e.phase = "start"
    BY <1>4 DEF WorkflowEvent
  <1>13. \A t, d, x : Claimed(t, d, x)' => Claimed(t, d, x)
    <2>1. Claimed(e.token, e.case, calling[w].expires)
      BY <1>3, <1>4 DEF Claimed
    <2>2. e.phase \notin EndPhases => e.at + Timeout = calling[w].expires
      BY <1>3, <1>4, <1>5, <1>12 DEF WorkflowInv, CallsInTime
    <2>3. ASSUME NEW i \in Starts'
          PROVE  \/ i \in Starts /\ recorded'[i] = recorded[i]
                 \/ recorded'[i] = e /\ e.phase \notin EndPhases
      BY <1>6, <1>10
    <2> SUFFICES ASSUME NEW t, NEW d, NEW x, Claimed(t, d, x)' PROVE Claimed(t, d, x)
      OBVIOUS
    <2>4. CASE /\ d \in WorkflowCases /\ handles'[d] # NoHandle
               /\ handles'[d].token = t /\ handles'[d].expires = x
      BY <2>4, <1>5 DEF Claimed
    <2>5. CASE \E v \in WorkflowCallers :
                 /\ calling'[v] # NoCall
                 /\ calling'[v].token = t /\ calling'[v].case = d /\ calling'[v].expires = x
      BY <2>5, <1>8 DEF Claimed
    <2>6. ASSUME NEW i \in Starts', recorded'[i].token = t, recorded'[i].case = d,
                 recorded'[i].at + Timeout = x
          PROVE  Claimed(t, d, x)
      <3>1. CASE i \in Starts /\ recorded'[i] = recorded[i]
        BY <2>6, <3>1 DEF Claimed
      <3>2. CASE recorded'[i] = e /\ e.phase \notin EndPhases
        BY <2>1, <2>2, <2>6, <3>2
      <3> QED BY <2>3, <3>1, <3>2
    <2> QED BY <2>4, <2>5, <2>6 DEF Claimed
  <1>14. OneClaim'
    <2>1. e.token \in 1..issued
      BY <1>3, <1>4 DEF WorkflowInv, OneClaim, Claimed
    <2>2. \A i \in Ends' : recorded'[i].token \in 1..issued
      BY <2>1, <1>6, <1>10 DEF WorkflowInv, OneClaim
    <2>3. \A t, c, x, d, y : Claimed(t, c, x)' /\ Claimed(t, d, y)' => c = d /\ x = y
      BY <1>13 DEF WorkflowInv, OneClaim
    <2>4. \A t, c, x : Claimed(t, c, x)' => t \in 1..issued
      BY <1>13 DEF WorkflowInv, OneClaim
    <2>5. issued' = issued
      BY <1>5
    <2> QED BY <2>2, <2>3, <2>4, <2>5 DEF OneClaim
  <1>15. CallsInTime'
    BY <1>5, <1>6, <1>7, <1>8 DEF WorkflowInv, CallsInTime, WorkflowTypeOK, Call
  <1>16. EndsInTime'
    <2>1. ASSUME e.phase \in EndPhases, NEW c, NEW x, Claimed(e.token, c, x)
          PROVE  e.case = c /\ IF e.phase = "timeout" THEN e.at >= x ELSE e.when < x
      <3>1. Claimed(e.token, e.case, calling[w].expires)
        BY <1>3, <1>4 DEF Claimed
      <3>2. c = e.case /\ x = calling[w].expires
        BY <2>1, <3>1 DEF WorkflowInv, OneClaim
      <3> QED BY <2>1, <3>2, <1>3, <1>4, <1>5 DEF WorkflowInv, CallsInTime, EndPhases
    <2>2. \A i \in Ends : recorded'[i] = recorded[i]
      BY <1>6, <1>10
    <2>3. ASSUME NEW i \in Ends', NEW c, NEW x, Claimed(recorded[i].token, c, x)'
          PROVE  /\ recorded'[i].case = c
                 /\ IF recorded'[i].phase = "timeout"
                    THEN recorded'[i].at >= x ELSE recorded'[i].when < x
      <3>1. Claimed(recorded'[i].token, c, x)
        <4>1. PICK t : t = recorded'[i].token
          OBVIOUS
        <4>2. Claimed(t, c, x)'
          BY <2>3, <4>1
        <4> QED BY <4>1, <4>2, <1>13
      <3>2. CASE i \in Ends
        BY <2>2, <3>1, <3>2 DEF WorkflowInv, EndsInTime
      <3>3. CASE i \notin Ends
        <4>1. recorded'[i] = e /\ e.phase \in EndPhases
          BY <3>3, <1>6, <1>10
        <4> QED BY <2>1, <3>1, <4>1
      <3> QED BY <3>2, <3>3
    <2> QED BY <2>3 DEF EndsInTime
  <1>17. EndsMeet'
    <2>1. \A i \in DOMAIN recorded' : recorded'[i].from < i
      BY <1>6, <1>7 DEF WorkflowInv, EndsMeet
    <2>2. ASSUME NEW i \in Ends, recorded[i].token = e.token, e.phase \in EndPhases
          PROVE  Overlap(i, n)' /\ Overlap(n, i)'
      <3>1. e.from < i
        BY <2>2, <1>3, <1>4 DEF WorkflowInv, EndsMeet
      <3>2. recorded[i].from < n
        <4>1. recorded[i].from < i /\ i < n /\ recorded[i].from \in Nat /\ i \in Nat
          BY <1>6, <1>10, EventsTyped DEF WorkflowInv, EndsMeet, WorkflowEvent
        <4> QED BY <4>1, <1>6
      <3> QED BY <3>1, <3>2, <1>6, <1>10 DEF Overlap
    <2>3. \A i, j \in Ends : Overlap(i, j) => Overlap(i, j)'
      BY <1>6, <1>10 DEF Overlap
    <2>4. \A i, j \in Ends' : recorded'[i].token = recorded'[j].token /\ i # j => Overlap(i, j)'
      BY <2>2, <2>3, <1>6, <1>10 DEF WorkflowInv, EndsMeet
    <2>5. ASSUME NEW v \in WorkflowCallers, NEW i \in Ends', calling'[v] # NoCall,
                 calling'[v].phase \in EndPhases, calling'[v].token = recorded'[i].token
          PROVE  calling'[v].from < i
      <3>1. v # w /\ calling'[v] = calling[v]
        BY <2>5, <1>8
      <3>2. CASE i \in Ends
        BY <2>5, <3>1, <3>2, <1>6, <1>10 DEF WorkflowInv, EndsMeet
      <3>3. CASE i = n
        <4>1. calling[v].from <= Len(recorded) /\ calling[v].from \in Nat
          BY <2>5, <3>1, CallsTyped DEF WorkflowInv, CallsInTime, Call
        <4> QED BY <3>1, <3>3, <4>1, <1>6, <1>7
      <3> QED BY <3>2, <3>3, <1>10
    <2>6. consumed = {recorded'[i].token : i \in Ends'}
                       \cup {calling'[v].token : v \in Marking(EndPhases)'}
      <3>1. \A v \in Marking(EndPhases)' : v \in Marking(EndPhases) /\ calling'[v] = calling[v]
        BY <1>8, <1>11 DEF Marking
      <3>2. e.phase \in EndPhases => w \in Marking(EndPhases)
        BY <1>3, <1>4 DEF Marking
      <3>3. w \in Marking(EndPhases) => e.phase \in EndPhases
        BY <1>4 DEF Marking
      <3>4. \A i \in Ends : recorded'[i] = recorded[i]
        BY <1>6, <1>10
      <3>5. \A t : t \in consumed <=> \/ \E i \in Ends : recorded[i].token = t
                                     \/ \E v \in Marking(EndPhases) : calling[v].token = t
        BY DEF WorkflowInv, EndsMeet
      <3>6. ASSUME NEW t \in consumed
            PROVE  \/ \E i \in Ends' : recorded'[i].token = t
                   \/ \E v \in Marking(EndPhases)' : calling'[v].token = t
        <4>1. CASE \E i \in Ends : recorded[i].token = t
          BY <4>1, <3>4, <1>10
        <4>2. CASE \E v \in Marking(EndPhases) : calling[v].token = t
          <5>1. PICK v \in Marking(EndPhases) : calling[v].token = t
            BY <4>2
          <5>2. CASE v = w
            BY <5>1, <5>2, <3>3, <1>4, <1>6, <1>10
          <5>3. CASE v # w
            BY <5>1, <5>3, <3>1, <1>11
          <5> QED BY <5>2, <5>3
        <4> QED BY <4>1, <4>2, <3>5
      <3>7. ASSUME NEW i \in Ends' PROVE recorded'[i].token \in consumed
        BY <3>2, <3>4, <3>5, <1>4, <1>6, <1>10
      <3>8. ASSUME NEW v \in Marking(EndPhases)' PROVE calling'[v].token \in consumed
        BY <3>1, <3>5
      <3> QED BY <3>6, <3>7, <3>8
    <2> QED BY <2>1, <2>4, <2>5, <2>6, <1>5 DEF EndsMeet
  <1>18. StartsAccounted'
    <2>1. \A i \in Starts : i \in Starts' /\ i < n /\ recorded'[i] = recorded[i] /\ i \in Nat
            /\ recorded[i].from < n
      <3>1. \A i \in Starts : i \in Starts' /\ i < n /\ recorded'[i] = recorded[i] /\ i \in Nat
        BY <1>6, <1>10
      <3>2. \A i \in Starts : recorded[i].from < i /\ recorded[i].from \in Nat
        BY <1>10, EventsTyped DEF WorkflowInv, EndsMeet, WorkflowEvent
      <3>3. \A a, b \in Nat : a < b /\ b < n => a < n
        BY <1>6
      <3> QED BY <3>1, <3>2, <3>3
    <2>2. \A v \in Marking({"start"}) : v # w => v \in Marking({"start"})' /\ calling'[v] = calling[v]
      BY <1>8, <1>11 DEF Marking
    <2>3. ASSUME NEW i \in Starts, Overtaken(i) PROVE Overtaken(i)'
      <3>1. CASE \E j \in Starts : recorded[j].case = recorded[i].case /\ Overlap(i, j)
        BY <2>1, <3>1 DEF Overtaken, Overlap
      <3>2. CASE \E v \in Marking({"start"}) :
                   calling[v].case = recorded[i].case /\ calling[v].from < i
        <4>1. PICK v \in Marking({"start"}) :
                calling[v].case = recorded[i].case /\ calling[v].from < i
          BY <3>2
        <4>2. CASE v = w
          <5>1. n \in Starts' /\ recorded'[n].case = recorded'[i].case /\ Overlap(i, n)'
            BY <4>1, <4>2, <2>1, <1>4, <1>6, <1>10 DEF Marking, EndPhases, Overlap
          <5> QED BY <5>1 DEF Overtaken
        <4>3. CASE v # w
          BY <4>1, <4>3, <2>1, <2>2 DEF Overtaken
        <4> QED BY <4>2, <4>3
      <3> QED BY <2>3, <3>1, <3>2 DEF Overtaken
    <2>4. ASSUME e.phase \notin EndPhases PROVE HeldOrLost(n)'
      <3>1. w \in Marking({"start"}) /\ n \in Starts' /\ recorded'[n] = e
        BY <2>4, <1>3, <1>4, <1>6, <1>10, <1>12 DEF Marking
      <3>2. CASE handles[e.case].token = e.token \/ e.token \in consumed
        BY <3>1, <3>2, <1>5 DEF HeldOrLost
      <3>3. CASE \E j \in Starts : recorded[j].case = e.case /\ e.from < j
        <4>1. PICK j \in Starts : recorded[j].case = e.case /\ e.from < j
          BY <3>3
        <4>2. Overlap(n, j)' /\ j \in Starts' /\ recorded'[j].case = e.case
          BY <4>1, <3>1, <2>1, <1>6 DEF Overlap
        <4> QED BY <3>1, <4>2 DEF HeldOrLost, Overtaken
      <3>4. CASE \E v \in Marking({"start"}) : v # w /\ calling[v].case = e.case
        <4>1. PICK v \in Marking({"start"}) : v # w /\ calling[v].case = e.case
          BY <3>4
        <4>2. calling[v].from < n
          <5>1. v \in WorkflowCallers /\ calling[v] # NoCall
            BY DEF Marking, NoCall
          <5>2. calling[v].from <= Len(recorded) /\ calling[v].from \in Nat
            BY <5>1, CallsTyped DEF WorkflowInv, CallsInTime, Call
          <5> QED BY <5>2, <1>6, <1>7
        <4> QED BY <4>1, <4>2, <3>1, <2>2 DEF HeldOrLost, Overtaken
      <3>5. \/ handles[e.case].token = e.token \/ e.token \in consumed \/ Replaced(w)
        BY <3>1, <1>4 DEF WorkflowInv, StartsAccounted
      <3> QED BY <3>2, <3>3, <3>4, <3>5, <1>4 DEF Replaced
    <2>5. \A i \in Starts' : HeldOrLost(i)'
      <3>1. ASSUME NEW i \in Starts PROVE HeldOrLost(i)'
        BY <2>1, <2>3, <1>5 DEF WorkflowInv, StartsAccounted, HeldOrLost
      <3> QED BY <2>4, <3>1, <1>10
    <2>6. ASSUME NEW v \in WorkflowCallers, NEW i \in Starts', calling'[v].at = "checked",
                 calling'[v].phase = "start", calling'[v].case = recorded'[i].case,
                 i <= calling'[v].from
          PROVE  recorded'[i].token \in consumed \/ Overtaken(i)'
      <3>1. v # w /\ calling'[v] = calling[v] /\ calling[v] # NoCall
        BY <2>6, <1>8
      <3>2. calling[v].from <= Len(recorded) /\ calling[v].from \in Nat
        BY <3>1, CallsTyped DEF WorkflowInv, CallsInTime, Call
      <3>3. i \in Starts
        BY <2>6, <3>1, <3>2, <1>6, <1>7, <1>10
      <3> QED BY <2>1, <2>3, <2>6, <3>1, <3>3 DEF WorkflowInv, StartsAccounted
    <2>7. ASSUME NEW v \in Marking({"start"})'
          PROVE  \/ handles[calling'[v].case].token = calling'[v].token
                 \/ calling'[v].token \in consumed
                 \/ Replaced(v)'
      <3>1. v \in Marking({"start"}) /\ v # w /\ calling'[v] = calling[v]
        BY <2>2, <1>11
      <3>2. Replaced(v) => Replaced(v)'
        <4>1. ASSUME NEW j \in Starts, recorded[j].case = calling[v].case, calling[v].from < j
              PROVE  Replaced(v)'
          BY <4>1, <2>1, <3>1 DEF Replaced
        <4>2. ASSUME NEW u \in Marking({"start"}), u # v, calling[u].case = calling[v].case
              PROVE  Replaced(v)'
          <5>1. CASE u # w
            BY <4>2, <5>1, <2>2, <3>1 DEF Replaced
          <5>2. CASE u = w
            <6>1. n \in Starts' /\ recorded'[n].case = calling'[v].case
              BY <4>2, <5>2, <3>1, <1>4, <1>6, <1>10 DEF Marking, EndPhases
            <6>2. v \in WorkflowCallers /\ calling[v] # NoCall
              BY <3>1 DEF Marking, NoCall
            <6>3. calling[v].from <= Len(recorded) /\ calling[v].from \in Nat
              BY <6>2, CallsTyped DEF WorkflowInv, CallsInTime, Call
            <6>4. calling'[v].from < n
              BY <6>3, <3>1, <1>6, <1>7
            <6> QED BY <6>1, <6>4 DEF Replaced
          <5> QED BY <5>1, <5>2
        <4> QED BY <4>1, <4>2 DEF Replaced
      <3> QED BY <3>1, <3>2 DEF WorkflowInv, StartsAccounted
    <2> QED BY <2>5, <2>6, <2>7, <1>5 DEF StartsAccounted
  <1> QED BY <1>9, <1>14, <1>15, <1>16, <1>17, <1>18 DEF WorkflowInv

\* CallbacksEndOnce: a call that checks after an end of its token was recorded
\* is refused, so two ends of a token overlap; an end is of the case the token
\* was issued for, an answer checked before its time ran out and a timeout
\* recorded after; and no case loses a token that nothing used up, except to
\* a start that overlapped its own (cloud_workflow.py:84-98, :115-117,
\* :143-150, :160-167, :192).
THEOREM CallbacksEndOnce == WorkflowSpec => []OutcomesInOrder
  <1>1. WorkflowInit => WorkflowInv
    <2> SUFFICES ASSUME WorkflowInit PROVE WorkflowInv
      OBVIOUS
    <2>1. /\ \A w \in WorkflowCallers : calling[w] = NoCall /\ calling[w].at = "idle"
          /\ \A c \in WorkflowCases : handles[c] = NoHandle
          /\ recorded = << >> /\ consumed = {} /\ issued = 0 /\ now = 0
      BY DEF WorkflowInit, NoCall
    <2>2. DOMAIN recorded = {} /\ Ends = {} /\ Starts = {} /\ Len(recorded) = 0
      BY <2>1 DEF Ends, Starts
    <2>3. \A phases : Marking(phases) = {}
      BY <2>1 DEF Marking
    <2>4. WorkflowTypeOK
      BY <2>1, WorkflowBounds DEF WorkflowInit, WorkflowTypeOK
    <2>5. \A t, c, x : ~Claimed(t, c, x)
      BY <2>1, <2>2 DEF Claimed
    <2>6. OneClaim /\ CallsInTime /\ EndsInTime
      BY <2>1, <2>2, <2>5 DEF OneClaim, CallsInTime, EndsInTime
    <2>7. EndsMeet /\ StartsAccounted
      BY <2>1, <2>2, <2>3 DEF EndsMeet, StartsAccounted
    <2> QED BY <2>4, <2>6, <2>7 DEF WorkflowInv
  <1>2. WorkflowInv /\ [WorkflowNext]_workflowVars => WorkflowInv'
    <2> SUFFICES ASSUME WorkflowInv, [WorkflowNext]_workflowVars
                 PROVE  WorkflowInv'
      OBVIOUS
    <2>1. ASSUME NEW w \in WorkflowCallers, NEW c \in WorkflowCases, StartFresh(w, c)
          PROVE  WorkflowInv'
      <3> DEFINE handle == [token |-> issued + 1, expires |-> now + Timeout]
      <3>1. /\ handle \in Handle /\ handle.token = issued + 1 /\ handle.expires = now + Timeout
            /\ issued + 1 <= MaxTokens
        BY <2>1, WorkflowBounds DEF StartFresh, Handle, Tokens, WorkflowInv, WorkflowTypeOK
      <3>2. /\ ~Open(c) /\ issued' = issued + 1 /\ Enter(w, "start", c, handle)
            /\ UNCHANGED <<handles, consumed, recorded, now>>
        BY <2>1 DEF StartFresh
      <3> HIDE DEF handle
      <3> QED BY <3>1, <3>2, EnterKeeps
    <2>2. ASSUME NEW w \in WorkflowCallers, NEW c \in WorkflowCases,
                 NEW phase \in EndPhases, Open(c), Enter(w, phase, c, handles[c]),
                 phase = "timeout" <=> now >= handles[c].expires,
                 UNCHANGED <<handles, consumed, recorded, issued, now>>
          PROVE  WorkflowInv'
      <3>1. PICK handle \in Handle : handle = handles[c]
        BY <2>2 DEF Open, WorkflowInv, WorkflowTypeOK
      <3>2. phase # "start" /\ phase \in EndPhases \cup {"start"}
        BY DEF EndPhases
      <3> QED BY <2>2, <3>1, <3>2, EnterKeeps
    <2>3. ASSUME NEW w \in WorkflowCallers, NEW c \in WorkflowCases,
                 NEW phase \in {"success", "failure"}, Callback(w, c, phase)
          PROVE  WorkflowInv'
      <3>1. ~(now >= handles[c].expires) /\ phase # "timeout" /\ phase \in EndPhases
        BY <2>3 DEF Callback, Open, EndPhases, WorkflowInv, WorkflowTypeOK, Handle
      <3> QED BY <2>2, <2>3, <3>1 DEF Callback
    <2>4. ASSUME NEW w \in WorkflowCallers, NEW c \in WorkflowCases, Expire(w, c)
          PROVE  WorkflowInv'
      BY <2>2, <2>4 DEF Expire, EndPhases
    <2>5. CASE WorkflowTick
      <3>1. /\ now' = now + 1 /\ now <= now' /\ now' \in 0..MaxNow /\ now \in Nat
            /\ UNCHANGED <<handles, consumed, recorded, issued, calling>>
        BY <2>5, WorkflowBounds DEF WorkflowTick, WorkflowInv, WorkflowTypeOK
      <3>2. WorkflowTypeOK' /\ CallsInTime'
        <4>1. WorkflowTypeOK'
          BY <3>1 DEF WorkflowInv, WorkflowTypeOK
        <4>2. \A w \in WorkflowCallers : calling[w] # NoCall => calling[w].when \in Nat
          BY CallsTyped DEF Call
        <4> QED BY <3>1, <4>1, <4>2 DEF WorkflowInv, CallsInTime
      <3>3. /\ Ends' = Ends /\ Starts' = Starts
            /\ \A phases : Marking(phases)' = Marking(phases)
            /\ \A i, j : Overlap(i, j)' <=> Overlap(i, j)
        BY <3>1 DEF Ends, Starts, Marking, Overlap
      <3>4. \A t, c, x : Claimed(t, c, x)' <=> Claimed(t, c, x)
        BY <3>1, <3>3 DEF Claimed
      <3>5. OneClaim' /\ EndsInTime' /\ EndsMeet'
        BY <3>1, <3>3, <3>4 DEF WorkflowInv, OneClaim, EndsInTime, EndsMeet
      <3>6. StartsAccounted'
        BY <3>1, <3>3 DEF WorkflowInv, StartsAccounted, HeldOrLost, Replaced, Overtaken
      <3> QED BY <3>2, <3>5, <3>6 DEF WorkflowInv
    <2>6. CASE UNCHANGED workflowVars
      <3>1. UNCHANGED <<handles, consumed, recorded, issued, now, calling>>
        BY <2>6 DEF workflowVars
      <3>2. /\ Ends' = Ends /\ Starts' = Starts
            /\ \A phases : Marking(phases)' = Marking(phases)
            /\ \A i, j : Overlap(i, j)' <=> Overlap(i, j)
        BY <3>1 DEF Ends, Starts, Marking, Overlap
      <3>3. \A t, c, x : Claimed(t, c, x)' <=> Claimed(t, c, x)
        BY <3>1, <3>2 DEF Claimed
      <3>4. WorkflowTypeOK' /\ CallsInTime' /\ OneClaim' /\ EndsInTime' /\ EndsMeet'
        BY <3>1, <3>2, <3>3 DEF WorkflowInv, WorkflowTypeOK, CallsInTime, OneClaim, EndsInTime,
           EndsMeet
      <3>5. StartsAccounted'
        BY <3>1, <3>2 DEF WorkflowInv, StartsAccounted, HeldOrLost, Replaced, Overtaken
      <3> QED BY <3>4, <3>5 DEF WorkflowInv
    <2> QED BY <2>1, <2>3, <2>4, <2>5, <2>6, InstallKeeps, UseUpKeeps, RecordKeeps DEF WorkflowNext
  <1>3. WorkflowInv => OutcomesInOrder
    <2> SUFFICES ASSUME WorkflowInv PROVE OutcomesInOrder
      OBVIOUS
    <2>1. ASSUME NEW i \in Starts, NEW j \in Ends, recorded[i].token = recorded[j].token
          PROVE  /\ recorded[i].case = recorded[j].case
                 /\ IF recorded[j].phase = "timeout"
                    THEN recorded[j].at >= recorded[i].at + Timeout
                    ELSE recorded[j].when < recorded[i].at + Timeout
      <3>1. Claimed(recorded[j].token, recorded[i].case, recorded[i].at + Timeout)
        BY <2>1 DEF Claimed
      <3> QED BY <3>1 DEF WorkflowInv, EndsInTime
    <2> QED BY <2>1 DEF WorkflowInv, EndsMeet, StartsAccounted, HeldOrLost, OutcomesInOrder
  <1> QED BY <1>1, <1>2, <1>3, PTL DEF WorkflowSpec

-----------------------------------------------------------------------------
(* Signing keys.  A key that the copy lacks was published after it; what a *)
(* thread relies on is no younger than the copy, and was fresh enough when *)
(* it chose to; one thread at a time holds the lock to fetch, since the    *)
(* last copy; and what was answered stays so.                              *)

ThreadState ==
  [at : {"idle", "missed", "fetching", "looked"}, token : Bearers \cup {Nobody},
   decided : Moments, copy : Moments]

KeysTypeOK ==
  /\ published \in [Keys -> Moments] /\ cached \subseteq Keys
  /\ fetchedAt \in Moments /\ time \in Times
  /\ thread \in [Threads -> ThreadState]

CopyIsOlder ==
  /\ fetchedAt <= time
  /\ \A k \in Keys : published[k] <= time
  /\ \A k \in Keys \ cached : published[k] # Never => published[k] >= fetchedAt

ThreadsRely ==
  \A t \in Threads :
    /\ thread[t].at # "idle" => Content[thread[t].token].kid \in Keys
    /\ thread[t].at = "looked" =>
         thread[t].copy <= fetchedAt /\ thread[t].decided - thread[t].copy < Refresh
    /\ thread[t].at = "fetching" =>
         fetchedAt <= thread[t].decided /\ thread[t].decided <= time

LockHeld ==
  \A t, u \in Threads : thread[t].at = "fetching" /\ thread[u].at = "fetching" => t = u

AnswerStands ==
  answered.outcome = "unknown key" =>
    /\ Content[answered.token].kid \in Keys
    /\ answered.copy \in Moments /\ answered.copy <= time
    /\ answered.decided - answered.copy < Refresh
    /\ published[Content[answered.token].kid] # Never =>
         published[Content[answered.token].kid] >= answered.copy

KeysInv == KeysTypeOK /\ CopyIsOlder /\ ThreadsRely /\ LockHeld /\ AnswerStands

\* Only the second look tells of an unknown key.
LEMMA DecodeKnowsTheKey ==
  ASSUME NEW token, NEW key, NEW now0
  PROVE  Decode(token, key, now0).outcome # "unknown key"
  BY DEF Decode, PrincipalFrom, Refused

\* An answer that is no unknown key leaves the invariant, whatever fetch it ends.
LEMMA AnswerKeeps ==
  ASSUME KeysInv, NEW t \in Threads, NEW bearer, NEW verdict,
         verdict.outcome # "unknown key", Answer(t, bearer, verdict),
         UNCHANGED <<published, cached, fetchedAt, time>>
  PROVE  KeysInv'
  <1>1. thread' = [thread EXCEPT ![t] = AtRest] /\ AtRest \in ThreadState /\ AtRest.at = "idle"
    BY DEF Answer, AtRest, ThreadState, Moments
  <1>2. KeysTypeOK' /\ CopyIsOlder'
    BY <1>1 DEF KeysInv, KeysTypeOK, CopyIsOlder
  <1>3. ThreadsRely' /\ LockHeld'
    BY <1>1 DEF KeysInv, KeysTypeOK, ThreadsRely, LockHeld
  <1>4. AnswerStands'
    BY DEF Answer, AnswerStands
  <1> QED BY <1>2, <1>3, <1>4 DEF KeysInv

LEMMA LookKeeps ==
  ASSUME KeysInv, NEW t \in Threads, Look(t)
  PROVE  KeysInv'
  <1>1. PICK bearer \in Bearers :
          \/ Answer(t, bearer, Refused("invalid"))
          \/ Answer(t, bearer, Decode(Content[bearer], Content[bearer].kid, time))
          \/ /\ Readable(Content[bearer])
             /\ thread' = [thread EXCEPT ![t] = [AtRest EXCEPT !.at = "missed", !.token = bearer]]
             /\ UNCHANGED answered
    BY DEF Look
  <1>2. UNCHANGED <<published, cached, fetchedAt, time>>
    BY DEF Look
  <1>3. CASE Answer(t, bearer, Refused("invalid"))
    BY <1>2, <1>3, AnswerKeeps DEF Refused
  <1>4. CASE Answer(t, bearer, Decode(Content[bearer], Content[bearer].kid, time))
    BY <1>2, <1>4, AnswerKeeps, DecodeKnowsTheKey
  <1>5. CASE /\ Readable(Content[bearer])
             /\ thread' = [thread EXCEPT ![t] = [AtRest EXCEPT !.at = "missed", !.token = bearer]]
             /\ UNCHANGED answered
    <2> DEFINE missed == [AtRest EXCEPT !.at = "missed", !.token = bearer]
    <2>1. missed \in ThreadState /\ missed.at = "missed" /\ missed.token = bearer
      BY DEF AtRest, ThreadState, Moments
    <2>2. thread' = [thread EXCEPT ![t] = missed]
      BY <1>5
    <2> HIDE DEF missed
    <2>3. KeysTypeOK' /\ CopyIsOlder' /\ AnswerStands'
      BY <1>2, <1>5, <2>1, <2>2 DEF KeysInv, KeysTypeOK, CopyIsOlder, AnswerStands
    <2>4. ThreadsRely' /\ LockHeld'
      BY <1>2, <1>5, <2>1, <2>2 DEF KeysInv, KeysTypeOK, ThreadsRely, LockHeld, Readable
    <2> QED BY <2>3, <2>4 DEF KeysInv
  <1> QED BY <1>1, <1>3, <1>4, <1>5

\* A thread comes to rely on the copy it finds or on the one it fetches.
LEMMA ChoiceKeeps ==
  ASSUME KeysInv, NEW t \in Threads, KeepCopy(t) \/ BeginFetch(t) \/ EndFetch(t)
  PROVE  KeysInv'
  <1> USE IdentityBounds DEF Moments, Times, Never
  <1>1. CASE KeepCopy(t)
    <2> DEFINE chosen == [thread[t] EXCEPT !.at = "looked", !.decided = time, !.copy = fetchedAt]
    <2>1. thread' = [thread EXCEPT ![t] = chosen]
      BY <1>1 DEF KeepCopy, KeysInv, KeysTypeOK, ThreadState
    <2>2. /\ chosen \in ThreadState /\ chosen.at = "looked" /\ chosen.decided = time
          /\ chosen.copy = fetchedAt /\ chosen.token = thread[t].token
      BY DEF KeysInv, KeysTypeOK, ThreadState
    <2> HIDE DEF chosen
    <2>5. UNCHANGED <<published, cached, fetchedAt, time, answered>>
      BY <1>1 DEF KeepCopy
    <2>6. KeysTypeOK' /\ CopyIsOlder'
      BY <2>1, <2>2, <2>5 DEF KeysInv, KeysTypeOK, CopyIsOlder
    <2>7. AnswerStands'
      BY <2>5 DEF KeysInv, AnswerStands
    <2>3. KeysTypeOK' /\ CopyIsOlder' /\ AnswerStands'
      BY <2>6, <2>7
    <2>4. ThreadsRely' /\ LockHeld'
      BY <1>1, <2>1, <2>2 DEF KeepCopy, TooSoon, KeysInv, KeysTypeOK, ThreadsRely, LockHeld
    <2> QED BY <2>3, <2>4 DEF KeysInv
  <1>4. CASE BeginFetch(t)
    <2> DEFINE chosen == [thread[t] EXCEPT !.at = "fetching", !.decided = time]
    <2>1. thread' = [thread EXCEPT ![t] = chosen]
      BY <1>4 DEF BeginFetch, KeysInv, KeysTypeOK, ThreadState
    <2>2. /\ chosen \in ThreadState /\ chosen.at = "fetching" /\ chosen.decided = time
          /\ chosen.token = thread[t].token
      BY DEF KeysInv, KeysTypeOK, ThreadState
    <2> HIDE DEF chosen
    <2>3. UNCHANGED <<published, cached, fetchedAt, time, answered>>
      BY <1>4 DEF BeginFetch
    <2>4. KeysTypeOK' /\ CopyIsOlder'
      BY <2>1, <2>2, <2>3 DEF KeysInv, KeysTypeOK, CopyIsOlder
    <2>5. AnswerStands'
      BY <2>3 DEF KeysInv, AnswerStands
    <2>6. ThreadsRely'
      BY <1>4, <2>1, <2>2, <2>3 DEF BeginFetch, KeysInv, KeysTypeOK, CopyIsOlder, ThreadsRely
    <2>7. LockHeld'
      BY <1>4, <2>1, <2>2 DEF BeginFetch, Free, KeysInv, KeysTypeOK, LockHeld
    <2> QED BY <2>4, <2>5, <2>6, <2>7 DEF KeysInv
  <1>2. ASSUME thread[t].at = "fetching", TakeDocument(t)
        PROVE  KeysInv'
    <2> DEFINE chosen == [thread[t] EXCEPT !.at = "looked", !.copy = thread[t].decided]
    <2>1. thread' = [thread EXCEPT ![t] = chosen]
      BY <1>2 DEF TakeDocument, KeysInv, KeysTypeOK, ThreadState
    <2>2. /\ chosen \in ThreadState /\ chosen.at = "looked"
          /\ chosen.decided = thread[t].decided /\ chosen.copy = thread[t].decided
          /\ chosen.token = thread[t].token
      BY DEF KeysInv, KeysTypeOK, ThreadState
    <2> HIDE DEF chosen
    <2>3. /\ fetchedAt' = thread[t].decided /\ cached' = {k \in Keys : published[k] # Never}
          /\ UNCHANGED <<answered, published, time>>
      BY <1>2 DEF TakeDocument
    <2>4. fetchedAt \in Int /\ fetchedAt' \in Moments /\ fetchedAt <= fetchedAt' /\ fetchedAt' <= time
      BY <1>2, <2>3 DEF KeysInv, KeysTypeOK, ThreadState, ThreadsRely
    <2>5. KeysTypeOK'
      BY <2>1, <2>2, <2>3, <2>4 DEF KeysInv, KeysTypeOK
    <2>6. CopyIsOlder'
      <3>1. \A k \in Keys \ cached' : published[k] = Never
        BY <2>3
      <3> QED BY <2>3, <2>4, <3>1 DEF KeysInv, CopyIsOlder
    <2>7. AnswerStands'
      BY <2>3 DEF KeysInv, AnswerStands
    <2>8. /\ \A u \in Threads \ {t} : thread'[u] = thread[u] /\ thread[u].at # "fetching"
          /\ thread'[t] = chosen
      BY <1>2, <2>1 DEF KeysInv, KeysTypeOK, LockHeld
    <2>9. LockHeld'
      BY <2>2, <2>8 DEF LockHeld
    <2>10. ThreadsRely'
      <3>1. ASSUME NEW u \in Threads \ {t}, thread[u].at = "looked"
            PROVE  thread[u].copy <= fetchedAt'
        <4>1. thread[u].copy \in Int
          BY DEF KeysInv, KeysTypeOK, ThreadState
        <4> QED BY <2>4, <3>1, <4>1 DEF KeysInv, ThreadsRely
      <3>2. chosen.copy <= fetchedAt' /\ chosen.decided - chosen.copy < Refresh
        BY <2>2, <2>3, <2>4
      <3> QED BY <1>2, <2>2, <2>3, <2>8, <3>1, <3>2 DEF KeysInv, ThreadsRely
    <2> QED BY <2>5, <2>6, <2>7, <2>9, <2>10 DEF KeysInv
  <1>3. ASSUME NEW why \in {"unavailable", "invalid"}, Answer(t, thread[t].token, Refused(why)),
               UNCHANGED <<fetchedAt, cached, published, time>>
        PROVE  KeysInv'
    <2>1. Refused(why).outcome # "unknown key"
      BY <1>3 DEF Refused
    <2> QED BY <1>3, <2>1, AnswerKeeps
  <1> QED BY <1>1, <1>2, <1>3, <1>4 DEF EndFetch

LEMMA LookAgainKeeps ==
  ASSUME KeysInv, NEW t \in Threads, LookAgain(t)
  PROVE  KeysInv'
  <1> DEFINE token == Content[thread[t].token]
  <1>1. UNCHANGED <<published, cached, fetchedAt, time>> /\ thread[t].at = "looked"
    BY DEF LookAgain
  <1>2. CASE token.kid \in cached
    <2>1. Answer(t, thread[t].token, Decode(token, token.kid, time))
      BY <1>2 DEF LookAgain
    <2> QED BY <1>1, <2>1, AnswerKeeps, DecodeKnowsTheKey
  <1>3. CASE token.kid \notin cached
    <2>1. /\ thread' = [thread EXCEPT ![t] = AtRest]
          /\ answered' = [outcome |-> "unknown key", roles |-> {}, token |-> thread[t].token,
                          decided |-> thread[t].decided, copy |-> thread[t].copy]
      BY <1>3 DEF LookAgain, Answer, Refused
    <2>2. AtRest \in ThreadState /\ AtRest.at = "idle"
      BY DEF AtRest, ThreadState, Moments
    <2>3. KeysTypeOK' /\ CopyIsOlder'
      BY <1>1, <2>1, <2>2 DEF KeysInv, KeysTypeOK, CopyIsOlder
    <2>4. ThreadsRely' /\ LockHeld'
      BY <1>1, <2>1, <2>2 DEF KeysInv, KeysTypeOK, ThreadsRely, LockHeld
    <2>5. /\ token.kid \in Keys /\ thread[t].copy \in Moments /\ thread[t].copy <= fetchedAt
          /\ thread[t].decided - thread[t].copy < Refresh
      BY <1>1 DEF KeysInv, KeysTypeOK, ThreadsRely, ThreadState
    <2>6. published[token.kid] # Never => published[token.kid] >= fetchedAt
      BY <1>3, <2>5 DEF KeysInv, CopyIsOlder
    <2>7. /\ published[token.kid] \in Int /\ fetchedAt \in Int /\ thread[t].copy \in Int
          /\ time \in Int /\ fetchedAt <= time
      BY <2>5, IdentityBounds DEF KeysInv, KeysTypeOK, CopyIsOlder, Moments, Times, Never
    <2>8. /\ answered'.token = thread[t].token /\ answered'.decided = thread[t].decided
          /\ answered'.copy = thread[t].copy /\ Content[answered'.token] = token
      BY <2>1
    <2> HIDE DEF token
    <2>9. thread[t].copy <= time /\ (published[token.kid] # Never => published[token.kid] >= thread[t].copy)
      BY <2>5, <2>6, <2>7
    <2>10. AnswerStands'
      BY <1>1, <2>5, <2>8, <2>9 DEF AnswerStands
    <2> QED BY <2>3, <2>4, <2>10 DEF KeysInv
  <1> QED BY <1>2, <1>3

\* The provider publishes, withdraws and publishes again, and time passes.
LEMMA ProviderKeeps ==
  ASSUME KeysInv, (\E k \in Keys : Publish(k) \/ Withdraw(k)) \/ IdentityTick
  PROVE  KeysInv'
  <1> USE IdentityBounds DEF Moments, Times, Never
  <1>1. CASE IdentityTick
    <2>1. time' = time + 1 /\ time' \in Times
            /\ UNCHANGED <<published, cached, fetchedAt, thread, answered>>
      BY <1>1 DEF IdentityTick, KeysInv, KeysTypeOK
    <2>2. KeysTypeOK' /\ ThreadsRely' /\ LockHeld'
      BY <2>1 DEF KeysInv, KeysTypeOK, ThreadsRely, ThreadState, LockHeld
    <2>3. CopyIsOlder'
      BY <2>1 DEF KeysInv, KeysTypeOK, CopyIsOlder
    <2>4. answered.copy \in Moments /\ answered.copy <= time => answered.copy <= time'
      BY <2>1 DEF KeysInv, KeysTypeOK
    <2>5. AnswerStands'
      <3>1. SUFFICES ASSUME answered'.outcome = "unknown key"
                     PROVE  AnswerStands'
        BY DEF AnswerStands
      <3> QED BY <2>1, <2>4, <3>1 DEF KeysInv, AnswerStands
    <2> QED BY <2>2, <2>3, <2>5 DEF KeysInv
  <1>2. ASSUME NEW k \in Keys, Publish(k)
        PROVE  KeysInv'
    <2>1. published' = [published EXCEPT ![k] = time]
            /\ UNCHANGED <<cached, fetchedAt, thread, answered, time>>
      BY <1>2 DEF Publish
    <2>2. KeysTypeOK' /\ CopyIsOlder' /\ ThreadsRely' /\ LockHeld'
      BY <2>1 DEF KeysInv, KeysTypeOK, CopyIsOlder, ThreadsRely, LockHeld
    <2>3. AnswerStands'
      BY <2>1 DEF KeysInv, KeysTypeOK, AnswerStands
    <2> QED BY <2>2, <2>3 DEF KeysInv
  <1>3. ASSUME NEW k \in Keys, Withdraw(k)
        PROVE  KeysInv'
    <2>1. published' = [published EXCEPT ![k] = Never]
            /\ UNCHANGED <<cached, fetchedAt, thread, answered, time>>
      BY <1>3 DEF Withdraw
    <2>2. KeysTypeOK' /\ CopyIsOlder' /\ ThreadsRely' /\ LockHeld'
      BY <2>1 DEF KeysInv, KeysTypeOK, CopyIsOlder, ThreadsRely, LockHeld
    <2>3. AnswerStands'
      BY <2>1 DEF KeysInv, KeysTypeOK, AnswerStands
    <2> QED BY <2>2, <2>3 DEF KeysInv
  <1> QED BY <1>1, <1>2, <1>3

\* RefusalsHaveReason: a token of a published key is turned away for its key only
\* if the key is younger than the copy relied on, and that copy was younger than
\* the refresh period (cognito.py:133-166).
THEOREM RefusalsHaveReason == IdentitySpec => []RefusalsExplained
  <1>1. IdentityInit => KeysInv
    BY IdentityBounds DEF IdentityInit, KeysInv, KeysTypeOK, CopyIsOlder, ThreadsRely,
       LockHeld, AnswerStands, NoAnswer, AtRest, ThreadState, Moments, Times, Never
  <1>2. KeysInv /\ [IdentityNext]_identityVars => KeysInv'
    <2> SUFFICES ASSUME KeysInv, [IdentityNext]_identityVars
                 PROVE  KeysInv'
      OBVIOUS
    <2>1. CASE UNCHANGED identityVars
      BY <2>1 DEF identityVars, KeysInv, KeysTypeOK, CopyIsOlder, ThreadsRely, LockHeld, AnswerStands
    <2> QED BY <2>1, LookKeeps, ChoiceKeeps, LookAgainKeeps, ProviderKeeps DEF IdentityNext
  <1>3. KeysInv => RefusalsExplained
    BY DEF KeysInv, AnswerStands, RefusalsExplained
  <1> QED BY <1>1, <1>2, <1>3, PTL DEF IdentitySpec
-----------------------------------------------------------------------------
(* The request limit.  What a caller may still be let through in a window  *)
(* is one place for each limiter and each count it has not reached there;  *)
(* who was let through, and the places left, are never more than the       *)
(* limiters and the late requests paid for.                                *)

RequestState ==
  [at : {"idle", "build", "read", "count"}, caller : Callers \cup {"nobody"},
   limiter : 0..MaxLimiters, moment : 0..MaxTicks]

RequestsTyped ==
  /\ checking \in [Requests -> RequestState]
  /\ \A r \in Requests :
       /\ checking[r].at # "idle" => checking[r].caller \in Callers
       /\ checking[r].at \in {"read", "count"} => checking[r].limiter \in 1..built
  /\ \A p \in Processes : current[p] <= built

Places(c, w) ==
  {place \in (1..built) \X (1..Limit) :
     LET bucket == buckets[place[1]]
     IN  bucket.window < w \/ (bucket.window = w /\ place[2] > bucket.count[c])}

PlacesPaidFor ==
  \A c \in Callers, w \in Windows :
    admitted[c][w] + Cardinality(Places(c, w)) <= Limit * (built + late)

LimitInv == LimitTypeOK /\ RequestsTyped /\ PlacesPaidFor

LEMMA WindowInRange ==
  ASSUME NEW moment \in 0..MaxTicks
  PROVE  WindowOf(moment) \in Windows /\ Windows \subseteq Nat
  <1> DEFINE K == Window * Second
             p == WindowOf(moment)
             q == WindowOf(MaxTicks)
  <1>1. K \in Nat \ {0} /\ MaxTicks \in Nat /\ moment \in Nat /\ moment <= MaxTicks
    BY LimitBounds
  <1>2. p = moment \div K /\ q = MaxTicks \div K
    BY DEF WindowOf
  <1> HIDE DEF K, p, q
  <1>3. /\ p \in Int /\ moment = K * p + (moment % K) /\ moment % K \in 0..(K - 1) /\ p >= 0
    BY <1>1, <1>2
  <1>4. /\ q \in Int /\ MaxTicks = K * q + (MaxTicks % K) /\ MaxTicks % K \in 0..(K - 1)
    BY <1>1, <1>2
  <1>5. p <= q
    <2> SUFFICES ASSUME p > q PROVE FALSE
      BY <1>3, <1>4
    <2> DEFINE d == p - (q + 1)
    <2>1. d \in Nat /\ p = (q + 1) + d
      BY <1>3, <1>4
    <2> HIDE DEF d
    <2>2. K * ((q + 1) + d) = K * q + K + K * d /\ K * d >= 0
      BY <2>1, <1>1, <1>4
    <2> QED BY <2>1, <2>2, <1>1, <1>3, <1>4
  <1> QED BY <1>3, <1>4, <1>5 DEF Windows, p, q

LEMMA WindowIsNumber ==
  ASSUME NEW w \in Windows \cup {-1}
  PROVE  w \in Int
  <1>1. 0 \in 0..MaxTicks
    BY LimitBounds
  <1>2. Windows \subseteq Nat
    BY <1>1, WindowInRange
  <1>3. w \in Windows \/ w = -1
    OBVIOUS
  <1>4. w \in Windows => w \in Nat
    BY <1>2
  <1> QED BY <1>3, <1>4

LEMMA PlacesFinite ==
  ASSUME built \in Nat, NEW c, NEW w
  PROVE  IsFiniteSet(Places(c, w)) /\ Cardinality(Places(c, w)) \in Nat
  <1>1. IsFiniteSet(1..built) /\ IsFiniteSet(1..Limit)
    BY FS_Interval, LimitBounds
  <1>3. IsFiniteSet((1..built) \X (1..Limit))
    BY <1>1, FS_Product
  <1>2. Places(c, w) \subseteq (1..built) \X (1..Limit)
    BY DEF Places
  <1> QED BY <1>2, <1>3, FS_Subset, FS_CardinalityType

\* All the places of one limiter are Limit places more.
LEMMA OneLimiterMore ==
  ASSUME NEW S, IsFiniteSet(S), NEW l \in Nat, NEW T, T \subseteq S \cup ({l} \X (1..Limit))
  PROVE  IsFiniteSet(T) /\ Cardinality(T) \in Nat /\ Cardinality(T) <= Cardinality(S) + Limit
  <1> DEFINE strip == {l} \X (1..Limit)
  <1>1. IsFiniteSet({l}) /\ Cardinality({l}) = 1
    BY FS_Singleton
  <1>2. IsFiniteSet(1..Limit) /\ Cardinality(1..Limit) = Limit
    BY FS_Interval, LimitBounds
  <1>3. IsFiniteSet(strip) /\ Cardinality(strip) = Limit
    <2>1. IsFiniteSet(strip) /\ Cardinality(strip) = Cardinality({l}) * Cardinality(1..Limit)
      BY <1>1, <1>2, FS_Product
    <2> QED BY <1>1, <1>2, <2>1, LimitBounds
  <1> HIDE DEF strip
  <1>4. /\ IsFiniteSet(S \cup strip)
        /\ Cardinality(S \cup strip) = Cardinality(S) + Limit - Cardinality(S \cap strip)
    BY <1>3, FS_Union
  <1>5. IsFiniteSet(S \cap strip)
    BY <1>3, FS_Intersection
  <1>6. T \subseteq S \cup strip
    BY DEF strip
  <1>7. IsFiniteSet(T) /\ Cardinality(T) <= Cardinality(S \cup strip)
    BY <1>4, <1>6, FS_Subset
  <1>8. Cardinality(T) \in Nat /\ Cardinality(S \cap strip) \in Nat /\ Cardinality(S) \in Nat
          /\ Cardinality(S \cup strip) \in Nat
    BY <1>4, <1>5, <1>7, FS_CardinalityType
  <1> QED BY <1>4, <1>7, <1>8, LimitBounds

\* A step that leaves the limiters, who was let through and their number alone.
LEMMA PlacesRest ==
  ASSUME PlacesPaidFor, UNCHANGED <<buckets, admitted, built, late>>
  PROVE  PlacesPaidFor'
  <1>1. \A c, w : Places(c, w)' = Places(c, w)
    BY DEF Places
  <1> QED BY <1>1 DEF PlacesPaidFor

LEMMA BuildKeeps ==
  ASSUME LimitInv, NEW r \in Requests, BuildLimiter(r)
  PROVE  LimitInv'
  <1> USE LimitBounds DEF Limiters, NoLimiter
  <1>1. /\ built \in Nat /\ late \in Nat /\ built' = built + 1 /\ built' \in 0..MaxLimiters
        /\ UNCHANGED <<buckets, admitted, late, arrived, clock>>
    BY DEF LimitInv, LimitTypeOK, BuildLimiter
  <1> DEFINE built1 == [checking[r] EXCEPT !.at = "read", !.limiter = built + 1]
  <1>2. checking' = [checking EXCEPT ![r] = built1]
    BY DEF LimitInv, RequestsTyped, RequestState, BuildLimiter
  <1>3. /\ built1 \in RequestState /\ built1.at = "read" /\ built1.limiter = built + 1
        /\ built1.caller \in Callers
    BY <1>1 DEF LimitInv, RequestsTyped, RequestState, BuildLimiter
  <1> HIDE DEF built1
  <1>4. /\ current' \in [Processes -> Limiters \cup {NoLimiter}]
        /\ \A p \in Processes : current'[p] <= built'
    <2>1. current' = [current EXCEPT ![HomeOf[r]] = built + 1] /\ HomeOf[r] \in Processes
      BY DEF BuildLimiter
    <2>2. \A p \in Processes : current[p] \in 0..MaxLimiters /\ current[p] <= built
      BY DEF LimitInv, LimitTypeOK, RequestsTyped
    <2>3. \A p \in Processes : current'[p] = IF p = HomeOf[r] THEN built + 1 ELSE current[p]
      BY <2>1 DEF LimitInv, LimitTypeOK
    <2> QED BY <1>1, <2>1, <2>2, <2>3 DEF LimitInv, LimitTypeOK
  <1>5. RequestsTyped'
    BY <1>1, <1>2, <1>3, <1>4 DEF LimitInv, RequestsTyped, RequestState
  <1>6. LimitTypeOK'
    BY <1>1, <1>2, <1>3, <1>4 DEF LimitInv, LimitTypeOK, RequestState
  <1>7. ASSUME NEW c \in Callers, NEW w \in Windows
        PROVE  admitted'[c][w] + Cardinality(Places(c, w)') <= Limit * (built' + late')
    <2>1. Places(c, w)' \subseteq Places(c, w) \cup ({built + 1} \X (1..Limit))
      BY <1>1 DEF Places
    <2>2. IsFiniteSet(Places(c, w)) /\ Cardinality(Places(c, w)) \in Nat
      BY <1>1, PlacesFinite
    <2>3. /\ Cardinality(Places(c, w)') \in Nat
          /\ Cardinality(Places(c, w)') <= Cardinality(Places(c, w)) + Limit
      BY <1>1, <2>1, <2>2, OneLimiterMore
    <2>4. admitted[c][w] + Cardinality(Places(c, w)) <= Limit * (built + late)
      BY DEF LimitInv, PlacesPaidFor
    <2>5. Limit * ((built + 1) + late) = Limit * (built + late) + Limit
      BY <1>1
    <2>6. admitted[c][w] \in Nat /\ Limit * (built + late) \in Int
      BY <1>1 DEF LimitInv, LimitTypeOK
    <2> QED BY <1>1, <2>2, <2>3, <2>4, <2>5, <2>6
  <1>8. PlacesPaidFor'
    BY <1>7 DEF PlacesPaidFor
  <1> QED BY <1>5, <1>6, <1>8 DEF LimitInv

LEMMA CountKeeps ==
  ASSUME LimitInv, NEW r \in Requests, Count(r)
  PROVE  LimitInv'
  <1> USE LimitBounds DEF Limiters, NoLimiter
  <1> DEFINE me == checking[r]
             l == me.limiter
             who == me.caller
             window == WindowOf(me.moment)
             old == buckets[l]
             before == Kept(old, window)
             count == before[who] + 1
             new == [window |-> window, count |-> [before EXCEPT ![who] = count]]
  <1>1. /\ l \in 1..built /\ l \in Limiters /\ who \in Callers /\ window \in Windows
        /\ built \in Nat /\ late \in Nat
        /\ Windows \subseteq Int
    BY WindowInRange DEF LimitInv, LimitTypeOK, RequestsTyped, RequestState, Count
  <1>2. /\ old.window \in Windows \cup {-1} /\ old.count \in [Callers -> Nat]
        /\ old.window \in Int
    <2>1. old \in [window : Windows \cup {-1}, count : [Callers -> Nat]]
      BY <1>1 DEF LimitInv, LimitTypeOK
    <2> HIDE DEF old
    <2>2. old.window \in Windows \cup {-1} /\ old.count \in [Callers -> Nat]
      BY <2>1
    <2>4. old.window \in Int
      BY <2>2, WindowIsNumber
    <2> QED BY <2>2, <2>4
  <1>3. /\ before \in [Callers -> Nat]
        /\ before = IF old.window = window THEN old.count ELSE [c \in Callers |-> 0]
    BY <1>2 DEF Kept, NoCounts
  <1>4. /\ buckets' = [buckets EXCEPT ![l] = new]
        /\ admitted' = IF count > Limit THEN admitted
                       ELSE [admitted EXCEPT ![who][window] = @ + 1]
        /\ late' = IF window < old.window THEN late + 1 ELSE late
        /\ checking' = [checking EXCEPT ![r] = Waiting]
        /\ UNCHANGED <<current, built, arrived, clock>>
    BY DEF Count
  <1> HIDE DEF me, l, who, window, old, before, count, new
  <1>5. /\ new.window = window /\ new.count \in [Callers -> Nat] /\ new.count[who] = count
        /\ count = before[who] + 1 /\ count \in Nat
        /\ \A c \in Callers \ {who} : new.count[c] = before[c]
        /\ new \in [window : Windows \cup {-1}, count : [Callers -> Nat]]
    BY <1>1, <1>3 DEF new, count
  <1>6. late' \in Nat /\ late' = (IF window < old.window THEN late + 1 ELSE late)
    BY <1>1, <1>4
  <1>7. /\ admitted' \in [Callers -> [Windows -> Nat]]
        /\ \A c \in Callers, w \in Windows :
             admitted'[c][w] = IF count <= Limit /\ c = who /\ w = window
                               THEN admitted[c][w] + 1 ELSE admitted[c][w]
    <2>1. admitted \in [Callers -> [Windows -> Nat]]
      BY DEF LimitInv, LimitTypeOK
    <2>2. CASE count > Limit
      BY <1>4, <1>5, <2>1, <2>2
    <2>3. CASE ~(count > Limit)
      <3>1. admitted' = [admitted EXCEPT ![who][window] = @ + 1] /\ count <= Limit
        BY <1>4, <1>5, <2>3
      <3> QED BY <1>1, <2>1, <3>1
    <2> QED BY <2>2, <2>3
  <1>8. RequestsTyped'
    <2>1. Waiting \in RequestState /\ Waiting.at = "idle"
      BY DEF Waiting, RequestState
    <2> QED BY <1>4, <2>1 DEF LimitInv, RequestsTyped
  <1>9. buckets' \in [Limiters -> [window : Windows \cup {-1}, count : [Callers -> Nat]]]
    BY <1>1, <1>4, <1>5 DEF LimitInv, LimitTypeOK
  <1>10. LimitTypeOK'
    <2>1. \A q \in Requests : checking'[q] \in RequestState
      BY <1>8 DEF RequestsTyped
    <2>2. late' \in Nat /\ admitted' \in [Callers -> [Windows -> Nat]]
      BY <1>6, <1>7
    <2>3. \A q \in Requests :
            /\ checking'[q].at \in {"idle", "build", "read", "count"}
            /\ checking'[q].limiter \in Limiters \cup {NoLimiter}
            /\ checking'[q].moment \in 0..MaxTicks
      BY <2>1 DEF RequestState
    <2>4. UNCHANGED <<current, built, arrived, clock>>
      BY <1>4
    <2> QED BY <1>9, <2>2, <2>3, <2>4 DEF LimitInv, LimitTypeOK
  <1>11. /\ buckets'[l] = new /\ buckets[l] = old
         /\ \A k \in 1..built : k # l => buckets'[k] = buckets[k]
    BY <1>1, <1>4 DEF LimitInv, LimitTypeOK, old
  <1>12. ASSUME NEW c \in Callers, NEW w \in Windows
         PROVE  admitted'[c][w] + Cardinality(Places(c, w)') <= Limit * (built' + late')
    <2> DEFINE S == Places(c, w)
               T == Places(c, w)'
               lets == count <= Limit /\ c = who /\ w = window
    <2>1. /\ w \in Int /\ window \in Int
      BY <1>1, <1>2
    <2>2. ASSUME NEW k \in 1..built, NEW i \in 1..Limit
          PROVE  /\ <<k, i>> \in S <=> \/ buckets[k].window < w
                                       \/ buckets[k].window = w /\ i > buckets[k].count[c]
                 /\ <<k, i>> \in T <=> \/ buckets'[k].window < w
                                       \/ buckets'[k].window = w /\ i > buckets'[k].count[c]
      BY <1>4 DEF Places
    <2>3. S \subseteq (1..built) \X (1..Limit) /\ T \subseteq (1..built) \X (1..Limit)
      BY <1>4 DEF Places
    <2>4. IsFiniteSet(S) /\ Cardinality(S) \in Nat
      BY <1>1, PlacesFinite
    <2>5. admitted[c][w] + Cardinality(S) <= Limit * (built + late) /\ admitted[c][w] \in Nat
            /\ Limit * (built + late) \in Int
      <3>1. admitted[c][w] \in Nat
        BY DEF LimitInv, LimitTypeOK
      <3>2. Limit * (built + late) \in Int
        BY <1>1
      <3> QED BY <3>1, <3>2 DEF LimitInv, PlacesPaidFor
    <2>6. admitted'[c][w] = IF lets THEN admitted[c][w] + 1 ELSE admitted[c][w]
      BY <1>7
    <2> HIDE DEF S, T
    <2>7. lets => <<l, count>> \notin T /\ count \in 1..Limit
      BY <1>1, <1>3, <1>5, <1>11, <2>1, <2>2
    <2>8. CASE window < old.window
      <3> DEFINE strip == {l} \X (1..Limit)
                 U == IF lets THEN T \cup {<<l, count>>} ELSE T
      <3>1. U \subseteq S \cup strip
        <4>1. ASSUME NEW k \in 1..built, NEW i \in 1..Limit, <<k, i>> \in T, k # l
              PROVE  <<k, i>> \in S
          BY <4>1, <1>11, <2>2
        <4>2. T \subseteq S \cup strip
          BY <4>1, <2>3
        <4> QED BY <4>2, <2>7
      <3> HIDE DEF strip
      <3>2. /\ IsFiniteSet(U) /\ Cardinality(U) \in Nat /\ Cardinality(U) <= Cardinality(S) + Limit
        <4> HIDE DEF U
        <4> QED BY <2>4, <3>1, <1>1, OneLimiterMore DEF strip
      <3>3. T \subseteq U /\ IsFiniteSet(T) /\ Cardinality(T) \in Nat
        <4>1. T \subseteq U
          OBVIOUS
        <4> HIDE DEF U
        <4> QED BY <3>2, <4>1, FS_Subset, FS_CardinalityType
      <3>4. CASE lets
        <4>1. Cardinality(U) = Cardinality(T) + 1
          BY <2>7, <3>3, <3>4, FS_AddElement
        <4> HIDE DEF U, lets
        <4>2. Limit * (built + (late + 1)) = Limit * (built + late) + Limit
          BY <1>1
        <4> QED BY <1>4, <1>6, <2>4, <2>5, <2>6, <2>8, <3>2, <3>3, <3>4, <4>1, <4>2 DEF T
      <3>5. CASE ~lets
        <4>1. U = T
          BY <3>5
        <4> HIDE DEF U, lets
        <4>2. Limit * (built + (late + 1)) = Limit * (built + late) + Limit
          BY <1>1
        <4> QED BY <1>4, <1>6, <2>4, <2>5, <2>6, <2>8, <3>2, <3>3, <3>5, <4>1, <4>2 DEF T
      <3> QED BY <3>4, <3>5
    <2>9. CASE ~(window < old.window)
      <3>1. ASSUME NEW k \in 1..built, NEW i \in 1..Limit, <<k, i>> \in T
            PROVE  <<k, i>> \in S
        <4>1. CASE k # l
          BY <3>1, <4>1, <1>11, <2>2
        <4>2. CASE k = l /\ window < w
          BY <4>2, <2>9, <1>2, <1>11, <2>1, <2>2
        <4>3. CASE k = l /\ window = w
          <5>1. i > new.count[c] /\ new.count[c] >= before[c] /\ before[c] \in Nat
                  /\ new.count[c] \in Nat
            BY <3>1, <4>3, <1>3, <1>5, <1>11, <2>1, <2>2
          <5>2. CASE old.window = w
            BY <4>3, <5>1, <5>2, <1>3, <1>11, <2>2
          <5>3. CASE old.window # w
            BY <4>3, <5>3, <2>9, <1>2, <1>11, <2>1, <2>2
          <5> QED BY <5>2, <5>3
        <4> QED BY <3>1, <4>1, <4>2, <4>3, <1>5, <1>11, <2>1, <2>2
      <3>2. T \subseteq S
        BY <3>1, <2>3
      <3>3. late' = late
        BY <1>6, <2>9
      <3>4. CASE lets
        <4>1. <<l, count>> \in S
          <5>1. count \in 1..Limit /\ w = window /\ c = who /\ l \in 1..built
            BY <3>4, <2>7, <1>1
          <5>2. old.window = w => count > old.count[c]
            BY <5>1, <2>9, <1>1, <1>2, <1>3, <1>5, <2>1
          <5>3. old.window # w => old.window < w
            BY <5>1, <2>9, <1>1, <1>2, <1>3, <2>1
          <5> QED BY <5>1, <5>2, <5>3, <1>11, <2>2
        <4>2. T \subseteq S \ {<<l, count>>}
          BY <3>2, <3>4, <2>7
        <4>3. /\ IsFiniteSet(S \ {<<l, count>>})
              /\ Cardinality(S \ {<<l, count>>}) = Cardinality(S) - 1
          BY <4>1, <2>4, FS_RemoveElement
        <4>4. Cardinality(T) <= Cardinality(S) - 1 /\ Cardinality(T) \in Nat
          BY <4>2, <4>3, FS_Subset, FS_CardinalityType
        <4> HIDE DEF lets
        <4> QED BY <1>4, <2>4, <2>5, <2>6, <3>3, <3>4, <4>4 DEF T
      <3>5. CASE ~lets
        <4>1. Cardinality(T) <= Cardinality(S) /\ Cardinality(T) \in Nat
          BY <3>2, <2>4, FS_Subset, FS_CardinalityType
        <4> HIDE DEF lets
        <4> QED BY <1>4, <2>4, <2>5, <2>6, <3>3, <3>5, <4>1 DEF T
      <3> QED BY <3>4, <3>5
    <2> QED BY <2>8, <2>9
  <1>13. PlacesPaidFor'
    BY <1>12 DEF PlacesPaidFor
  <1> QED BY <1>8, <1>10, <1>13 DEF LimitInv

LEMMA ArriveKeeps ==
  ASSUME LimitInv, NEW r \in Requests, Arrive(r)
  PROVE  LimitInv'
  <1> USE LimitBounds DEF Limiters, NoLimiter
  <1>1. PICK c \in Callers : checking' = [checking EXCEPT ![r] =
         [at |-> IF current[HomeOf[r]] = NoLimiter THEN "build" ELSE "read",
          caller |-> c, limiter |-> current[HomeOf[r]], moment |-> 0]]
    BY DEF Arrive
  <1> DEFINE home == current[HomeOf[r]]
             new == [at |-> IF home = NoLimiter THEN "build" ELSE "read",
                     caller |-> c, limiter |-> home, moment |-> 0]
  <1>2. home \in 0..MaxLimiters /\ home <= built /\ built \in Nat
    BY DEF LimitInv, LimitTypeOK, RequestsTyped
  <1> HIDE DEF home
  <1>3. /\ new \in RequestState /\ new.at \in {"build", "read"} /\ new.caller \in Callers
        /\ (new.at = "read" => new.limiter \in 1..built)
    BY <1>2 DEF RequestState
  <1>4. checking' = [checking EXCEPT ![r] = new]
    BY <1>1 DEF home
  <1> HIDE DEF new
  <1>5. UNCHANGED <<current, buckets, admitted, built, late, clock>> /\ arrived' \in 0..MaxArrivals
    BY DEF Arrive, LimitInv, LimitTypeOK
  <1>6. RequestsTyped'
    BY <1>3, <1>4, <1>5 DEF LimitInv, RequestsTyped
  <1>7. LimitTypeOK'
    <2>1. \A q \in Requests : checking'[q] \in RequestState
      BY <1>6 DEF RequestsTyped
    <2>2. \A q \in Requests :
            /\ checking'[q].at \in {"idle", "build", "read", "count"}
            /\ checking'[q].limiter \in Limiters \cup {NoLimiter}
            /\ checking'[q].moment \in 0..MaxTicks
      BY <2>1 DEF RequestState
    <2> QED BY <1>5, <2>2 DEF LimitInv, LimitTypeOK
  <1> QED BY <1>5, <1>6, <1>7, PlacesRest DEF LimitInv

LEMMA OtherLimitStepsKeep ==
  ASSUME LimitInv,
         (\E r \in Requests : ReadClock(r)) \/ (\E p \in Processes : Restart(p)) \/ LimitTick
  PROVE  LimitInv'
  <1> USE LimitBounds DEF Limiters, NoLimiter
  <1>1. ASSUME NEW r \in Requests, ReadClock(r)
        PROVE  LimitInv'
    <2> DEFINE new == [checking[r] EXCEPT !.at = "count", !.moment = clock]
    <2>1. /\ checking' = [checking EXCEPT ![r] = new]
          /\ new \in RequestState /\ new.at = "count" /\ new.caller = checking[r].caller
          /\ new.limiter = checking[r].limiter /\ checking[r].at = "read"
      BY <1>1 DEF ReadClock, LimitInv, LimitTypeOK, RequestsTyped, RequestState
    <2> HIDE DEF new
    <2>2. UNCHANGED <<current, buckets, admitted, built, late, arrived, clock>>
      BY <1>1 DEF ReadClock
    <2>3. RequestsTyped'
      BY <2>1, <2>2 DEF LimitInv, RequestsTyped
    <2>4. LimitTypeOK'
      BY <2>2, <2>3 DEF LimitInv, LimitTypeOK, RequestsTyped, RequestState
    <2> QED BY <2>2, <2>3, <2>4, PlacesRest DEF LimitInv
  <1>2. ASSUME NEW p \in Processes, Restart(p)
        PROVE  LimitInv'
    <2>1. UNCHANGED <<buckets, admitted, built, late, arrived, clock>>
      BY <1>2 DEF Restart
    <2>2. Waiting \in RequestState /\ Waiting.at = "idle"
      BY DEF Waiting, RequestState
    <2>3. RequestsTyped'
      BY <1>2, <2>1, <2>2 DEF Restart, LimitInv, LimitTypeOK, RequestsTyped
    <2>4. LimitTypeOK'
      BY <1>2, <2>1, <2>3 DEF Restart, LimitInv, LimitTypeOK, RequestsTyped, RequestState
    <2> QED BY <2>1, <2>3, <2>4, PlacesRest DEF LimitInv
  <1>3. ASSUME LimitTick
        PROVE  LimitInv'
    <2>1. /\ UNCHANGED <<current, buckets, checking, admitted, built, late, arrived>>
          /\ clock' \in 0..MaxTicks
      BY <1>3 DEF LimitTick, LimitInv, LimitTypeOK
    <2> QED BY <2>1, PlacesRest DEF LimitInv, LimitTypeOK, RequestsTyped
  <1> QED BY <1>1, <1>2, <1>3

\* LimitHolds: what a caller gets through in a window was paid for, by the
\* limiters built and the requests counted late (ratelimit.py:32-41, deps.py:62-67).
THEOREM LimitHolds == LimitSpec => []AdmissionsPaidFor
  <1>1. LimitInit => LimitInv
    <2> SUFFICES ASSUME LimitInit
                 PROVE  LimitInv
      OBVIOUS
    <2> USE LimitBounds DEF LimitInit, Limiters, NoLimiter
    <2>1. 0 \in Windows
      BY WindowInRange DEF Windows
    <2>2. LimitTypeOK
      BY <2>1 DEF LimitTypeOK, NoCounts, Waiting
    <2>3. RequestsTyped
      BY DEF RequestsTyped, RequestState, Waiting
    <2>4. \A c \in Callers, w \in Windows : Places(c, w) = {}
      BY DEF Places
    <2>6. PlacesPaidFor
      <3> SUFFICES ASSUME NEW c \in Callers, NEW w \in Windows
                   PROVE  admitted[c][w] + Cardinality(Places(c, w)) <= Limit * (built + late)
        BY DEF PlacesPaidFor
      <3>1. admitted[c][w] = 0 /\ built + late = 0 /\ Limit * 0 = 0
        OBVIOUS
      <3>2. Cardinality(Places(c, w)) = 0
        BY <2>4, FS_EmptySet
      <3> QED BY <3>1, <3>2
    <2> QED BY <2>2, <2>3, <2>6 DEF LimitInv
  <1>2. LimitInv /\ [LimitNext]_limitVars => LimitInv'
    <2> SUFFICES ASSUME LimitInv, [LimitNext]_limitVars
                 PROVE  LimitInv'
      OBVIOUS
    <2>1. CASE UNCHANGED limitVars
      BY <2>1, PlacesRest DEF limitVars, LimitInv, LimitTypeOK, RequestsTyped
    <2> QED BY <2>1, ArriveKeeps, BuildKeeps, CountKeeps, OtherLimitStepsKeep DEF LimitNext
  <1>3. LimitInv => AdmissionsPaidFor
    <2> SUFFICES ASSUME LimitInv, NEW c \in Callers, NEW w \in Windows
                 PROVE  admitted[c][w] <= Limit * (built + late)
      BY DEF AdmissionsPaidFor
    <2>1. built \in Nat /\ late \in Nat /\ admitted[c][w] \in Nat
      BY DEF LimitInv, LimitTypeOK
    <2>2. Cardinality(Places(c, w)) \in Nat
      BY <2>1, PlacesFinite
    <2>3. Limit * (built + late) \in Int
      BY <2>1, LimitBounds
    <2> QED BY <2>1, <2>2, <2>3 DEF LimitInv, PlacesPaidFor
  <1> QED BY <1>1, <1>2, <1>3, PTL DEF LimitSpec
-----------------------------------------------------------------------------
(* The hosted registry.  While one approval at a time runs and every       *)
(* package can be told from the others, a promotion has seen each champion *)
(* that it passed, and none but its own remains when it writes.            *)

OperatorState ==
  [at : {"idle", "create", "scan", "demote", "write"}, label : Labels \cup {NoLabel},
   approval : Approvals, todo : Seq(Labels), seen : 0..MaxPackages]

HostedTyped ==
  /\ packages \in Seq(Package) /\ Len(packages) <= MaxPackages
  /\ operator \in [Operators -> OperatorState]
  /\ \A o \in Operators : operator[o].at # "idle" => operator[o].label \in Labels
  /\ begun \in 0..MaxCalls
  /\ crowned \in Labels \cup {NoLabel}
  /\ overlapped \in BOOLEAN
  /\ halted \in Nat

Marked(label) ==
  \E i \in DOMAIN packages : packages[i].label = label /\ packages[i].approval # Unmarked

Crowning(o) == operator[o].at \in {"demote", "write"} /\ operator[o].approval = "champion"

\* What an approval under way knows of the packages.
Knows(o, me) ==
  /\ \A other \in Operators : Approving(other) => other = o
  /\ Marked(me.label)
  /\ me.at \in {"scan", "demote"} =>
       /\ me.approval = "champion"
       /\ \A k \in DOMAIN me.todo : Marked(me.todo[k])
  /\ \A i \in DOMAIN packages :
       packages[i].approval = "champion" /\ packages[i].label # me.label =>
         /\ me.at = "demote" \/ (me.at = "scan" /\ i <= me.seen) =>
              \E k \in DOMAIN me.todo : me.todo[k] = packages[i].label
         /\ me.at = "write" => me.approval # "champion"

CrownTold ==
  /\ \A i \in DOMAIN packages : packages[i].approval = "champion" => packages[i].label = crowned
  /\ halted = 0 /\ crowned # NoLabel /\ (\A o \in Operators : ~Crowning(o)) =>
       \E i \in DOMAIN packages :
         packages[i].approval = "champion" /\ packages[i].label = crowned

HostedInv ==
  /\ HostedTyped
  /\ Addressable /\ ~overlapped =>
       /\ \A o \in Operators : Approving(o) => Knows(o, operator[o])
       /\ CrownTold

\* Max and Min of the library are choices: these are the facts behind them.
LEMMA MinIsLeast ==
  ASSUME NEW T, T \subseteq Nat, T # {}
  PROVE  Min(T) \in T /\ \A y \in T : Min(T) <= y
  BY LeastElement DEF Min

LEMMA MaxIsGreatest ==
  ASSUME NEW n \in Nat, NEW T, T \subseteq 0..n, T # {}
  PROVE  Max(T) \in T /\ \A y \in T : Max(T) >= y
  <1> DEFINE D == {n - x : x \in T}
  <1>1. D \subseteq Nat /\ D # {}
    OBVIOUS
  <1>2. PICK d \in D : \A e \in D : d <= e
    BY <1>1, LeastElement
  <1>3. PICK x \in T : d = n - x
    OBVIOUS
  <1>4. ASSUME NEW y \in T
        PROVE  x >= y
    <2>1. n - y \in D
      OBVIOUS
    <2>2. x \in Nat /\ y \in Nat
      OBVIOUS
    <2> HIDE DEF D
    <2>3. d <= n - y
      BY <1>2, <2>1
    <2> QED BY <1>3, <2>2, <2>3
  <1>5. \E z \in T : \A y \in T : z >= y
    BY <1>4
  <1> QED BY <1>5 DEF Max

LEMMA MinOfOne ==
  ASSUME NEW i \in Nat
  PROVE  Min({i}) = i
  BY DEF Min

LEMMA MaxOfOne ==
  ASSUME NEW i \in Nat
  PROVE  Max({i}) = i
  BY DEF Max

\* A page shows the oldest packages as they are.
LEMMA PageShows ==
  ASSUME packages \in Seq(Package)
  PROVE  /\ Listed \in Seq(Package) /\ Len(Listed) <= Len(packages)
         /\ DOMAIN Listed = 1..Len(Listed) /\ Len(Listed) \in Nat
         /\ \A i \in DOMAIN Listed : i \in DOMAIN packages /\ Listed[i] = packages[i]
         /\ Len(packages) <= PageSize => Listed = packages
  <1> DEFINE n == IF Len(packages) < PageSize THEN Len(packages) ELSE PageSize
  <1>1. /\ n \in Nat /\ n <= Len(packages) /\ Len(packages) \in Nat
        /\ DOMAIN packages = 1..Len(packages)
    BY LenProperties, HostedBounds
  <1>2. Len(packages) <= PageSize => n = Len(packages)
    <2>1. Len(packages) \in Nat /\ PageSize \in Nat
      BY <1>1, HostedBounds
    <2> QED BY <2>1
  <1>3. Listed = SubSeq(packages, 1, n)
    BY DEF Listed
  <1> HIDE DEF n
  <1>4. \A i \in 1..n : packages[i] \in Package
    BY <1>1, ElementOfSeq
  <1>5. /\ Listed \in Seq(Package) /\ Len(Listed) = n
        /\ \A i \in 1..n : Listed[i] = packages[i]
    <2>1. /\ SubSeq(packages, 1, n) \in Seq(Package)
          /\ Len(SubSeq(packages, 1, n)) = IF 1 <= n THEN n - 1 + 1 ELSE 0
          /\ \A i \in 1..(n - 1 + 1) : SubSeq(packages, 1, n)[i] = packages[1 + i - 1]
      BY <1>1, <1>4, SubSeqProperties
    <2>2. \A i \in 1..n : SubSeq(packages, 1, n)[i] = packages[i]
      <3> SUFFICES ASSUME NEW i \in 1..n
                   PROVE  SubSeq(packages, 1, n)[i] = packages[i]
        OBVIOUS
      <3>1. i \in 1..(n - 1 + 1) /\ 1 + i - 1 = i
        BY <1>1
      <3> QED BY <2>1, <3>1
    <2> QED BY <1>1, <1>3, <2>1, <2>2
  <1>6. DOMAIN Listed = 1..n
    BY <1>5, LenProperties
  <1>7. ASSUME Len(packages) <= PageSize
        PROVE  Listed = packages
    BY <1>1, <1>2, <1>5, <1>7, SeqEqual
  <1> QED BY <1>1, <1>5, <1>6, <1>7

\* The next label is a number from one on.
LEMMA NextLabelIsNumber ==
  ASSUME packages \in Seq(Package)
  PROVE  NextLabel \in Nat \ {0}
  <1> DEFINE labels == {Listed[i].label : i \in DOMAIN Listed}
  <1>1. /\ labels \subseteq 0..MaxPackages /\ (Listed # << >> => labels # {})
    <2>1. \A i \in DOMAIN Listed : Listed[i].label \in 0..MaxPackages
      <3>1. \A i \in DOMAIN Listed : Listed[i] \in Package
        BY PageShows, ElementOfSeq
      <3> QED BY <3>1, HostedBounds DEF Package, Labels
    <2>2. Listed # << >> => 1 \in DOMAIN Listed
      BY PageShows, EmptySeq
    <2> QED BY <2>1, <2>2
  <1>2. CASE Listed # << >>
    <2> HIDE DEF labels
    <2>1. Max(labels) \in labels
      <3>1. MaxPackages \in Nat /\ labels \subseteq 0..MaxPackages /\ labels # {}
        BY <1>1, <1>2, HostedBounds
      <3> QED BY <3>1, MaxIsGreatest
    <2>2. Max(labels) \in 0..MaxPackages
      BY <1>1, <2>1
    <2>3. Max(labels) \in Nat
      BY <2>2, HostedBounds
    <2> QED BY <1>2, <2>3 DEF NextLabel, labels
  <1>3. CASE Listed = << >>
    BY <1>3 DEF NextLabel
  <1> QED BY <1>2, <1>3

\* What one write of an approval does to the packages.
LEMMA WriteEffect ==
  ASSUME HostedTyped, NEW label \in Labels, NEW approval \in Approvals,
         WriteApproval(label, approval)
  PROVE  /\ packages' \in Seq(Package) /\ Len(packages') = Len(packages)
         /\ DOMAIN packages' = DOMAIN packages
         /\ \A i \in DOMAIN packages :
              /\ packages'[i].label = packages[i].label
              /\ packages'[i].approval \in {packages[i].approval, approval}
         /\ Addressable /\ Marked(label) =>
              \A i \in DOMAIN packages :
                packages'[i].approval = IF packages[i].label = label THEN approval
                                        ELSE packages[i].approval
  <1> DEFINE at == PackageFor(label)
             new == [packages[at] EXCEPT !.approval = approval, !.status = ServiceStatus(approval)]
  <1>1. packages' = [packages EXCEPT ![at] = new]
    BY DEF WriteApproval
  <1>2. /\ packages \in Seq(Package) /\ Len(packages) \in Nat
        /\ DOMAIN packages = 1..Len(packages)
    BY LenProperties DEF HostedTyped
  <1>3. ServiceStatus(approval) \in ServiceStatuses
    BY DEF ServiceStatus, ServiceStatuses, Approvals
  <1>4. ASSUME at \in DOMAIN packages
        PROVE  /\ new \in Package /\ new.label = packages[at].label /\ new.approval = approval
    <2>1. packages[at] \in Package
      BY <1>2, <1>4, ElementOfSeq
    <2> HIDE DEF at
    <2> QED BY <1>3, <2>1 DEF Package
  <1>5. ASSUME Addressable, Marked(label)
        PROVE  at \in DOMAIN packages /\ packages[at].label = label
    <2>1. Listed = packages
      BY <1>2, <1>5, PageShows DEF Addressable
    <2>2. PICK i \in DOMAIN packages :
            packages[i].label = label /\ packages[i].approval # Unmarked
      BY <1>5 DEF Marked
    <2>3. Carriers(label) = {i}
      BY <1>5, <2>1, <2>2 DEF Carriers, Addressable
    <2>4. at = i
      BY <1>2, <2>2, <2>3, MinOfOne DEF PackageFor
    <2> QED BY <2>2, <2>4
  <1> HIDE DEF at, new
  <1>6. CASE at \in DOMAIN packages
    <2>1. /\ packages' \in Seq(Package) /\ Len(packages') = Len(packages)
          /\ \A j \in 1..Len(packages) : packages'[j] = IF j = at THEN new ELSE packages[j]
      BY <1>1, <1>2, <1>4, <1>6, ExceptSeq
    <2>2. DOMAIN packages' = DOMAIN packages
      BY <1>1
    <2>3. Addressable /\ Marked(label) => \A i \in DOMAIN packages : packages[i].label = label <=> i = at
      BY <1>5 DEF Addressable
    <2> QED BY <1>2, <1>4, <1>6, <2>1, <2>2, <2>3
  <1>7. CASE at \notin DOMAIN packages
    <2>1. packages' = packages
      BY <1>1, <1>2, <1>7
    <2> QED BY <1>2, <1>5, <1>7, <2>1
  <1> QED BY <1>6, <1>7

\* The packages of an earlier state can be told apart if the later ones can.
LEMMA StaysAddressable ==
  ASSUME packages \in Seq(Package), packages' \in Seq(Package),
         Len(packages) <= Len(packages'),
         \A i \in DOMAIN packages : packages'[i].label = packages[i].label,
         Addressable'
  PROVE  Addressable
  <1>1. /\ Len(packages) \in Nat /\ DOMAIN packages = 1..Len(packages)
        /\ Len(packages') \in Nat /\ DOMAIN packages' = 1..Len(packages')
    BY LenProperties
  <1>2. DOMAIN packages \subseteq DOMAIN packages'
    BY <1>1
  <1>3. Len(packages) <= PageSize
    BY <1>1, HostedBounds DEF Addressable
  <1> QED BY <1>2, <1>3 DEF Addressable

\* A step that at most appends a package that is no champion, of an operator
\* that is approving nothing before nor after.
LEMMA QuietKeeps ==
  ASSUME HostedInv, HostedTyped', Len(packages) <= Len(packages'),
         \A i \in DOMAIN packages : packages'[i] = packages[i],
         \A i \in DOMAIN packages' : packages'[i].approval = "champion" => i \in DOMAIN packages,
         \A o \in Operators :
           operator'[o] = operator[o]
             \/ {operator[o].at, operator'[o].at} \subseteq {"idle", "create"},
         UNCHANGED <<crowned, overlapped, halted>>
  PROVE  HostedInv'
  <1>1. HostedTyped
    BY DEF HostedInv
  <1> SUFFICES ASSUME Addressable', ~overlapped'
               PROVE  (\A o \in Operators : Approving(o) => Knows(o, operator[o]))' /\ CrownTold'
    BY DEF HostedInv
  <1>2. Addressable /\ ~overlapped
    BY <1>1, StaysAddressable DEF HostedTyped
  <1>3. DOMAIN packages \subseteq DOMAIN packages'
    BY <1>1, LenProperties DEF HostedTyped
  <1>4. \A o \in Operators : (Approving(o)' \/ Approving(o)) => operator'[o] = operator[o]
    BY DEF Approving
  <1>5. \A label : Marked(label) => Marked(label)'
    BY <1>3 DEF Marked
  <1>6. ASSUME NEW o \in Operators, Approving(o)', NEW me, operator'[o] = me
        PROVE  Knows(o, me)'
    <2>1. operator[o] = me /\ Approving(o)
      BY <1>4, <1>6 DEF Approving
    <2>2. Knows(o, me)
      BY <1>2, <2>1 DEF HostedInv
    <2>3. \A other \in Operators : Approving(other)' => other = o
      BY <1>4, <2>2 DEF Knows, Approving
    <2>4. Marked(me.label)' /\ \A k \in DOMAIN me.todo : Marked(me.todo[k]) => Marked(me.todo[k])'
      BY <1>5, <2>2 DEF Knows
    <2> QED BY <2>2, <2>3, <2>4 DEF Knows
  <1>7. CrownTold'
    <2>1. CrownTold
      BY <1>2 DEF HostedInv
    <2>2. \A i \in DOMAIN packages' :
            packages'[i].approval = "champion" => packages'[i].label = crowned'
      BY <2>1 DEF CrownTold
    <2>3. \A o \in Operators : Crowning(o)' <=> Crowning(o)
      BY <1>4 DEF Crowning, Approving
    <2>4. ASSUME halted' = 0, crowned' # NoLabel, \A o \in Operators : ~Crowning(o)'
          PROVE  \E i \in DOMAIN packages' :
                   packages'[i].approval = "champion" /\ packages'[i].label = crowned'
      <3>1. PICK i \in DOMAIN packages :
              packages[i].approval = "champion" /\ packages[i].label = crowned
        BY <2>1, <2>3, <2>4 DEF CrownTold
      <3> QED BY <1>3, <3>1
    <2> QED BY <2>2, <2>4 DEF CrownTold
  <1> QED BY <1>6, <1>7

LEMMA RegisterKeeps ==
  ASSUME HostedInv, NEW o \in Operators, TakeLabel(o) \/ CreatePackage(o)
  PROVE  HostedInv'
  <1> USE HostedBounds DEF NoLabel
  <1>1. HostedTyped /\ packages \in Seq(Package) /\ operator \in [Operators -> OperatorState]
    BY DEF HostedInv, HostedTyped
  <1>2. CASE TakeLabel(o)
    <2> DEFINE new == [Idle EXCEPT !.at = "create", !.label = NextLabel]
    <2>1. NextLabel \in Labels
      BY <1>1, <1>2, NextLabelIsNumber DEF TakeLabel, Labels
    <2>2. new \in OperatorState /\ new.at = "create" /\ new.label \in Labels
      <3>1. Idle \in OperatorState
        BY EmptySeq DEF Idle, OperatorState, Approvals
      <3>2. NextLabel \in Labels \cup {NoLabel}
        BY <2>1
      <3> HIDE DEF NoLabel
      <3> QED BY <2>1, <3>1, <3>2 DEF OperatorState
    <2>3. /\ operator' = [operator EXCEPT ![o] = new] /\ operator[o].at = "idle"
          /\ begun' \in 0..MaxCalls /\ UNCHANGED <<packages, crowned, overlapped, halted>>
      BY <1>1, <1>2 DEF TakeLabel, Begin, HostedTyped
    <2> HIDE DEF new
    <2>4. HostedTyped'
      BY <1>1, <2>2, <2>3 DEF HostedTyped
    <2>5. \A p \in Operators : operator'[p] = operator[p]
             \/ {operator[p].at, operator'[p].at} \subseteq {"idle", "create"}
      BY <1>1, <2>2, <2>3
    <2>6. Len(packages) <= Len(packages')
      BY <1>1, <2>3, LenProperties
    <2> QED BY <2>3, <2>4, <2>5, <2>6, QuietKeeps
  <1>3. CASE CreatePackage(o)
    <2> DEFINE new == [label |-> operator[o].label, approval |-> "candidate",
                       status |-> ServiceStatus("candidate")]
    <2>1. new \in Package /\ new.approval = "candidate"
      BY <1>1, <1>3 DEF CreatePackage, HostedTyped, Package, Approvals, ServiceStatus,
         ServiceStatuses
    <2>2. Idle \in OperatorState /\ Idle.at = "idle"
      BY EmptySeq DEF Idle, OperatorState, Approvals
    <2>3. /\ packages' = Append(packages, new) /\ Len(packages) < MaxPackages
          /\ operator' = [operator EXCEPT ![o] = Idle] /\ operator[o].at = "create"
          /\ UNCHANGED <<begun, crowned, overlapped, halted>>
      BY <1>3 DEF CreatePackage
    <2> HIDE DEF new
    <2>4. /\ packages' \in Seq(Package) /\ Len(packages') = Len(packages) + 1
          /\ \A i \in 1..Len(packages) : packages'[i] = packages[i]
          /\ packages'[Len(packages) + 1] = new
          /\ Len(packages) \in Nat /\ DOMAIN packages = 1..Len(packages)
      BY <1>1, <2>1, <2>3, AppendProperties, LenProperties
    <2>5. DOMAIN packages' = 1..(Len(packages) + 1)
      BY <2>4, LenProperties
    <2>6. HostedTyped'
      BY <1>1, <2>2, <2>3, <2>4 DEF HostedTyped
    <2>7. \A p \in Operators : operator'[p] = operator[p]
             \/ {operator[p].at, operator'[p].at} \subseteq {"idle", "create"}
      BY <1>1, <2>2, <2>3
    <2>8. \A i \in DOMAIN packages' : packages'[i].approval = "champion" => i \in DOMAIN packages
      BY <2>1, <2>4, <2>5
    <2>9. Len(packages) <= Len(packages') /\ \A i \in DOMAIN packages : packages'[i] = packages[i]
      BY <2>4
    <2> QED BY <2>3, <2>6, <2>7, <2>8, <2>9, QuietKeeps
  <1> QED BY <1>2, <1>3

LEMMA CreateElsewhereKeeps ==
  ASSUME HostedInv, CreateElsewhere
  PROVE  HostedInv'
  <1> USE HostedBounds
  <1>1. HostedTyped /\ packages \in Seq(Package)
    BY DEF HostedInv, HostedTyped
  <1>2. PICK status \in ServiceStatuses :
          packages' = Append(packages, [label |-> Len(packages) + 1, approval |-> Unmarked,
                                        status |-> status])
    BY DEF CreateElsewhere
  <1> DEFINE new == [label |-> Len(packages) + 1, approval |-> Unmarked, status |-> status]
  <1>3. /\ Len(packages) < MaxPackages /\ begun' \in 0..MaxCalls
        /\ UNCHANGED <<operator, crowned, overlapped, halted>>
    BY <1>1 DEF CreateElsewhere, Begin, HostedTyped
  <1>4. Len(packages) \in Nat /\ DOMAIN packages = 1..Len(packages)
    BY <1>1, LenProperties
  <1>5. new \in Package /\ new.approval = "unmarked"
    BY <1>3, <1>4 DEF Package, Labels, Unmarked
  <1> HIDE DEF new
  <1>6. /\ packages' \in Seq(Package) /\ Len(packages') = Len(packages) + 1
        /\ \A i \in 1..Len(packages) : packages'[i] = packages[i]
        /\ packages'[Len(packages) + 1] = new
    BY <1>1, <1>2, <1>5, AppendProperties DEF new
  <1>7. DOMAIN packages' = 1..(Len(packages) + 1)
    BY <1>4, <1>6, LenProperties
  <1>8. HostedTyped'
    BY <1>1, <1>3, <1>4, <1>6 DEF HostedTyped
  <1>9. \A i \in DOMAIN packages' : packages'[i].approval = "champion" => i \in DOMAIN packages
    BY <1>4, <1>5, <1>6, <1>7
  <1>10. Len(packages) <= Len(packages') /\ \A i \in DOMAIN packages : packages'[i] = packages[i]
    BY <1>4, <1>6
  <1> QED BY <1>3, <1>8, <1>9, <1>10, QuietKeeps

LEMMA BeginKeeps ==
  ASSUME HostedInv, NEW o \in Operators, BeginApproval(o)
  PROVE  HostedInv'
  <1> USE HostedBounds
  <1>1. HostedTyped /\ packages \in Seq(Package) /\ operator \in [Operators -> OperatorState]
    BY DEF HostedInv, HostedTyped
  <1>2. PICK label \in Labels, approval \in Approvals :
       /\ Resolves(label)
       /\ operator' = [operator EXCEPT ![o] =
            [Idle EXCEPT !.label = label, !.approval = approval,
               !.at = IF approval = "champion" THEN "scan" ELSE "write"]]
    BY DEF BeginApproval
  <1> DEFINE new == [Idle EXCEPT !.label = label, !.approval = approval,
                       !.at = IF approval = "champion" THEN "scan" ELSE "write"]
  <1>3. /\ new \in OperatorState /\ new.label = label /\ new.approval = approval
        /\ new.at = (IF approval = "champion" THEN "scan" ELSE "write")
        /\ new.todo = << >> /\ new.seen = 0
    <2>1. Idle \in OperatorState /\ Idle.todo = << >> /\ Idle.seen = 0
      BY EmptySeq DEF Idle, OperatorState, Approvals
    <2> QED BY <2>1 DEF OperatorState
  <1>4. operator' = [operator EXCEPT ![o] = new]
    BY <1>2
  <1> HIDE DEF new
  <1>5. /\ begun' \in 0..MaxCalls /\ operator[o].at = "idle"
        /\ UNCHANGED <<packages, crowned, halted>>
    BY <1>1 DEF BeginApproval, Begin, HostedTyped
  <1>6. overlapped' \in BOOLEAN
          /\ (~overlapped' => ~overlapped /\ \A p \in Operators \ {o} : ~Approving(p))
    <2>1. overlapped' = (overlapped \/ \E other \in Operators \ {o} : Approving(other))
      BY DEF BeginApproval
    <2> QED BY <1>1, <2>1, Zenon DEF HostedTyped
  <1>7. HostedTyped'
    BY <1>1, <1>3, <1>4, <1>5, <1>6 DEF HostedTyped
  <1> SUFFICES ASSUME Addressable', ~overlapped'
               PROVE  (\A p \in Operators : Approving(p) => Knows(p, operator[p]))' /\ CrownTold'
    BY <1>7 DEF HostedInv
  <1>8. Addressable /\ ~overlapped
    BY <1>5, <1>6 DEF Addressable
  <1>9. \A p \in Operators : Approving(p)' => p = o
    BY <1>1, <1>4, <1>6 DEF Approving
  <1>10. Marked(label)
    <2>1. Listed = packages
      BY <1>1, <1>8, PageShows DEF Addressable
    <2> QED BY <1>2, <2>1 DEF Resolves, Carriers, Marked
  <1>11. Knows(o, new)'
    <2>1. Marked(label)'
      BY <1>5, <1>10 DEF Marked
    <2>2. DOMAIN new.todo = {}
      BY <1>3
    <2>3. DOMAIN packages' \subseteq Nat \ {0}
      BY <1>1, <1>5, LenProperties
    <2>4. \A i \in DOMAIN packages' : ~(i <= new.seen)
      BY <1>3, <2>3
    <2> QED BY <1>3, <1>9, <2>1, <2>2, <2>4 DEF Knows
  <1>12. \A p \in Operators : Approving(p)' => Knows(p, operator[p])'
    BY <1>1, <1>4, <1>9, <1>11
  <1>13. CrownTold'
    <2>1. \A p \in Operators : ~Crowning(p)
      BY <1>5, <1>6 DEF Crowning, Approving
    <2>2. CrownTold
      BY <1>8 DEF HostedInv
    <2> QED BY <1>5, <2>1, <2>2 DEF CrownTold
  <1> QED BY <1>12, <1>13

\* A step of one approval that changes neither the packages nor what is told of
\* them, and leaves the approval knowing what it must.
LEMMA ApprovalGoesOn ==
  ASSUME HostedInv, NEW o \in Operators, NEW new \in OperatorState,
         Approving(o), operator' = [operator EXCEPT ![o] = new],
         new.at \in {"scan", "demote", "write"}, new.label = operator[o].label,
         Addressable /\ ~overlapped /\ Knows(o, operator[o]) => Knows(o, new),
         Crowning(o) => new.approval = "champion" /\ new.at \in {"demote", "write"},
         UNCHANGED <<packages, begun, crowned, overlapped, halted>>
  PROVE  HostedInv'
  <1>1. HostedTyped /\ operator \in [Operators -> OperatorState]
    BY DEF HostedInv, HostedTyped
  <1>2. operator'[o] = new /\ \A p \in Operators \ {o} : operator'[p] = operator[p]
    BY <1>1
  <1>3. HostedTyped'
    BY <1>1, <1>2 DEF HostedTyped, Approving
  <1>4. \A p \in Operators : Approving(p)' <=> Approving(p)
    BY <1>2 DEF Approving
  <1>5. \A p \in Operators : Crowning(p) => Crowning(p)'
    BY <1>2 DEF Crowning
  <1> SUFFICES ASSUME Addressable', ~overlapped'
               PROVE  (\A p \in Operators : Approving(p) => Knows(p, operator[p]))' /\ CrownTold'
    BY <1>3 DEF HostedInv
  <1>6. Addressable /\ ~overlapped
    BY DEF Addressable
  <1>7. Knows(o, operator[o]) /\ Knows(o, new)
    BY <1>6 DEF HostedInv
  <1>8. \A p \in Operators : Approving(p) => p = o
    BY <1>7 DEF Knows
  <1>9. Knows(o, new)'
    <2>1. Marked(new.label)' /\ \A k \in DOMAIN new.todo : Marked(new.todo[k]) => Marked(new.todo[k])'
      BY <1>7 DEF Knows, Marked
    <2> QED BY <1>4, <1>7, <2>1 DEF Knows
  <1>10. \A p \in Operators : Approving(p)' => Knows(p, operator[p])'
    BY <1>2, <1>4, <1>8, <1>9
  <1>11. CrownTold'
    BY <1>5, <1>6 DEF HostedInv, CrownTold
  <1> QED BY <1>10, <1>11

LEMMA ScanKeeps ==
  ASSUME HostedInv, NEW o \in Operators, Describe(o) \/ EndScan(o)
  PROVE  HostedInv'
  <1> USE HostedBounds
  <1>1. HostedTyped /\ packages \in Seq(Package) /\ operator \in [Operators -> OperatorState]
    BY DEF HostedInv, HostedTyped
  <1>2. PICK me \in OperatorState : me = operator[o]
    BY <1>1
  <1>3. me.at = "scan" /\ Approving(o) /\ UNCHANGED <<packages, begun, crowned, overlapped, halted>>
    BY <1>2 DEF Describe, EndScan, Approving
  <1>4. /\ Len(packages) \in Nat /\ DOMAIN packages = 1..Len(packages)
        /\ Len(packages) <= MaxPackages
    BY <1>1, LenProperties DEF HostedTyped
  <1>5. /\ me.label \in Labels /\ me.seen \in 0..MaxPackages /\ me.todo \in Seq(Labels)
        /\ me.approval \in Approvals
    BY <1>1, <1>2, <1>3 DEF HostedTyped, OperatorState
  <1>6. ~Crowning(o)
    BY <1>2, <1>3 DEF Crowning
  <1>7. CASE EndScan(o)
    <2> DEFINE new == [me EXCEPT !.at = "demote"]
    <2>1. operator' = [operator EXCEPT ![o] = new]
      BY <1>1, <1>2, <1>7 DEF EndScan
    <2>2. /\ new \in OperatorState /\ new.at = "demote" /\ new.label = me.label
          /\ new.todo = me.todo /\ new.approval = me.approval
      BY DEF OperatorState
    <2> HIDE DEF new
    <2>3. ASSUME Addressable, Knows(o, me)
          PROVE  Knows(o, new)
      <3>1. Listed = packages
        BY <1>1, <2>3, PageShows DEF Addressable
      <3>2. \A i \in DOMAIN packages : i <= me.seen
        BY <1>2, <1>4, <1>5, <1>7, <3>1 DEF EndScan
      <3> QED BY <1>3, <2>2, <2>3, <3>2 DEF Knows
    <2> QED BY <1>2, <1>3, <1>6, <2>1, <2>2, <2>3, ApprovalGoesOn
  <1>8. CASE Describe(o)
    <2> DEFINE next == Listed[me.seen + 1]
               todo == IF next.label # me.label /\ StatusFrom(next) = "champion"
                       THEN Append(me.todo, next.label) ELSE me.todo
               new == [me EXCEPT !.seen = me.seen + 1, !.todo = todo]
    <2>1. operator' = [operator EXCEPT ![o] = new] /\ me.seen < Len(Listed)
      BY <1>1, <1>2, <1>8 DEF Describe, OperatorState
    <2>2. me.seen + 1 \in DOMAIN Listed /\ me.seen + 1 \in 0..MaxPackages
      BY <1>1, <1>4, <1>5, <2>1, PageShows
    <2>3. next = packages[me.seen + 1] /\ next \in Package /\ me.seen + 1 \in DOMAIN packages
      BY <1>1, <1>4, <2>2, PageShows, ElementOfSeq
    <2>4. /\ todo \in Seq(Labels)
          /\ \A k \in DOMAIN me.todo : k \in DOMAIN todo /\ todo[k] = me.todo[k]
          /\ next.label # me.label /\ StatusFrom(next) = "champion" =>
               \E k \in DOMAIN todo : todo[k] = next.label
          /\ \A k \in DOMAIN todo : (k \in DOMAIN me.todo /\ todo[k] = me.todo[k])
               \/ (todo[k] = next.label /\ StatusFrom(next) = "champion")
      <3>1. next.label \in Labels
        BY <2>3 DEF Package
      <3> HIDE DEF next
      <3>2. Len(me.todo) \in Nat /\ DOMAIN me.todo = 1..Len(me.todo)
        BY <1>5, LenProperties
      <3>3. CASE next.label # me.label /\ StatusFrom(next) = "champion"
        <4>1. /\ todo \in Seq(Labels) /\ Len(todo) = Len(me.todo) + 1
              /\ \A k \in 1..Len(me.todo) : todo[k] = me.todo[k]
              /\ todo[Len(me.todo) + 1] = next.label
          BY <1>5, <3>1, <3>3, AppendProperties
        <4> HIDE DEF todo
        <4>2. DOMAIN todo = 1..(Len(me.todo) + 1)
          BY <4>1, LenProperties
        <4>3. Len(me.todo) + 1 \in DOMAIN todo
          BY <3>2, <4>2
        <4> QED BY <3>2, <3>3, <4>1, <4>2, <4>3
      <3>4. CASE ~(next.label # me.label /\ StatusFrom(next) = "champion")
        <4>1. todo = me.todo
          BY <3>4
        <4> HIDE DEF todo
        <4> QED BY <1>5, <3>4, <4>1
      <3> QED BY <3>3, <3>4
    <2> HIDE DEF next, todo
    <2>5. /\ new \in OperatorState /\ new.at = "scan" /\ new.label = me.label
          /\ new.todo = todo /\ new.seen = me.seen + 1 /\ new.approval = me.approval
      BY <1>3, <2>2, <2>4 DEF OperatorState
    <2> HIDE DEF new
    <2>6. ASSUME Knows(o, me)
          PROVE  Knows(o, new)
      <3>1. StatusFrom(next) = "champion" <=> next.approval = "champion"
        BY <2>3 DEF StatusFrom, Package, Unmarked
      <3>2. StatusFrom(next) = "champion" => Marked(next.label)
        BY <2>3, <3>1 DEF Marked, Unmarked
      <3>3. \A k \in DOMAIN new.todo : Marked(new.todo[k])
        BY <1>3, <2>4, <2>5, <2>6, <3>2 DEF Knows
      <3>4. ASSUME NEW i \in DOMAIN packages, packages[i].approval = "champion",
                   packages[i].label # me.label, i <= me.seen + 1
            PROVE  \E k \in DOMAIN new.todo : new.todo[k] = packages[i].label
        <4>1. CASE i = me.seen + 1
          BY <2>3, <2>4, <2>5, <3>1, <3>4, <4>1
        <4>2. CASE i # me.seen + 1
          <5>1. i <= me.seen
            BY <1>4, <1>5, <3>4, <4>2
          <5>2. PICK k \in DOMAIN me.todo : me.todo[k] = packages[i].label
            BY <1>3, <2>6, <3>4, <5>1 DEF Knows
          <5> QED BY <2>4, <2>5, <5>2
        <4> QED BY <4>1, <4>2
      <3> QED BY <1>3, <2>5, <2>6, <3>3, <3>4 DEF Knows
    <2> QED BY <1>2, <1>3, <1>6, <2>1, <2>5, <2>6, ApprovalGoesOn
  <1> QED BY <1>7, <1>8

LEMMA EndDemotionsKeeps ==
  ASSUME HostedInv, NEW o \in Operators, EndDemotions(o)
  PROVE  HostedInv'
  <1>1. HostedTyped /\ operator \in [Operators -> OperatorState]
    BY DEF HostedInv, HostedTyped
  <1>2. PICK me \in OperatorState : me = operator[o]
    BY <1>1
  <1> DEFINE new == [me EXCEPT !.at = "write"]
  <1>3. /\ operator' = [operator EXCEPT ![o] = new] /\ me.at = "demote" /\ me.todo = << >>
        /\ UNCHANGED <<packages, begun, crowned, overlapped, halted>> /\ Approving(o)
    BY <1>1, <1>2 DEF EndDemotions, Approving
  <1>4. /\ new \in OperatorState /\ new.at = "write" /\ new.label = me.label
        /\ new.todo = << >> /\ new.approval = me.approval
    BY <1>3 DEF OperatorState
  <1> HIDE DEF new
  <1>5. ASSUME Knows(o, me)
        PROVE  Knows(o, new)
    <2>1. DOMAIN me.todo = {}
      BY <1>3
    <2> QED BY <1>3, <1>4, <1>5, <2>1 DEF Knows
  <1>6. Crowning(o) => new.approval = "champion"
    BY <1>2, <1>4 DEF Crowning
  <1> QED BY <1>2, <1>3, <1>4, <1>5, <1>6, ApprovalGoesOn

LEMMA DemoteKeeps ==
  ASSUME HostedInv, NEW o \in Operators, Demote(o)
  PROVE  HostedInv'
  <1>1. HostedTyped /\ packages \in Seq(Package) /\ operator \in [Operators -> OperatorState]
    BY DEF HostedInv, HostedTyped
  <1>2. PICK me \in OperatorState : me = operator[o]
    BY <1>1
  <1>3. /\ me.at = "demote" /\ me.todo # << >> /\ me.todo \in Seq(Labels) /\ me.label \in Labels
        /\ WriteApproval(Head(me.todo), "approved")
        /\ UNCHANGED <<begun, crowned, overlapped, halted>> /\ Approving(o)
    BY <1>1, <1>2 DEF Demote, Approving, HostedTyped, OperatorState
  <1> DEFINE new == [me EXCEPT !.todo = Tail(me.todo)]
             head == Head(me.todo)
  <1>4. operator' = [operator EXCEPT ![o] = new]
    BY <1>1, <1>2 DEF Demote, OperatorState
  <1>5. /\ head \in Labels /\ Tail(me.todo) \in Seq(Labels) /\ Len(me.todo) \in Nat
        /\ DOMAIN me.todo = 1..Len(me.todo) /\ DOMAIN Tail(me.todo) = 1..(Len(me.todo) - 1)
        /\ \A k \in 1..(Len(me.todo) - 1) : Tail(me.todo)[k] = me.todo[k + 1]
        /\ head = me.todo[1] /\ 1 \in DOMAIN me.todo
    BY <1>3, HeadTailProperties, LenProperties, EmptySeq
  <1>6. /\ new \in OperatorState /\ new.at = "demote" /\ new.label = me.label
        /\ new.todo = Tail(me.todo) /\ new.approval = me.approval
    BY <1>3, <1>5 DEF OperatorState
  <1> HIDE DEF new, head
  <1>7. /\ packages' \in Seq(Package) /\ Len(packages') = Len(packages)
        /\ DOMAIN packages' = DOMAIN packages
        /\ \A i \in DOMAIN packages :
              /\ packages'[i].label = packages[i].label
              /\ packages'[i].approval \in {packages[i].approval, "approved"}
        /\ Addressable /\ Marked(head) =>
              \A i \in DOMAIN packages :
                packages'[i].approval = IF packages[i].label = head THEN "approved"
                                        ELSE packages[i].approval
    BY <1>1, <1>3, <1>5, WriteEffect DEF head, Approvals
  <1>8. operator'[o] = new /\ \A p \in Operators \ {o} : operator'[p] = operator[p]
    BY <1>1, <1>4
  <1>9. HostedTyped'
    BY <1>1, <1>3, <1>4, <1>6, <1>7, <1>8 DEF HostedTyped
  <1> SUFFICES ASSUME Addressable', ~overlapped'
               PROVE  (\A p \in Operators : Approving(p) => Knows(p, operator[p]))' /\ CrownTold'
    BY <1>9 DEF HostedInv
  <1>10. Addressable /\ ~overlapped
    <2>1. Len(packages) <= Len(packages')
      BY <1>1, <1>7, LenProperties
    <2> QED BY <1>1, <1>3, <1>7, <2>1, StaysAddressable
  <1>11. Knows(o, me) /\ CrownTold
    BY <1>2, <1>3, <1>10 DEF HostedInv
  <1>12. \A l : Marked(l) => Marked(l)'
    BY <1>7 DEF Marked, Unmarked
  <1>13. \A i \in DOMAIN packages :
           packages'[i].approval = "champion" =>
             packages[i].approval = "champion" /\ packages[i].label # head
    <2>1. Marked(head)
      BY <1>3, <1>5, <1>11 DEF Knows
    <2> QED BY <1>7, <1>10, <2>1
  <1>14. Knows(o, new)'
    <2>1. \A other \in Operators : Approving(other)' => other = o
      BY <1>8, <1>11 DEF Knows, Approving
    <2>2. \A k \in DOMAIN new.todo : k + 1 \in DOMAIN me.todo /\ new.todo[k] = me.todo[k + 1]
      BY <1>5, <1>6
    <2>3. \A k \in DOMAIN new.todo : Marked(new.todo[k])'
      BY <1>3, <1>11, <1>12, <2>2 DEF Knows
    <2>4. ASSUME NEW i \in DOMAIN packages', packages'[i].approval = "champion",
                 packages'[i].label # me.label
          PROVE  \E k \in DOMAIN new.todo : new.todo[k] = packages'[i].label
      <3>1. /\ i \in DOMAIN packages /\ packages[i].approval = "champion"
            /\ packages[i].label # me.label /\ packages'[i].label = packages[i].label
            /\ packages[i].label # head
        BY <1>7, <1>13, <2>4
      <3>2. PICK k \in DOMAIN me.todo : me.todo[k] = packages[i].label
        BY <1>3, <1>11, <3>1 DEF Knows
      <3>3. k # 1 /\ k - 1 \in 1..(Len(me.todo) - 1) /\ (k - 1) + 1 = k
        BY <1>5, <3>1, <3>2
      <3> QED BY <1>5, <1>6, <3>1, <3>2, <3>3
    <2>5. Marked(new.label)'
      BY <1>6, <1>11, <1>12 DEF Knows
    <2>6. new.approval = "champion"
      BY <1>3, <1>6, <1>11 DEF Knows
    <2> QED BY <1>6, <2>1, <2>3, <2>4, <2>5, <2>6 DEF Knows
  <1>15. \A p \in Operators : Approving(p)' => Knows(p, operator[p])'
    BY <1>8, <1>14 DEF Knows
  <1>16. CrownTold'
    <2>1. Crowning(o)'
      BY <1>3, <1>6, <1>8, <1>11 DEF Crowning, Knows
    <2> QED BY <1>3, <1>7, <1>11, <1>13, <2>1 DEF CrownTold
  <1> QED BY <1>15, <1>16

LEMMA WriteOwnKeeps ==
  ASSUME HostedInv, NEW o \in Operators, WriteOwn(o)
  PROVE  HostedInv'
  <1>1. HostedTyped /\ packages \in Seq(Package) /\ operator \in [Operators -> OperatorState]
    BY DEF HostedInv, HostedTyped
  <1>2. PICK me \in OperatorState : me = operator[o]
    BY <1>1
  <1>3. /\ me.at = "write" /\ me.label \in Labels /\ me.approval \in Approvals
        /\ WriteApproval(me.label, me.approval)
        /\ crowned' = IF me.approval = "champion" THEN me.label
                      ELSE IF crowned = me.label THEN NoLabel ELSE crowned
        /\ operator' = [operator EXCEPT ![o] = Idle]
        /\ UNCHANGED <<begun, overlapped, halted>> /\ Approving(o)
    BY <1>1, <1>2 DEF WriteOwn, Approving, HostedTyped, OperatorState
  <1>4. /\ packages' \in Seq(Package) /\ Len(packages') = Len(packages)
        /\ DOMAIN packages' = DOMAIN packages
        /\ \A i \in DOMAIN packages :
              /\ packages'[i].label = packages[i].label
              /\ packages'[i].approval \in {packages[i].approval, me.approval}
        /\ Addressable /\ Marked(me.label) =>
              \A i \in DOMAIN packages :
                packages'[i].approval = IF packages[i].label = me.label THEN me.approval
                                        ELSE packages[i].approval
    BY <1>1, <1>3, WriteEffect
  <1>5. Idle \in OperatorState /\ Idle.at = "idle"
    BY EmptySeq, HostedBounds DEF Idle, OperatorState, Approvals
  <1>6. operator'[o] = Idle /\ \A p \in Operators \ {o} : operator'[p] = operator[p]
    BY <1>1, <1>3
  <1>7. HostedTyped'
    <2>1. crowned' \in Labels \cup {NoLabel}
      BY <1>1, <1>3 DEF HostedTyped
    <2> QED BY <1>1, <1>3, <1>4, <1>5, <1>6, <2>1 DEF HostedTyped
  <1> SUFFICES ASSUME Addressable', ~overlapped'
               PROVE  (\A p \in Operators : Approving(p) => Knows(p, operator[p]))' /\ CrownTold'
    BY <1>7 DEF HostedInv
  <1>8. Addressable /\ ~overlapped
    <2>1. Len(packages) <= Len(packages')
      BY <1>1, <1>4, LenProperties
    <2> QED BY <1>1, <1>3, <1>4, <2>1, StaysAddressable
  <1>9. Knows(o, me) /\ CrownTold
    BY <1>2, <1>3, <1>8 DEF HostedInv
  <1>10. \A p \in Operators : ~Approving(p)'
    BY <1>5, <1>6, <1>9 DEF Knows, Approving
  <1>11. \A i \in DOMAIN packages :
           packages'[i].approval = IF packages[i].label = me.label THEN me.approval
                                   ELSE packages[i].approval
    BY <1>4, <1>8, <1>9 DEF Knows
  <1>12. PICK own \in DOMAIN packages : packages[own].label = me.label
    BY <1>9 DEF Knows, Marked
  <1>13. CASE me.approval = "champion"
    <2>1. \A i \in DOMAIN packages' :
            packages'[i].approval = "champion" => packages'[i].label = crowned'
      BY <1>3, <1>4, <1>9, <1>11, <1>13 DEF Knows
    <2>2. packages'[own].approval = "champion" /\ packages'[own].label = crowned'
      BY <1>3, <1>4, <1>11, <1>12, <1>13
    <2> QED BY <1>4, <1>10, <1>12, <2>1, <2>2 DEF CrownTold
  <1>14. CASE me.approval # "champion"
    <2>1. \A i \in DOMAIN packages' : packages'[i].approval = "champion" =>
            /\ packages[i].approval = "champion" /\ packages[i].label # me.label
            /\ packages'[i].label = packages[i].label
      BY <1>4, <1>11, <1>14
    <2>2. \A i \in DOMAIN packages' :
            packages'[i].approval = "champion" => packages'[i].label = crowned'
      BY <1>3, <1>4, <1>9, <1>14, <2>1 DEF CrownTold
    <2>3. ASSUME halted' = 0, crowned' # NoLabel, \A p \in Operators : ~Crowning(p)'
          PROVE  \E i \in DOMAIN packages' :
                   packages'[i].approval = "champion" /\ packages'[i].label = crowned'
      <3>1. \A p \in Operators : ~Crowning(p)
        BY <1>2, <1>9, <1>14 DEF Crowning, Knows, Approving
      <3>2. crowned' = crowned /\ crowned # me.label /\ halted = 0
        BY <1>3, <1>14, <2>3
      <3>3. PICK i \in DOMAIN packages :
              packages[i].approval = "champion" /\ packages[i].label = crowned
        BY <1>9, <2>3, <3>1, <3>2 DEF CrownTold
      <3>4. packages'[i].approval = "champion" /\ packages'[i].label = crowned'
        BY <1>4, <1>11, <3>2, <3>3
      <3> QED BY <1>4, <3>3, <3>4
    <2> QED BY <1>10, <2>2, <2>3 DEF CrownTold
  <1> QED BY <1>10, <1>13, <1>14

LEMMA HaltKeeps ==
  ASSUME HostedInv, NEW o \in Operators, HaltOperation(o)
  PROVE  HostedInv'
  <1>1. HostedTyped /\ operator \in [Operators -> OperatorState]
    BY DEF HostedInv, HostedTyped
  <1>2. Idle \in OperatorState /\ Idle.at = "idle"
    BY EmptySeq, HostedBounds DEF Idle, OperatorState, Approvals
  <1>3. /\ operator' = [operator EXCEPT ![o] = Idle]
        /\ UNCHANGED <<packages, begun, crowned, overlapped>>
        /\ halted' = IF Approving(o) THEN halted + 1 ELSE halted
    BY DEF HaltOperation
  <1>4. HostedTyped'
    BY <1>1, <1>2, <1>3 DEF HostedTyped
  <1>5. CASE ~Approving(o)
    <2>1. \A p \in Operators : operator'[p] = operator[p]
             \/ {operator[p].at, operator'[p].at} \subseteq {"idle", "create"}
      BY <1>1, <1>2, <1>3, <1>5 DEF Approving, OperatorState
    <2>2. Len(packages) <= Len(packages')
      BY <1>1, <1>3, LenProperties DEF HostedTyped
    <2> QED BY <1>3, <1>4, <1>5, <2>1, <2>2, QuietKeeps
  <1>6. CASE Approving(o)
    <2> SUFFICES ASSUME Addressable', ~overlapped'
                 PROVE  (\A p \in Operators : Approving(p) => Knows(p, operator[p]))' /\ CrownTold'
      BY <1>4 DEF HostedInv
    <2>1. Knows(o, operator[o]) /\ CrownTold
      BY <1>3, <1>6 DEF HostedInv, Addressable
    <2>2. \A p \in Operators : ~Approving(p)'
      BY <1>1, <1>2, <1>3, <2>1 DEF Knows, Approving
    <2>3. halted' # 0
      BY <1>1, <1>3, <1>6 DEF HostedTyped
    <2> QED BY <1>3, <2>1, <2>2, <2>3 DEF CrownTold
  <1> QED BY <1>5, <1>6

\* ChampionsTold: while approvals do not overlap and the registry fits its page
\* with no label given twice, the one champion it shows is the last that was
\* promoted, and it is lost only when a promotion stopped half way
\* (sagemaker_registry.py:132-159).
THEOREM ChampionsTold == HostedSpec => []ChampionTold
  <1>1. HostedInit => HostedInv
    <2> SUFFICES ASSUME HostedInit
                 PROVE  HostedInv
      OBVIOUS
    <2>1. Idle \in OperatorState /\ Idle.at = "idle"
      BY EmptySeq, HostedBounds DEF Idle, OperatorState, Approvals
    <2>2. packages \in Seq(Package) /\ Len(packages) = 0 /\ DOMAIN packages = {}
      BY EmptySeq, LenProperties DEF HostedInit
    <2>3. HostedTyped
      <3>1. /\ operator \in [Operators -> OperatorState]
            /\ \A o \in Operators : operator[o].at = "idle"
        BY <2>1 DEF HostedInit
      <3>2. begun \in 0..MaxCalls /\ Len(packages) <= MaxPackages /\ halted \in Nat
        BY <2>2, HostedBounds DEF HostedInit
      <3>3. overlapped \in BOOLEAN /\ crowned \in Labels \cup {NoLabel}
        BY DEF HostedInit
      <3> QED BY <2>2, <3>1, <3>2, <3>3 DEF HostedTyped
    <2>4. CrownTold
      BY <2>2 DEF HostedInit, CrownTold
    <2> QED BY <2>1, <2>3, <2>4 DEF HostedInit, HostedInv, Approving
  <1>2. HostedInv /\ [HostedNext]_hostedVars => HostedInv'
    <2> SUFFICES ASSUME HostedInv, [HostedNext]_hostedVars
                 PROVE  HostedInv'
      OBVIOUS
    <2>1. CASE UNCHANGED hostedVars
      <3>1. HostedTyped' /\ Len(packages) <= Len(packages')
        BY <2>1, LenProperties DEF hostedVars, HostedInv, HostedTyped
      <3> QED BY <2>1, <3>1, QuietKeeps DEF hostedVars
    <2>2. CASE CreateElsewhere
      BY <2>2, CreateElsewhereKeeps
    <2>3. ASSUME NEW o \in Operators,
                 \/ TakeLabel(o) \/ CreatePackage(o) \/ BeginApproval(o) \/ Describe(o)
                 \/ EndScan(o) \/ Demote(o) \/ EndDemotions(o) \/ WriteOwn(o) \/ HaltOperation(o)
          PROVE  HostedInv'
      BY <2>3, RegisterKeeps, BeginKeeps, ScanKeeps, DemoteKeeps, EndDemotionsKeeps,
         WriteOwnKeeps, HaltKeeps
    <2> QED BY <2>1, <2>2, <2>3 DEF HostedNext
  <1>3. HostedInv => ChampionTold
    <2> SUFFICES ASSUME HostedInv, Addressable, ~overlapped
                 PROVE  /\ ChampionLabels \subseteq {crowned}
                        /\ halted = 0 /\ (\A o \in Operators : ~Approving(o)) =>
                             GetChampion = crowned
      BY DEF ChampionTold
    <2>1. HostedTyped /\ CrownTold /\ packages \in Seq(Package) /\ DOMAIN packages = 1..Len(packages)
      BY LenProperties DEF HostedInv, HostedTyped
    <2>2. \A i \in DOMAIN packages :
            StatusFrom(packages[i]) = "champion" <=> packages[i].approval = "champion"
      BY <2>1, ElementOfSeq DEF StatusFrom, Package, Unmarked
    <2>3. ChampionLabels \subseteq {crowned}
      BY <2>1, <2>2 DEF CrownTold, ChampionLabels
    <2>4. ASSUME halted = 0, \A o \in Operators : ~Approving(o)
          PROVE  GetChampion = crowned
      <3>1. Listed = packages
        BY <2>1, PageShows DEF Addressable
      <3>2. GetChampion = IF ChampionLabels = {} THEN NoLabel ELSE Max(ChampionLabels)
        BY <3>1 DEF GetChampion, ChampionLabels
      <3>3. CASE crowned = NoLabel
        <4>1. \A i \in DOMAIN packages : packages[i].label # NoLabel
          <5>1. \A i \in DOMAIN packages : packages[i].label \in 1..MaxPackages
            <6>1. \A i \in DOMAIN packages : packages[i] \in Package
              BY <2>1, ElementOfSeq
            <6> QED BY <6>1 DEF Package, Labels
          <5> QED BY <5>1, HostedBounds DEF NoLabel
        <4>2. ChampionLabels = {}
          BY <2>3, <3>3, <4>1 DEF ChampionLabels
        <4> QED BY <3>2, <3>3, <4>2
      <3>4. CASE crowned # NoLabel
        <4>1. crowned \in ChampionLabels
          BY <2>1, <2>2, <2>4, <3>4 DEF CrownTold, Crowning, Approving, ChampionLabels
        <4>2. ChampionLabels = {crowned}
          BY <2>3, <4>1
        <4>3. crowned \in Nat
          BY <2>1, HostedBounds DEF HostedTyped, Labels, NoLabel
        <4> QED BY <3>2, <4>2, <4>3, MaxOfOne
      <3> QED BY <3>3, <3>4
    <2> QED BY <2>3, <2>4
  <1> QED BY <1>1, <1>2, <1>3, PTL DEF HostedSpec

-----------------------------------------------------------------------------
(* Reviews by a model.  The requests made and those still to be made are   *)
(* those of the subject in their order, each made one has a log that paid  *)
(* for its end, and a complete review is what its attempts make it.        *)

Attempt ==
  [request : ReviewTypes, result : {NoResult} \cup AnswerBody,
   error : {"none", "provider", "schema"}, calls : Seq(BedrockClasses \cup {"answered"})]

MostCalls == IF provider = "bedrock" THEN Allowance ELSE 1

Sound(attempt) ==
  LET calls == attempt.calls IN
  /\ Len(calls) <= MostCalls
  /\ \A k \in 1..(Len(calls) - 1) : calls[k] \in Retryable
  /\ calls # << >> /\ attempt.error # "none" =>
       \/ calls[Len(calls)] \in {"answered"} \cup (BedrockClasses \ Retryable)
       \/ Len(calls) = MostCalls
  /\ attempt.error = "none" =>
       /\ calls # << >> /\ calls[Len(calls)] = "answered"
       /\ attempt.result \in AnswerBody /\ ValidResult(attempt.result)
       /\ attempt.result.type = attempt.request \/ provider = "mock"
  /\ attempt.error # "none" => attempt.result = NoResult

Asked == IF provider = "nobody" THEN << >> ELSE RequestsOf(subject)

InOrder ==
  /\ Len(attempts) + Len(pending) = Len(Asked)
  /\ \A i \in 1..Len(attempts) : attempts[i].request = Asked[i]
  /\ \A k \in 1..Len(pending) : pending[k] = Asked[Len(attempts) + k]

ReviewTyped ==
  /\ subject \in Sheets \cup Exceptions \cup {Nothing}
  /\ provider \in {"bedrock", "openai", "mock", "nobody"}
  /\ pending \in Seq(ReviewTypes) /\ attempts \in Seq(Attempt)
  /\ tries \in Seq(Retryable) /\ Len(tries) < Allowance
  /\ tries # << >> => provider = "bedrock"
  /\ subject = Nothing => provider = "nobody" /\ outcome = NoOutcome
  /\ subject # Nothing /\ provider = "nobody" => subject.kind = "sheet"

Told ==
  outcome # NoOutcome =>
    /\ subject # Nothing /\ pending = << >>
    /\ outcome = IF subject.kind = "sheet" THEN SheetReview(subject, attempts)
                 ELSE ExceptionReview(subject, attempts)

ModelReviewInv ==
  /\ ReviewTyped /\ InOrder /\ Told
  /\ \A i \in DOMAIN attempts : Sound(attempts[i])

LEMMA FiniteImage ==
  ASSUME NEW S, IsFiniteSet(S), NEW V, NEW f \in [S -> V]
  PROVE  IsFiniteSet({f[x] : x \in S})
  <1> DEFINE T == {f[x] : x \in S}
  <1>1. f \in [S -> T] /\ \A y \in T : \E x \in S : f[x] = y
    OBVIOUS
  <1>2. f \in Surjection(S, T)
    BY <1>1 DEF Surjection
  <1> QED BY <1>2, FS_Surjection

LEMMA SequenceFinite ==
  ASSUME NEW S, NEW seq \in Seq(S)
  PROVE  /\ DOMAIN seq = 1..Len(seq) /\ Len(seq) \in Nat
         /\ IsFiniteSet(DOMAIN seq) /\ IsFiniteSet(ToSet(seq)) /\ ToSet(seq) \subseteq S
  <1>1. /\ DOMAIN seq = 1..Len(seq) /\ Len(seq) \in Nat
        /\ seq \in [DOMAIN seq -> S]
    BY LenProperties
  <1>2. IsFiniteSet(DOMAIN seq)
    <2> DEFINE n == Len(seq)
    <2>1. n \in Int /\ DOMAIN seq = 1..n
      BY <1>1
    <2> HIDE DEF n
    <2>2. IsFiniteSet(1..n)
      BY <2>1, FS_Interval
    <2> QED BY <2>1, <2>2
  <1>3. IsFiniteSet({seq[i] : i \in DOMAIN seq})
    BY <1>1, <1>2, FiniteImage
  <1>4. ToSet(seq) = {seq[i] : i \in DOMAIN seq}
    BY DEF ToSet
  <1>5. \A i \in DOMAIN seq : seq[i] \in S
    BY <1>1, ElementOfSeq
  <1> QED BY <1>1, <1>2, <1>3, <1>4, <1>5

\* A sheet asks about finitely many texts, and then once more.
LEMMA TextsFinite ==
  ASSUME NEW sheet \in Sheets
  PROVE  Cardinality(CategoryTexts(sheet)) \in Nat
  <1> DEFINE flagged == {f \in ToSet(sheet.findings) :
                           f.code = "category_mismatch" /\ f.field = "category"}
             asked == {CategoryAt(sheet, f.row) : f \in flagged}
             all == {row.category : row \in ToSet(sheet.rows)}
             At == [f \in flagged |-> CategoryAt(sheet, f.row)]
             Of == [row \in ToSet(sheet.rows) |-> row.category]
  <1>1. IsFiniteSet(ToSet(sheet.findings)) /\ IsFiniteSet(ToSet(sheet.rows))
    BY ReviewedTyped, SequenceFinite
  <1>2. IsFiniteSet(flagged)
    BY <1>1, FS_Subset
  <1>3. IsFiniteSet({At[f] : f \in flagged})
    <2>1. At \in [flagged -> asked]
      OBVIOUS
    <2> HIDE DEF At, flagged, asked
    <2> QED BY <1>2, <2>1, FiniteImage
  <1>4. IsFiniteSet({Of[row] : row \in ToSet(sheet.rows)})
    <2>1. Of \in [ToSet(sheet.rows) -> all]
      OBVIOUS
    <2> HIDE DEF Of, all
    <2> QED BY <1>1, <2>1, FiniteImage
  <1>5. asked = {At[f] : f \in flagged} /\ all = {Of[row] : row \in ToSet(sheet.rows)}
    OBVIOUS
  <1>6. CategoryTexts(sheet) \subseteq asked \cup all
    BY DEF CategoryTexts
  <1> HIDE DEF asked, all, At, Of, flagged
  <1>7. IsFiniteSet(asked \cup all)
    BY <1>3, <1>4, <1>5, FS_Union
  <1> QED BY <1>6, <1>7, FS_Subset, FS_CardinalityType

LEMMA RequestsAre ==
  ASSUME NEW work \in Sheets \cup Exceptions
  PROVE  /\ RequestsOf(work) \in Seq(ReviewTypes)
         /\ work.kind = "exception" => Len(RequestsOf(work)) = 1
         /\ work.kind = "sheet" =>
              LET n == Cardinality(CategoryTexts(work)) IN
              /\ n \in Nat /\ Len(RequestsOf(work)) = n + 1
              /\ RequestsOf(work)[n + 1] = "supplier_summary"
         /\ work.kind \in {"sheet", "exception"}
  <1>1. work.kind = "exception" => RequestsOf(work) = <<"reconciliation_explanation">>
    BY DEF RequestsOf
  <1>2. ASSUME work.kind = "sheet"
        PROVE  LET n == Cardinality(CategoryTexts(work)) IN
               /\ n \in Nat /\ Len(RequestsOf(work)) = n + 1
               /\ RequestsOf(work)[n + 1] = "supplier_summary"
               /\ RequestsOf(work) \in Seq(ReviewTypes)
    <2> DEFINE n == Cardinality(CategoryTexts(work))
               texts == [i \in 1..n |-> "category_suggestion"]
               last == <<"supplier_summary">>
    <2>1. n \in Nat
      BY <1>2, TextsFinite, ReviewedTyped
    <2>2. RequestsOf(work) = texts \o last
      BY <1>2 DEF RequestsOf
    <2> HIDE DEF n
    <2>3. texts \in Seq(ReviewTypes) /\ Len(texts) = n
      <3>1. texts \in [1..n -> ReviewTypes]
        BY DEF ReviewTypes
      <3>2. texts \in Seq(ReviewTypes)
        BY <2>1, <3>1, SeqDef
      <3> QED BY <2>1, <3>1, <3>2, LenProperties
    <2>4. last \in Seq(ReviewTypes) /\ Len(last) = 1 /\ last[1] = "supplier_summary"
      BY DEF ReviewTypes
    <2> HIDE DEF texts, last
    <2>5. /\ texts \o last \in Seq(ReviewTypes) /\ Len(texts \o last) = n + 1
          /\ \A i \in 1..(n + 1) : (texts \o last)[i] = IF i <= n THEN texts[i] ELSE last[i - n]
      <3>1. /\ texts \o last \in Seq(ReviewTypes) /\ Len(texts \o last) = Len(texts) + Len(last)
            /\ \A i \in 1..(Len(texts) + Len(last)) :
                 (texts \o last)[i] = IF i <= Len(texts) THEN texts[i] ELSE last[i - Len(texts)]
        BY <2>3, <2>4, ConcatProperties
      <3>2. Len(texts) = n /\ Len(last) = 1
        BY <2>3, <2>4
      <3> QED BY <3>1, <3>2
    <2>6. (texts \o last)[n + 1] = "supplier_summary"
      <3>1. n + 1 \in 1..(n + 1) /\ ~(n + 1 <= n) /\ (n + 1) - n = 1
        BY <2>1
      <3> QED BY <2>4, <2>5, <3>1
    <2> QED BY <2>1, <2>2, <2>5, <2>6 DEF n
  <1>3. work.kind = "exception" => RequestsOf(work) \in Seq(ReviewTypes) /\ Len(RequestsOf(work)) = 1
    <2>1. <<"reconciliation_explanation">> \in Seq(ReviewTypes)
            /\ Len(<<"reconciliation_explanation">>) = 1
      BY DEF ReviewTypes
    <2> QED BY <1>1, <2>1
  <1>4. work.kind \in {"sheet", "exception"}
    BY ReviewedTyped
  <1> QED BY <1>2, <1>3, <1>4

LEMMA AllowanceIsNumber == Allowance \in Nat \ {0}
  BY ReviewerBounds DEF Allowance

LEMMA AskedIsSequence ==
  ASSUME ReviewTyped
  PROVE  Asked \in Seq(ReviewTypes) /\ Len(Asked) \in Nat
  <1>1. CASE provider = "nobody"
    BY <1>1, EmptySeq DEF Asked
  <1>2. CASE provider # "nobody"
    BY <1>2, RequestsAre, LenProperties DEF Asked, ReviewTyped
  <1> QED BY <1>1, <1>2

\* The request under way is made and the next one is due.
LEMMA ReviewCloseKeeps ==
  ASSUME ModelReviewInv, pending # << >>, NEW log \in Seq(BedrockClasses \cup {"answered"}),
         NEW result \in {NoResult} \cup AnswerBody, NEW error \in {"none", "provider", "schema"},
         Sound([request |-> Head(pending), result |-> result, error |-> error, calls |-> log]),
         Close([result |-> result, error |-> error], log)
  PROVE  ModelReviewInv'
  <1> DEFINE made == [request |-> Head(pending), result |-> result, error |-> error, calls |-> log]
  <1>1. /\ attempts' = Append(attempts, made) /\ pending' = Tail(pending) /\ tries' = << >>
        /\ UNCHANGED <<subject, provider, outcome>>
    BY DEF Close
  <1>2. /\ ReviewTyped /\ pending \in Seq(ReviewTypes) /\ attempts \in Seq(Attempt)
        /\ Len(pending) \in Nat /\ Len(attempts) \in Nat /\ DOMAIN attempts = 1..Len(attempts)
        /\ InOrder
    BY LenProperties DEF ModelReviewInv, ReviewTyped
  <1>3. /\ Head(pending) = pending[1] /\ Head(pending) \in ReviewTypes
        /\ pending' \in Seq(ReviewTypes) /\ Len(pending') = Len(pending) - 1
        /\ \A k \in 1..Len(pending') : pending'[k] = pending[k + 1]
        /\ 1 <= Len(pending)
    BY <1>1, <1>2, HeadTailProperties, EmptySeq
  <1>4. made \in Attempt /\ made.request = pending[1] /\ Sound(made)
    BY <1>3 DEF Attempt
  <1> HIDE DEF made
  <1>5. /\ attempts' \in Seq(Attempt) /\ Len(attempts') = Len(attempts) + 1
        /\ \A i \in 1..Len(attempts) : attempts'[i] = attempts[i]
        /\ attempts'[Len(attempts) + 1] = made
    BY <1>1, <1>2, <1>4, AppendProperties
  <1>6. DOMAIN attempts' = 1..(Len(attempts) + 1)
    BY <1>5, LenProperties
  <1>7. ReviewTyped'
    <2>1. << >> \in Seq(Retryable) /\ Len(<< >>) < Allowance
      BY EmptySeq, AllowanceIsNumber
    <2> QED BY <1>1, <1>2, <1>3, <1>5, <2>1 DEF ReviewTyped
  <1>8. Asked' = Asked
    BY <1>1 DEF Asked
  <1>9. InOrder'
    <2>1. Len(attempts') + Len(pending') = Len(Asked)
      <3>1. Len(attempts) + Len(pending) = Len(Asked)
        BY <1>2 DEF InOrder
      <3>2. /\ Len(attempts') = Len(attempts) + 1 /\ Len(pending') = Len(pending) - 1
            /\ Len(attempts) \in Nat /\ Len(pending) \in Nat
        BY <1>2, <1>3, <1>5
      <3>3. Len(Asked) \in Nat
        BY <1>2, AskedIsSequence
      <3> QED BY <3>1, <3>2, <3>3
    <2>2. ASSUME NEW i \in 1..Len(attempts')
          PROVE  attempts'[i].request = Asked[i]
      <3>1. CASE i = Len(attempts) + 1
        <4>1. 1 \in 1..Len(pending)
          BY <1>2, <1>3
        <4> QED BY <1>2, <1>4, <1>5, <3>1, <4>1 DEF InOrder
      <3>2. CASE i # Len(attempts) + 1
        <4>1. i \in 1..Len(attempts)
          BY <1>2, <1>5, <3>2
        <4> QED BY <1>2, <1>5, <4>1 DEF InOrder
      <3> QED BY <3>1, <3>2
    <2>3. ASSUME NEW k \in 1..Len(pending')
          PROVE  pending'[k] = Asked[Len(attempts') + k]
      <3>1. /\ k + 1 \in 1..Len(pending) /\ k \in Nat
            /\ Len(attempts) + (k + 1) = (Len(attempts) + 1) + k
        BY <1>2, <1>3
      <3> QED BY <1>2, <1>3, <1>5, <3>1 DEF InOrder
    <2> QED BY <1>8, <2>1, <2>2, <2>3 DEF InOrder
  <1>10. Told'
    BY <1>1 DEF ModelReviewInv, Told
  <1>11. \A attempt : Sound(attempt)' <=> Sound(attempt)
    BY <1>1 DEF Sound, MostCalls
  <1>12. \A i \in DOMAIN attempts' : Sound(attempts'[i])
    BY <1>2, <1>4, <1>5, <1>6 DEF ModelReviewInv
  <1>13. (\A i \in DOMAIN attempts : Sound(attempts[i]))'
    BY <1>1, <1>12 DEF Sound, MostCalls
  <1> QED BY <1>7, <1>9, <1>10, <1>13 DEF ModelReviewInv

LEMMA ReviewInitially == ReviewInit => ModelReviewInv
  <1> SUFFICES ASSUME ReviewInit PROVE ModelReviewInv
    OBVIOUS
  <1>1. /\ subject = Nothing /\ provider = "nobody" /\ pending = << >> /\ tries = << >>
        /\ attempts = << >> /\ outcome = NoOutcome
    BY DEF ReviewInit
  <1>2. ReviewTyped
    <2>1. << >> \in Seq(ReviewTypes) /\ << >> \in Seq(Attempt) /\ << >> \in Seq(Retryable)
          /\ Len(<< >>) < Allowance
      BY EmptySeq, AllowanceIsNumber
    <2> QED BY <1>1, <2>1 DEF ReviewTyped
  <1>3. InOrder
    BY <1>1 DEF InOrder, Asked
  <1>4. Told /\ \A i \in DOMAIN attempts : Sound(attempts[i])
    BY <1>1 DEF Told
  <1> QED BY <1>2, <1>3, <1>4 DEF ModelReviewInv

LEMMA ClassifyIsAClass ==
  ASSUME NEW failure PROVE Classify(failure) \in BedrockClasses
  <1>1. \A code : CodeClass(code) \in BedrockClasses
    BY DEF CodeClass, BedrockClasses
  <1> QED BY <1>1 DEF Classify, BedrockClasses

\* An answer that passed is of the request's type, or the mock's own.
LEMMA AttemptedIs ==
  ASSUME NEW who \in {"bedrock", "openai", "mock"}, NEW answer \in Answers,
         NEW type \in ReviewTypes
  PROVE  /\ Attempted(who, answer, type) =
              [result |-> Attempted(who, answer, type).result,
               error |-> Attempted(who, answer, type).error]
         /\ Attempted(who, answer, type).error \in {"none", "provider", "schema"}
         /\ Attempted(who, answer, type).error # "none" =>
              Attempted(who, answer, type).result = NoResult
         /\ Attempted(who, answer, type).error = "none" =>
              LET result == Attempted(who, answer, type).result IN
              /\ result \in AnswerBody /\ ValidResult(result)
              /\ result.type = type \/ who = "mock"
  <1> DEFINE body == Completed(who, answer.body, type)
             result == Stamped(who, body, type)
  <1>1. body \in AnswerBody /\ (who = "openai" => body.type = type)
    <2>1. answer.body \in AnswerBody
      BY ReviewedTyped
    <2> DEFINE given == answer.body
    <2> HIDE DEF given
    <2>3. given \in AnswerBody
      BY <2>1 DEF given
    <2> QED BY <2>3 DEF Completed, AnswerBody, given
  <1> HIDE DEF body
  <1>2. ValidResult(body) =>
          result \in AnswerBody /\ ValidResult(result) /\ (result.type = type \/ who = "mock")
    <2>2. CASE who = "bedrock"
      <3>1. result = [body EXCEPT !.type = type]
        BY <2>2 DEF Stamped
      <3>2. /\ result \in AnswerBody /\ result.type = type /\ result.shaped = body.shaped
            /\ result.confidence = body.confidence /\ result.version = body.version
        BY <1>1, <3>1 DEF AnswerBody
      <3> QED BY <3>2 DEF ValidResult
    <2>3. CASE who # "bedrock"
      BY <1>1, <2>3 DEF Stamped
    <2> QED BY <2>2, <2>3
  <1>3. \/ Attempted(who, answer, type) = [result |-> NoResult, error |-> "provider"]
        \/ Attempted(who, answer, type) = [result |-> NoResult, error |-> "schema"]
        \/ /\ Attempted(who, answer, type) = [result |-> result, error |-> "none"]
           /\ ValidResult(body)
    BY DEF Attempted, Failed, body
  <1> HIDE DEF result
  <1> QED BY <1>2, <1>3

LEMMA ReviewBeginKeeps ==
  ASSUME ModelReviewInv, NEW work \in Sheets \cup Exceptions,
         NEW who \in {"bedrock", "openai", "mock", "nobody"}, BeginReview(work, who)
  PROVE  ModelReviewInv'
  <1>1. /\ subject = Nothing /\ subject' = work /\ provider' = who
        /\ who = "nobody" => work.kind = "sheet"
        /\ pending' = IF who = "nobody" THEN << >> ELSE RequestsOf(work)
        /\ UNCHANGED <<tries, attempts, outcome>>
    BY DEF BeginReview
  <1>2. /\ provider = "nobody" /\ outcome = NoOutcome /\ Asked = << >>
        /\ ReviewTyped /\ InOrder
    BY <1>1 DEF ModelReviewInv, ReviewTyped, Asked
  <1>3. attempts = << >>
    <2>1. Len(attempts) \in Nat /\ Len(pending) \in Nat /\ Len(attempts) + Len(pending) = 0
      BY <1>2, LenProperties DEF ReviewTyped, InOrder
    <2> QED BY <1>2, <2>1, EmptySeq DEF ReviewTyped
  <1>4. pending' \in Seq(ReviewTypes) /\ pending' = Asked' /\ Len(pending') \in Nat
    <2>1. pending' \in Seq(ReviewTypes)
      BY <1>1, RequestsAre, EmptySeq
    <2> QED BY <1>1, <2>1, LenProperties DEF Asked
  <1>5. work # Nothing
    <2>1. work.kind # "nothing"
      BY ReviewedTyped
    <2> QED BY <2>1 DEF Nothing
  <1>6. tries = << >>
    BY <1>2 DEF ReviewTyped
  <1>7. ReviewTyped'
    BY <1>1, <1>2, <1>4, <1>5, <1>6 DEF ReviewTyped
  <1>8. InOrder'
    <2>1. Len(attempts') = 0
      BY <1>1, <1>3
    <2>2. \A k \in 1..Len(pending') : 0 + k = k
      BY <1>4
    <2> QED BY <1>4, <2>1, <2>2 DEF InOrder
  <1>9. Told' /\ (\A i \in DOMAIN attempts : Sound(attempts[i]))'
    BY <1>1, <1>2, <1>3 DEF Told
  <1> QED BY <1>7, <1>8, <1>9 DEF ModelReviewInv

LEMMA ReviewEndKeeps ==
  ASSUME ModelReviewInv, EndReview
  PROVE  ModelReviewInv'
  <1>1. /\ subject # Nothing /\ pending = << >>
        /\ outcome' = IF subject.kind = "sheet" THEN SheetReview(subject, attempts)
                      ELSE ExceptionReview(subject, attempts)
        /\ UNCHANGED <<subject, provider, pending, tries, attempts>>
    BY DEF EndReview
  <1>2. ReviewTyped' /\ InOrder'
    BY <1>1 DEF ModelReviewInv, ReviewTyped, InOrder, Asked
  <1>3. Told'
    BY <1>1 DEF Told
  <1>4. (\A i \in DOMAIN attempts : Sound(attempts[i]))'
    BY <1>1 DEF ModelReviewInv, Sound, MostCalls
  <1> QED BY <1>2, <1>3, <1>4 DEF ModelReviewInv

\* A log of failures that may pass, and how the last call ended.
LEMMA LogIs ==
  ASSUME ModelReviewInv, NEW end \in BedrockClasses \cup {"answered"}
  PROVE  LET log == Append(tries, end) IN
         /\ log \in Seq(BedrockClasses \cup {"answered"}) /\ log # << >>
         /\ Len(log) = Len(tries) + 1 /\ Len(tries) \in Nat /\ Len(log) <= MostCalls
         /\ log[Len(log)] = end
         /\ \A k \in 1..(Len(log) - 1) : log[k] \in Retryable
  <1> DEFINE log == Append(tries, end)
             S == BedrockClasses \cup {"answered"}
  <1>1. tries \in Seq(Retryable) /\ Len(tries) \in Nat
    BY LenProperties DEF ModelReviewInv, ReviewTyped
  <1>2. Retryable \subseteq S
    BY DEF Retryable, BedrockClasses
  <1>3. tries \in Seq(S)
    BY <1>1, <1>2
  <1>4. /\ log \in Seq(S) /\ Len(log) = Len(tries) + 1 /\ log[Len(tries) + 1] = end
        /\ \A k \in 1..Len(tries) : log[k] = tries[k]
    BY <1>1, <1>3, AppendProperties
  <1>5. \A k \in 1..Len(tries) : tries[k] \in Retryable
    BY <1>1, ElementOfSeq
  <1>6. Len(log) <= MostCalls
    <2>1. Allowance \in Nat /\ Allowance >= 1 /\ Len(tries) < Allowance
          /\ (tries # << >> => provider = "bedrock")
      BY AllowanceIsNumber DEF ModelReviewInv, ReviewTyped
    <2>2. CASE provider = "bedrock"
      BY <1>1, <1>4, <2>1, <2>2 DEF MostCalls
    <2>3. CASE provider # "bedrock"
      <3>1. Len(tries) = 0
        BY <2>1, <2>3
      <3> QED BY <1>4, <2>3, <3>1 DEF MostCalls
    <2> QED BY <2>2, <2>3
  <1>7. log # << >>
    BY <1>1, <1>4
  <1> HIDE DEF log
  <1>8. Len(log) - 1 = Len(tries)
    BY <1>1, <1>4
  <1>9. \A k \in 1..(Len(log) - 1) : log[k] \in Retryable
    BY <1>4, <1>5, <1>8
  <1> QED BY <1>1, <1>4, <1>6, <1>7, <1>9 DEF log

LEMMA ReviewRefuseKeeps ==
  ASSUME ModelReviewInv, RefusePrompt
  PROVE  ModelReviewInv'
  <1>1. pending # << >> /\ Close([result |-> NoResult, error |-> "provider"], << >>)
    BY DEF RefusePrompt, Failed
  <1>2. << >> \in Seq(BedrockClasses \cup {"answered"})
    BY EmptySeq
  <1>3. Sound([request |-> Head(pending), result |-> NoResult, error |-> "provider",
               calls |-> << >>])
    BY AllowanceIsNumber DEF Sound, MostCalls
  <1> QED BY <1>1, <1>2, <1>3, ReviewCloseKeeps

LEMMA ReviewFailureKeeps ==
  ASSUME ModelReviewInv, NEW failure, CallFails(failure)
  PROVE  ModelReviewInv'
  <1> DEFINE class == Classify(failure)
             log == Append(tries, class)
  <1>1. pending # << >>
    BY DEF CallFails
  <1>2. class \in BedrockClasses
    BY ClassifyIsAClass
  <1> HIDE DEF class
  <1>3. /\ log \in Seq(BedrockClasses \cup {"answered"}) /\ log # << >>
        /\ Len(log) = Len(tries) + 1 /\ Len(tries) \in Nat /\ Len(log) <= MostCalls
        /\ log[Len(log)] = class
        /\ \A k \in 1..(Len(log) - 1) : log[k] \in Retryable
    BY <1>2, LogIs
  <1>4. CASE GivesUp(class)
    <2>1. Close([result |-> NoResult, error |-> "provider"], log)
      BY <1>4 DEF CallFails, Failed, class
    <2>2. class \in BedrockClasses \ Retryable \/ Len(log) = MostCalls
      <3>1. MostCalls \in Nat /\ Allowance \in Nat
        BY AllowanceIsNumber DEF MostCalls
      <3>2. CASE provider # "bedrock"
        <4>1. Len(log) <= 1 /\ MostCalls = 1
          BY <1>3, <3>2 DEF MostCalls
        <4> QED BY <1>3, <4>1
      <3>3. CASE class \notin Retryable
        BY <1>2, <3>3
      <3>4. CASE provider = "bedrock" /\ Len(tries) + 1 >= Allowance
        BY <1>3, <3>1, <3>4 DEF MostCalls
      <3> QED BY <1>4, <3>2, <3>3, <3>4 DEF GivesUp
    <2> HIDE DEF log
    <2>3. Sound([request |-> Head(pending), result |-> NoResult, error |-> "provider",
                 calls |-> log])
      BY <1>3, <2>2 DEF Sound
    <2> QED BY <1>1, <1>3, <2>1, <2>3, ReviewCloseKeeps
  <1>5. CASE ~GivesUp(class)
    <2>1. tries' = log /\ UNCHANGED <<subject, provider, pending, attempts, outcome>>
      BY <1>5 DEF CallFails, class
    <2>2. provider = "bedrock" /\ class \in Retryable /\ ~(Len(tries) + 1 >= Allowance)
      BY <1>5 DEF GivesUp
    <2>3. log \in Seq(Retryable) /\ Len(log) < Allowance
      <3>1. tries \in Seq(Retryable) /\ Allowance \in Nat
        BY AllowanceIsNumber DEF ModelReviewInv, ReviewTyped
      <3> QED BY <1>3, <2>2, <3>1, AppendProperties
    <2> HIDE DEF log
    <2>4. ReviewTyped'
      BY <2>1, <2>2, <2>3 DEF ModelReviewInv, ReviewTyped
    <2>5. InOrder' /\ Told'
      BY <2>1 DEF ModelReviewInv, InOrder, Asked, Told
    <2>6. (\A i \in DOMAIN attempts : Sound(attempts[i]))'
      BY <2>1 DEF ModelReviewInv, Sound, MostCalls
    <2> QED BY <2>4, <2>5, <2>6 DEF ModelReviewInv
  <1> QED BY <1>4, <1>5

LEMMA ReviewAnswerKeeps ==
  ASSUME ModelReviewInv, NEW answer \in Answers, CallAnswers(answer)
  PROVE  ModelReviewInv'
  <1> DEFINE attempt == Attempted(provider, answer, Head(pending))
             log == Append(tries, "answered")
  <1>1. pending # << >> /\ Close(attempt, log)
    BY DEF CallAnswers
  <1>2. Head(pending) \in ReviewTypes
    BY <1>1, HeadTailProperties DEF ModelReviewInv, ReviewTyped
  <1>3. provider \in {"bedrock", "openai", "mock"}
    <2>1. CASE provider = "nobody"
      <3>1. Len(attempts) \in Nat /\ Len(pending) \in Nat
            /\ Len(attempts) + Len(pending) = 0
        BY <2>1, LenProperties DEF ModelReviewInv, ReviewTyped, InOrder, Asked
      <3>2. pending = << >>
        BY <3>1, EmptySeq DEF ModelReviewInv, ReviewTyped
      <3> QED BY <1>1, <3>2
    <2> QED BY <2>1 DEF ModelReviewInv, ReviewTyped
  <1>4. /\ attempt = [result |-> attempt.result, error |-> attempt.error]
        /\ attempt.error \in {"none", "provider", "schema"}
        /\ attempt.error # "none" => attempt.result = NoResult
        /\ attempt.error = "none" =>
             /\ attempt.result \in AnswerBody /\ ValidResult(attempt.result)
             /\ attempt.result.type = Head(pending) \/ provider = "mock"
    BY <1>2, <1>3, AttemptedIs
  <1> HIDE DEF attempt
  <1>5. /\ log \in Seq(BedrockClasses \cup {"answered"}) /\ log # << >>
        /\ Len(log) <= MostCalls /\ log[Len(log)] = "answered"
        /\ \A k \in 1..(Len(log) - 1) : log[k] \in Retryable
    BY LogIs
  <1> HIDE DEF log
  <1>6. Sound([request |-> Head(pending), result |-> attempt.result, error |-> attempt.error,
               calls |-> log])
    BY <1>4, <1>5 DEF Sound
  <1>7. Close([result |-> attempt.result, error |-> attempt.error], log)
    BY <1>1, <1>4
  <1> QED BY <1>1, <1>4, <1>5, <1>6, <1>7, ReviewCloseKeeps

LEMMA ReviewStep == ModelReviewInv /\ [ReviewNext]_reviewVars => ModelReviewInv'
  <1> SUFFICES ASSUME ModelReviewInv, [ReviewNext]_reviewVars PROVE ModelReviewInv'
    OBVIOUS
  <1>1. ASSUME NEW work \in Sheets \cup Exceptions,
               NEW who \in {"bedrock", "openai", "mock", "nobody"}, BeginReview(work, who)
        PROVE  ModelReviewInv'
    BY <1>1, ReviewBeginKeeps
  <1>2. CASE RefusePrompt
    BY <1>2, ReviewRefuseKeeps
  <1>3. ASSUME NEW failure \in Failures, CallFails(failure)
        PROVE  ModelReviewInv'
    BY <1>3, ReviewFailureKeeps
  <1>4. ASSUME NEW answer \in Answers, CallAnswers(answer)
        PROVE  ModelReviewInv'
    BY <1>4, ReviewAnswerKeeps
  <1>5. CASE EndReview
    BY <1>5, ReviewEndKeeps
  <1>6. CASE UNCHANGED reviewVars
    <2>1. ReviewTyped' /\ InOrder' /\ Told'
      BY <1>6 DEF ModelReviewInv, ReviewTyped, InOrder, Asked, Told, reviewVars
    <2>2. (\A i \in DOMAIN attempts : Sound(attempts[i]))'
      BY <1>6 DEF ModelReviewInv, Sound, MostCalls, reviewVars
    <2> QED BY <2>1, <2>2 DEF ModelReviewInv
  <1> QED BY <1>1, <1>2, <1>3, <1>4, <1>5, <1>6 DEF ReviewNext

LEMMA ReviewInvariant == ReviewSpec => []ModelReviewInv
  BY ReviewInitially, ReviewStep, PTL DEF ReviewSpec

LEMMA PaidFromInv == ModelReviewInv => CallsPaidFor
  <1> SUFFICES ASSUME ModelReviewInv PROVE CallsPaidFor
    OBVIOUS
  <1>1. /\ ReviewTyped /\ InOrder /\ Told /\ \A i \in DOMAIN attempts : Sound(attempts[i])
        /\ DOMAIN attempts = 1..Len(attempts) /\ Len(attempts) \in Nat
    BY LenProperties DEF ModelReviewInv, ReviewTyped
  <1>2. ASSUME NEW i \in DOMAIN attempts
        PROVE  LET calls == attempts[i].calls IN
               /\ Len(calls) <= IF provider = "bedrock" THEN Allowance ELSE 1
               /\ \A k \in 1..(Len(calls) - 1) : calls[k] \in Retryable
               /\ calls # << >> /\ attempts[i].error # "none" =>
                    \/ Last(calls) \in {"answered"} \cup (BedrockClasses \ Retryable)
                    \/ Len(calls) = IF provider = "bedrock" THEN Allowance ELSE 1
    <2>1. Sound(attempts[i])
      BY <1>1
    <2> QED BY <2>1 DEF Sound, MostCalls, Last
  <1>3. ASSUME Complete, provider # "nobody"
        PROVE  [i \in DOMAIN attempts |-> attempts[i].request] = RequestsOf(subject)
    <2>1. pending = << >> /\ Asked = RequestsOf(subject) /\ Len(Asked) \in Nat
          /\ Asked \in Seq(ReviewTypes)
      BY <1>1, <1>3, AskedIsSequence DEF Complete, Told, Asked
    <2>2. Len(attempts) = Len(Asked) /\ DOMAIN Asked = 1..Len(Asked)
          /\ Asked \in [1..Len(Asked) -> ReviewTypes]
      BY <1>1, <2>1, LenProperties DEF InOrder
    <2>3. \A i \in DOMAIN Asked : attempts[i].request = Asked[i]
      BY <1>1, <2>2 DEF InOrder
    <2> QED BY <1>1, <2>1, <2>2, <2>3
  <1> QED BY <1>2, <1>3 DEF CallsPaidFor

\* A call is repeated only where that may help and never past the allowance,
\* and every request of a review is made, whatever became of the others.
THEOREM CallsArePaid == ReviewSpec => []CallsPaidFor
  BY ReviewInvariant, PaidFromInv, PTL

LEMMA RouteIs ==
  ASSUME NEW result \in {NoResult} \cup AnswerBody, NEW impact \in Int,
         NEW error, NEW errors \in Nat
  PROVE  LET route == Route(result, impact, error, errors) IN
         /\ route.status = "failed_safe" <=> error # "none"
         /\ route.eligibility = "auto_eligible" =>
              /\ error = "none" /\ result # NoResult /\ errors = 0
              /\ result.risk = "low" /\ ~Below(result.confidence, MinConfidence)
              /\ result.action \in {"accept", "no_action"}
              /\ impact \in -MaxImpact..MaxImpact
  <1> DEFINE size == IF impact < 0 THEN -impact ELSE impact
             reasons ==
               {r \in {"risk", "confidence_below_threshold", "financial_impact_requires_human",
                       "action", "deterministic_errors_require_human"} :
                  \/ r = "risk" /\ result.risk # "low"
                  \/ r = "confidence_below_threshold" /\ Below(result.confidence, MinConfidence)
                  \/ r = "financial_impact_requires_human" /\ size > MaxImpact
                  \/ r = "action" /\ result.action \notin {"accept", "no_action"}
                  \/ r = "deterministic_errors_require_human" /\ errors > 0}
  <1>1. Route(result, impact, error, errors) =
          IF error # "none" THEN [eligibility |-> "ineligible", status |-> "failed_safe"]
          ELSE IF result = NoResult \/ reasons # {}
               THEN [eligibility |-> "human_required", status |-> "pending_human"]
          ELSE [eligibility |-> "auto_eligible", status |-> "suggestion_ready"]
    BY DEF Route
  <1>2. ASSUME reasons = {}
        PROVE  /\ errors = 0 /\ result.risk = "low"
               /\ ~Below(result.confidence, MinConfidence)
               /\ result.action \in {"accept", "no_action"}
               /\ impact \in -MaxImpact..MaxImpact
    <2>1. "risk" \notin reasons /\ "confidence_below_threshold" \notin reasons
          /\ "financial_impact_requires_human" \notin reasons /\ "action" \notin reasons
          /\ "deterministic_errors_require_human" \notin reasons
      BY <1>2
    <2>2. result.risk = "low" /\ result.action \in {"accept", "no_action"}
      BY <2>1
    <2>3. ~Below(result.confidence, MinConfidence)
      BY <2>1
    <2>4. ~(size > MaxImpact) /\ ~(errors > 0)
      BY <2>1
    <2>5. MaxImpact \in Nat
      BY ReviewerBounds
    <2>6. errors = 0
      BY <2>4
    <2>7. impact \in -MaxImpact..MaxImpact
      BY <2>4, <2>5
    <2> QED BY <2>2, <2>3, <2>6, <2>7
  <1> HIDE DEF reasons
  <1> QED BY <1>1, <1>2

LEMMA ConfidenceIs ==
  ASSUME NEW body \in AnswerBody, ValidResult(body), ~Below(body.confidence, MinConfidence)
  PROVE  body.confidence \in {NaN} \cup MinConfidence..100
  <1>1. body.confidence \in Int /\ MinConfidence \in 0..100 /\ NaN = 1000000
    BY ReviewerBounds DEF AnswerBody, NaN
  <1>2. ~Below(100, body.confidence)
    BY DEF ValidResult
  <1> QED BY <1>1, <1>2 DEF Below

LEMMA ResultIsThere ==
  ASSUME NEW body \in AnswerBody
  PROVE  body # NoResult
  <1>1. "confidence" \in DOMAIN body
    BY DEF AnswerBody
  <1>2. "confidence" \notin DOMAIN NoResult
    BY DEF NoResult
  <1> QED BY <1>1, <1>2

LEMMA ErrorsCounted ==
  ASSUME NEW sheet \in Sheets
  PROVE  ErrorCount(sheet) \in Nat
  <1>1. IsFiniteSet(DOMAIN sheet.findings)
    BY ReviewedTyped, SequenceFinite
  <1>2. {i \in DOMAIN sheet.findings : sheet.findings[i].severity = "error"}
          \subseteq DOMAIN sheet.findings
    OBVIOUS
  <1> QED BY <1>1, <1>2, FS_Subset, FS_CardinalityType DEF ErrorCount

\* What a sheet's review stands on.
LEMMA PrimaryIs ==
  ASSUME ModelReviewInv
  PROVE  /\ Primary(attempts) \in {NoResult} \cup AnswerBody
         /\ Primary(attempts) = NoResult <=> \A i \in DOMAIN attempts : attempts[i].error # "none"
         /\ Primary(attempts) # NoResult =>
              \E i \in DOMAIN attempts :
                attempts[i].error = "none" /\ attempts[i].result = Primary(attempts)
  <1>1. /\ \A i \in DOMAIN attempts : Sound(attempts[i])
        /\ DOMAIN attempts = 1..Len(attempts) /\ Len(attempts) \in Nat
    BY LenProperties DEF ModelReviewInv, ReviewTyped
  <1>2. CASE Succeeded(attempts) = {}
    BY <1>2 DEF Primary, Succeeded
  <1>3. CASE Succeeded(attempts) # {}
    <2>1. Succeeded(attempts) \subseteq Nat
      BY <1>1 DEF Succeeded
    <2>2. Min(Succeeded(attempts)) \in Succeeded(attempts)
      BY <1>3, <2>1, MinIsLeast
    <2>3. Len(attempts) \in DOMAIN attempts
      BY <1>1, <1>3 DEF Succeeded
    <2>4. PICK i \in Succeeded(attempts) : Primary(attempts) = attempts[i].result
      BY <1>3, <2>2, <2>3 DEF Primary, Succeeded, Last
    <2>5. i \in DOMAIN attempts /\ attempts[i].error = "none"
      BY DEF Succeeded
    <2>6. attempts[i].result \in AnswerBody
      BY <1>1, <2>5 DEF Sound
    <2> QED BY <2>4, <2>5, <2>6, ResultIsThere
  <1> QED BY <1>2, <1>3

\* An answer that may skip the queue was asked for and answered.
LEMMA SoundResult ==
  ASSUME ModelReviewInv, NEW i \in DOMAIN attempts, attempts[i].error = "none"
  PROVE  /\ attempts[i].result \in AnswerBody /\ ValidResult(attempts[i].result)
         /\ attempts[i].calls # << >> /\ Last(attempts[i].calls) = "answered"
         /\ attempts[i].result.type = attempts[i].request \/ provider = "mock"
  <1>1. Sound(attempts[i])
    BY DEF ModelReviewInv
  <1> QED BY <1>1 DEF Sound, Last

LEMMA SheetRoute ==
  ASSUME ModelReviewInv, Complete, subject.kind = "sheet"
  PROVE  RouteEarned
  <1> DEFINE primary == Primary(attempts)
             errors == ErrorCount(subject)
             error == IF primary # NoResult \/ attempts = << >> THEN "none"
                      ELSE attempts[Min(Broken(attempts))].error
             suggesting == {i \in Succeeded(attempts) :
               attempts[i].result.suggests /\ attempts[i].request = "category_suggestion"}
  <1>1. /\ subject # Nothing /\ pending = << >> /\ outcome = SheetReview(subject, attempts)
        /\ DOMAIN attempts = 1..Len(attempts) /\ Len(attempts) \in Nat
        /\ attempts \in Seq(Attempt) /\ InOrder /\ ReviewTyped
    BY LenProperties DEF ModelReviewInv, ReviewTyped, Complete, Told
  <1>2. subject \in Sheets
    <2>1. \A item \in Exceptions : item.kind # "sheet"
      BY ReviewedTyped
    <2> QED BY <1>1, <2>1 DEF ReviewTyped
  <1>3. errors \in Nat /\ Errors(subject) = errors
    BY <1>2, ErrorsCounted DEF Errors
  <1>4. /\ primary \in {NoResult} \cup AnswerBody
        /\ primary = NoResult <=> \A i \in DOMAIN attempts : attempts[i].error # "none"
        /\ primary # NoResult =>
             \E i \in DOMAIN attempts :
               attempts[i].error = "none" /\ attempts[i].result = primary
    BY PrimaryIs
  <1>5. /\ outcome.result = primary /\ outcome.route = Route(primary, 0, error, errors)
        /\ outcome.action = IF errors > 0 THEN "request_correction"
                            ELSE IF primary = NoResult THEN "human_review" ELSE primary.action
        /\ outcome.suggestions = Cardinality(suggesting)
    <2> DEFINE action == IF errors > 0 THEN "request_correction"
                         ELSE IF primary = NoResult THEN "human_review" ELSE primary.action
               priorities == Prioritized(subject, primary)
               route == Route(primary, 0, error, errors)
               suggestions == Cardinality(suggesting)
    <2>1. outcome = [result |-> primary, route |-> route, action |-> action, risk |-> Missing,
                     priorities |-> priorities, suggestions |-> suggestions]
      BY <1>1, Zenon DEF SheetReview
    <2> HIDE DEF primary, route, action, priorities, suggestions
    <2>2. outcome.result = primary /\ outcome.route = route /\ outcome.action = action
          /\ outcome.suggestions = suggestions
      BY <2>1
    <2> QED BY <2>2 DEF route, action, suggestions
  <1>6. error # "none" <=> primary = NoResult /\ attempts # << >>
    <2>1. ASSUME primary = NoResult, attempts # << >>
          PROVE  attempts[Min(Broken(attempts))].error # "none"
      <3>1. Broken(attempts) = DOMAIN attempts
        BY <1>4, <2>1 DEF Broken, Succeeded
      <3>2. DOMAIN attempts # {} /\ DOMAIN attempts \subseteq Nat
        <4>1. Len(attempts) # 0
          BY <1>1, <2>1, EmptySeq
        <4>2. 1 \in DOMAIN attempts
          BY <1>1, <4>1
        <4> QED BY <1>1, <4>2
      <3>3. Min(Broken(attempts)) \in DOMAIN attempts
        BY <3>1, <3>2, MinIsLeast
      <3> QED BY <1>4, <2>1, <3>3
    <2> QED BY <2>1
  <1>7. outcome.suggestions <= Cardinality(CategoryTexts(subject))
    <2> DEFINE n == Cardinality(CategoryTexts(subject))
    <2>1. n \in Nat
      BY <1>2, TextsFinite
    <2>2. suggesting \subseteq 1..n
      <3>1. CASE provider = "nobody"
        <4>1. Len(attempts) = 0
          BY <1>1, <3>1, LenProperties DEF InOrder, Asked, ReviewTyped
        <4> QED BY <1>1, <4>1 DEF Succeeded
      <3>2. CASE provider # "nobody"
        <4>1. Asked = RequestsOf(subject) /\ Len(Asked) = n + 1
              /\ Asked[n + 1] = "supplier_summary"
          BY <1>2, <3>2, RequestsAre DEF Asked
        <4>2. Len(attempts) = n + 1
          BY <1>1, <2>1, <4>1 DEF InOrder
        <4>3. ASSUME NEW i \in suggesting
              PROVE  i \in 1..n
          <5>1. i \in 1..(n + 1) /\ attempts[i].request = "category_suggestion"
            BY <1>1, <4>2 DEF Succeeded
          <5>2. Asked[i] = "category_suggestion"
            BY <1>1, <4>2, <5>1 DEF InOrder
          <5>3. i # n + 1
            BY <4>1, <5>2
          <5> HIDE DEF n
          <5> QED BY <2>1, <5>1, <5>3
        <4> QED BY <4>3
      <3> QED BY <3>1, <3>2
    <2> HIDE DEF n, suggesting
    <2>3. IsFiniteSet(1..n) /\ Cardinality(1..n) = n
      BY <2>1, FS_Interval
    <2>4. Cardinality(suggesting) <= n
      BY <2>2, <2>3, FS_Subset
    <2> QED BY <1>5, <2>4 DEF n
  <1> HIDE DEF primary, errors, error, suggesting
  <1>8. /\ outcome.route.status = "failed_safe" <=> error # "none"
        /\ outcome.route.eligibility = "auto_eligible" =>
             /\ error = "none" /\ primary # NoResult /\ errors = 0
             /\ primary.risk = "low" /\ ~Below(primary.confidence, MinConfidence)
             /\ primary.action \in {"accept", "no_action"}
    BY <1>3, <1>4, <1>5, RouteIs
  <1>9. ASSUME outcome.route.eligibility = "auto_eligible"
        PROVE  /\ \E i \in DOMAIN attempts :
                    /\ attempts[i].result = outcome.result
                    /\ attempts[i].calls # << >> /\ Last(attempts[i].calls) = "answered"
                    /\ outcome.result.type = attempts[i].request \/ provider = "mock"
               /\ outcome.result.risk = "low"
               /\ outcome.result.confidence \in {NaN} \cup MinConfidence..100
               /\ outcome.action \in {"accept", "no_action"}
               /\ Errors(subject) = 0
    <2>1. PICK i \in DOMAIN attempts :
            attempts[i].error = "none" /\ attempts[i].result = primary
      BY <1>4, <1>8, <1>9
    <2>2. /\ primary \in AnswerBody /\ ValidResult(primary)
          /\ attempts[i].calls # << >> /\ Last(attempts[i].calls) = "answered"
          /\ primary.type = attempts[i].request \/ provider = "mock"
      BY <2>1, SoundResult
    <2>3. primary.confidence \in {NaN} \cup MinConfidence..100
      BY <1>8, <1>9, <2>2, ConfidenceIs
    <2>4. errors = 0 /\ ~(errors > 0) /\ primary # NoResult
      BY <1>8, <1>9
    <2>5. outcome.action = primary.action /\ outcome.result = primary
      BY <1>5, <2>4
    <2>6. primary.risk = "low" /\ primary.action \in {"accept", "no_action"}
      BY <1>8, <1>9
    <2>7. Errors(subject) = 0
      BY <1>3, <2>4
    <2> QED BY <2>1, <2>2, <2>3, <2>5, <2>6, <2>7
  <1>10. outcome.route.status = "failed_safe" <=>
           attempts # << >> /\ \A i \in DOMAIN attempts : attempts[i].error # "none"
    BY <1>4, <1>6, <1>8
  <1>11. Errors(subject) > 0 => outcome.action = "request_correction"
    BY <1>3, <1>5
  <1> QED BY <1>7, <1>9, <1>10, <1>11 DEF RouteEarned

LEMMA ExceptionRoute ==
  ASSUME ModelReviewInv, Complete, subject.kind # "sheet"
  PROVE  RouteEarned
  <1> DEFINE attempt == attempts[1]
  <1>1. /\ subject # Nothing /\ pending = << >> /\ outcome = ExceptionReview(subject, attempts)
        /\ DOMAIN attempts = 1..Len(attempts) /\ Len(attempts) \in Nat
        /\ attempts \in Seq(Attempt) /\ InOrder /\ ReviewTyped
    BY LenProperties DEF ModelReviewInv, ReviewTyped, Complete, Told
  <1>2. subject \in Exceptions /\ subject.kind = "exception" /\ subject.impact \in Int
    <2>1. \A sheet \in Sheets : sheet.kind = "sheet"
      BY ReviewedTyped
    <2> QED BY <1>1, <2>1, ReviewedTyped DEF ReviewTyped
  <1>3. Len(attempts) = 1 /\ DOMAIN attempts = {1}
    <2>1. provider # "nobody"
      BY <1>1 DEF ReviewTyped
    <2>2. Len(Asked) = 1
      BY <1>2, <2>1, RequestsAre DEF Asked
    <2>3. Len(pending) = 0
      BY <1>1, EmptySeq
    <2>4. Len(attempts) + Len(pending) = Len(Asked)
      BY <1>1 DEF InOrder
    <2>5. Len(attempts) \in Nat
      BY <1>1
    <2>6. Len(attempts) + 0 = 1
      BY <2>2, <2>3, <2>4
    <2>7. Len(attempts) = 1
      BY <2>5, <2>6
    <2> QED BY <1>1, <2>7
  <1>4. attempts # << >>
    BY <1>3
  <1>5. attempt \in Attempt /\ Sound(attempt)
    BY <1>1, <1>3, ElementOfSeq DEF ModelReviewInv
  <1>6. /\ attempt.result \in {NoResult} \cup AnswerBody
        /\ attempt.error # "none" => attempt.result = NoResult
    BY <1>5 DEF Attempt, Sound
  <1>7. /\ outcome.result = attempt.result
        /\ outcome.route = Route(attempt.result, subject.impact, attempt.error, 0)
        /\ outcome.action = IF attempt.result = NoResult THEN "human_review"
                            ELSE attempt.result.action
    BY <1>1 DEF ExceptionReview
  <1> DEFINE result == attempt.result
             impact == subject.impact
             error == attempt.error
  <1>8. /\ outcome.route.status = "failed_safe" <=> error # "none"
        /\ outcome.route.eligibility = "auto_eligible" =>
             /\ error = "none" /\ result # NoResult
             /\ result.risk = "low" /\ ~Below(result.confidence, MinConfidence)
             /\ result.action \in {"accept", "no_action"}
             /\ impact \in -MaxImpact..MaxImpact
    <2>1. result \in {NoResult} \cup AnswerBody /\ impact \in Int /\ 0 \in Nat
      BY <1>2, <1>6
    <2>2. outcome.route = Route(result, impact, error, 0)
      BY <1>7
    <2> HIDE DEF result, impact, error
    <2> QED BY <2>1, <2>2, RouteIs
  <1>9. ASSUME outcome.route.eligibility = "auto_eligible"
        PROVE  /\ \E i \in DOMAIN attempts :
                    /\ attempts[i].result = outcome.result
                    /\ attempts[i].calls # << >> /\ Last(attempts[i].calls) = "answered"
                    /\ outcome.result.type = attempts[i].request \/ provider = "mock"
               /\ outcome.result.risk = "low"
               /\ outcome.result.confidence \in {NaN} \cup MinConfidence..100
               /\ outcome.action \in {"accept", "no_action"}
               /\ subject.impact \in -MaxImpact..MaxImpact
    <2>1. 1 \in DOMAIN attempts /\ attempts[1].error = "none"
      BY <1>3, <1>8, <1>9
    <2>2. /\ result \in AnswerBody /\ ValidResult(result)
          /\ attempts[1].calls # << >> /\ Last(attempts[1].calls) = "answered"
          /\ result.type = attempts[1].request \/ provider = "mock"
      BY <2>1, SoundResult
    <2>3. result.confidence \in {NaN} \cup MinConfidence..100
      BY <1>8, <1>9, <2>2, ConfidenceIs
    <2> QED BY <1>7, <1>8, <1>9, <2>1, <2>2, <2>3
  <1>10. outcome.route.status = "failed_safe" <=>
           attempts # << >> /\ \A i \in DOMAIN attempts : attempts[i].error # "none"
    BY <1>3, <1>4, <1>8
  <1>11. Errors(subject) = 0
    BY <1>2 DEF Errors
  <1> QED BY <1>2, <1>9, <1>10, <1>11 DEF RouteEarned

\* The findings are in one order, whatever ties there are.
LEMMA PrecedesOrders ==
  ASSUME NEW findings \in Seq(SheetFinding),
         NEW i \in DOMAIN findings, NEW j \in DOMAIN findings, NEW k \in DOMAIN findings
  PROVE  /\ ~Precedes(findings, i, i)
         /\ i = j \/ Precedes(findings, i, j) \/ Precedes(findings, j, i)
         /\ Precedes(findings, i, j) /\ Precedes(findings, j, k) => Precedes(findings, i, k)
  <1> DEFINE f(n) == findings[n]
             rank(n) == Rank(f(n).severity)
  <1>1. /\ i \in Int /\ j \in Int /\ k \in Int
        /\ f(i) \in SheetFinding /\ f(j) \in SheetFinding /\ f(k) \in SheetFinding
    BY LenProperties, ElementOfSeq
  <1>2. \A n \in {i, j, k} : f(n).order \in Int /\ f(n).row \in Int /\ rank(n) \in Int
    BY <1>1 DEF SheetFinding, Rank
  <1>3. \A m, n \in {i, j, k} : Precedes(findings, m, n) <=>
          \/ rank(m) < rank(n)
          \/ rank(m) = rank(n) /\ f(m).order < f(n).order
          \/ rank(m) = rank(n) /\ f(m).order = f(n).order /\ f(m).row < f(n).row
          \/ rank(m) = rank(n) /\ f(m).order = f(n).order /\ f(m).row = f(n).row /\ m < n
    BY DEF Precedes
  <1> HIDE DEF f, rank
  <1>4. ~Precedes(findings, i, i)
    BY <1>1, <1>2, <1>3
  <1>5. i = j \/ Precedes(findings, i, j) \/ Precedes(findings, j, i)
    BY <1>1, <1>2, <1>3
  <1>6. Precedes(findings, i, j) /\ Precedes(findings, j, k) => Precedes(findings, i, k)
    BY <1>1, <1>2, <1>3
  <1> QED BY <1>4, <1>5, <1>6

\* Counted by those before it, each has a place of its own.
LEMMA PlacesApart ==
  ASSUME NEW findings \in Seq(SheetFinding), NEW S, S \subseteq DOMAIN findings,
         NEW place, place = [i \in S |-> 1 + Cardinality({j \in S : Precedes(findings, j, i)})]
  PROVE  /\ Cardinality(S) \in Nat
         /\ \A i \in S : place[i] \in 1..Cardinality(S)
         /\ \A i, j \in S : place[i] = place[j] => i = j
  <1> DEFINE before(i) == {j \in S : Precedes(findings, j, i)}
  <1>0. /\ \A i \in S : ~Precedes(findings, i, i)
        /\ \A i, j \in S : i = j \/ Precedes(findings, i, j) \/ Precedes(findings, j, i)
        /\ \A i, j, k \in S :
             Precedes(findings, i, j) /\ Precedes(findings, j, k) => Precedes(findings, i, k)
    <2>1. \A i \in S : i \in DOMAIN findings
      OBVIOUS
    <2> QED BY <2>1, PrecedesOrders
  <1>1. IsFiniteSet(S) /\ Cardinality(S) \in Nat
    BY SequenceFinite, FS_Subset, FS_CardinalityType
  <1>2. ASSUME NEW i \in S
        PROVE  /\ IsFiniteSet(before(i)) /\ Cardinality(before(i)) \in Nat
               /\ Cardinality(before(i) \cup {i}) = Cardinality(before(i)) + 1
               /\ IsFiniteSet(before(i) \cup {i})
               /\ place[i] = Cardinality(before(i)) + 1
    <2>1. before(i) \subseteq S /\ i \notin before(i)
      BY <1>0
    <2>2. place[i] = 1 + Cardinality(before(i))
      OBVIOUS
    <2>3. PICK b : b = before(i)
      OBVIOUS
    <2> HIDE DEF before
    <2>4. b \subseteq S /\ i \notin b
      BY <2>1, <2>3
    <2>5. IsFiniteSet(b) /\ Cardinality(b) \in Nat
      BY <1>1, <2>4, FS_Subset, FS_CardinalityType
    <2>6. IsFiniteSet(b \cup {i}) /\ Cardinality(b \cup {i}) = Cardinality(b) + 1
      BY <2>4, <2>5, FS_AddElement
    <2>7. place[i] = Cardinality(b) + 1
      BY <2>2, <2>3, <2>5
    <2> QED BY <2>3, <2>5, <2>6, <2>7
  <1>3. ASSUME NEW i \in S, NEW j \in S, Precedes(findings, i, j)
        PROVE  place[i] < place[j]
    <2>1. before(i) \cup {i} \subseteq before(j)
      BY <1>3, <1>0
    <2>2. PICK b, c : b = before(i) /\ c = before(j)
      OBVIOUS
    <2>3. /\ Cardinality(b) \in Nat /\ Cardinality(c) \in Nat /\ IsFiniteSet(c)
          /\ Cardinality(b \cup {i}) = Cardinality(b) + 1 /\ b \cup {i} \subseteq c
          /\ place[i] = Cardinality(b) + 1 /\ place[j] = Cardinality(c) + 1
      BY <1>2, <2>1, <2>2
    <2>4. Cardinality(b \cup {i}) <= Cardinality(c)
      BY <2>3, FS_Subset
    <2> QED BY <2>3, <2>4
  <1>4. ASSUME NEW i \in S PROVE place[i] \in 1..Cardinality(S)
    <2>0. before(i) \cup {i} \subseteq S
      OBVIOUS
    <2>1. PICK b : b = before(i)
      OBVIOUS
    <2>2. /\ Cardinality(b) \in Nat /\ Cardinality(b \cup {i}) = Cardinality(b) + 1
          /\ place[i] = Cardinality(b) + 1 /\ b \cup {i} \subseteq S
      BY <1>2, <2>0, <2>1
    <2>3. Cardinality(b \cup {i}) <= Cardinality(S)
      BY <1>1, <2>2, FS_Subset
    <2> QED BY <1>1, <2>2, <2>3
  <1>5. ASSUME NEW i \in S, NEW j \in S, place[i] = place[j] PROVE i = j
    <2>1. place[i] \in Int /\ place[j] \in Int
      BY <1>4, <1>1
    <2>2. ~(place[i] < place[j]) /\ ~(place[j] < place[i])
      BY <1>5, <2>1
    <2>3. ~Precedes(findings, i, j) /\ ~Precedes(findings, j, i)
      BY <1>3, <2>2
    <2> QED BY <2>3, <1>0
  <1> QED BY <1>1, <1>4, <1>5

\* What is shown has the code of every finding, hinted at or not.
LEMMA AllPrioritized ==
  ASSUME NEW sheet, sheet.findings \in Seq(SheetFinding),
         NEW result \in {NoResult} \cup AnswerBody, NEW n \in DOMAIN sheet.findings
  PROVE  sheet.findings[n].code \in ToSet(Prioritized(sheet, result))
  <1> DEFINE findings == sheet.findings
             hinted == IF result = NoResult THEN << >> ELSE result.codes
             unhinted == {i \in DOMAIN findings : findings[i].code \notin ToSet(hinted)}
             place == [i \in unhinted |->
                         1 + Cardinality({j \in unhinted : Precedes(findings, j, i)})]
             total == Cardinality(unhinted)
             rest == [k \in 1..total |-> findings[CHOOSE i \in unhinted : place[i] = k].code]
  <1>1. Prioritized(sheet, result) = hinted \o rest
    BY DEF Prioritized
  <1>2. hinted \in Seq(STRING) /\ Len(hinted) \in Nat /\ DOMAIN hinted = 1..Len(hinted)
    <2>1. CASE result = NoResult
      <3>1. << >> \in Seq(STRING)
        OBVIOUS
      <3>2. hinted \in Seq(STRING)
        BY <2>1, <3>1
      <3> HIDE DEF hinted
      <3> QED BY <3>2, LenProperties
    <2>2. CASE result # NoResult
      <3>1. hinted = result.codes /\ result \in AnswerBody
        BY <2>2
      <3> HIDE DEF hinted
      <3>2. hinted \in Seq(STRING)
        BY <3>1 DEF AnswerBody
      <3> QED BY <3>2, LenProperties
    <2> QED BY <2>1, <2>2
  <1>3. unhinted \subseteq DOMAIN findings
    OBVIOUS
  <1>4. /\ total \in Nat /\ \A i \in unhinted : place[i] \in 1..total
        /\ \A i, j \in unhinted : place[i] = place[j] => i = j
    <2> HIDE DEF unhinted
    <2> QED BY <1>3, PlacesApart
  <1>5. ASSUME NEW i \in unhinted
        PROVE  place[i] \in 1..total /\ rest[place[i]] = findings[i].code
    <2> HIDE DEF unhinted, place, total, findings
    <2>1. place[i] \in 1..total
      BY <1>4
    <2>2. \A j \in unhinted : place[j] = place[i] => j = i
      BY <1>4
    <2>3. (CHOOSE j \in unhinted : place[j] = place[i]) = i
      BY <2>2
    <2> QED BY <2>1, <2>3
  <1> DEFINE V == STRING \cup {rest[k] : k \in 1..total}
  <1>6. /\ hinted \in Seq(V) /\ rest \in Seq(V) /\ Len(rest) = total
    <2>0. rest = [k \in 1..total |-> rest[k]]
      <3> DEFINE shown(k) == findings[CHOOSE i \in unhinted : place[i] = k].code
      <3>1. rest = [k \in 1..total |-> shown(k)]
        OBVIOUS
      <3> HIDE DEF shown, rest, total
      <3> QED BY <3>1
    <2> HIDE DEF hinted, rest, total
    <2>1. STRING \subseteq V /\ rest = [k \in 1..total |-> rest[k]]
            /\ \A k \in 1..total : rest[k] \in V
      BY <2>0
    <2> HIDE DEF total, rest, V
    <2>2. rest \in [1..total -> V]
      BY <2>1
    <2>3. rest \in Seq(V) /\ Len(rest) = total
      BY <1>4, <2>2
    <2>4. hinted \in Seq(V)
      <3>1. hinted \in [1..Len(hinted) -> STRING]
        BY <1>2
      <3>2. hinted \in [1..Len(hinted) -> V]
        BY <2>1, <3>1
      <3> QED BY <1>2, <3>2, SeqDef
    <2> QED BY <2>3, <2>4
  <1>7. \A k \in 1..(Len(hinted) + total) :
          (hinted \o rest)[k] = IF k <= Len(hinted) THEN hinted[k] ELSE rest[k - Len(hinted)]
    <2> HIDE DEF hinted, rest, total, V
    <2> QED BY <1>2, <1>4, <1>6
  <1>8. DOMAIN (hinted \o rest) = 1..(Len(hinted) + total)
    <2> HIDE DEF hinted, rest, total, V
    <2> QED BY <1>2, <1>4, <1>6
  <1>9. CASE n \in unhinted
    <2>1. place[n] \in 1..total /\ rest[place[n]] = findings[n].code
      BY <1>5, <1>9
    <2> DEFINE k == Len(hinted) + place[n]
    <2> HIDE DEF hinted, rest, total, place, findings, V
    <2>2. k \in 1..(Len(hinted) + total) /\ ~(k <= Len(hinted)) /\ k - Len(hinted) = place[n]
      BY <1>2, <1>4, <1>6, <2>1
    <2>3. (hinted \o rest)[k] = findings[n].code /\ k \in DOMAIN (hinted \o rest)
      BY <1>7, <1>8, <2>1, <2>2
    <2> QED BY <1>1, <2>3 DEF ToSet, findings
  <1>10. CASE n \notin unhinted
    <2>1. PICK k \in DOMAIN hinted : hinted[k] = findings[n].code
      BY <1>10 DEF ToSet
    <2> HIDE DEF hinted, rest, total, findings, V
    <2>2. k \in 1..(Len(hinted) + total) /\ k <= Len(hinted)
      BY <1>2, <1>4, <1>6, <2>1
    <2>3. (hinted \o rest)[k] = findings[n].code /\ k \in DOMAIN (hinted \o rest)
      BY <1>7, <1>8, <2>1, <2>2
    <2> QED BY <1>1, <2>3 DEF ToSet, findings
  <1> QED BY <1>9, <1>10

\* The codes a review of a sheet tells are those.
LEMMA SheetTellsFindings ==
  ASSUME ModelReviewInv
  PROVE  FindingsShown
  <1> SUFFICES ASSUME Complete, subject.kind = "sheet", NEW n \in DOMAIN subject.findings
               PROVE  subject.findings[n].code \in ToSet(outcome.priorities)
    BY DEF FindingsShown
  <1> DEFINE primary == Primary(attempts)
  <1>1. outcome = SheetReview(subject, attempts) /\ subject # Nothing
    BY DEF ModelReviewInv, Complete, Told
  <1>2. subject \in Sheets
    <2>1. \A item \in Exceptions : item.kind # "sheet"
      BY ReviewedTyped
    <2> QED BY <1>1, <2>1 DEF ReviewTyped, ModelReviewInv
  <1>3. primary \in {NoResult} \cup AnswerBody
    BY PrimaryIs
  <1>4. outcome.priorities = Prioritized(subject, primary)
    BY <1>1 DEF SheetReview
  <1> HIDE DEF primary
  <1> QED BY <1>2, <1>3, <1>4, AllPrioritized, ReviewedTyped

(***************************************************************************)
(* Whatever the model says and however its service fails, a review without *)
(* a checked answer fails safe, only an earned one may skip the queue, and *)
(* the codes shown are those of every finding.                             *)
(***************************************************************************)
THEOREM RoutesAreEarned == ReviewSpec => []RouteIsEarned
  <1>1. ModelReviewInv => RouteIsEarned
    BY SheetRoute, ExceptionRoute, SheetTellsFindings DEF RouteEarned, RouteIsEarned
  <1> QED BY <1>1, ReviewInvariant, PTL

-----------------------------------------------------------------------------
(* Review cases.                                                           *)

\* A row that was stored stays stored, so a copy of a stored row names one.
SeenStored ==
  \A s \in Sessions :
    pc[s] # "idle" /\ seen[s].status # "absent"
      => cases[request[s].case].status # "absent"

ReviewInv == ReviewTypeOK /\ FeedbackAgrees /\ AuditTellsStatus /\ SeenStored

----------------------------------------------------------------------------
(* The operators.                                                          *)

\* What is written is a row again: each column comes from one of two rows.
LEMMA WrittenType ==
  ASSUME NEW row \in CaseRow, NEW copy \in CaseRow, NEW new \in CaseRow
  PROVE  /\ Written(row, copy, new) \in CaseRow
         /\ Written(row, copy, new).status =
              IF new.status # copy.status THEN new.status ELSE row.status
  <1>1. DOMAIN row = {"status", "name", "subject"}
    BY DEF CaseRow
  <1>2. Written(row, copy, new) =
          [status |-> IF new.status # copy.status THEN new.status ELSE row.status,
           name |-> IF new.name # copy.name THEN new.name ELSE row.name,
           subject |-> IF new.subject # copy.subject THEN new.subject ELSE row.subject]
    BY <1>1 DEF Written
  <1> QED
    BY <1>2 DEF CaseRow

\* An update moves the status of its case where it means to, and marks the
\* case as raced when it was written over a newer row.
LEMMA UpdateEffect ==
  ASSUME ReviewTypeOK, NEW s \in Sessions, NEW to \in Statuses,
         request[s].case \in Cases, request[s].actor \in Actors,
         Update(s, to)
  PROVE  LET c == request[s].case
         IN  /\ cases' \in [Cases -> CaseRow]
             /\ cases'[c].status =
                  IF to # seen[s].status THEN to ELSE cases[c].status
             /\ \A d \in Cases : d # c => cases'[d] = cases[d]
             /\ raced' \subseteq Cases
             /\ cases[c] = seen[s] => raced' = raced
             /\ cases[c] # seen[s] => raced' = raced \cup {c}
  <1> DEFINE c == request[s].case
             new == [status |-> to, name |-> request[s].actor.name,
                     subject |-> request[s].actor.subject]
  <1>1. new \in CaseRow
    BY DEF CaseRow, Names, Subjects
  <1>2. cases[c] \in CaseRow /\ seen[s] \in CaseRow
    BY DEF ReviewTypeOK
  <1>3. cases' = [cases EXCEPT ![c] = Written(cases[c], seen[s], new)]
    BY DEF Update
  <1>4. raced' = IF cases[c] # seen[s] THEN raced \cup {c} ELSE raced
    BY DEF Update
  <1> HIDE DEF new
  <1>5. Written(cases[c], seen[s], new) \in CaseRow
    BY <1>1, <1>2, WrittenType
  <1>6. Written(cases[c], seen[s], new).status =
          IF to # seen[s].status THEN to ELSE cases[c].status
    BY <1>1, <1>2, WrittenType DEF new
  <1> QED
    BY <1>3, <1>4, <1>5, <1>6 DEF ReviewTypeOK

\* A history that ends in another history that tells a status tells it too.
LEMMA TellsAfter ==
  ASSUME NEW events \in Seq(AuditEvent), NEW more \in Seq(AuditEvent),
         NEW status, Tells(more, status)
  PROVE  Tells(events \o more, status) /\ events \o more # << >>
  <1>1. PICK i \in 1..Len(more) :
          /\ StatusEvent(more[i]) /\ more[i].to = status
          /\ \A k \in (i + 1)..Len(more) : ~StatusEvent(more[k])
    BY DEF Tells
  <1> DEFINE all == events \o more
             n == Len(events)
  <1>2. /\ Len(all) = n + Len(more) /\ n \in Nat /\ Len(more) \in Nat
        /\ \A k \in (n + 1)..(n + Len(more)) : all[k] = more[k - n]
    OBVIOUS
  <1> HIDE DEF all, n
  <1>3. n + i \in 1..Len(all) /\ all[n + i] = more[i]
    BY <1>1, <1>2
  <1>4. ASSUME NEW k \in (n + i + 1)..Len(all)
        PROVE  ~StatusEvent(all[k])
    <2>1. i \in Nat /\ n \in Nat /\ Len(more) \in Nat
          /\ n + i + 1 <= k /\ k <= n + Len(more)
      BY <1>2
    <2>2. k - n \in (i + 1)..Len(more) /\ k \in (n + 1)..(n + Len(more))
      BY <2>1
    <2>3. all[k] = more[k - n]
      BY <1>2, <2>2
    <2> QED
      BY <1>1, <2>2, <2>3
  <1>5. Tells(all, status)
    BY <1>1, <1>3, <1>4 DEF Tells
  <1>6. all # << >>
    BY <1>3
  <1> QED
    BY <1>5, <1>6 DEF all

\* An event of another type leaves what a history tells.
LEMMA TellsStill ==
  ASSUME NEW events \in Seq(AuditEvent), NEW event \in AuditEvent,
         NEW status, Tells(events, status), ~StatusEvent(event)
  PROVE  Tells(events \o <<event>>, status) /\ events \o <<event>> # << >>
  <1>1. PICK i \in 1..Len(events) :
          /\ StatusEvent(events[i]) /\ events[i].to = status
          /\ \A k \in (i + 1)..Len(events) : ~StatusEvent(events[k])
    BY DEF Tells
  <1> DEFINE all == events \o <<event>>
  <1>2. /\ Len(all) = Len(events) + 1 /\ Len(events) \in Nat
        /\ all[Len(events) + 1] = event
        /\ \A k \in 1..Len(events) : all[k] = events[k]
    OBVIOUS
  <1> HIDE DEF all
  <1>3. Tells(all, status) /\ all # << >>
    BY <1>1, <1>2 DEF Tells
  <1> QED
    BY <1>3 DEF all

----------------------------------------------------------------------------
(* The requests.                                                           *)

\* What finishing a request does to the copies.
LEMMA DoneCopies ==
  ASSUME ReviewTypeOK, NEW s \in Sessions, Done(s)
  PROVE  /\ pc' \in [Sessions -> {"idle", "reading", "deciding"}]
         /\ DOMAIN request' = Sessions
         /\ seen' \in [Sessions -> CaseRow]
         /\ history' \in [Sessions -> History]
         /\ served' \in 0..MaxRequests
         /\ \A t \in Sessions : pc'[t] # "idle" =>
              pc'[t] = pc[t] /\ request'[t] = request[t] /\ seen'[t] = seen[t]
  <1>1. NoCase \in CaseRow /\ NoHistory \in History
    BY DEF NoCase, NoHistory, CaseRow, History, Statuses
  <1> QED
    BY <1>1 DEF Done, ReviewTypeOK

\* Rows that stay, or stay stored, keep the copies' promise.
LEMMA SeenStays ==
  ASSUME ReviewTypeOK, SeenStored,
         \A c \in Cases : cases[c].status # "absent" => cases'[c].status # "absent",
         \A t \in Sessions : pc'[t] # "idle" =>
           pc'[t] = pc[t] /\ request'[t] = request[t] /\ seen'[t] = seen[t],
         pc' \in [Sessions -> {"idle", "reading", "deciding"}]
  PROVE  SeenStored'
  <1>1. \A t \in Sessions : pc[t] # "idle" => request[t].case \in Cases
    BY DEF ReviewTypeOK, Request
  <1> QED
    BY <1>1 DEF SeenStored

LEMMA ReadInv ==
  ASSUME ReviewInv, NEW s \in Sessions,
         (\E r \in Request : ReadCase(s, r)) \/ ReadHistory(s)
  PROVE  ReviewInv'
  <1> USE DEF ReviewInv
  <1>1. CASE \E r \in Request : ReadCase(s, r)
    <2>1. PICK r \in Request : ReadCase(s, r)
      BY <1>1
    <2>2. r.case \in Cases
      BY DEF Request
    <2>3. ReviewTypeOK'
      BY <2>1, <2>2, MaxRequestsAssumption DEF ReadCase, ReviewTypeOK, caseVars
    <2>4. SeenStored'
      BY <2>1, <2>2 DEF ReadCase, ReviewTypeOK, SeenStored, caseVars
    <2> QED
      BY <2>1, <2>3, <2>4 DEF ReadCase, caseVars, FeedbackAgrees, AuditTellsStatus, Feedback
  <1>2. CASE ReadHistory(s)
    <2>1. request[s].case \in Cases
      BY <1>2 DEF ReadHistory, ReviewTypeOK, Request
    <2>2. ReviewTypeOK'
      BY <1>2, <2>1 DEF ReadHistory, ReviewTypeOK, History, caseVars
    <2>3. SeenStored'
      BY <1>2 DEF ReadHistory, ReviewTypeOK, SeenStored, caseVars
    <2> QED
      BY <1>2, <2>2, <2>3 DEF ReadHistory, caseVars, FeedbackAgrees, AuditTellsStatus, Feedback
  <1> QED
    BY <1>1, <1>2

\* The request a deciding session holds is well formed.
LEMMA RequestHeld ==
  ASSUME ReviewTypeOK, NEW s \in Sessions, pc[s] = "deciding"
  PROVE  /\ request[s] \in Request /\ request[s].case \in Cases
         /\ request[s].op # "create" => request[s].actor \in Actors
         /\ request[s].op = "create" => request[s].result \in BOOLEAN
         /\ request[s].op = "close" => request[s].decision \in Decisions
         /\ seen[s] \in CaseRow /\ seen[s].status \in Statuses
         /\ history[s] \in History
  BY DEF ReviewTypeOK, Request, CaseRow

\* The statuses a transition connects differ, and both are statuses.
LEMMA AllowedStatuses ==
  ASSUME NEW from, NEW to, Allowed(from, to)
  PROVE  /\ from \in {"open", "in_review"} /\ to # from
         /\ to \in Statuses \ {"absent", "open"}
         /\ to \in Decisions => from = "in_review"
  BY DecisionsAssumption DEF Allowed, Statuses

LEMMA CreateInv ==
  ASSUME ReviewInv, NEW s \in Sessions, CreateReview(s)
  PROVE  ReviewInv'
  <1> USE DEF ReviewInv
  <1> DEFINE c == request[s].case
             event == Event("created", System, "absent", "open")
  <1>1. /\ c \in Cases /\ request[s].result \in BOOLEAN
        /\ cases[c].status = "absent"
        /\ cases' = [cases EXCEPT ![c].status = "open"]
        /\ audit' = [audit EXCEPT ![c] = audit[c] \o <<event>>]
        /\ snapshots' = [snapshots EXCEPT ![c] = request[s].result]
        /\ UNCHANGED <<decisions, raced>> /\ Done(s)
    BY RequestHeld DEF CreateReview, Log, MayCreate
  <1>2. event \in AuditEvent /\ StatusEvent(event) /\ event.to = "open"
    BY DEF Event, AuditEvent, EventTypes, Statuses, StatusEvent
  <1> HIDE DEF c, event
  <1>3. /\ cases' \in [Cases -> CaseRow] /\ cases'[c].status = "open"
        /\ \A d \in Cases : d # c => cases'[d] = cases[d]
    <2>1. cases[c] \in CaseRow
      BY <1>1 DEF ReviewTypeOK
    <2>2. /\ [cases[c] EXCEPT !.status = "open"] \in CaseRow
          /\ [cases[c] EXCEPT !.status = "open"].status = "open"
      BY <2>1 DEF CaseRow, Statuses
    <2> QED
      BY <1>1, <2>2 DEF ReviewTypeOK
  <1>4. /\ audit' \in [Cases -> Seq(AuditEvent)]
        /\ audit'[c] = audit[c] \o <<event>>
        /\ \A d \in Cases : d # c => audit'[d] = audit[d]
    BY <1>1, <1>2 DEF ReviewTypeOK
  <1>5. ReviewTypeOK'
    BY <1>1, <1>3, <1>4, DoneCopies DEF ReviewTypeOK, Done
  <1>6. SeenStored'
    BY <1>1, <1>3, DoneCopies, SeenStays
  <1>7. FeedbackAgrees'
    BY <1>1, <1>3, DecisionsAssumption DEF FeedbackAgrees, Feedback
  <1>8. AuditTellsStatus'
    <2>1. Tells(<<event>>, "open") /\ <<event>> \in Seq(AuditEvent)
      BY <1>2 DEF Tells
    <2>2. Tells(audit'[c], "open") /\ audit'[c] # << >>
      BY <1>1, <1>4, <2>1, TellsAfter DEF ReviewTypeOK
    <2> QED
      BY <1>3, <1>4, <2>2 DEF AuditTellsStatus
  <1> QED
    BY <1>5, <1>6, <1>7, <1>8

\* Attaching a snapshot, or nothing, touches no row, decision or event.
LEMMA QuietInv ==
  ASSUME ReviewInv, NEW s \in Sessions, AttachSnapshot(s) \/ Refuse(s)
  PROVE  ReviewInv'
  <1> USE DEF ReviewInv
  <1>1. /\ UNCHANGED <<cases, decisions, audit, raced>> /\ Done(s)
        /\ snapshots' \in [Cases -> BOOLEAN]
    BY DEF AttachSnapshot, Refuse, caseVars, ReviewTypeOK
  <1>2. ReviewTypeOK'
    BY <1>1, DoneCopies DEF ReviewTypeOK, Done
  <1>3. SeenStored'
    BY <1>1, DoneCopies, SeenStays
  <1>4. FeedbackAgrees' /\ AuditTellsStatus'
    BY <1>1 DEF FeedbackAgrees, Feedback, AuditTellsStatus
  <1> QED
    BY <1>2, <1>3, <1>4

\* A transition that records no decision: the row and the history move
\* together, and neither to a decision nor back to nothing.
LEMMA TransitionInv ==
  ASSUME ReviewInv, NEW s \in Sessions, pc[s] = "deciding",
         NEW to \in {"in_review", "cancelled"}, to # seen[s].status,
         request[s].actor \in Actors, Update(s, to), Done(s),
         UNCHANGED <<snapshots, decisions>>,
         NEW events \in Seq(AuditEvent), Tells(events, to),
         audit' = [audit EXCEPT ![request[s].case] = @ \o events]
  PROVE  ReviewInv'
  <1> USE DEF ReviewInv
  <1> DEFINE c == request[s].case
  <1>1. c \in Cases /\ to \in Statuses
    BY RequestHeld DEF Statuses
  <1>2. /\ cases' \in [Cases -> CaseRow] /\ cases'[c].status = to
        /\ \A d \in Cases : d # c => cases'[d] = cases[d]
        /\ raced' \subseteq Cases
    BY <1>1, UpdateEffect
  <1>3. /\ audit' \in [Cases -> Seq(AuditEvent)]
        /\ audit'[c] = audit[c] \o events
        /\ \A d \in Cases : d # c => audit'[d] = audit[d]
    BY <1>1 DEF ReviewTypeOK
  <1> HIDE DEF c
  <1>4. ReviewTypeOK'
    BY <1>2, <1>3, DoneCopies DEF ReviewTypeOK, Done
  <1>5. SeenStored'
    BY <1>1, <1>2, DoneCopies, SeenStays
  <1>6. FeedbackAgrees'
    BY <1>1, <1>2, DecisionsAssumption DEF FeedbackAgrees, Feedback
  <1>7. AuditTellsStatus'
    <2>1. Tells(audit'[c], to) /\ audit'[c] # << >>
      BY <1>1, <1>3, TellsAfter DEF ReviewTypeOK
    <2> QED
      BY <1>2, <1>3, <2>1 DEF AuditTellsStatus
  <1> QED
    BY <1>4, <1>5, <1>6, <1>7

LEMMA StartInv ==
  ASSUME ReviewInv, NEW s \in Sessions, StartReview(s)
  PROVE  ReviewInv'
  <1> DEFINE from == seen[s].status
             actor == request[s].actor
             e1 == Event("status_changed", actor, from, "in_review")
             e2 == Event("opened", actor, from, "in_review")
             e3 == Event("assigned", actor, "in_review", "in_review")
  <1>1. actor \in Actors /\ from \in Statuses /\ from # "in_review"
    BY RequestHeld, AllowedStatuses DEF ReviewInv, StartReview, MayStart
  <1>2. /\ <<e1, e2, e3>> \in Seq(AuditEvent)
        /\ e1.to = "in_review" /\ StatusEvent(e1)
        /\ ~StatusEvent(e2) /\ ~StatusEvent(e3)
    BY <1>1 DEF Event, AuditEvent, EventTypes, Statuses, StatusEvent
  <1>3. /\ audit' = [audit EXCEPT ![request[s].case] = @ \o <<e1, e2, e3>>]
        /\ pc[s] = "deciding" /\ Update(s, "in_review") /\ Done(s)
        /\ UNCHANGED <<snapshots, decisions>>
    BY DEF StartReview, Log
  <1> HIDE DEF e1, e2, e3
  <1>4. Tells(<<e1, e2, e3>>, "in_review")
    BY <1>2 DEF Tells
  <1> QED
    BY <1>1, <1>2, <1>3, <1>4, TransitionInv

LEMMA CancelInv ==
  ASSUME ReviewInv, NEW s \in Sessions, CancelReview(s)
  PROVE  ReviewInv'
  <1> DEFINE from == seen[s].status
             actor == request[s].actor
             event == Event("status_changed", actor, from, "cancelled")
  <1>1. actor \in Actors /\ from \in Statuses /\ from # "cancelled"
    BY RequestHeld, AllowedStatuses DEF ReviewInv, CancelReview, MayCancel
  <1>2. /\ <<event>> \in Seq(AuditEvent)
        /\ event.to = "cancelled" /\ StatusEvent(event)
    BY <1>1 DEF Event, AuditEvent, EventTypes, Statuses, StatusEvent
  <1>3. /\ audit' = [audit EXCEPT ![request[s].case] = @ \o <<event>>]
        /\ pc[s] = "deciding" /\ Update(s, "cancelled") /\ Done(s)
        /\ UNCHANGED <<snapshots, decisions>>
    BY DEF CancelReview, Log
  <1> HIDE DEF event
  <1>4. Tells(<<event>>, "cancelled")
    BY <1>2 DEF Tells
  <1> QED
    BY <1>1, <1>2, <1>3, <1>4, TransitionInv

\* An assignment leaves every status and decision; its case was stored, so
\* its history already tells a status.
LEMMA AssignInv ==
  ASSUME ReviewInv, NEW s \in Sessions, AssignReview(s)
  PROVE  ReviewInv'
  <1> USE DEF ReviewInv
  <1> DEFINE c == request[s].case
             actor == request[s].actor
             event == Event("assigned", actor, "in_review", "in_review")
  <1>1. /\ c \in Cases /\ actor \in Actors /\ seen[s].status = "in_review"
        /\ pc[s] = "deciding" /\ Update(s, "in_review") /\ Done(s)
        /\ UNCHANGED <<snapshots, decisions>>
        /\ audit' = [audit EXCEPT ![c] = @ \o <<event>>]
    BY RequestHeld DEF AssignReview, MayAssign, Log
  <1>2. event \in AuditEvent /\ ~StatusEvent(event)
    BY <1>1 DEF Event, AuditEvent, EventTypes, Statuses, StatusEvent
  <1> HIDE DEF event
  <1>3. /\ cases' \in [Cases -> CaseRow] /\ cases'[c].status = cases[c].status
        /\ \A d \in Cases : d # c => cases'[d] = cases[d]
        /\ raced' \subseteq Cases
    BY <1>1, UpdateEffect DEF Statuses
  <1>4. /\ audit' \in [Cases -> Seq(AuditEvent)]
        /\ audit'[c] = audit[c] \o <<event>>
        /\ \A d \in Cases : d # c => audit'[d] = audit[d]
    BY <1>1, <1>2 DEF ReviewTypeOK
  <1>5. cases[c].status # "absent"
    BY <1>1 DEF SeenStored
  <1> HIDE DEF c
  <1>6. ReviewTypeOK'
    BY <1>1, <1>3, <1>4, DoneCopies DEF ReviewTypeOK, Done
  <1>7. SeenStored'
    BY <1>1, <1>3, DoneCopies, SeenStays
  <1>8. FeedbackAgrees'
    BY <1>1, <1>3 DEF FeedbackAgrees, Feedback
  <1>9. AuditTellsStatus'
    <2>1. Tells(audit'[c], cases'[c].status) /\ audit'[c] # << >>
      BY <1>1, <1>2, <1>3, <1>4, <1>5, TellsStill DEF ReviewTypeOK, AuditTellsStatus
    <2> QED
      BY <1>3, <1>4, <2>1 DEF AuditTellsStatus
  <1> QED
    BY <1>6, <1>7, <1>8, <1>9

\* A close records the only decision, and the row and the history say it.
LEMMA CloseInv ==
  ASSUME ReviewInv, NEW s \in Sessions, CloseReview(s)
  PROVE  ReviewInv'
  <1> USE DEF ReviewInv
  <1> DEFINE c == request[s].case
             d == request[s].decision
             from == seen[s].status
             actor == request[s].actor
             e1 == Event("status_changed", actor, from, d)
             e2 == Event(d, actor, from, d)
             record == [decision |-> d, actor |-> actor,
                        snapshot |-> history[s].snapshot]
  <1>1. /\ c \in Cases /\ actor \in Actors /\ d \in Decisions
        /\ from \in Statuses /\ d # from /\ d \in Statuses
        /\ history[s].snapshot \in BOOLEAN
        /\ pc[s] = "deciding" /\ decisions[c] = << >>
    BY RequestHeld, AllowedStatuses DEF CloseReview, MayClose, History
  <1>2. /\ Update(s, d) /\ Done(s) /\ UNCHANGED snapshots
        /\ decisions' = [decisions EXCEPT ![c] = Append(@, record)]
        /\ audit' = [audit EXCEPT ![c] = @ \o <<e1, e2>>]
    BY DEF CloseReview, Log
  <1>3. /\ e1 \in AuditEvent /\ e2 \in AuditEvent
        /\ e1.to = d /\ StatusEvent(e1) /\ ~StatusEvent(e2)
    BY <1>1, DecisionsAssumption DEF Event, AuditEvent, EventTypes, StatusEvent
  <1>4. record \in Record /\ record.decision = d
    BY <1>1 DEF Record
  <1> HIDE DEF e1, e2, record
  <1>5. /\ cases' \in [Cases -> CaseRow] /\ cases'[c].status = d
        /\ \A k \in Cases : k # c => cases'[k] = cases[k]
        /\ raced' \subseteq Cases
    BY <1>1, <1>2, UpdateEffect
  <1>6. /\ <<e1, e2>> \in Seq(AuditEvent) /\ Tells(<<e1, e2>>, d)
    BY <1>3 DEF Tells
  <1>7. /\ audit' \in [Cases -> Seq(AuditEvent)]
        /\ audit'[c] = audit[c] \o <<e1, e2>>
        /\ \A k \in Cases : k # c => audit'[k] = audit[k]
    BY <1>1, <1>2, <1>6 DEF ReviewTypeOK
  <1>8. /\ decisions' \in [Cases -> Seq(Record)]
        /\ Len(decisions'[c]) = 1 /\ decisions'[c][1] = record
        /\ \A k \in Cases : k # c => decisions'[k] = decisions[k]
    BY <1>1, <1>2, <1>4 DEF ReviewTypeOK
  <1> HIDE DEF c, d
  <1>9. ReviewTypeOK'
    BY <1>1, <1>2, <1>5, <1>7, <1>8, DoneCopies DEF ReviewTypeOK, Done
  <1>10. SeenStored'
    BY <1>1, <1>2, <1>5, DoneCopies, SeenStays, DecisionsAssumption
  <1>11. FeedbackAgrees'
    <2> SUFFICES ASSUME NEW k \in Cases
                 PROVE  /\ Len(decisions'[k]) <= 1
                        /\ cases'[k].status \in Decisions
                             => /\ Len(decisions'[k]) = 1
                                /\ decisions'[k][1].decision = cases'[k].status
      BY DEF FeedbackAgrees, Feedback
    <2>1. CASE k = c
      <3>1. Len(decisions'[k]) = 1 /\ cases'[k].status = d
        BY <1>5, <1>8, <2>1
      <3>2. decisions'[k][1].decision = d
        BY <1>4, <1>8, <2>1, Zenon
      <3> QED
        BY <3>1, <3>2
    <2>2. CASE k # c
      BY <1>5, <1>8, <2>2 DEF FeedbackAgrees, Feedback
    <2> QED
      BY <2>1, <2>2
  <1>12. AuditTellsStatus'
    <2>1. audit[c] \in Seq(AuditEvent)
      BY <1>1 DEF ReviewTypeOK
    <2>2. Tells(audit'[c], d) /\ audit'[c] # << >>
      BY <1>6, <1>7, <2>1, TellsAfter
    <2> QED
      BY <1>5, <1>7, <2>2 DEF AuditTellsStatus
  <1> QED
    BY <1>9, <1>10, <1>11, <1>12

\* The rows, copies, decisions and histories of every reachable state.
THEOREM CasesInvariant == Spec => []ReviewInv
  <1>1. Init => ReviewInv
    BY MaxRequestsAssumption, DecisionsAssumption
    DEF Init, ReviewInv, ReviewTypeOK, FeedbackAgrees, AuditTellsStatus, SeenStored,
        NoCase, NoHistory, CaseRow, History, Statuses
  <1>2. ReviewInv /\ [Next]_vars => ReviewInv'
    <2> SUFFICES ASSUME ReviewInv, [Next]_vars
                 PROVE  ReviewInv'
      OBVIOUS
    <2>1. CASE UNCHANGED vars
      BY <2>1 DEF vars, ReviewInv, ReviewTypeOK, FeedbackAgrees, Feedback,
                  AuditTellsStatus, SeenStored
    <2>2. ASSUME NEW s \in Sessions,
                 (\E r \in Request : ReadCase(s, r)) \/ ReadHistory(s)
          PROVE  ReviewInv'
      BY <2>2, ReadInv
    <2>3. ASSUME NEW s \in Sessions, Write(s) \/ Refuse(s)
          PROVE  ReviewInv'
      BY <2>3, CreateInv, QuietInv, StartInv, AssignInv, CloseInv, CancelInv DEF Write
    <2> QED
      BY <2>1, <2>2, <2>3 DEF Next
  <1> QED
    BY <1>1, <1>2, PTL DEF Spec

\* A decided case carries exactly its one decision, the one it is exported with.
THEOREM DecidedOnce == Spec => []FeedbackAgrees
  BY CasesInvariant, PTL DEF ReviewInv

\* The rows, copies and records are well formed.
THEOREM CasesTypeCorrect == Spec => []ReviewTypeOK
  BY CasesInvariant, PTL DEF ReviewInv

\* The audit history of every case tells its status.
THEOREM AuditCorrect == Spec => []AuditTellsStatus
  BY CasesInvariant, PTL DEF ReviewInv

----------------------------------------------------------------------------
(* The reviewer a row names.                                               *)

\* A row that was the copy becomes all that was meant to be written.
LEMMA UpdateNames ==
  ASSUME ReviewTypeOK, NEW s \in Sessions, NEW to,
         request[s].case \in Cases, cases[request[s].case] = seen[s], Update(s, to)
  PROVE  /\ cases'[request[s].case].name = request[s].actor.name
         /\ cases'[request[s].case].subject = request[s].actor.subject
  <1> DEFINE c == request[s].case
             new == [status |-> to, name |-> request[s].actor.name,
                     subject |-> request[s].actor.subject]
  <1>1. cases[c] \in CaseRow /\ DOMAIN cases[c] = {"status", "name", "subject"}
    BY DEF ReviewTypeOK, CaseRow
  <1>2. cases'[c] = Written(cases[c], cases[c], new)
    BY DEF Update, ReviewTypeOK
  <1>3. /\ cases'[c].name = new.name
        /\ cases'[c].subject = new.subject
    BY <1>1, <1>2 DEF Written
  <1> QED
    BY <1>3

\* The last event of a history is the last of those added to it.
LEMMA LastAfter ==
  ASSUME NEW events \in Seq(AuditEvent), NEW more \in Seq(AuditEvent), more # << >>
  PROVE  Last(events \o more) = Last(more)
  <1>1. /\ Len(events \o more) = Len(events) + Len(more)
        /\ Len(more) \in 1..Len(more) /\ Len(events) \in Nat
    OBVIOUS
  <1>2. (events \o more)[Len(events) + Len(more)] = more[Len(more)]
    BY <1>1
  <1> QED
    BY <1>1, <1>2 DEF Last

\* Whoever updates a row that did not move since it was read is named by it
\* and ends its history; an update of any other row is a race.
LEMMA UpdateActedLast ==
  ASSUME ReviewTypeOK, ReviewerActedLast, NEW s \in Sessions, pc[s] = "deciding",
         NEW to \in Statuses, request[s].actor \in Actors, Update(s, to),
         NEW more \in Seq(AuditEvent), more # << >>,
         Last(more).actor = request[s].actor, Log(s, more)
  PROVE  ReviewerActedLast'
  <1> DEFINE c == request[s].case
  <1>1. c \in Cases
    BY RequestHeld
  <1>2. /\ \A d \in Cases : d # c => cases'[d] = cases[d] /\ audit'[d] = audit[d]
        /\ cases[c] = seen[s] => raced' = raced
        /\ cases[c] # seen[s] => raced' = raced \cup {c}
        /\ audit'[c] = audit[c] \o more
    BY <1>1, UpdateEffect DEF Log, ReviewTypeOK
  <1>3. Last(audit'[c]).actor = request[s].actor
    BY <1>1, <1>2, LastAfter DEF ReviewTypeOK
  <1>4. ASSUME NEW d \in Cases \ raced', d # c,
               cases'[d].status \in Terminal \cup {"in_review"}
        PROVE  /\ Last(audit'[d]).actor.name = cases'[d].name
               /\ Last(audit'[d]).actor.subject = cases'[d].subject
    BY <1>2, <1>4 DEF ReviewerActedLast
  <1>5. c \notin raced' => /\ Last(audit'[c]).actor.name = cases'[c].name
                           /\ Last(audit'[c]).actor.subject = cases'[c].subject
    BY <1>1, <1>2, <1>3, UpdateNames
  <1> QED
    BY <1>4, <1>5 DEF ReviewerActedLast

LEMMA WriteActedLast ==
  ASSUME ReviewTypeOK, ReviewerActedLast, NEW s \in Sessions, Write(s)
  PROVE  ReviewerActedLast'
  <1> DEFINE from == seen[s].status
             actor == request[s].actor
  <1>0. pc[s] = "deciding"
    BY DEF Write, CreateReview, AttachSnapshot, StartReview, AssignReview, CloseReview,
           CancelReview
  <1>1. from \in Statuses /\ "in_review" \in Statuses /\ "cancelled" \in Statuses
    BY <1>0, RequestHeld DEF Statuses
  <1>2. CASE CreateReview(s)
    <2> DEFINE c == request[s].case
    <2>1. /\ c \in Cases /\ raced' = raced
          /\ cases' = [cases EXCEPT ![c].status = "open"]
          /\ \A d \in Cases : d # c => audit'[d] = audit[d]
      BY <1>0, <1>2, RequestHeld DEF CreateReview, Log, ReviewTypeOK
    <2>2. cases'[c].status = "open" /\ \A d \in Cases : d # c => cases'[d] = cases[d]
      BY <2>1 DEF ReviewTypeOK, CaseRow
    <2>3. "open" \notin Terminal \cup {"in_review"}
      BY DecisionsAssumption DEF Terminal
    <2> QED
      BY <2>1, <2>2, <2>3 DEF ReviewerActedLast
  <1>3. CASE AttachSnapshot(s)
    BY <1>3 DEF AttachSnapshot, ReviewerActedLast
  <1>4. CASE StartReview(s)
    <2> DEFINE more == <<Event("status_changed", actor, from, "in_review"),
                         Event("opened", actor, from, "in_review"),
                         Event("assigned", actor, "in_review", "in_review")>>
    <2>1. actor \in Actors /\ Update(s, "in_review") /\ Log(s, more)
      BY <1>0, <1>4, RequestHeld DEF StartReview, MayStart
    <2>2. more \in Seq(AuditEvent) /\ more # << >> /\ Last(more).actor = actor
      BY <1>1, <2>1 DEF Event, AuditEvent, EventTypes, Last
    <2> QED
      BY <1>0, <1>1, <2>1, <2>2, UpdateActedLast
  <1>5. CASE AssignReview(s)
    <2> DEFINE more == <<Event("assigned", actor, from, from)>>
    <2>1. actor \in Actors /\ Update(s, from) /\ Log(s, more)
      BY <1>0, <1>5, RequestHeld DEF AssignReview, MayAssign
    <2>2. more \in Seq(AuditEvent) /\ more # << >> /\ Last(more).actor = actor
      BY <1>1, <2>1 DEF Event, AuditEvent, EventTypes, Last
    <2> QED
      BY <1>0, <1>1, <2>1, <2>2, UpdateActedLast
  <1>6. CASE CancelReview(s)
    <2> DEFINE more == <<Event("status_changed", actor, from, "cancelled")>>
    <2>1. actor \in Actors /\ Update(s, "cancelled") /\ Log(s, more)
      BY <1>0, <1>6, RequestHeld DEF CancelReview, MayCancel
    <2>2. more \in Seq(AuditEvent) /\ more # << >> /\ Last(more).actor = actor
      BY <1>1, <2>1 DEF Event, AuditEvent, EventTypes, Last
    <2> QED
      BY <1>0, <1>1, <2>1, <2>2, UpdateActedLast
  <1>7. CASE CloseReview(s)
    <2> DEFINE d == request[s].decision
               more == <<Event("status_changed", actor, from, d), Event(d, actor, from, d)>>
    <2>1. actor \in Actors /\ Update(s, d) /\ Log(s, more) /\ d \in Decisions
      BY <1>0, <1>7, RequestHeld DEF CloseReview, MayClose
    <2>2. d \in Statuses /\ d \in EventTypes
      BY <2>1 DEF Statuses, EventTypes
    <2> HIDE DEF d
    <2>3. more \in Seq(AuditEvent) /\ more # << >> /\ Last(more).actor = actor
      BY <1>1, <2>1, <2>2 DEF Event, AuditEvent, EventTypes, Last
    <2> QED
      BY <1>0, <1>1, <2>1, <2>2, <2>3, UpdateActedLast
  <1> QED
    BY <1>2, <1>3, <1>4, <1>5, <1>6, <1>7 DEF Write

\* While no request wrote over a newer row, the reviewer a case names, name and
\* verified subject together, is whoever acted last on it.
THEOREM ReviewerActs == Spec => []ReviewerActedLast
  <1>1. Init => ReviewerActedLast
    BY DecisionsAssumption DEF Init, ReviewerActedLast, NoCase, Terminal
  <1>2. ReviewInv /\ ReviewerActedLast /\ [Next]_vars => ReviewerActedLast'
    <2> SUFFICES ASSUME ReviewTypeOK, ReviewerActedLast, [Next]_vars
                 PROVE  ReviewerActedLast'
      BY DEF ReviewInv
    <2>1. CASE UNCHANGED <<cases, audit, raced>>
      BY <2>1 DEF ReviewerActedLast
    <2>2. ASSUME NEW s \in Sessions, Write(s)
          PROVE  ReviewerActedLast'
      BY <2>2, WriteActedLast
    <2> QED
      BY <2>1, <2>2 DEF Next, ReadCase, ReadHistory, Refuse, caseVars, vars
  <1> QED
    BY <1>1, <1>2, CasesInvariant, PTL DEF Spec

----------------------------------------------------------------------------
(* CasesFollowLifecycle.                                                             *)

StatusOf == [k \in Cases |-> cases[k].status]
DecidedOf == [k \in Cases |-> IF decisions[k] = << >> THEN "none"
                              ELSE decisions[k][1].decision]

\* A step that leaves statuses, decisions and races is a stutter.
LEMMA QuietStep ==
  ASSUME NEW s \in Sessions,
         \/ \E r \in Request : ReadCase(s, r)
         \/ ReadHistory(s) \/ AttachSnapshot(s) \/ Refuse(s)
  PROVE  UNCHANGED Lifecycle!lifecycleVars
  <1>1. UNCHANGED <<cases, decisions, raced>>
    BY DEF ReadCase, ReadHistory, AttachSnapshot, Refuse, caseVars
  <1> QED
    BY <1>1 DEF Lifecycle!lifecycleVars

\* A transition without a decision is the documented one when the row is the
\* copy, and an overwrite when it is not.
LEMMA TransitionStep ==
  ASSUME ReviewInv, NEW s \in Sessions, pc[s] = "deciding",
         NEW to \in {"in_review", "cancelled"}, Allowed(seen[s].status, to),
         request[s].actor \in Actors, Update(s, to), UNCHANGED decisions
  PROVE  Lifecycle!Next
  <1> USE DEF ReviewInv
  <1>1. /\ request[s].case \in Cases /\ to \in Statuses /\ to # seen[s].status
        /\ seen[s].status \in {"open", "in_review"}
        /\ seen[s].status = "in_review" => to = "cancelled"
        /\ cases[request[s].case].status # "absent"
    BY RequestHeld, DecisionsAssumption DEF Statuses, Allowed, SeenStored
  <1>2. PICK c \in Cases : c = request[s].case
    BY <1>1
  <1>3. /\ cases'[c].status = to
        /\ \A k \in Cases : k # c => cases'[k] = cases[k]
        /\ cases[c] = seen[s] => raced' = raced
        /\ cases[c] # seen[s] => raced' = raced \cup {c}
    BY <1>1, <1>2, UpdateEffect
  <1>4. StatusOf' = [StatusOf EXCEPT ![c] = to] /\ StatusOf[c] = cases[c].status
    BY <1>3 DEF StatusOf
  <1>5. DecidedOf' = DecidedOf
    BY DEF DecidedOf
  <1>6. CASE cases[c] = seen[s]
    <2>1. Lifecycle!Start(c) \/ Lifecycle!Cancel(c)
      BY <1>1, <1>3, <1>4, <1>5, <1>6
      DEF Lifecycle!Start, Lifecycle!Cancel, Lifecycle!Move, StatusOf, DecidedOf
    <2> QED
      BY <2>1 DEF Lifecycle!Next
  <1>7. CASE cases[c] # seen[s]
    <2>1. StatusOf[c] # "absent" /\ raced' = raced \cup {c}
      BY <1>1, <1>2, <1>3, <1>4, <1>7
    <2>2. Lifecycle!Move(c, to) /\ DecidedOf' = DecidedOf
      BY <1>4, <1>5, Zenon DEF Lifecycle!Move, StatusOf
    <2>3. Lifecycle!Overwrite(c)
      BY <2>1, <2>2, Zenon DEF Lifecycle!Overwrite, StatusOf, DecidedOf
    <2> QED
      BY <2>3 DEF Lifecycle!Next
  <1> QED
    BY <1>6, <1>7

LEMMA CreateStep ==
  ASSUME ReviewInv, NEW s \in Sessions, CreateReview(s)
  PROVE  Lifecycle!Next
  <1> USE DEF ReviewInv
  <1>1. PICK c \in Cases : c = request[s].case
    BY RequestHeld DEF CreateReview
  <1> DEFINE row == [cases[c] EXCEPT !.status = "open"]
  <1>2. cases[c].status = "absent" /\ UNCHANGED <<decisions, raced>>
    BY <1>1 DEF CreateReview
  <1>3. cases' = [cases EXCEPT ![c] = row]
    BY <1>1, Zenon DEF CreateReview
  <1>4. cases[c] \in CaseRow
    BY DEF ReviewTypeOK
  <1>5. row.status = "open"
    BY <1>4, Zenon DEF CaseRow
  <1> HIDE DEF row
  <1>6. /\ cases'[c].status = "open"
        /\ \A k \in Cases : k # c => cases'[k] = cases[k]
    BY <1>3, <1>5 DEF ReviewTypeOK
  <1>7. StatusOf' = [StatusOf EXCEPT ![c] = "open"] /\ StatusOf[c] = "absent"
    BY <1>2, <1>6 DEF StatusOf
  <1>8. DecidedOf' = DecidedOf
    BY <1>2 DEF DecidedOf
  <1>9. Lifecycle!Open(c)
    BY <1>2, <1>7, <1>8 DEF Lifecycle!Open, Lifecycle!Move, StatusOf, DecidedOf
  <1> QED
    BY <1>9 DEF Lifecycle!Next

\* An assignment changes nothing the life of a case shows, or overwrites.
LEMMA AssignStep ==
  ASSUME ReviewInv, NEW s \in Sessions, AssignReview(s)
  PROVE  Lifecycle!Next \/ UNCHANGED Lifecycle!lifecycleVars
  <1> USE DEF ReviewInv
  <1> DEFINE c == request[s].case
  <1>1. /\ c \in Cases /\ request[s].actor \in Actors
        /\ seen[s].status = "in_review" /\ Update(s, "in_review")
        /\ cases[c].status # "absent" /\ UNCHANGED decisions
    BY RequestHeld DEF AssignReview, MayAssign, SeenStored
  <1>2. /\ cases'[c].status = cases[c].status
        /\ \A k \in Cases : k # c => cases'[k] = cases[k]
        /\ cases[c] = seen[s] => raced' = raced
        /\ cases[c] # seen[s] => raced' = raced \cup {c}
    BY <1>1, UpdateEffect DEF Statuses
  <1> HIDE DEF c
  <1>3. StatusOf' = StatusOf /\ DecidedOf' = DecidedOf /\ StatusOf[c] # "absent"
    BY <1>1, <1>2 DEF StatusOf, DecidedOf
  <1>4. CASE cases[c] = seen[s]
    BY <1>2, <1>3, <1>4 DEF Lifecycle!lifecycleVars, StatusOf, DecidedOf
  <1>5. CASE cases[c] # seen[s]
    <2>1. Lifecycle!Overwrite(c)
      BY <1>2, <1>3, <1>5 DEF Lifecycle!Overwrite, StatusOf, DecidedOf
    <2> QED
      BY <1>1, <2>1 DEF Lifecycle!Next
  <1> QED
    BY <1>4, <1>5

LEMMA CloseStep ==
  ASSUME ReviewInv, NEW s \in Sessions, CloseReview(s)
  PROVE  Lifecycle!Next
  <1> USE DEF ReviewInv
  <1>0. PICK c \in Cases, d \in Decisions :
             c = request[s].case /\ d = request[s].decision
    BY RequestHeld DEF CloseReview, MayClose
  <1> DEFINE record == [decision |-> d, actor |-> request[s].actor,
                        snapshot |-> history[s].snapshot]
  <1>1. /\ request[s].actor \in Actors
        /\ seen[s].status = "in_review" /\ d # "in_review" /\ d \in Statuses
        /\ Update(s, d) /\ decisions[c] = << >>
        /\ decisions' = [decisions EXCEPT ![c] = Append(@, record)]
        /\ cases[c].status # "absent"
    BY <1>0, RequestHeld, AllowedStatuses DEF CloseReview, MayClose, SeenStored
  <1>2. /\ cases'[c].status = d
        /\ \A k \in Cases : k # c => cases'[k] = cases[k]
        /\ cases[c] = seen[s] => raced' = raced
        /\ cases[c] # seen[s] => raced' = raced \cup {c}
    BY <1>0, <1>1, UpdateEffect
  <1>3. record.decision = d
    OBVIOUS
  <1> HIDE DEF record
  <1>4. /\ decisions'[c] = <<record>>
        /\ \A k \in Cases : k # c => decisions'[k] = decisions[k]
    BY <1>1 DEF ReviewTypeOK
  <1>5. StatusOf' = [StatusOf EXCEPT ![c] = d] /\ StatusOf[c] = cases[c].status
    BY <1>1, <1>2 DEF StatusOf
  <1>6. DecidedOf' = [DecidedOf EXCEPT ![c] = d] /\ DecidedOf[c] = "none"
    <2>1. decisions'[c] # << >> /\ decisions'[c][1].decision = d
      BY <1>3, <1>4
    <2>2. DecidedOf'[c] = d
      BY <1>1, <2>1 DEF DecidedOf
    <2>3. \A k \in Cases : k # c => DecidedOf'[k] = DecidedOf[k]
      BY <1>4 DEF DecidedOf
    <2>4. DecidedOf' = [k \in Cases |-> DecidedOf'[k]]
          /\ DecidedOf = [k \in Cases |-> DecidedOf[k]]
      BY Zenon DEF DecidedOf
    <2>5. DecidedOf[c] = "none"
      BY <1>1 DEF DecidedOf
    <2> HIDE DEF DecidedOf
    <2> QED
      BY <1>1, <2>2, <2>3, <2>4, <2>5
  <1>7. CASE cases[c] = seen[s]
    <2>1. Lifecycle!Decide(c)
      BY <1>1, <1>2, <1>5, <1>6, <1>7
      DEF Lifecycle!Decide, Lifecycle!Move, Lifecycle!Record, StatusOf, DecidedOf
    <2> QED
      BY <1>1, <2>1 DEF Lifecycle!Next
  <1>8. CASE cases[c] # seen[s]
    <2>1. StatusOf[c] # "absent" /\ raced' = raced \cup {c}
      BY <1>1, <1>2, <1>5, <1>8
    <2>2. Lifecycle!Move(c, d)
      BY <1>5, Zenon DEF Lifecycle!Move, StatusOf
    <2>3. Lifecycle!Record(c, d)
      BY <1>6, Zenon DEF Lifecycle!Record, DecidedOf
    <2>4. \E e \in Decisions : Lifecycle!Move(c, e) /\ Lifecycle!Record(c, e)
      BY <1>1, <2>2, <2>3, Zenon
    <2>5. Lifecycle!Overwrite(c)
      BY <2>1, <2>4, Zenon DEF Lifecycle!Overwrite, StatusOf
    <2> QED
      BY <1>1, <2>5 DEF Lifecycle!Next
  <1> QED
    BY <1>7, <1>8

\* The review queue implements the documented life of a case.
THEOREM CasesFollowLifecycle == Spec => ImplementsLifecycle
  <1>1. Init => Lifecycle!Init
    BY DEF Init, Lifecycle!Init, NoCase
  <1>2. ReviewInv /\ [Next]_vars => [Lifecycle!Next]_(Lifecycle!lifecycleVars)
    <2> SUFFICES ASSUME ReviewInv, [Next]_vars
                 PROVE  Lifecycle!Next \/ UNCHANGED Lifecycle!lifecycleVars
      OBVIOUS
    <2>1. CASE UNCHANGED vars
      BY <2>1 DEF vars, Lifecycle!lifecycleVars
    <2>2. ASSUME NEW s \in Sessions,
                 \/ \E r \in Request : ReadCase(s, r)
                 \/ ReadHistory(s) \/ AttachSnapshot(s) \/ Refuse(s)
          PROVE  UNCHANGED Lifecycle!lifecycleVars
      BY <2>2, QuietStep
    <2>3. ASSUME NEW s \in Sessions, StartReview(s)
          PROVE  Lifecycle!Next
      BY <2>3, TransitionStep, RequestHeld DEF StartReview, MayStart, ReviewInv
    <2>4. ASSUME NEW s \in Sessions, CancelReview(s)
          PROVE  Lifecycle!Next
      BY <2>4, TransitionStep, RequestHeld DEF CancelReview, MayCancel, ReviewInv
    <2>5. ASSUME NEW s \in Sessions,
                 CreateReview(s) \/ AssignReview(s) \/ CloseReview(s)
          PROVE  Lifecycle!Next \/ UNCHANGED Lifecycle!lifecycleVars
      BY <2>5, CreateStep, AssignStep, CloseStep
    <2> QED
      BY <2>1, <2>2, <2>3, <2>4, <2>5 DEF Next, Write
  <1> QED
    BY <1>1, <1>2, CasesInvariant, PTL DEF Spec, ImplementsLifecycle, Lifecycle!Spec
=============================================================================
