------------------------------ MODULE MCServices -----------------------------
(***************************************************************************)
(* Instances of the parts around the core for TLC: the model that reviews, *)
(* the hosted registry, the callback workflow, the verification of tokens  *)
(* and the request limit.  They share no state, so each behaviour is one   *)
(* of them and the others rest.                                            *)
(***************************************************************************)
EXTENDS ModelReview, HostedRegistry, CallbackWorkflow, IdentityKeys, RequestLimits

VARIABLE part

serviceVars == <<part, reviewVars, hostedVars, workflowVars, identityVars, limitVars>>

ServiceInit ==
  /\ part \in {"review", "registry", "workflow", "identity", "limits"}
  /\ ReviewInit /\ HostedInit /\ WorkflowInit /\ IdentityInit /\ LimitInit

ServiceNext ==
  /\ part' = part
  /\ \/ part = "review" /\ ReviewNext
        /\ UNCHANGED <<hostedVars, workflowVars, identityVars, limitVars>>
     \/ part = "registry" /\ HostedNext
        /\ UNCHANGED <<reviewVars, workflowVars, identityVars, limitVars>>
     \/ part = "workflow" /\ WorkflowNext
        /\ UNCHANGED <<reviewVars, hostedVars, identityVars, limitVars>>
     \/ part = "identity" /\ IdentityNext
        /\ UNCHANGED <<reviewVars, hostedVars, workflowVars, limitVars>>
     \/ part = "limits" /\ LimitNext
        /\ UNCHANGED <<reviewVars, hostedVars, workflowVars, identityVars>>

ServiceSpec == ServiceInit /\ [][ServiceNext]_serviceVars

-----------------------------------------------------------------------------
(* What the model answers and how its service fails: every shape an answer *)
(* may have, a confidence on each side of the threshold, above one, and    *)
(* NaN, the risks and actions a route tells apart, and a failure of each   *)
(* class.                                                                  *)

Body(confidence, risk, action) ==
  [type |-> Missing, confidence |-> confidence, risk |-> risk, action |-> action,
   version |-> Missing, shaped |-> TRUE, suggests |-> TRUE, codes |-> <<"vat">>]

Says(shape, blocks, body) ==
  [shape |-> shape, blocks |-> blocks, finished |-> TRUE, refused |-> FALSE, body |-> body]

NumericAnswers ==
  {Says("message", <<"blank", "tool">>, Body(85, "low", "accept")),
   Says("message", <<"prose", "tool">>, Body(90, "low", "accept")),
   Says("parts", <<"json">>, Body(84, "low", "no_action")),
   Says("message", <<"json">>, Body(101, "low", "accept")),
   Says("parts", <<"fenced">>, [Body(85, "low", "accept") EXCEPT !.version = "2"]),
   Says("bare", << >>, [Body(90, "low", "no_action") EXCEPT !.shaped = FALSE]),
   [Says("parts", <<"json">>, Body(90, "high", "accept")) EXCEPT !.refused = TRUE],
   Says("parts", <<"json">>,
        [Body(90, "low", "accept") EXCEPT !.type = "category_suggestion", !.version = "1"]),
   [Says("parts", <<"json">>, Body(90, "medium", "escalate")) EXCEPT !.finished = FALSE]}

NaNAnswer == Says("message", <<"fenced">>, Body(NaN, "low", "accept"))

AllAnswers == NumericAnswers \cup {NaNAnswer}

Raises(code, name) ==
  [code |-> code, name |-> name, timeoutInName |-> name = "EndpointTimeout"]

EveryFailure ==
  {Raises("ThrottlingException", "ClientError"), Raises("", "EndpointTimeout"),
   Raises("AccessDeniedException", "ClientError"), Raises("RequestTimeout", "EndpointTimeout")}

Spellings == [text \in {"Tea", "TEA", "tisane"} |->
                IF text = "tisane" THEN "tisane" ELSE "tea"]

Row(number, category) == [number |-> number, category |-> category]
Observed(code, field, severity, order, row) ==
  [code |-> code, field |-> field, severity |-> severity, order |-> order, row |-> row]
Sheet(rows, findings) ==
  [kind |-> "sheet", rows |-> rows, catalog |-> {"tea"}, findings |-> findings]

\* A sheet with a flagged and a strange category, one with an error, and one
\* with nothing to say.
ThreeSheets ==
  {Sheet(<<Row(1, "Tea"), Row(2, "TEA"), Row(3, "tisane"), Row(4, "")>>,
         <<Observed("vat", "vat", "warning", 3, 2),
           Observed("category_mismatch", "category", "warning", 1, 2)>>),
   Sheet(<<Row(1, "TEA")>>,
         <<Observed("vat", "vat", "warning", 3, 1), Observed("cost", "cost", "error", 2, 1)>>),
   Sheet(<<Row(1, "TEA")>>, << >>)}

FourExceptions ==
  {[kind |-> "exception", impact |-> impact, severity |-> severity] :
     impact \in {-1, 0}, severity \in {"error", "info"}}

-----------------------------------------------------------------------------
(* Bearers: a good token of each key, one that has expired, one signed by  *)
(* another key than it names, and one whose header names none.             *)

Token(kid, signedBy, exp) ==
  [kid |-> kid, signedBy |-> signedBy, algorithm |-> TRUE, scoped |-> TRUE, exp |-> exp,
   use |-> "id", subject |-> "fits", name |-> "given", groups |-> {"reviewer", "staff"}]

TokenContent ==
  [b \in {"old", "new", "stale"} |->
     IF b = "old" THEN Token("k1", "k1", 9)
     ELSE IF b = "new" THEN Token("k2", "k2", 9) ELSE Token("k1", "k2", 1)]

ServedBy == [r \in {"r1", "r2", "r3"} |-> "p1"]

\* What one request is told, over everything a token may say: only an
\* accepted token that carries the reviewer's role decides, within the limit.
TokenForms ==
  [kid : {"k1", "none"}, signedBy : {"k1", "k2"}, algorithm : BOOLEAN, scoped : BOOLEAN,
   exp : {1, 2}, use : {"id", "access"}, subject : {"fits", "absent"},
   name : {"given", "blank"}, groups : SUBSET {"reviewer", "staff"}]

ASSUME DecidesOnlyVerified ==
  \A token \in TokenForms, within \in BOOLEAN :
    LET verdict == Decode(token, "k1", 1)
        local == VerifyLocally(token, "k1", 1)
    IN  /\ DecisionStatus(verdict, within) = 200 =>
             /\ token.signedBy = "k1" /\ token.scoped /\ token.exp > 1 /\ token.use = "id"
             /\ "reviewer" \in token.groups /\ within
        /\ DecisionStatus(verdict, within) = DecisionStatus(local, within)
             \/ token.use = "access" \/ ~token.algorithm
        /\ verdict.roles \subseteq Roles

ASSUME RefusalWaits ==
  \A moment \in 0..MaxTicks : RetryAfter(moment) \in 1..Window
=============================================================================
