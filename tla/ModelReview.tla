----------------------------- MODULE ModelReview -----------------------------
(***************************************************************************)
(* What a language model is asked about a supplier sheet or a              *)
(* reconciliation exception, and what becomes of its answer (review/       *)
(* supplier.py, reconciliation.py, contract.py, schemas.py, routing.py and *)
(* the adapters bedrock.py, openai.py and mock.py).  A sheet asks once for *)
(* every category it does not know and then for a summary; an exception    *)
(* asks once.  A request is one call, or with Bedrock up to MaxAttempts;   *)
(* an answer is taken apart, completed, checked and only then used, and    *)
(* everything else becomes an attempt without a result.                    *)
(*                                                                         *)
(* Confidence is in hundredths.  It may also be NaN: Python's JSON reader  *)
(* accepts the word, and no comparison with it is true.                    *)
(***************************************************************************)
EXTENDS Integers, Sequences, FiniteSets, SequencesExt, TLC

CONSTANTS Sheets, Exceptions,   \* what is reviewed
          Answers, Failures,    \* what the service may say, or raise
          MaxAttempts,          \* RetryPolicy.max_attempts
          MinConfidence,        \* RoutingPolicy.min_auto_confidence, in hundredths
          MaxImpact,            \* RoutingPolicy.max_auto_abs_impact
          TokenOf               \* each category text, stripped and case-folded

ASSUME ReviewerBounds == MaxAttempts \in Int /\ MinConfidence \in 0..100 /\ MaxImpact \in Nat

VARIABLES subject,    \* the sheet or exception under review, or Nothing
          provider,   \* who is asked; nobody on a sheet without a reviewer
          pending,    \* the requests still to be made
          tries,      \* how the calls of the request under way ended
          attempts,   \* the requests made, each with its result or error
          outcome     \* the review, once it is complete

reviewVars == <<subject, provider, pending, tries, attempts, outcome>>

-----------------------------------------------------------------------------
(* Numbers as Python compares them.                                        *)

NaN == 1000000
Below(a, b) == NaN \notin {a, b} /\ a < b

Risks == {"low", "medium", "high"}
Actions == {"accept", "request_correction", "escalate", "hold_payment", "no_action",
            "human_review"}
ReviewTypes == {"category_suggestion", "supplier_summary", "reconciliation_explanation"}
KnownVersion == "1"
Missing == "missing"

NoResult == [type |-> Missing]
Nothing == [kind |-> "nothing"]

\* What is read of a row, of a finding and of the object an answer holds.
SheetRow == [number : Int, category : STRING]
SheetFinding == [code : STRING, field : STRING, severity : STRING, order : Int, row : Int]
AnswerBody == [type : ReviewTypes \cup STRING, confidence : Int, risk : STRING,
               action : STRING, version : {KnownVersion} \cup STRING, shaped : BOOLEAN,
               suggests : BOOLEAN, codes : Seq(STRING)]

ASSUME ReviewedTyped ==
  /\ \A sheet \in Sheets : /\ sheet.kind = "sheet" /\ sheet.rows \in Seq(SheetRow)
                          /\ sheet.findings \in Seq(SheetFinding)
  /\ \A item \in Exceptions : item.kind = "exception" /\ item.impact \in Int
  /\ \A answer \in Answers : answer.body \in AnswerBody

-----------------------------------------------------------------------------
(* The requests.  Every one uses the current prompt of its type.           *)

\* _row_at: the category of the first row with a number, or no text.
CategoryAt(sheet, number) ==
  LET hits == SelectSeq(sheet.rows, LAMBDA row : row.number = number)
  IN  IF hits = << >> THEN "" ELSE hits[1].category

KnownCategory(sheet, text) == TokenOf[text] \in sheet.catalog

\* _category_payloads: those the checks flagged and those the catalog does
\* not have; a text is asked about once, another spelling of it again.
CategoryTexts(sheet) ==
  LET flagged == {f \in ToSet(sheet.findings) :
                    f.code = "category_mismatch" /\ f.field = "category"}
      written == {row.category : row \in ToSet(sheet.rows)} \ {""}
  IN  ({CategoryAt(sheet, f.row) : f \in flagged} \ {""})
        \cup {text \in written : sheet.catalog # {} /\ ~KnownCategory(sheet, text)}

RequestsOf(work) ==
  IF work.kind = "exception" THEN <<"reconciliation_explanation">>
  ELSE [i \in 1..Cardinality(CategoryTexts(work)) |-> "category_suggestion"]
         \o <<"supplier_summary">>

-----------------------------------------------------------------------------
(* An answer.                                                              *)

\* parse_bedrock_response: of a message, the first block that is not empty
\* decides, and prose there hides an object after it; elsewhere the texts
\* are read as one document.  OpenAI's adapter reads its texts that way, and
\* knows no fence; the mock holds an object to begin with.
HoldsObject(who, answer) ==
  LET said == SelectSeq(answer.blocks, LAMBDA b : b # "blank")
      texts == SelectSeq(said, LAMBDA b : b # "tool")
      Read == IF who = "bedrock" THEN {"json", "fenced"} ELSE {"json"}
  IN  \/ who = "mock" \/ answer.shape = "bare"
      \/ who = "bedrock" /\ answer.shape = "message"
           /\ said # << >> /\ said[1] \in {"tool"} \cup Read
      \/ (who = "openai" \/ answer.shape = "parts") /\ Len(texts) = 1 /\ texts[1] \in Read

\* What an adapter adds before the check: Bedrock's fills in what is missing,
\* OpenAI's replaces it, the mock only names the type.
Completed(who, body, type) ==
  LET named == IF body.type = Missing THEN [body EXCEPT !.type = type] ELSE body
  IN  IF who = "openai" THEN [body EXCEPT !.type = type, !.version = KnownVersion]
      ELSE IF who = "bedrock" /\ body.version = Missing
           THEN [named EXCEPT !.version = KnownVersion] ELSE named

\* ReviewResult: parse_review_result accepts the object.
ValidResult(body) ==
  /\ body.shaped
  /\ body.type \in ReviewTypes
  /\ ~Below(body.confidence, 0) /\ ~Below(100, body.confidence)
  /\ body.version = KnownVersion

\* Bedrock's adapter puts its own names on a result that passed.
Stamped(who, body, type) == IF who = "bedrock" THEN [body EXCEPT !.type = type] ELSE body

Failed(error) == [result |-> NoResult, error |-> error]

\* review_safely.
Attempted(who, answer, type) ==
  LET body == Completed(who, answer.body, type)
  IN  IF who = "openai" /\ (~answer.finished \/ answer.refused) THEN Failed("provider")
      ELSE IF ~HoldsObject(who, answer) \/ ~ValidResult(body) THEN Failed("schema")
      ELSE [result |-> Stamped(who, body, type), error |-> "none"]

-----------------------------------------------------------------------------
(* Failures of a call.                                                     *)

CodeClass(code) ==
  IF code \in {"ThrottlingException", "TooManyRequestsException"} THEN "throttled"
  ELSE IF code \in {"ModelTimeoutException", "Timeout", "ReadTimeoutError",
                    "ConnectTimeoutError"} THEN "timeout"
  ELSE IF code \in {"ValidationException", "ModelErrorException"} THEN "validation"
  ELSE IF code \in {"AccessDeniedException", "UnrecognizedClientException"}
       THEN "access_denied"
  ELSE IF code \in {"ResourceNotFoundException", "ServiceUnavailableException",
                    "InternalServerException", "ModelNotReadyException"} THEN "unavailable"
  ELSE "unknown"

\* classify_bedrock_error: the code the service gave, or else the name of the
\* exception, where any that speaks of a timeout is one.
Classify(failure) ==
  IF failure.code # "" THEN CodeClass(failure.code)
  ELSE IF CodeClass(failure.name) = "unknown" /\ failure.timeoutInName THEN "timeout"
  ELSE CodeClass(failure.name)

BedrockClasses == {"throttled", "timeout", "validation", "access_denied", "unavailable",
                   "unknown"}
Retryable == {"throttled", "unavailable", "timeout"}
Allowance == IF MaxAttempts < 1 THEN 1 ELSE MaxAttempts

-----------------------------------------------------------------------------
(* The route.                                                              *)

Route(result, impact, error, errors) ==
  LET size == IF impact < 0 THEN -impact ELSE impact
      reasons ==
        {r \in {"risk", "confidence_below_threshold", "financial_impact_requires_human",
                "action", "deterministic_errors_require_human"} :
           \/ r = "risk" /\ result.risk # "low"
           \/ r = "confidence_below_threshold" /\ Below(result.confidence, MinConfidence)
           \/ r = "financial_impact_requires_human" /\ size > MaxImpact
           \/ r = "action" /\ result.action \notin {"accept", "no_action"}
           \/ r = "deterministic_errors_require_human" /\ errors > 0}
  IN  IF error # "none" THEN [eligibility |-> "ineligible", status |-> "failed_safe"]
      ELSE IF result = NoResult \/ reasons # {}
           THEN [eligibility |-> "human_required", status |-> "pending_human"]
      ELSE [eligibility |-> "auto_eligible", status |-> "suggestion_ready"]

Succeeded(made) == {i \in DOMAIN made : made[i].error = "none"}
Broken(made) == DOMAIN made \ Succeeded(made)

\* Mutant: only the summary's answer counts.
PrimarySummary(made) == IF made = << >> THEN NoResult ELSE Last(made).result

\* The result a review stands on: the summary's or, without one, the first
\* there is.
Primary(made) ==
  IF Succeeded(made) = {} THEN NoResult
  ELSE IF Last(made).error = "none" THEN Last(made).result
  ELSE made[Min(Succeeded(made))].result

ErrorCount(sheet) ==
  Cardinality({i \in DOMAIN sheet.findings : sheet.findings[i].severity = "error"})

Rank(severity) == IF severity = "error" THEN 0 ELSE IF severity = "warning" THEN 1 ELSE 2

\* sorted(findings): by severity, code and row, and equal ones as they came.
Precedes(findings, i, j) ==
  LET f == findings[i]
      g == findings[j]
  IN  \/ Rank(f.severity) < Rank(g.severity)
      \/ Rank(f.severity) = Rank(g.severity) /\ f.order < g.order
      \/ Rank(f.severity) = Rank(g.severity) /\ f.order = g.order /\ f.row < g.row
      \/ Rank(f.severity) = Rank(g.severity) /\ f.order = g.order /\ f.row = g.row /\ i < j

\* _prioritize: the codes the result names, then the others in order.
Prioritized(sheet, result) ==
  LET hinted == IF result = NoResult THEN << >> ELSE result.codes
      unhinted == {i \in DOMAIN sheet.findings : sheet.findings[i].code \notin ToSet(hinted)}
      place == [i \in unhinted |->
                  1 + Cardinality({j \in unhinted : Precedes(sheet.findings, j, i)})]
  IN  hinted \o [k \in 1..Cardinality(unhinted) |->
                   sheet.findings[CHOOSE i \in unhinted : place[i] = k].code]

\* review_supplier_sheet, from the attempts on.
SheetReview(sheet, made) ==
  LET primary == Primary(made)
      errors == ErrorCount(sheet)
  IN  [result |-> primary,
       route |-> Route(primary, 0,
                       IF primary # NoResult \/ made = << >> THEN "none"
                       ELSE made[Min(Broken(made))].error, errors),
       action |-> IF errors > 0 THEN "request_correction"
                  ELSE IF primary = NoResult THEN "human_review" ELSE primary.action,
       risk |-> Missing,
       priorities |-> Prioritized(sheet, primary),
       suggestions |-> Cardinality({i \in Succeeded(made) :
           made[i].result.suggests /\ made[i].request = "category_suggestion"})]

\* explain_exception: the amount is the match's, and the severity of the
\* exception only speaks when the model did not.
ExceptionReview(item, made) ==
  LET attempt == made[1]
  IN  [result |-> attempt.result,
       route |-> Route(attempt.result, item.impact, attempt.error, 0),
       action |-> IF attempt.result = NoResult THEN "human_review" ELSE attempt.result.action,
       risk |-> IF attempt.result # NoResult THEN attempt.result.risk
                ELSE IF item.severity = "error" THEN "high"
                ELSE IF item.severity = "warning" THEN "medium" ELSE "low",
       priorities |-> << >>,
       suggestions |-> 0]

-----------------------------------------------------------------------------
NoOutcome == [result |-> NoResult, route |-> [eligibility |-> "none", status |-> "none"],
              action |-> "none", risk |-> Missing, priorities |-> << >>, suggestions |-> 0]

ReviewInit ==
  /\ subject = Nothing
  /\ provider = "nobody"
  /\ pending = << >>
  /\ tries = << >>
  /\ attempts = << >>
  /\ outcome = NoOutcome

\* A sheet may be reviewed without a reviewer: no request is made.
BeginReview(work, who) ==
  /\ subject = Nothing
  /\ who = "nobody" => work.kind = "sheet"
  /\ subject' = work
  /\ provider' = who
  /\ pending' = IF who = "nobody" THEN << >> ELSE RequestsOf(work)
  /\ UNCHANGED <<tries, attempts, outcome>>

\* The request under way is over; the log of its calls stays with it.
Close(attempt, log) ==
  /\ attempts' = Append(attempts,
       [request |-> Head(pending), result |-> attempt.result, error |-> attempt.error,
        calls |-> log])
  /\ pending' = Tail(pending)
  /\ tries' = << >>
  /\ UNCHANGED <<subject, provider, outcome>>

\* The prompt is longer than the adapter sends: no call is made.
RefusePrompt ==
  /\ pending # << >> /\ tries = << >>
  /\ provider \in {"bedrock", "openai"}
  /\ Close(Failed("provider"), << >>)

\* Mutant: the class of the failure is not asked.
GivesUpLate(class) == provider # "bedrock" \/ Len(tries) + 1 >= Allowance

GivesUp(class) ==
  provider # "bedrock" \/ class \notin Retryable \/ Len(tries) + 1 >= Allowance

CallFails(failure) ==
  LET class == Classify(failure)
      log == Append(tries, class)
  IN  /\ pending # << >>
      /\ IF GivesUp(class) THEN Close(Failed("provider"), log)
         ELSE /\ tries' = log
              /\ UNCHANGED <<subject, provider, pending, attempts, outcome>>

CallAnswers(answer) ==
  /\ pending # << >>
  /\ Close(Attempted(provider, answer, Head(pending)), Append(tries, "answered"))

EndReview ==
  /\ subject # Nothing /\ pending = << >> /\ outcome = NoOutcome
  /\ outcome' = IF subject.kind = "sheet" THEN SheetReview(subject, attempts)
                ELSE ExceptionReview(subject, attempts)
  /\ UNCHANGED <<subject, provider, pending, tries, attempts>>

ReviewNext ==
  \/ \E work \in Sheets \cup Exceptions, who \in {"bedrock", "openai", "mock", "nobody"} :
       BeginReview(work, who)
  \/ RefusePrompt
  \/ \E failure \in Failures : CallFails(failure)
  \/ \E answer \in Answers : CallAnswers(answer)
  \/ EndReview

ReviewSpec == ReviewInit /\ [][ReviewNext]_reviewVars

-----------------------------------------------------------------------------
ModelReviewTypeOK ==
  /\ subject \in Sheets \cup Exceptions \cup {Nothing}
  /\ provider \in {"bedrock", "openai", "mock", "nobody"}
  /\ Len(tries) < Allowance
  /\ \A i \in DOMAIN attempts : attempts[i].error \in {"none", "provider", "schema"}
  /\ outcome.route.status \in {"none", "suggestion_ready", "pending_human", "failed_safe"}

Complete == outcome # NoOutcome
Errors(work) == IF work.kind = "sheet" THEN ErrorCount(work) ELSE 0

(* Whatever the model says, refuses to say or says badly, on any of the    *)
(* requests of a review: a review that asked and never got a checked       *)
(* answer is failed safe, and one that got one is not; it may skip the     *)
(* queue only on an answer to one of its own requests, with nothing wrong  *)
(* on the sheet and no more money in it than the policy lets by; and the   *)
(* correction of a sheet with errors is not talked away (supplier.py:      *)
(* 98-115, routing.py:86-123, "bypass_validation" and                      *)
(* "auto_resolve_high_risk_without_policy", policy.py:19-24).  A           *)
(* confidence that is not a number passes: no comparison holds it back,    *)
(* neither the check's nor the threshold's (schemas.py:56,                 *)
(* routing.py:106, where :45 has "confidence is at least the threshold").  *)
RouteEarned ==
  Complete =>
    /\ outcome.route.status = "failed_safe" <=>
         attempts # << >> /\ \A i \in DOMAIN attempts : attempts[i].error # "none"
    /\ outcome.route.eligibility = "auto_eligible" =>
         /\ \E i \in DOMAIN attempts :
              /\ attempts[i].result = outcome.result
              /\ attempts[i].calls # << >> /\ Last(attempts[i].calls) = "answered"
              /\ outcome.result.type = attempts[i].request \/ provider = "mock"
         /\ outcome.result.risk = "low"
         /\ outcome.result.confidence \in {NaN} \cup MinConfidence..100
         /\ outcome.action \in {"accept", "no_action"}
         /\ Errors(subject) = 0
         /\ subject.kind = "exception" => subject.impact \in -MaxImpact..MaxImpact
    /\ subject.kind = "sheet" =>
         /\ Errors(subject) > 0 => outcome.action = "request_correction"
         /\ outcome.suggestions <= Cardinality(CategoryTexts(subject))

(* No finding of the deterministic checks is dropped from what is shown    *)
(* (supplier.py:223-236).                                                  *)
FindingsShown ==
  Complete /\ subject.kind = "sheet" =>
    \A i \in DOMAIN subject.findings :
      subject.findings[i].code \in ToSet(outcome.priorities)

RouteIsEarned == RouteEarned /\ FindingsShown

(* A request is repeated only after a failure that may pass, at most       *)
(* MaxAttempts calls in all, and never after an answer, even one that      *)
(* fails the check; OpenAI's and the mock's adapters call once, and a      *)
(* failed request does not spare the requests after it theirs              *)
(* (bedrock.py:140-157, openai.py:66, core/retry.py:3-4).                  *)
CallsPaidFor ==
  /\ \A i \in DOMAIN attempts :
       LET calls == attempts[i].calls IN
       /\ Len(calls) <= IF provider = "bedrock" THEN Allowance ELSE 1
       /\ \A k \in 1..(Len(calls) - 1) : calls[k] \in Retryable
       /\ calls # << >> /\ attempts[i].error # "none" =>
            \/ Last(calls) \in {"answered"} \cup (BedrockClasses \ Retryable)
            \/ Len(calls) = IF provider = "bedrock" THEN Allowance ELSE 1
  /\ Complete /\ provider # "nobody" =>
       [i \in DOMAIN attempts |-> attempts[i].request] = RequestsOf(subject)
=============================================================================
