---------------------------- MODULE DomainTables ----------------------------
(***************************************************************************)
(* The tables as the application declares them (domain/models): what the   *)
(* code reads and writes, and what a row may hold because an enumeration   *)
(* or a check says so.  A default only Python supplies does not count: the *)
(* application gives such a column its value on every insert.              *)
(***************************************************************************)
EXTENDS TableForms

DocumentTypes        == {"supplier_sheet"}
DocumentStatuses     == {"received", "parsed", "parse_failed", "validated", "review_ready"}
FindingSeverities    == {"error", "warning", "info"}
ReceiptStatuses      == {"posted", "cancelled"}
JobKinds             == {"document_intake", "reconciliation", "forecast"}
JobStates            == {"queued", "running", "succeeded", "failed", "cancelled"}
OrderStatuses        == {"open", "partial", "received", "closed", "cancelled"}
InvoiceStatuses      == {"received", "matched", "exception", "cancelled"}
ExceptionSeverities  == {"error", "warning", "info"}
ExceptionResolutions == {"open", "resolved", "dismissed"}
ReviewStatuses       == {"open", "in_review", "approved", "rejected", "corrected", "cancelled"}
ReviewDecisions      == {"approved", "rejected", "corrected"}
ReviewPriorities     == {"low", "medium", "high", "urgent"}
ReviewSubjectTypes   == {"document_finding", "reconciliation_exception"}
ReviewEventTypes     == {"created", "opened", "assigned", "approved", "rejected", "corrected",
                         "status_changed"}
Risks                == {"low", "medium", "high"}

-----------------------------------------------------------------------------
Category == Table({"code", "name"}, Mutable, {"parent_id"},
  {RefersTo("parent_id", "categories")}, {One("code")},
  {Rule("parent_not_self", {"null", "another id"})}, Indexed({"parent_id"}))

Store == Table({"code", "name", "region", "store_type"}, Mutable, {},
  {}, {One("code")}, {}, Indexed({"region", "store_type"}))

Supplier == Table({"code", "name"}, Mutable, {"tax_id"}, {}, {One("code")}, {}, {})

Product == Table({"sku", "name", "category_id"}, Mutable, {"description", "ean"},
  {RefersTo("category_id", "categories")}, {One("sku"), One("ean")}, {},
  Indexed({"category_id"}))

SalesRecord == Table(
  {"store_id", "product_id", "business_date", "units_sold", "unit_price", "stock_on_hand"},
  Fact \cup {"discount_amount", "promotion"}, {},
  {RefersTo("store_id", "stores"), RefersTo("product_id", "products")},
  {<<"store_id", "product_id", "business_date">>},
  {NonNegative(c) : c \in {"units_sold", "unit_price", "discount_amount", "stock_on_hand"}},
  Indexed({"store_id", "product_id", "business_date"}))

SupplierProduct == Table({"supplier_id", "product_id", "cost"},
  Mutable \cup {"case_pack", "minimum_order_quantity", "lead_time_days"}, {"supplier_sku"},
  {RefersTo("supplier_id", "suppliers"), RefersTo("product_id", "products")},
  {<<"supplier_id", "product_id">>},
  {NonNegative("cost"), AboveZero("case_pack"), NonNegative("minimum_order_quantity"),
   NonNegative("lead_time_days")},
  Indexed({"supplier_id", "product_id"}))

ForecastRun == Table({"model_id", "generated_at", "cutoff", "horizon", "problem_id"}, Fact,
  {"run_metadata"}, {}, {}, {FromOne("horizon")}, Indexed({"model_id", "cutoff"}))

ForecastPrediction == Table(
  {"forecast_run_id", "store_code", "category_code", "period_start", "step", "predicted"},
  Fact, {"actual"}, {OwnedBy("forecast_run_id", "forecast_runs")},
  {<<"forecast_run_id", "store_code", "category_code", "period_start">>},
  {FromOne("step"), NonNegative("predicted"), NullOrNonNegative("actual")},
  Indexed({"forecast_run_id", "period_start"}))

SupplierDocument == Table(
  {"supplier_id", "filename", "media_type", "storage_key", "checksum", "document_type", "status"},
  Mutable, {}, {RefersTo("supplier_id", "suppliers")}, {One("storage_key")},
  {OneOf("document_type", DocumentTypes), OneOf("status", DocumentStatuses)},
  Indexed({"supplier_id", "status"}))

DocumentFinding == Table({"document_id", "code", "severity", "message"}, Fact,
  {"field", "row_reference", "proposed_value"}, {OwnedBy("document_id", "supplier_documents")},
  {}, {OneOf("severity", FindingSeverities)}, Indexed({"document_id"}))

PurchaseOrder == Table({"supplier_id", "store_id", "po_number", "order_date"},
  Mutable \cup {"currency", "status"}, {"expected_date"},
  {RefersTo("supplier_id", "suppliers"), RefersTo("store_id", "stores")},
  {<<"supplier_id", "po_number">>}, {OneOf("status", OrderStatuses), ThreeLetters("currency")},
  Indexed({"supplier_id", "store_id", "status"}))

PurchaseOrderLine == Table(
  {"purchase_order_id", "product_id", "line_number", "ordered_quantity", "unit_cost",
   "tax_amount", "line_total"}, Mutable \cup {"tax_rate"}, {},
  {OwnedBy("purchase_order_id", "purchase_orders"), RefersTo("product_id", "products")},
  {<<"purchase_order_id", "line_number">>},
  {AboveZero("line_number"), AboveZero("ordered_quantity"), NonNegative("unit_cost"),
   NonNegative("tax_rate"), NonNegative("tax_amount"), NonNegative("line_total")},
  Indexed({"purchase_order_id", "product_id"}))

GoodsReceipt == Table({"supplier_id", "receipt_number", "received_date"}, Mutable \cup {"status"},
  {"purchase_order_id", "po_number"},
  {RefersTo("supplier_id", "suppliers"), RefersTo("purchase_order_id", "purchase_orders")},
  {<<"supplier_id", "receipt_number">>}, {OneOf("status", ReceiptStatuses)},
  Indexed({"supplier_id", "purchase_order_id", "status"}))

GoodsReceiptLine == Table({"goods_receipt_id", "product_id", "line_number", "received_quantity"},
  Mutable, {"purchase_order_line_id"},
  {OwnedBy("goods_receipt_id", "goods_receipts"), RefersTo("product_id", "products"),
   RefersTo("purchase_order_line_id", "purchase_order_lines")},
  {<<"goods_receipt_id", "line_number">>},
  {AboveZero("line_number"), AboveZero("received_quantity")},
  Indexed({"goods_receipt_id", "product_id", "purchase_order_line_id"}))

SupplierInvoice == Table({"supplier_id", "invoice_number", "invoice_date"},
  Mutable \cup {"currency", "status"}, {"purchase_order_id", "po_number"},
  {RefersTo("supplier_id", "suppliers"), RefersTo("purchase_order_id", "purchase_orders")},
  {<<"supplier_id", "invoice_number">>},
  {OneOf("status", InvoiceStatuses), ThreeLetters("currency")},
  Indexed({"supplier_id", "purchase_order_id", "status"}))

SupplierInvoiceLine == Table(
  {"supplier_invoice_id", "line_number", "invoiced_quantity", "unit_cost", "tax_amount",
   "line_total"}, Mutable \cup {"tax_rate"}, {"product_id", "supplier_sku", "ean"},
  {OwnedBy("supplier_invoice_id", "supplier_invoices"), RefersTo("product_id", "products")},
  {<<"supplier_invoice_id", "line_number">>},
  {AboveZero("line_number"), AboveZero("invoiced_quantity"), NonNegative("unit_cost"),
   NonNegative("tax_rate"), NonNegative("tax_amount"), NonNegative("line_total")},
  Indexed({"supplier_invoice_id", "product_id"}))

Tallies == {"exception_count", "error_count", "warning_count", "info_count",
            "purchase_order_count", "goods_receipt_count", "supplier_invoice_count"}

ReconciliationRun == Table(
  {"scope_key", "version", "input_fingerprint", "generated_at", "total_financial_impact",
   "tolerances"} \cup Tallies, Fact, {"run_metadata"}, {}, {<<"scope_key", "version">>},
  {FromOne("version")} \cup {NonNegative(c) : c \in Tallies}, Indexed({"scope_key"}))

ReconciliationException == Table(
  {"reconciliation_run_id", "code", "severity", "expected_value", "actual_value",
   "financial_impact", "message"}, Mutable \cup {"resolution_status"},
  {"purchase_order_id", "purchase_order_line_id", "goods_receipt_id", "goods_receipt_line_id",
   "supplier_invoice_id", "supplier_invoice_line_id", "product_id"},
  {OwnedBy("reconciliation_run_id", "reconciliation_runs"),
   RefersTo("purchase_order_id", "purchase_orders"),
   RefersTo("purchase_order_line_id", "purchase_order_lines"),
   RefersTo("goods_receipt_id", "goods_receipts"),
   RefersTo("goods_receipt_line_id", "goods_receipt_lines"),
   RefersTo("supplier_invoice_id", "supplier_invoices"),
   RefersTo("supplier_invoice_line_id", "supplier_invoice_lines"),
   RefersTo("product_id", "products")}, {},
  {OneOf("severity", ExceptionSeverities), OneOf("resolution_status", ExceptionResolutions)},
  Indexed({"reconciliation_run_id", "code", "purchase_order_id", "purchase_order_line_id",
           "goods_receipt_id", "goods_receipt_line_id", "supplier_invoice_id",
           "supplier_invoice_line_id", "product_id", "resolution_status"}))

ReviewCase == Table({"subject_type", "priority", "risk", "financial_impact", "status"}, Mutable,
  {"document_finding_id", "reconciliation_exception_id", "supplier_id", "confidence",
   "recommended_action", "reviewer", "reviewer_subject", "opened_at", "decided_at"},
  {RefersTo("document_finding_id", "document_findings"),
   RefersTo("reconciliation_exception_id", "reconciliation_exceptions"),
   RefersTo("supplier_id", "suppliers")},
  {One("document_finding_id"), One("reconciliation_exception_id")},
  {OneOf("status", ReviewStatuses), OneOf("priority", ReviewPriorities),
   OneOf("subject_type", ReviewSubjectTypes), OneOf("risk", Risks),
   Rule("subject_matches_type", {"a finding alone", "an exception alone"}),
   UnitInterval("confidence", {"null"})},
  Indexed({"subject_type", "supplier_id", "priority", "risk", "status", "created_at"}))

ReviewAISnapshot == Table(
  {"review_case_id", "provider", "model", "prompt_id", "prompt_version", "original_output",
   "confidence", "recommendation", "input_hash", "reference_key"}, Fact, {},
  {OwnedBy("review_case_id", "review_cases")}, {One("review_case_id")},
  {UnitInterval("confidence", {})}, {})

ReviewDecisionRecord == Table({"review_case_id", "decision", "reviewer"}, Fact,
  {"snapshot_id", "reviewer_subject", "reason", "comment", "accepted_recommendation_ref",
   "correction"},
  {OwnedBy("review_case_id", "review_cases"), RefersTo("snapshot_id", "review_ai_snapshots")},
  {One("review_case_id")},
  {OneOf("decision", ReviewDecisions),
   Rule("reject_requires_reason", {"not rejected", "a reason"}),
   Rule("correct_requires_payload", {"not corrected", "a correction"})},
  Indexed({"snapshot_id"}))

ReviewAuditEvent == Table({"review_case_id", "event_type", "actor"}, Fact,
  {"actor_subject", "from_status", "to_status", "payload"},
  {OwnedBy("review_case_id", "review_cases")}, {}, {OneOf("event_type", ReviewEventTypes)},
  Indexed({"review_case_id", "event_type"}))

\* Both counters have a default in Python alone.
ProcessingJob == Table(
  {"kind", "state", "idempotency_key", "requested_by", "request", "attempts", "max_attempts",
   "available_at"}, Mutable,
  {"requested_by_subject", "result", "failure_reason", "leased_until", "lease_token",
   "started_at", "finished_at"}, {}, {<<"kind", "idempotency_key">>},
  {OneOf("kind", JobKinds), OneOf("state", JobStates), NonNegative("attempts"),
   FromOne("max_attempts")},
  Indexed({"kind", "state"}) \cup {<<"claimable", <<"state", "available_at">>>>})

-----------------------------------------------------------------------------
\* Base.metadata: every model the package exports.
Declared ==
  [categories |-> Category, stores |-> Store, suppliers |-> Supplier, products |-> Product,
   sales_records |-> SalesRecord, supplier_products |-> SupplierProduct,
   forecast_runs |-> ForecastRun, forecast_predictions |-> ForecastPrediction,
   supplier_documents |-> SupplierDocument, document_findings |-> DocumentFinding,
   purchase_orders |-> PurchaseOrder, purchase_order_lines |-> PurchaseOrderLine,
   goods_receipts |-> GoodsReceipt, goods_receipt_lines |-> GoodsReceiptLine,
   supplier_invoices |-> SupplierInvoice, supplier_invoice_lines |-> SupplierInvoiceLine,
   reconciliation_runs |-> ReconciliationRun,
   reconciliation_exceptions |-> ReconciliationException,
   review_cases |-> ReviewCase, review_ai_snapshots |-> ReviewAISnapshot,
   review_decisions |-> ReviewDecisionRecord, review_audit_events |-> ReviewAuditEvent,
   processing_jobs |-> ProcessingJob]
=============================================================================
