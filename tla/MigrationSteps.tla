--------------------------- MODULE MigrationSteps ---------------------------
(***************************************************************************)
(* The chain of migrations (apps/api/migrations/versions): what each       *)
(* creates and in which order, and what its downgrade drops.  A create     *)
(* stands for create_table with the create_index calls after it; a drop    *)
(* for the drop_index calls before drop_table.                             *)
(***************************************************************************)
EXTENDS TableForms

Create(name, table) == [op |-> "create", name |-> name, table |-> table]
Drop(name, indexes) == [op |-> "drop", name |-> name, indexes |-> indexes]
AddColumn(name, column, null) ==
  [op |-> "add column", name |-> name, column |-> column, null |-> null]
DropColumn(name, column) == [op |-> "drop column", name |-> name, column |-> column]

-----------------------------------------------------------------------------
(* 024162a4b5f3, core retail domain. *)

CreateCategories == Create("categories",
  Table({"code", "name"}, Mutable, {"parent_id"},
        {RefersTo("parent_id", "categories")}, {One("code")},
        {Rule("parent_not_self", {"null", "another id"})}, Indexed({"parent_id"})))

CreateStores == Create("stores",
  Table({"code", "name", "region", "store_type"}, Mutable, {},
        {}, {One("code")}, {}, Indexed({"region", "store_type"})))

CreateSuppliers == Create("suppliers",
  Table({"code", "name"}, Mutable, {"tax_id"}, {}, {One("code")}, {}, {}))

CreateProducts == Create("products",
  Table({"sku", "name", "category_id"}, Mutable, {"description", "ean"},
        {RefersTo("category_id", "categories")}, {One("ean"), One("sku")}, {},
        Indexed({"category_id"})))

CreateSalesRecords == Create("sales_records",
  Table({"store_id", "product_id", "business_date", "units_sold", "unit_price", "stock_on_hand"},
        Fact \cup {"discount_amount", "promotion"}, {},
        {RefersTo("product_id", "products"), RefersTo("store_id", "stores")},
        {<<"store_id", "product_id", "business_date">>},
        {NonNegative(c) : c \in {"discount_amount", "stock_on_hand", "unit_price", "units_sold"}},
        Indexed({"business_date", "product_id", "store_id"})))

CreateSupplierProducts == Create("supplier_products",
  Table({"supplier_id", "product_id", "cost"},
        Mutable \cup {"case_pack", "minimum_order_quantity", "lead_time_days"}, {"supplier_sku"},
        {RefersTo("product_id", "products"), RefersTo("supplier_id", "suppliers")},
        {<<"supplier_id", "product_id">>},
        {AboveZero("case_pack")}
          \cup {NonNegative(c) : c \in {"cost", "lead_time_days", "minimum_order_quantity"}},
        Indexed({"product_id", "supplier_id"})))

UpgradeCatalog == <<CreateCategories, CreateStores, CreateSuppliers, CreateProducts,
                    CreateSalesRecords, CreateSupplierProducts>>

DowngradeCatalog ==
  <<Drop("supplier_products", {"supplier_id", "product_id"}),
    Drop("sales_records", {"store_id", "product_id", "business_date"}),
    Drop("products", {"category_id"}), Drop("suppliers", {}),
    Drop("stores", {"store_type", "region"}), Drop("categories", {"parent_id"})>>

-----------------------------------------------------------------------------
(* c7e4f19a2b08, forecast evaluation. *)

CreateForecastRuns == Create("forecast_runs",
  Table({"model_id", "generated_at", "cutoff", "horizon", "problem_id"}, Fact, {"run_metadata"},
        {}, {}, {FromOne("horizon")}, Indexed({"cutoff", "model_id"})))

CreateForecastPredictions == Create("forecast_predictions",
  Table({"forecast_run_id", "store_code", "category_code", "period_start", "step", "predicted"},
        Fact, {"actual"},
        {OwnedBy("forecast_run_id", "forecast_runs")},
        {<<"forecast_run_id", "store_code", "category_code", "period_start">>},
        {NullOrNonNegative("actual"), NonNegative("predicted"), FromOne("step")},
        Indexed({"forecast_run_id", "period_start"})))

UpgradeForecasts == <<CreateForecastRuns, CreateForecastPredictions>>
DowngradeForecasts ==
  <<Drop("forecast_predictions", {"period_start", "forecast_run_id"}),
    Drop("forecast_runs", {"model_id", "cutoff"})>>

-----------------------------------------------------------------------------
(* d4e8a91c2f07, supplier documents. *)

CreateSupplierDocuments == Create("supplier_documents",
  Table({"supplier_id", "filename", "media_type", "storage_key", "checksum", "document_type",
         "status"}, Mutable, {},
        {RefersTo("supplier_id", "suppliers")}, {One("storage_key")},
        {OneOf("document_type", {"supplier_sheet"}),
         OneOf("status", {"received", "parsed", "parse_failed", "validated", "review_ready"})},
        Indexed({"status", "supplier_id"})))

CreateDocumentFindings == Create("document_findings",
  Table({"document_id", "code", "severity", "message"}, Fact,
        {"field", "row_reference", "proposed_value"},
        {OwnedBy("document_id", "supplier_documents")}, {},
        {OneOf("severity", {"error", "warning", "info"})}, Indexed({"document_id"})))

UpgradeDocuments == <<CreateSupplierDocuments, CreateDocumentFindings>>
DowngradeDocuments ==
  <<Drop("document_findings", {"document_id"}),
    Drop("supplier_documents", {"supplier_id", "status"})>>

-----------------------------------------------------------------------------
(* e8b1c03d4a29, procurement reconciliation. *)

CreatePurchaseOrders == Create("purchase_orders",
  Table({"supplier_id", "store_id", "po_number", "order_date"},
        Mutable \cup {"currency", "status"}, {"expected_date"},
        {RefersTo("supplier_id", "suppliers"), RefersTo("store_id", "stores")},
        {<<"supplier_id", "po_number">>},
        {OneOf("status", {"open", "partial", "received", "closed", "cancelled"}),
         ThreeLetters("currency")},
        Indexed({"status", "store_id", "supplier_id"})))

CreatePurchaseOrderLines == Create("purchase_order_lines",
  Table({"purchase_order_id", "product_id", "line_number", "ordered_quantity", "unit_cost",
         "tax_amount", "line_total"}, Mutable \cup {"tax_rate"}, {},
        {OwnedBy("purchase_order_id", "purchase_orders"), RefersTo("product_id", "products")},
        {<<"purchase_order_id", "line_number">>},
        {AboveZero(c) : c \in {"line_number", "ordered_quantity"}}
          \cup {NonNegative(c) : c \in {"unit_cost", "tax_rate", "tax_amount", "line_total"}},
        Indexed({"product_id", "purchase_order_id"})))

CreateGoodsReceipts == Create("goods_receipts",
  Table({"supplier_id", "receipt_number", "received_date"}, Mutable \cup {"status"},
        {"purchase_order_id", "po_number"},
        {RefersTo("supplier_id", "suppliers"), RefersTo("purchase_order_id", "purchase_orders")},
        {<<"supplier_id", "receipt_number">>}, {OneOf("status", {"posted", "cancelled"})},
        Indexed({"purchase_order_id", "status", "supplier_id"})))

CreateGoodsReceiptLines == Create("goods_receipt_lines",
  Table({"goods_receipt_id", "product_id", "line_number", "received_quantity"}, Mutable,
        {"purchase_order_line_id"},
        {OwnedBy("goods_receipt_id", "goods_receipts"), RefersTo("product_id", "products"),
         RefersTo("purchase_order_line_id", "purchase_order_lines")},
        {<<"goods_receipt_id", "line_number">>},
        {AboveZero(c) : c \in {"line_number", "received_quantity"}},
        Indexed({"goods_receipt_id", "product_id", "purchase_order_line_id"})))

CreateSupplierInvoices == Create("supplier_invoices",
  Table({"supplier_id", "invoice_number", "invoice_date"}, Mutable \cup {"currency", "status"},
        {"purchase_order_id", "po_number"},
        {RefersTo("supplier_id", "suppliers"), RefersTo("purchase_order_id", "purchase_orders")},
        {<<"supplier_id", "invoice_number">>},
        {OneOf("status", {"received", "matched", "exception", "cancelled"}),
         ThreeLetters("currency")},
        Indexed({"purchase_order_id", "status", "supplier_id"})))

CreateSupplierInvoiceLines == Create("supplier_invoice_lines",
  Table({"supplier_invoice_id", "line_number", "invoiced_quantity", "unit_cost", "tax_amount",
         "line_total"}, Mutable \cup {"tax_rate"}, {"product_id", "supplier_sku", "ean"},
        {OwnedBy("supplier_invoice_id", "supplier_invoices"), RefersTo("product_id", "products")},
        {<<"supplier_invoice_id", "line_number">>},
        {AboveZero(c) : c \in {"line_number", "invoiced_quantity"}}
          \cup {NonNegative(c) : c \in {"unit_cost", "tax_rate", "tax_amount", "line_total"}},
        Indexed({"product_id", "supplier_invoice_id"})))

\* The counts a stored run carries.
RunCounts == {"purchase_order_count", "goods_receipt_count", "supplier_invoice_count",
              "exception_count", "error_count", "warning_count", "info_count"}

CreateReconciliationRuns == Create("reconciliation_runs",
  Table({"scope_key", "version", "input_fingerprint", "generated_at", "total_financial_impact",
         "tolerances"} \cup RunCounts, Fact, {"run_metadata"},
        {}, {<<"scope_key", "version">>},
        {FromOne("version")} \cup {NonNegative(c) : c \in RunCounts}, Indexed({"scope_key"})))

\* The rows an exception may point at, with the column that does.
Differing == {<<"purchase_order_id", "purchase_orders">>,
              <<"purchase_order_line_id", "purchase_order_lines">>,
              <<"goods_receipt_id", "goods_receipts">>,
              <<"goods_receipt_line_id", "goods_receipt_lines">>,
              <<"supplier_invoice_id", "supplier_invoices">>,
              <<"supplier_invoice_line_id", "supplier_invoice_lines">>,
              <<"product_id", "products">>}

CreateReconciliationExceptions == Create("reconciliation_exceptions",
  Table({"reconciliation_run_id", "code", "severity", "expected_value", "actual_value",
         "financial_impact", "message"}, Mutable \cup {"resolution_status"},
        {d[1] : d \in Differing},
        {OwnedBy("reconciliation_run_id", "reconciliation_runs")}
          \cup {RefersTo(d[1], d[2]) : d \in Differing},
        {},
        {OneOf("severity", {"error", "warning", "info"}),
         OneOf("resolution_status", {"open", "resolved", "dismissed"})},
        Indexed({"code", "reconciliation_run_id", "resolution_status"} \cup {d[1] : d \in Differing})))

UpgradeProcurement ==
  <<CreatePurchaseOrders, CreatePurchaseOrderLines, CreateGoodsReceipts, CreateGoodsReceiptLines,
    CreateSupplierInvoices, CreateSupplierInvoiceLines, CreateReconciliationRuns,
    CreateReconciliationExceptions>>

DowngradeProcurement ==
  <<Drop("reconciliation_exceptions",
         {"supplier_invoice_line_id", "supplier_invoice_id", "resolution_status",
          "reconciliation_run_id", "purchase_order_line_id", "purchase_order_id", "product_id",
          "goods_receipt_line_id", "goods_receipt_id", "code"}),
    Drop("reconciliation_runs", {"scope_key"}),
    Drop("supplier_invoice_lines", {"supplier_invoice_id", "product_id"}),
    Drop("supplier_invoices", {"supplier_id", "status", "purchase_order_id"}),
    Drop("goods_receipt_lines", {"purchase_order_line_id", "product_id", "goods_receipt_id"}),
    Drop("goods_receipts", {"supplier_id", "status", "purchase_order_id"}),
    Drop("purchase_order_lines", {"purchase_order_id", "product_id"}),
    Drop("purchase_orders", {"supplier_id", "store_id", "status"})>>

-----------------------------------------------------------------------------
(* a9c4e18f7b21, human review. *)

CreateReviewCases == Create("review_cases",
  Table({"subject_type", "priority", "risk", "financial_impact", "status"}, Mutable,
        {"document_finding_id", "reconciliation_exception_id", "supplier_id", "confidence",
         "recommended_action", "reviewer", "opened_at", "decided_at"},
        {RefersTo("document_finding_id", "document_findings"),
         RefersTo("reconciliation_exception_id", "reconciliation_exceptions"),
         RefersTo("supplier_id", "suppliers")},
        {One("document_finding_id"), One("reconciliation_exception_id")},
        {OneOf("status", {"open", "in_review", "approved", "rejected", "corrected", "cancelled"}),
         OneOf("priority", {"low", "medium", "high", "urgent"}),
         OneOf("subject_type", {"document_finding", "reconciliation_exception"}),
         OneOf("risk", {"low", "medium", "high"}),
         Rule("subject_matches_type", {"a finding alone", "an exception alone"}),
         UnitInterval("confidence", {"null"})},
        Indexed({"created_at", "priority", "risk", "status", "subject_type", "supplier_id"})))

CreateReviewSnapshots == Create("review_ai_snapshots",
  Table({"review_case_id", "provider", "model", "prompt_id", "prompt_version", "original_output",
         "confidence", "recommendation", "input_hash", "reference_key"}, Fact, {},
        {OwnedBy("review_case_id", "review_cases")}, {One("review_case_id")},
        {UnitInterval("confidence", {})}, {}))

CreateReviewDecisions == Create("review_decisions",
  Table({"review_case_id", "decision", "reviewer"}, Fact,
        {"snapshot_id", "reason", "comment", "accepted_recommendation_ref", "correction"},
        {OwnedBy("review_case_id", "review_cases"),
         RefersTo("snapshot_id", "review_ai_snapshots")},
        {One("review_case_id")},
        {OneOf("decision", {"approved", "rejected", "corrected"}),
         Rule("reject_requires_reason", {"not rejected", "a reason"}),
         Rule("correct_requires_payload", {"not corrected", "a correction"})},
        Indexed({"snapshot_id"})))

CreateReviewAuditEvents == Create("review_audit_events",
  Table({"review_case_id", "event_type", "actor"}, Fact, {"from_status", "to_status", "payload"},
        {OwnedBy("review_case_id", "review_cases")}, {},
        {OneOf("event_type", {"created", "opened", "assigned", "approved", "rejected",
                              "corrected", "status_changed"})},
        Indexed({"event_type", "review_case_id"})))

\* Mutant: the snapshots go before the decisions that point at them.
SnapshotsFirst ==
  <<Drop("review_audit_events", {"review_case_id", "event_type"}),
    Drop("review_ai_snapshots", {}), Drop("review_decisions", {"snapshot_id"}),
    Drop("review_cases", {"supplier_id", "subject_type", "status", "risk", "priority",
                          "created_at"})>>

UpgradeReview == <<CreateReviewCases, CreateReviewSnapshots, CreateReviewDecisions,
                   CreateReviewAuditEvents>>
DowngradeReview ==
  <<Drop("review_audit_events", {"review_case_id", "event_type"}),
    Drop("review_decisions", {"snapshot_id"}), Drop("review_ai_snapshots", {}),
    Drop("review_cases", {"supplier_id", "subject_type", "status", "risk", "priority",
                          "created_at"})>>

-----------------------------------------------------------------------------
(* b5d3f70c9a14, verified reviewer identity, and c1e7a4b09d35, processing jobs. *)

\* Mutant: the subject of a decision is required.
SubjectRequired == <<AddColumn("review_cases", "reviewer_subject", TRUE),
                     AddColumn("review_decisions", "reviewer_subject", FALSE),
                     AddColumn("review_audit_events", "actor_subject", TRUE)>>

UpgradeIdentity == <<AddColumn("review_cases", "reviewer_subject", TRUE),
                     AddColumn("review_decisions", "reviewer_subject", TRUE),
                     AddColumn("review_audit_events", "actor_subject", TRUE)>>
DowngradeIdentity == <<DropColumn("review_audit_events", "actor_subject"),
                       DropColumn("review_decisions", "reviewer_subject"),
                       DropColumn("review_cases", "reviewer_subject")>>

CreateProcessingJobs == Create("processing_jobs",
  Table({"kind", "state", "idempotency_key", "requested_by", "request", "available_at"},
        Mutable \cup {"attempts", "max_attempts"},
        {"requested_by_subject", "result", "failure_reason", "leased_until", "lease_token",
         "started_at", "finished_at"},
        {}, {<<"kind", "idempotency_key">>},
        {OneOf("kind", {"document_intake", "reconciliation", "forecast"}),
         OneOf("state", {"queued", "running", "succeeded", "failed", "cancelled"}),
         NonNegative("attempts"), FromOne("max_attempts")},
        Indexed({"kind", "state"}) \cup {<<"claimable", <<"state", "available_at">>>>}))

UpgradeJobs == <<CreateProcessingJobs>>
DowngradeJobs == <<Drop("processing_jobs", {"claimable", "state", "kind"})>>

-----------------------------------------------------------------------------
\* The chain by revision: bootstrap is empty; each names the one before it.
Chain == << [up |-> << >>,            down |-> << >>],
            [up |-> UpgradeCatalog,     down |-> DowngradeCatalog],
            [up |-> UpgradeForecasts,   down |-> DowngradeForecasts],
            [up |-> UpgradeDocuments,   down |-> DowngradeDocuments],
            [up |-> UpgradeProcurement, down |-> DowngradeProcurement],
            [up |-> UpgradeReview,      down |-> DowngradeReview],
            [up |-> UpgradeIdentity,    down |-> DowngradeIdentity],
            [up |-> UpgradeJobs,        down |-> DowngradeJobs] >>
LastRevision == Len(Chain)
=============================================================================
